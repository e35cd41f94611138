--------------------------- MODULE RollbackGuard ----------------------------
(***************************************************************************)
(* What app/write_safety.py promises of every write, whatever sessions,    *)
(* timeouts, logouts and restarts do to the requests: the running config   *)
(* of the switch changes only in a writable deployment, at most once for   *)
(* each request, and only after a configuration the switch really had was  *)
(* saved on behalf of that request.                                        *)
(***************************************************************************)
CONSTANTS Handlers, Configs

VARIABLES
    writable,   \* the deployment accepts writes
    live,       \* the running config
    past,       \* the configs the switch has had, live included
    saved,      \* the backups ever saved: <<request, config>>
    done        \* the requests whose write took effect

guardVars == <<writable, live, past, saved, done>>

Init ==
    /\ writable \in BOOLEAN
    /\ live \in Configs
    /\ past = {live}
    /\ saved = {}
    /\ done = {}

\* A request saves a config the switch has had.
Snapshot(h) ==
    /\ h \notin {b[1] : b \in saved}
    /\ \E c \in past : saved' = saved \cup {<<h, c>>}
    /\ UNCHANGED <<writable, live, past, done>>

\* A request with its rollback point saved changes the config.
Change(h) ==
    /\ writable
    /\ h \notin done
    /\ h \in {b[1] : b \in saved}
    /\ live' \in Configs
    /\ past' = past \cup {live'}
    /\ done' = done \cup {h}
    /\ UNCHANGED <<writable, saved>>

\* A request acts on the switch without touching its config.
Poke(h) ==
    /\ writable
    /\ h \notin done
    /\ done' = done \cup {h}
    /\ UNCHANGED <<writable, live, past, saved>>

Next == \E h \in Handlers : Snapshot(h) \/ Change(h) \/ Poke(h)

Spec == Init /\ [][Next]_guardVars
=============================================================================
