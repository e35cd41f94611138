---------------------------- MODULE WriteSafety -----------------------------
(***************************************************************************)
(* The write path of the backend: the HTTP handlers that write to the      *)
(* switch, from the session check to the response, over the shared switch  *)
(* link (SwitchLink).  app/write_safety.py is the wrapper they go through; *)
(* app/api/*.py says which gates each endpoint has.                        *)
(*                                                                         *)
(* A configuration is the set of edits it contains: the edit of handler h  *)
(* is h itself, Seed marks an older configuration kept as a backup before  *)
(* the run.  Each handler is one request.                                  *)
(*                                                                         *)
(* An answer of the switch is "ok", an "error" (a status or a body that    *)
(* the endpoint's check takes for one), or a "diagnostic": status 200 with *)
(* a complaint the check does not know (transport.py:155-158).             *)
(* before, hits, hist, from and refusal are history variables.             *)
(***************************************************************************)
EXTENDS Naturals, Functions, SequencesExt

CONSTANTS Handlers, Sessions, NoHandler, Seed, MaxRestarts

ASSUME WriteAssumption ==
    /\ NoHandler \notin Handlers
    /\ Seed \notin Handlers
    /\ Sessions # {}
    /\ MaxRestarts \in Nat

VARIABLES
    client, sem, call, wire,    \* the switch link
    mode,       \* READ_ONLY as app.settings reads it and as procurve_client does
    pc,         \* where each handler is
    job,        \* the request each handler serves
    src,        \* restore: the configuration loaded from the store
    snap,       \* the configuration the handler downloaded
    answer,     \* the switch's last answer to the handler
    resp,       \* the response the handler gave
    saved,      \* the backups in the store: [by, config]
    live,       \* the running configuration of the switch
    restarts,   \* restarts of the backend so far
    hist,       \* every running configuration the switch has had, in order
    from,       \* Len(hist) when the request arrived
    before,     \* Len(hist) when the handler's write took effect
    hits,       \* how many times the handler's write took effect
    refusal     \* what the switch answered when it refused the handler's write

link    == <<client, sem, call, wire>>
handler == <<pc, job, src, snap, answer, resp>>
history == <<hist, from, before, hits, refusal>>
vars    == <<link, mode, handler, saved, live, restarts, history>>

Link == INSTANCE SwitchLink
            WITH Tasks <- Handlers, Ops <- {"download", "write"}, NoTask <- NoHandler

Configs == SUBSET (Handlers \cup {Seed})
Backups == [by: Handlers \cup {Seed}, config: Configs]
OldBackup == [by |-> Seed, config |-> {Seed}]

-----------------------------------------------------------------------------
(***************************************************************************)
(* The write endpoints and their gates.  Kinds of request:                 *)
(*   edit     write_with_autobackup; the answer of the switch is checked   *)
(*   loose    the same, but only the body of the answer is looked at: an   *)
(*            HTTP error status with an empty body passes for success      *)
(*   lockout  edit  behind require_host_confirmation                       *)
(*   locked   loose behind require_host_confirmation                       *)
(*   restore  lockout, of a stored backup                                  *)
(*   reset    lockout, and a broken connection passes for success          *)
(*   poke     require_writable only: the config is not concerned           *)
(*   backup   a manual backup: no gate, download and save                  *)
(***************************************************************************)
ConfigurationWrites ==
    [system |-> "edit", ip |-> "lockout", gateway |-> "edit", port |-> "edit",
     device_features |-> "edit", fault_detection |-> "edit", monitor |-> "edit",
     bob_ports |-> "edit"]

QosWrites ==
    [cos |-> "edit", user_pri |-> "edit", vlan_pri |-> "edit", mode |-> "edit",
     dscp |-> "edit", diffserv |-> "edit", cos_proto |-> "edit", support |-> "edit"]

SecurityWrites ==
    [web_access |-> "locked", web_managers |-> "locked", device_passwords |-> "locked",
     per_port |-> "loose", intrusion_reset |-> "loose"]

VlanWrites ==
    [create |-> "locked", delete |-> "locked", rename |-> "locked", ports |-> "locked"]

StatusWrites == [ack |-> "poke", delete |-> "poke"]

DiagnosticsWrites == [ping |-> "poke", link_test |-> "poke", device_reset |-> "reset"]

BackupsWrites == [create |-> "backup", restore |-> "restore"]

Kinds == UNION {Range(ConfigurationWrites), Range(QosWrites), Range(SecurityWrites),
                Range(VlanWrites), Range(StatusWrites), Range(DiagnosticsWrites),
                Range(BackupsWrites)}

Confirmed   == {"lockout", "locked", "restore", "reset"}
AutoBackup  == {"edit", "loose"} \cup Confirmed
Unchecked   == {"loose", "locked"}

\* Kinds whose endpoints look for a known good body: VLAN writes, ping, link test.
Parsed      == Unchecked \cup {"poke"}

\* What a write of handler h makes of configuration c.
Effect(h, c) ==
    CASE job[h].kind = "restore"           -> src[h]
      [] job[h].kind \in {"reset", "poke"} -> c
      [] OTHER                             -> c \cup {h}

\* Variant with a defect: the host confirmation is not looked at.
RefusedReadOnlyOnly(j) == mode.app = "read_only" /\ j.kind # "backup"

\* require_writable / the read_only check of restore, require_host_confirmation.
Refused(j) ==
    \/ mode.app = "read_only" /\ j.kind # "backup"
    \/ j.kind \in Confirmed /\ ~j.typed

-----------------------------------------------------------------------------
\* typed: confirm_switch_host is the switch host (only the confirmed kinds read it).
Jobs == {j \in [kind: Kinds, via: Sessions, typed: BOOLEAN] :
            j.typed => j.kind \in Confirmed}
NoJob == [kind |-> "none"]

TypeOK ==
    /\ Link!TypeOK
    /\ mode \in [app: {"read_only", "writable"}, env: {"read_only", "writable"}]
    /\ pc \in [Handlers -> {"idle", "entered", "calling", "done"}]
    /\ job \in [Handlers -> Jobs \cup {NoJob}]
    /\ src \in [Handlers -> Configs]
    /\ snap \in [Handlers -> Configs]
    /\ answer \in [Handlers -> {"none", "ok", "error", "diagnostic"}]
    /\ resp \in [Handlers -> {"none", "ok", "refused", "error", "lost"}]
    /\ saved \subseteq Backups
    /\ live \in Configs
    /\ restarts \in 0..MaxRestarts
    /\ hist \in Seq(Configs)
    /\ from \in [Handlers -> Nat]
    /\ before \in [Handlers -> Nat]
    /\ hits \in [Handlers -> Nat]
    /\ refusal \in [Handlers -> {"none", "error", "diagnostic"}]

Init ==
    /\ Link!Init
    /\ mode \in [app: {"read_only", "writable"}, env: {"read_only", "writable"}]
    /\ pc = [h \in Handlers |-> "idle"]
    /\ job = [h \in Handlers |-> NoJob]
    /\ src = [h \in Handlers |-> {}]
    /\ snap = [h \in Handlers |-> {}]
    /\ answer = [h \in Handlers |-> "none"]
    /\ resp = [h \in Handlers |-> "none"]
    /\ saved = {OldBackup}
    /\ live = {}
    /\ restarts = 0
    /\ hist = <<{}>>
    /\ from = [h \in Handlers |-> 0]
    /\ before = [h \in Handlers |-> 0]
    /\ hits = [h \in Handlers |-> 0]
    /\ refusal = [h \in Handlers |-> "none"]

-----------------------------------------------------------------------------
(***************************************************************************)
(* A handler.                                                              *)
(***************************************************************************)
\* The request arrives with a live session: get_session hands out its transport.
Arrive(h) ==
    /\ pc[h] = "idle"
    /\ \E j \in Jobs :
        /\ client[j.via] = "open"
        /\ job' = [job EXCEPT ![h] = j]
    /\ pc' = [pc EXCEPT ![h] = "entered"]
    /\ from' = [from EXCEPT ![h] = Len(hist)]
    /\ UNCHANGED <<link, mode, src, snap, answer, resp, saved, live, restarts,
                   hist, before, hits, refusal>>

\* The response is given; what the handler held in memory is gone.  The body of
\* a restore stays in src: its request may still be on the way to the switch.
Respond(h, r) ==
    /\ pc' = [pc EXCEPT ![h] = "done"]
    /\ resp' = [resp EXCEPT ![h] = r]
    /\ snap' = [snap EXCEPT ![h] = {}]
    /\ answer' = [answer EXCEPT ![h] = "none"]
    /\ UNCHANGED <<job, src>>

\* A gate refuses the request (403 read_only, 400 host_mismatch), or restore
\* does not find the backup it names (404).
Reject(h) ==
    /\ pc[h] = "entered"
    /\ \/ Refused(job[h])
       \/ job[h].kind = "restore"
       \/ job[h].kind = "poke" /\ mode.env = "read_only"
    /\ Respond(h, "refused")
    /\ UNCHANGED <<link, mode, saved, live, restarts, history>>

\* The gates pass; restore has loaded its backup; the first request to the
\* switch is made: the pre-write download, or the write of a poke.
Start(h) ==
    /\ pc[h] = "entered"
    /\ ~Refused(job[h])
    /\ client[job[h].via] = "open"
    /\ job[h].kind = "poke" => mode.env = "writable"
    /\ IF job[h].kind = "restore"
       THEN \E b \in saved : src' = [src EXCEPT ![h] = b.config]
       ELSE UNCHANGED src
    /\ Link!Call(h, job[h].via, IF job[h].kind = "poke" THEN "write" ELSE "download")
    /\ pc' = [pc EXCEPT ![h] = "calling"]
    /\ UNCHANGED <<mode, job, snap, answer, resp, saved, live, restarts, history>>

\* The session was logged out between the session check and the first request.
StartOnClosed(h) ==
    /\ pc[h] = "entered"
    /\ ~Refused(job[h])
    /\ client[job[h].via] = "closed"
    /\ Respond(h, "error")
    /\ UNCHANGED <<link, mode, saved, live, restarts, history>>

\* The permit has come: the request goes out.
SendRequest(h) ==
    /\ Link!Send(h)
    /\ UNCHANGED <<mode, handler, saved, live, restarts, history>>

\* Variant with a defect: restore saves the configuration it is about to upload.
SavePayload(h) ==
    saved' = saved \cup {[by |-> h, config |-> IF job[h].kind = "restore"
                                              THEN src[h] ELSE snap[h]]}

\* BackupStore.save of the configuration the handler downloaded.
Save(h) ==
    saved' = saved \cup {[by |-> h, config |-> snap[h]]}

\* Variant with a defect: the save is left to a later moment.
WriteWithoutBackup(h) ==
    /\ call[h] # Link!Idle
    /\ call[h].op = "download"
    /\ answer[h] = "ok"
    /\ job[h].kind \in AutoBackup
    /\ mode.env = "writable"
    /\ Link!ReturnAndCall(h, job[h].via, "write")
    /\ UNCHANGED <<mode, handler, saved, live, restarts, history>>

\* The download is answered, the backup saved, and write() makes its request.
BackupThenWrite(h) ==
    /\ call[h] # Link!Idle
    /\ call[h].op = "download"
    /\ answer[h] = "ok"
    /\ job[h].kind \in AutoBackup
    /\ mode.env = "writable"
    /\ Link!ReturnAndCall(h, job[h].via, "write")
    /\ Save(h)
    /\ UNCHANGED <<mode, handler, live, restarts, history>>

\* The download is answered and the backup saved, and the handler ends there: a
\* manual backup; or write() is refused by @WRITE (the READ_ONLY of the
\* environment), or finds the client closed.
BackupOnly(h) ==
    /\ call[h] # Link!Idle
    /\ call[h].op = "download"
    /\ answer[h] = "ok"
    /\ Link!Return(h)
    /\ Save(h)
    /\ \/ job[h].kind = "backup" /\ Respond(h, "ok")
       \/ job[h].kind # "backup" /\ mode.env = "read_only" /\ Respond(h, "refused")
       \/ /\ job[h].kind # "backup"
          /\ mode.env = "writable"
          /\ client[job[h].via] = "closed"
          /\ Respond(h, "error")
    /\ UNCHANGED <<mode, live, restarts, history>>

\* The download is answered but is no configuration, or the save fails: no write.
BackupFails(h) ==
    /\ call[h] # Link!Idle
    /\ call[h].op = "download"
    /\ Link!Return(h)
    /\ Respond(h, "error")
    /\ UNCHANGED <<mode, saved, live, restarts, history>>

\* Variant with a defect: every answer is a success.
VerdictOk(h, a) == {"ok"}

\* How a handler may report the answer a of the switch to its write: only an
\* answer that the check of the endpoint knows for an error is one, so that a
\* diagnostic passes for success.
Verdict(h, a) ==
    {r \in {"ok", "error"} :
        /\ r = "ok" => a # "error" \/ job[h].kind \in Unchecked
        /\ r = "error" => a = "error" \/ (a = "diagnostic" /\ job[h].kind \in Parsed)}

\* The write is answered: ensure_write_ok, the checks of upload_config, the body
\* parsers of the VLAN and security writes.
WriteReturns(h) ==
    /\ call[h] # Link!Idle
    /\ call[h].op = "write"
    /\ Link!Return(h)
    /\ \E r \in Verdict(h, answer[h]) : Respond(h, r)
    /\ UNCHANGED <<mode, saved, live, restarts, history>>

\* A request ends without an answer: timeout, broken connection, closed client.
\* device_reset takes a connection that broke after the connect for success.
RequestFails(h) ==
    /\ \/ Link!SendOnClosed(h) /\ Respond(h, "error")
       \/ /\ Link!Fail(h)
          /\ \/ Respond(h, "error")
             \/ job[h].kind = "reset" /\ call[h].op = "write" /\ Respond(h, "ok")
    /\ UNCHANGED <<mode, saved, live, restarts, history>>

-----------------------------------------------------------------------------
(***************************************************************************)
(* The switch, the other users of the backend, and its restarts.           *)
(***************************************************************************)
\* Variant with a defect: a late answer is kept for a handler that gave up.
AnswerLate(h, a) ==
    answer' = [answer EXCEPT ![h] = IF call[h] = Link!Idle THEN "late" ELSE a]

\* The answer reaches the handler only if it has not given up on the request.
Answer(h, a) ==
    answer' = IF call[h] = Link!Idle THEN answer ELSE [answer EXCEPT ![h] = a]

ServeDownload(h) ==
    /\ Link!Serve(h, "download")
    /\ \E a \in {"ok", "error"} : Answer(h, a)
    /\ IF call[h] = Link!Idle
       THEN UNCHANGED snap
       ELSE snap' = [snap EXCEPT ![h] = live]
    /\ UNCHANGED <<mode, pc, job, src, resp, saved, live, restarts, history>>

\* The write takes effect; the switch may still answer with a complaint.
ServeWrite(h) ==
    /\ Link!Serve(h, "write")
    /\ \E a \in {"ok", "error", "diagnostic"} : Answer(h, a)
    /\ live' = Effect(h, live)
    /\ hist' = IF live' = live THEN hist ELSE Append(hist, live')
    /\ before' = [before EXCEPT ![h] = Len(hist)]
    /\ hits' = [hits EXCEPT ![h] = @ + 1]
    /\ UNCHANGED <<mode, pc, job, src, snap, resp, saved, restarts, from, refusal>>

\* The switch rejects the write, in a way the check knows or in another.
RejectWrite(h) ==
    /\ Link!Serve(h, "write")
    /\ \E a \in {"error", "diagnostic"} :
        /\ Answer(h, a)
        /\ refusal' = [refusal EXCEPT ![h] = a]
    /\ UNCHANGED <<mode, pc, job, src, snap, resp, saved, live, restarts,
                   hist, from, before, hits>>

LoseRequest(h) ==
    /\ \E o \in {"download", "write"} : Link!Lose(h, o)
    /\ UNCHANGED <<mode, handler, saved, live, restarts, history>>

Logout(s) ==
    /\ Link!Close(s)
    /\ UNCHANGED <<mode, handler, saved, live, restarts, history>>

\* The process ends with its handlers and sessions and starts again, and the
\* operators log in again; the backups and the switch stay as they are.
Restart ==
    /\ restarts < MaxRestarts
    /\ restarts' = restarts + 1
    /\ client' = [s \in Sessions |-> "open"]
    /\ sem' = [holder |-> NoHandler, queue |-> << >>]
    /\ call' = [h \in Handlers |-> Link!Idle]
    /\ wire' = [h \in Handlers |-> [o \in DOMAIN wire[h] |->
                  IF wire[h][o] = "answered" THEN "none" ELSE wire[h][o]]]
    /\ pc' = [h \in Handlers |-> IF pc[h] = "idle" THEN "idle" ELSE "done"]
    /\ resp' = [h \in Handlers |-> IF pc[h] \in {"entered", "calling"} THEN "lost"
                                   ELSE resp[h]]
    /\ snap' = [h \in Handlers |-> {}]
    /\ answer' = [h \in Handlers |-> "none"]
    /\ UNCHANGED <<mode, job, src, saved, live, history>>

Handle(h) ==
    \/ Start(h) \/ StartOnClosed(h) \/ Reject(h) \/ SendRequest(h)
    \/ BackupThenWrite(h) \/ BackupOnly(h) \/ BackupFails(h)
    \/ WriteReturns(h) \/ RequestFails(h)

Next ==
    \/ \E h \in Handlers : Arrive(h) \/ Handle(h)
    \/ \E h \in Handlers : ServeDownload(h) \/ ServeWrite(h) \/ RejectWrite(h) \/ LoseRequest(h)
    \/ \E s \in Sessions : Logout(s)
    \/ Restart

Spec == Init /\ [][Next]_vars

-----------------------------------------------------------------------------
(***************************************************************************)
(* Properties.                                                             *)
(***************************************************************************)
\* The write of h has left for the switch, or has taken effect there.
AtSwitch(h) == wire[h]["write"] # "none" \/ hits[h] > 0

SavedBy(h) == {b \in saved : b.by = h}

\* write_safety.py:81-127 and the endpoints: no write reaches the switch, at any
\* later time either (after a timeout, a logout, a restart), unless the
\* deployment is writable in both readings of READ_ONLY, the host was confirmed
\* where the endpoint asks for it, and a backup was saved for this very request.
GatesHold ==
    \A h \in Handlers : AtSwitch(h) =>
        /\ mode = [app |-> "writable", env |-> "writable"]
        /\ job[h].kind \in Confirmed => job[h].typed
        /\ job[h].kind \in AutoBackup => SavedBy(h) # {}

\* The rollback point of a write is a configuration the switch really had,
\* between the arrival of the request and the moment its write took effect.
RollbackIsReal ==
    \A h \in Handlers : hits[h] > 0 /\ job[h].kind \in AutoBackup =>
        \E i \in from[h]..before[h] : [by |-> h, config |-> hist[i]] \in saved

\* One request, at most one write (transport.py: "never be silently re-sent"),
\* and none for a request that was refused.
AtMostOnce ==
    \A h \in Handlers : hits[h] <= 1 /\ (resp[h] = "refused" => ~AtSwitch(h))

\* parsing.py:23-47, upload_config: a success is reported only for a write that
\* the switch has dealt with, so that nothing of it comes later: it took effect,
\* or the switch refused it in a way the endpoint does not know for an error (a
\* diagnostic; any answer where the answer is not checked).  A broken connection
\* passes for success at a reset alone.  A backup reported as saved was saved.
AckIsSettled ==
    \A h \in Handlers : resp[h] = "ok" =>
        /\ job[h].kind = "backup" => SavedBy(h) # {}
        /\ job[h].kind \notin {"backup", "reset"} =>
             /\ wire[h]["write"] = "none"
             /\ \/ hits[h] = 1
                \/ refusal[h] = "diagnostic"
                \/ refusal[h] = "error" /\ job[h].kind \in Unchecked

\* The write path implements the promise of RollbackGuard.
Guard == INSTANCE RollbackGuard WITH
            writable <- mode = [app |-> "writable", env |-> "writable"],
            past <- Range(hist),
            saved <- {<<b.by, b.config>> : b \in saved \ {OldBackup}},
            done <- {h \in Handlers : hits[h] > 0}
GuardSpec == Guard!Spec

\* backups.py:205: "Rollback point: the live config as it was immediately before
\* this restore".
RestoreRollbackPoint ==
    \A h \in Handlers : job[h].kind = "restore" /\ hits[h] > 0 =>
        [by |-> h, config |-> hist[before[h]]] \in saved
=============================================================================
