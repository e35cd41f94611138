---------------------------- MODULE BackupStore -----------------------------
(***************************************************************************)
(* app/backup_store.py as app/api/backups.py and app/write_safety.py use   *)
(* it: a directory of .pcc files and their .meta.json sidecars, with no    *)
(* lock.  save() runs on the event loop, so there is one at a time; list() *)
(* and delete() run in the thread pool, each step of theirs between any    *)
(* two steps of the others.                                                *)
(*                                                                         *)
(* A backup name is the second it was made in and a suffix (0: none).      *)
(* MaxSuffix bounds the backups of one second, Seconds the clock, MaxSaves *)
(* the calls of save().  A crash ends the process; what it had handed to   *)
(* the file system stays.                                                  *)
(* named and written are history variables.                                *)
(***************************************************************************)
EXTENDS Naturals

CONSTANTS Configs, Threads, Seconds, MaxSuffix, MaxSaves

ASSUME StoreAssumption ==
    /\ Configs \cap {"absent", "torn"} = {}
    /\ Seconds \in Nat \ {0}
    /\ MaxSuffix \in Nat
    /\ MaxSaves \in Nat

VARIABLES
    now,        \* the clock, in seconds
    pcc,        \* pcc[n]: absent, torn (created, not written in full), or the config
    meta,       \* meta[n]: the same for the sidecar, which names the config by hash
    saver,      \* where save() is, the name it took and the config
    req,        \* req[t]: the list() or delete() a thread runs
    acked,      \* the backups save() has returned
    named,      \* the names a delete was ever asked for
    written,    \* the backups whose .pcc was written in full
    saves       \* the calls of save() so far

storeVars == <<now, pcc, meta, saver, req, acked, named, written, saves>>

Names == (1..Seconds) \X (0..MaxSuffix)
Files == [Names -> {"absent", "torn"} \cup Configs]
Entries == Names \X Configs

NoSave == [at |-> "idle"]
NoReq == [at |-> "idle"]
SaveState == [at: {"open", "fill", "sidecar", "fill sidecar"}, name: Names, config: Configs]
DeleteState == [at: {"delete", "pcc", "unlink pcc", "sidecar", "unlink sidecar"}, name: Names]
ListState == [at: {"list", "listed", "raised"}, todo: SUBSET Names, shown: SUBSET Entries]
ReadState == [at: {"read"}, name: Names, todo: SUBSET Names, shown: SUBSET Entries]

TypeOK ==
    /\ now \in 1..Seconds
    /\ pcc \in Files
    /\ meta \in Files
    /\ saver \in SaveState \cup {NoSave}
    /\ req \in [Threads -> DeleteState \cup ListState \cup ReadState \cup {NoReq}]
    /\ acked \subseteq Entries
    /\ named \subseteq Names
    /\ written \subseteq Entries
    /\ saves \in 0..MaxSaves

Init ==
    /\ now = 1
    /\ pcc = [n \in Names |-> "absent"]
    /\ meta = [n \in Names |-> "absent"]
    /\ saver = NoSave
    /\ req = [t \in Threads |-> NoReq]
    /\ acked = {}
    /\ named = {}
    /\ written = {}
    /\ saves = 0

-----------------------------------------------------------------------------
(***************************************************************************)
(* save(): the first free name of the second, the data, the sidecar.       *)
(***************************************************************************)
\* Variant with a defect: two backups of one second share a name.
TakenAlways(n) == n = <<now, 0>>

\* The name save() takes: the second, with the first suffix not in use.
Taken(n) ==
    /\ n[1] = now
    /\ pcc[n] = "absent"
    /\ \A i \in 0..MaxSuffix : i < n[2] => pcc[<<now, i>>] # "absent"

Save(c) ==
    /\ saver = NoSave
    /\ saves < MaxSaves
    /\ saves' = saves + 1
    /\ \E n \in Names :
        /\ Taken(n)
        /\ saver' = [at |-> "open", name |-> n, config |-> c]
    /\ UNCHANGED <<now, pcc, meta, req, acked, named, written>>

\* Variant with a defect: the data is left to be written after the sidecar.
OpenPccOnly ==
    /\ saver.at = "open"
    /\ pcc' = [pcc EXCEPT ![saver.name] = "torn"]
    /\ saver' = [saver EXCEPT !.at = "sidecar"]
    /\ UNCHANGED <<now, meta, req, acked, named, written, saves>>

\* write_bytes opens the file: it is there, and empty.
OpenPcc ==
    /\ saver.at = "open"
    /\ pcc' = [pcc EXCEPT ![saver.name] = "torn"]
    /\ saver' = [saver EXCEPT !.at = "fill"]
    /\ UNCHANGED <<now, meta, req, acked, named, written, saves>>

\* It writes the data, to a file that a delete may have unlinked meanwhile.
FillPcc ==
    /\ saver.at = "fill"
    /\ pcc' = [pcc EXCEPT ![saver.name] = IF @ = "absent" THEN @ ELSE saver.config]
    /\ written' = written \cup {<<saver.name, saver.config>>}
    /\ saver' = [saver EXCEPT !.at = "sidecar"]
    /\ UNCHANGED <<now, meta, req, acked, named, saves>>

\* Variant with a defect: save() has returned before the sidecar is there.
OpenMetaAcks ==
    /\ saver.at = "sidecar"
    /\ meta' = [meta EXCEPT ![saver.name] = "torn"]
    /\ saver' = [saver EXCEPT !.at = "fill sidecar"]
    /\ acked' = acked \cup {<<saver.name, saver.config>>}
    /\ UNCHANGED <<now, pcc, req, named, written, saves>>

\* _write_meta: the same for the sidecar.
OpenMeta ==
    /\ saver.at = "sidecar"
    /\ meta' = [meta EXCEPT ![saver.name] = "torn"]
    /\ saver' = [saver EXCEPT !.at = "fill sidecar"]
    /\ UNCHANGED <<now, pcc, req, acked, named, written, saves>>

FillMeta ==
    /\ saver.at = "fill sidecar"
    /\ meta' = [meta EXCEPT ![saver.name] = IF @ = "absent" THEN @ ELSE saver.config]
    /\ acked' = acked \cup {<<saver.name, saver.config>>}
    /\ saver' = NoSave
    /\ UNCHANGED <<now, pcc, req, named, written, saves>>

\* A full disk, or a directory that may not be written: save() raises.
SaveFails ==
    /\ saver # NoSave
    /\ saver' = NoSave
    /\ UNCHANGED <<now, pcc, meta, req, acked, named, written, saves>>

-----------------------------------------------------------------------------
(***************************************************************************)
(* delete() in a thread: it tests each file, then unlinks it.  A file that *)
(* is gone by then raises FileNotFoundError, a 404 at the endpoint.        *)
(***************************************************************************)
Goto(t, at) == req' = [req EXCEPT ![t].at = at]
Done(t) == req' = [req EXCEPT ![t] = NoReq]

Delete(t, n) ==
    /\ req[t] = NoReq
    /\ req' = [req EXCEPT ![t] = [at |-> "delete", name |-> n]]
    /\ named' = named \cup {n}
    /\ UNCHANGED <<now, pcc, meta, saver, acked, written, saves>>

\* The tests of the .pcc and of the sidecar, in the order of the code.
TestBoth(t) ==
    /\ req[t].at = "delete"
    /\ IF pcc[req[t].name] = "absent" /\ meta[req[t].name] = "absent"
       THEN Done(t) ELSE Goto(t, "pcc")
    /\ UNCHANGED <<now, pcc, meta, saver, acked, named, written, saves>>

TestPcc(t) ==
    /\ req[t].at = "pcc"
    /\ Goto(t, IF pcc[req[t].name] = "absent" THEN "sidecar" ELSE "unlink pcc")
    /\ UNCHANGED <<now, pcc, meta, saver, acked, named, written, saves>>

UnlinkPcc(t) ==
    /\ req[t].at = "unlink pcc"
    /\ pcc' = [pcc EXCEPT ![req[t].name] = "absent"]
    /\ IF pcc[req[t].name] = "absent" THEN Done(t) ELSE Goto(t, "sidecar")
    /\ UNCHANGED <<now, meta, saver, acked, named, written, saves>>

TestMeta(t) ==
    /\ req[t].at = "sidecar"
    /\ IF meta[req[t].name] = "absent" THEN Done(t) ELSE Goto(t, "unlink sidecar")
    /\ UNCHANGED <<now, pcc, meta, saver, acked, named, written, saves>>

UnlinkMeta(t) ==
    /\ req[t].at = "unlink sidecar"
    /\ meta' = [meta EXCEPT ![req[t].name] = "absent"]
    /\ Done(t)
    /\ UNCHANGED <<now, pcc, saver, acked, named, written, saves>>

-----------------------------------------------------------------------------
(***************************************************************************)
(* list() in a thread.                                                     *)
(***************************************************************************)
\* glob: the sidecars there are.
List(t) ==
    /\ req[t] = NoReq
    /\ req' = [req EXCEPT ![t] = [at |-> "list", shown |-> {},
                                  todo |-> {n \in Names : meta[n] # "absent"}]]
    /\ UNCHANGED <<now, pcc, meta, saver, acked, named, written, saves>>

\* The next sidecar: read only if its .pcc is there.
TestListed(t) ==
    /\ req[t].at = "list"
    /\ \E n \in req[t].todo :
        req' = [req EXCEPT ![t] =
                  IF pcc[n] = "absent"
                  THEN [at |-> "list", todo |-> @.todo \ {n}, shown |-> @.shown]
                  ELSE [at |-> "read", name |-> n, todo |-> @.todo \ {n}, shown |-> @.shown]]
    /\ UNCHANGED <<now, pcc, meta, saver, acked, named, written, saves>>

\* Variant with a defect: a torn sidecar is listed.
ReadAnyMeta(t) ==
    /\ req[t].at = "read"
    /\ req' = [req EXCEPT ![t] =
                  [at |-> "list", todo |-> @.todo,
                   shown |-> @.shown \cup {<<@.name, meta[@.name]>>}]]
    /\ UNCHANGED <<now, pcc, meta, saver, acked, named, written, saves>>

\* _read_meta: a torn sidecar is CorruptBackupError and skipped; one that a
\* delete took away raises FileNotFoundError out of list().
ReadMeta(t) ==
    /\ req[t].at = "read"
    /\ LET m == meta[req[t].name] IN
        req' = [req EXCEPT ![t] =
                  [at |-> IF m = "absent" THEN "raised" ELSE "list",
                   todo |-> @.todo,
                   shown |-> IF m \in Configs THEN @.shown \cup {<<@.name, m>>} ELSE @.shown]]
    /\ UNCHANGED <<now, pcc, meta, saver, acked, named, written, saves>>

Listed(t) ==
    /\ req[t].at = "list"
    /\ req[t].todo = {}
    /\ Goto(t, "listed")
    /\ UNCHANGED <<now, pcc, meta, saver, acked, named, written, saves>>

\* The response is sent; an error is a 500.
Answered(t) ==
    /\ req[t].at \in {"listed", "raised"}
    /\ Done(t)
    /\ UNCHANGED <<now, pcc, meta, saver, acked, named, written, saves>>

-----------------------------------------------------------------------------
Tick ==
    /\ now < Seconds
    /\ now' = now + 1
    /\ UNCHANGED <<pcc, meta, saver, req, acked, named, written, saves>>

\* The process ends, between any two steps, and starts again.
Crash ==
    /\ saver' = NoSave
    /\ req' = [t \in Threads |-> NoReq]
    /\ UNCHANGED <<now, pcc, meta, acked, named, written, saves>>

Next ==
    \/ \E c \in Configs : Save(c)
    \/ OpenPcc \/ FillPcc \/ OpenMeta \/ FillMeta \/ SaveFails
    \/ \E t \in Threads :
        \/ \E n \in Names : Delete(t, n)
        \/ TestBoth(t) \/ TestPcc(t) \/ UnlinkPcc(t) \/ TestMeta(t) \/ UnlinkMeta(t)
        \/ List(t) \/ TestListed(t) \/ ReadMeta(t) \/ Listed(t) \/ Answered(t)
    \/ Tick
    \/ Crash

Spec == Init /\ [][Next]_storeVars

-----------------------------------------------------------------------------
(***************************************************************************)
(* Properties.                                                             *)
(***************************************************************************)
\* write_safety.py:8-10: a backup that save() returned is on disk with its
\* sidecar and stays there, through saves of the same second, failed saves, other
\* deletes and crashes, unless somebody asked to delete that name.
AckedIsKept ==
    \A e \in acked : e[1] \notin named => pcc[e[1]] = e[2] /\ meta[e[1]] = e[2]

\* Whatever list() shows, at whatever moment of a save or a delete it reads the
\* directory: the data of that backup had been written in full.
ShownWasWritten == \A t \in Threads : req[t].at = "listed" => req[t].shown \subseteq written

\* A save changes no .pcc that is there, and a file that was made is only ever
\* completed or removed: two saves never mix in one name.
NeverRewritten ==
    [][\A n \in Names : pcc[n] \in Configs => pcc'[n] \in {pcc[n], "absent"}]_storeVars

\* backup_store.py:92-94: "the individual-entry endpoints will surface the error
\* for named lookups, but listing should stay resilient".
ListIsResilient == \A t \in Threads : req[t].at # "raised"
=============================================================================
