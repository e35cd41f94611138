------------------------- MODULE BackupStoreProofs --------------------------
(***************************************************************************)
(* Theorems about BackupStore: for any number of threads, configurations,  *)
(* seconds and saves, whatever a crash or a failed write leaves behind.    *)
(***************************************************************************)
EXTENDS BackupStore, TLAPS

-----------------------------------------------------------------------------
(***************************************************************************)
(* The inductive invariant.                                                *)
(***************************************************************************)
\* Where save() is says what is on disk under the name it took, unless a delete
\* was asked for that name; and nobody was ever told of a backup of that name.
SaveInv ==
    LET n == saver.name
        c == saver.config
    IN  saver # NoSave =>
        /\ saver.at = "open" => pcc[n] = "absent"
        /\ saver.at = "fill" => pcc[n] \in {"absent", "torn"}
        /\ saver.at \in {"sidecar", "fill sidecar"} => <<n, c>> \in written
        /\ n \notin named =>
            /\ \A e \in acked : e[1] # n
            /\ saver.at = "fill" => pcc[n] = "torn"
            /\ saver.at \in {"sidecar", "fill sidecar"} => pcc[n] = c
            /\ saver.at = "fill sidecar" => meta[n] = "torn"

\* A delete has a name somebody asked to delete; a list() shows what was written.
ReqInv(t) ==
    /\ req[t] \in DeleteState => req[t].name \in named
    /\ req[t] \in ListState \cup ReadState => req[t].shown \subseteq written

\* A sidecar that is whole describes data that was written.
SidecarInv == \A n \in Names : meta[n] \in Configs => <<n, meta[n]>> \in written

StoreInv ==
    /\ TypeOK
    /\ AckedIsKept
    /\ SaveInv
    /\ SidecarInv
    /\ \A t \in Threads : ReqInv(t)

\* The kinds of requests differ in where they can be.
LEMMA RequestKinds ==
    /\ NoReq.at = "idle"
    /\ \A r \in DeleteState : r.at \in {"delete", "pcc", "unlink pcc", "sidecar", "unlink sidecar"}
    /\ \A r \in ListState : r.at \in {"list", "listed", "raised"}
    /\ \A r \in ReadState : r.at = "read"
BY DEF NoReq, DeleteState, ListState, ReadState

LEMMA KindsDisjoint ==
    /\ NoReq \notin DeleteState \cup ListState \cup ReadState
    /\ DeleteState \cap (ListState \cup ReadState) = {}
<1>1. \A r \in DeleteState : r \notin ListState /\ r \notin ReadState /\ r # NoReq
  BY RequestKinds
<1>2. \A r \in ListState \cup ReadState : r # NoReq
  BY RequestKinds
<1> QED
  BY <1>1, <1>2

LEMMA InitStore == Init => StoreInv
<1> SUFFICES ASSUME Init PROVE StoreInv
  OBVIOUS
<1>1. TypeOK
  BY StoreAssumption DEF Init, TypeOK, Files
<1>2. AckedIsKept /\ SaveInv
  BY DEF Init, AckedIsKept, SaveInv
<1>3. SidecarInv
  BY StoreAssumption DEF Init, SidecarInv
<1>4. \A t \in Threads : ReqInv(t)
  BY KindsDisjoint DEF Init, ReqInv
<1> QED
  BY <1>1, <1>2, <1>3, <1>4 DEF StoreInv

-----------------------------------------------------------------------------
(***************************************************************************)
(* The steps of save().                                                    *)
(***************************************************************************)
\* A save that is somewhere has a name and a configuration.
LEMMA Saving ==
    ASSUME TypeOK, saver.at \in {"open", "fill", "sidecar", "fill sidecar"}
    PROVE  saver \in SaveState /\ saver # NoSave
<1>1. NoSave.at = "idle"
  BY DEF NoSave
<1>2. saver # NoSave
  BY <1>1
<1> QED
  BY <1>2 DEF TypeOK

\* What the requests know does not depend on the save.
LEMMA ReqKept ==
    ASSUME \A t \in Threads : ReqInv(t), req' = req, named' = named, written \subseteq written'
    PROVE  \A t \in Threads : ReqInv(t)'
BY DEF ReqInv

LEMMA SaveStep ==
    ASSUME StoreInv, NEW c \in Configs, Save(c)
    PROVE  StoreInv'
<1> USE DEF StoreInv
<1>1. PICK n \in Names : /\ Taken(n)
                         /\ saver' = [at |-> "open", name |-> n, config |-> c]
  BY DEF Save
<1>2. /\ saves < MaxSaves /\ saves' = saves + 1
      /\ UNCHANGED <<now, pcc, meta, req, acked, named, written>>
  BY DEF Save
<1>3. TypeOK'
  <2>1. saver' \in SaveState
    BY <1>1 DEF SaveState
  <2>2. saves' \in 0..MaxSaves
    BY <1>2, StoreAssumption DEF TypeOK
  <2> QED
    BY <1>2, <2>1, <2>2 DEF TypeOK
<1>4. pcc[n] = "absent" /\ "absent" \notin Configs
  BY <1>1, StoreAssumption DEF Taken
<1>5. SaveInv'
  <2>1. \A e \in acked : e[1] # n \/ n \in named
    BY <1>4 DEF AckedIsKept, TypeOK, Entries
  <2> QED
    BY <1>1, <1>2, <1>4, <2>1 DEF SaveInv
<1>6. AckedIsKept' /\ SidecarInv' /\ \A t \in Threads : ReqInv(t)'
  BY <1>2, ReqKept DEF AckedIsKept, SidecarInv
<1> QED
  BY <1>3, <1>5, <1>6

LEMMA OpenPccStep ==
    ASSUME StoreInv, OpenPcc
    PROVE  StoreInv'
<1> USE DEF StoreInv
<1> DEFINE n == saver.name
<1>1. /\ saver.at = "open"
      /\ pcc' = [pcc EXCEPT ![n] = "torn"]
      /\ saver' = [saver EXCEPT !.at = "fill"]
      /\ UNCHANGED <<now, meta, req, acked, named, written, saves>>
  BY DEF OpenPcc
<1>2. saver \in SaveState /\ saver # NoSave /\ n \in Names
  BY <1>1, Saving DEF SaveState
<1>3. TypeOK'
  BY <1>1, <1>2 DEF TypeOK, SaveState, Files
<1>4. AckedIsKept'
  <2> SUFFICES ASSUME NEW e \in acked, e[1] \notin named
               PROVE  pcc'[e[1]] = e[2] /\ meta[e[1]] = e[2]
    BY <1>1 DEF AckedIsKept
  <2>1. e[1] # n
    BY <1>1, <1>2 DEF SaveInv
  <2> QED
    BY <1>1, <2>1 DEF AckedIsKept, TypeOK, Files, Entries
<1>5. SaveInv'
  BY <1>1, <1>2 DEF SaveInv, SaveState, TypeOK, Files, NoSave
<1>6. SidecarInv' /\ \A t \in Threads : ReqInv(t)'
  BY <1>1, ReqKept DEF SidecarInv
<1> QED
  BY <1>3, <1>4, <1>5, <1>6

LEMMA FillPccStep ==
    ASSUME StoreInv, FillPcc
    PROVE  StoreInv'
<1> USE DEF StoreInv
<1> DEFINE n == saver.name
<1>1. /\ saver.at = "fill"
      /\ pcc' = [pcc EXCEPT ![n] = IF @ = "absent" THEN @ ELSE saver.config]
      /\ written' = written \cup {<<n, saver.config>>}
      /\ saver' = [saver EXCEPT !.at = "sidecar"]
      /\ UNCHANGED <<now, meta, req, acked, named, saves>>
  BY DEF FillPcc
<1>2. saver \in SaveState /\ saver # NoSave /\ n \in Names /\ saver.config \in Configs
  BY <1>1, Saving DEF SaveState
<1>3. TypeOK'
  <2>1. written' \subseteq Entries
    BY <1>1, <1>2 DEF TypeOK, Entries
  <2>2. pcc' \in Files
    BY <1>1, <1>2 DEF TypeOK, Files
  <2> QED
    BY <1>1, <1>2, <2>1, <2>2 DEF TypeOK, SaveState
<1>4. AckedIsKept'
  <2> SUFFICES ASSUME NEW e \in acked, e[1] \notin named
               PROVE  pcc'[e[1]] = e[2] /\ meta[e[1]] = e[2]
    BY <1>1 DEF AckedIsKept
  <2>1. e[1] # n
    BY <1>1, <1>2 DEF SaveInv
  <2> QED
    BY <1>1, <2>1 DEF AckedIsKept, TypeOK, Files, Entries
<1>5. SaveInv'
  BY <1>1, <1>2 DEF SaveInv, SaveState, TypeOK, Files, NoSave
<1>6. SidecarInv' /\ \A t \in Threads : ReqInv(t)'
  BY <1>1, ReqKept DEF SidecarInv
<1> QED
  BY <1>3, <1>4, <1>5, <1>6

LEMMA OpenMetaStep ==
    ASSUME StoreInv, OpenMeta
    PROVE  StoreInv'
<1> USE DEF StoreInv
<1> DEFINE n == saver.name
<1>1. /\ saver.at = "sidecar"
      /\ meta' = [meta EXCEPT ![n] = "torn"]
      /\ saver' = [saver EXCEPT !.at = "fill sidecar"]
      /\ UNCHANGED <<now, pcc, req, acked, named, written, saves>>
  BY DEF OpenMeta
<1>2. saver \in SaveState /\ saver # NoSave /\ n \in Names /\ "torn" \notin Configs
  BY <1>1, Saving, StoreAssumption DEF SaveState
<1>3. TypeOK'
  BY <1>1, <1>2 DEF TypeOK, SaveState, Files
<1>4. AckedIsKept'
  <2> SUFFICES ASSUME NEW e \in acked, e[1] \notin named
               PROVE  pcc[e[1]] = e[2] /\ meta'[e[1]] = e[2]
    BY <1>1 DEF AckedIsKept
  <2>1. e[1] # n
    BY <1>1, <1>2 DEF SaveInv
  <2> QED
    BY <1>1, <2>1 DEF AckedIsKept, TypeOK, Files, Entries
<1>5. SaveInv'
  BY <1>1, <1>2 DEF SaveInv, SaveState, TypeOK, Files, NoSave
<1>6. SidecarInv' /\ \A t \in Threads : ReqInv(t)'
  BY <1>1, <1>2, ReqKept DEF SidecarInv, TypeOK, Files
<1> QED
  BY <1>3, <1>4, <1>5, <1>6

LEMMA FillMetaStep ==
    ASSUME StoreInv, FillMeta
    PROVE  StoreInv'
<1> USE DEF StoreInv
<1> DEFINE n == saver.name
<1>1. /\ saver.at = "fill sidecar"
      /\ meta' = [meta EXCEPT ![n] = IF @ = "absent" THEN @ ELSE saver.config]
      /\ acked' = acked \cup {<<n, saver.config>>}
      /\ saver' = NoSave
      /\ UNCHANGED <<now, pcc, req, named, written, saves>>
  BY DEF FillMeta
<1>2. /\ saver \in SaveState /\ saver # NoSave
      /\ n \in Names /\ saver.config \in Configs
      /\ "absent" \notin Configs
  BY <1>1, Saving, StoreAssumption DEF SaveState
<1>3. TypeOK'
  <2>1. acked' \subseteq Entries
    <3>1. <<n, saver.config>> \in Entries
      BY <1>2 DEF Entries
    <3> QED
      BY <1>1, <3>1 DEF TypeOK
  <2>2. meta' \in Files
    BY <1>1, <1>2 DEF TypeOK, Files
  <2> QED
    BY <1>1, <1>2, <2>1, <2>2 DEF TypeOK
<1>4. AckedIsKept'
  <2> SUFFICES ASSUME NEW e \in acked', e[1] \notin named
               PROVE  pcc[e[1]] = e[2] /\ meta'[e[1]] = e[2]
    BY <1>1 DEF AckedIsKept
  <2>1. CASE e = <<n, saver.config>>
    BY <1>1, <1>2, <2>1 DEF SaveInv, TypeOK, Files
  <2>2. CASE e \in acked
    <3>1. e[1] # n
      BY <1>1, <1>2, <2>2 DEF SaveInv
    <3> QED
      BY <1>1, <2>2, <3>1 DEF AckedIsKept, TypeOK, Files, Entries
  <2> QED
    BY <1>1, <2>1, <2>2
<1>5. SaveInv'
  BY <1>1 DEF SaveInv
<1>6. SidecarInv' /\ \A t \in Threads : ReqInv(t)'
  BY <1>1, <1>2, ReqKept DEF SidecarInv, SaveInv, TypeOK, Files
<1> QED
  BY <1>3, <1>4, <1>5, <1>6

-----------------------------------------------------------------------------
(***************************************************************************)
(* The steps of a thread.                                                  *)
(***************************************************************************)
\* A request is told by where it is.
LEMMA Requests ==
    ASSUME TypeOK, NEW t \in Threads
    PROVE  /\ req[t].at \in {"delete", "pcc", "unlink pcc", "sidecar", "unlink sidecar"}
                => req[t] \in DeleteState
           /\ req[t].at \in {"list", "listed", "raised"} => req[t] \in ListState
           /\ req[t].at = "read" => req[t] \in ReadState
<1>1. req[t] \in DeleteState \cup ListState \cup ReadState \cup {NoReq}
  BY DEF TypeOK
<1> QED
  BY <1>1, RequestKinds

\* A step that changes one request only.
LEMMA ReqStep ==
    ASSUME StoreInv, NEW t \in Threads, NEW r,
           r \in DeleteState \cup ListState \cup ReadState \cup {NoReq},
           r \in DeleteState => r.name \in named,
           r \in ListState \cup ReadState => r.shown \subseteq written,
           req' = [req EXCEPT ![t] = r],
           UNCHANGED <<now, pcc, meta, saver, acked, named, written, saves>>
    PROVE  StoreInv'
<1> USE DEF StoreInv
<1>1. TypeOK'
  BY DEF TypeOK
<1>2. AckedIsKept' /\ SaveInv' /\ SidecarInv'
  BY DEF AckedIsKept, SaveInv, SidecarInv
<1>3. \A u \in Threads : ReqInv(u)'
  BY DEF ReqInv, TypeOK
<1> QED
  BY <1>1, <1>2, <1>3

\* A step that removes a file of a name that a delete was asked for.
LEMMA UnlinkStep ==
    ASSUME StoreInv, NEW t \in Threads, NEW r, NEW n \in named,
           r \in DeleteState \cup {NoReq},
           r \in DeleteState => r.name \in named,
           req' = [req EXCEPT ![t] = r],
           \/ pcc' = [pcc EXCEPT ![n] = "absent"] /\ UNCHANGED meta
           \/ meta' = [meta EXCEPT ![n] = "absent"] /\ UNCHANGED pcc,
           UNCHANGED <<now, saver, acked, named, written, saves>>
    PROVE  StoreInv'
<1> USE DEF StoreInv
<1>1. n \in Names /\ "absent" \notin Configs
  BY StoreAssumption DEF TypeOK
<1>2. TypeOK'
  BY <1>1 DEF TypeOK, Files
<1>3. \A m \in Names : m # n => pcc'[m] = pcc[m] /\ meta'[m] = meta[m]
  BY DEF TypeOK, Files
<1>4. AckedIsKept'
  BY <1>3 DEF AckedIsKept, TypeOK, Entries
<1>5. SaveInv'
  <2>1. CASE saver = NoSave
    BY <2>1 DEF SaveInv
  <2>2. CASE saver # NoSave
    <3>1. saver.name \in Names
      BY <2>2 DEF TypeOK, SaveState
    <3>2. pcc'[saver.name] \in {pcc[saver.name], "absent"}
      BY <3>1, <1>1 DEF TypeOK, Files
    <3>3. saver.name \notin named =>
            pcc'[saver.name] = pcc[saver.name] /\ meta'[saver.name] = meta[saver.name]
      BY <3>1, <1>3
    <3> QED
      BY <2>2, <3>1, <3>2, <3>3 DEF SaveInv
  <2> QED
    BY <2>1, <2>2
<1>6. SidecarInv'
  BY <1>1, <1>3 DEF SidecarInv, TypeOK, Files
<1>7. \A u \in Threads : ReqInv(u)'
  BY KindsDisjoint DEF ReqInv, TypeOK
<1> QED
  BY <1>2, <1>4, <1>5, <1>6, <1>7

LEMMA DeleteStep ==
    ASSUME StoreInv, NEW t \in Threads, NEW n \in Names, Delete(t, n)
    PROVE  StoreInv'
<1> USE DEF StoreInv
<1> DEFINE r == [at |-> "delete", name |-> n]
<1>1. /\ req' = [req EXCEPT ![t] = r]
      /\ named' = named \cup {n}
      /\ UNCHANGED <<now, pcc, meta, saver, acked, written, saves>>
  BY DEF Delete
<1>2. r \in DeleteState
  BY DEF DeleteState
<1>3. TypeOK'
  BY <1>1, <1>2 DEF TypeOK
<1>4. AckedIsKept' /\ SaveInv' /\ SidecarInv'
  BY <1>1 DEF AckedIsKept, SaveInv, SidecarInv
<1>5. \A u \in Threads : ReqInv(u)'
  BY <1>1, <1>2, KindsDisjoint DEF ReqInv, TypeOK
<1> QED
  BY <1>3, <1>4, <1>5

LEMMA DeletingStep ==
    ASSUME StoreInv, NEW t \in Threads,
           TestBoth(t) \/ TestPcc(t) \/ UnlinkPcc(t) \/ TestMeta(t) \/ UnlinkMeta(t)
    PROVE  StoreInv'
<1> USE DEF StoreInv
<1> DEFINE To(at) == [req[t] EXCEPT !.at = at]
<1>1. req[t] \in DeleteState /\ req[t].name \in named
  BY Requests DEF TestBoth, TestPcc, UnlinkPcc, TestMeta, UnlinkMeta, ReqInv
<1>2. \A at \in {"pcc", "unlink pcc", "sidecar", "unlink sidecar"} :
        To(at) \in DeleteState /\ To(at).name \in named
  BY <1>1 DEF DeleteState
<1>3. NoReq \notin DeleteState \cup ListState \cup ReadState
  BY KindsDisjoint
<1>4. DeleteState \cap (ListState \cup ReadState) = {}
  BY KindsDisjoint
<1>5. PICK r : /\ r = NoReq \/ (r \in DeleteState /\ r.name \in named)
               /\ req' = [req EXCEPT ![t] = r]
  <2>1. CASE req' = [req EXCEPT ![t] = NoReq]
    <3> WITNESS NoReq
    <3> QED
      BY <2>1
  <2>2. CASE \E at \in {"pcc", "unlink pcc", "sidecar", "unlink sidecar"} :
                req' = [req EXCEPT ![t] = To(at)]
    BY <2>2, <1>2
  <2> QED
    BY <2>1, <2>2 DEF TestBoth, TestPcc, UnlinkPcc, TestMeta, UnlinkMeta, Goto, Done
<1>6. CASE TestBoth(t) \/ TestPcc(t) \/ TestMeta(t)
  <2>1. UNCHANGED <<now, pcc, meta, saver, acked, named, written, saves>>
    BY <1>6 DEF TestBoth, TestPcc, TestMeta
  <2> QED
    BY <1>3, <1>4, <1>5, <2>1, ReqStep
<1>7. CASE UnlinkPcc(t) \/ UnlinkMeta(t)
  <2>1. /\ \/ pcc' = [pcc EXCEPT ![req[t].name] = "absent"] /\ UNCHANGED meta
           \/ meta' = [meta EXCEPT ![req[t].name] = "absent"] /\ UNCHANGED pcc
        /\ UNCHANGED <<now, saver, acked, named, written, saves>>
    BY <1>7 DEF UnlinkPcc, UnlinkMeta
  <2> QED
    BY <1>1, <1>3, <1>5, <2>1, UnlinkStep
<1> QED
  BY <1>6, <1>7

LEMMA ListingStep ==
    ASSUME StoreInv, NEW t \in Threads,
           List(t) \/ TestListed(t) \/ ReadMeta(t) \/ Listed(t) \/ Answered(t)
    PROVE  StoreInv'
<1> USE DEF StoreInv
<1>1. UNCHANGED <<now, pcc, meta, saver, acked, named, written, saves>>
  BY DEF List, TestListed, ReadMeta, Listed, Answered
<1>2. \A r \in ListState \cup ReadState : r \notin DeleteState
  BY KindsDisjoint
<1>3. NoReq \notin DeleteState \cup ListState \cup ReadState
  BY KindsDisjoint
<1>4. CASE List(t)
  <2> DEFINE r == [at |-> "list", shown |-> {}, todo |-> {n \in Names : meta[n] # "absent"}]
  <2>1. r \in ListState /\ r.shown \subseteq written
    BY DEF ListState
  <2>2. req' = [req EXCEPT ![t] = r]
    BY <1>4 DEF List
  <2> HIDE DEF r
  <2> QED
    BY <1>1, <1>2, <2>1, <2>2, ReqStep
<1>5. CASE TestListed(t)
  <2>1. req[t] \in ListState /\ req[t].shown \subseteq written
    BY <1>5, Requests DEF TestListed, ReqInv
  <2>2. PICK n \in req[t].todo :
          req' = [req EXCEPT ![t] =
                    IF pcc[n] = "absent"
                    THEN [at |-> "list", todo |-> @.todo \ {n}, shown |-> @.shown]
                    ELSE [at |-> "read", name |-> n, todo |-> @.todo \ {n}, shown |-> @.shown]]
    BY <1>5 DEF TestListed
  <2>3. CASE pcc[n] = "absent"
    <3> DEFINE r == [at |-> "list", todo |-> req[t].todo \ {n}, shown |-> req[t].shown]
    <3>1. r \in ListState /\ r.shown \subseteq written
      BY <2>1 DEF ListState
    <3>2. req' = [req EXCEPT ![t] = r]
      BY <2>2, <2>3
    <3> HIDE DEF r
    <3> QED
      BY <1>1, <1>2, <3>1, <3>2, ReqStep
  <2>4. CASE pcc[n] # "absent"
    <3> DEFINE r == [at |-> "read", name |-> n, todo |-> req[t].todo \ {n}, shown |-> req[t].shown]
    <3>1. r \in ReadState /\ r.shown \subseteq written
      BY <2>1 DEF ListState, ReadState
    <3>2. req' = [req EXCEPT ![t] = r]
      BY <2>2, <2>4
    <3> HIDE DEF r
    <3> QED
      BY <1>1, <1>2, <3>1, <3>2, ReqStep
  <2> QED
    BY <2>3, <2>4
<1>6. CASE ReadMeta(t)
  <2> DEFINE m == meta[req[t].name]
             r == [at |-> IF m = "absent" THEN "raised" ELSE "list",
                   todo |-> req[t].todo,
                   shown |-> IF m \in Configs THEN req[t].shown \cup {<<req[t].name, m>>}
                             ELSE req[t].shown]
  <2>1. req[t] \in ReadState /\ req[t].shown \subseteq written
    BY <1>6, Requests DEF ReadMeta, ReqInv
  <2>2. r.shown \subseteq written /\ r.shown \subseteq Entries
    BY <2>1 DEF SidecarInv, ReadState, Entries
  <2>3. r \in ListState
    BY <2>1, <2>2 DEF ListState, ReadState
  <2>4. req' = [req EXCEPT ![t] = r]
    BY <1>6 DEF ReadMeta
  <2> HIDE DEF r
  <2> QED
    BY <1>1, <1>2, <2>2, <2>3, <2>4, ReqStep
<1>7. CASE Listed(t)
  <2> DEFINE r == [req[t] EXCEPT !.at = "listed"]
  <2>1. req[t] \in ListState /\ req[t].shown \subseteq written
    BY <1>7, Requests DEF Listed, ReqInv
  <2>2. r \in ListState /\ r.shown \subseteq written
    BY <2>1 DEF ListState
  <2>3. req' = [req EXCEPT ![t] = r]
    BY <1>7 DEF Listed, Goto
  <2> HIDE DEF r
  <2> QED
    BY <1>1, <1>2, <2>2, <2>3, ReqStep
<1>8. CASE Answered(t)
  <2>1. req' = [req EXCEPT ![t] = NoReq]
    BY <1>8 DEF Answered, Done
  <2> QED
    BY <1>1, <1>3, <2>1, ReqStep
<1> QED
  BY <1>4, <1>5, <1>6, <1>7, <1>8

-----------------------------------------------------------------------------
LEMMA CrashStep ==
    ASSUME StoreInv, SaveFails \/ Crash \/ Tick
    PROVE  StoreInv'
<1> USE DEF StoreInv
<1>1. /\ UNCHANGED <<pcc, meta, acked, named, written, saves>>
      /\ saver' = NoSave \/ saver' = saver
      /\ req' = [t \in Threads |-> NoReq] \/ req' = req
      /\ now' = now \/ (now < Seconds /\ now' = now + 1)
  BY DEF SaveFails, Crash, Tick
<1>2. TypeOK'
  BY <1>1, StoreAssumption DEF TypeOK
<1>3. AckedIsKept' /\ SaveInv' /\ SidecarInv'
  BY <1>1 DEF AckedIsKept, SaveInv, SidecarInv
<1>4. \A t \in Threads : ReqInv(t)'
  BY <1>1, KindsDisjoint DEF ReqInv
<1> QED
  BY <1>2, <1>3, <1>4

LEMMA StoreStep == StoreInv /\ [Next]_storeVars => StoreInv'
<1> SUFFICES ASSUME StoreInv, [Next]_storeVars PROVE StoreInv'
  OBVIOUS
<1>1. ASSUME NEW c \in Configs, Save(c) PROVE StoreInv'
  BY <1>1, SaveStep
<1>2. CASE OpenPcc \/ FillPcc \/ OpenMeta \/ FillMeta
  BY <1>2, OpenPccStep, FillPccStep, OpenMetaStep, FillMetaStep
<1>3. CASE SaveFails \/ Crash \/ Tick
  BY <1>3, CrashStep
<1>4. ASSUME NEW t \in Threads, NEW n \in Names, Delete(t, n) PROVE StoreInv'
  BY <1>4, DeleteStep
<1>5. ASSUME NEW t \in Threads,
             TestBoth(t) \/ TestPcc(t) \/ UnlinkPcc(t) \/ TestMeta(t) \/ UnlinkMeta(t)
      PROVE  StoreInv'
  BY <1>5, DeletingStep
<1>6. ASSUME NEW t \in Threads,
             List(t) \/ TestListed(t) \/ ReadMeta(t) \/ Listed(t) \/ Answered(t)
      PROVE  StoreInv'
  BY <1>6, ListingStep
<1>7. CASE UNCHANGED storeVars
  BY <1>7 DEF storeVars, StoreInv, TypeOK, AckedIsKept, SaveInv, SidecarInv, ReqInv
<1> QED
  BY <1>1, <1>2, <1>3, <1>4, <1>5, <1>6, <1>7 DEF Next

LEMMA StoreInvariant == Spec => []StoreInv
<1>1. Init => StoreInv
  BY InitStore
<1>2. StoreInv /\ [Next]_storeVars => StoreInv'
  BY StoreStep
<1> QED
  BY <1>1, <1>2, PTL DEF Spec

-----------------------------------------------------------------------------
(***************************************************************************)
(* The theorems.                                                           *)
(***************************************************************************)
\* The directory, the save and the requests keep their types.
THEOREM TypeCorrect == Spec => []TypeOK
<1>1. StoreInv => TypeOK
  BY DEF StoreInv
<1> QED
  BY <1>1, StoreInvariant, PTL

\* A backup that save() returned stays on disk with its sidecar until somebody
\* asks to delete that name, whatever fails, crashes or runs beside it: the
\* rollback point of a write outlives the write.
THEOREM KeptCorrect == Spec => []AckedIsKept
<1>1. StoreInv => AckedIsKept
  BY DEF StoreInv
<1> QED
  BY <1>1, StoreInvariant, PTL

\* The list shows no backup whose data was not written in full, at whatever
\* moment it reads the directory.
THEOREM ShownCorrect == Spec => []ShownWasWritten
<1>1. StoreInv => ShownWasWritten
  BY Requests DEF StoreInv, ShownWasWritten, ReqInv
<1> QED
  BY <1>1, StoreInvariant, PTL

\* No step rewrites the data of a backup: two saves never share a name.
THEOREM RewriteCorrect == Spec => NeverRewritten
<1> DEFINE Kept == \A n \in Names : pcc[n] \in Configs => pcc'[n] \in {pcc[n], "absent"}
<1>1. StoreInv /\ [Next]_storeVars => [Kept]_storeVars
  <2> SUFFICES ASSUME StoreInv, Next PROVE Kept
    OBVIOUS
  <2> USE DEF StoreInv
  <2>1. CASE OpenPcc
    <3>1. /\ saver.name \in Names /\ pcc[saver.name] = "absent" /\ "absent" \notin Configs
          /\ pcc' = [pcc EXCEPT ![saver.name] = "torn"]
      BY <2>1, Saving, StoreAssumption DEF OpenPcc, SaveInv, SaveState
    <3> QED
      BY <3>1 DEF TypeOK, Files
  <2>2. CASE FillPcc
    <3>1. /\ saver.name \in Names /\ pcc[saver.name] \in {"absent", "torn"}
          /\ {"absent", "torn"} \cap Configs = {}
          /\ pcc' = [pcc EXCEPT ![saver.name] = IF @ = "absent" THEN @ ELSE saver.config]
      BY <2>2, Saving, StoreAssumption DEF FillPcc, SaveInv, SaveState
    <3> QED
      BY <3>1 DEF TypeOK, Files
  <2>3. ASSUME NEW t \in Threads, UnlinkPcc(t) PROVE Kept
    BY <2>3 DEF UnlinkPcc, TypeOK, Files
  <2>4. CASE pcc' = pcc
    BY <2>4
  <2> QED
    BY <2>1, <2>2, <2>3, <2>4
    DEF Next, Save, OpenMeta, FillMeta, SaveFails, Delete, TestBoth, TestPcc, TestMeta,
        UnlinkMeta, List, TestListed, ReadMeta, Listed, Answered, Tick, Crash
<1> QED
  BY <1>1, StoreInvariant, PTL DEF Spec, NeverRewritten
=============================================================================
