------------------------- MODULE WriteSafetyProofs --------------------------
(***************************************************************************)
(* Theorems about WriteSafety, for any number of handlers and sessions:    *)
(* its gates and rollback points, that it implements RollbackGuard, and    *)
(* that it uses the link as SwitchLink allows.                             *)
(***************************************************************************)
EXTENDS WriteSafety, SequenceTheorems, TLAPS

\* The theorems about the link, for the link of WriteSafety.
LP == INSTANCE SwitchLinkProofs
          WITH Tasks <- Handlers, Ops <- {"download", "write"}, NoTask <- NoHandler

-----------------------------------------------------------------------------
(***************************************************************************)
(* The inductive invariant, one handler at a time.                         *)
(***************************************************************************)
Calling(h, op) == call[h] # Link!Idle /\ call[h].op = op

\* The write of h has not left.
Untouched(h) == wire[h]["write"] = "none" /\ hits[h] = 0

\* A configuration that the switch had from the arrival of h to hist[n] was saved
\* on behalf of h.
Backed(h, n) == \E i \in from[h]..n : [by |-> h, config |-> hist[i]] \in saved

\* What the handler has in hand while it is in a call, and after it.
Control(h) ==
    /\ pc[h] # "idle" => job[h] \in Jobs /\ from[h] \in 1..Len(hist)
    /\ call[h] # Link!Idle => pc[h] = "calling" /\ ~Refused(job[h])
    /\ Calling(h, "write") => wire[h]["download"] = "none"
    /\ pc[h] # "done" => resp[h] = "none"

\* A write leaves once, after the call that sends it was granted the permit.
Once(h) ==
    /\ pc[h] \in {"idle", "entered"} => Untouched(h) /\ wire[h]["download"] = "none"
    /\ Calling(h, "download") => Untouched(h)
    /\ call[h] # Link!Idle /\ call[h].st # "sent" => Untouched(h)
    /\ resp[h] = "refused" => Untouched(h)
    /\ wire[h]["write"] = "queued" => hits[h] = 0
    /\ hits[h] <= 1

\* A write that is about to leave, or has left, passed the gates and is backed.
Entitled(h) ==
    Calling(h, "write") \/ AtSwitch(h) =>
        /\ mode = [app |-> "writable", env |-> "writable"]
        /\ job[h].kind # "backup"
        /\ job[h].kind \in Confirmed => job[h].typed
        /\ job[h].kind \in AutoBackup =>
             /\ hits[h] = 0 => Backed(h, Len(hist))
             /\ hits[h] > 0 => Backed(h, before[h]) /\ before[h] \in 1..Len(hist)

\* The answer a to the write of h: it took effect, or a is how the switch refused it.
Settled(h, a) == hits[h] = 1 \/ (a \in {"error", "diagnostic"} /\ refusal[h] = a)

\* What an answer says, and what a good response says.
Truthful(h) ==
    /\ Calling(h, "write") /\ wire[h]["write"] = "answered" => Settled(h, answer[h])
    /\ Calling(h, "download") /\ wire[h]["download"] = "answered" =>
         \E i \in from[h]..Len(hist) : snap[h] = hist[i]
    /\ resp[h] = "ok" =>
         /\ job[h].kind \notin {"backup", "reset"} =>
              /\ wire[h]["write"] = "none"
              /\ \E a \in {"ok", "error", "diagnostic"} :
                   Settled(h, a) /\ (a = "error" => job[h].kind \in Unchecked)
         /\ job[h].kind = "backup" => SavedBy(h) # {}

HandlerInv(h) == Control(h) /\ Once(h) /\ Entitled(h) /\ Truthful(h)

History == Len(hist) > 0 /\ hist[Len(hist)] = live

WriteInv == TypeOK /\ LP!LinkInv /\ History /\ \A h \in Handlers : HandlerInv(h)
-----------------------------------------------------------------------------
(***************************************************************************)
(* The link under the write path.                                          *)
(***************************************************************************)
\* The two names of each operator of the link.
LEMMA SameLink ==
    /\ Link!TypeOK <=> LP!TypeOK
    /\ Link!Init <=> LP!Init
    /\ LP!Idle = Link!Idle /\ LP!CallState = Link!CallState
    /\ \A h \in Handlers, s \in Sessions, o \in {"download", "write"} :
         /\ Link!Call(h, s, o) <=> LP!Call(h, s, o)
         /\ Link!ReturnAndCall(h, s, o) <=> LP!ReturnAndCall(h, s, o)
    /\ \A h \in Handlers :
         /\ Link!Send(h) <=> LP!Send(h)
         /\ Link!SendOnClosed(h) <=> LP!SendOnClosed(h)
         /\ Link!Return(h) <=> LP!Return(h)
         /\ Link!Fail(h) <=> LP!Fail(h)
         /\ Link!Cancel(h) <=> LP!Cancel(h)
    /\ \A s \in Sessions : Link!Close(s) <=> LP!Close(s)
    /\ \A h \in Handlers, o \in {"download", "write"} :
         /\ Link!Serve(h, o) <=> LP!Serve(h, o)
         /\ Link!Lose(h, o) <=> LP!Lose(h, o)
<1>1. Link!TypeOK <=> LP!TypeOK
  BY DEF Link!TypeOK, LP!TypeOK, Link!CallState, LP!CallState, Link!Idle, LP!Idle
<1>2. Link!Init <=> LP!Init
  BY DEF Link!Init, LP!Init, Link!Free, LP!Free, Link!Idle, LP!Idle
<1>3. LP!Idle = Link!Idle /\ LP!CallState = Link!CallState
  BY DEF Link!Idle, LP!Idle, Link!CallState, LP!CallState
<1>4. ASSUME NEW h \in Handlers, NEW s \in Sessions, NEW o \in {"download", "write"}
      PROVE  /\ Link!Call(h, s, o) <=> LP!Call(h, s, o)
             /\ Link!ReturnAndCall(h, s, o) <=> LP!ReturnAndCall(h, s, o)
  <2>1. Link!Call(h, s, o) <=> LP!Call(h, s, o)
    BY <1>3 DEF Link!Call, LP!Call, Link!Acquire, LP!Acquire, Link!Granted, LP!Granted
  <2>2. Link!EndCallAndCall(h, s, o) <=> LP!EndCallAndCall(h, s, o)
    BY DEF Link!EndCallAndCall, LP!EndCallAndCall, Link!Acquire, LP!Acquire,
           Link!Release, LP!Release, Link!Granted, LP!Granted
  <2>3. Link!ReturnAndCall(h, s, o) <=> LP!ReturnAndCall(h, s, o)
    BY <2>2 DEF Link!ReturnAndCall, LP!ReturnAndCall, Link!ReplyArrived, LP!ReplyArrived
  <2> QED
    BY <2>1, <2>3
<1>5. ASSUME NEW h \in Handlers
      PROVE  /\ Link!Send(h) <=> LP!Send(h)
             /\ Link!SendOnClosed(h) <=> LP!SendOnClosed(h)
             /\ Link!Return(h) <=> LP!Return(h)
             /\ Link!Fail(h) <=> LP!Fail(h)
             /\ Link!Cancel(h) <=> LP!Cancel(h)
  <2>1. Link!Send(h) <=> LP!Send(h)
    BY DEF Link!Send, LP!Send
  <2>2. Link!EndCall(h) <=> LP!EndCall(h)
    <3>1. LP!Leave(sem, h) = Link!Leave(sem, h)
      <4>1. LP!RemoveFirst(sem.queue, h) = Link!RemoveFirst(sem.queue, h)
        BY DEF LP!RemoveFirst, Link!RemoveFirst, LP!RemoveAt, Link!RemoveAt,
               LP!SelectInSeq, Link!SelectInSeq, LP!Min, Link!Min
      <4> QED
        BY <4>1 DEF Link!Leave, LP!Leave, Link!Release, LP!Release
    <3>2. \A c : LP!Granted(c, sem') = Link!Granted(c, sem')
      BY DEF Link!Granted, LP!Granted
    <3> QED
      BY <1>3, <3>1, <3>2 DEF Link!EndCall, LP!EndCall
  <2>3. Link!SendOnClosed(h) <=> LP!SendOnClosed(h)
    BY <2>2 DEF Link!SendOnClosed, LP!SendOnClosed
  <2>4. Link!Return(h) <=> LP!Return(h)
    BY <2>2 DEF Link!Return, LP!Return, Link!ReplyArrived, LP!ReplyArrived
  <2>5. Link!Fail(h) <=> LP!Fail(h)
    BY <2>2 DEF Link!Fail, LP!Fail, Link!Abandoned, LP!Abandoned
  <2>6. Link!Cancel(h) <=> LP!Cancel(h)
    BY <1>3, <2>2 DEF Link!Cancel, LP!Cancel, Link!Abandoned, LP!Abandoned
  <2> QED
    BY <2>1, <2>3, <2>4, <2>5, <2>6
<1>6. \A s \in Sessions : Link!Close(s) <=> LP!Close(s)
  BY DEF Link!Close, LP!Close
<1>7. \A h \in Handlers, o \in {"download", "write"} :
         /\ Link!Serve(h, o) <=> LP!Serve(h, o)
         /\ Link!Lose(h, o) <=> LP!Lose(h, o)
  BY DEF Link!Serve, LP!Serve, Link!Lose, LP!Lose
<1> QED
  BY <1>1, <1>2, <1>3, <1>4, <1>5, <1>6, <1>7
\* A step of the write path that is no restart is a step of the link, or leaves it
\* alone.
LEMMA LinkStep ==
    ASSUME WriteInv, [Next]_vars, ~Restart
    PROVE  [LP!Next]_(LP!linkVars)
<1>1. CASE UNCHANGED link
  BY <1>1 DEF link, LP!linkVars
<1>2. ASSUME NEW h \in Handlers,
             \/ \E s \in Sessions, o \in {"download", "write"} :
                  LP!Call(h, s, o) \/ LP!ReturnAndCall(h, s, o)
             \/ LP!Send(h) \/ LP!SendOnClosed(h) \/ LP!Return(h) \/ LP!Fail(h)
             \/ \E o \in {"download", "write"} : LP!Serve(h, o) \/ LP!Lose(h, o)
      PROVE  LP!Next
  BY <1>2 DEF LP!Next
<1>3. ASSUME NEW s \in Sessions, Logout(s) PROVE LP!Next
  BY <1>3, SameLink DEF Logout, LP!Next
<1>4. ASSUME NEW h \in Handlers, Arrive(h) \/ StartOnClosed(h) \/ Reject(h) PROVE UNCHANGED link
  BY <1>4 DEF Arrive, StartOnClosed, Reject
<1>5. ASSUME NEW h \in Handlers, Start(h) \/ BackupThenWrite(h)
      PROVE  LP!Next
  <2>1. HandlerInv(h)
    BY DEF WriteInv
  <2>2. pc[h] # "idle"
    BY <1>5, <2>1 DEF Start, BackupThenWrite, HandlerInv, Control
  <2>3. job[h].via \in Sessions
    BY <2>1, <2>2 DEF HandlerInv, Control, Jobs
  <2> QED
    BY <1>2, <1>5, <2>3, SameLink DEF Start, BackupThenWrite
<1>6. ASSUME NEW h \in Handlers,
             SendRequest(h) \/ BackupOnly(h) \/ BackupFails(h) \/ WriteReturns(h) \/ RequestFails(h)
      PROVE  LP!Next
  BY <1>2, <1>6, SameLink
     DEF SendRequest, BackupOnly, BackupFails, WriteReturns, RequestFails
<1>7. ASSUME NEW h \in Handlers,
             ServeDownload(h) \/ ServeWrite(h) \/ RejectWrite(h) \/ LoseRequest(h)
      PROVE  LP!Next
  BY <1>2, <1>7, SameLink DEF ServeDownload, ServeWrite, RejectWrite, LoseRequest
<1> QED
  BY <1>1, <1>3, <1>4, <1>5, <1>6, <1>7 DEF Next, Handle, vars, LP!linkVars, link

\* A restart frees the permit: LP!LinkInv holds throughout.
LEMMA LinkInvKept ==
    ASSUME WriteInv, [Next]_vars
    PROVE  LP!LinkInv'
<1>0. LP!LinkInv
  BY DEF WriteInv
<1>1. CASE Restart
  <2> DEFINE q == sem'.queue
  <2>1. q = << >> /\ q \in Seq(Handlers) /\ q = [i \in 1..0 |-> i] /\ DOMAIN q = {}
    BY <1>1 DEF Restart
  <2>2. LP!TypeOK'
    <3>1. client' \in [Sessions -> {"open", "closed"}] /\ sem'.queue \in Seq(Handlers)
          /\ sem' \in [holder: Handlers \cup {NoHandler}, queue: Seq(Handlers)]
      BY <1>1, <2>1 DEF Restart
    <3>2. call' \in [Handlers -> LP!CallState \cup {LP!Idle}]
      BY <1>1, SameLink DEF Restart
    <3>3. wire' \in [Handlers -> [{"download", "write"} -> {"none", "queued", "answered"}]]
      BY <1>0, <1>1 DEF Restart, LP!LinkInv, LP!TypeOK
    <3> QED
      BY <3>1, <3>2, <3>3 DEF LP!TypeOK
  <2>3. LP!PermitInv'
    BY <1>1, <2>1, WriteAssumption
       DEF Restart, Link!Idle, LP!PermitInv, LP!ToSet, LP!IsInjective
  <2> QED
    BY <2>2, <2>3 DEF LP!LinkInv
<1>2. CASE [LP!Next]_(LP!linkVars)
  BY <1>0, <1>2, LP!LinkInvStep, WriteAssumption
<1> QED
  BY <1>1, <1>2, LinkStep

-----------------------------------------------------------------------------
(***************************************************************************)
(* What a step of one handler leaves to the others.                        *)
(***************************************************************************)
\* The call of x goes on, or is handed the permit.
CallGoesOn(x) ==
    \/ call'[x] = call[x]
    \/ /\ call[x] # Link!Idle /\ call'[x] # Link!Idle
       /\ call'[x].op = call[x].op
       /\ call[x].st = "waiting" /\ call'[x].st = "granted"

\* The history only grows.
HistoryGrows ==
    /\ Len(hist') \in Nat /\ Len(hist) <= Len(hist')
    /\ \A i \in 1..Len(hist) : hist'[i] = hist[i]

Unmoved(x) ==
    /\ CallGoesOn(x)
    /\ wire'[x] = wire[x]
    /\ pc'[x] = pc[x] /\ job'[x] = job[x] /\ src'[x] = src[x] /\ snap'[x] = snap[x]
    /\ answer'[x] = answer[x] /\ resp'[x] = resp[x]
    /\ from'[x] = from[x] /\ before'[x] = before[x] /\ hits'[x] = hits[x]
    /\ refusal'[x] = refusal[x]

LEMMA UnmovedKeepsInv ==
    ASSUME NEW x \in Handlers, HandlerInv(x), TypeOK,
           Unmoved(x), HistoryGrows, saved \subseteq saved', mode' = mode
    PROVE  HandlerInv(x)'
<1>1. Len(hist) \in Nat /\ before[x] \in Nat /\ from[x] \in Nat /\ hits[x] \in Nat
  BY LenProperties DEF TypeOK
<1>2. Calling(x, "write")' = Calling(x, "write") /\ Calling(x, "download")' = Calling(x, "download")
  BY DEF Unmoved, CallGoesOn, Calling
<1>3. Control(x)'
  BY <1>1, <1>2 DEF HandlerInv, Control, Unmoved, CallGoesOn, HistoryGrows, Refused
<1>4. Once(x)'
  BY <1>1, <1>2 DEF HandlerInv, Once, Unmoved, CallGoesOn, Untouched
<1>5. ASSUME NEW n \in Nat, n <= Len(hist), Backed(x, n), pc[x] # "idle"
      PROVE  \A m \in Nat : n <= m => \E i \in from[x]'..m : [by |-> x, config |-> hist'[i]] \in saved'
  <2>1. PICK i \in from[x]..n : [by |-> x, config |-> hist[i]] \in saved
    BY <1>5 DEF Backed
  <2>2. from[x] \in 1..Len(hist)
    BY <1>5 DEF HandlerInv, Control
  <2>3. hist'[i] = hist[i] /\ from'[x] = from[x]
    BY <1>1, <1>5, <2>2 DEF HistoryGrows, Unmoved
  <2> QED
    BY <1>1, <2>1, <2>3
<1>6. AtSwitch(x)' = AtSwitch(x)
  BY DEF AtSwitch, Unmoved
<1>7. Entitled(x)'
  <2> SUFFICES ASSUME Calling(x, "write") \/ AtSwitch(x)
               PROVE  Entitled(x)'
    BY <1>2, <1>6 DEF Entitled
  <2>1. /\ mode = [app |-> "writable", env |-> "writable"]
        /\ job[x].kind # "backup"
        /\ job[x].kind \in Confirmed => job[x].typed
        /\ job[x].kind \in AutoBackup =>
             /\ hits[x] = 0 => Backed(x, Len(hist))
             /\ hits[x] > 0 => Backed(x, before[x]) /\ before[x] \in 1..Len(hist)
    BY DEF HandlerInv, Entitled
  <2>2. pc[x] # "idle"
    BY <1>1 DEF HandlerInv, Control, Once, Calling, AtSwitch, Untouched
  <2>3. job[x].kind \in AutoBackup /\ hits[x] = 0 => Backed(x, Len(hist))'
    BY SMTT(20), <1>1, <1>5, <2>1, <2>2 DEF Backed, HistoryGrows
  <2>4. job[x].kind \in AutoBackup /\ hits[x] > 0 =>
           Backed(x, before[x])' /\ before'[x] \in 1..Len(hist')
    <3> SUFFICES ASSUME job[x].kind \in AutoBackup, hits[x] > 0
                 PROVE  Backed(x, before[x])' /\ before'[x] \in 1..Len(hist')
      OBVIOUS
    <3>1. Backed(x, before[x]) /\ before[x] \in 1..Len(hist) /\ before'[x] = before[x]
      BY <2>1 DEF Unmoved
    <3>2. \E i \in from[x]'..before[x] : [by |-> x, config |-> hist'[i]] \in saved'
      <4> DEFINE n == before[x]
      <4>1. n \in Nat /\ n <= Len(hist) /\ Backed(x, n)
        BY <1>1, <3>1
      <4> HIDE DEF n
      <4>2. n <= n /\ \E i \in from[x]'..n : [by |-> x, config |-> hist'[i]] \in saved'
        BY <1>5, <2>2, <4>1
      <4> QED
        BY <4>2 DEF n
    <3>3. before'[x] \in 1..Len(hist')
      BY <1>1, <3>1 DEF HistoryGrows
    <3> QED
      BY <3>1, <3>2, <3>3 DEF Backed
  <2> QED
    BY <2>1, <2>3, <2>4 DEF Entitled, Unmoved
<1>8. Truthful(x)'
  <2>0. \A a : Settled(x, a)' <=> Settled(x, a)
    BY DEF Settled, Unmoved
  <2>1. Calling(x, "write") /\ wire'[x]["write"] = "answered" => Settled(x, answer[x])'
    BY <2>0 DEF HandlerInv, Truthful, Unmoved
  <2>2. ASSUME Calling(x, "download"), wire[x]["download"] = "answered"
        PROVE  \E i \in from'[x]..Len(hist') : snap'[x] = hist'[i]
    <3>1. PICK i \in from[x]..Len(hist) : snap[x] = hist[i]
      BY <2>2 DEF HandlerInv, Truthful
    <3>2. from[x] \in 1..Len(hist)
      BY <2>2 DEF HandlerInv, Control, Calling
    <3> QED
      BY <1>1, <3>1, <3>2 DEF Unmoved, HistoryGrows
  <2>3. resp'[x] = "ok" =>
          /\ job'[x].kind \notin {"backup", "reset"} =>
               /\ wire'[x]["write"] = "none"
               /\ \E a \in {"ok", "error", "diagnostic"} :
                    Settled(x, a)' /\ (a = "error" => job'[x].kind \in Unchecked)
          /\ job'[x].kind = "backup" => SavedBy(x)' # {}
    BY <2>0 DEF HandlerInv, Truthful, Unmoved, SavedBy
  <2> QED
    BY <1>2, <2>1, <2>2, <2>3 DEF Truthful, Unmoved
<1> QED
  BY <1>3, <1>4, <1>7, <1>8 DEF HandlerInv
\* The link's part of a step of h: what becomes of the calls.
LEMMA GrantedGoesOn ==
    ASSUME NEW c, NEW s, NEW x \in Handlers, c[x] = call[x],
           call[x] \in Link!CallState \cup {Link!Idle}, call' = Link!Granted(c, s)
    PROVE  CallGoesOn(x)
<1>1. CASE s.holder = x /\ c[x].st = "waiting"
  <2>1. call'[x] = [call[x] EXCEPT !.st = "granted"]
    BY <1>1 DEF Link!Granted
  <2>2. call[x] \in Link!CallState /\ call[x] # Link!Idle
    BY <1>1 DEF Link!Idle
  <2> QED
    BY <1>1, <2>1, <2>2 DEF Link!CallState, Link!Idle, CallGoesOn
<1>2. CASE ~(s.holder = x /\ c[x].st = "waiting")
  BY <1>2 DEF Link!Granted, CallGoesOn
<1> QED
  BY <1>1, <1>2

LEMMA EndCallFrame ==
    ASSUME TypeOK, NEW h \in Handlers, Link!EndCall(h)
    PROVE  /\ call'[h] = Link!Idle
           /\ \A x \in Handlers \ {h} : CallGoesOn(x)
<1>1. call \in [Handlers -> Link!CallState \cup {Link!Idle}]
  BY DEF TypeOK, Link!TypeOK
<1>2. call' = Link!Granted([call EXCEPT ![h] = Link!Idle], sem')
  BY DEF Link!EndCall
<1>3. call'[h] = Link!Idle
  BY <1>1, <1>2 DEF Link!Granted, Link!Idle
<1>4. ASSUME NEW x \in Handlers \ {h} PROVE CallGoesOn(x)
  BY <1>1, <1>2, GrantedGoesOn
<1> QED
  BY <1>3, <1>4

LEMMA NewCallFrame ==
    ASSUME TypeOK, NEW h \in Handlers, NEW s \in Sessions, NEW o \in {"download", "write"},
           Link!Call(h, s, o) \/ Link!EndCallAndCall(h, s, o)
    PROVE  /\ call'[h] # Link!Idle
           /\ call'[h].op = o
           /\ call'[h].st \in {"waiting", "granted"}
           /\ \A x \in Handlers \ {h} : CallGoesOn(x)
<1> DEFINE r == [st |-> "waiting", via |-> s, op |-> o]
           c == [call EXCEPT ![h] = r]
<1>1. call \in [Handlers -> Link!CallState \cup {Link!Idle}]
  BY DEF TypeOK, Link!TypeOK
<1>2. call' = Link!Granted(c, sem')
  BY DEF Link!Call, Link!EndCallAndCall
<1>3. c[h] = r /\ \A x \in Handlers \ {h} : c[x] = call[x]
  BY <1>1
<1>4. call'[h] = r \/ call'[h] = [r EXCEPT !.st = "granted"]
  BY <1>2, <1>3 DEF Link!Granted
<1>5. ASSUME NEW x \in Handlers \ {h} PROVE CallGoesOn(x)
  <2> HIDE DEF c
  <2> QED
    BY <1>1, <1>2, <1>3, GrantedGoesOn
<1> QED
  BY <1>4, <1>5 DEF Link!Idle
-----------------------------------------------------------------------------
(***************************************************************************)
(* Types.                                                                  *)
(***************************************************************************)
\* The types of the variables of WriteSafety itself.
HandlerTypes ==
    /\ pc \in [Handlers -> {"idle", "entered", "calling", "done"}]
    /\ job \in [Handlers -> Jobs \cup {NoJob}]
    /\ src \in [Handlers -> Configs]
    /\ snap \in [Handlers -> Configs]
    /\ answer \in [Handlers -> {"none", "ok", "error", "diagnostic"}]
    /\ resp \in [Handlers -> {"none", "ok", "refused", "error", "lost"}]

StoreTypes ==
    /\ mode \in [app: {"read_only", "writable"}, env: {"read_only", "writable"}]
    /\ saved \subseteq Backups
    /\ live \in Configs
    /\ restarts \in 0..MaxRestarts

HistoryTypes ==
    /\ hist \in Seq(Configs)
    /\ from \in [Handlers -> Nat]
    /\ before \in [Handlers -> Nat]
    /\ hits \in [Handlers -> Nat]
    /\ refusal \in [Handlers -> {"none", "error", "diagnostic"}]

LEMMA TypeOKSplit ==
    TypeOK <=> Link!TypeOK /\ HandlerTypes /\ StoreTypes /\ HistoryTypes
BY DEF TypeOK, HandlerTypes, StoreTypes, HistoryTypes

LEMMA RespondTypes ==
    ASSUME HandlerTypes, NEW h \in Handlers,
           NEW r \in {"ok", "refused", "error", "lost"}, Respond(h, r)
    PROVE  HandlerTypes'
<1>1. {} \in Configs
  BY DEF Configs
<1> QED
  BY <1>1 DEF HandlerTypes, Respond

LEMMA SaveTypes ==
    ASSUME HandlerTypes, StoreTypes, NEW h \in Handlers, Save(h)
    PROVE  saved' \subseteq Backups
BY DEF HandlerTypes, StoreTypes, Save, Backups

LEMMA TypeStep ==
    ASSUME WriteInv, [Next]_vars, LP!LinkInv'
    PROVE  TypeOK'
<1>1. Link!TypeOK'
  BY DEF LP!LinkInv, Link!TypeOK, LP!TypeOK, Link!CallState, LP!CallState, Link!Idle, LP!Idle
<1>2. HandlerTypes /\ StoreTypes /\ HistoryTypes
  BY TypeOKSplit DEF WriteInv
<1>3. SUFFICES HandlerTypes' /\ StoreTypes' /\ HistoryTypes'
  BY <1>1, TypeOKSplit DEF TypeOK, HandlerTypes, StoreTypes, HistoryTypes
<1>4. {} \in Configs
  BY DEF Configs
<1>5. ASSUME NEW h \in Handlers, Arrive(h) PROVE HandlerTypes' /\ StoreTypes' /\ HistoryTypes'
  BY <1>2, <1>5, LenProperties DEF Arrive, HandlerTypes, StoreTypes, HistoryTypes
<1>6. ASSUME NEW h \in Handlers, StartOnClosed(h) \/ Reject(h)
      PROVE  HandlerTypes' /\ StoreTypes' /\ HistoryTypes'
  BY <1>2, <1>6, RespondTypes DEF StartOnClosed, Reject, StoreTypes, HistoryTypes, history
<1>7. ASSUME NEW h \in Handlers, Start(h)
      PROVE  HandlerTypes' /\ StoreTypes' /\ HistoryTypes'
  <2>1. src' \in [Handlers -> Configs]
    BY <1>2, <1>7 DEF Start, HandlerTypes, StoreTypes, Backups
  <2> QED
    BY <1>2, <1>7, <2>1 DEF Start, HandlerTypes, StoreTypes, HistoryTypes, history
<1>8. ASSUME NEW h \in Handlers, SendRequest(h)
      PROVE  HandlerTypes' /\ StoreTypes' /\ HistoryTypes'
  BY <1>2, <1>8 DEF SendRequest, handler, HandlerTypes, StoreTypes, HistoryTypes, history
<1>9. ASSUME NEW h \in Handlers, BackupThenWrite(h)
      PROVE  HandlerTypes' /\ StoreTypes' /\ HistoryTypes'
  BY <1>2, <1>9, SaveTypes
     DEF BackupThenWrite, handler, HandlerTypes, StoreTypes, HistoryTypes, history
<1>10. ASSUME NEW h \in Handlers, BackupOnly(h)
       PROVE  HandlerTypes' /\ StoreTypes' /\ HistoryTypes'
  BY <1>2, <1>10, SaveTypes, RespondTypes DEF BackupOnly, StoreTypes, HistoryTypes, history
<1>11. ASSUME NEW h \in Handlers, BackupFails(h) \/ RequestFails(h)
       PROVE  HandlerTypes' /\ StoreTypes' /\ HistoryTypes'
  BY <1>2, <1>11, RespondTypes DEF BackupFails, RequestFails, StoreTypes, HistoryTypes, history
<1>12. ASSUME NEW h \in Handlers, WriteReturns(h)
       PROVE  HandlerTypes' /\ StoreTypes' /\ HistoryTypes'
  BY <1>2, <1>12, RespondTypes DEF WriteReturns, Verdict, StoreTypes, HistoryTypes, history
<1>13. ASSUME NEW h \in Handlers, ServeDownload(h)
       PROVE  HandlerTypes' /\ StoreTypes' /\ HistoryTypes'
  <2>1. answer' \in [Handlers -> {"none", "ok", "error", "diagnostic"}]
    BY <1>2, <1>13 DEF ServeDownload, Answer, HandlerTypes
  <2>2. snap' \in [Handlers -> Configs]
    BY <1>2, <1>13 DEF ServeDownload, HandlerTypes, StoreTypes
  <2> QED
    BY <1>2, <1>13, <2>1, <2>2
       DEF ServeDownload, HandlerTypes, StoreTypes, HistoryTypes, history
<1>14. ASSUME NEW h \in Handlers, ServeWrite(h)
       PROVE  HandlerTypes' /\ StoreTypes' /\ HistoryTypes'
  <2>1. live' \in Configs
    BY <1>2, <1>14 DEF ServeWrite, Effect, Configs, HandlerTypes, StoreTypes
  <2>2. hist' \in Seq(Configs)
    BY <1>2, <1>14, <2>1, AppendProperties DEF ServeWrite, HistoryTypes
  <2>3. Len(hist) \in Nat
    BY <1>2, LenProperties DEF HistoryTypes
  <2> QED
    BY <1>2, <1>14, <2>1, <2>2, <2>3
       DEF ServeWrite, Answer, HandlerTypes, StoreTypes, HistoryTypes
<1>15. ASSUME NEW h \in Handlers, RejectWrite(h) \/ LoseRequest(h)
       PROVE  HandlerTypes' /\ StoreTypes' /\ HistoryTypes'
  <2>1. CASE RejectWrite(h)
    <3>1. answer' \in [Handlers -> {"none", "ok", "error", "diagnostic"}]
      BY <1>2, <2>1 DEF RejectWrite, Answer, HandlerTypes
    <3>2. refusal' \in [Handlers -> {"none", "error", "diagnostic"}]
      BY <1>2, <2>1 DEF RejectWrite, HistoryTypes
    <3> QED
      BY <1>2, <2>1, <3>1, <3>2 DEF RejectWrite, HandlerTypes, StoreTypes, HistoryTypes
  <2>2. CASE LoseRequest(h)
    BY <1>2, <2>2 DEF LoseRequest, handler, HandlerTypes, StoreTypes, HistoryTypes, history
  <2> QED
    BY <1>15, <2>1, <2>2
<1>16. ASSUME NEW s \in Sessions, Logout(s)
       PROVE  HandlerTypes' /\ StoreTypes' /\ HistoryTypes'
  BY <1>2, <1>16 DEF Logout, handler, HandlerTypes, StoreTypes, HistoryTypes, history
<1>17. CASE Restart
  BY <1>2, <1>4, <1>17, WriteAssumption
     DEF Restart, HandlerTypes, StoreTypes, HistoryTypes, history
<1>18. CASE UNCHANGED vars
  BY <1>2, <1>18 DEF vars, handler, HandlerTypes, StoreTypes, HistoryTypes, history
<1> QED
  BY <1>5, <1>6, <1>7, <1>8, <1>9, <1>10, <1>11, <1>12, <1>13, <1>14, <1>15, <1>16,
     <1>17, <1>18 DEF Next, Handle
-----------------------------------------------------------------------------
(***************************************************************************)
(* The steps of one handler, and of the switch for it.                     *)
(***************************************************************************)
\* A step that concerns h and leaves the other handlers where they are.
StepOf(h) ==
    /\ \A x \in Handlers \ {h} : Unmoved(x)
    /\ HistoryGrows /\ History'
    /\ saved \subseteq saved'
    /\ mode' = mode

LEMMA StepOfKeepsInv ==
    ASSUME WriteInv, NEW h \in Handlers, StepOf(h), HandlerInv(h)'
    PROVE  History' /\ \A x \in Handlers : HandlerInv(x)'
<1>1. ASSUME NEW x \in Handlers \ {h} PROVE HandlerInv(x)'
  BY UnmovedKeepsInv DEF WriteInv, StepOf
<1> QED
  BY <1>1 DEF StepOf

\* The history stands still.
LEMMA NoHistory ==
    ASSUME WriteInv, UNCHANGED <<hist, live>>
    PROVE  HistoryGrows /\ History'
<1>1. Len(hist) \in Nat
  BY LenProperties DEF WriteInv, TypeOK
<1> QED
  BY <1>1 DEF WriteInv, History, HistoryGrows

\* What the types say of one handler.
LEMMA Types ==
    ASSUME WriteInv, NEW h \in Handlers
    PROVE  /\ TypeOK /\ HandlerTypes /\ StoreTypes /\ HistoryTypes
           /\ HandlerInv(h)
           /\ call \in [Handlers -> Link!CallState \cup {Link!Idle}]
           /\ wire \in [Handlers -> [{"download", "write"} -> {"none", "queued", "answered"}]]
           /\ Len(hist) \in Nat \ {0} /\ hist[Len(hist)] = live
           /\ from[h] \in Nat /\ before[h] \in Nat /\ hits[h] \in Nat
<1>1. TypeOK /\ Link!TypeOK /\ HandlerTypes /\ StoreTypes /\ HistoryTypes
  BY TypeOKSplit DEF WriteInv
<1>2. /\ call \in [Handlers -> Link!CallState \cup {Link!Idle}]
      /\ wire \in [Handlers -> [{"download", "write"} -> {"none", "queued", "answered"}]]
  BY <1>1 DEF Link!TypeOK
<1>3. HandlerInv(h) /\ Len(hist) > 0 /\ hist[Len(hist)] = live
  BY DEF WriteInv, History
<1>4. hist \in Seq(Configs) /\ from[h] \in Nat /\ before[h] \in Nat /\ hits[h] \in Nat
  BY <1>1 DEF HistoryTypes
<1>5. Len(hist) \in Nat \ {0}
  BY <1>3, <1>4, LenProperties
<1> QED
  BY <1>1, <1>2, <1>3, <1>4, <1>5

LEMMA RespondFrame ==
    ASSUME HandlerTypes, NEW h \in Handlers, NEW r, Respond(h, r)
    PROVE  /\ pc'[h] = "done" /\ resp'[h] = r /\ snap'[h] = {} /\ answer'[h] = "none"
           /\ job' = job /\ src' = src
           /\ \A x \in Handlers \ {h} : /\ pc'[x] = pc[x] /\ resp'[x] = resp[x]
                                        /\ snap'[x] = snap[x] /\ answer'[x] = answer[x]
BY DEF HandlerTypes, Respond

LEMMA ArriveStep ==
    ASSUME WriteInv, NEW h \in Handlers, Arrive(h)
    PROVE  StepOf(h) /\ HandlerInv(h)'
<1>1. \A x \in Handlers \ {h} : Unmoved(x)
  BY Types DEF Arrive, Unmoved, CallGoesOn, link, HandlerTypes, HistoryTypes
<1>2. HistoryGrows /\ History'
  BY NoHistory DEF Arrive
<1>3. /\ pc'[h] = "entered" /\ job'[h] \in Jobs /\ from'[h] = Len(hist)
      /\ call'[h] = Link!Idle /\ wire' = wire /\ hits' = hits /\ resp'[h] = "none" /\ hist' = hist
  BY Types DEF Arrive, link, HandlerTypes, HistoryTypes, HandlerInv, Control
<1>4. Untouched(h) /\ Untouched(h)'
  BY <1>3, Types DEF HandlerInv, Once, Untouched, Arrive
<1>5. HandlerInv(h)'
  BY <1>3, <1>4, Types
     DEF HandlerInv, Control, Once, Entitled, Truthful, Untouched, Calling, AtSwitch, Arrive
<1> QED
  BY <1>1, <1>2, <1>5 DEF StepOf, Arrive

\* A handler that ends before it made a request.
LEMMA RefuseStep ==
    ASSUME WriteInv, NEW h \in Handlers, Reject(h) \/ StartOnClosed(h)
    PROVE  StepOf(h) /\ HandlerInv(h)'
<1>1. PICK r \in {"refused", "error"} : Respond(h, r)
  BY DEF Reject, StartOnClosed
<1>2. \A x \in Handlers \ {h} : Unmoved(x)
  BY <1>1, RespondFrame, Types DEF Reject, StartOnClosed, Unmoved, CallGoesOn, link, history
<1>3. HistoryGrows /\ History'
  BY NoHistory DEF Reject, StartOnClosed, history
<1>4. call[h] = Link!Idle /\ Untouched(h)
  BY Types DEF Reject, StartOnClosed, HandlerInv, Control, Once
<1>5. HandlerInv(h)'
  BY <1>1, <1>4, Types, RespondFrame
     DEF Reject, StartOnClosed, link, history, HandlerInv, Control, Once, Entitled, Truthful,
         Untouched, Calling, AtSwitch
<1> QED
  BY <1>2, <1>3, <1>5 DEF StepOf, Reject, StartOnClosed
LEMMA StartStep ==
    ASSUME WriteInv, NEW h \in Handlers, Start(h)
    PROVE  StepOf(h) /\ HandlerInv(h)'
<1> DEFINE o == IF job[h].kind = "poke" THEN "write" ELSE "download"
<1>1. job[h] \in Jobs /\ job[h].via \in Sessions /\ from[h] \in 1..Len(hist) /\ Untouched(h)
  BY Types DEF Start, HandlerInv, Control, Once, Jobs
<1>2. o \in {"download", "write"} /\ Link!Call(h, job[h].via, o)
  BY DEF Start
<1>3. /\ call'[h] # Link!Idle /\ call'[h].op = o /\ call'[h].st # "sent"
      /\ \A x \in Handlers \ {h} : CallGoesOn(x)
  <2> HIDE DEF o
  <2> QED
    BY <1>1, <1>2, Types, NewCallFrame
<1>4. UNCHANGED <<client, wire>> /\ wire[h][o] = "none"
  BY <1>2 DEF Link!Call
<1>5. \A x \in Handlers \ {h} : Unmoved(x)
  BY <1>3, <1>4, Types DEF Start, Unmoved, HandlerTypes, history
<1>6. HistoryGrows /\ History'
  BY NoHistory DEF Start, history
<1>7. /\ pc'[h] = "calling" /\ job' = job /\ resp' = resp /\ answer' = answer /\ hist' = hist
      /\ from' = from /\ before' = before /\ hits' = hits /\ saved' = saved /\ mode' = mode
      /\ pc[h] = "entered"
  BY Types DEF Start, HandlerTypes, history
<1>8. job[h].kind = "poke" =>
        mode = [app |-> "writable", env |-> "writable"]
  BY Types DEF Start, Refused, StoreTypes
<1>9. Control(h)' /\ Once(h)' /\ Truthful(h)'
  BY <1>1, <1>3, <1>4, <1>7, Types
     DEF Start, HandlerInv, Control, Once, Truthful, Untouched, Calling, Refused
<1>10. Entitled(h)'
  BY <1>1, <1>3, <1>4, <1>7, <1>8, Types
     DEF Entitled, Untouched, Calling, AtSwitch, Confirmed, AutoBackup
<1> QED
  BY <1>5, <1>6, <1>7, <1>9, <1>10 DEF StepOf, HandlerInv

LEMMA SendStep ==
    ASSUME WriteInv, NEW h \in Handlers, SendRequest(h)
    PROVE  StepOf(h) /\ HandlerInv(h)'
<1>1. /\ call[h].st = "granted" /\ call[h] # Link!Idle /\ call[h] \in Link!CallState
      /\ call[h].op \in {"download", "write"}
      /\ call' = [call EXCEPT ![h] = [call[h] EXCEPT !.st = "sent"]]
      /\ wire' = [wire EXCEPT ![h] = [wire[h] EXCEPT ![call[h].op] = "queued"]]
  BY Types DEF SendRequest, Link!Send, Link!Idle, Link!CallState
<1>2. /\ call'[h].op = call[h].op /\ call'[h].st = "sent" /\ call'[h] # Link!Idle
      /\ wire'[h][call[h].op] = "queued"
      /\ \A o \in {"download", "write"} : o # call[h].op => wire'[h][o] = wire[h][o]
      /\ \A x \in Handlers \ {h} : call'[x] = call[x] /\ wire'[x] = wire[x]
  BY <1>1, Types DEF Link!CallState, Link!Idle
<1>3. \A x \in Handlers \ {h} : Unmoved(x)
  BY <1>2 DEF SendRequest, Unmoved, CallGoesOn, handler, history
<1>4. HistoryGrows /\ History'
  BY NoHistory DEF SendRequest, history
<1>5. /\ UNCHANGED handler /\ UNCHANGED history /\ UNCHANGED <<saved, mode>>
      /\ pc[h] = "calling" /\ Untouched(h)
  BY <1>1, Types DEF SendRequest, HandlerInv, Control, Once
<1>6. Control(h)' /\ Once(h)' /\ Truthful(h)'
  BY <1>1, <1>2, <1>5, Types
     DEF handler, history, HandlerInv, Control, Once, Truthful, Untouched, Calling, Refused, SavedBy
<1>7. Entitled(h)'
  BY <1>1, <1>2, <1>5, Types
     DEF handler, history, HandlerInv, Entitled, Untouched, Calling, AtSwitch, Backed
<1> QED
  BY <1>3, <1>4, <1>5, <1>6, <1>7 DEF StepOf, HandlerInv

\* The download is answered: what the handler saves is real.
LEMMA SaveIsBacked ==
    ASSUME WriteInv, NEW h \in Handlers, Calling(h, "download"),
           wire[h]["download"] = "answered", Save(h)
    PROVE  /\ \E i \in from[h]..Len(hist) : [by |-> h, config |-> hist[i]] \in saved'
           /\ saved \subseteq saved'
<1>1. PICK i \in from[h]..Len(hist) : snap[h] = hist[i]
  BY Types DEF HandlerInv, Truthful
<1> QED
  BY <1>1 DEF Save

LEMMA BackupThenWriteStep ==
    ASSUME WriteInv, NEW h \in Handlers, BackupThenWrite(h)
    PROVE  StepOf(h) /\ HandlerInv(h)'
<1>1. Calling(h, "download") /\ wire[h]["download"] = "answered"
  BY DEF BackupThenWrite, Calling, Link!ReturnAndCall, Link!ReplyArrived
<1>2. /\ pc[h] = "calling" /\ Untouched(h) /\ ~Refused(job[h])
      /\ job[h] \in Jobs /\ job[h].via \in Sessions /\ from[h] \in 1..Len(hist)
  BY <1>1, Types DEF HandlerInv, Control, Once, Calling, Jobs
<1>3. /\ call'[h] # Link!Idle /\ call'[h].op = "write" /\ call'[h].st # "sent"
      /\ \A x \in Handlers \ {h} : CallGoesOn(x)
  BY <1>2, Types, NewCallFrame DEF BackupThenWrite, Link!ReturnAndCall
<1>4. /\ wire' = [wire EXCEPT ![h] = [wire[h] EXCEPT !["download"] = "none"]]
      /\ UNCHANGED client
  BY <1>1 DEF BackupThenWrite, Link!ReturnAndCall, Calling
<1>5. /\ wire'[h]["download"] = "none" /\ wire'[h]["write"] = wire[h]["write"]
      /\ \A x \in Handlers \ {h} : wire'[x] = wire[x]
  BY <1>4, Types
<1>6. UNCHANGED handler /\ UNCHANGED history /\ UNCHANGED <<mode, live>> /\ Save(h)
  BY DEF BackupThenWrite
<1>7. \A x \in Handlers \ {h} : Unmoved(x)
  BY <1>3, <1>5, <1>6 DEF Unmoved, handler, history
<1>8. HistoryGrows /\ History'
  BY <1>6, NoHistory DEF history
<1>9. /\ \E i \in from[h]..Len(hist) : [by |-> h, config |-> hist[i]] \in saved'
      /\ saved \subseteq saved'
  BY <1>1, <1>6, SaveIsBacked
<1>10. Control(h)' /\ Once(h)' /\ Truthful(h)'
  BY <1>2, <1>3, <1>5, <1>6, <1>9, Types
     DEF handler, history, HandlerInv, Control, Once, Truthful, Untouched, Calling, Refused, SavedBy
<1>11. Entitled(h)'
  <2>1. mode = [app |-> "writable", env |-> "writable"]
    BY <1>2, Types DEF BackupThenWrite, Refused, StoreTypes, AutoBackup, Confirmed
  <2>2. job[h].kind # "backup" /\ (job[h].kind \in Confirmed => job[h].typed)
    BY <1>2 DEF BackupThenWrite, Refused, AutoBackup, Confirmed
  <2> QED
    BY <1>2, <1>5, <1>6, <1>9, <2>1, <2>2
       DEF handler, history, Entitled, Untouched, Backed
<1> QED
  BY <1>6, <1>7, <1>8, <1>9, <1>10, <1>11 DEF StepOf, HandlerInv
\* The calls of the handlers when h ends its call with a response.
LEMMA EndWithResponse ==
    ASSUME WriteInv, NEW h \in Handlers, Link!EndCall(h), NEW r, Respond(h, r),
           UNCHANGED history,
           \A x \in Handlers \ {h} : wire'[x] = wire[x]
    PROVE  /\ \A x \in Handlers \ {h} : Unmoved(x)
           /\ call'[h] = Link!Idle
           /\ pc'[h] = "done" /\ resp'[h] = r /\ answer'[h] = "none" /\ job' = job
BY Types, EndCallFrame, RespondFrame DEF Unmoved, history

LEMMA BackupOnlyStep ==
    ASSUME WriteInv, NEW h \in Handlers, BackupOnly(h)
    PROVE  StepOf(h) /\ HandlerInv(h)'
<1>1. Calling(h, "download") /\ wire[h]["download"] = "answered"
  BY DEF BackupOnly, Calling, Link!Return, Link!ReplyArrived
<1>2. Untouched(h) /\ job[h] \in Jobs /\ from[h] \in 1..Len(hist)
  BY <1>1, Types DEF HandlerInv, Control, Once, Calling
<1>3. PICK r \in {"ok", "refused", "error"} :
        /\ Respond(h, r)
        /\ r = "ok" => job[h].kind = "backup"
  BY DEF BackupOnly
<1>4. /\ Link!EndCall(h) /\ UNCHANGED history /\ UNCHANGED <<mode, live>> /\ Save(h)
      /\ wire' = [wire EXCEPT ![h] = [wire[h] EXCEPT !["download"] = "none"]]
  BY <1>1 DEF BackupOnly, Link!Return, Calling
<1>5. /\ wire'[h]["write"] = "none" /\ wire'[h]["download"] = "none"
      /\ \A x \in Handlers \ {h} : wire'[x] = wire[x]
  BY <1>2, <1>4, Types DEF Untouched
<1>6. /\ \A x \in Handlers \ {h} : Unmoved(x)
      /\ call'[h] = Link!Idle
      /\ pc'[h] = "done" /\ resp'[h] = r /\ answer'[h] = "none" /\ job' = job
  BY <1>3, <1>4, <1>5, EndWithResponse
<1>7. HistoryGrows /\ History'
  BY <1>4, NoHistory DEF history
<1>8. saved \subseteq saved' /\ SavedBy(h)' # {}
  BY <1>1, <1>4, SaveIsBacked DEF SavedBy, Save
<1>9. HandlerInv(h)'
  BY <1>2, <1>3, <1>4, <1>5, <1>6, <1>8, Types
     DEF history, HandlerInv, Control, Once, Entitled, Truthful, Untouched, Calling, AtSwitch
<1> QED
  BY <1>4, <1>6, <1>7, <1>8, <1>9 DEF StepOf

LEMMA BackupFailsStep ==
    ASSUME WriteInv, NEW h \in Handlers, BackupFails(h)
    PROVE  StepOf(h) /\ HandlerInv(h)'
<1>1. Calling(h, "download") /\ Respond(h, "error")
  BY DEF BackupFails, Calling
<1>2. Untouched(h) /\ job[h] \in Jobs /\ from[h] \in 1..Len(hist)
  BY <1>1, Types DEF HandlerInv, Control, Once, Calling
<1>3. /\ Link!EndCall(h) /\ UNCHANGED history /\ UNCHANGED <<mode, live, saved>>
      /\ wire' = [wire EXCEPT ![h] = [wire[h] EXCEPT !["download"] = "none"]]
  BY <1>1 DEF BackupFails, Link!Return, Calling
<1>4. /\ wire'[h]["write"] = "none" /\ wire'[h]["download"] = "none"
      /\ \A x \in Handlers \ {h} : wire'[x] = wire[x]
  BY <1>2, <1>3, Types DEF Untouched
<1>5. /\ \A x \in Handlers \ {h} : Unmoved(x)
      /\ call'[h] = Link!Idle
      /\ pc'[h] = "done" /\ resp'[h] = "error" /\ answer'[h] = "none" /\ job' = job
  BY <1>1, <1>3, <1>4, EndWithResponse
<1>6. HistoryGrows /\ History'
  BY <1>3, NoHistory DEF history
<1>7. HandlerInv(h)'
  BY <1>2, <1>3, <1>4, <1>5, Types
     DEF history, HandlerInv, Control, Once, Entitled, Truthful, Untouched, Calling, AtSwitch
<1> QED
  BY <1>3, <1>5, <1>6, <1>7 DEF StepOf

LEMMA WriteReturnsStep ==
    ASSUME WriteInv, NEW h \in Handlers, WriteReturns(h)
    PROVE  StepOf(h) /\ HandlerInv(h)'
<1>1. Calling(h, "write") /\ wire[h]["write"] = "answered"
  BY DEF WriteReturns, Calling, Link!Return, Link!ReplyArrived
<1>2. job[h] \in Jobs /\ from[h] \in 1..Len(hist) /\ hits[h] <= 1 /\ AtSwitch(h)
      /\ job[h].kind # "backup"
  BY <1>1, Types DEF HandlerInv, Control, Once, Calling, AtSwitch, Entitled
<1>3. PICK r \in {"ok", "error"} :
        /\ Respond(h, r)
        /\ r = "ok" => answer[h] # "error" \/ job[h].kind \in Unchecked
  BY DEF WriteReturns, Verdict
<1>4. /\ Link!EndCall(h) /\ UNCHANGED history /\ UNCHANGED <<mode, live, saved>>
      /\ wire' = [wire EXCEPT ![h] = [wire[h] EXCEPT !["write"] = "none"]]
  BY <1>1 DEF WriteReturns, Link!Return, Calling
<1>5. /\ wire'[h]["write"] = "none" /\ wire'[h]["download"] = wire[h]["download"]
      /\ \A x \in Handlers \ {h} : wire'[x] = wire[x]
  BY <1>4, Types
<1>6. /\ \A x \in Handlers \ {h} : Unmoved(x)
      /\ call'[h] = Link!Idle
      /\ pc'[h] = "done" /\ resp'[h] = r /\ answer'[h] = "none" /\ job' = job
  BY <1>3, <1>4, <1>5, EndWithResponse
<1>7. HistoryGrows /\ History'
  BY <1>4, NoHistory DEF history
<1>8. r = "ok" => \E a \in {"ok", "error", "diagnostic"} :
                    Settled(h, a)' /\ (a = "error" => job[h].kind \in Unchecked)
  <2>1. Settled(h, answer[h])
    BY <1>1, Types DEF HandlerInv, Truthful
  <2>2. \A a : Settled(h, a)' <=> Settled(h, a)
    BY <1>4 DEF Settled, history
  <2>3. CASE hits[h] = 1
    BY <2>2, <2>3 DEF Settled
  <2>4. CASE answer[h] \in {"error", "diagnostic"}
    BY <1>3, <2>1, <2>2, <2>4
  <2> QED
    BY <2>1, <2>3, <2>4 DEF Settled
<1>9. HandlerInv(h)'
  BY <1>1, <1>2, <1>3, <1>4, <1>5, <1>6, <1>8, Types
     DEF history, HandlerInv, Control, Once, Entitled, Truthful, Untouched, Calling, AtSwitch, Backed
<1> QED
  BY <1>4, <1>6, <1>7, <1>9 DEF StepOf

LEMMA RequestFailsStep ==
    ASSUME WriteInv, NEW h \in Handlers, RequestFails(h)
    PROVE  StepOf(h) /\ HandlerInv(h)'
<1>1. PICK r \in {"ok", "error"} :
        /\ Respond(h, r)
        /\ r = "ok" => job[h].kind = "reset"
  BY DEF RequestFails
<1>2. /\ Link!EndCall(h) /\ UNCHANGED history /\ UNCHANGED <<mode, live, saved>>
      /\ call[h] # Link!Idle
      /\ UNCHANGED wire \/ (call[h].st = "sent" /\ Link!Abandoned(h))
  BY DEF RequestFails, Link!SendOnClosed, Link!Fail, Link!Idle
<1>3. call[h].op \in {"download", "write"}
  BY <1>2, Types DEF Link!CallState
<1>4. /\ \A x \in Handlers \ {h} : wire'[x] = wire[x]
      /\ \A o \in {"download", "write"} :
           \/ wire'[h][o] = wire[h][o]
           \/ wire[h][o] = "answered" /\ wire'[h][o] = "none"
  BY <1>2, <1>3, Types DEF Link!Abandoned
<1>5. /\ \A x \in Handlers \ {h} : Unmoved(x)
      /\ call'[h] = Link!Idle
      /\ pc'[h] = "done" /\ resp'[h] = r /\ answer'[h] = "none" /\ job' = job
  BY <1>1, <1>2, <1>4, EndWithResponse
<1>6. HistoryGrows /\ History'
  BY <1>2, NoHistory DEF history
<1>7. job[h] \in Jobs /\ from[h] \in 1..Len(hist) /\ hits[h] <= 1
  BY <1>2, Types DEF HandlerInv, Control, Once
<1>8. Control(h)' /\ Once(h)' /\ Truthful(h)'
  BY <1>1, <1>2, <1>4, <1>5, <1>7, Types
     DEF history, HandlerInv, Control, Once, Truthful, Untouched, Calling
<1>9. Entitled(h)'
  BY <1>2, <1>4, <1>5, <1>7, Types
     DEF history, HandlerInv, Entitled, Calling, AtSwitch, Backed
<1> QED
  BY <1>2, <1>5, <1>6, <1>8, <1>9 DEF StepOf, HandlerInv
LEMMA ServeDownloadStep ==
    ASSUME WriteInv, NEW h \in Handlers, ServeDownload(h)
    PROVE  StepOf(h) /\ HandlerInv(h)'
<1>1. /\ wire[h]["download"] = "queued"
      /\ wire' = [wire EXCEPT ![h] = [wire[h] EXCEPT !["download"] =
                    IF call[h].st = "sent" /\ call[h].op = "download" THEN "answered" ELSE "none"]]
      /\ UNCHANGED <<client, sem, call>> /\ UNCHANGED history
      /\ UNCHANGED <<mode, pc, job, src, resp, saved, live>>
  BY DEF ServeDownload, Link!Serve
<1>2. /\ wire'[h]["write"] = wire[h]["write"]
      /\ wire'[h]["download"] \in {"answered", "none"}
      /\ \A x \in Handlers \ {h} : wire'[x] = wire[x]
  BY <1>1, Types
<1>3. /\ \A x \in Handlers \ {h} : snap'[x] = snap[x] /\ answer'[x] = answer[x]
      /\ call[h] # Link!Idle => snap'[h] = live
      /\ call[h] = Link!Idle => answer'[h] = answer[h]
  <2>1. \A x \in Handlers \ {h} : snap'[x] = snap[x]
    BY Types DEF ServeDownload, HandlerTypes
  <2>2. \A x \in Handlers \ {h} : answer'[x] = answer[x]
    BY Types DEF ServeDownload, HandlerTypes, Answer
  <2>3. call[h] # Link!Idle => snap'[h] = live
    BY Types DEF ServeDownload, HandlerTypes
  <2>4. call[h] = Link!Idle => answer'[h] = answer[h]
    BY DEF ServeDownload, Answer
  <2> QED
    BY <2>1, <2>2, <2>3, <2>4
<1>4. \A x \in Handlers \ {h} : Unmoved(x)
  BY <1>1, <1>2, <1>3 DEF Unmoved, CallGoesOn, history
<1>5. HistoryGrows /\ History'
  BY <1>1, NoHistory DEF history
<1>6. Control(h)' /\ Once(h)'
  BY <1>1, <1>2, Types DEF history, HandlerInv, Control, Once, Untouched, Calling, Refused
<1>7. Entitled(h)'
  BY <1>1, <1>2, Types DEF history, HandlerInv, Entitled, Calling, AtSwitch, Backed
<1>8. Truthful(h)'
  <2>1. Calling(h, "write")' /\ wire'[h]["write"] = "answered" => Settled(h, answer[h])'
    <3>1. CASE call[h] = Link!Idle
      BY <1>1, <3>1 DEF Calling
    <3>2. CASE call[h] # Link!Idle
      <4>1. call[h] \in Link!CallState /\ ~Calling(h, "write")
        BY <1>1, <3>2, Types DEF HandlerInv, Control
      <4>2. Calling(h, "download")
        BY <3>2, <4>1 DEF Calling, Link!CallState
      <4> QED
        BY <1>2, <4>2, Types DEF HandlerInv, Once, Untouched
    <3> QED
      BY <3>1, <3>2
  <2>2. Calling(h, "download")' => \E i \in from'[h]..Len(hist') : snap'[h] = hist'[i]
    <3> SUFFICES ASSUME Calling(h, "download")
                 PROVE  \E i \in from[h]..Len(hist) : snap'[h] = hist[i]
      BY <1>1 DEF Calling, history
    <3>1. from[h] \in 1..Len(hist) /\ snap'[h] = hist[Len(hist)]
      BY <1>3, Types DEF HandlerInv, Control, Calling
    <3> QED
      BY <3>1, Types
  <2>3. resp'[h] = resp[h] /\ job' = job /\ hits' = hits /\ saved' = saved /\ refusal' = refusal
        /\ wire'[h]["write"] = wire[h]["write"]
    BY <1>1, <1>2 DEF history
  <2> QED
    BY <2>1, <2>2, <2>3, Types DEF HandlerInv, Truthful, Settled, SavedBy
<1> QED
  BY <1>1, <1>4, <1>5, <1>6, <1>7, <1>8 DEF StepOf, HandlerInv

LEMMA ServeWriteStep ==
    ASSUME WriteInv, NEW h \in Handlers, ServeWrite(h)
    PROVE  StepOf(h) /\ HandlerInv(h)'
<1>1. /\ wire[h]["write"] = "queued"
      /\ wire' = [wire EXCEPT ![h] = [wire[h] EXCEPT !["write"] =
                    IF call[h].st = "sent" /\ call[h].op = "write" THEN "answered" ELSE "none"]]
      /\ UNCHANGED <<client, sem, call>>
      /\ UNCHANGED <<mode, pc, job, src, snap, resp, saved, from>>
      /\ hist' = IF live' = live THEN hist ELSE Append(hist, live')
      /\ before' = [before EXCEPT ![h] = Len(hist)]
      /\ hits' = [hits EXCEPT ![h] = hits[h] + 1]
      /\ refusal' = refusal
  BY DEF ServeWrite, Link!Serve
<1>2. /\ wire'[h]["download"] = wire[h]["download"]
      /\ wire'[h]["write"] \in {"answered", "none"}
      /\ wire'[h]["write"] = "answered" => call[h] # Link!Idle
      /\ \A x \in Handlers \ {h} : wire'[x] = wire[x]
  BY <1>1, Types DEF Link!Idle
<1>3. /\ hits[h] = 0 /\ hits'[h] = 1 /\ before'[h] = Len(hist)
      /\ \A x \in Handlers \ {h} : hits'[x] = hits[x] /\ before'[x] = before[x]
  BY <1>1, Types DEF HandlerInv, Once, HistoryTypes
<1>4. \A x \in Handlers \ {h} : answer'[x] = answer[x]
  BY Types DEF ServeWrite, Answer, HandlerTypes
<1>5. live' \in Configs
  BY Types DEF ServeWrite, Effect, Configs, HandlerTypes, StoreTypes
<1>6. HistoryGrows /\ History'
  <2>1. CASE live' = live
    BY <1>1, <2>1, Types DEF HistoryGrows, History
  <2>2. CASE live' # live
    <3>1. /\ hist' = Append(hist, live') /\ Len(hist') = Len(hist) + 1
          /\ \A i \in 1..Len(hist) : hist'[i] = hist[i]
          /\ hist'[Len(hist) + 1] = live'
      BY <1>1, <1>5, <2>2, Types, AppendProperties DEF HistoryTypes
    <3> QED
      BY <3>1, Types DEF HistoryGrows, History
  <2> QED
    BY <2>1, <2>2
<1>7. \A x \in Handlers \ {h} : Unmoved(x)
  BY <1>1, <1>2, <1>3, <1>4 DEF Unmoved, CallGoesOn
<1>8. AtSwitch(h) /\ pc[h] # "idle" /\ job[h] \in Jobs /\ from[h] \in 1..Len(hist)
  BY <1>1, Types DEF AtSwitch, HandlerInv, Once, Control, Untouched
<1>9. ~Calling(h, "download") /\ (call[h] # Link!Idle => call[h].st = "sent")
  BY <1>1, Types DEF HandlerInv, Once, Untouched
<1>10. resp[h] # "refused"
  BY <1>1, Types DEF HandlerInv, Once, Untouched
<1>11. Control(h)'
  BY <1>1, <1>2, <1>6, <1>8, Types DEF HandlerInv, Control, Calling, Refused, HistoryGrows
<1>12. Once(h)'
  BY <1>1, <1>2, <1>3, <1>8, <1>9, <1>10, Types DEF HandlerInv, Once, Calling, Untouched
<1>13. Entitled(h)'
  <2>1. /\ mode = [app |-> "writable", env |-> "writable"]
        /\ job[h].kind # "backup"
        /\ job[h].kind \in Confirmed => job[h].typed
        /\ job[h].kind \in AutoBackup => Backed(h, Len(hist))
    BY <1>3, <1>8, Types DEF HandlerInv, Entitled
  <2>2. ASSUME Backed(h, Len(hist))
        PROVE  \E i \in from'[h]..before'[h] : [by |-> h, config |-> hist'[i]] \in saved'
    BY <1>1, <1>3, <1>6, <1>8, <2>2, Types DEF Backed, HistoryGrows
  <2>3. before'[h] \in 1..Len(hist')
    BY <1>3, <1>6, Types DEF HistoryGrows
  <2>4. job[h].kind \in AutoBackup => Backed(h, before[h])'
    BY <2>1, <2>2 DEF Backed
  <2>5. mode' = mode /\ job' = job /\ hits'[h] # 0
    BY <1>1, <1>3
  <2> QED
    BY <2>1, <2>3, <2>4, <2>5 DEF Entitled
<1>14. Truthful(h)'
  <2>1. resp[h] = "ok" => job[h].kind \in {"backup", "reset"}
    BY <1>1, Types DEF HandlerInv, Truthful
  <2> QED
    BY <1>1, <1>3, <1>8, <1>9, <2>1, Types DEF HandlerInv, Truthful, Settled, Calling, SavedBy
<1> QED
  BY <1>1, <1>6, <1>7, <1>11, <1>12, <1>13, <1>14 DEF StepOf, HandlerInv

LEMMA RejectOrLoseStep ==
    ASSUME WriteInv, NEW h \in Handlers, RejectWrite(h) \/ LoseRequest(h)
    PROVE  StepOf(h) /\ HandlerInv(h)'
<1>1. PICK o \in {"download", "write"}, v \in {"none", "answered"} :
        /\ wire[h][o] = "queued"
        /\ wire' = [wire EXCEPT ![h] = [wire[h] EXCEPT ![o] = v]]
        /\ v = "answered" => o = "write" /\ RejectWrite(h)
  BY DEF RejectWrite, LoseRequest, Link!Serve, Link!Lose
<1>2. /\ UNCHANGED <<client, sem, call>> /\ UNCHANGED <<hist, from, before, hits>>
      /\ UNCHANGED <<mode, pc, job, src, snap, resp, saved, live>>
  BY DEF RejectWrite, LoseRequest, Link!Serve, Link!Lose, handler, history
<1>3. /\ wire'[h][o] = v
      /\ \A p \in {"download", "write"} : p # o => wire'[h][p] = wire[h][p]
      /\ \A x \in Handlers \ {h} : wire'[x] = wire[x]
  BY <1>1, Types
<1>4. \A x \in Handlers \ {h} : answer'[x] = answer[x] /\ refusal'[x] = refusal[x]
  BY Types DEF RejectWrite, LoseRequest, handler, history, Answer, HandlerTypes, HistoryTypes
<1>5. \A x \in Handlers \ {h} : Unmoved(x)
  BY <1>2, <1>3, <1>4 DEF Unmoved, CallGoesOn
<1>6. HistoryGrows /\ History'
  BY <1>2, NoHistory
<1>7. Control(h)' /\ Once(h)'
  BY <1>1, <1>2, <1>3, Types DEF HandlerInv, Control, Once, Untouched, Calling, Refused
<1>8. Entitled(h)'
  BY <1>1, <1>2, <1>3, Types DEF HandlerInv, Entitled, Calling, AtSwitch, Backed
<1>9. Truthful(h)'
  <2>1. Calling(h, "write")' /\ wire'[h]["write"] = "answered" => Settled(h, answer[h])'
    <3>1. CASE RejectWrite(h) /\ o = "write"
      <4>1. v = "answered" => call[h] # Link!Idle
        BY <1>1, <3>1, Types DEF RejectWrite, Link!Serve, Link!Idle
      <4>2. call[h] # Link!Idle =>
              answer'[h] \in {"error", "diagnostic"} /\ refusal'[h] = answer'[h]
        BY <3>1, Types DEF RejectWrite, Answer, HandlerTypes, HistoryTypes
      <4> QED
        BY <1>1, <1>3, <3>1, <4>1, <4>2 DEF Settled
    <3>2. CASE LoseRequest(h)
      BY <1>1, <1>2, <1>3, <3>2, Types
         DEF LoseRequest, handler, history, HandlerInv, Truthful, Settled, Calling, Link!Lose
    <3>3. RejectWrite(h) => o = "write"
      <4> SUFFICES ASSUME RejectWrite(h), o = "download" PROVE FALSE
        OBVIOUS
      <4>1. wire'[h]["download"] = wire[h]["download"]
        BY Types DEF RejectWrite, Link!Serve
      <4> QED
        BY <1>1, <1>3, <4>1
    <3> QED
      BY <3>1, <3>2, <3>3
  <2>2. wire'[h]["download"] = "answered" => wire[h]["download"] = "answered"
    BY <1>1, <1>3
  <2>3. resp[h] = "ok" /\ job[h].kind \notin {"backup", "reset"} =>
          wire'[h]["write"] = "none" /\ UNCHANGED refusal
    <3> SUFFICES ASSUME resp[h] = "ok", job[h].kind \notin {"backup", "reset"}
                 PROVE  wire'[h]["write"] = "none" /\ UNCHANGED refusal
      OBVIOUS
    <3>1. wire[h]["write"] = "none"
      BY Types DEF HandlerInv, Truthful
    <3>2. o = "download" /\ ~RejectWrite(h)
      BY <1>1, <3>1 DEF RejectWrite, Link!Serve
    <3> QED
      BY <1>3, <3>1, <3>2 DEF LoseRequest, history
  <2> QED
    BY <1>2, <2>1, <2>2, <2>3, Types DEF HandlerInv, Truthful, Settled, Calling, SavedBy
<1> QED
  BY <1>2, <1>5, <1>6, <1>7, <1>8, <1>9 DEF StepOf, HandlerInv
\* A logout and a stutter leave every handler where it is.
LEMMA QuietStep ==
    ASSUME WriteInv, (\E s \in Sessions : Logout(s)) \/ UNCHANGED vars
    PROVE  History' /\ \A x \in Handlers : HandlerInv(x)'
<1>1. /\ UNCHANGED <<call, wire>> /\ UNCHANGED <<mode, saved, live>>
      /\ UNCHANGED handler /\ UNCHANGED history
  BY DEF Logout, Link!Close, vars, link
<1>2. HistoryGrows /\ History'
  BY <1>1, NoHistory DEF history
<1>3. \A x \in Handlers : Unmoved(x)
  BY <1>1 DEF Unmoved, CallGoesOn, handler, history
<1> QED
  BY <1>1, <1>2, <1>3, UnmovedKeepsInv DEF WriteInv

\* A restart ends every call and keeps what the switch and the store have.
LEMMA RestartStep ==
    ASSUME WriteInv, Restart
    PROVE  History' /\ \A x \in Handlers : HandlerInv(x)'
<1>1. History'
  BY NoHistory DEF Restart, history
<1>2. ASSUME NEW x \in Handlers PROVE HandlerInv(x)'
  <2>1. /\ UNCHANGED <<mode, job, src, saved, live>> /\ UNCHANGED history
        /\ call'[x] = Link!Idle /\ answer'[x] = "none"
        /\ pc'[x] \in {"idle", "done"} /\ (pc'[x] = "idle" <=> pc[x] = "idle")
        /\ resp'[x] \in {resp[x], "lost"} /\ (pc[x] = "idle" => resp'[x] = resp[x])
    BY DEF Restart
  <2>2. \A o \in {"download", "write"} :
          \/ wire'[x][o] = wire[x][o]
          \/ wire[x][o] = "answered" /\ wire'[x][o] = "none"
    BY Types DEF Restart
  <2>3. Control(x)' /\ Once(x)'
    BY <2>1, <2>2, Types DEF history, HandlerInv, Control, Once, Untouched, Calling
  <2>5. Truthful(x)'
    <3>1. \A a : Settled(x, a)' <=> Settled(x, a)
      BY <2>1 DEF history, Settled
    <3> QED
      BY <2>1, <2>2, <3>1, Types DEF history, HandlerInv, Truthful, Calling, SavedBy
  <2>4. Entitled(x)'
    BY <2>1, <2>2, Types DEF history, HandlerInv, Entitled, Calling, AtSwitch, Backed
  <2> QED
    BY <2>3, <2>4, <2>5 DEF HandlerInv
<1> QED
  BY <1>1, <1>2

-----------------------------------------------------------------------------
(***************************************************************************)
(* The theorems.                                                           *)
(***************************************************************************)
LEMMA WriteInvInit == Init => WriteInv
<1> SUFFICES ASSUME Init PROVE WriteInv
  OBVIOUS
<1>1. LP!LinkInv
  BY SameLink, LP!LinkInvInit, WriteAssumption DEF Init
<1>2. TypeOK
  <2>1. Link!TypeOK
    BY <1>1, SameLink DEF LP!LinkInv
  <2>2. {} \in Configs /\ OldBackup \in Backups /\ <<{}>> \in Seq(Configs)
    BY DEF Configs, OldBackup, Backups
  <2> QED
    BY <2>1, <2>2, WriteAssumption DEF Init, TypeOK
<1>3. History
  BY DEF Init, History
<1>4. ASSUME NEW h \in Handlers PROVE HandlerInv(h)
  BY DEF Init, Link!Init, Link!Free, HandlerInv, Control, Once, Entitled, Truthful, Untouched, Calling, AtSwitch
<1> QED
  BY <1>1, <1>2, <1>3, <1>4 DEF WriteInv

LEMMA WriteInvStep == WriteInv /\ [Next]_vars => WriteInv'
<1> SUFFICES ASSUME WriteInv, [Next]_vars PROVE WriteInv'
  OBVIOUS
<1>1. LP!LinkInv'
  BY LinkInvKept
<1>2. TypeOK'
  BY <1>1, TypeStep
<1>3. History' /\ \A x \in Handlers : HandlerInv(x)'
  <2>1. ASSUME NEW h \in Handlers, StepOf(h) /\ HandlerInv(h)'
        PROVE  History' /\ \A x \in Handlers : HandlerInv(x)'
    BY <2>1, StepOfKeepsInv
  <2>2. ASSUME NEW h \in Handlers, Arrive(h) \/ Handle(h)
        PROVE  StepOf(h) /\ HandlerInv(h)'
    BY <2>2, ArriveStep, RefuseStep, StartStep, SendStep, BackupThenWriteStep, BackupOnlyStep,
       BackupFailsStep, WriteReturnsStep, RequestFailsStep DEF Handle
  <2>3. ASSUME NEW h \in Handlers,
               ServeDownload(h) \/ ServeWrite(h) \/ RejectWrite(h) \/ LoseRequest(h)
        PROVE  StepOf(h) /\ HandlerInv(h)'
    BY <2>3, ServeDownloadStep, ServeWriteStep, RejectOrLoseStep
  <2> QED
    BY <2>1, <2>2, <2>3, QuietStep, RestartStep DEF Next
<1> QED
  BY <1>1, <1>2, <1>3 DEF WriteInv

LEMMA WriteInvHolds == Spec => []WriteInv
BY WriteInvInit, WriteInvStep, PTL DEF Spec

\* Every state of the write path is well-typed.
THEOREM TypeCorrect == Spec => []TypeOK
<1>1. WriteInv => TypeOK
  BY DEF WriteInv
<1> QED
  BY <1>1, WriteInvHolds, PTL

\* write_safety.py:45-127: whatever timeouts, logouts and restarts do to the
\* requests of any number of handlers, a write that left for the switch passed
\* its gates and has a backup saved on its behalf.
THEOREM GatesCorrect == Spec => []GatesHold
<1>1. WriteInv => GatesHold
  <2> SUFFICES ASSUME WriteInv, NEW h \in Handlers, AtSwitch(h)
               PROVE  /\ mode = [app |-> "writable", env |-> "writable"]
                      /\ job[h].kind \in Confirmed => job[h].typed
                      /\ job[h].kind \in AutoBackup => SavedBy(h) # {}
    BY DEF GatesHold
  <2>1. \A n : Backed(h, n) => SavedBy(h) # {}
    BY DEF Backed, SavedBy
  <2>2. hits[h] = 0 \/ hits[h] > 0
    BY Types
  <2> QED
    BY <2>1, <2>2, Types DEF HandlerInv, Entitled
<1> QED
  BY <1>1, WriteInvHolds, PTL

\* write_safety.py:108-116: the backup behind a write that took effect is a
\* configuration the switch had between the request and that write.
THEOREM RollbackCorrect == Spec => []RollbackIsReal
<1>1. WriteInv => RollbackIsReal
  BY Types DEF RollbackIsReal, HandlerInv, Entitled, AtSwitch, Backed
<1> QED
  BY <1>1, WriteInvHolds, PTL

\* transport.py:20-24: a request to write takes effect once at most, and never
\* when it was refused.
THEOREM AtMostOnceCorrect == Spec => []AtMostOnce
<1>1. WriteInv => AtMostOnce
  BY Types DEF AtMostOnce, HandlerInv, Once, AtSwitch, Untouched
<1> QED
  BY <1>1, WriteInvHolds, PTL

\* parsing.py:23-47, operations/backup.py:85-150: a success is reported only for
\* a write that the switch has dealt with: nothing of it is still on its way, and
\* it took effect or was refused by an answer that passes for success there.
THEOREM AckCorrect == Spec => []AckIsSettled
<1>1. WriteInv => AckIsSettled
  BY Types DEF AckIsSettled, HandlerInv, Truthful, Settled
<1> QED
  BY <1>1, WriteInvHolds, PTL

-----------------------------------------------------------------------------
(***************************************************************************)
(* The write path implements the promise of RollbackGuard, for any number  *)
(* of handlers and sessions.                                               *)
(***************************************************************************)
\* A handler that has not finished its download has saved nothing.
Fresh(h) == pc[h] \in {"idle", "entered"} \/ Calling(h, "download") => SavedBy(h) = {}

FreshInv == \A h \in Handlers : Fresh(h)

\* A step of h that saves nothing, and after which h does not download unless it
\* had not downloaded before.
LEMMA FreshKept ==
    ASSUME WriteInv, FreshInv, NEW h \in Handlers, StepOf(h), saved' = saved,
           pc'[h] \in {"idle", "entered"} \/ Calling(h, "download")'
             => pc[h] \in {"idle", "entered"} \/ Calling(h, "download")
    PROVE  FreshInv'
<1>1. ASSUME NEW x \in Handlers \ {h} PROVE Fresh(x)'
  BY DEF StepOf, Unmoved, CallGoesOn, FreshInv, Fresh, Calling, SavedBy
<1>2. Fresh(h)'
  BY DEF FreshInv, Fresh, SavedBy
<1> QED
  BY <1>1, <1>2 DEF FreshInv

\* A step that ends the download and saves it.
LEMMA FreshSaved ==
    ASSUME WriteInv, FreshInv, NEW h \in Handlers, StepOf(h), Save(h),
           pc'[h] \notin {"idle", "entered"}, ~Calling(h, "download")'
    PROVE  FreshInv'
<1>1. ASSUME NEW x \in Handlers \ {h} PROVE Fresh(x)'
  BY DEF StepOf, Unmoved, CallGoesOn, FreshInv, Fresh, Calling, SavedBy, Save
<1> QED
  BY <1>1 DEF FreshInv, Fresh

LEMMA FreshStep == WriteInv /\ FreshInv /\ [Next]_vars => FreshInv'
<1> SUFFICES ASSUME WriteInv, FreshInv, [Next]_vars PROVE FreshInv'
  OBVIOUS
<1>1. ASSUME NEW h \in Handlers, HandlerInv(h)', pc'[h] = "done" PROVE ~Calling(h, "download")'
  BY <1>1 DEF HandlerInv, Control, Calling
<1>2. ASSUME NEW h \in Handlers, Arrive(h) PROVE FreshInv'
  <2>1. pc[h] = "idle"
    BY <1>2 DEF Arrive
  <2> QED
    BY <1>2, <2>1, ArriveStep, FreshKept DEF Arrive
<1>3. ASSUME NEW h \in Handlers,
             Reject(h) \/ StartOnClosed(h) \/ BackupFails(h) \/ WriteReturns(h) \/ RequestFails(h)
      PROVE  FreshInv'
  <2>1. pc'[h] = "done" /\ saved' = saved
    BY <1>3, Types, RespondFrame
       DEF Reject, StartOnClosed, BackupFails, WriteReturns, RequestFails
  <2>2. StepOf(h) /\ HandlerInv(h)'
    BY <1>3, RefuseStep, BackupFailsStep, WriteReturnsStep, RequestFailsStep
  <2> QED
    BY <1>1, <2>1, <2>2, FreshKept
<1>4. ASSUME NEW h \in Handlers, Start(h) PROVE FreshInv'
  BY <1>4, StartStep, FreshKept DEF Start
<1>5. ASSUME NEW h \in Handlers, SendRequest(h) PROVE FreshInv'
  <2>1. call'[h].op = call[h].op /\ call[h] # Link!Idle /\ pc' = pc
    BY <1>5, Types DEF SendRequest, Link!Send, Link!Idle, Link!CallState, handler
  <2> QED
    BY <1>5, <2>1, SendStep, FreshKept DEF SendRequest, Calling
<1>6. ASSUME NEW h \in Handlers, BackupThenWrite(h) PROVE FreshInv'
  <2>1. pc[h] = "calling" /\ job[h].via \in Sessions
    BY <1>6, Types DEF BackupThenWrite, HandlerInv, Control, Jobs
  <2>2. call'[h].op = "write"
    BY <1>6, <2>1, Types, NewCallFrame DEF BackupThenWrite, Link!ReturnAndCall
  <2> QED
    BY <1>6, <2>1, <2>2, BackupThenWriteStep, FreshSaved DEF BackupThenWrite, handler, Calling
<1>7. ASSUME NEW h \in Handlers, BackupOnly(h) PROVE FreshInv'
  <2>1. pc'[h] = "done"
    BY <1>7, Types, RespondFrame DEF BackupOnly
  <2> QED
    BY <1>1, <1>7, <2>1, BackupOnlyStep, FreshSaved DEF BackupOnly
<1>8. ASSUME NEW h \in Handlers,
             ServeDownload(h) \/ ServeWrite(h) \/ RejectWrite(h) \/ LoseRequest(h)
      PROVE  FreshInv'
  <2>1. UNCHANGED <<pc, call, saved>>
    BY <1>8 DEF ServeDownload, ServeWrite, RejectWrite, LoseRequest, Link!Serve, Link!Lose, handler
  <2> QED
    BY <1>8, <2>1, ServeDownloadStep, ServeWriteStep, RejectOrLoseStep, FreshKept DEF Calling
<1>9. CASE (\E s \in Sessions : Logout(s)) \/ UNCHANGED vars
  BY <1>9 DEF Logout, Link!Close, vars, link, handler, FreshInv, Fresh, Calling, SavedBy
<1>10. CASE Restart
  BY <1>10 DEF Restart, FreshInv, Fresh, Calling, SavedBy
<1> QED
  BY <1>2, <1>3, <1>4, <1>5, <1>6, <1>7, <1>8, <1>9, <1>10 DEF Next, Handle
-----------------------------------------------------------------------------
(***************************************************************************)
(* The refinement: a save is a Snapshot, a write that takes effect is a    *)
(* Change, or a Poke when its endpoint has no backup.                      *)
(***************************************************************************)
SavedPairs == {<<b.by, b.config>> : b \in saved \ {OldBackup}}

\* Who has saved, in the terms of the two specifications.
LEMMA SavedPairsOf ==
    ASSUME NEW h \in Handlers, saved \subseteq Backups
    PROVE  h \in {p[1] : p \in SavedPairs} <=> SavedBy(h) # {}
<1>1. OldBackup.by = Seed /\ Seed # h
  BY WriteAssumption DEF OldBackup
<1>2. ASSUME NEW b \in saved, b.by = h PROVE h \in {p[1] : p \in SavedPairs}
  <2>1. <<b.by, b.config>> \in SavedPairs /\ <<b.by, b.config>>[1] = h
    BY <1>1, <1>2 DEF SavedPairs
  <2> QED
    BY <2>1
<1>3. ASSUME NEW p \in SavedPairs, p[1] = h PROVE SavedBy(h) # {}
  <2>1. PICK b \in saved : p = <<b.by, b.config>>
    BY DEF SavedPairs
  <2> QED
    BY <1>3, <2>1 DEF SavedBy
<1> QED
  BY <1>2, <1>3 DEF SavedBy

LEMMA SnapshotStep ==
    ASSUME WriteInv, FreshInv, NEW h \in Handlers, Calling(h, "download"),
           wire[h]["download"] = "answered", Save(h), UNCHANGED <<mode, live, hist, hits>>
    PROVE  Guard!Snapshot(h)
<1>1. saved \subseteq Backups
  BY DEF WriteInv, TypeOK
<1>2. h \notin {p[1] : p \in SavedPairs}
  BY <1>1, SavedPairsOf DEF FreshInv, Fresh
<1>3. snap[h] \in Range(hist)
  <2>1. PICK i \in from[h]..Len(hist) : snap[h] = hist[i]
    BY Types DEF HandlerInv, Truthful
  <2>2. i \in 1..Len(hist)
    BY Types DEF HandlerInv, Control, Calling
  <2>3. i \in DOMAIN hist
    BY <2>2, Types, LenProperties DEF HistoryTypes
  <2> QED
    BY <2>1, <2>3 DEF Range
<1>4. SavedPairs' = SavedPairs \cup {<<h, snap[h]>>}
  <2> DEFINE n == [by |-> h, config |-> snap[h]]
  <2>1. n # OldBackup /\ n.by = h /\ n.config = snap[h]
    BY WriteAssumption DEF OldBackup
  <2>2. saved' \ {OldBackup} = (saved \ {OldBackup}) \cup {n}
    BY <2>1 DEF Save
  <2> HIDE DEF n
  <2> QED
    BY <2>1, <2>2 DEF SavedPairs
<1> QED
  BY <1>2, <1>3, <1>4 DEF Guard!Snapshot, SavedPairs

\* The kinds of the endpoints of the seven routers.
LEMMA KindsKnown ==
    Kinds \subseteq {"edit", "lockout", "loose", "locked", "restore", "reset", "poke", "backup"}
<1> DEFINE K == {"edit", "lockout", "loose", "locked", "restore", "reset", "poke", "backup"}
<1>1. Range(ConfigurationWrites) \subseteq K
  BY DEF Range, ConfigurationWrites
<1>2. Range(QosWrites) \subseteq K
  BY DEF Range, QosWrites
<1>3. Range(SecurityWrites) \subseteq K
  BY DEF Range, SecurityWrites
<1>4. Range(VlanWrites) \subseteq K
  BY DEF Range, VlanWrites
<1>5. Range(StatusWrites) \subseteq K /\ Range(DiagnosticsWrites) \subseteq K
  BY DEF Range, StatusWrites, DiagnosticsWrites
<1>6. Range(BackupsWrites) \subseteq K
  BY DEF Range, BackupsWrites
<1> HIDE DEF K
<1>7. Kinds \subseteq K
  BY <1>1, <1>2, <1>3, <1>4, <1>5, <1>6 DEF Kinds
<1> QED
  BY <1>7 DEF K

LEMMA ChangeStep ==
    ASSUME WriteInv, NEW h \in Handlers, ServeWrite(h)
    PROVE  Guard!Change(h) \/ Guard!Poke(h)
<1>1. /\ wire[h]["write"] = "queued" /\ hits[h] = 0 /\ AtSwitch(h)
      /\ hits' = [hits EXCEPT ![h] = hits[h] + 1]
      /\ UNCHANGED <<mode, saved>>
      /\ hist' = IF live' = live THEN hist ELSE Append(hist, live')
  BY Types DEF ServeWrite, Link!Serve, AtSwitch, HandlerInv, Once
<1>2. mode = [app |-> "writable", env |-> "writable"]
  BY <1>1, Types DEF HandlerInv, Entitled
<1>3. {g \in Handlers : hits'[g] > 0} = {g \in Handlers : hits[g] > 0} \cup {h}
  BY <1>1, Types DEF HistoryTypes
<1>4. live' \in Configs
  BY Types DEF ServeWrite, Effect, Configs, HandlerTypes, StoreTypes
<1>5. Range(hist') = Range(hist) \cup {live'}
  <2>1. DOMAIN hist = 1..Len(hist)
    BY Types, LenProperties DEF HistoryTypes
  <2>2. CASE live' = live
    <3>1. live \in Range(hist)
      BY <2>1, Types DEF Range
    <3> QED
      BY <1>1, <2>2, <3>1
  <2>3. CASE live' # live
    <3>1. /\ hist' = Append(hist, live') /\ hist' \in Seq(Configs)
          /\ Len(hist') = Len(hist) + 1
          /\ \A i \in 1..Len(hist) : hist'[i] = hist[i]
          /\ hist'[Len(hist) + 1] = live'
      BY <1>1, <1>4, <2>3, Types, AppendProperties DEF HistoryTypes
    <3>2. DOMAIN hist' = 1..Len(hist) + 1
      BY <3>1, LenProperties
    <3> QED
      BY SMTT(20), <2>1, <3>1, <3>2, Types DEF Range
  <2> QED
    BY <2>2, <2>3
<1>6. CASE job[h].kind \in AutoBackup
  <2>1. SavedBy(h) # {}
    <3>1. Backed(h, Len(hist))
      BY <1>1, <1>6, Types DEF HandlerInv, Entitled
    <3> QED
      BY <3>1 DEF Backed, SavedBy
  <2>2. h \in {p[1] : p \in SavedPairs}
    BY <2>1, SavedPairsOf DEF WriteInv, TypeOK
  <2> QED
    BY <1>1, <1>2, <1>3, <1>4, <1>5, <2>2 DEF Guard!Change, SavedPairs
<1>7. CASE job[h].kind \notin AutoBackup
  <2>1. job[h].kind = "poke"
    BY <1>1, <1>7, KindsKnown, Types
       DEF HandlerInv, Control, Once, Untouched, Entitled, Jobs, AutoBackup, Confirmed
  <2>2. live' = live
    BY <2>1 DEF ServeWrite, Effect
  <2> QED
    BY <1>1, <1>2, <1>3, <2>2 DEF Guard!Poke
<1> QED
  BY <1>6, <1>7
LEMMA GuardStep == WriteInv /\ FreshInv /\ [Next]_vars => [Guard!Next]_(Guard!guardVars)
<1> SUFFICES ASSUME WriteInv, FreshInv, [Next]_vars
             PROVE  [Guard!Next]_(Guard!guardVars)
  OBVIOUS
<1>1. ASSUME UNCHANGED <<mode, saved, live, hist, hits>> PROVE UNCHANGED Guard!guardVars
  BY <1>1 DEF Guard!guardVars
<1>2. ASSUME NEW h \in Handlers, BackupThenWrite(h) \/ BackupOnly(h) PROVE Guard!Next
  <2>1. Calling(h, "download") /\ wire[h]["download"] = "answered"
    BY <1>2 DEF BackupThenWrite, BackupOnly, Calling, Link!ReturnAndCall, Link!Return,
                Link!ReplyArrived
  <2>2. Guard!Snapshot(h)
    BY <1>2, <2>1, SnapshotStep DEF BackupThenWrite, BackupOnly, history
  <2> QED
    BY <2>2 DEF Guard!Next
<1>3. ASSUME NEW h \in Handlers, ServeWrite(h) PROVE Guard!Next
  BY <1>3, ChangeStep DEF Guard!Next
<1>4. ASSUME NEW h \in Handlers,
             \/ Arrive(h) \/ Start(h) \/ StartOnClosed(h) \/ Reject(h) \/ SendRequest(h)
             \/ BackupFails(h) \/ WriteReturns(h) \/ RequestFails(h)
             \/ ServeDownload(h) \/ RejectWrite(h) \/ LoseRequest(h)
      PROVE  UNCHANGED <<mode, saved, live, hist, hits>>
  BY <1>4 DEF Arrive, Start, StartOnClosed, Reject, SendRequest, BackupFails, WriteReturns,
              RequestFails, ServeDownload, RejectWrite, LoseRequest, history
<1>5. CASE (\E s \in Sessions : Logout(s)) \/ Restart \/ UNCHANGED vars
  BY <1>1, <1>5 DEF Logout, Restart, vars, history
<1> QED
  BY <1>1, <1>2, <1>3, <1>4, <1>5 DEF Next, Handle

LEMMA GuardInit == Init => Guard!Init
<1> SUFFICES ASSUME Init PROVE Guard!Init
  OBVIOUS
<1>1. {} \in Configs
  BY DEF Configs
<1>2. Range(hist) = {live}
  BY DEF Init, Range
<1>3. SavedPairs = {} /\ {h \in Handlers : hits[h] > 0} = {}
  BY DEF Init, SavedPairs
<1> QED
  BY <1>1, <1>2, <1>3 DEF Init, Guard!Init, SavedPairs

\* write_safety.py:83-127: the write path, with its shared link, timeouts,
\* logouts and restarts, does nothing RollbackGuard does not allow: every change
\* of the running config is preceded by a save, for the same request, of a config
\* the switch really had.
THEOREM GuardCorrect == Spec => GuardSpec
<1>1. Init => FreshInv
  BY WriteAssumption DEF Init, FreshInv, Fresh, SavedBy, OldBackup
<1>2. Spec => []FreshInv
  BY <1>1, WriteInvHolds, FreshStep, PTL DEF Spec
<1> QED
  BY <1>2, WriteInvHolds, GuardInit, GuardStep, PTL DEF Spec, GuardSpec, Guard!Spec

-----------------------------------------------------------------------------
(***************************************************************************)
(* The write path over the link.                                           *)
(***************************************************************************)
\* The link as the write path and the restarts of the backend use it.
LinkWithRestarts == Link!Init /\ [][Link!Next \/ Restart]_(Link!linkVars)

\* The order of service, but for the waiters that a restart ends.
ServedInOrder == [][Link!InOrder \/ Restart]_(Link!linkVars)

LEMMA SameNext ==
    /\ LP!Next => Link!Next
    /\ LP!PermitInv => Link!PermitInv
    /\ LP!InOrder => Link!InOrder
<1>1. LP!Next => Link!Next
  BY SameLink DEF LP!Next, Link!Next
<1>2. LP!PermitInv => Link!PermitInv
  BY DEF LP!PermitInv, Link!PermitInv, LP!ToSet, Link!ToSet, LP!IsInjective, Link!IsInjective
<1>3. LP!InOrder => Link!InOrder
  BY DEF LP!InOrder, Link!InOrder
<1> QED
  BY <1>1, <1>2, <1>3

\* app/api/*.py over transport.py: whatever a handler does with the link, in any
\* interleaving of handlers, is what the link allows: the composition adds nothing
\* to SwitchLink but the restarts, and its theorems hold of the write path.
THEOREM LinkImplemented == Spec => LinkWithRestarts
<1>1. Init => Link!Init
  BY DEF Init
<1>2. WriteInv /\ [Next]_vars => [Link!Next \/ Restart]_(Link!linkVars)
  BY LinkStep, SameNext DEF LP!linkVars, Link!linkVars
<1> QED
  BY <1>1, <1>2, WriteInvHolds, PTL DEF Spec, LinkWithRestarts

\* transport.py:39-49 under the write path: the permit and the handlers agree after
\* every error, logout and restart: at most one handler is at the switch.
THEOREM PathPermitCorrect == Spec => []Link!PermitInv
<1>1. WriteInv => Link!PermitInv
  BY SameNext DEF WriteInv, LP!LinkInv
<1> QED
  BY <1>1, WriteInvHolds, PTL

\* A write or a download is not overtaken by one that queued for the permit later.
THEOREM PathInOrder == Spec => ServedInOrder
<1>1. WriteInv /\ [Next]_vars => [Link!InOrder \/ Restart]_(Link!linkVars)
  <2> SUFFICES ASSUME WriteInv, [Next]_vars, ~Restart
               PROVE  [Link!InOrder]_(Link!linkVars)
    OBVIOUS
  <2>1. LP!LinkInv /\ [LP!Next]_(LP!linkVars)
    BY LinkStep DEF WriteInv
  <2>2. [LP!InOrder]_(LP!linkVars)
    BY <2>1, LP!InOrderStep, WriteAssumption
  <2> QED
    BY <2>2, SameNext DEF LP!linkVars, Link!linkVars
<1> QED
  BY <1>1, WriteInvHolds, PTL DEF Spec, ServedInOrder
=============================================================================
