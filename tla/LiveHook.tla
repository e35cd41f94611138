------------------------------ MODULE LiveHook ------------------------------
(***************************************************************************)
(* useLivePortTraffic.ts: the socket behind the live chart of a port.  One *)
(* run of the effect keeps its last socket in ws; the sockets it opened    *)
(* are mine, and only their events are heard (cancelled).  Sockets bounds  *)
(* the number of sockets a tab opens.                                      *)
(*                                                                         *)
(* The chart is mounted and unmounted by whoever renders it.  At this      *)
(* commit nobody does (see Tab): what follows is the hook's own promise.   *)
(***************************************************************************)
EXTENDS Document

CONSTANTS Sockets, NoSocket

ASSUME LiveAssumption == NoSocket \notin Sockets

VARIABLES
    chart,      \* the chart is mounted, its effect has run
    sock,       \* sock[s]: the readyState of the socket, or new
    ws, mine,
    connected   \* what the pill next to the chart says

liveVars == <<visible, chart, sock, ws, mine, connected>>

Alive(s) == sock[s] \in {"connecting", "open"}

LiveTypeOK ==
    /\ visible \in BOOLEAN /\ chart \in BOOLEAN /\ connected \in BOOLEAN
    /\ sock \in [Sockets -> {"new", "connecting", "open", "closing", "closed"}]
    /\ ws \in Sockets \cup {NoSocket}
    /\ mine \subseteq Sockets

LiveInit ==
    /\ visible = TRUE /\ chart = FALSE /\ connected = FALSE
    /\ sock = [s \in Sockets |-> "new"]
    /\ ws = NoSocket /\ mine = {}

-----------------------------------------------------------------------------
\* Variant with a defect: a socket that is still opening is left alone.
CloseSocketIfOpen ==
    IF ws # NoSocket /\ sock[ws] = "open" THEN [sock EXCEPT ![ws] = "closing"] ELSE sock

\* closeSocket: only a socket that is open or opening.
CloseSocket ==
    IF ws # NoSocket /\ Alive(ws) THEN [sock EXCEPT ![ws] = "closing"] ELSE sock

\* open(), after what became of the sockets.
OpenSocket(after) ==
    \E s \in Sockets :
        /\ after[s] = "new"
        /\ sock' = [after EXCEPT ![s] = "connecting"]
        /\ ws' = s

\* The effect runs: no socket for a tab that nobody sees.
EffectRuns(after) ==
    /\ IF visible
       THEN OpenSocket(after)
       ELSE sock' = after /\ ws' = NoSocket
    /\ mine' = {ws'} \ {NoSocket}

MountChart ==
    /\ ~chart
    /\ chart' = TRUE
    /\ EffectRuns(sock)
    /\ UNCHANGED <<visible, connected>>

\* The cleanup of the effect.
UnmountChart ==
    /\ chart
    /\ chart' = FALSE
    /\ sock' = CloseSocket
    /\ ws' = NoSocket /\ mine' = {}
    /\ connected' = FALSE
    /\ UNCHANGED visible

\* The button is there while the pill says Disconnected: cleanup, effect.
Reconnect ==
    /\ chart /\ visible /\ ~connected
    /\ EffectRuns(CloseSocket)
    /\ UNCHANGED <<visible, chart, connected>>

\* onVisibilityChange.
Hide ==
    /\ Hidden
    /\ sock' = IF chart THEN CloseSocket ELSE sock
    /\ UNCHANGED <<chart, ws, mine, connected>>

Show ==
    /\ Shown
    /\ IF chart /\ (ws = NoSocket \/ sock[ws] \in {"closing", "closed"})
       THEN OpenSocket(sock) /\ mine' = mine \cup {ws'}
       ELSE UNCHANGED <<sock, ws, mine>>
    /\ UNCHANGED <<chart, connected>>

\* onopen.
SocketOpens(s) ==
    /\ sock[s] = "connecting"
    /\ sock' = [sock EXCEPT ![s] = "open"]
    /\ connected' = (connected \/ s \in mine)
    /\ UNCHANGED <<visible, chart, ws, mine>>

\* Variant with a defect: the end of a socket leaves the pill as it is.
SocketClosesUnheard(s) ==
    /\ Alive(s) \/ sock[s] = "closing"
    /\ sock' = [sock EXCEPT ![s] = "closed"]
    /\ UNCHANGED <<visible, chart, ws, mine, connected>>

\* onerror and onclose: the handshake of a close, the backend or the network.
SocketCloses(s) ==
    /\ Alive(s) \/ sock[s] = "closing"
    /\ sock' = [sock EXCEPT ![s] = "closed"]
    /\ connected' = (connected /\ s \notin mine)
    /\ UNCHANGED <<visible, chart, ws, mine>>

LiveNext ==
    \/ MountChart \/ UnmountChart \/ Reconnect \/ Hide \/ Show
    \/ \E s \in Sockets : SocketOpens(s) \/ SocketCloses(s)

LiveSpec == LiveInit /\ [][LiveNext]_liveVars

-----------------------------------------------------------------------------
\* useLivePortTraffic.ts:31-38: "a backgrounded/forgotten tab must never hold the
\* poll loop open": a tab has a live socket only while its chart is on the screen,
\* and one at most, through every hide, show, reconnect and late event.
OneLiveSocket ==
    \A s \in Sockets : Alive(s) => chart /\ visible /\ s = ws

\* The pill says Live only over a socket whose end it has not heard of yet.
PillIsBacked ==
    connected => \E s \in mine : sock[s] \in {"open", "closing"}

\* useLivePortTraffic.ts:29-31, "so the UI button is accurate": no Reconnect button,
\* and no Disconnected, over a socket of the chart that is open.
ButtonIsAccurate ==
    \A s \in mine : sock[s] = "open" => connected
=============================================================================
