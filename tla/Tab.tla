--------------------------------- MODULE Tab ---------------------------------
(***************************************************************************)
(* One browser tab: its pages and their queries (Console), and beside them *)
(* the hook of the live chart (LiveHook).  No page renders the chart: its  *)
(* route is a child of the status page, which has no outlet.  So the two   *)
(* share nothing but the visibility of the document, and each one is       *)
(* checked by itself; the other half stands still.                         *)
(***************************************************************************)
EXTENDS Console, LiveHook

VARIABLE at     \* bound: the half that is worked on

hookVars == <<chart, sock, ws, mine, connected>>
allVars == <<vars, hookVars, at>>

TabTypeOK == at \in {"pages", "chart"} /\ TypeOK /\ LiveTypeOK

TabInit == Init /\ LiveInit /\ at \in {"pages", "chart"}

TabNext ==
    \/ at = "pages" /\ Next /\ UNCHANGED <<at, hookVars>>
    \/ at = "chart" /\ LiveNext /\ UNCHANGED <<at, routeVars, cacheVars>>

TabSpec == TabInit /\ [][TabNext]_allVars

\* The fairness of the pages: see Console.
TabFairSpec == TabSpec /\ Fairness
=============================================================================
