------------------------------ MODULE MCConsole ------------------------------
(* One query that is polled and written, on a page of its own, and a page     *)
(* without it; or the hook of the live chart.                                 *)
EXTENDS Tab

MCKeys      == {AlertLog}
MCMutations == {AcknowledgeAlerts}
MCRoutes    == {"status", "security"}

\* Every mutation hook of the frontend invalidates what its comments say it changes.
ASSUME HooksCover == \A hook \in AllHooks : \A key \in hook.own : Invalidated(hook, key)
=============================================================================
