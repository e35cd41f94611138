------------------------------ MODULE Document ------------------------------
(***************************************************************************)
(* document.visibilityState (external): the browser hides and shows a tab. *)
(***************************************************************************)

VARIABLE visible

Hidden == visible /\ visible' = FALSE
Shown  == ~visible /\ visible' = TRUE
=============================================================================
