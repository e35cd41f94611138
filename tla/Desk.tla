-------------------------------- MODULE Desk ---------------------------------
(***************************************************************************)
(* The part of a page on which the operator works: one of the cards of     *)
(* Forms, with AllCards of Cards for Card, or one of the tables of Rows.   *)
(* Cards and tables have their own queries and mutations, so that each one *)
(* is checked by itself; the other half stands still.                      *)
(***************************************************************************)
EXTENDS Cards, Forms, Rows

VARIABLE at     \* which half is worked on

deskVars == <<at, formVars, rowsVars>>

DeskTypeOK == at \in {"card", "rows"} /\ FormsTypeOK /\ RowsTypeOK

DeskInit ==
    /\ FormsInit /\ RowsInit
    /\ \/ at = "card" /\ list = "cos" /\ table = <<>>
       \/ at = "rows" /\ card = "reset"

DeskNext ==
    \/ at = "card" /\ FormsNext /\ UNCHANGED <<at, rowsVars>>
    \/ at = "rows" /\ RowsNext /\ UNCHANGED <<at, formVars>>

DeskSpec == DeskInit /\ [][DeskNext]_deskVars

-----------------------------------------------------------------------------
\* Whatever is read, typed and clicked, in whatever order, the request models of
\* the API accept what a card sends.  Left out: the CoS rows whose Add button is
\* enabled before the row is complete.
SendsAccepted ==
    Pending /\ card \notin {"cos", "user_pri"} =>
        \A i \in DOMAIN request.todo : Accepted(card, request.todo[i])

\* DangerConfirmDialog and ConfirmDialog hold on cards and tables alike: see
\* FormsModal and RowsModal.
ModalHolds == FormsModal /\ RowsModal
=============================================================================
