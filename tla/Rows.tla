-------------------------------- MODULE Rows ---------------------------------
(***************************************************************************)
(* One mounted table of the frontend whose rows are added, deleted, renamed*)
(* or acknowledged: the authorized managers, the VLANs, the backups, the   *)
(* alerts, and the CoS tables that only delete here.  A row is a slot (its *)
(* index, VLAN id, file name or row id) with a content, of which only the  *)
(* authorized managers have two: they cover the address of the browser, or *)
(* not.  The API (external) carries out a write, or refuses it, or its *)
(* answer is lost; others change rows as well, MaxElsewhere times.         *)
(***************************************************************************)
EXTENDS Naturals, SequencesExt

CONSTANTS
    Slots,          \* a set of numbers; of alerts the greater are the newer
    Cap,            \* how many alerts the page shows
    MaxElsewhere,
    MaxFlight       \* how many writes are under way at once

VARIABLES
    list,       \* which table
    table,      \* the rows at the switch: slot -> content
    elsewhere,  \* the changes by others so far
    listed,     \* query.data: <<>>, or <<table>>
    fetch,      \* the fetch of the query
    dialog,     \* <<>>, or the write that is to be confirmed
    entered,    \* the dialog: its input is the IP of the switch
    flight,     \* the writes under way
    ticked,     \* selectedIds of the alerts
    selected,   \* the VLAN whose members are shown, if any
    pointed     \* history: the alerts ticked since the selection was emptied

tableVars  == <<table, elsewhere>>
listVars   == <<listed, fetch>>
choiceVars == <<ticked, selected, pointed>>
rowsVars   == <<list, tableVars, listVars, dialog, entered, flight, choiceVars>>

Lists == {"managers", "vlans", "backups", "alerts", "cos", "user_pri"}
Contents == IF list = "managers" THEN {"mine", "other"} ELSE {"other"}
Tables == UNION {[S -> Contents] : S \in SUBSET Slots}

\* The slot that a new row asks for, where the switch chooses it.
New == 0
ASSUME SlotsAssumption == Slots \subseteq Nat \ {New}
ASSUME ElsewhereAssumption == MaxElsewhere \in Nat

Waiting == [st |-> "waiting"]
Quiet == [st |-> "quiet"]

One(s, content) == [x \in {s} |-> content]

\* The rows with some that are new or changed.
Put(new, rows) ==
    [s \in DOMAIN new \cup DOMAIN rows |-> IF s \in DOMAIN new THEN new[s] ELSE rows[s]]

\* The writes behind DangerConfirmDialog; deleting alerts has ConfirmDialog.
Danger(kind) == list \in {"managers", "vlans"} \/ kind = "restore"
Modal(kind)  == Danger(kind) \/ (list = "alerts" /\ kind = "delete")

\* isPending, of the last call of a mutation.
IsPending(kind) == \E op \in flight : op.kind = kind /\ op.latest

Entries == IF listed = <<>> THEN <<>> ELSE listed[1]

\* recentAlerts: the newest ones; the other tables show all rows.
OnScreen ==
    {s \in DOMAIN Entries : list = "alerts" =>
        Cardinality({t \in DOMAIN Entries : t > s}) < Cap}
EffectiveSelected == ticked \cap OnScreen

\* Variant with a defect: an alert that was ticked and has left the screen is named.
AllTicked == Restrict(Entries, ticked \cap DOMAIN Entries)

SelectedRefs == Restrict(Entries, EffectiveSelected)

Kinds == {"add", "delete", "rename", "take", "restore", "ack"}
RowSets == UNION {[S -> Contents] : S \in SUBSET (Slots \cup {New})}
Operations == [kind: Kinds, rows: RowSets, warned: BOOLEAN, alone: BOOLEAN,
               latest: BOOLEAN, st: {"sent", "applied"}]

RowsTypeOK ==
    /\ list \in Lists
    /\ table \in Tables /\ elsewhere \in 0..MaxElsewhere
    /\ listed = <<>> \/ (Len(listed) = 1 /\ listed[1] \in Tables)
    /\ fetch \in {Quiet, Waiting} \/ (fetch.st = "read" /\ fetch.got \in Tables)
    /\ dialog = <<>> \/ (Len(dialog) = 1 /\ dialog[1] \in [kind: Kinds, rows: RowSets])
    /\ entered \in BOOLEAN
    /\ flight \subseteq Operations
    /\ ticked \subseteq Slots /\ pointed \subseteq Slots
    /\ selected \in Slots \cup {New}

RowsInit ==
    /\ list \in Lists
    /\ table \in Tables /\ elsewhere = 0
    /\ listed = <<>> /\ fetch = Quiet
    /\ dialog = <<>> /\ entered = FALSE
    /\ flight = {}
    /\ ticked = {} /\ selected = New /\ pointed = {}

-----------------------------------------------------------------------------
(***************************************************************************)
(* The switch and the query.                                               *)
(***************************************************************************)
Elsewhere(new) ==
    /\ elsewhere < MaxElsewhere /\ new # table
    /\ table' = new /\ elsewhere' = elsewhere + 1
    /\ flight' = {[op EXCEPT !.alone = FALSE] : op \in flight}
    /\ UNCHANGED <<list, listVars, dialog, entered, choiceVars>>

\* A mount, the refetch interval, the Refresh button.
AskRows ==
    /\ fetch = Quiet /\ fetch' = Waiting
    /\ UNCHANGED <<list, tableVars, listed, dialog, entered, flight, choiceVars>>

AnswerRows ==
    /\ fetch = Waiting
    /\ fetch' \in {[st |-> "read", got |-> table], Quiet}
    /\ UNCHANGED <<list, tableVars, listed, dialog, entered, flight, choiceVars>>

LandRows ==
    /\ fetch.st = "read"
    /\ listed' = <<fetch.got>> /\ fetch' = Quiet
    /\ UNCHANGED <<list, tableVars, dialog, entered, flight, choiceVars>>

-----------------------------------------------------------------------------
(***************************************************************************)
(* What is ticked and selected.                                            *)
(***************************************************************************)
ToggleId(s) ==
    /\ list = "alerts" /\ dialog = <<>> /\ s \in OnScreen
    /\ ticked' = IF s \in ticked THEN ticked \ {s} ELSE ticked \cup {s}
    /\ pointed' = IF s \in ticked THEN pointed \ {s} ELSE pointed \cup {s}
    /\ UNCHANGED <<list, tableVars, listVars, dialog, entered, flight, selected>>

\* Variant with a defect: the whole log is ticked.
WholeLog == DOMAIN Entries

\* What the checkbox in the header ticks.
RecentIds == OnScreen

ToggleAll ==
    /\ list = "alerts" /\ dialog = <<>> /\ listed # <<>>
    /\ ticked' = IF EffectiveSelected = OnScreen THEN {} ELSE RecentIds
    /\ pointed' = IF EffectiveSelected = OnScreen THEN {} ELSE OnScreen
    /\ UNCHANGED <<list, tableVars, listVars, dialog, entered, flight, selected>>

SelectVlan(s) ==
    /\ list = "vlans" /\ dialog = <<>> /\ s \in OnScreen
    /\ selected' = IF selected = s THEN New ELSE s
    /\ UNCHANGED <<list, tableVars, listVars, dialog, entered, flight, ticked, pointed>>

-----------------------------------------------------------------------------
(***************************************************************************)
(* The warning of WebManagersCard.  No entry at all is no restriction.     *)
(***************************************************************************)
Excludes(contents) == contents # {} /\ "mine" \notin contents

\* Variant with a defect: the new entry is not among those checked.
OldEntries(op) == Range(Entries)

\* The contents of the list after the change, as far as the page knows it.
Prospective(op) ==
    IF op.kind = "delete"
    THEN Range(Restrict(Entries, DOMAIN Entries \ DOMAIN op.rows))
    ELSE Range(Entries) \cup Range(op.rows)

OwnIpExcluded(op) == list = "managers" /\ Excludes(Prospective(op))

-----------------------------------------------------------------------------
(***************************************************************************)
(* The writes.                                                             *)
(***************************************************************************)
RowsShown == {Restrict(Entries, {s}) : s \in OnScreen}

\* The buttons of each table, and what they ask for: a row that is shown, a new
\* row, a new name, or the alerts that are ticked.
Buttons ==
    [managers |-> {"add", "delete"}, vlans |-> {"add", "delete", "rename"},
     backups |-> {"take", "delete", "restore"}, alerts |-> {"ack", "delete"},
     cos |-> {"delete"}, user_pri |-> {"delete"}]

Offered(kind) ==
    IF list = "alerts" THEN {SelectedRefs} \ {<<>>} ELSE
    CASE kind \in {"delete", "restore"} -> RowsShown
      [] kind = "rename" -> {One(s, c) : s \in OnScreen, c \in Contents}
      [] kind = "add" /\ list = "vlans" -> {One(s, c) : s \in Slots \ OnScreen, c \in Contents}
      [] OTHER -> {One(New, c) : c \in Contents}

\* disabled: a write of the alerts or of a CoS table disables all of its buttons,
\* the deletion of a backup those of its row, as long as it is the last one.
Disabled(kind, rows) ==
    \/ list \in {"alerts", "cos", "user_pri"} /\ \E k \in Buttons[list] : IsPending(k)
    \/ kind = "take" /\ IsPending("take")
    \/ list = "backups" /\ \E op \in flight : op.kind = kind /\ op.latest /\ op.rows = rows

\* The fields warned and alone are history, of the managers.
Mutate(kind, rows) ==
    /\ Cardinality(flight) < MaxFlight
    /\ flight' = {IF op.kind = kind THEN [op EXCEPT !.latest = FALSE] ELSE op : op \in flight}
                     \cup {[kind |-> kind, rows |-> rows,
                            warned |-> OwnIpExcluded([kind |-> kind, rows |-> rows]),
                            alone |-> list = "managers" /\ listed = <<table>>, latest |-> TRUE, st |-> "sent"]}

\* A dialog that opens has an empty input.  That of the alerts is about those
\* that are ticked when it is confirmed.
Press(kind, rows) ==
    /\ dialog = <<>> /\ ~Disabled(kind, rows)
    /\ IF Modal(kind)
       THEN /\ dialog' = <<[kind |-> kind, rows |-> IF list = "alerts" THEN <<>> ELSE rows]>>
            /\ entered' = FALSE /\ UNCHANGED flight
       ELSE Mutate(kind, rows) /\ UNCHANGED <<dialog, entered>>
    /\ UNCHANGED <<list, tableVars, listVars, choiceVars>>

EnterIp ==
    /\ dialog # <<>> /\ Danger(dialog[1].kind) /\ ~IsPending(dialog[1].kind)
    /\ ~entered /\ entered' = TRUE
    /\ UNCHANGED <<list, tableVars, listVars, dialog, flight, choiceVars>>

CloseDialog == dialog' = <<>> /\ UNCHANGED <<list, tableVars, listVars, entered, flight, choiceVars>>

\* Escape, the backdrop, Close and Cancel.
Cancel == dialog # <<>> /\ ~IsPending(dialog[1].kind) /\ CloseDialog

HandleConfirm ==
    /\ dialog # <<>> /\ ~IsPending(dialog[1].kind)
    /\ Danger(dialog[1].kind) => entered
    /\ IF list = "alerts"
       THEN IF SelectedRefs = <<>>
            THEN CloseDialog
            ELSE /\ Mutate("delete", SelectedRefs)
                 /\ UNCHANGED <<list, tableVars, listVars, dialog, entered, choiceVars>>
       ELSE /\ Mutate(dialog[1].kind, dialog[1].rows)
            /\ UNCHANGED <<list, tableVars, listVars, dialog, entered, choiceVars>>

\* What a write makes of the rows: nothing, where the switch refuses it.  The
\* API takes a backup before it restores one.
Effects(op) ==
    LET Free == Slots \ DOMAIN table
    IN  CASE op.kind = "ack"    -> {table}
          [] op.kind = "delete" -> {Restrict(table, DOMAIN table \ DOMAIN op.rows)}
          [] op.kind = "rename" -> {Put(op.rows, table) : s \in DOMAIN op.rows \cap DOMAIN table}
          [] New \in DOMAIN op.rows -> {Put(One(s, op.rows[New]), table) : s \in Free}
          [] op.kind = "restore" -> {Put(One(s, "other"), table) : s \in Free}
          [] OTHER -> {Put(op.rows, table) : s \in DOMAIN op.rows \cap Free}

CarryOut(op) ==
    /\ op.st = "sent"
    /\ table' \in Effects(op)
    /\ flight' = (flight \ {op}) \cup {[op EXCEPT !.st = "applied"]}
    /\ UNCHANGED <<list, elsewhere, listVars, dialog, entered, choiceVars>>

\* onSuccess: the hook invalidates the query, which joins a first load that is
\* under way; the last call of a mutation also does what the page gave it.
Succeed(op) ==
    /\ op.st = "applied"
    /\ flight' = flight \ {op}
    /\ fetch' = IF listed # <<>> \/ fetch = Quiet THEN Waiting ELSE fetch
    /\ dialog' = IF op.latest /\ Modal(op.kind) THEN <<>> ELSE dialog
    /\ IF op.latest /\ list = "alerts"
       THEN ticked' = {} /\ pointed' = {}
       ELSE UNCHANGED <<ticked, pointed>>
    /\ selected' = IF list = "vlans" /\ op.kind = "delete" /\ selected \in DOMAIN op.rows
                   THEN New
                   ELSE selected
    /\ UNCHANGED <<list, tableVars, listed, entered>>

\* A refusal, or an answer that is lost: an error is shown.
Fail(op) ==
    /\ flight' = flight \ {op}
    /\ UNCHANGED <<list, tableVars, listVars, dialog, entered, choiceVars>>

RowsNext ==
    \/ \E s \in Slots : \/ s \in DOMAIN table /\ Elsewhere(Restrict(table, DOMAIN table \ {s}))
                       \/ \E c \in Contents : Elsewhere(Put(One(s, c), table))
    \/ AskRows \/ AnswerRows \/ LandRows
    \/ \E s \in Slots : ToggleId(s) \/ SelectVlan(s)
    \/ ToggleAll
    \/ \E kind \in Buttons[list] : \E rows \in Offered(kind) : Press(kind, rows)
    \/ EnterIp \/ Cancel \/ HandleConfirm
    \/ \E op \in flight : CarryOut(op) \/ Succeed(op) \/ Fail(op)

RowsSpec == RowsInit /\ [][RowsNext]_rowsVars

-----------------------------------------------------------------------------
\* A write behind DangerConfirmDialog, or the deletion of alerts, is under way
\* only under its dialog, for which the IP was typed; a table has one write under
\* way, except that the backups take, delete and restore side by side.
RowsModal ==
    /\ \A op \in flight : Modal(op.kind) => dialog # <<>> /\ dialog[1].kind = op.kind
    /\ \A op \in flight : Danger(op.kind) => entered
    /\ list # "backups" => \A op, other \in flight : op = other

\* An acknowledgement or a deletion names only alerts that are on the screen when
\* it is sent, and were on the screen when the operator ticked them, one by one or
\* with all, however often the log was read in between.
OnlyPointedAt ==
    [][\A op \in flight' \ flight :
           list = "alerts" /\ op.st = "sent" => DOMAIN op.rows \subseteq pointed \cap OnScreen]_rowsVars

\* When nobody else has changed the list of managers since it was read, a write
\* after which it has entries but none for this browser was warned about.
LockoutWarned ==
    \A op \in flight :
        list = "managers" /\ op.st = "applied" /\ op.alone /\ Excludes(Range(table)) => op.warned
=============================================================================
