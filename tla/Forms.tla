-------------------------------- MODULE Forms --------------------------------
(***************************************************************************)
(* One mounted card of the frontend, its query and its mutation, against   *)
(* the setting at the switch, which other operators change as well.  Card  *)
(* is the table of the cards (see Cards).  The API (external) carries out  *)
(* a write, or refuses it, or its answer is lost; MaxOutside bounds the    *)
(* changes by others, among them the writes that the card has forgotten.   *)
(* History variables keep the setting that the form was filled from        *)
(* (filled), the fields to which the operator then gave another value      *)
(* (edited), and whether the IP was typed since the dialog opened (keyed); *)
(* the field shown of a request keeps what the form showed at the click,   *)
(* unless the setting was written from elsewhere since the card read.      *)
(***************************************************************************)
EXTENDS Naturals, Sequences

CONSTANTS Card, MaxOutside

ASSUME OutsideAssumption == MaxOutside \in Nat

VARIABLES
    card,       \* the card
    server,     \* the setting at the switch
    outside,    \* the changes by other operators, and the writes forgotten, so far
    unheard,    \* bodies on their way for which the card no longer waits
    cache,      \* query.data: <<>>, or <<setting>>
    reading,    \* the fetch of the query
    view,       \* closed; edit: the inputs are there; confirm: the dialog is
    form,       \* the state behind the inputs
    typed,      \* the dialog: its input is the IP of the switch
    request,    \* mutation: idle, or the bodies to be sent
    edited, keyed, filled

switchVars == <<server, outside, unheard>>
queryVars  == <<cache, reading>>
historyVars == <<edited, keyed, filled>>
formVars   == <<card, switchVars, queryVars, view, form, typed, request, historyVars>>

Names == DOMAIN Card
C     == Card[card]
Is(trait) == trait \in C.is

\* The data the card compares with and the form for them, or what it starts with.
Seeded(setting) == C.seed[setting]
Known  == IF cache = <<>> THEN C.blank ELSE cache[1]
Filled == IF cache = <<>> THEN C.blank ELSE Seeded(cache[1])

Pending == request.st # "idle"
Idle == [st |-> "idle"]
Asked == [st |-> "asked"]

\* What the switch makes of a body.  A row that is added and a command are all
\* in their body.
Written(body, setting) ==
    IF Is("query")
    THEN [f \in DOMAIN setting |-> IF f \in DOMAIN body THEN body[f] ELSE setting[f]]
    ELSE body

FormsTypeOK ==
    /\ card \in Names
    /\ server \in C.settings /\ outside \in 0..MaxOutside
    /\ \A body \in unheard : \A s \in C.settings : Written(body, s) \in C.settings
    /\ cache = <<>> \/ (Len(cache) = 1 /\ cache[1] \in C.settings)
    /\ reading.st \in {"idle", "asked"}
          \/ (reading.st = "read" /\ reading.got \in C.settings)
    /\ view \in {"closed", "edit", "confirm"}
    /\ form \in C.forms
    /\ typed \in BOOLEAN /\ keyed \in BOOLEAN
    /\ edited \subseteq DOMAIN form
    /\ filled = <<>> \/ (Len(filled) = 1 /\ filled[1] \in C.settings)
    /\ request.st \in {"idle", "sent", "applied"}

FormsInit ==
    /\ card \in Names
    /\ server \in C.settings
    /\ ~Is("query") => server = Head(C.sends[<<C.blank, C.blank>>])
    /\ outside = 0 /\ unheard = {}
    /\ cache = <<>> /\ reading = Idle
    /\ view = IF Is("opens") THEN "closed" ELSE "edit"
    /\ form = C.blank
    /\ typed = FALSE
    /\ request = Idle
    /\ edited = {} /\ keyed = FALSE /\ filled = <<>>

-----------------------------------------------------------------------------
(***************************************************************************)
(* The switch and the query.                                               *)
(***************************************************************************)
\* The setting is not, or will not be, what the click was about.
Overtaken == request' = IF Pending THEN [request EXCEPT !.shown = <<>>] ELSE request

Outside(setting) ==
    /\ Is("query") /\ outside < MaxOutside /\ setting # server
    /\ server' = setting /\ outside' = outside + 1
    /\ Overtaken
    /\ UNCHANGED <<card, unheard, queryVars, view, form, typed, historyVars>>

\* A write that the card has forgotten is carried out, refused or lost.
Unheard(body) ==
    /\ unheard' = unheard \ {body}
    /\ server' \in {Written(body, server), server}
    /\ Overtaken
    /\ UNCHANGED <<card, outside, queryVars, view, form, typed, historyVars>>

\* A mount, a refetch, the Retry button; onSuccess of the hook for a write that the
\* card has forgotten.
Ask ==
    /\ Is("query") /\ reading = Idle
    /\ reading' = Asked
    /\ UNCHANGED <<card, switchVars, cache, view, form, typed, request, historyVars>>

Answer ==
    /\ reading = Asked
    /\ reading' \in {[st |-> "read", got |-> server], Idle}
    /\ UNCHANGED <<card, switchVars, cache, view, form, typed, request, historyVars>>

\* A form that opens afresh is not there while it is closed.
Syncs == Is("reseeds") /\ (Is("fresh") => view # "closed")

\* Variant with a defect: the form is seeded once.
SyncOnce(setting) ==
    IF Syncs /\ cache = <<>>
    THEN form' = Seeded(setting) /\ edited' = {}
    ELSE UNCHANGED <<form, edited>>

\* useServerSync: other data replace what is in the form, also what was typed.
Sync(setting) ==
    IF Syncs /\ cache # <<setting>>
    THEN form' = Seeded(setting) /\ edited' = {}
    ELSE UNCHANGED <<form, edited>>

Land ==
    /\ reading.st = "read"
    /\ cache' = <<reading.got>>
    /\ Sync(reading.got)
    /\ filled' = IF Syncs THEN <<reading.got>> ELSE filled
    /\ reading' = Idle
    /\ UNCHANGED <<card, switchVars, view, typed, request, keyed>>

-----------------------------------------------------------------------------
(***************************************************************************)
(* The inputs.  They stay enabled while a write is under way, unless the   *)
(* card locks them or the dialog covers them.                              *)
(***************************************************************************)
Reachable == view = "edit" /\ (Is("needs") => cache # <<>>)

Fill(new) == form' = new /\ edited' = {} /\ filled' = cache
Empty == form' = C.blank /\ edited' = {} /\ filled' = <<>>

\* Does v differ from what was read of f, if anything was?
Differs(f, v) ==
    filled # <<>> /\ f \in DOMAIN filled[1] /\ v # Seeded(filled[1])[f]

BeginEdit ==
    /\ Is("opens") /\ view = "closed" /\ ~Pending
    /\ Is("reseeds") \/ cache # <<>>
    /\ view' = "edit"
    /\ IF Is("fresh") THEN Fill(Filled) ELSE UNCHANGED <<form, edited, filled>>
    /\ UNCHANGED <<card, switchVars, queryVars, typed, request, keyed>>

\* Edit in another row, which is not disabled while a write is under way: the inputs
\* are for that row now, and mutation.reset() makes the card forget the write.
EditAnother ==
    /\ Is("forgets") /\ view = "edit" /\ (request.st = "sent" => outside < MaxOutside)
    /\ view' = "closed" /\ Empty
    /\ request' = Idle
    /\ IF request.st = "sent"
       THEN unheard' = unheard \cup {Head(request.todo)} /\ outside' = outside + 1
       ELSE UNCHANGED <<unheard, outside>>
    /\ UNCHANGED <<card, server, queryVars, typed, keyed>>

Enter(f, v) ==
    /\ Reachable /\ (Is("locks") => ~Pending)
    /\ form[f] # v /\ form' = [form EXCEPT ![f] = v]
    /\ edited' = IF Differs(f, v) THEN edited \cup {f} ELSE edited \ {f}
    /\ UNCHANGED <<card, switchVars, queryVars, view, typed, request, keyed, filled>>

\* Revert, Cancel, Clear.
Revert ==
    /\ Is("reverts") /\ Reachable /\ ~Pending
    /\ IF Is("fresh") THEN Empty ELSE Fill(Filled)
    /\ view' = IF Is("opens") THEN "closed" ELSE "edit"
    /\ UNCHANGED <<card, switchVars, queryVars, typed, request, keyed>>

-----------------------------------------------------------------------------
(***************************************************************************)
(* The write.                                                              *)
(***************************************************************************)
CanSave == ~Pending /\ Reachable /\ <<form, Known>> \in C.ready

\* All the bodies are made from what the card holds at the click.
Send ==
    /\ C.sends[<<form, Known>>] # <<>>
    /\ request' = [st    |-> "sent",
                   todo  |-> C.sends[<<form, Known>>],
                   shown |-> IF Is("query") => cache = <<server>> THEN C.shows[form] ELSE <<>>]

Save ==
    /\ ~Is("danger") /\ CanSave
    /\ Send
    /\ UNCHANGED <<card, switchVars, queryVars, view, form, typed, historyVars>>

\* Variant with a defect: the input is as it was left.
OpenFilled == view' = "confirm" /\ UNCHANGED typed

\* DangerConfirmDialog opens: its input is empty.
Open == view' = "confirm" /\ typed' = FALSE

OpenDialog ==
    /\ Is("danger") /\ CanSave
    /\ Open /\ keyed' = FALSE
    /\ UNCHANGED <<card, switchVars, queryVars, form, request, edited, filled>>

TypeIp ==
    /\ view = "confirm" /\ ~Pending /\ ~typed
    /\ typed' = TRUE /\ keyed' = TRUE
    /\ UNCHANGED <<card, switchVars, queryVars, view, form, request, edited, filled>>

\* Variant with a defect: Escape works while the write is under way.
DismissAlways ==
    /\ view = "confirm"
    /\ view' = "edit"
    /\ UNCHANGED <<card, switchVars, queryVars, form, typed, request, historyVars>>

\* Escape, the backdrop, Close and Cancel.
Dismiss ==
    /\ view = "confirm" /\ ~Pending
    /\ view' = "edit"
    /\ UNCHANGED <<card, switchVars, queryVars, form, typed, request, historyVars>>

Confirm ==
    /\ view = "confirm" /\ typed /\ ~Pending
    /\ Send
    /\ UNCHANGED <<card, switchVars, queryVars, view, form, typed, historyVars>>

\* The switch carries out the write under way.
Apply ==
    /\ request.st = "sent"
    /\ server' = Written(Head(request.todo), server)
    /\ request' = [request EXCEPT !.st = "applied"]
    /\ UNCHANGED <<card, outside, unheard, queryVars, view, form, typed, historyVars>>

\* onSuccess: the hook invalidates the query, which joins a first load that is
\* under way; then the next body is sent, or the card closes its dialog or its
\* inputs, and empties or keeps what was sent.
Ack ==
    /\ request.st = "applied"
    /\ reading' = IF Is("query") /\ (cache # <<>> \/ reading = Idle) THEN Asked ELSE reading
    /\ \/ /\ Len(request.todo) > 1
          /\ request' = [request EXCEPT !.st = "sent", !.todo = Tail(@)]
          /\ UNCHANGED <<cache, view, form, edited, filled>>
       \/ /\ Len(request.todo) = 1
          /\ request' = Idle
          /\ view' = IF Is("opens") THEN "closed" ELSE "edit"
          /\ cache' = IF Is("keeps") THEN request.todo ELSE cache
          /\ IF Is("clears") \/ Is("fresh") THEN Empty ELSE UNCHANGED <<form, edited, filled>>
    /\ UNCHANGED <<card, switchVars, typed, keyed>>

\* A refusal, or an answer that is lost: an error is shown, what was not sent is not.
Nak ==
    /\ Pending
    /\ request' = Idle
    /\ UNCHANGED <<card, switchVars, queryVars, view, form, typed, historyVars>>

FormsNext ==
    \/ \E s \in C.settings : Outside(s)
    \/ \E body \in unheard : Unheard(body)
    \/ Ask \/ Answer \/ Land
    \/ BeginEdit \/ EditAnother \/ Revert
    \/ \E f \in DOMAIN form : \E v \in {g[f] : g \in C.forms} : Enter(f, v)
    \/ Save \/ OpenDialog \/ TypeIp \/ Dismiss \/ Confirm
    \/ Apply \/ Ack \/ Nak

FormsSpec == FormsInit /\ [][FormsNext]_formVars

-----------------------------------------------------------------------------
\* When the setting was written from nowhere else since the card read it, all the
\* bodies of one Save leave the switch with what the inputs showed at the click, but
\* for blanks at the ends of a text.  It is about what the inputs show and the switch
\* reports, and about no more: see Cards for what is sent besides.
LandsAsShown ==
    request.st = "applied" /\ Len(request.todo) = 1 =>
        \A f \in DOMAIN request.shown \cap DOMAIN server : server[f] = request.shown[f]

\* An edit of one field is a write of another only where Cards says so: a field that is
\* sent, and to which the operator has given no other value since the form was filled,
\* is sent as the card carries what was read then, which is as it was read, but for
\* what Cards lists.  Left out: the flow control that a half-duplex mode forces off.
AsCarried(body, read) ==
    \A f \in (DOMAIN body \cap DOMAIN read) \ edited :
        \/ body[f] = C.carries[read][f]
        \/ card = "port" /\ f = "flow" /\ body.mode = "half"

UntouchedAsCarried ==
    [][~Pending /\ Pending' /\ filled # <<>> =>
           \A i \in DOMAIN request'.todo : AsCarried(request'.todo[i], filled[1])]_formVars

\* A write behind the dialog is one for which the IP of the switch was typed in
\* this opening of the dialog, and the dialog stays until its answer is there.
FormsModal ==
    Pending /\ Is("danger") => keyed /\ view = "confirm"
=============================================================================
