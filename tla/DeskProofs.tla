------------------------------ MODULE DeskProofs -----------------------------
(***************************************************************************)
(* Cards and tables, for any table of cards, any rows and any number of    *)
(* changes by others: what the dialogs guard, what the alerts name, what   *)
(* the authorized managers are warned about.  Then, for every table of     *)
(* cards that fits (Fits), and for the cards of the frontend, which do     *)
(* (AllCardsFit): what a Save leaves at the switch, what it may send, and  *)
(* which fields it writes.                                                 *)
(***************************************************************************)
EXTENDS Desk, TLAPS

-----------------------------------------------------------------------------
(***************************************************************************)
(* The dialog of a card.                                                   *)
(***************************************************************************)
FormsInv ==
    /\ FormsModal
    /\ view = "confirm" /\ typed => keyed

\* The card is the same in all states.
LEMMA SameCard ==
    ASSUME card' = card
    PROVE  \A trait : Is(trait)' = Is(trait)
BY DEF Is, C

\* A step leaves the card alone.
LEMMA CardStays == [FormsNext]_formVars => card' = card /\ C' = C
<1> SUFFICES ASSUME [FormsNext]_formVars PROVE card' = card
  BY DEF C
<1> QED
  BY DEF FormsNext, formVars, Outside, Unheard, Ask, Answer, Land, BeginEdit, EditAnother,
         Revert, Enter, Save, OpenDialog, TypeIp, Dismiss, Confirm, Apply, Ack, Nak, Open, Send

LEMMA FormsInvStep == FormsInv /\ [FormsNext]_formVars => FormsInv'
<1> SUFFICES ASSUME FormsInv, [FormsNext]_formVars
             PROVE  FormsInv'
  OBVIOUS
<1> USE DEF FormsInv, FormsModal, Pending, Idle, historyVars
<1>1. card' = card
  BY CardStays
<1>2. \A trait : Is(trait)' = Is(trait)
  BY <1>1, SameCard
<1>3. ASSUME NEW x, Outside(x) \/ Unheard(x) PROVE FormsInv'
  <2>1. Pending' => Pending
    BY <1>3 DEF Outside, Unheard, Overtaken
  <2> QED
    BY <1>2, <1>3, <2>1 DEF Outside, Unheard
<1>4. CASE Ask \/ Answer \/ Land
  BY <1>2, <1>4 DEF Ask, Answer, Land
<1>5. CASE BeginEdit \/ EditAnother \/ Revert
  BY <1>2, <1>5 DEF BeginEdit, EditAnother, Revert, Fill, Empty
<1>6. ASSUME NEW f, NEW v, Enter(f, v) PROVE FormsInv'
  BY <1>2, <1>6 DEF Enter
<1>7. CASE Save
  BY <1>2, <1>7 DEF Save, CanSave, Reachable
<1>8. CASE OpenDialog \/ TypeIp \/ Dismiss
  BY <1>2, <1>8 DEF OpenDialog, Open, TypeIp, Dismiss, CanSave
<1>9. CASE Confirm
  BY <1>2, <1>9 DEF Confirm
<1>10. CASE Apply
  BY <1>2, <1>10 DEF Apply
<1>11. CASE Ack
  BY <1>2, <1>11 DEF Ack, Empty
<1>12. CASE Nak
  BY <1>2, <1>12 DEF Nak
<1>13. CASE UNCHANGED formVars
  BY <1>2, <1>13 DEF formVars, historyVars
<1> QED
  BY <1>3, <1>4, <1>5, <1>6, <1>7, <1>8, <1>9, <1>10, <1>11, <1>12, <1>13 DEF FormsNext

-----------------------------------------------------------------------------
(***************************************************************************)
(* What a table of cards must be, for the machine of Forms to keep its     *)
(* promises: AllCards is, as is shown below.                               *)
(***************************************************************************)
\* A card that has data.
Reads(c) == c.is \cap {"query", "keeps"} # {}

\* The forms that can be sent, and the data they are sent of: those for which the
\* button is enabled, and those that useServerSync puts under an open dialog.
Pairs(c) ==
    c.ready \cup {p \in c.forms \X c.settings :
                     {"query", "danger"} \subseteq c.is /\ p[1] = c.seed[p[2]]}

\* Written, for any card.
Lays(c, body, setting) ==
    IF "query" \in c.is
    THEN [f \in DOMAIN setting |-> IF f \in DOMAIN body THEN body[f] ELSE setting[f]]
    ELSE body

\* The setting once all the bodies are carried out.
Result(c, todo, setting) ==
    IF todo = <<>> THEN setting
    ELSE IF Len(todo) = 1 THEN Lays(c, todo[1], setting)
    ELSE Lays(c, todo[2], Lays(c, todo[1], setting))

Agree(shown, setting) == \A f \in DOMAIN shown \cap DOMAIN setting : setting[f] = shown[f]

\* The fields are the same in all forms, and an input may have any value of its field.
FitsForms(c) ==
    /\ c.blank \in c.forms
    /\ \A g, h \in c.forms : DOMAIN g = DOMAIN h
    /\ \A g, h \in c.forms : \A f \in DOMAIN g : [g EXCEPT ![f] = h[f]] \in c.forms
    /\ Reads(c) => c.seed \in [c.settings -> c.forms]

\* Behind a dialog the data may change the form only together with what is known.
FitsTraits(c) ==
    /\ "danger" \in c.is => "fresh" \notin c.is /\ ("query" \in c.is => "reseeds" \in c.is)
    /\ "fresh" \in c.is => "opens" \in c.is
    /\ "reseeds" \in c.is => "query" \in c.is
    /\ "query" \in c.is => "clears" \notin c.is /\ "keeps" \notin c.is
    /\ "forgets" \in c.is => "fresh" \in c.is

\* One body or two, each of which makes a setting of a setting.
FitsSends(c) ==
    \A p \in Pairs(c) :
        /\ c.sends[p] \in Seq(Range(c.sends[p])) /\ Len(c.sends[p]) <= 2
        /\ \A i \in DOMAIN c.sends[p] : \A s \in c.settings :
              Lays(c, c.sends[p][i], s) \in c.settings

\* Carried out on the data they were made of, the bodies make what is shown.
FitsShown(c) ==
    \A p \in Pairs(c) : \A s \in c.settings :
        ("query" \in c.is => s = p[2]) /\ c.sends[p] # <<>> =>
            Agree(c.shows[p[1]], Result(c, c.sends[p], s))

\* The API accepts every body (left out as in SendsAccepted).
FitsApi(n, c) ==
    n \notin {"cos", "user_pri"} =>
        \A p \in Pairs(c) : \A i \in DOMAIN c.sends[p] : Accepted(n, c.sends[p][i])

\* A field that is in the form as it was read of r, or that has no input, is sent as the
\* card carries it.
FitsRead(n, c) ==
    Reads(c) =>
    \A p \in Pairs(c) : \A i \in DOMAIN c.sends[p] : \A r \in c.settings :
        LET body == c.sends[p][i] IN
        \A f \in DOMAIN body \cap DOMAIN r :
            (f \in DOMAIN p[1] => p[1][f] = c.seed[r][f]) =>
                \/ body[f] = c.carries[r][f]
                \/ n = "port" /\ f = "flow" /\ body.mode = "half"

Fits(n, c) ==
    /\ FitsForms(c) /\ FitsTraits(c) /\ FitsSends(c) /\ FitsShown(c)
    /\ FitsApi(n, c) /\ FitsRead(n, c)

Fitting == \A n \in DOMAIN Card : Fits(n, Card[n])

-----------------------------------------------------------------------------
(***************************************************************************)
(* The cards: for any table of cards that fits.                            *)
(***************************************************************************)
\* Under the dialog there is a form that can be sent.
SavableInv == view = "confirm" => Is("danger") /\ <<form, Known>> \in Pairs(C)

\* A form that useServerSync fills was filled from what is known, and a field that the
\* operator left is as it was filled.
SeedInv ==
    /\ reading # Idle => Is("query")
    /\ cache # <<>> \/ filled # <<>> => Reads(C)
    /\ Syncs => filled = cache
    /\ filled # <<>> =>
          \A f \in (DOMAIN filled[1] \cap DOMAIN form) \ edited :
              form[f] = Seeded(filled[1])[f]

\* What the switch has still to carry out.
Ahead == IF request.st = "sent" THEN request.todo ELSE Tail(request.todo)

\* Carried out, what is ahead will make what was shown.
SentInv ==
    Pending =>
        /\ DOMAIN request = {"st", "todo", "shown"}
        /\ request.todo \in Seq(Range(request.todo)) /\ Len(request.todo) \in {1, 2}
        /\ \A i \in DOMAIN request.todo : \A s \in C.settings :
              Written(request.todo[i], s) \in C.settings
        /\ card \notin {"cos", "user_pri"} =>
              \A i \in DOMAIN request.todo : Accepted(card, request.todo[i])
        /\ Agree(request.shown, Result(C, Ahead, server))

CardInv == FormsTypeOK /\ SavableInv /\ SeedInv /\ SentInv

LEMMA CardFits == Fitting /\ FormsTypeOK => Fits(card, C)
BY DEF Fitting, FormsTypeOK, Names, C

LEMMA WrittenLays == \A body, s : Written(body, s) = Lays(C, body, s)
BY DEF Written, Lays, Is

\* What is read of the data: blank, or a form.
LEMMA FilledIsForm ==
    ASSUME FitsForms(C), FormsTypeOK, SeedInv
    PROVE  Filled \in C.forms /\ (cache # <<>> => Filled = Seeded(cache[1]))
BY DEF FitsForms, FormsTypeOK, SeedInv, Filled, Seeded

LEMMA TypesOfInit == Fitting /\ FormsInit => FormsTypeOK /\ SavableInv /\ SeedInv /\ SentInv
<1> SUFFICES ASSUME Fitting, FormsInit PROVE FormsTypeOK /\ SavableInv /\ SeedInv /\ SentInv
  OBVIOUS
<1>1. Fits(card, C)
  BY DEF Fitting, FormsInit, Names, C
<1>2. form \in C.forms
  BY <1>1 DEF FormsInit, Fits, FitsForms
<1>3. view \in {"closed", "edit", "confirm"}
  BY DEF FormsInit
<1>4. FormsTypeOK
  <2>1. card \in Names /\ server \in C.settings /\ cache = <<>> /\ filled = <<>>
    BY DEF FormsInit
  <2>2. typed \in BOOLEAN /\ keyed \in BOOLEAN
    BY DEF FormsInit
  <2>3. reading.st = "idle" /\ request.st = "idle" /\ unheard = {}
    BY DEF FormsInit, Idle
  <2>4. edited \subseteq DOMAIN form
    BY DEF FormsInit
  <2>5. outside \in 0..MaxOutside
    BY OutsideAssumption DEF FormsInit
  <2> QED
    BY <1>2, <1>3, <2>1, <2>2, <2>3, <2>4, <2>5 DEF FormsTypeOK
<1>5. SavableInv /\ SeedInv /\ SentInv
  BY DEF FormsInit, SavableInv, SeedInv, SentInv, Idle, Pending, Syncs
<1> QED
  BY <1>4, <1>5

\* What a step does to the form, and to what is recorded of it.
FormShape ==
    /\ form \in C.forms /\ edited \subseteq DOMAIN form
    /\ filled = <<>> \/ (Len(filled) = 1 /\ filled[1] \in C.settings)

LEMMA FillShape ==
    ASSUME FitsForms(C), FormsTypeOK, SeedInv, C' = C, Fill(Filled) \/ Empty
    PROVE  FormShape'
<1>1. form' \in C.forms /\ edited' = {}
  BY FilledIsForm DEF Fill, Empty, FitsForms
<1>2. filled' = <<>> \/ (Len(filled') = 1 /\ filled'[1] \in C.settings)
  BY DEF Fill, Empty, FormsTypeOK
<1> QED
  BY <1>1, <1>2 DEF FormShape

LEMMA SyncShape ==
    ASSUME FitsForms(C), FormsTypeOK, C' = C, Is("query"), NEW s \in C.settings, Sync(s),
           filled' = IF Syncs THEN <<s>> ELSE filled
    PROVE  FormShape'
<1>1. form' \in C.forms /\ edited' \subseteq DOMAIN form'
  BY DEF Sync, FormsTypeOK, FitsForms, Reads, Is, Seeded
<1>2. filled' = <<>> \/ (Len(filled') = 1 /\ filled'[1] \in C.settings)
  <2>1. Len(<<s>>) = 1 /\ <<s>>[1] = s
    OBVIOUS
  <2> QED
    BY <2>1 DEF FormsTypeOK
<1> QED
  BY <1>1, <1>2 DEF FormShape

LEMMA EnterShape ==
    ASSUME FitsForms(C), FormsTypeOK, C' = C,
           NEW f \in DOMAIN form, NEW v \in {g[f] : g \in C.forms}, Enter(f, v)
    PROVE  FormShape' /\ DOMAIN form' = DOMAIN form
<1>1. PICK g \in C.forms : v = g[f]
  OBVIOUS
<1>2. form' \in C.forms /\ DOMAIN form' = DOMAIN form
  BY <1>1 DEF Enter, FitsForms, FormsTypeOK
<1>3. edited' \subseteq DOMAIN form'
  BY <1>2 DEF Enter, FormsTypeOK
<1> QED
  BY <1>2, <1>3 DEF FormShape, FormsTypeOK, Enter

\* One body, or two.
LEMMA OneTwo ==
    ASSUME NEW a, NEW b
    PROVE  /\ <<a>> \in Seq(Range(<<a>>)) /\ Len(<<a>>) = 1 /\ <<a>>[1] = a
           /\ DOMAIN <<a>> = {1} /\ <<a>> # <<>>
           /\ Tail(<<a>>) = <<>> /\ Tail(<<a, b>>) = <<b>>
<1>1. a \in Range(<<a>>)
  BY DEF Range
<1>2. <<a>> \in Seq(Range(<<a>>))
  BY <1>1
<1> QED
  BY <1>2

LEMMA Short ==
    ASSUME NEW S, NEW todo \in Seq(S), Len(todo) \in {1, 2}
    PROVE  /\ DOMAIN todo = 1..Len(todo) /\ todo # <<>>
           /\ Head(todo) = todo[1]
           /\ Len(todo) = 1 => Tail(todo) = <<>>
           /\ Len(todo) = 2 => /\ Tail(todo) \in Seq(Range(Tail(todo)))
                               /\ Len(Tail(todo)) = 1 /\ Tail(todo)[1] = todo[2]
                               /\ DOMAIN Tail(todo) = {1} /\ Tail(todo) # <<>>
<1>1. DOMAIN todo = 1..Len(todo)
  OBVIOUS
<1>2. todo # <<>>
  OBVIOUS
<1>3. Head(todo) = todo[1]
  OBVIOUS
<1>4. Len(todo) = 1 => Tail(todo) = <<>>
  <2>1. Len(todo) = 1 => todo = <<todo[1]>>
    OBVIOUS
  <2> QED
    BY <2>1, OneTwo
<1>5. Len(todo) = 2 => Tail(todo) = <<todo[2]>>
  <2> SUFFICES ASSUME Len(todo) = 2 PROVE Tail(todo) = <<todo[2]>>
    OBVIOUS
  <2>1. todo = <<todo[1], todo[2]>>
    OBVIOUS
  <2>2. PICK a, b : todo = <<a, b>>
    BY <2>1
  <2> QED
    BY <2>2, OneTwo
<1> QED
  BY <1>1, <1>2, <1>3, <1>4, <1>5, OneTwo

\* The rest of the types.
DeskShape ==
    /\ card \in Names
    /\ server \in C.settings /\ outside \in 0..MaxOutside
    /\ cache = <<>> \/ (Len(cache) = 1 /\ cache[1] \in C.settings)
    /\ reading.st \in {"idle", "asked"}
          \/ (reading.st = "read" /\ reading.got \in C.settings)
    /\ view \in {"closed", "edit", "confirm"}
    /\ typed \in BOOLEAN /\ keyed \in BOOLEAN
    /\ request.st \in {"idle", "sent", "applied"}

UnheardShape == \A body \in unheard : \A s \in C.settings : Written(body, s) \in C.settings

LEMMA TypesSplit == FormsTypeOK <=> DeskShape /\ FormShape /\ UnheardShape
BY DEF FormsTypeOK, DeskShape, FormShape, UnheardShape

LEMMA UnheardStep ==
    ASSUME UnheardShape, SentInv, C' = C, [FormsNext]_formVars
    PROVE  UnheardShape'
<1>1. \A body, s : Written(body, s)' = Written(body, s)
  BY DEF Written, Is, C
<1> USE DEF switchVars
<1>2. CASE EditAnother /\ request.st = "sent"
  <2>1. \A s \in C.settings : Written(Head(request.todo), s) \in C.settings
    <3>1. /\ request.todo \in Seq(Range(request.todo)) /\ Len(request.todo) \in {1, 2}
          /\ \A i \in DOMAIN request.todo : \A s \in C.settings :
                Written(request.todo[i], s) \in C.settings
      BY <1>2 DEF SentInv, Pending
    <3>2. Head(request.todo) = request.todo[1] /\ 1 \in DOMAIN request.todo
      BY <3>1, Short
    <3> QED
      BY <3>1, <3>2
  <2>2. unheard' = unheard \cup {Head(request.todo)}
    BY <1>2 DEF EditAnother
  <2> QED
    BY <1>1, <2>1, <2>2 DEF UnheardShape
<1>3. CASE unheard' \subseteq unheard
  BY <1>1, <1>3 DEF UnheardShape
<1> QED
  BY <1>2, <1>3
  DEF FormsNext, formVars, Outside, Unheard, Ask, Answer, Land, BeginEdit, EditAnother, Revert,
      Enter, Save, OpenDialog, TypeIp, Dismiss, Confirm, Apply, Ack, Nak

LEMMA CardTypesStep ==
    ASSUME Fitting, FormsTypeOK, SavableInv, SeedInv, SentInv, [FormsNext]_formVars
    PROVE  FormsTypeOK'
<1>1. Fits(card, C) /\ card' = card /\ C' = C
  BY CardFits, CardStays
<1>2. DeskShape /\ FormShape /\ UnheardShape /\ FitsForms(C)
  BY <1>1, TypesSplit DEF Fits
<1>u. UnheardShape'
  BY <1>1, <1>2, UnheardStep
<1> SUFFICES DeskShape' /\ FormShape'
  BY <1>1, <1>u DEF FormsTypeOK, DeskShape, FormShape, UnheardShape
<1>a. ASSUME UNCHANGED <<form, edited, filled>> PROVE FormShape'
  BY <1>1, <1>2, <1>a DEF FormShape
<1>b. Names' = Names
  BY DEF Names
<1> USE DEF historyVars, queryVars, switchVars
<1>3. ASSUME NEW s \in C.settings, Outside(s) PROVE DeskShape' /\ FormShape'
  <2>1. outside' \in 0..MaxOutside
    BY <1>2, <1>3, OutsideAssumption DEF Outside, DeskShape
  <2>2. request'.st = request.st
    BY <1>3 DEF Outside, Overtaken, SentInv
  <2>3. DeskShape'
    BY <1>1, <1>2, <1>3, <1>b, <2>1, <2>2 DEF Outside, DeskShape
  <2> QED
    BY <1>3, <1>a, <2>3 DEF Outside
<1>c. ASSUME NEW body \in unheard, Unheard(body) PROVE DeskShape' /\ FormShape'
  <2>1. server' \in C.settings
    BY <1>2, <1>c DEF Unheard, UnheardShape, DeskShape
  <2>2. request'.st = request.st
    BY <1>c DEF Unheard, Overtaken, SentInv
  <2>3. DeskShape'
    BY <1>1, <1>2, <1>c, <1>b, <2>1, <2>2 DEF Unheard, DeskShape
  <2> QED
    BY <1>c, <1>a, <2>3 DEF Unheard
<1>d. CASE EditAnother
  <2>1. FormShape'
    BY <1>1, <1>2, <1>d, FillShape DEF EditAnother
  <2>2. outside' \in 0..MaxOutside
    BY <1>2, <1>d, OutsideAssumption DEF EditAnother, DeskShape
  <2>3. view' = "closed" /\ request'.st = "idle"
    BY <1>d DEF EditAnother, Idle
  <2> QED
    BY <1>1, <1>2, <1>b, <1>d, <2>1, <2>2, <2>3 DEF EditAnother, DeskShape
<1>4. CASE Ask
  BY <1>1, <1>2, <1>4, <1>a, <1>b DEF Ask, Asked, DeskShape
<1>5. CASE Answer
  <2>1. reading' = Idle \/ (reading'.st = "read" /\ reading'.got = server)
    BY <1>5 DEF Answer
  <2> QED
    BY <1>1, <1>2, <1>5, <1>a, <1>b, <2>1 DEF Answer, DeskShape, Idle
<1>6. CASE Land
  <2>1. reading.got \in C.settings /\ Is("query")
    BY <1>2, <1>6 DEF Land, DeskShape, SeedInv, Idle
  <2>2. FormShape'
    BY <1>1, <1>2, <1>6, <2>1, SyncShape DEF Land
  <2>3. Len(cache') = 1 /\ cache'[1] = reading.got
    BY <1>6 DEF Land
  <2>4. reading'.st = "idle"
    BY <1>6 DEF Land, Idle
  <2> QED
    BY <1>1, <1>2, <1>6, <1>b, <2>1, <2>2, <2>3, <2>4 DEF Land, DeskShape
<1>7. CASE BeginEdit
  <2>1. FormShape'
    BY <1>1, <1>2, <1>7, <1>a, FillShape DEF BeginEdit
  <2> QED
    BY <1>1, <1>2, <1>7, <1>b, <2>1 DEF BeginEdit, DeskShape
<1>8. CASE Revert
  <2>1. FormShape'
    BY <1>1, <1>2, <1>8, FillShape DEF Revert
  <2>2. view' \in {"closed", "edit", "confirm"}
    BY <1>8 DEF Revert
  <2> QED
    BY <1>1, <1>2, <1>8, <1>b, <2>1, <2>2 DEF Revert, DeskShape
<1>9. ASSUME NEW f \in DOMAIN form, NEW v \in {g[f] : g \in C.forms}, Enter(f, v)
      PROVE  DeskShape' /\ FormShape'
  <2>1. FormShape'
    BY <1>1, <1>2, <1>9, EnterShape
  <2> QED
    BY <1>1, <1>2, <1>9, <1>b, <2>1 DEF Enter, DeskShape
<1>10. CASE Save \/ Confirm
  BY <1>1, <1>2, <1>10, <1>a, <1>b DEF Save, Confirm, Send, DeskShape
<1>11. CASE OpenDialog \/ TypeIp \/ Dismiss
  BY <1>1, <1>2, <1>11, <1>a, <1>b DEF OpenDialog, Open, TypeIp, Dismiss, DeskShape
<1>12. CASE Apply
  <2>1. Pending /\ Len(request.todo) \in {1, 2} /\ request'.st = "applied"
    BY <1>12 DEF Apply, SentInv, Pending
  <2>2. Written(Head(request.todo), server) \in C.settings
    BY <1>2, <2>1 DEF SentInv, DeskShape
  <2> QED
    BY <1>1, <1>2, <1>12, <1>a, <1>b, <2>1, <2>2 DEF Apply, DeskShape
<1>13. CASE Ack
  <2>1. Pending /\ Len(request.todo) \in {1, 2}
    BY <1>13 DEF Ack, SentInv, Pending
  <2>2. reading'.st \in {"idle", "asked"} \/ (reading'.st = "read" /\ reading'.got \in C.settings)
    BY <1>2, <1>13 DEF Ack, DeskShape, Asked
  <2>3. ASSUME Len(request.todo) > 1,
               request' = [request EXCEPT !.st = "sent", !.todo = Tail(@)],
               UNCHANGED <<cache, view, form, edited, filled>>
        PROVE  DeskShape' /\ FormShape'
    <3>1. request'.st = "sent"
      BY <2>1, <2>3 DEF SentInv
    <3> QED
      BY <1>1, <1>2, <1>13, <1>a, <1>b, <2>2, <2>3, <3>1 DEF Ack, DeskShape
  <2>4. ASSUME Len(request.todo) = 1,
               request' = Idle,
               view' = IF Is("opens") THEN "closed" ELSE "edit",
               cache' = IF Is("keeps") THEN request.todo ELSE cache,
               IF Is("clears") \/ Is("fresh") THEN Empty ELSE UNCHANGED <<form, edited, filled>>
        PROVE  DeskShape' /\ FormShape'
    <3>1. request'.st = "idle" /\ view' \in {"closed", "edit", "confirm"}
      BY <2>4 DEF Idle
    <3>2. cache' = <<>> \/ (Len(cache') = 1 /\ cache'[1] \in C.settings)
      <4>1. CASE Is("keeps")
        <5>1. Written(request.todo[1], server) = request.todo[1]
          BY <1>1, <4>1 DEF Written, Is, Fits, FitsTraits
        <5>2. request.todo[1] \in C.settings
          BY <1>2, <2>1, <2>4, <5>1 DEF SentInv, DeskShape
        <5> QED
          BY <2>4, <4>1, <5>2
      <4>2. CASE ~Is("keeps")
        BY <1>2, <2>4, <4>2 DEF DeskShape
      <4> QED
        BY <4>1, <4>2
    <3>3. FormShape'
      BY <1>1, <1>2, <2>4, <1>a, FillShape
    <3> QED
      BY <1>1, <1>2, <1>13, <1>b, <2>2, <3>1, <3>2, <3>3 DEF Ack, DeskShape
  <2> QED
    BY <1>13, <2>3, <2>4 DEF Ack
<1>14. CASE Nak
  BY <1>1, <1>2, <1>14, <1>a, <1>b DEF Nak, DeskShape, Idle
<1>15. CASE UNCHANGED formVars
  BY <1>1, <1>2, <1>15, <1>a, <1>b DEF formVars, DeskShape
<1> QED
  BY <1>3, <1>c, <1>d, <1>4, <1>5, <1>6, <1>7, <1>8, <1>9, <1>10, <1>11, <1>12, <1>13, <1>14,
     <1>15
  DEF FormsNext

LEMMA SavableStep ==
    ASSUME Fitting, FormsTypeOK, SavableInv, SeedInv, [FormsNext]_formVars
    PROVE  SavableInv'
<1>1. Fits(card, C) /\ card' = card /\ C' = C
  BY CardFits, CardStays
<1>2. \A trait : Is(trait)' = Is(trait)
  BY <1>1, SameCard
<1>3. FitsTraits(C) /\ FitsForms(C)
  BY <1>1 DEF Fits
<1> SUFFICES ASSUME view' = "confirm"
             PROVE  Is("danger") /\ <<form', Known'>> \in Pairs(C)
  BY <1>1, <1>2 DEF SavableInv
<1> USE DEF historyVars, queryVars, switchVars
<1>4. CASE view = "confirm" /\ UNCHANGED <<form, cache>>
  BY <1>1, <1>4 DEF SavableInv, Known
<1>5. CASE Land
  <2>1. view = "confirm" /\ Is("danger") /\ Is("query") /\ <<form, Known>> \in Pairs(C)
    BY <1>5 DEF Land, SavableInv, SeedInv, Idle
  <2>2. Syncs /\ reading.got \in C.settings /\ cache' = <<reading.got>>
    BY <2>1, <1>3, <1>5 DEF Syncs, Is, FitsTraits, Land, FormsTypeOK
  <2>3. CASE cache = cache'
    BY <2>1, <2>2, <2>3, <1>5 DEF Land, Sync, Known
  <2>4. CASE cache # cache'
    <3>1. form' = C.seed[reading.got]
      BY <2>2, <2>4, <1>5 DEF Land, Sync, Seeded
    <3>2. Known' = reading.got
      BY <1>1, <2>2 DEF Known
    <3>3. form' \in C.forms
      BY <3>1, <2>1, <2>2, <1>3 DEF FitsForms, Reads, Is
    <3> QED
      BY <2>1, <2>2, <3>1, <3>2, <3>3 DEF Pairs, Is
  <2> QED
    BY <2>3, <2>4
<1>6. CASE OpenDialog
  BY <1>1, <1>6 DEF OpenDialog, CanSave, Pairs, Known
<1>7. CASE Ack
  <2>1. Len(request.todo) > 1 /\ UNCHANGED <<cache, view, form>>
    BY <1>7 DEF Ack
  <2> QED
    BY <1>4, <2>1
<1> QED
  BY <1>4, <1>5, <1>6, <1>7
  DEF FormsNext, formVars, Outside, Unheard, Ask, Answer, BeginEdit, EditAnother, Revert, Enter,
      Save, Reachable, CanSave, TypeIp, Dismiss, Confirm, Apply, Nak

LEMMA SeedStep ==
    ASSUME Fitting, FormsTypeOK, SeedInv, SentInv, [FormsNext]_formVars
    PROVE  SeedInv'
<1>1. Fits(card, C) /\ card' = card /\ C' = C
  BY CardFits, CardStays
<1>2. \A trait : Is(trait)' = Is(trait)
  BY <1>1, SameCard
<1>3. FitsTraits(C) /\ FitsForms(C)
  BY <1>1 DEF Fits
<1>4. Reads(C)' = Reads(C) /\ \A s : Seeded(s)' = Seeded(s)
  BY <1>1 DEF Seeded, Reads
<1> USE DEF historyVars, queryVars, switchVars
<1> DEFINE AsFilled ==
      filled # <<>> =>
         \A f \in (DOMAIN filled[1] \cap DOMAIN form) \ edited : form[f] = Seeded(filled[1])[f]
<1>a. ASSUME UNCHANGED <<form, edited, filled>> PROVE AsFilled'
  BY <1>4, <1>a DEF SeedInv
<1>b. ASSUME Fill(Filled) \/ Empty PROVE AsFilled'
  <2>1. filled' # <<>> => cache # <<>> /\ filled' = cache /\ form' = Seeded(cache[1])
    BY <1>3, <1>b, FilledIsForm DEF Fill, Empty
  <2> QED
    BY <1>4, <2>1
<1>5. CASE reading' = reading /\ UNCHANGED <<cache, view, form, edited, filled>>
  <2>1. AsFilled'
    BY <1>5, <1>a
  <2> QED
    BY <1>2, <1>4, <1>5, <2>1 DEF SeedInv, Syncs
<1>6. CASE Ask \/ Answer
  <2>1. AsFilled' /\ Is("query")
    BY <1>6, <1>a DEF Ask, Answer, Asked, Idle, SeedInv
  <2> QED
    BY <1>2, <1>4, <1>6, <2>1 DEF SeedInv, Syncs, Ask, Answer
<1>7. CASE Land
  <2>1. Is("query") /\ Reads(C) /\ reading.got \in C.settings
    BY <1>7 DEF Land, SeedInv, Idle, Reads, Is, FormsTypeOK
  <2>2. Syncs' = Syncs
    BY <1>2, <1>7 DEF Land, Syncs
  <2>3. AsFilled'
    <3>1. CASE ~Syncs
      BY <1>4, <1>7, <3>1 DEF Land, Sync, SeedInv
    <3>2. CASE Syncs /\ cache = <<reading.got>>
      <4>1. filled = <<reading.got>> /\ filled' = filled /\ UNCHANGED <<form, edited>>
        BY <1>7, <3>2 DEF Land, Sync, SeedInv
      <4> QED
        BY <4>1, <1>a
    <3>3. CASE Syncs /\ cache # <<reading.got>>
      <4>1. form' = Seeded(reading.got) /\ filled' = <<reading.got>>
        BY <1>7, <3>3 DEF Land, Sync
      <4> QED
        BY <1>4, <4>1
    <3> QED
      BY <3>1, <3>2, <3>3
  <2> QED
    BY <1>2, <1>4, <1>7, <2>1, <2>2, <2>3 DEF SeedInv, Land
<1>8. CASE BeginEdit
  <2>1. AsFilled'
    BY <1>8, <1>a, <1>b DEF BeginEdit
  <2>2. Syncs' => filled' = cache'
    BY <1>2, <1>8 DEF BeginEdit, Fill, Syncs, SeedInv
  <2>3. filled' # <<>> => filled # <<>> \/ cache # <<>>
    BY <1>8 DEF BeginEdit, Fill
  <2> QED
    BY <1>2, <1>4, <1>8, <2>1, <2>2, <2>3 DEF SeedInv, BeginEdit
<1>9. CASE Revert
  <2>1. AsFilled'
    BY <1>9, <1>b DEF Revert
  <2>2. Syncs' => filled' = cache'
    BY <1>2, <1>3, <1>9 DEF Revert, Fill, Empty, Syncs, FitsTraits, Is
  <2>3. filled' # <<>> => cache # <<>>
    BY <1>9 DEF Revert, Fill, Empty
  <2> QED
    BY <1>2, <1>4, <1>9, <2>1, <2>2, <2>3 DEF SeedInv, Revert
<1>c. CASE EditAnother
  <2>1. AsFilled'
    BY <1>c, <1>b DEF EditAnother
  <2>2. ~Syncs' /\ filled' = <<>>
    BY <1>2, <1>3, <1>c DEF EditAnother, Empty, Syncs, FitsTraits, Is
  <2> QED
    BY <1>2, <1>4, <1>c, <2>1, <2>2 DEF SeedInv, EditAnother
<1>10. ASSUME NEW f \in DOMAIN form, NEW v \in {g[f] : g \in C.forms}, Enter(f, v) PROVE SeedInv'
  <2>1. form' = [form EXCEPT ![f] = v] /\ filled' = filled
    BY <1>10 DEF Enter
  <2>2. AsFilled'
    <3> SUFFICES ASSUME filled # <<>>, NEW g \in (DOMAIN filled[1] \cap DOMAIN form) \ edited'
                 PROVE  form'[g] = Seeded(filled[1])[g]
      BY <1>4, <2>1
    <3>1. CASE g = f
      BY <1>10, <2>1, <3>1 DEF Enter, Differs
    <3>2. CASE g # f
      BY <1>10, <2>1, <3>2 DEF Enter, SeedInv
    <3> QED
      BY <3>1, <3>2
  <2>3. Syncs' = Syncs
    BY <1>2, <1>10 DEF Enter, Syncs
  <2> QED
    BY <1>2, <1>4, <1>10, <2>1, <2>2, <2>3 DEF SeedInv, Enter
<1>11. CASE OpenDialog \/ Dismiss
  <2>1. AsFilled'
    BY <1>11, <1>a DEF OpenDialog, Open, Dismiss
  <2>2. Syncs' = Syncs
    BY <1>2, <1>11 DEF OpenDialog, CanSave, Reachable, Open, Dismiss, Syncs
  <2> QED
    BY <1>2, <1>4, <1>11, <2>1, <2>2 DEF SeedInv, OpenDialog, Open, Dismiss
<1>12. CASE Ack
  <2>1. reading' # Idle => Is("query")
    BY <1>12 DEF Ack, SeedInv
  <2>2. CASE UNCHANGED <<cache, view, form, edited, filled>>
    BY <1>2, <1>4, <1>a, <2>1, <2>2 DEF SeedInv, Syncs
  <2>3. CASE /\ view' = IF Is("opens") THEN "closed" ELSE "edit"
             /\ cache' = IF Is("keeps") THEN request.todo ELSE cache
             /\ IF Is("clears") \/ Is("fresh") THEN Empty ELSE UNCHANGED <<form, edited, filled>>
    <3>1. AsFilled'
      BY <1>a, <1>b, <2>3
    <3>2. Syncs' => filled' = cache'
      BY <1>2, <1>3, <2>3 DEF Syncs, Empty, FitsTraits, Is, SeedInv
    <3>3. cache' # <<>> \/ filled' # <<>> => Reads(C)
      BY <2>3 DEF Empty, SeedInv, Reads, Is
    <3> QED
      BY <1>2, <1>4, <2>1, <3>1, <3>2, <3>3 DEF SeedInv
  <2> QED
    BY <1>12, <2>2, <2>3 DEF Ack
<1> QED
  BY <1>5, <1>6, <1>7, <1>8, <1>9, <1>c, <1>10, <1>11, <1>12
  DEF FormsNext, formVars, Outside, Unheard, Save, Confirm, TypeIp, Apply, Nak

LEMMA AtMostTwo ==
    ASSUME NEW S, NEW todo \in Seq(S), todo # <<>>, Len(todo) <= 2
    PROVE  Len(todo) \in {1, 2}
<1>1. Len(todo) # 0 /\ Len(todo) \in Nat
  OBVIOUS
<1>2. \A n \in Nat : n # 0 /\ n <= 2 => n \in {1, 2}
  OBVIOUS
<1> QED
  BY <1>1, <1>2

\* What is left of the bodies, once the first one is carried out.
LEMMA ResultStep ==
    ASSUME NEW c, NEW todo, todo \in Seq(Range(todo)), Len(todo) \in {1, 2}, NEW s
    PROVE  Result(c, todo, s) = Result(c, Tail(todo), Lays(c, todo[1], s))
<1>1. CASE Len(todo) = 1
  <2>1. Tail(todo) = <<>> /\ todo # <<>>
    BY <1>1, Short
  <2> QED
    BY <1>1, <2>1 DEF Result
<1>2. CASE Len(todo) = 2
  <2>1. todo # <<>> /\ Tail(todo) # <<>> /\ Len(Tail(todo)) = 1 /\ Tail(todo)[1] = todo[2]
    BY <1>2, Short
  <2> QED
    BY <1>2, <2>1 DEF Result
<1> QED
  BY <1>1, <1>2

LEMMA NothingShown == \A s : Agree(<<>>, s)
<1>1. DOMAIN <<>> = {}
  OBVIOUS
<1> QED
  BY <1>1 DEF Agree

LEMMA SendSent ==
    ASSUME Fitting, FormsTypeOK, SeedInv, C' = C, card' = card, server' = server,
           <<form, Known>> \in Pairs(C), Send
    PROVE  SentInv'
<1> DEFINE p == <<form, Known>>
           todo == C.sends[p]
<1>1. Fits(card, C)
  BY CardFits
<1>2. request' = [st    |-> "sent",
                  todo  |-> todo,
                  shown |-> IF Is("query") => cache = <<server>> THEN C.shows[form] ELSE <<>>]
  BY DEF Send
<1>3. todo # <<>> /\ todo \in Seq(Range(todo)) /\ Len(todo) \in {1, 2}
  <2>1. todo # <<>> /\ todo \in Seq(Range(todo)) /\ Len(todo) <= 2
    BY <1>1 DEF Send, Fits, FitsSends
  <2> HIDE DEF todo
  <2> QED
    BY <2>1, AtMostTwo
<1>4. \A i \in DOMAIN todo : \A s \in C.settings : Written(todo[i], s) \in C.settings
  BY <1>1, WrittenLays DEF Fits, FitsSends
<1>5. card \notin {"cos", "user_pri"} => \A i \in DOMAIN todo : Accepted(card, todo[i])
  BY <1>1 DEF Fits, FitsApi
<1>6. Agree(request'.shown, Result(C, todo, server))
  <2>1. CASE Is("query") => cache = <<server>>
    <3>1. server \in C.settings /\ ("query" \in C.is => server = p[2])
      BY <2>1 DEF FormsTypeOK, Known, Is
    <3>2. p[1] = form
      OBVIOUS
    <3>3. Agree(C.shows[form], Result(C, todo, server))
      BY <1>1, <1>3, <3>1, <3>2 DEF Fits, FitsShown
    <3> QED
      BY <1>2, <2>1, <3>3
  <2>2. CASE ~(Is("query") => cache = <<server>>)
    BY <1>2, <2>2, NothingShown
  <2> QED
    BY <2>1, <2>2
<1>7. DOMAIN request' = {"st", "todo", "shown"} /\ request'.todo = todo /\ request'.st = "sent"
  BY <1>2
<1>8. \A body, s : Written(body, s)' = Written(body, s)
  BY DEF Written, Is, C
<1> HIDE DEF todo
<1> QED
  BY <1>3, <1>4, <1>5, <1>6, <1>7, <1>8 DEF SentInv, Ahead

LEMMA SentStep ==
    ASSUME Fitting, FormsTypeOK, SavableInv, SeedInv, SentInv, [FormsNext]_formVars
    PROVE  SentInv'
<1>1. card' = card /\ C' = C
  BY CardStays
<1>2. \A trait : Is(trait)' = Is(trait)
  BY <1>1, SameCard
<1>3. \A body, s : Written(body, s)' = Written(body, s)
  BY <1>1 DEF Written, Is, C
<1> USE DEF historyVars, queryVars, switchVars
<1>4. CASE UNCHANGED <<request, server>>
  BY <1>1, <1>3, <1>4 DEF SentInv, Ahead, Pending
<1>5. ASSUME NEW x, Outside(x) \/ Unheard(x) PROVE SentInv'
  <2>0. Overtaken
    BY <1>5 DEF Outside, Unheard
  <2>1. CASE ~Pending
    BY <2>0, <2>1 DEF Overtaken, SentInv, Pending
  <2>2. CASE Pending
    <3>1. /\ request'.shown = <<>> /\ request'.todo = request.todo
          /\ DOMAIN request' = DOMAIN request
      BY <2>0, <2>2 DEF Overtaken, SentInv
    <3> QED
      BY <1>1, <1>3, <2>2, <3>1, NothingShown DEF SentInv
  <2> QED
    BY <2>1, <2>2
<1>6. CASE Save
  BY <1>1, <1>6, SendSent DEF Save, CanSave, Pairs
<1>7. CASE Confirm
  BY <1>1, <1>7, SendSent DEF Confirm, SavableInv
<1>8. CASE Apply
  <2> DEFINE todo == request.todo
  <2>1. Pending /\ todo \in Seq(Range(todo)) /\ Len(todo) \in {1, 2}
    BY <1>8 DEF Apply, SentInv, Pending
  <2>2. /\ DOMAIN request' = DOMAIN request /\ request'.st = "applied"
        /\ request'.todo = todo /\ request'.shown = request.shown
    BY <1>8, <2>1 DEF Apply, SentInv
  <2>3. server' = Lays(C, todo[1], server)
    BY <1>8, <2>1, Short, WrittenLays DEF Apply
  <2>4. Agree(request.shown, Result(C, todo, server))
    BY <1>8, <2>1 DEF Apply, SentInv, Ahead
  <2>5. Agree(request.shown, Result(C, Tail(todo), server'))
    BY <2>1, <2>3, <2>4, ResultStep
  <2>6. \A i \in DOMAIN todo : \A s \in C.settings : Written(todo[i], s) \in C.settings
    BY <2>1 DEF SentInv
  <2>7. card \notin {"cos", "user_pri"} => \A i \in DOMAIN todo : Accepted(card, todo[i])
    BY <2>1 DEF SentInv
  <2>8. DOMAIN request = {"st", "todo", "shown"}
    BY <2>1 DEF SentInv
  <2>9. Agree(request'.shown, Result(C', Ahead', server'))
    BY <1>1, <2>2, <2>5 DEF Ahead
  <2> HIDE DEF todo
  <2> QED
    BY <1>1, <1>3, <2>1, <2>2, <2>6, <2>7, <2>8, <2>9 DEF SentInv
<1>9. CASE Ack
  <2>1. CASE request' = Idle
    BY <2>1 DEF SentInv, Idle, Pending
  <2>2. CASE Len(request.todo) > 1 /\ request' = [request EXCEPT !.st = "sent", !.todo = Tail(@)]
    <3> DEFINE todo == request.todo
    <3>0. Pending /\ todo \in Seq(Range(todo)) /\ Len(todo) \in {1, 2} /\ Len(todo) > 1
      BY <1>9, <2>2 DEF Ack, SentInv, Pending
    <3>1. Pending /\ todo \in Seq(Range(todo)) /\ Len(todo) = 2 /\ DOMAIN todo = 1..2
      <4> HIDE DEF todo
      <4>1. Len(todo) = 2
        <5>1. \A n \in {1, 2} : n > 1 => n = 2
          OBVIOUS
        <5> QED
          BY <3>0, <5>1
      <4> QED
        BY <3>0, <4>1, Short
    <3>2. /\ DOMAIN request' = DOMAIN request /\ request'.st = "sent"
          /\ request'.todo = Tail(todo) /\ request'.shown = request.shown
      BY <2>2, <3>1 DEF SentInv
    <3>3. Agree(request.shown, Result(C, Tail(todo), server))
      BY <1>9, <3>1 DEF Ack, SentInv, Ahead
    <3>4. /\ Tail(todo) \in Seq(Range(Tail(todo))) /\ Len(Tail(todo)) = 1
          /\ \A i \in DOMAIN Tail(todo) : Tail(todo)[i] = todo[2]
      BY <3>1, Short
    <3>5. server' = server
      BY <1>9 DEF Ack
    <3>6. \A i \in DOMAIN Tail(todo) : \A s \in C.settings : Written(Tail(todo)[i], s) \in C.settings
      BY <3>1, <3>4 DEF SentInv
    <3>7. card \notin {"cos", "user_pri"} =>
             \A i \in DOMAIN Tail(todo) : Accepted(card, Tail(todo)[i])
      BY <3>1, <3>4 DEF SentInv
    <3>8. DOMAIN request = {"st", "todo", "shown"}
      BY <3>1 DEF SentInv
    <3> HIDE DEF todo
    <3> QED
      BY <1>1, <1>3, <3>2, <3>3, <3>4, <3>5, <3>6, <3>7, <3>8 DEF SentInv, Ahead
  <2> QED
    BY <1>9, <2>1, <2>2 DEF Ack
<1>10. CASE EditAnother \/ Nak
  BY <1>10 DEF EditAnother, Nak, SentInv, Idle, Pending
<1> QED
  BY <1>4, <1>5, <1>6, <1>7, <1>8, <1>9, <1>10
  DEF FormsNext, formVars, Ask, Answer, Land, BeginEdit, Revert, Enter, OpenDialog, TypeIp, Dismiss

LEMMA CardInvStep == Fitting /\ CardInv /\ [FormsNext]_formVars => CardInv'
BY CardTypesStep, SavableStep, SeedStep, SentStep DEF CardInv

LEMMA SentLands == SentInv => LandsAsShown
<1> SUFFICES ASSUME SentInv, request.st = "applied", Len(request.todo) = 1
             PROVE  \A f \in DOMAIN request.shown \cap DOMAIN server : server[f] = request.shown[f]
  BY DEF LandsAsShown
<1>1. Pending /\ Ahead = Tail(request.todo)
  BY DEF Pending, Ahead
<1>2. Ahead = <<>>
  BY <1>1, Short DEF SentInv
<1>3. Agree(request.shown, server)
  BY <1>1, <1>2 DEF SentInv, Result
<1> QED
  BY <1>3 DEF Agree

LEMMA SentAccepted == SentInv => SendsAccepted
BY DEF SentInv, SendsAccepted

\* What UntouchedAsCarried says of a step.
SendsAsCarried ==
    ~Pending /\ Pending' /\ filled # <<>> =>
        \A i \in DOMAIN request'.todo : AsCarried(request'.todo[i], filled[1])

LEMMA AsCarriedStep == Fitting /\ CardInv /\ [FormsNext]_formVars => SendsAsCarried
<1> SUFFICES ASSUME Fitting, CardInv, [FormsNext]_formVars, ~Pending, Pending', filled # <<>>,
                    NEW i \in DOMAIN request'.todo
             PROVE  AsCarried(request'.todo[i], filled[1])
  BY DEF SendsAsCarried
<1> USE DEF historyVars, queryVars, switchVars
<1>1. Fits(card, C) /\ Reads(C) /\ filled[1] \in C.settings
  BY CardFits DEF CardInv, SeedInv, FormsTypeOK
<1>2. <<form, Known>> \in Pairs(C) /\ Send
  <2>1. CASE Save
    BY <2>1 DEF Save, CanSave, Pairs
  <2>2. CASE Confirm
    BY <2>2 DEF Confirm, CardInv, SavableInv
  <2> QED
    BY <2>1, <2>2
    DEF FormsNext, formVars, Outside, Unheard, Overtaken, Ask, Answer, Land, BeginEdit,
        EditAnother, Revert, Enter, OpenDialog, TypeIp, Dismiss, Apply, Ack, Nak, Pending, Idle
<1> DEFINE p    == <<form, Known>>
           body == C.sends[p][i]
           r    == filled[1]
<1>3. request'.todo = C.sends[p] /\ i \in DOMAIN C.sends[p]
  BY <1>2 DEF Send
<1> SUFFICES ASSUME NEW f \in (DOMAIN body \cap DOMAIN r) \ edited
             PROVE  \/ body[f] = C.carries[r][f]
                    \/ card = "port" /\ f = "flow" /\ body.mode = "half"
  BY <1>3 DEF AsCarried
<1>4. (f \in DOMAIN form => form[f] = C.seed[r][f]) =>
            \/ body[f] = C.carries[r][f]
            \/ card = "port" /\ f = "flow" /\ body.mode = "half"
  <2>1. p[1] = form
    OBVIOUS
  <2> QED
    BY <1>1, <1>2, <1>3, <2>1 DEF Fits, FitsRead
<1>5. f \in DOMAIN form => form[f] = C.seed[r][f]
  BY DEF CardInv, SeedInv, Seeded
<1> QED
  BY <1>4, <1>5

-----------------------------------------------------------------------------
(***************************************************************************)
(* The cards of the frontend fit.                                          *)
(***************************************************************************)
\* Maps of the fields D, and any field can be put from one into another.
Over(D, F) == \A g \in F : g = [f \in D |-> g[f]]
Mixes(F) == \A g, h \in F : \A f \in DOMAIN g : [g EXCEPT ![f] = h[f]] \in F

\* A card that sends its form.
LEMMA SelfAgrees == \A g : Agree(g, g)
BY DEF Agree

LEMMA ResultOfOne == \A c, a, s : Result(c, <<a>>, s) = Lays(c, a, s)
<1> SUFFICES ASSUME NEW c, NEW a, NEW s PROVE Result(c, <<a>>, s) = Lays(c, a, s)
  OBVIOUS
<1>1. Len(<<a>>) = 1 /\ <<a>>[1] = a /\ <<a>> # <<>>
  BY OneTwo
<1> QED
  BY <1>1 DEF Result

\* What is left to show of a card that sends at most one body at a time.
OneFits(n, c, p, body) ==
    /\ n \notin {"cos", "user_pri"} => Accepted(n, body)
    /\ \A s \in c.settings :
          /\ Lays(c, body, s) \in c.settings
          /\ ("query" \in c.is => s = p[2]) => Agree(c.shows[p[1]], Lays(c, body, s))
    /\ Reads(c) =>
          \A r \in c.settings : \A f \in DOMAIN body \cap DOMAIN r :
             (f \in DOMAIN p[1] => p[1][f] = c.seed[r][f]) =>
                   \/ body[f] = c.carries[r][f]
                   \/ n = "port" /\ f = "flow" /\ body.mode = "half"

LEMMA FitByOne ==
    ASSUME NEW n, NEW c, FitsForms(c), FitsTraits(c),
           \A p \in Pairs(c) :
              \/ c.sends[p] = <<>>
              \/ \E body : c.sends[p] = <<body>> /\ OneFits(n, c, p, body)
    PROVE  Fits(n, c)
<1>1. ASSUME NEW p \in Pairs(c), c.sends[p] # <<>>
      PROVE  /\ c.sends[p] \in Seq(Range(c.sends[p])) /\ Len(c.sends[p]) <= 2
             /\ DOMAIN c.sends[p] = {1} /\ c.sends[p] = <<c.sends[p][1]>>
             /\ OneFits(n, c, p, c.sends[p][1])
  <2>1. PICK body : c.sends[p] = <<body>> /\ OneFits(n, c, p, body)
    BY <1>1
  <2>2. c.sends[p][1] = body
    BY <2>1, OneTwo
  <2> QED
    BY <2>1, <2>2, OneTwo
<1>2. <<>> \in Seq(Range(<<>>)) /\ Len(<<>>) <= 2 /\ DOMAIN <<>> = {}
  OBVIOUS
<1>3. FitsSends(c)
  <2> SUFFICES ASSUME NEW p \in Pairs(c)
               PROVE  /\ c.sends[p] \in Seq(Range(c.sends[p])) /\ Len(c.sends[p]) <= 2
                      /\ \A i \in DOMAIN c.sends[p] : \A s \in c.settings :
                            Lays(c, c.sends[p][i], s) \in c.settings
    BY DEF FitsSends
  <2>1. CASE c.sends[p] = <<>>
    BY <1>2, <2>1
  <2>2. CASE c.sends[p] # <<>>
    <3>1. \A s \in c.settings : Lays(c, c.sends[p][1], s) \in c.settings
      BY <1>1, <2>2 DEF OneFits
    <3>2. /\ c.sends[p] \in Seq(Range(c.sends[p])) /\ Len(c.sends[p]) <= 2
          /\ DOMAIN c.sends[p] = {1}
      BY <1>1, <2>2
    <3> QED
      BY <3>1, <3>2
  <2> QED
    BY <2>1, <2>2
<1>4. FitsShown(c)
  <2> SUFFICES ASSUME NEW p \in Pairs(c), NEW s \in c.settings,
                      "query" \in c.is => s = p[2], c.sends[p] # <<>>
               PROVE  Agree(c.shows[p[1]], Result(c, c.sends[p], s))
    BY DEF FitsShown
  <2>1. PICK body : c.sends[p] = <<body>> /\ OneFits(n, c, p, body)
    OBVIOUS
  <2> QED
    BY <2>1, ResultOfOne DEF OneFits
<1>5. FitsApi(n, c)
  BY <1>1, <1>2 DEF FitsApi, OneFits
<1>6. FitsRead(n, c)
  BY <1>1, <1>2 DEF FitsRead, OneFits
<1> QED
  BY <1>3, <1>4, <1>5, <1>6 DEF Fits

\* A card that sends what it shows.
SendsShown(n, c, D) ==
    \A p \in Pairs(c) :
        /\ p[1] \in c.forms /\ c.shows[p[1]] \in c.settings
        /\ c.sends[p] = <<c.shows[p[1]]>>
        /\ n \notin {"cos", "user_pri"} => Accepted(n, c.shows[p[1]])
        /\ \A r \in c.settings : \A f \in D :
              p[1][f] = c.seed[r][f] => c.shows[p[1]][f] = c.carries[r][f]

LEMMA ShownFits ==
    ASSUME NEW n, NEW c, NEW D, NEW F, NEW S,
           c.forms = F, c.settings = S,
           FitsTraits(c), Over(D, F), Over(D, S), Mixes(F),
           c.blank \in F, c.seed \in [S -> F], SendsShown(n, c, D)
    PROVE  Fits(n, c)
<1>1. FitsForms(c)
  BY DEF FitsForms, Over, Mixes
<1>2. ASSUME NEW p \in Pairs(c)
      PROVE  OneFits(n, c, p, c.shows[p[1]]) /\ c.sends[p] = <<c.shows[p[1]]>>
  <2> DEFINE body == c.shows[p[1]]
  <2>1. /\ p[1] \in F /\ body \in S /\ c.sends[p] = <<body>>
        /\ n \notin {"cos", "user_pri"} => Accepted(n, body)
    BY <1>2 DEF SendsShown
  <2>2. \A r \in S : \A f \in D : p[1][f] = c.seed[r][f] => body[f] = c.carries[r][f]
    BY <1>2 DEF SendsShown
  <2>3. DOMAIN p[1] = D /\ DOMAIN body = D
    BY <2>1 DEF Over
  <2>4. ASSUME NEW s \in S PROVE Lays(c, body, s) = body
    <3>1. DOMAIN s = D /\ DOMAIN body = D /\ body = [f \in D |-> body[f]]
      BY <2>1, <2>4 DEF Over
    <3> HIDE DEF body
    <3> QED
      BY <3>1 DEF Lays
  <2>5. \A s \in c.settings :
           Lays(c, body, s) \in c.settings /\ Agree(c.shows[p[1]], Lays(c, body, s))
    BY <2>1, <2>4, SelfAgrees
  <2> HIDE DEF body
  <2> QED
    BY <2>1, <2>2, <2>3, <2>5 DEF OneFits, body
<1> QED
  BY <1>1, <1>2, FitByOne

\* A card that shows and sends its form.
LEMMA PlainFits ==
    ASSUME NEW n, NEW c, NEW D, NEW F, NEW S,
           c.forms = F, c.settings = S,
           FitsTraits(c), Over(D, F), Over(D, S), Mixes(F),
           c.blank \in F, c.seed \in [S -> F],
           c.carries = c.seed,
           \A p \in Pairs(c) :
              /\ p[1] \in F /\ p[1] \in S
              /\ c.sends[p] = <<p[1]>> /\ c.shows[p[1]] = p[1]
              /\ n \notin {"cos", "user_pri"} => Accepted(n, p[1])
    PROVE  Fits(n, c)
<1>1. SendsShown(n, c, D)
  BY DEF SendsShown
<1> QED
  BY <1>1, ShownFits

\* String.trim, of the texts there are.
LEMMA TrimmedText == \A t \in Padded : Trimmed(t) \in Text /\ (t = "text" => Trimmed(t) = t)
BY DEF Padded, Text, Trimmed

LEMMA SystemFits == Fits("system", SystemInfoCard)
<1> DEFINE F == [name: Padded, location: Kept]
           D == {"name", "location"}
           c == SystemInfoCard
<1>1. /\ c.settings = F /\ c.forms = F /\ c.seed = Verbatim(F)
      /\ c.blank = [name |-> "", location |-> ""]
      /\ c.ready = {p \in Dirty(F \X F) : Trimmed(p[1].name) # ""}
      /\ c.sends = [p \in F \X F |-> <<TrimName(p[1])>>]
      /\ c.shows = [f \in F |-> TrimName(f)]
      /\ c.carries = [s \in F |-> TrimName(s)]
      /\ c.is = {"query", "needs", "reseeds", "reverts"}
  BY DEF SystemInfoCard, Editor
<1> HIDE DEF c
<1>2. Over(D, F) /\ Mixes(F)
  BY DEF Over, Mixes
<1>3. c.blank \in F
  BY <1>1 DEF Padded, Text, Kept
<1>4. FitsTraits(c)
  BY <1>1 DEF FitsTraits
<1>5. c.seed \in [F -> F]
  BY <1>1 DEF Verbatim
<1>6. ASSUME NEW g \in F
      PROVE  /\ TrimName(g) \in F
             /\ \A r \in F : \A f \in D : g[f] = r[f] => TrimName(g)[f] = TrimName(r)[f]
             /\ Trimmed(g.name) # "" => Accepted("system", TrimName(g))
  <2>1. ASSUME NEW r \in F
        PROVE  /\ DOMAIN TrimName(r) = D
               /\ TrimName(r) = [name |-> Trimmed(r.name), location |-> r.location]
    <3> DEFINE t == Trimmed(r.name)
    <3>1. TrimName(r) = [r EXCEPT !.name = t]
      BY DEF TrimName
    <3> HIDE DEF t
    <3>2. [r EXCEPT !.name = t] = [name |-> t, location |-> r.location]
      OBVIOUS
    <3> QED
      BY <3>1, <3>2 DEF t
  <2>2. TrimName(g) \in F
    <3>1. Trimmed(g.name) \in Padded /\ g.location \in Kept
      BY TrimmedText DEF Padded
    <3> DEFINE t == Trimmed(g.name)
    <3>2. TrimName(g) = [name |-> t, location |-> g.location] /\ t \in Padded
      BY <2>1, <3>1
    <3> HIDE DEF t
    <3> QED
      BY <3>1, <3>2
  <2>3. ASSUME NEW r \in F, NEW f \in D, g[f] = r[f] PROVE TrimName(g)[f] = TrimName(r)[f]
    <3> DEFINE t(x) == Trimmed(x)
    <3>1. /\ TrimName(r) = [name |-> t(r.name), location |-> r.location]
          /\ TrimName(g) = [name |-> t(g.name), location |-> g.location]
      BY <2>1
    <3> HIDE DEF t
    <3>2. CASE f = "name"
      <4>1. g.name = r.name
        BY <2>3, <3>2
      <4> QED
        BY <3>1, <3>2, <4>1
    <3>3. CASE f = "location"
      BY <2>3, <3>1, <3>3
    <3> QED
      BY <3>2, <3>3
  <2>4. Trimmed(g.name) # "" => Accepted("system", TrimName(g))
    <3> DEFINE t == Trimmed(g.name)
    <3>1. TrimName(g).name = t
      BY <2>1
    <3> HIDE DEF t, F, D
    <3>2. t # "" => Accepted("system", TrimName(g))
      BY <3>1
      DEF Accepted, AcceptedNetwork, AcceptedMonitor, AcceptedPort, AcceptedQos, AcceptedVlan
    <3> QED
      BY <3>2 DEF t
  <2> QED
    BY <2>2, <2>3, <2>4
<1> HIDE DEF F, D
<1>7. \A p \in Pairs(c) : p \in F \X F /\ Trimmed(p[1].name) # ""
  BY <1>1 DEF Pairs, Dirty
<1>a. c.forms = F /\ c.settings = F
  BY <1>1
<1>8. SendsShown("system", c, D)
  <2> SUFFICES ASSUME NEW p \in Pairs(c)
               PROVE  /\ p[1] \in F /\ c.shows[p[1]] \in F
                      /\ c.sends[p] = <<c.shows[p[1]]>>
                      /\ Accepted("system", c.shows[p[1]])
                      /\ \A r \in F : \A f \in D :
                            p[1][f] = c.seed[r][f] => c.shows[p[1]][f] = c.carries[r][f]
    BY <1>a DEF SendsShown
  <2> DEFINE g == p[1]
  <2>1. /\ g \in F /\ c.shows[g] = TrimName(g) /\ c.sends[p] = <<c.shows[g]>>
        /\ Trimmed(g.name) # ""
    BY <1>1, <1>7
  <2>2. \A r \in F : c.seed[r] = r /\ c.carries[r] = TrimName(r)
    BY <1>1 DEF Verbatim
  <2> HIDE DEF g
  <2>3. /\ TrimName(g) \in F /\ Accepted("system", TrimName(g))
        /\ \A r \in F : \A f \in D : g[f] = r[f] => TrimName(g)[f] = TrimName(r)[f]
    BY <1>6, <2>1
  <2>4. ASSUME NEW r \in F, NEW f \in D, g[f] = c.seed[r][f]
        PROVE  c.shows[g][f] = c.carries[r][f]
    <3>1. c.seed[r] = r /\ c.carries[r] = TrimName(r)
      BY <2>2
    <3>2. g[f] = r[f]
      BY <2>4, <3>1
    <3>3. TrimName(g)[f] = TrimName(r)[f]
      BY <2>3, <3>2
    <3> QED
      BY <2>1, <3>1, <3>3
  <2> QED
    BY <2>1, <2>3, <2>4 DEF g
<1>9. Fits("system", c)
  BY <1>1, <1>2, <1>3, <1>4, <1>5, <1>8, ShownFits
<1> QED
  BY <1>9 DEF c

LEMMA FaultFits == Fits("fault", FaultDetectionCard)
<1> DEFINE F == [sensitivity: {"never", "medium", "high"}]
           D == {"sensitivity"}
           c == FaultDetectionCard
<1>1. /\ c.settings = F /\ c.forms = F /\ c.seed = Verbatim(F)
      /\ c.blank = [sensitivity |-> "medium"]
      /\ c.ready = Dirty(F \X F)
      /\ c.sends = [p \in F \X F |-> <<p[1]>>]
      /\ c.shows = [f \in F |-> f] /\ c.carries = c.seed
      /\ c.is = {"query", "needs", "reseeds", "reverts"}
  BY DEF FaultDetectionCard, Editor, Verbatim
<1> HIDE DEF c
<1>2. Over(D, F) /\ Mixes(F)
  BY DEF Over, Mixes
<1>3. c.blank \in F
  BY <1>1
<1>4. FitsTraits(c)
  BY <1>1 DEF FitsTraits
<1> HIDE DEF F, D
<1>5. c.seed \in [F -> F]
  BY <1>1 DEF Verbatim
<1>6. ASSUME NEW p \in Pairs(c)
      PROVE  /\ p[1] \in F
             /\ c.sends[p] = <<p[1]>> /\ c.shows[p[1]] = p[1]
             /\ Accepted("fault", p[1])
  BY <1>1
  DEF Pairs, Dirty, Accepted, AcceptedNetwork, AcceptedMonitor, AcceptedPort, AcceptedQos,
      AcceptedVlan
<1>7. Fits("fault", c)
  BY <1>1, <1>2, <1>3, <1>4, <1>5, <1>6, PlainFits
<1> QED
  BY <1>7 DEF c

LEMMA SupportFits == Fits("support", SupportPageCard)
<1> DEFINE F == [support_url: Text, mgmt_url: Text]
           D == {"support_url", "mgmt_url"}
           c == SupportPageCard
<1>1. /\ c.settings = F /\ c.forms = F /\ c.seed = Verbatim(F)
      /\ c.blank = [support_url |-> "", mgmt_url |-> ""]
      /\ c.ready = {p \in Dirty(F \X F) : p[1].support_url # "" /\ p[1].mgmt_url # ""}
      /\ c.sends = [p \in F \X F |-> <<p[1]>>]
      /\ c.shows = [f \in F |-> f] /\ c.carries = c.seed
      /\ c.is = {"query", "needs", "reseeds", "reverts"}
  BY DEF SupportPageCard, Editor, Verbatim
<1> HIDE DEF c
<1>2. Over(D, F) /\ Mixes(F)
  BY DEF Over, Mixes
<1>3. c.blank \in F
  BY <1>1 DEF Text
<1>4. FitsTraits(c)
  BY <1>1 DEF FitsTraits
<1> HIDE DEF F, D
<1>5. c.seed \in [F -> F]
  BY <1>1 DEF Verbatim
<1>6. ASSUME NEW p \in Pairs(c)
      PROVE  /\ p[1] \in F
             /\ c.sends[p] = <<p[1]>> /\ c.shows[p[1]] = p[1]
             /\ Accepted("support", p[1])
  BY <1>1
  DEF Pairs, Dirty, Accepted, AcceptedNetwork, AcceptedMonitor, AcceptedPort, AcceptedQos,
      AcceptedVlan
<1>7. Fits("support", c)
  BY <1>1, <1>2, <1>3, <1>4, <1>5, <1>6, PlainFits
<1> QED
  BY <1>7 DEF c

LEMMA QosModeFits == Fits("qos_mode", QosModeSelector)
<1> DEFINE F == [mode: {"1", "2", "3"}]
           D == {"mode"}
           c == QosModeSelector
<1>1. /\ c.settings = F /\ c.forms = F /\ c.seed = Verbatim(F)
      /\ c.blank = [mode |-> "2"]
      /\ c.ready = Dirty(F \X F)
      /\ c.sends = [p \in F \X F |-> <<p[1]>>]
      /\ c.shows = [f \in F |-> f] /\ c.carries = c.seed
      /\ c.is = {"keeps", "reverts"}
  BY DEF QosModeSelector, Editor, Verbatim
<1> HIDE DEF c
<1>2. Over(D, F) /\ Mixes(F)
  BY DEF Over, Mixes
<1>3. c.blank \in F
  BY <1>1
<1>4. FitsTraits(c)
  BY <1>1 DEF FitsTraits
<1> HIDE DEF F, D
<1>5. c.seed \in [F -> F]
  BY <1>1 DEF Verbatim
<1>6. ASSUME NEW p \in Pairs(c)
      PROVE  /\ p[1] \in F
             /\ c.sends[p] = <<p[1]>> /\ c.shows[p[1]] = p[1]
             /\ Accepted("qos_mode", p[1])
  BY <1>1
  DEF Pairs, Dirty, Accepted, AcceptedNetwork, AcceptedMonitor, AcceptedPort, AcceptedQos,
      AcceptedVlan
<1>7. Fits("qos_mode", c)
  BY <1>1, <1>2, <1>3, <1>4, <1>5, <1>6, PlainFits
<1> QED
  BY <1>7 DEF c

LEMMA WebFits == Fits("web", WebAccessCard)
<1> DEFINE F == [ssl: OnOff, port: {"443", "8443"}]
           S == [ssl: OnOff, port: {"443", "8443"}, cert: {"create", "installed"}]
           Body(x) == [ssl |-> x.ssl, port |-> x.port, cert |-> "installed"]
           c == WebAccessCard
<1>1. /\ c.settings = S /\ c.forms = F
      /\ c.seed = [s \in S |-> [ssl |-> s.ssl, port |-> s.port]]
      /\ c.blank = [ssl |-> "off", port |-> "443"]
      /\ c.ready = F \X (S \cup {c.blank})
      /\ c.sends = [p \in F \X (S \cup {c.blank}) |-> <<Body(p[1])>>]
      /\ c.shows = [f \in F |-> f]
      /\ c.carries = [s \in S |-> [s EXCEPT !.cert = "installed"]]
      /\ c.is = {"query", "reseeds", "danger"}
  BY DEF WebAccessCard, Editor
<1> HIDE DEF c
<1>2. FitsTraits(c)
  BY <1>1 DEF FitsTraits
<1>3. FitsForms(c)
  <2>1. [ssl |-> "off", port |-> "443"] \in F
    BY DEF OnOff
  <2>2. \A g, h \in F : DOMAIN g = DOMAIN h
    OBVIOUS
  <2>3. \A g, h \in F : \A f \in DOMAIN g : [g EXCEPT ![f] = h[f]] \in F
    OBVIOUS
  <2>4. c.seed \in [S -> F]
    BY <1>1
  <2> HIDE DEF F, S
  <2> QED
    BY <1>1, <2>1, <2>2, <2>3, <2>4 DEF FitsForms
<1>4. ASSUME NEW p \in Pairs(c)
      PROVE  \E body : c.sends[p] = <<body>> /\ OneFits("web", c, p, body)
  <2> DEFINE g    == p[1]
             body == Body(g)
  <2>1. p \in F \X (S \cup {c.blank}) /\ g \in F
    BY <1>1 DEF Pairs
  <2>2. c.sends[p] = <<body>> /\ c.shows[g] = g
    BY <1>1, <2>1
  <2>3. \A s \in S : Lays(c, body, s) = body
    BY <1>1 DEF Lays
  <2>4. body \in S /\ Agree(g, body)
    BY <2>1 DEF Agree
  <2>5. \A r \in S : \A f \in DOMAIN body \cap DOMAIN r :
           (f \in DOMAIN g => g[f] = c.seed[r][f]) => body[f] = c.carries[r][f]
    <3>1. DOMAIN body = {"ssl", "port", "cert"} /\ DOMAIN g = {"ssl", "port"}
      BY <2>1
    <3>2. body.ssl = g.ssl /\ body.port = g.port /\ body.cert = "installed"
      OBVIOUS
    <3> SUFFICES ASSUME NEW r \in S, NEW f \in DOMAIN body, f \in DOMAIN g => g[f] = c.seed[r][f]
                 PROVE  body[f] = c.carries[r][f]
      OBVIOUS
    <3>3. c.seed[r].ssl = r.ssl /\ c.seed[r].port = r.port
      BY <1>1
    <3>4. /\ c.carries[r].ssl = r.ssl /\ c.carries[r].port = r.port
          /\ c.carries[r].cert = "installed"
      BY <1>1
    <3> HIDE DEF Body, body, S, F, g
    <3>5. CASE f = "ssl"
      BY <3>1, <3>2, <3>3, <3>4, <3>5
    <3>6. CASE f = "port"
      BY <3>1, <3>2, <3>3, <3>4, <3>6
    <3>7. CASE f = "cert"
      BY <3>2, <3>4, <3>7
    <3> QED
      BY <3>1, <3>5, <3>6, <3>7
  <2>6. Accepted("web", body)
    BY DEF Accepted, AcceptedNetwork, AcceptedMonitor, AcceptedPort, AcceptedQos, AcceptedVlan
  <2> HIDE DEF F, S, Body, g
  <2>7. \A s \in c.settings : Lays(c, body, s) \in c.settings /\ Agree(c.shows[g], Lays(c, body, s))
    BY <1>1, <2>2, <2>3, <2>4
  <2>8. \A r \in c.settings : \A f \in DOMAIN body \cap DOMAIN r :
           (f \in DOMAIN g => g[f] = c.seed[r][f]) => body[f] = c.carries[r][f]
    BY <1>1, <2>5
  <2>9. OneFits("web", c, p, body)
    BY <2>6, <2>7, <2>8 DEF OneFits, g
  <2> QED
    BY <2>2, <2>9
<1>5. Fits("web", c)
  BY <1>2, <1>3, <1>4, FitByOne
<1> QED
  BY <1>5 DEF c

LEMMA PerPortFits == Fits("perport", PerPortSecurityCard)
<1> DEFINE F == [mode: {"continuous", "static"}, limit: {"1", "8"}]
           S == F \cup [mode: {"limited"}, limit: {"0"}]
           D == {"mode", "limit"}
           c == PerPortSecurityCard
<1>1. /\ c.settings = S /\ c.forms = F /\ c.seed = [s \in S |-> Resolved(s)]
      /\ c.blank = [mode |-> "continuous", limit |-> "1"]
      /\ c.ready = F \X S
      /\ c.sends = [p \in F \X S |-> <<p[1]>>]
      /\ c.shows = [f \in F |-> f] /\ c.carries = c.seed
      /\ c.is = {"query", "needs", "reverts", "opens", "fresh", "forgets"}
  BY DEF PerPortSecurityCard, RowEditor, Editor
<1> HIDE DEF c
<1>2. Over(D, F) /\ Over(D, S) /\ Mixes(F)
  BY DEF Over, Mixes
<1>3. c.blank \in F
  BY <1>1
<1>4. FitsTraits(c)
  BY <1>1 DEF FitsTraits
<1>5. c.seed \in [S -> F]
  BY <1>1 DEF Resolved
<1>6. \A p \in Pairs(c) : p \in F \X S /\ p[1] \in S
  BY <1>1 DEF Pairs
<1> HIDE DEF F, D, S
<1>7. ASSUME NEW p \in Pairs(c)
      PROVE  /\ p[1] \in F /\ p[1] \in S
             /\ c.sends[p] = <<p[1]>> /\ c.shows[p[1]] = p[1]
             /\ Accepted("perport", p[1])
  BY <1>1, <1>6
  DEF Accepted, AcceptedNetwork, AcceptedMonitor, AcceptedPort, AcceptedQos, AcceptedVlan
<1>8. Fits("perport", c)
  BY <1>1, <1>2, <1>3, <1>4, <1>5, <1>7, PlainFits
<1> QED
  BY <1>8 DEF c

LEMMA DiffservFits == Fits("diffserv", DiffservCard)
<1> DEFINE F == [policy: {"same", "other"}]
           D == {"policy"}
           c == DiffservCard
<1>1. /\ c.settings = F /\ c.forms = F /\ c.seed = [s \in F |-> [policy |-> "same"]]
      /\ c.blank = [policy |-> "same"]
      /\ c.ready = F \X F
      /\ c.sends = [p \in F \X F |-> <<p[1]>>]
      /\ c.shows = [f \in F |-> f] /\ c.carries = c.seed
      /\ c.is = {"query", "needs", "reverts", "opens", "fresh"}
  BY DEF DiffservCard, RowEditor, Editor
<1> HIDE DEF c
<1>2. Over(D, F) /\ Mixes(F)
  BY DEF Over, Mixes
<1>3. c.blank \in F
  BY <1>1
<1>4. FitsTraits(c)
  BY <1>1 DEF FitsTraits
<1>5. c.seed \in [F -> F]
  BY <1>1
<1>6. \A p \in Pairs(c) : p \in F \X F
  BY <1>1 DEF Pairs, Dirty
<1> HIDE DEF F, D
<1>7. ASSUME NEW p \in Pairs(c)
      PROVE  /\ p[1] \in F
             /\ c.sends[p] = <<p[1]>> /\ c.shows[p[1]] = p[1]
             /\ Accepted("diffserv", p[1])
  BY <1>1, <1>6
  DEF Accepted, AcceptedNetwork, AcceptedMonitor, AcceptedPort, AcceptedQos, AcceptedVlan
<1>8. Fits("diffserv", c)
  BY <1>1, <1>2, <1>3, <1>4, <1>5, <1>7, PlainFits
<1> QED
  BY <1>8 DEF c

LEMMA IpFits == Fits("ip", IpConfigCard)
<1> DEFINE F == [vlan_id: {"1", "2"}, mode: {"manual", "dhcp"}, gateway: Padded]
           D == {"vlan_id", "mode", "gateway"}
           S == {s \in F : s.gateway = "text"}
           TrimGateway(f) == [f EXCEPT !.gateway = Trimmed(@)]
           c == IpConfigCard
<1>1. /\ c.settings = S /\ c.forms = F /\ c.seed = Verbatim(S)
      /\ c.blank = [vlan_id |-> "1", mode |-> "manual", gateway |-> ""]
      /\ c.ready = {p \in F \X S : Trimmed(p[1].gateway) # ""}
      /\ c.sends = [p \in F \X S |-> <<TrimGateway(p[1])>>]
      /\ c.shows = [f \in F |-> TrimGateway(f)]
      /\ c.carries = [s \in S |-> s]
      /\ c.is = {"query", "needs", "reseeds", "reverts", "opens", "danger"}
  BY DEF IpConfigCard, Editor
<1> HIDE DEF c
<1>2. Over(D, F) /\ Over(D, S) /\ Mixes(F)
  BY DEF Over, Mixes
<1>3. c.blank \in F
  <2>1. [vlan_id |-> "1", mode |-> "manual", gateway |-> ""] \in F
    BY DEF Padded, Text
  <2> QED
    BY <1>1, <2>1
<1>4. FitsTraits(c)
  BY <1>1 DEF FitsTraits
<1>5. c.seed \in [S -> F]
  BY <1>1 DEF Verbatim
<1>6. ASSUME NEW g \in F, Trimmed(g.gateway) # ""
      PROVE  /\ TrimGateway(g) \in S /\ Accepted("ip", TrimGateway(g))
             /\ \A r \in S : \A f \in D : g[f] = r[f] => TrimGateway(g)[f] = r[f]
  <2>1. TrimGateway(g) = [vlan_id |-> g.vlan_id, mode |-> g.mode, gateway |-> "text"]
    <3> DEFINE t == Trimmed(g.gateway)
    <3>1. t = "text"
      BY <1>6, TrimmedText DEF Text
    <3> HIDE DEF t
    <3>2. [g EXCEPT !.gateway = t] = [vlan_id |-> g.vlan_id, mode |-> g.mode, gateway |-> t]
      OBVIOUS
    <3> QED
      BY <3>1, <3>2 DEF t
  <2>2. TrimGateway(g) \in S
    BY <2>1 DEF Padded, Text
  <2>3. \A r \in S : \A f \in D : g[f] = r[f] => TrimGateway(g)[f] = r[f]
    BY <2>1
  <2>4. Accepted("ip", TrimGateway(g))
    BY <2>1
    DEF Accepted, AcceptedNetwork, AcceptedMonitor, AcceptedPort, AcceptedQos, AcceptedVlan
  <2> QED
    BY <2>2, <2>3, <2>4
<1>7. \A p \in Pairs(c) : p \in F \X S /\ Trimmed(p[1].gateway) # ""
  <2>1. \A s \in S : s \in F /\ Trimmed(s.gateway) # "" /\ c.seed[s] = s
    BY <1>1 DEF Trimmed, Verbatim
  <2> HIDE DEF F, S
  <2> QED
    BY <1>1, <2>1 DEF Pairs
<1> HIDE DEF F, D, S, TrimGateway
<1>8. SendsShown("ip", c, D)
  <2> SUFFICES ASSUME NEW p \in Pairs(c)
               PROVE  /\ p[1] \in F /\ c.shows[p[1]] \in S
                      /\ c.sends[p] = <<c.shows[p[1]]>>
                      /\ Accepted("ip", c.shows[p[1]])
                      /\ \A r \in S : \A f \in D :
                            p[1][f] = c.seed[r][f] => c.shows[p[1]][f] = c.carries[r][f]
    BY <1>1 DEF SendsShown
  <2> DEFINE g == p[1]
  <2>1. g \in F /\ Trimmed(g.gateway) # ""
    BY <1>7
  <2>2. c.shows[g] = TrimGateway(g) /\ c.sends[p] = <<c.shows[g]>>
    <3>1. /\ c.sends = [q \in F \X S |-> <<TrimGateway(q[1])>>]
          /\ c.shows = [f \in F |-> TrimGateway(f)]
      BY <1>1
    <3>2. p \in F \X S
      BY <1>7
    <3> QED
      BY <3>1, <3>2
  <2>3. \A r \in S : c.seed[r] = r /\ c.carries[r] = r
    BY <1>1 DEF Verbatim
  <2> HIDE DEF g
  <2>4. /\ TrimGateway(g) \in S /\ Accepted("ip", TrimGateway(g))
        /\ \A r \in S : \A f \in D : g[f] = r[f] => TrimGateway(g)[f] = r[f]
    BY <1>6, <2>1
  <2>5. \A r \in S : \A f \in D : g[f] = c.seed[r][f] => c.shows[g][f] = c.carries[r][f]
    BY <2>2, <2>3, <2>4
  <2> QED
    BY <2>1, <2>2, <2>4, <2>5 DEF g
<1>9. Fits("ip", c)
  BY <1>1, <1>2, <1>3, <1>4, <1>5, <1>8, ShownFits
<1> QED
  BY <1>9 DEF c

LEMMA FeaturesFits == Fits("features", DeviceFeaturesCard)
<1> DEFINE F == [igmp: OnOff, spanning_tree: OnOff]
           D == {"igmp", "spanning_tree"}
           S == [igmp: OnOff \cup {"none"}, spanning_tree: OnOff]
           c == DeviceFeaturesCard
<1>1. /\ c.settings = S /\ c.forms = F /\ c.seed = [s \in S |-> OffIfNone(s)]
      /\ c.blank = [igmp |-> "off", spanning_tree |-> "off"]
      /\ c.ready = {p \in F \X S : p[1] # OffIfNone(p[2])}
      /\ c.sends = [p \in F \X S |-> <<p[1]>>]
      /\ c.shows = [f \in F |-> f] /\ c.carries = c.seed
      /\ c.is = {"query", "needs", "reseeds", "reverts"}
  BY DEF DeviceFeaturesCard, Editor
<1> HIDE DEF c
<1>2. Over(D, F) /\ Over(D, S) /\ Mixes(F)
  BY DEF Over, Mixes
<1>3. c.blank \in F
  BY <1>1 DEF OnOff
<1>4. FitsTraits(c)
  BY <1>1 DEF FitsTraits
<1>5. c.seed \in [S -> F]
  BY <1>1 DEF OffIfNone, OnOff
<1>6. \A p \in Pairs(c) : p \in F \X S /\ p[1] \in S
  BY <1>1 DEF Pairs, Dirty
<1> HIDE DEF F, D, S
<1>7. ASSUME NEW p \in Pairs(c)
      PROVE  /\ p[1] \in F /\ p[1] \in S
             /\ c.sends[p] = <<p[1]>> /\ c.shows[p[1]] = p[1]
             /\ Accepted("features", p[1])
  BY <1>1, <1>6
  DEF Accepted, AcceptedNetwork, AcceptedMonitor, AcceptedPort, AcceptedQos, AcceptedVlan
<1>8. Fits("features", c)
  BY ZenonT(40), <1>1, <1>2, <1>3, <1>4, <1>5, <1>7, PlainFits
<1> QED
  BY <1>8 DEF c

\* A form of the page itself, of which nothing is read.
SendsLocally(n, c, sent) ==
    /\ \A f \in c.forms : sent[f] \in c.settings
    /\ \A p \in Pairs(c) :
          /\ p[1] \in c.forms
          /\ c.sends[p] = <<sent[p[1]]>> /\ c.shows[p[1]] = sent[p[1]]
          /\ n \notin {"cos", "user_pri"} => Accepted(n, sent[p[1]])

LEMMA LocalFits ==
    ASSUME NEW n, NEW c, NEW D, NEW F, NEW sent, c.forms = F, SendsLocally(n, c, sent),
           c.is \cap {"query", "keeps", "reseeds", "fresh", "forgets"} = {},
           Over(D, F), Mixes(F), c.blank \in F
    PROVE  Fits(n, c)
<1> USE DEF SendsLocally
<1>1. FitsForms(c) /\ FitsTraits(c) /\ ~Reads(c)
  BY DEF FitsForms, FitsTraits, Reads, Over, Mixes
<1>2. ASSUME NEW p \in Pairs(c)
      PROVE  OneFits(n, c, p, sent[p[1]]) /\ c.sends[p] = <<sent[p[1]]>>
  <2>1. \A s : Lays(c, sent[p[1]], s) = sent[p[1]]
    BY DEF Lays
  <2>2. sent[p[1]] \in c.settings
    BY <1>2
  <2> QED
    BY <1>1, <1>2, <2>1, <2>2, SelfAgrees DEF OneFits
<1> QED
  BY <1>1, <1>2, FitByOne

LEMMA CosFits == Fits("cos", CosTableCard)
<1> DEFINE F == [app: {"user", "known"}, port: Text, policy: Policies, dscp: Text]
           D == {"app", "port", "policy", "dscp"}
           sent == [f \in F |-> Restrict(f, {"app"} \cup PolicyFields(f) \cup
                        (IF f.app = "user" /\ f.port # "" THEN {"port"} ELSE {}))]
           c == CosTableCard
<1>1. /\ c.settings = {sent[f] : f \in F} /\ c.forms = F
      /\ c.blank = [app |-> "user", port |-> "", policy |-> "no override", dscp |-> ""]
      /\ c.ready = F \X {c.blank}
      /\ c.sends = [p \in F \X {c.blank} |-> <<sent[p[1]]>>]
      /\ c.shows = [f \in F |-> sent[f]]
      /\ c.is = {}
  BY DEF CosTableCard, Local
<1> HIDE DEF c
<1>2. Over(D, F) /\ Mixes(F)
  BY DEF Over, Mixes
<1>3. c.blank \in F
  <2>1. [app |-> "user", port |-> "", policy |-> "no override", dscp |-> ""] \in F
    BY DEF Text, Policies
  <2> QED
    BY <1>1, <2>1
<1> HIDE DEF F, D, sent
<1>5. SendsLocally("cos", c, sent)
  BY <1>1 DEF SendsLocally, Pairs
<1>6. c.is \cap {"query", "keeps", "reseeds", "fresh", "forgets"} = {}
  BY <1>1
<1>7. Fits("cos", c)
  BY <1>1, <1>2, <1>3, <1>5, <1>6, LocalFits
<1> QED
  BY <1>7 DEF c

LEMMA UserPriFits == Fits("user_pri", UserPriCard)
<1> DEFINE F == [address: Text, policy: Policies, dscp: Text]
           D == {"address", "policy", "dscp"}
           sent == [f \in F |-> Restrict(f, {"address"} \cup PolicyFields(f))]
           c == UserPriCard
<1>1. /\ c.settings = {sent[f] : f \in F} /\ c.forms = F
      /\ c.blank = [address |-> "", policy |-> "no override", dscp |-> ""]
      /\ c.ready = {p \in F \X {c.blank} : p[1].address # ""}
      /\ c.sends = [p \in F \X {c.blank} |-> <<sent[p[1]]>>]
      /\ c.shows = [f \in F |-> sent[f]]
      /\ c.is = {}
  BY DEF UserPriCard, Local
<1> HIDE DEF c
<1>2. Over(D, F) /\ Mixes(F)
  BY DEF Over, Mixes
<1>3. c.blank \in F
  BY <1>1 DEF Text, Policies
<1> HIDE DEF F, D, sent
<1>5. SendsLocally("user_pri", c, sent)
  BY <1>1 DEF SendsLocally, Pairs
<1>6. c.is \cap {"query", "keeps", "reseeds", "fresh", "forgets"} = {}
  BY <1>1
<1>7. Fits("user_pri", c)
  BY <1>1, <1>2, <1>3, <1>5, <1>6, LocalFits
<1> QED
  BY <1>7 DEF c

LEMMA VlanPriFits == Fits("vlan_pri", VlanPriCard)
<1> DEFINE F == [vlan_id: Text, mode: {"dscp", "priority"}, value: Text]
           D == {"vlan_id", "mode", "value"}
           sent == [f \in F |-> [vlan_id  |-> f.vlan_id,
                            dscp     |-> IF f.mode = "dscp" THEN f.value ELSE "255",
                            priority |-> IF f.mode = "priority" THEN f.value ELSE "255"]]
           c == VlanPriCard
<1>1. /\ c.settings = {sent[f] : f \in F} /\ c.forms = F
      /\ c.blank = [vlan_id |-> "", mode |-> "dscp", value |-> ""]
      /\ c.ready = {p \in F \X {c.blank} : p[1].vlan_id # "" /\ p[1].value # ""}
      /\ c.sends = [p \in F \X {c.blank} |-> <<sent[p[1]]>>]
      /\ c.shows = [f \in F |-> sent[f]]
      /\ c.is = {}
  BY DEF VlanPriCard, Local
<1> HIDE DEF c
<1>2. Over(D, F) /\ Mixes(F)
  BY DEF Over, Mixes
<1>3. c.blank \in F
  BY ZenonT(40), <1>1 DEF Text
<1>4. \A f \in F : Accepted("vlan_pri", sent[f])
  BY DEF Accepted, AcceptedNetwork, AcceptedMonitor, AcceptedPort, AcceptedQos, AcceptedVlan
<1> HIDE DEF F, D, sent
<1>5. SendsLocally("vlan_pri", c, sent)
  BY <1>1, <1>4 DEF SendsLocally, Pairs
<1>6. c.is \cap {"query", "keeps", "reseeds", "fresh", "forgets"} = {}
  BY <1>1
<1>7. Fits("vlan_pri", c)
  BY <1>1, <1>2, <1>3, <1>4, <1>5, <1>6, LocalFits
<1> QED
  BY <1>7 DEF c

LEMMA PasswordFits == Fits("password", DevicePasswordsCard)
<1> DEFINE F == [manager: Account, operator: Account]
           D == {"manager", "operator"}
           sent == [f \in F |-> [a \in DOMAIN f |-> Restrict(f[a], {"username", "password"})]]
           c == DevicePasswordsCard
<1>1. /\ c.settings = {sent[f] : f \in F} /\ c.forms = F
      /\ c.blank = [manager |-> NoAccount, operator |-> NoAccount]
      /\ c.ready = {p \in F \X {c.blank} :
                      /\ Confirmed(p[1].manager) /\ Confirmed(p[1].operator)
                      /\ p[1].manager.username # "" /\ p[1].manager.password # ""
                      /\ p[1].operator.username # "" => p[1].operator.password # ""}
      /\ c.sends = [p \in F \X {c.blank} |-> <<sent[p[1]]>>]
      /\ c.shows = [f \in F |-> sent[f]]
      /\ c.is = {"danger", "clears", "reverts"}
  BY DEF DevicePasswordsCard, Local
<1> HIDE DEF c
<1>2. Over(D, F) /\ Mixes(F)
  BY DEF Over, Mixes
<1>3. c.blank \in F
  <2>1. [manager |-> NoAccount, operator |-> NoAccount] \in F
    BY DEF Account, NoAccount, Text
  <2> QED
    BY <1>1, <2>1
<1>4. \A f \in F : Accepted("password", sent[f])
  BY DEF Accepted, AcceptedNetwork, AcceptedMonitor, AcceptedPort, AcceptedQos, AcceptedVlan
<1> HIDE DEF F, D, sent
<1>5. SendsLocally("password", c, sent)
  BY <1>1, <1>4 DEF SendsLocally, Pairs
<1>6. c.is \cap {"query", "keeps", "reseeds", "fresh", "forgets"} = {}
  BY <1>1
<1>7. Fits("password", c)
  BY <1>1, <1>2, <1>3, <1>4, <1>5, <1>6, LocalFits
<1> QED
  BY <1>7 DEF c

LEMMA ResetFits == Fits("reset", DeviceResetCard)
<1> DEFINE F == [action: {"reset"}]
           D == {"action"}
           sent == Verbatim(F)
           c == DeviceResetCard
<1>1. /\ c.settings = {sent[f] : f \in F} /\ c.forms = F
      /\ c.blank = [action |-> "reset"]
      /\ c.ready = F \X {c.blank}
      /\ c.sends = [p \in F \X {c.blank} |-> <<sent[p[1]]>>]
      /\ c.shows = [f \in F |-> sent[f]]
      /\ c.is = {"danger"}
  BY DEF DeviceResetCard, Local, Verbatim
<1> HIDE DEF c
<1>2. Over(D, F) /\ Mixes(F)
  BY DEF Over, Mixes
<1>3. c.blank \in F
  BY <1>1
<1>4. \A f \in F : Accepted("reset", sent[f])
  BY DEF Accepted, AcceptedNetwork, AcceptedMonitor, AcceptedPort, AcceptedQos, AcceptedVlan
<1> HIDE DEF F, D, sent
<1>5. SendsLocally("reset", c, sent)
  BY <1>1, <1>4 DEF SendsLocally, Pairs
<1>6. c.is \cap {"query", "keeps", "reseeds", "fresh", "forgets"} = {}
  BY <1>1
<1>7. Fits("reset", c)
  BY <1>1, <1>2, <1>3, <1>4, <1>5, <1>6, LocalFits
<1> QED
  BY <1>7 DEF c

LEMMA IntrusionFits == Fits("intrusion", IntrusionLogCard)
<1> DEFINE F == [action: {"reset"}]
           D == {"action"}
           sent == Verbatim(F)
           c == IntrusionLogCard
<1>1. /\ c.settings = {sent[f] : f \in F} /\ c.forms = F
      /\ c.blank = [action |-> "reset"]
      /\ c.ready = F \X {c.blank}
      /\ c.sends = [p \in F \X {c.blank} |-> <<sent[p[1]]>>]
      /\ c.shows = [f \in F |-> sent[f]]
      /\ c.is = {}
  BY DEF IntrusionLogCard, DeviceResetCard, Local, Verbatim
<1> HIDE DEF c
<1>2. Over(D, F) /\ Mixes(F)
  BY DEF Over, Mixes
<1>3. c.blank \in F
  BY <1>1
<1>4. \A f \in F : Accepted("intrusion", sent[f])
  BY DEF Accepted, AcceptedNetwork, AcceptedMonitor, AcceptedPort, AcceptedQos, AcceptedVlan
<1> HIDE DEF F, D, sent
<1>5. SendsLocally("intrusion", c, sent)
  BY <1>1, <1>4 DEF SendsLocally, Pairs
<1>6. c.is \cap {"query", "keeps", "reseeds", "fresh", "forgets"} = {}
  BY <1>1
<1>7. Fits("intrusion", c)
  BY <1>1, <1>2, <1>3, <1>4, <1>5, <1>6, LocalFits
<1> QED
  BY <1>7 DEF c

LEMMA PingFits == Fits("ping", PingCard)
<1> DEFINE F == [destination: Padded, count: {"1", "5"}]
           D == {"destination", "count"}
           sent == [f \in F |-> [f EXCEPT !.destination = Trimmed(@)]]
           c == PingCard
<1>1. /\ c.settings = {sent[f] : f \in F} /\ c.forms = F
      /\ c.blank = [destination |-> "", count |-> "5"]
      /\ c.ready = {p \in F \X {c.blank} : Trimmed(p[1].destination) # ""}
      /\ c.sends = [p \in F \X {c.blank} |-> <<sent[p[1]]>>]
      /\ c.shows = [f \in F |-> sent[f]]
      /\ c.is = {"locks"}
  BY DEF PingCard, Local
<1> HIDE DEF c
<1>2. Over(D, F) /\ Mixes(F)
  BY DEF Over, Mixes
<1>3. c.blank \in F
  BY <1>1 DEF Padded, Text
<1>4. \A f \in F : Accepted("ping", sent[f])
  BY DEF Accepted, AcceptedNetwork, AcceptedMonitor, AcceptedPort, AcceptedQos, AcceptedVlan
<1> HIDE DEF F, D, sent
<1>5. SendsLocally("ping", c, sent)
  BY <1>1, <1>4 DEF SendsLocally, Pairs
<1>6. c.is \cap {"query", "keeps", "reseeds", "fresh", "forgets"} = {}
  BY <1>1
<1>7. Fits("ping", c)
  BY <1>1, <1>2, <1>3, <1>4, <1>5, <1>6, LocalFits
<1> QED
  BY <1>7 DEF c

LEMMA LinkFits == Fits("link", LinkTestCard)
<1> DEFINE F == [destination: Padded, count: {"1", "5"}]
           D == {"destination", "count"}
           sent == [f \in F |-> [f EXCEPT !.destination = Trimmed(@)]]
           c == LinkTestCard
<1>1. /\ c.settings = {sent[f] : f \in F} /\ c.forms = F
      /\ c.blank = [destination |-> "", count |-> "5"]
      /\ c.ready = {p \in F \X {c.blank} : Trimmed(p[1].destination) # ""}
      /\ c.sends = [p \in F \X {c.blank} |-> <<sent[p[1]]>>]
      /\ c.shows = [f \in F |-> sent[f]]
      /\ c.is = {"locks"}
  BY DEF LinkTestCard, PingCard, Local
<1> HIDE DEF c
<1>2. Over(D, F) /\ Mixes(F)
  BY DEF Over, Mixes
<1>3. c.blank \in F
  BY <1>1 DEF Padded, Text
<1>4. \A f \in F : Accepted("link", sent[f])
  BY DEF Accepted, AcceptedNetwork, AcceptedMonitor, AcceptedPort, AcceptedQos, AcceptedVlan
<1> HIDE DEF F, D, sent
<1>5. SendsLocally("link", c, sent)
  BY <1>1, <1>4 DEF SendsLocally, Pairs
<1>6. c.is \cap {"query", "keeps", "reseeds", "fresh", "forgets"} = {}
  BY <1>1
<1>7. Fits("link", c)
  BY <1>1, <1>2, <1>3, <1>4, <1>5, <1>6, LocalFits
<1> QED
  BY <1>7 DEF c

LEMMA DscpFits == Fits("dscp", DscpTableCard)
<1> DEFINE F == [priority: {"0", "7", "255"}]
           S == [priority: {"0", "7", "No-override"}]
           As(v, w, x) == [x EXCEPT !.priority = IF @ = v THEN w ELSE @]
           c == DscpTableCard
<1>1. /\ c.settings = S /\ c.forms = F
      /\ c.seed = [s \in S |-> As("No-override", "255", s)]
      /\ c.blank = [priority |-> "0"]
      /\ c.ready = F \X S
      /\ c.sends = [p \in F \X S |-> <<As("255", "No-override", p[1])>>]
      /\ c.shows = [f \in F |-> As("255", "No-override", f)] /\ c.carries = [s \in S |-> s]
      /\ c.is = {"query", "needs", "reverts", "opens", "fresh"}
  BY DEF DscpTableCard, RowEditor, Editor
<1> HIDE DEF c
<1>2. FitsTraits(c)
  BY <1>1 DEF FitsTraits
<1>3. FitsForms(c)
  BY <1>1 DEF FitsForms
<1>4. ASSUME NEW p \in Pairs(c)
      PROVE  \E body : c.sends[p] = <<body>> /\ OneFits("dscp", c, p, body)
  <2> DEFINE body == As("255", "No-override", p[1])
  <2>1. p \in F \X S
    BY <1>1 DEF Pairs
  <2>2. c.sends[p] = <<body>> /\ c.shows[p[1]] = body /\ body \in S
    BY <1>1, <2>1
  <2>3. \A s \in S : Lays(c, body, s) = body
    BY <1>1, <2>1 DEF Lays
  <2>4. \A r \in S : \A f \in DOMAIN body :
           f \in DOMAIN p[1] /\ (p[1][f] = c.seed[r][f] => body[f] = c.carries[r][f])
    BY <1>1, <2>1
  <2>5. Accepted("dscp", body)
    BY
    DEF Accepted, AcceptedNetwork, AcceptedMonitor, AcceptedPort, AcceptedQos, AcceptedVlan
  <2> HIDE DEF body
  <2> HIDE DEF S
  <2>6. \A s \in c.settings : Lays(c, body, s) \in c.settings /\ Agree(c.shows[p[1]], Lays(c, body, s))
    BY <1>1, <2>2, <2>3, SelfAgrees
  <2>7. \A r \in c.settings : \A f \in DOMAIN body :
           f \in DOMAIN p[1] /\ (p[1][f] = c.seed[r][f] => body[f] = c.carries[r][f])
    BY <1>1, <2>4
  <2>8. OneFits("dscp", c, p, body)
    BY <2>5, <2>6, <2>7 DEF OneFits
  <2> QED
    BY <2>2, <2>8
<1>5. Fits("dscp", c)
  BY <1>2, <1>3, <1>4, FitByOne
<1> QED
  BY <1>5 DEF c

LEMMA PortFits == Fits("port", EditPortDialog)
<1> DEFINE F == [name: Text, mode: {"auto", "half"}, flow: OnOff]
           S == {s \in F : ~(s.mode = "half" /\ s.flow = "on")}
           c == EditPortDialog
<1>1. /\ c.settings = S /\ c.forms = F /\ c.seed = Verbatim(S)
      /\ c.blank = [name |-> "", mode |-> "auto", flow |-> "off"]
      /\ c.ready = {p \in F \X S : p[1].name # "" \/ p[2].name = ""}
      /\ c.sends = [p \in F \X S |-> <<EffectiveFlow(p[1])>>]
      /\ c.shows = [f \in F |-> EffectiveFlow(f)] /\ c.carries = [s \in S |-> s]
      /\ c.is = {"query", "needs", "reseeds", "reverts", "opens", "fresh"}
  BY DEF EditPortDialog, Editor
<1> HIDE DEF c
<1>2. FitsTraits(c)
  BY <1>1 DEF FitsTraits
<1>3. FitsForms(c)
  <2>1. [name |-> "", mode |-> "auto", flow |-> "off"] \in F
    BY DEF Text, OnOff
  <2>2. \A g, h \in F : DOMAIN g = DOMAIN h
    OBVIOUS
  <2>3. \A g, h \in F : \A f \in DOMAIN g : [g EXCEPT ![f] = h[f]] \in F
    OBVIOUS
  <2>4. Verbatim(S) \in [S -> F]
    BY DEF Verbatim
  <2> HIDE DEF F, S
  <2> QED
    BY <1>1, <2>1, <2>2, <2>3, <2>4 DEF FitsForms
<1>4. ASSUME NEW p \in Pairs(c)
      PROVE  \E body : c.sends[p] = <<body>> /\ OneFits("port", c, p, body)
  <2> DEFINE body == EffectiveFlow(p[1])
  <2>1. p \in F \X S
    BY <1>1 DEF Pairs
  <2>2. body \in S /\ (body.mode # "half" => body = p[1])
        /\ body.mode = p[1].mode /\ body.name = p[1].name
    BY <2>1 DEF EffectiveFlow, OnOff
  <2>3. c.sends[p] = <<body>> /\ c.shows[p[1]] = body
    <3>1. /\ c.sends = [q \in F \X S |-> <<EffectiveFlow(q[1])>>]
          /\ c.shows = [f \in F |-> EffectiveFlow(f)]
      BY <1>1
    <3> HIDE DEF F, S
    <3> QED
      BY <2>1, <3>1
  <2> HIDE DEF body
  <2>4. \A s \in S : Lays(c, body, s) = body
    <3>1. body = [f \in {"name", "mode", "flow"} |-> body[f]]
      BY <2>2
    <3>2. DOMAIN body = {"name", "mode", "flow"}
      BY <2>2
    <3>3. \A s \in S : DOMAIN s = {"name", "mode", "flow"}
      OBVIOUS
    <3> HIDE DEF S
    <3> QED
      BY <1>1, <3>1, <3>2, <3>3 DEF Lays
  <2>5. \A r \in S : \A f \in DOMAIN body \cap DOMAIN r :
           /\ f \in DOMAIN p[1]
           /\ p[1][f] = c.seed[r][f] =>
                 \/ body[f] = c.carries[r][f]
                 \/ f = "flow" /\ body.mode = "half"
    <3>1. \A r \in S : c.seed[r] = r /\ c.carries[r] = r
      BY <1>1 DEF Verbatim
    <3>2. DOMAIN p[1] = {"name", "mode", "flow"} /\ DOMAIN body = {"name", "mode", "flow"}
      BY <2>1, <2>2
    <3>3. \A f \in {"name", "mode", "flow"} :
             body[f] = p[1][f] \/ (f = "flow" /\ body.mode = "half")
      BY <2>1, <2>2
    <3> HIDE DEF S
    <3> QED
      BY <3>1, <3>2, <3>3
  <2>6. Accepted("port", body)
    BY <2>2
    DEF Accepted, AcceptedNetwork, AcceptedMonitor, AcceptedPort, AcceptedQos, AcceptedVlan
  <2> HIDE DEF F, S
  <2>7. \A s \in c.settings : Lays(c, body, s) \in c.settings /\ Agree(c.shows[p[1]], Lays(c, body, s))
    BY <1>1, <2>2, <2>3, <2>4, SelfAgrees
  <2>8. \A r \in c.settings : \A f \in DOMAIN body \cap DOMAIN r :
           /\ f \in DOMAIN p[1]
           /\ p[1][f] = c.seed[r][f] =>
                 \/ body[f] = c.carries[r][f]
                 \/ f = "flow" /\ body.mode = "half"
    BY <1>1, <2>5
  <2>9. OneFits("port", c, p, body)
    BY <2>6, <2>7, <2>8 DEF OneFits
  <2> QED
    BY <2>3, <2>9
<1>5. Fits("port", c)
  BY <1>2, <1>3, <1>4, FitByOne
<1> QED
  BY <1>5 DEF c

LEMMA MonitorFits == Fits("monitor", MonitorCard)
<1> DEFINE F == [enabled: OnOff, dest: Ports, sources: SUBSET Ports]
           S == [enabled: OnOff, dest: Ports]
           off == [enabled |-> "off"]
           c == MonitorCard
<1>1. /\ c.settings = S /\ c.forms = F
      /\ c.seed = [s \in S |-> [enabled |-> s.enabled, dest |-> s.dest, sources |-> {}]]
      /\ c.blank = [enabled |-> "off", dest |-> "p1", sources |-> {}]
      /\ c.ready = {p \in F \X S : p[1].enabled = "on" => p[1].sources # {}}
      /\ c.sends = [p \in F \X S |-> IF p[1].enabled = "on" THEN <<p[1]>> ELSE <<off>>]
      /\ c.shows = [f \in F |-> IF f.enabled = "on" THEN [f EXCEPT !.sources = @ \ {f.dest}] ELSE off]
      /\ c.carries = [s \in S |-> s]
      /\ c.is = {"query", "needs", "reseeds"}
  BY DEF MonitorCard, Editor
<1> HIDE DEF c
<1>2. FitsTraits(c)
  BY <1>1 DEF FitsTraits
<1>3. FitsForms(c)
  <2>1. [enabled |-> "off", dest |-> "p1", sources |-> {}] \in F
    BY DEF Ports, OnOff
  <2>2. \A g, h \in F : DOMAIN g = DOMAIN h
    OBVIOUS
  <2>3. \A g, h \in F : \A f \in DOMAIN g : [g EXCEPT ![f] = h[f]] \in F
    OBVIOUS
  <2>4. c.seed \in [S -> F]
    BY <1>1
  <2> HIDE DEF F, S
  <2> QED
    BY <1>1, <2>1, <2>2, <2>3, <2>4 DEF FitsForms
<1>4. ASSUME NEW p \in Pairs(c)
      PROVE  \E body : c.sends[p] = <<body>> /\ OneFits("monitor", c, p, body)
  <2> DEFINE g == p[1]
  <2>1. p \in F \X S /\ g \in F /\ (g.enabled = "on" => g.sources # {})
    BY <1>1 DEF Pairs
  <2>2. CASE g.enabled = "on"
    <3>1. c.sends[p] = <<g>> /\ c.shows[g] = [g EXCEPT !.sources = @ \ {g.dest}]
      BY <1>1, <2>1, <2>2
    <3>2. \A s \in S : Lays(c, g, s) = [enabled |-> g.enabled, dest |-> g.dest]
      BY <1>1, <2>1 DEF Lays
    <3>3. \A s \in S : Lays(c, g, s) \in S /\ Agree(c.shows[g], Lays(c, g, s))
      BY <2>1, <3>1, <3>2 DEF Agree
    <3>4. \A r \in S : \A f \in DOMAIN g \cap DOMAIN r :
             f \in DOMAIN g /\ (g[f] = c.seed[r][f] => g[f] = c.carries[r][f])
      BY <1>1
    <3>5. Accepted("monitor", g)
      BY <2>1
      DEF Accepted, AcceptedNetwork, AcceptedMonitor, AcceptedPort, AcceptedQos,
          AcceptedVlan
    <3> HIDE DEF S, F
    <3>6. \A s \in c.settings : Lays(c, g, s) \in c.settings /\ Agree(c.shows[p[1]], Lays(c, g, s))
      BY <1>1, <3>3
    <3>7. \A r \in c.settings : \A f \in DOMAIN g \cap DOMAIN r :
             f \in DOMAIN p[1] /\ (p[1][f] = c.seed[r][f] => g[f] = c.carries[r][f])
      BY <1>1, <3>4
    <3>8. OneFits("monitor", c, p, g)
      BY <3>5, <3>6, <3>7 DEF OneFits
    <3> QED
      BY <3>1, <3>8
  <2>3. CASE g.enabled # "on"
    <3>1. c.sends[p] = <<off>> /\ c.shows[g] = off /\ g.enabled = "off"
      BY <1>1, <2>1, <2>3 DEF OnOff
    <3>2. \A s \in S : Lays(c, off, s) = [enabled |-> "off", dest |-> s.dest]
      BY <1>1 DEF Lays
    <3>3. \A s \in S : Lays(c, off, s) \in S /\ Agree(c.shows[g], Lays(c, off, s))
      <4>1. \A s \in S : [enabled |-> "off", dest |-> s.dest] \in S
        BY DEF OnOff
      <4>2. \A x : Agree(off, [enabled |-> "off", dest |-> x])
        BY DEF Agree
      <4> HIDE DEF S, off
      <4> QED
        BY <3>1, <3>2, <4>1, <4>2
    <3>4. \A r \in S : \A f \in DOMAIN off \cap DOMAIN r :
             f \in DOMAIN g /\ (g[f] = c.seed[r][f] => off[f] = c.carries[r][f])
      BY <1>1, <2>1, <3>1
    <3>5. Accepted("monitor", off)
      BY
      DEF Accepted, AcceptedNetwork, AcceptedMonitor, AcceptedPort, AcceptedQos,
          AcceptedVlan
    <3> HIDE DEF S, F, off
    <3>6. \A s \in c.settings : Lays(c, off, s) \in c.settings /\ Agree(c.shows[p[1]], Lays(c, off, s))
      BY <1>1, <3>3
    <3>7. \A r \in c.settings : \A f \in DOMAIN off \cap DOMAIN r :
             f \in DOMAIN p[1] /\ (p[1][f] = c.seed[r][f] => off[f] = c.carries[r][f])
      BY <1>1, <3>4
    <3>8. OneFits("monitor", c, p, off)
      BY <3>5, <3>6, <3>7 DEF OneFits
    <3> QED
      BY <3>1, <3>8
  <2> QED
    BY <2>2, <2>3
<1>5. Fits("monitor", c)
  BY <1>2, <1>3, <1>4, FitByOne
<1> QED
  BY <1>5 DEF c

LEMMA VlanFits == Fits("vlan", VlanMembershipCard)
<1> DEFINE F == [Ports -> {"no", "tagged"}]
           Diff(g, s) == Restrict(g, {x \in DOMAIN g : g[x] # s[x]})
           c == VlanMembershipCard
<1>1. /\ c.settings = F /\ c.forms = F /\ c.seed = Verbatim(F)
      /\ c.blank = [x \in Ports |-> "no"]
      /\ c.ready = Dirty(F \X F)
      /\ c.sends = [p \in F \X F |-> IF p[1] = p[2] THEN <<>> ELSE <<Diff(p[1], p[2])>>]
      /\ c.shows = [f \in F |-> f] /\ c.carries = [s \in F |-> s]
      /\ c.is = {"query", "needs", "reseeds", "reverts", "danger"}
  BY DEF VlanMembershipCard, Editor
<1> HIDE DEF c
<1>2. FitsTraits(c)
  BY <1>1 DEF FitsTraits
<1>3. FitsForms(c)
  BY <1>1 DEF FitsForms, Verbatim
<1>4. ASSUME NEW p \in Pairs(c), c.sends[p] # <<>>
      PROVE  \E body : c.sends[p] = <<body>> /\ OneFits("vlan", c, p, body)
  <2> DEFINE g == p[1]
             body == Diff(g, p[2])
  <2>1. p \in F \X F /\ g \in F /\ p[2] \in F
    BY <1>1 DEF Pairs, Dirty
  <2>2. g # p[2] /\ c.sends[p] = <<body>> /\ c.shows[g] = g
    BY <1>1, <1>4, <2>1
  <2>3. DOMAIN body = {x \in Ports : g[x] # p[2][x]} /\ \A x \in DOMAIN body : body[x] = g[x]
    BY <2>1 DEF Restrict
  <2>4. \E x \in Ports : g[x] # p[2][x]
    BY <2>1, <2>2
  <2>5. Accepted("vlan", body)
    BY <2>3, <2>4
    DEF Accepted, AcceptedNetwork, AcceptedMonitor, AcceptedPort, AcceptedQos, AcceptedVlan
  <2> HIDE DEF body
  <2>6. ASSUME NEW s \in F
        PROVE  Lays(c, body, s) \in F /\ (s = p[2] => Agree(g, Lays(c, body, s)))
    <3>1. Lays(c, body, s) = [x \in Ports |-> IF x \in DOMAIN body THEN g[x] ELSE s[x]]
      BY <1>1, <2>3 DEF Lays
    <3>2. Lays(c, body, s) \in F
      BY <2>1, <2>3, <3>1
    <3> QED
      BY <2>1, <2>3, <3>1, <3>2 DEF Agree
  <2>7. \A s \in c.settings :
           /\ Lays(c, body, s) \in c.settings
           /\ s = p[2] => Agree(c.shows[p[1]], Lays(c, body, s))
    BY <1>1, <2>2, <2>6
  <2>8. \A r \in c.settings : \A f \in DOMAIN body \cap DOMAIN r :
           f \in DOMAIN p[1] /\ (p[1][f] = c.seed[r][f] => body[f] = c.carries[r][f])
    BY <1>1, <2>1, <2>3 DEF Verbatim
  <2>9. "query" \in c.is
    BY <1>1
  <2>10. OneFits("vlan", c, p, body)
    BY <2>5, <2>7, <2>8, <2>9 DEF OneFits
  <2> QED
    BY <2>2, <2>10
<1>5. Fits("vlan", c)
  BY <1>2, <1>3, <1>4, FitByOne
<1> QED
  BY <1>5 DEF c

LEMMA Joined ==
    ASSUME NEW a, NEW b
    PROVE  /\ <<>> \o <<>> = <<>> /\ <<a>> \o <<>> = <<a>>
           /\ <<>> \o <<b>> = <<b>> /\ <<a>> \o <<b>> = <<a, b>>
<1> DEFINE S == {a, b}
<1>1. <<>> \o <<>> = <<>>
  OBVIOUS
<1>2. <<a>> \o <<>> = <<a>>
  OBVIOUS
<1>3. <<>> \o <<b>> = <<b>>
  OBVIOUS
<1>4. <<a>> \in Seq(S) /\ <<b>> \in Seq(S)
  OBVIOUS
<1> HIDE DEF S
<1>5. /\ <<a>> \o <<b>> \in Seq(S) /\ Len(<<a>> \o <<b>>) = 2
      /\ (<<a>> \o <<b>>)[1] = a /\ (<<a>> \o <<b>>)[2] = b
  BY <1>4
<1>6. \A t \in Seq(S) : Len(t) = 2 => t = <<t[1], t[2]>>
  OBVIOUS
<1> QED
  BY <1>1, <1>2, <1>3, <1>5, <1>6

LEMMA TwoBodies ==
    ASSUME NEW a, NEW b
    PROVE  /\ <<a, b>> \in Seq(Range(<<a, b>>)) /\ Len(<<a, b>>) = 2
           /\ <<a, b>>[1] = a /\ <<a, b>>[2] = b
           /\ DOMAIN <<a, b>> = {1, 2} /\ <<a, b>> # <<>>
<1>1. a \in Range(<<a, b>>) /\ b \in Range(<<a, b>>)
  BY DEF Range
<1>2. <<a, b>> \in Seq(Range(<<a, b>>))
  BY <1>1
<1>3. DOMAIN <<a, b>> = {1, 2}
  OBVIOUS
<1> QED
  BY <1>2, <1>3

\* One PUT for the ports to enable, one for those to disable, or both.
LEMMA ApplyShape ==
    ASSUME NEW g, NEW s
    PROVE  LET on  == Staged(g, s, "on")
               off == Staged(g, s, "off")
           IN  \/ HandleApply(g, s) = <<>> /\ DOMAIN on = {} /\ DOMAIN off = {}
               \/ HandleApply(g, s) = <<on>> /\ DOMAIN on # {} /\ DOMAIN off = {}
               \/ HandleApply(g, s) = <<off>> /\ DOMAIN on = {} /\ DOMAIN off # {}
               \/ HandleApply(g, s) = <<on, off>> /\ DOMAIN on # {} /\ DOMAIN off # {}
<1> DEFINE on  == Staged(g, s, "on")
           off == Staged(g, s, "off")
<1>1. HandleApply(g, s) = (IF DOMAIN on = {} THEN <<>> ELSE <<on>>) \o
                          (IF DOMAIN off = {} THEN <<>> ELSE <<off>>)
  BY DEF HandleApply
<1> HIDE DEF on, off
<1>2. \/ HandleApply(g, s) = <<>> /\ DOMAIN on = {} /\ DOMAIN off = {}
      \/ HandleApply(g, s) = <<on>> /\ DOMAIN on # {} /\ DOMAIN off = {}
      \/ HandleApply(g, s) = <<off>> /\ DOMAIN on = {} /\ DOMAIN off # {}
      \/ HandleApply(g, s) = <<on, off>> /\ DOMAIN on # {} /\ DOMAIN off # {}
  BY <1>1, Joined
<1> QED
  BY <1>2 DEF on, off

Drafts == [Ports -> OnOff]

\* What a PUT of the ports in the state v makes of the setting s.
Turned(g, d, v, s) == [x \in Ports |-> IF g[x] = v /\ d[x] # v THEN v ELSE s[x]]

LEMMA StagedShape ==
    ASSUME NEW g \in Drafts, NEW d \in Drafts, NEW v
    PROVE  /\ \A x : x \in DOMAIN Staged(g, d, v) <=> x \in Ports /\ g[x] = v /\ d[x] # v
           /\ \A x \in DOMAIN Staged(g, d, v) : Staged(g, d, v)[x] = v /\ g[x] = v
BY DEF Staged, Drafts

LEMMA StagedLays ==
    ASSUME NEW c, "query" \in c.is, NEW g \in Drafts, NEW d \in Drafts,
           NEW v \in OnOff, NEW s \in Drafts
    PROVE  /\ Lays(c, Staged(g, d, v), s) = Turned(g, d, v, s)
           /\ Lays(c, Staged(g, d, v), s) \in Drafts
<1>1. Lays(c, Staged(g, d, v), s) = Turned(g, d, v, s)
  BY StagedShape DEF Lays, Drafts, Turned
<1>2. Turned(g, d, v, s) \in Drafts
  BY DEF Drafts, Turned
<1> QED
  BY <1>1, <1>2

LEMMA BobFits == Fits("bob", BobPortsCard)
<1> DEFINE c == BobPortsCard
<1>1. /\ c.settings = Drafts /\ c.forms = Drafts /\ c.seed = Verbatim(Drafts)
      /\ c.blank = [x \in Ports |-> "off"]
      /\ c.ready = Dirty(Drafts \X Drafts)
      /\ c.sends = [p \in Drafts \X Drafts |-> HandleApply(p[1], p[2])]
      /\ c.shows = [f \in Drafts |-> f] /\ c.carries = [s \in Drafts |-> s]
      /\ c.is = {"query", "needs", "reseeds", "reverts"}
  BY DEF BobPortsCard, Editor, Drafts
<1> HIDE DEF c
<1>2. FitsTraits(c)
  BY <1>1 DEF FitsTraits
<1>3. FitsForms(c)
  BY <1>1 DEF FitsForms, Verbatim, OnOff, Drafts
<1>4. \A p \in Pairs(c) : p[1] \in Drafts /\ p[2] \in Drafts /\ c.sends[p] = HandleApply(p[1], p[2])
  BY <1>1 DEF Pairs, Dirty
<1>5. "query" \in c.is
  BY <1>1
<1>6. ASSUME NEW p \in Pairs(c), NEW i \in DOMAIN c.sends[p]
      PROVE  \E v \in OnOff : c.sends[p][i] = Staged(p[1], p[2], v) /\ DOMAIN c.sends[p][i] # {}
  BY <1>4, ApplyShape DEF OnOff
<1>7. FitsSends(c)
  <2> SUFFICES ASSUME NEW p \in Pairs(c)
               PROVE  /\ c.sends[p] \in Seq(Range(c.sends[p])) /\ Len(c.sends[p]) <= 2
                      /\ \A i \in DOMAIN c.sends[p] : \A s \in Drafts :
                            Lays(c, c.sends[p][i], s) \in Drafts
    BY <1>1 DEF FitsSends
  <2>1. ASSUME NEW i \in DOMAIN c.sends[p], NEW s \in Drafts PROVE Lays(c, c.sends[p][i], s) \in Drafts
    <3>1. PICK v \in OnOff : c.sends[p][i] = Staged(p[1], p[2], v)
      BY <1>6
    <3>2. Lays(c, Staged(p[1], p[2], v), s) \in Drafts
      BY <1>4, <1>5, StagedLays
    <3> QED
      BY <3>1, <3>2
  <2>2. <<>> \in Seq(Range(<<>>)) /\ Len(<<>>) = 0
    OBVIOUS
  <2>3. c.sends[p] \in Seq(Range(c.sends[p])) /\ Len(c.sends[p]) \in {0, 1, 2}
    <3> DEFINE on  == Staged(p[1], p[2], "on")
               off == Staged(p[1], p[2], "off")
               Bodies(todo) == todo \in Seq(Range(todo)) /\ Len(todo) \in {0, 1, 2}
    <3> HIDE DEF on, off
    <3>1. c.sends[p] \in {<<>>, <<on>>, <<off>>, <<on, off>>}
      BY <1>4, ApplyShape DEF on, off
    <3>2. Bodies(<<>>)
      BY <2>2
    <3>3. Bodies(<<on>>) /\ Bodies(<<off>>)
      BY OneTwo
    <3>4. Bodies(<<on, off>>)
      BY TwoBodies
    <3> HIDE DEF Bodies
    <3>5. Bodies(c.sends[p])
      BY <3>1, <3>2, <3>3, <3>4, Zenon
    <3> QED
      BY <3>5 DEF Bodies
  <2> QED
    BY <2>1, <2>3
<1>8. FitsShown(c)
  <2> SUFFICES ASSUME NEW p \in Pairs(c), c.sends[p] # <<>>
               PROVE  Agree(c.shows[p[1]], Result(c, c.sends[p], p[2]))
    BY <1>1 DEF FitsShown
  <2> DEFINE g  == p[1]
             d  == p[2]
             to(v) == Staged(g, d, v)
             r1 == Lays(c, to("on"), d)
             r2 == Lays(c, to("off"), d)
             r3 == Lays(c, to("off"), r1)
  <2>1. g \in Drafts /\ d \in Drafts /\ c.shows[g] = g /\ c.sends[p] = HandleApply(g, d)
    BY <1>1, <1>4
  <2>2. /\ \A v \in OnOff : \A x : x \in DOMAIN to(v) <=> x \in Ports /\ g[x] = v /\ d[x] # v
        /\ r1 = Turned(g, d, "on", d) /\ r1 \in Drafts
        /\ r2 = Turned(g, d, "off", d)
        /\ r3 = Turned(g, d, "off", r1)
    <3> HIDE DEF g, d
    <3>1. "on" \in OnOff /\ "off" \in OnOff
      BY DEF OnOff
    <3>2. \A v \in OnOff : \A x : x \in DOMAIN to(v) <=> x \in Ports /\ g[x] = v /\ d[x] # v
      BY <2>1, StagedShape
    <3>3. r1 = Turned(g, d, "on", d) /\ r1 \in Drafts /\ r2 = Turned(g, d, "off", d)
      BY <1>5, <2>1, <3>1, StagedLays
    <3> HIDE DEF r1
    <3>4. r3 = Turned(g, d, "off", r1)
      BY <1>5, <2>1, <3>1, <3>3, StagedLays
    <3> QED
      BY <3>2, <3>3, <3>4
  <2>3. "on" \in OnOff /\ "off" \in OnOff
    BY DEF OnOff
  <2>4. DOMAIN g = Ports /\ \A x \in Ports : g[x] \in {"on", "off"} /\ d[x] \in {"on", "off"}
    BY <2>1 DEF OnOff, Drafts
  <2> HIDE DEF g, d, to, r1, r2, r3
  <2>5. DOMAIN to("off") = {} => Agree(g, r1)
    BY <2>2, <2>3, <2>4 DEF Agree, Turned
  <2>6. DOMAIN to("on") = {} => Agree(g, r2)
    BY <2>2, <2>3, <2>4 DEF Agree, Turned
  <2>7. Agree(g, r3)
    BY <2>2, <2>3, <2>4 DEF Agree, Turned
  <2>8. Result(c, <<to("on")>>, d) = r1 /\ Result(c, <<to("off")>>, d) = r2
    BY ResultOfOne DEF r1, r2
  <2>9. Result(c, <<to("on"), to("off")>>, d) = r3
    BY TwoBodies DEF Result, r1, r3
  <2>10. Agree(g, Result(c, c.sends[p], d))
    BY <2>1, <2>5, <2>6, <2>7, <2>8, <2>9, ApplyShape DEF to
  <2> QED
    BY <2>1, <2>10 DEF g, d
<1>9. FitsApi("bob", c)
  BY <1>6
  DEF FitsApi, Accepted, AcceptedNetwork, AcceptedMonitor, AcceptedPort, AcceptedQos,
      AcceptedVlan
<1>10. FitsRead("bob", c)
  <2> SUFFICES ASSUME NEW p \in Pairs(c), NEW i \in DOMAIN c.sends[p], NEW r \in Drafts,
                      NEW f \in DOMAIN c.sends[p][i] \cap DOMAIN r
               PROVE  f \in DOMAIN p[1] /\ (p[1][f] = r[f] => c.sends[p][i][f] = r[f])
    <3>1. \A r \in c.settings : c.seed[r] = r /\ c.carries[r] = r
      BY <1>1 DEF Verbatim
    <3>2. \A r \in c.settings : r \in Drafts
      BY <1>1
    <3> QED
      BY <3>1, <3>2 DEF FitsRead
  <2>1. PICK v \in OnOff : c.sends[p][i] = Staged(p[1], p[2], v)
    BY <1>6
  <2>2. \A x \in DOMAIN c.sends[p][i] : c.sends[p][i][x] = v /\ p[1][x] = v
    BY <1>4, <2>1, StagedShape
  <2>3. DOMAIN r = Ports /\ DOMAIN p[1] = Ports
    BY <1>4 DEF Drafts
  <2> QED
    BY <2>2, <2>3
<1>11. Fits("bob", c)
  BY <1>2, <1>3, <1>7, <1>8, <1>9, <1>10 DEF Fits
<1> QED
  BY <1>11 DEF c

\* Every card of the frontend meets what Fits asks of it: its forms can be mixed, its
\* bodies make a setting of a setting, what it shows is what they make, blanks at the
\* ends aside, the API accepts them, and a field that is left as it was read is sent as
\* the card carries it: as it was read, but for the name of the system, the features
\* that are not reported, the modes and limits of a port that the card does not know,
\* the policy of a codepoint and the certificate mode (see Cards).
THEOREM AllCardsFit == \A n \in DOMAIN AllCards : Fits(n, AllCards[n])
<1>1. DOMAIN AllCards =
        {"system", "ip", "features", "fault", "support", "monitor", "port", "bob",
         "qos_mode", "cos", "user_pri", "vlan_pri", "dscp", "diffserv", "password", "web",
         "perport", "vlan", "reset", "ping", "link", "intrusion"}
  BY DEF AllCards
<1>2. /\ AllCards["system"] = SystemInfoCard /\ AllCards["ip"] = IpConfigCard
      /\ AllCards["features"] = DeviceFeaturesCard /\ AllCards["fault"] = FaultDetectionCard
      /\ AllCards["support"] = SupportPageCard /\ AllCards["monitor"] = MonitorCard
      /\ AllCards["port"] = EditPortDialog /\ AllCards["bob"] = BobPortsCard
  BY DEF AllCards
<1>3. /\ AllCards["qos_mode"] = QosModeSelector /\ AllCards["cos"] = CosTableCard
      /\ AllCards["user_pri"] = UserPriCard /\ AllCards["vlan_pri"] = VlanPriCard
      /\ AllCards["dscp"] = DscpTableCard /\ AllCards["diffserv"] = DiffservCard
      /\ AllCards["password"] = DevicePasswordsCard /\ AllCards["web"] = WebAccessCard
  BY DEF AllCards
<1>4. /\ AllCards["perport"] = PerPortSecurityCard /\ AllCards["vlan"] = VlanMembershipCard
      /\ AllCards["reset"] = DeviceResetCard /\ AllCards["ping"] = PingCard
      /\ AllCards["link"] = LinkTestCard /\ AllCards["intrusion"] = IntrusionLogCard
  BY DEF AllCards
<1> QED
  BY <1>1, <1>2, <1>3, <1>4, SystemFits, IpFits, FeaturesFits, FaultFits, SupportFits,
     MonitorFits, PortFits, BobFits, QosModeFits, CosFits, UserPriFits, VlanPriFits, DscpFits,
     DiffservFits, PasswordFits, WebFits, PerPortFits, VlanFits, ResetFits, PingFits, LinkFits,
     IntrusionFits

-----------------------------------------------------------------------------
(***************************************************************************)
(* Rows: the types.                                                        *)
(***************************************************************************)
\* What a button asks for: a row of the table, or a new one.
Asks(kind, rows) ==
    /\ kind \in Buttons[list] /\ rows \in RowSets
    /\ DOMAIN rows \subseteq Slots \/ DOMAIN rows = {New}
    /\ kind = "add" /\ list # "vlans" => DOMAIN rows = {New}
    /\ kind \notin {"add", "take"} => DOMAIN rows \subseteq Slots

Asking ==
    /\ \A op \in flight : Asks(op.kind, op.rows)
    /\ dialog # <<>> => Asks(dialog[1].kind, dialog[1].rows)

LEMMA TableShape ==
    ASSUME NEW t PROVE t \in Tables <=> \E S \in SUBSET Slots : t \in [S -> Contents]
BY DEF Tables

LEMMA RowSetShape ==
    ASSUME NEW t
    PROVE  t \in RowSets <=> \E S \in SUBSET (Slots \cup {New}) : t \in [S -> Contents]
BY DEF RowSets

LEMMA TablesAreRowSets ==
    ASSUME NEW t \in Tables
    PROVE  t \in RowSets /\ DOMAIN t \subseteq Slots /\ \A s \in DOMAIN t : t[s] \in Contents
BY TableShape, RowSetShape

LEMMA RestrictIsTable ==
    ASSUME NEW t \in Tables, NEW S \in SUBSET DOMAIN t
    PROVE  Restrict(t, S) \in Tables /\ DOMAIN Restrict(t, S) = S
<1>1. S \in SUBSET Slots
  BY TablesAreRowSets
<1>2. Restrict(t, S) \in [S -> Contents]
  BY TablesAreRowSets DEF Restrict
<1> QED
  BY <1>1, <1>2, TableShape

LEMMA PutIsTable ==
    ASSUME NEW t \in Tables, NEW S \in SUBSET Slots, NEW rows \in [S -> Contents]
    PROVE  Put(rows, t) \in Tables
<1>1. S \cup DOMAIN t \in SUBSET Slots
  BY TablesAreRowSets
<1>2. Put(rows, t) \in [S \cup DOMAIN t -> Contents]
  BY TablesAreRowSets DEF Put
<1> QED
  BY <1>1, <1>2, TableShape

LEMMA OneIsRow ==
    ASSUME NEW s, NEW c \in Contents
    PROVE  One(s, c) \in [{s} -> Contents] /\ DOMAIN One(s, c) = {s}
BY DEF One

LEMMA NoRows == <<>> \in RowSets /\ <<>> \in Tables /\ DOMAIN <<>> = {}
<1>1. <<>> \in [{} -> Contents]
  OBVIOUS
<1> QED
  BY <1>1, TableShape, RowSetShape

\* What is on the screen is a part of what was read.
LEMMA EntriesShape ==
    ASSUME RowsTypeOK
    PROVE  Entries \in Tables /\ OnScreen \subseteq DOMAIN Entries /\ OnScreen \subseteq Slots
<1>1. Entries \in Tables
  BY NoRows DEF RowsTypeOK, Entries
<1>2. OnScreen \subseteq DOMAIN Entries
  BY DEF OnScreen
<1> QED
  BY <1>1, <1>2, TablesAreRowSets

LEMMA SelectedShape ==
    ASSUME RowsTypeOK
    PROVE  /\ SelectedRefs \in RowSets
           /\ DOMAIN SelectedRefs \subseteq ticked \cap OnScreen
           /\ DOMAIN SelectedRefs \subseteq Slots
BY EntriesShape, RestrictIsTable, TablesAreRowSets DEF SelectedRefs, EffectiveSelected

\* Every button asks for what Asks says.
LEMMA OfferedAsks ==
    ASSUME RowsTypeOK, NEW kind \in Buttons[list], NEW rows \in Offered(kind)
    PROVE  Asks(kind, rows)
<1> USE EntriesShape
<1>1. ASSUME NEW s \in Slots \cup {New}, NEW c \in Contents, rows = One(s, c)
      PROVE  rows \in RowSets /\ DOMAIN rows = {s}
  <2>1. {s} \in SUBSET (Slots \cup {New})
    OBVIOUS
  <2> QED
    BY <1>1, <2>1, OneIsRow, RowSetShape
<1>2. ASSUME rows \in RowsShown PROVE rows \in RowSets /\ DOMAIN rows \subseteq Slots
  <2>1. PICK s \in OnScreen : rows = Restrict(Entries, {s})
    BY <1>2 DEF RowsShown
  <2> QED
    BY <2>1, RestrictIsTable, TablesAreRowSets
<1>3. CASE list = "alerts"
  <2>1. rows = SelectedRefs
    BY <1>3 DEF Offered
  <2>2. kind \in {"ack", "delete"}
    BY <1>3 DEF Buttons
  <2> QED
    BY <2>1, <2>2, SelectedShape DEF Asks
<1>4. CASE list # "alerts" /\ kind \in {"delete", "restore"}
  <2>1. rows \in RowsShown
    BY <1>4 DEF Offered
  <2> QED
    BY <1>2, <1>4, <2>1 DEF Asks
<1>5. CASE list # "alerts" /\ kind = "rename"
  <2>1. rows \in {One(s, c) : s \in OnScreen, c \in Contents}
    BY <1>5 DEF Offered
  <2>2. PICK s \in OnScreen, c \in Contents : rows = One(s, c)
    BY <2>1
  <2> QED
    BY <1>1, <1>5, <2>2 DEF Asks
<1>6. CASE list = "vlans" /\ kind = "add"
  <2>1. rows \in {One(s, c) : s \in Slots \ OnScreen, c \in Contents}
    BY <1>6 DEF Offered
  <2>2. PICK s \in Slots, c \in Contents : rows = One(s, c)
    BY <2>1
  <2> QED
    BY <1>1, <1>6, <2>2 DEF Asks
<1>7. CASE list \notin {"alerts", "vlans"} /\ kind \in {"add", "take"}
  <2>1. rows \in {One(New, c) : c \in Contents}
    BY <1>7 DEF Offered
  <2>2. PICK c \in Contents : rows = One(New, c)
    BY <2>1
  <2> QED
    BY <1>1, <1>7, <2>2 DEF Asks
<1>8. kind \in {"add", "delete", "rename", "take", "restore", "ack"}
  BY DEF Buttons, RowsTypeOK, Lists
<1>9. kind \in {"take", "ack"} => list # "vlans"
  BY DEF Buttons
<1>10. kind = "ack" => list = "alerts"
  BY DEF Buttons, RowsTypeOK, Lists
<1> QED
  BY <1>3, <1>4, <1>5, <1>6, <1>7, <1>8, <1>9, <1>10

LEMMA SameList ==
    ASSUME list' = list
    PROVE  /\ Contents' = Contents /\ Tables' = Tables /\ RowSets' = RowSets
           /\ Operations' = Operations /\ Buttons' = Buttons
           /\ \A kind : Danger(kind)' = Danger(kind) /\ Modal(kind)' = Modal(kind)
           /\ \A kind, rows : Asks(kind, rows)' = Asks(kind, rows)
<1>1. Contents' = Contents
  BY DEF Contents
<1>2. Tables' = Tables /\ RowSets' = RowSets /\ Buttons' = Buttons
  BY <1>1 DEF Tables, RowSets, Buttons
<1>3. Operations' = Operations
  BY <1>2 DEF Operations
<1>4. \A kind : Danger(kind)' = Danger(kind) /\ Modal(kind)' = Modal(kind)
  BY DEF Danger, Modal
<1>5. \A kind, rows : Asks(kind, rows)' = Asks(kind, rows)
  BY <1>2 DEF Asks
<1> QED
  BY <1>1, <1>2, <1>3, <1>4, <1>5

LEMMA AsksKind ==
    ASSUME RowsTypeOK, NEW kind, NEW rows, Asks(kind, rows)
    PROVE  kind \in Kinds
BY DEF Asks, Buttons, RowsTypeOK, Lists, Kinds

\* A write that is carried out leaves a table.
LEMMA EffectsAreTables ==
    ASSUME RowsTypeOK, Asking, NEW op \in flight
    PROVE  Effects(op) \subseteq Tables
<1> SUFFICES ASSUME NEW t \in Effects(op) PROVE t \in Tables
  OBVIOUS
<1> DEFINE Free == Slots \ DOMAIN table
<1>1. table \in Tables /\ op.rows \in RowSets
  BY DEF RowsTypeOK, Asking, Asks
<1>2. Asks(op.kind, op.rows)
  BY DEF Asking
<1>3. op.kind \in {"ack", "delete", "rename", "restore"} => New \notin DOMAIN op.rows
  BY <1>2, SlotsAssumption DEF Asks
<1>4. ASSUME NEW s \in Slots, NEW c \in Contents PROVE Put(One(s, c), table) \in Tables
  BY ZenonT(40), <1>1, OneIsRow, PutIsTable
<1>5. \A s \in DOMAIN op.rows : op.rows[s] \in Contents
  BY <1>1, RowSetShape
<1>6. ASSUME DOMAIN op.rows \subseteq Slots PROVE Put(op.rows, table) \in Tables
  <2>1. op.rows \in [DOMAIN op.rows -> Contents]
    BY <1>1, RowSetShape
  <2> QED
    BY <1>1, <1>6, <2>1, PutIsTable
<1>7. CASE op.kind = "ack"
  BY <1>1, <1>7, <1>3 DEF Effects
<1>8. CASE op.kind = "delete"
  <2>1. t = Restrict(table, DOMAIN table \ DOMAIN op.rows)
    BY <1>8, <1>3 DEF Effects
  <2> QED
    BY <1>1, <2>1, RestrictIsTable
<1>9. CASE op.kind = "rename"
  <2>1. t \in {Put(op.rows, table) : s \in DOMAIN op.rows \cap DOMAIN table}
    BY <1>9, <1>3 DEF Effects
  <2> QED
    BY <1>2, <1>6, <1>9, <2>1 DEF Asks
<1>10. CASE op.kind \notin {"ack", "delete", "rename"} /\ New \in DOMAIN op.rows
  <2>1. t \in {Put(One(s, op.rows[New]), table) : s \in Free}
    BY <1>10, <1>3 DEF Effects
  <2>2. PICK s \in Free : t = Put(One(s, op.rows[New]), table)
    BY <2>1
  <2> QED
    BY <1>4, <1>5, <1>10, <2>2
<1>11. CASE op.kind = "restore" /\ New \notin DOMAIN op.rows
  <2>1. t \in {Put(One(s, "other"), table) : s \in Free}
    BY <1>11, <1>3 DEF Effects
  <2> QED
    BY <1>4, <2>1 DEF Contents
<1>12. CASE op.kind \notin {"ack", "delete", "rename", "restore"} /\ New \notin DOMAIN op.rows
  <2>1. t \in {Put(op.rows, table) : s \in DOMAIN op.rows \cap Free}
    BY <1>12, <1>3 DEF Effects
  <2> QED
    BY <1>2, <1>6, <1>12, <2>1 DEF Asks
<1> QED
  BY <1>7, <1>8, <1>9, <1>10, <1>11, <1>12

\* What Mutate puts among the writes under way.
Newest(kind, rows) ==
    [kind |-> kind, rows |-> rows,
     warned |-> OwnIpExcluded([kind |-> kind, rows |-> rows]),
     alone |-> list = "managers" /\ listed = <<table>>, latest |-> TRUE, st |-> "sent"]

Superseded(kind, op) == IF op.kind = kind THEN [op EXCEPT !.latest = FALSE] ELSE op

LEMMA MutateShape ==
    ASSUME NEW kind, NEW rows, Mutate(kind, rows)
    PROVE  flight' = {Superseded(kind, op) : op \in flight} \cup {Newest(kind, rows)}
BY DEF Mutate, Superseded, Newest

LEMMA NewestShape ==
    ASSUME RowsTypeOK, NEW kind, NEW rows, Asks(kind, rows)
    PROVE  Newest(kind, rows) \in Operations
<1>1. kind \in Kinds /\ rows \in RowSets
  BY AsksKind DEF Asks
<1>2. OwnIpExcluded([kind |-> kind, rows |-> rows]) \in BOOLEAN
  BY DEF OwnIpExcluded
<1> QED
  BY <1>1, <1>2 DEF Newest, Operations

LEMMA SupersededShape ==
    ASSUME NEW op \in Operations, NEW kind
    PROVE  /\ Superseded(kind, op) \in Operations
           /\ Superseded(kind, op).kind = op.kind /\ Superseded(kind, op).rows = op.rows
BY DEF Superseded, Operations

LEMMA MutateTypes ==
    ASSUME RowsTypeOK, Asking, list' = list, NEW kind, NEW rows, Asks(kind, rows),
           Mutate(kind, rows)
    PROVE  flight' \subseteq Operations /\ \A op \in flight' : Asks(op.kind, op.rows)
<1>1. flight \subseteq Operations
  BY DEF RowsTypeOK
<1>2. ASSUME NEW op \in flight
      PROVE  /\ Superseded(kind, op) \in Operations
             /\ Asks(Superseded(kind, op).kind, Superseded(kind, op).rows)
  BY <1>1, SupersededShape DEF Asking
<1>3. Newest(kind, rows) \in Operations
  BY NewestShape
<1>4. Newest(kind, rows).kind = kind /\ Newest(kind, rows).rows = rows
  BY DEF Newest
<1> QED
  BY <1>2, <1>3, <1>4, MutateShape

TypesInv == RowsTypeOK /\ Asking

LEMMA InitTypes == RowsInit => TypesInv
<1> SUFFICES ASSUME RowsInit PROVE TypesInv
  OBVIOUS
<1>1. 0 \in 0..MaxElsewhere \/ elsewhere \in 0..MaxElsewhere
  BY ElsewhereAssumption
<1> QED
  BY <1>1, ElsewhereAssumption DEF RowsInit, TypesInv, RowsTypeOK, Asking

LEMMA TypesStep == TypesInv /\ [RowsNext]_rowsVars => TypesInv'
<1> SUFFICES ASSUME TypesInv, [RowsNext]_rowsVars
             PROVE  TypesInv'
  OBVIOUS
<1> USE DEF TypesInv
<1>1. list' = list
  BY DEF RowsNext, rowsVars, Elsewhere, AskRows, AnswerRows, LandRows, ToggleId, ToggleAll,
         SelectVlan, Press, EnterIp, Cancel, CloseDialog, HandleConfirm, CarryOut, Succeed,
         Fail, Mutate
<1> USE <1>1, SameList
<1> USE DEF RowsTypeOK, Asking, tableVars, listVars, choiceVars, Quiet, Waiting
<1>2. ASSUME NEW new, new \in Tables, Elsewhere(new) PROVE TypesInv'
  <2>1. elsewhere' \in 0..MaxElsewhere
    BY <1>2, ElsewhereAssumption DEF Elsewhere
  <2>2. \A op \in flight : /\ [op EXCEPT !.alone = FALSE] \in Operations
                           /\ [op EXCEPT !.alone = FALSE].kind = op.kind
                           /\ [op EXCEPT !.alone = FALSE].rows = op.rows
    BY DEF Operations
  <2>3. ASSUME NEW x \in flight' PROVE x \in Operations /\ Asks(x.kind, x.rows)
    <3>1. x \in {[op EXCEPT !.alone = FALSE] : op \in flight}
      BY <1>2 DEF Elsewhere
    <3>2. PICK op \in flight : x = [op EXCEPT !.alone = FALSE]
      BY <3>1
    <3> QED
      BY <2>2, <3>2
  <2>4. RowsTypeOK'
    BY <1>2, <2>1, <2>3 DEF Elsewhere
  <2>5. Asking'
    BY <1>2, <2>3 DEF Elsewhere
  <2> QED
    BY <2>4, <2>5
<1>3. ASSUME NEW s \in Slots, s \in DOMAIN table,
             Elsewhere(Restrict(table, DOMAIN table \ {s}))
      PROVE  TypesInv'
  BY <1>2, <1>3, RestrictIsTable
<1>4. ASSUME NEW s \in Slots, NEW c \in Contents, Elsewhere(Put(One(s, c), table))
      PROVE  TypesInv'
  BY ZenonT(40), <1>2, <1>4, OneIsRow, PutIsTable
<1>5. CASE AskRows \/ AnswerRows \/ LandRows
  BY <1>5 DEF AskRows, AnswerRows, LandRows
<1>6. ASSUME NEW s \in Slots, ToggleId(s) \/ SelectVlan(s) PROVE TypesInv'
  BY <1>6 DEF ToggleId, SelectVlan
<1>7. CASE ToggleAll
  BY <1>7, EntriesShape DEF ToggleAll, RecentIds
<1>8. ASSUME NEW kind \in Buttons[list], NEW rows \in Offered(kind), Press(kind, rows)
      PROVE  TypesInv'
  <2>1. Asks(kind, rows)
    BY OfferedAsks
  <2>2. CASE Modal(kind)
    <3>1. list = "alerts" => kind = "delete"
      BY <2>2, <1>8 DEF Modal, Danger, Buttons
    <3>2. dialog' = <<[kind |-> kind, rows |-> IF list = "alerts" THEN <<>> ELSE rows]>>
      BY <1>8, <2>2 DEF Press
    <3>3. /\ dialog'[1].kind = kind
          /\ dialog'[1].rows = IF list = "alerts" THEN <<>> ELSE rows
          /\ dialog'[1] \in [kind: Kinds, rows: RowSets] /\ Len(dialog') = 1
      BY <2>1, <3>2, AsksKind, NoRows DEF Asks
    <3>4. Asks(dialog'[1].kind, dialog'[1].rows)
      BY <2>1, <3>1, <3>3, NoRows DEF Asks
    <3>5. RowsTypeOK'
      BY <1>8, <2>2, <3>3 DEF Press
    <3>6. Asking'
      BY <1>8, <2>2, <3>4 DEF Press
    <3> QED
      BY <3>5, <3>6
  <2>3. CASE ~Modal(kind)
    BY <1>8, <2>1, <2>3, MutateTypes DEF Press
  <2> QED
    BY <2>2, <2>3
<1>9. CASE EnterIp \/ Cancel
  BY <1>9 DEF EnterIp, Cancel, CloseDialog
<1>10. CASE HandleConfirm
  <2>1. CASE list = "alerts" /\ SelectedRefs = <<>>
    BY <1>10, <2>1 DEF HandleConfirm, CloseDialog
  <2>2. CASE list = "alerts" /\ SelectedRefs # <<>>
    <3>1. Asks("delete", SelectedRefs)
      BY <2>2, SelectedShape DEF Asks, Buttons
    <3> QED
      BY <1>10, <2>2, <3>1, MutateTypes DEF HandleConfirm
  <2>3. CASE list # "alerts"
    <3>1. Asks(dialog[1].kind, dialog[1].rows)
      BY <1>10 DEF HandleConfirm
    <3> QED
      BY <1>10, <2>3, <3>1, MutateTypes DEF HandleConfirm
  <2> QED
    BY <2>1, <2>2, <2>3
<1>11. ASSUME NEW op \in flight, CarryOut(op) PROVE TypesInv'
  <2>1. table' \in Tables
    BY <1>11, EffectsAreTables DEF CarryOut
  <2>2. /\ [op EXCEPT !.st = "applied"] \in Operations
        /\ [op EXCEPT !.st = "applied"].kind = op.kind
        /\ [op EXCEPT !.st = "applied"].rows = op.rows
    BY DEF Operations
  <2>3. RowsTypeOK'
    BY <1>11, <2>1, <2>2 DEF CarryOut
  <2>4. \A x \in flight' : Asks(x.kind, x.rows)
    BY <1>11, <2>2 DEF CarryOut
  <2>5. Asking'
    BY <1>11, <2>4 DEF CarryOut
  <2> QED
    BY <2>3, <2>5
<1>12. ASSUME NEW op \in flight, Succeed(op) PROVE TypesInv'
  BY <1>12 DEF Succeed
<1>13. ASSUME NEW op \in flight, Fail(op) PROVE TypesInv'
  BY <1>13 DEF Fail
<1>14. CASE UNCHANGED rowsVars
  BY <1>14 DEF rowsVars
<1> QED
  BY <1>3, <1>4, <1>5, <1>6, <1>7, <1>8, <1>9, <1>10, <1>11, <1>12, <1>13, <1>14 DEF RowsNext

-----------------------------------------------------------------------------
(***************************************************************************)
(* Rows: the dialogs.                                                      *)
(***************************************************************************)
\* The dialog that is open is one that guards its write, of which there is one at
\* most, and no later call has taken its place.
FlightInv ==
    /\ RowsModal
    /\ dialog # <<>> => Modal(dialog[1].kind)
    /\ \A op \in flight : Modal(op.kind) \/ list # "backups" => op.latest
    /\ dialog # <<>> /\ list # "backups" => \A op \in flight : op.kind = dialog[1].kind
    /\ \A op, other \in flight : Modal(op.kind) /\ other.kind = op.kind => op = other

\* A button that is enabled while no dialog is open: nothing is under way, except
\* for backups.
LEMMA PressClear ==
    ASSUME TypesInv, FlightInv, NEW kind \in Buttons[list], NEW rows,
           dialog = <<>>, ~Disabled(kind, rows)
    PROVE  /\ \A op \in flight : ~Modal(op.kind)
           /\ list # "backups" => flight = {}
<1>1. \A op \in flight : ~Modal(op.kind)
  BY DEF FlightInv, RowsModal
<1>2. ASSUME list # "backups", NEW op \in flight PROVE FALSE
  <2>1. op.kind \in Buttons[list] /\ op.latest
    BY <1>2 DEF TypesInv, Asking, Asks, FlightInv
  <2>2. list \notin {"managers", "vlans"}
    BY <1>1 DEF Modal, Danger
  <2>3. list \in {"alerts", "cos", "user_pri"}
    BY <1>2, <2>2 DEF TypesInv, RowsTypeOK, Lists
  <2> QED
    BY <2>1, <2>3 DEF Disabled, IsPending
<1> QED
  BY <1>1, <1>2

\* A dialog whose button is enabled: no write of its kind is under way.
LEMMA ConfirmClear ==
    ASSUME FlightInv, dialog # <<>>, ~IsPending(dialog[1].kind)
    PROVE  /\ \A op \in flight : op.kind # dialog[1].kind
           /\ list # "backups" => flight = {}
<1>1. ASSUME NEW op \in flight, op.kind = dialog[1].kind PROVE FALSE
  BY <1>1 DEF FlightInv, IsPending
<1> QED
  BY <1>1 DEF FlightInv

LEMMA MutateFlight ==
    ASSUME TypesInv, FlightInv, list' = list, NEW kind, NEW rows, Mutate(kind, rows),
           UNCHANGED <<dialog, entered>>,
           list # "backups" => flight = {},
           Modal(kind) => /\ dialog # <<>> /\ dialog[1].kind = kind
                          /\ \A op \in flight : op.kind # kind,
           Danger(kind) => entered,
           dialog # <<>> /\ list # "backups" => dialog[1].kind = kind
    PROVE  FlightInv'
<1> USE SameList
<1>1. \A op \in flight : op \in Operations
  BY DEF TypesInv, RowsTypeOK
<1>2. ASSUME NEW x \in flight'
      PROVE  \/ x = Newest(kind, rows)
             \/ list = "backups" /\ \E op \in flight :
                   x = Superseded(kind, op) /\ x.kind = op.kind /\ (op.kind # kind => x = op)
  <2>1. CASE x = Newest(kind, rows)
    BY <2>1
  <2>2. CASE x \in {Superseded(kind, op) : op \in flight}
    <3>1. PICK op \in flight : x = Superseded(kind, op)
      BY <2>2
    <3>2. x.kind = op.kind /\ (op.kind # kind => x = op)
      BY <1>1, <3>1, SupersededShape DEF Superseded
    <3> QED
      BY <3>1, <3>2
  <2> QED
    BY <2>1, <2>2, MutateShape
<1>3. Newest(kind, rows).kind = kind /\ Newest(kind, rows).latest
  BY DEF Newest
<1>4. Danger(kind) => Modal(kind)
  BY DEF Modal
<1>5. RowsModal'
  BY <1>2, <1>3, <1>4 DEF FlightInv, RowsModal
<1>6. \A op \in flight' : Modal(op.kind) \/ list # "backups" => op.latest
  BY <1>2, <1>3 DEF FlightInv, RowsModal
<1>7. \A op, other \in flight' : Modal(op.kind) /\ other.kind = op.kind => op = other
  BY <1>2, <1>3 DEF FlightInv, RowsModal
<1>8. dialog' # <<>> /\ list # "backups" => \A op \in flight' : op.kind = dialog[1].kind
  BY <1>2, <1>3
<1> QED
  BY <1>5, <1>6, <1>7, <1>8 DEF FlightInv

LEMMA FlightStep == TypesInv /\ FlightInv /\ [RowsNext]_rowsVars => FlightInv'
<1> SUFFICES ASSUME TypesInv, FlightInv, [RowsNext]_rowsVars
             PROVE  FlightInv'
  OBVIOUS
<1>1. list' = list
  BY DEF RowsNext, rowsVars, Elsewhere, AskRows, AnswerRows, LandRows, ToggleId, ToggleAll,
         SelectVlan, Press, EnterIp, Cancel, CloseDialog, HandleConfirm, CarryOut, Succeed,
         Fail, Mutate
<1>2. flight \subseteq Operations
  BY DEF TypesInv, RowsTypeOK
<1> USE <1>1, SameList
<1>3. ASSUME NEW new, Elsewhere(new) PROVE FlightInv'
  <2> DEFINE Alone(op) == [op EXCEPT !.alone = FALSE]
  <2>1. ASSUME NEW x \in flight' PROVE \E op \in flight : x = Alone(op)
    <3>1. x \in {Alone(op) : op \in flight}
      BY <1>3 DEF Elsewhere
    <3> QED
      BY <3>1
  <2>2. \A op \in flight : Alone(op).kind = op.kind /\ Alone(op).latest = op.latest
    BY <1>2 DEF Operations
  <2> HIDE DEF Alone
  <2> QED
    BY <1>3, <2>1, <2>2 DEF Elsewhere, FlightInv, RowsModal
<1>4. CASE AskRows \/ AnswerRows \/ LandRows
  BY <1>4 DEF AskRows, AnswerRows, LandRows, FlightInv, RowsModal
<1>5. ASSUME NEW s \in Slots, ToggleId(s) \/ SelectVlan(s) PROVE FlightInv'
  BY <1>5 DEF ToggleId, SelectVlan, FlightInv, RowsModal
<1>6. CASE ToggleAll
  BY <1>6 DEF ToggleAll, FlightInv, RowsModal
<1>7. ASSUME NEW kind \in Buttons[list], NEW rows \in Offered(kind), Press(kind, rows)
      PROVE  FlightInv'
  <2>1. /\ dialog = <<>>
        /\ \A op \in flight : ~Modal(op.kind)
        /\ list # "backups" => flight = {}
    BY <1>7, PressClear DEF Press
  <2>2. CASE Modal(kind)
    <3>1. dialog' = <<[kind |-> kind, rows |-> IF list = "alerts" THEN <<>> ELSE rows]>>
      BY <1>7, <2>2 DEF Press
    <3>2. dialog' # <<>> /\ dialog'[1].kind = kind
      BY <3>1
    <3>3. \A op \in flight : ~Danger(op.kind)
      BY <2>1 DEF Modal
    <3>4. flight' = flight
      BY <1>7, <2>2 DEF Press
    <3> QED
      BY <2>1, <2>2, <3>2, <3>3, <3>4 DEF FlightInv, RowsModal
  <2>3. CASE ~Modal(kind)
    <3>1. ~Danger(kind)
      BY <2>3 DEF Modal
    <3> QED
      BY <1>7, <2>1, <2>3, <3>1, MutateFlight DEF Press
  <2> QED
    BY <2>2, <2>3
<1>8. CASE EnterIp
  BY <1>8 DEF EnterIp, FlightInv, RowsModal
<1>9. ASSUME CloseDialog, dialog # <<>>, ~IsPending(dialog[1].kind) PROVE FlightInv'
  BY <1>9, ConfirmClear DEF CloseDialog, FlightInv, RowsModal, Modal
<1>10. CASE Cancel
  BY <1>9, <1>10 DEF Cancel
<1>11. CASE HandleConfirm
  <2>1. dialog # <<>> /\ ~IsPending(dialog[1].kind) /\ (Danger(dialog[1].kind) => entered)
    BY <1>11 DEF HandleConfirm
  <2>2. /\ \A op \in flight : op.kind # dialog[1].kind
        /\ list # "backups" => flight = {}
    BY <2>1, ConfirmClear
  <2>3. list = "alerts" => dialog[1].kind = "delete"
    BY <2>1 DEF TypesInv, Asking, Asks, Buttons, FlightInv, Modal, Danger
  <2>4. CASE list = "alerts" /\ SelectedRefs = <<>>
    BY <1>9, <1>11, <2>1, <2>4 DEF HandleConfirm
  <2>5. CASE list = "alerts" /\ SelectedRefs # <<>>
    BY <1>11, <2>1, <2>2, <2>3, <2>5, MutateFlight DEF HandleConfirm
  <2>6. CASE list # "alerts"
    BY <1>11, <2>1, <2>2, <2>6, MutateFlight DEF HandleConfirm
  <2> QED
    BY <2>4, <2>5, <2>6
<1>12. ASSUME NEW op \in flight, CarryOut(op) PROVE FlightInv'
  <2> DEFINE Applied == [op EXCEPT !.st = "applied"]
  <2>1. Applied.kind = op.kind /\ Applied.latest = op.latest
    BY <1>2 DEF Operations
  <2>2. flight' = (flight \ {op}) \cup {Applied}
    BY <1>12 DEF CarryOut
  <2> HIDE DEF Applied
  <2> QED
    BY <1>12, <2>1, <2>2 DEF CarryOut, FlightInv, RowsModal
<1>13. ASSUME NEW op \in flight, Succeed(op) PROVE FlightInv'
  <2>1. flight' = flight \ {op}
    BY <1>13 DEF Succeed
  <2>2. CASE Modal(op.kind)
    <3>1. dialog # <<>> /\ dialog[1].kind = op.kind /\ op.latest
      BY <2>2 DEF FlightInv, RowsModal
    <3>2. \A x \in flight' : ~Modal(x.kind)
      BY <2>1, <2>2, <3>1 DEF FlightInv, RowsModal
    <3>3. dialog' = <<>> /\ entered' = entered
      BY <1>13, <2>2, <3>1 DEF Succeed
    <3> QED
      BY <2>1, <3>2, <3>3 DEF FlightInv, RowsModal, Modal
  <2>3. CASE ~Modal(op.kind)
    BY <1>13, <2>1, <2>3 DEF Succeed, FlightInv, RowsModal
  <2> QED
    BY <2>2, <2>3
<1>14. ASSUME NEW op \in flight, Fail(op) PROVE FlightInv'
  BY <1>14 DEF Fail, FlightInv, RowsModal
<1>15. CASE UNCHANGED rowsVars
  BY <1>15 DEF rowsVars, FlightInv, RowsModal
<1> QED
  BY <1>3, <1>4, <1>5, <1>6, <1>7, <1>8, <1>10, <1>11, <1>12, <1>13, <1>14, <1>15 DEF RowsNext

-----------------------------------------------------------------------------
(***************************************************************************)
(* Rows: what was ticked, and what was warned about.                       *)
(***************************************************************************)
\* The contents of the table once a write under way is carried out.
After(op) ==
    IF op.kind = "delete"
    THEN Range(Restrict(table, DOMAIN table \ DOMAIN op.rows))
    ELSE Range(table) \cup Range(op.rows)

\* A write that was sent from the rows that the switch has: its warning was about
\* the rows that it leaves, or has left.
Foreseen(op) ==
    op.alone => /\ list = "managers"
                /\ op.st = "sent" /\ Excludes(After(op)) => op.warned
                /\ op.st = "applied" /\ Excludes(Range(table)) => op.warned

WarnedInv == ticked \subseteq pointed /\ \A op \in flight : Foreseen(op)

LEMMA NewestForeseen ==
    ASSUME NEW kind, NEW rows
    PROVE  Foreseen(Newest(kind, rows))
<1> DEFINE new == Newest(kind, rows)
<1> SUFFICES ASSUME new.alone
             PROVE  list = "managers" /\ new.st = "sent" /\ (Excludes(After(new)) => new.warned)
  BY DEF Foreseen, Newest
<1>1. list = "managers" /\ listed = <<table>>
  BY DEF Newest
<1>2. Entries = table
  BY <1>1 DEF Entries
<1>3. Prospective([kind |-> kind, rows |-> rows]) = After(new)
  BY <1>2 DEF Prospective, After, Newest
<1>4. new.warned = OwnIpExcluded([kind |-> kind, rows |-> rows]) /\ new.st = "sent"
  BY DEF Newest
<1> QED
  BY <1>1, <1>3, <1>4 DEF OwnIpExcluded

\* A row that is added to the managers adds its content.
LEMMA RangeOfPut ==
    ASSUME NEW t, NEW s, s \notin DOMAIN t, NEW c
    PROVE  Range(Put(One(s, c), t)) = Range(t) \cup {c}
<1>1. DOMAIN Put(One(s, c), t) = {s} \cup DOMAIN t
  BY DEF Put, One
<1>2. Put(One(s, c), t)[s] = c /\ \A x \in DOMAIN t : Put(One(s, c), t)[x] = t[x]
  BY DEF Put, One
<1> QED
  BY <1>1, <1>2 DEF Range

LEMMA CarriedForeseen ==
    ASSUME TypesInv, FlightInv, WarnedInv, NEW op \in flight, CarryOut(op), list' = list
    PROVE  \A x \in flight' : Foreseen(x)'
<1> DEFINE Applied == [op EXCEPT !.st = "applied"]
<1>1. op \in Operations /\ Asks(op.kind, op.rows)
  BY DEF TypesInv, RowsTypeOK, Asking
<1>2. Applied.alone = op.alone /\ Applied.warned = op.warned /\ Applied.st = "applied"
  BY <1>1 DEF Operations
<1>3. flight' = (flight \ {op}) \cup {Applied}
  BY DEF CarryOut
<1> HIDE DEF Applied
<1>4. ASSUME list # "managers", NEW x \in flight' PROVE ~x.alone
  BY <1>2, <1>3, <1>4 DEF WarnedInv, Foreseen
<1>5. CASE list = "managers"
  <2>1. flight = {op}
    BY <1>5 DEF FlightInv, RowsModal
  <2>2. flight' = {Applied}
    BY <1>3, <2>1
  <2>3. op.st = "sent" /\ table' \in Effects(op)
    BY DEF CarryOut
  <2>4. op.kind \in {"add", "delete"}
    BY <1>1, <1>5 DEF Asks, Buttons
  <2>5. CASE op.kind = "delete"
    <3>1. New \notin DOMAIN op.rows
      BY <1>1, <2>5, SlotsAssumption DEF Asks
    <3>2. table' = Restrict(table, DOMAIN table \ DOMAIN op.rows)
      BY <2>3, <2>5, <3>1 DEF Effects
    <3>3. Range(table)' = After(op)
      BY <2>5, <3>2 DEF After, Range
    <3> QED
      BY <1>2, <1>5, <2>2, <2>3, <3>3 DEF WarnedInv, Foreseen, Excludes
  <2>6. CASE op.kind = "add"
    <3>1. DOMAIN op.rows = {New}
      BY <1>1, <1>5, <2>6 DEF Asks
    <3>2. table' \in {Put(One(s, op.rows[New]), table) : s \in Slots \ DOMAIN table}
      BY <2>3, <2>6, <3>1 DEF Effects
    <3>3. PICK s \in Slots \ DOMAIN table : table' = Put(One(s, op.rows[New]), table)
      BY <3>2
    <3>4. Range(table') = Range(table) \cup {op.rows[New]}
      BY <3>3, RangeOfPut
    <3>5. Range(op.rows) = {op.rows[New]}
      BY <3>1 DEF Range
    <3>6. Range(table') = After(op)
      BY <2>6, <3>4, <3>5 DEF After
    <3> QED
      BY <1>2, <1>5, <2>2, <2>3, <3>6 DEF WarnedInv, Foreseen, Excludes
  <2> QED
    BY <2>4, <2>5, <2>6
<1> QED
  BY <1>4, <1>5 DEF Foreseen

LEMMA MutateForeseen ==
    ASSUME TypesInv, WarnedInv, list' = list, table' = table,
           NEW kind, NEW rows, Mutate(kind, rows)
    PROVE  \A x \in flight' : Foreseen(x)'
<1>1. ASSUME NEW op \in flight PROVE Foreseen(Superseded(kind, op))
  <2>1. op \in Operations /\ Foreseen(op)
    BY DEF TypesInv, RowsTypeOK, WarnedInv
  <2>2. LET x == Superseded(kind, op)
        IN  /\ x.alone = op.alone /\ x.warned = op.warned /\ x.st = op.st
            /\ x.kind = op.kind /\ x.rows = op.rows
    BY <2>1 DEF Superseded, Operations
  <2> QED
    BY <2>1, <2>2 DEF Foreseen, After
<1>2. \A x \in flight' : Foreseen(x)
  BY <1>1, MutateShape, NewestForeseen
<1> QED
  BY <1>2 DEF Foreseen, After

LEMMA WarnedStep ==
    TypesInv /\ FlightInv /\ WarnedInv /\ [RowsNext]_rowsVars => WarnedInv'
<1> SUFFICES ASSUME TypesInv, FlightInv, WarnedInv, [RowsNext]_rowsVars
             PROVE  WarnedInv'
  OBVIOUS
<1>1. list' = list
  BY DEF RowsNext, rowsVars, Elsewhere, AskRows, AnswerRows, LandRows, ToggleId, ToggleAll,
         SelectVlan, Press, EnterIp, Cancel, CloseDialog, HandleConfirm, CarryOut, Succeed,
         Fail, Mutate
<1>2. ASSUME table' = table, flight' \subseteq flight, ticked' \subseteq pointed'
      PROVE  WarnedInv'
  BY <1>1, <1>2 DEF WarnedInv, Foreseen, After
<1> USE DEF choiceVars, tableVars
<1>3. ASSUME NEW new, Elsewhere(new) PROVE WarnedInv'
  <2>1. ASSUME NEW x \in flight' PROVE ~x.alone
    <3>1. x \in {[op EXCEPT !.alone = FALSE] : op \in flight}
      BY <1>3 DEF Elsewhere
    <3> QED
      BY <3>1 DEF TypesInv, RowsTypeOK, Operations
  <2> QED
    BY <1>3, <2>1 DEF Elsewhere, WarnedInv, Foreseen
<1>4. CASE AskRows \/ AnswerRows \/ LandRows
  BY <1>2, <1>4 DEF AskRows, AnswerRows, LandRows, WarnedInv
<1>5. ASSUME NEW s \in Slots, ToggleId(s) \/ SelectVlan(s) PROVE WarnedInv'
  BY <1>2, <1>5 DEF ToggleId, SelectVlan, WarnedInv
<1>6. CASE ToggleAll
  BY <1>2, <1>6 DEF ToggleAll, RecentIds, WarnedInv
<1>7. ASSUME NEW kind \in Buttons[list], NEW rows \in Offered(kind), Press(kind, rows)
      PROVE  WarnedInv'
  <2>1. CASE Modal(kind)
    BY <1>2, <1>7, <2>1 DEF Press, WarnedInv
  <2>2. CASE ~Modal(kind)
    BY <1>1, <1>7, <2>2, MutateForeseen DEF Press, WarnedInv
  <2> QED
    BY <2>1, <2>2
<1>8. CASE EnterIp \/ Cancel
  BY <1>2, <1>8 DEF EnterIp, Cancel, CloseDialog, WarnedInv
<1>9. CASE HandleConfirm
  BY <1>1, <1>2, <1>9, MutateForeseen DEF HandleConfirm, CloseDialog, WarnedInv
<1>10. ASSUME NEW op \in flight, CarryOut(op) PROVE WarnedInv'
  BY <1>1, <1>10, CarriedForeseen DEF CarryOut, WarnedInv
<1>11. ASSUME NEW op \in flight, Succeed(op) PROVE WarnedInv'
  BY <1>2, <1>11 DEF Succeed, WarnedInv
<1>12. ASSUME NEW op \in flight, Fail(op) PROVE WarnedInv'
  BY <1>2, <1>12 DEF Fail, WarnedInv
<1>13. CASE UNCHANGED rowsVars
  BY <1>2, <1>13 DEF rowsVars, WarnedInv
<1> QED
  BY <1>3, <1>4, <1>5, <1>6, <1>7, <1>8, <1>9, <1>10, <1>11, <1>12, <1>13 DEF RowsNext

\* What OnlyPointedAt says of a step.
NamesPointedAt ==
    \A op \in flight' \ flight :
        list = "alerts" /\ op.st = "sent" => DOMAIN op.rows \subseteq pointed \cap OnScreen

LEMMA PointedStep ==
    TypesInv /\ FlightInv /\ WarnedInv /\ [RowsNext]_rowsVars => NamesPointedAt
<1> SUFFICES ASSUME TypesInv, FlightInv, WarnedInv, [RowsNext]_rowsVars,
                    NEW op \in flight' \ flight, list = "alerts", op.st = "sent"
             PROVE  DOMAIN op.rows \subseteq pointed \cap OnScreen
  BY DEF NamesPointedAt
<1> USE DEF choiceVars, tableVars, listVars
<1>1. DOMAIN SelectedRefs \subseteq pointed \cap OnScreen
  BY SelectedShape DEF TypesInv, WarnedInv
<1>2. ASSUME NEW kind, Mutate(kind, SelectedRefs), flight = {}
      PROVE  DOMAIN op.rows \subseteq pointed \cap OnScreen
  <2>1. op = Newest(kind, SelectedRefs)
    BY <1>2, MutateShape
  <2> QED
    BY <1>1, <2>1 DEF Newest
<1>3. ASSUME NEW new, Elsewhere(new) PROVE FALSE
  <2>1. op \in {[x EXCEPT !.alone = FALSE] : x \in flight}
    BY <1>3 DEF Elsewhere
  <2>2. PICK x \in flight : op = [x EXCEPT !.alone = FALSE]
    BY <2>1
  <2>3. x \in Operations /\ x.alone = FALSE
    BY DEF TypesInv, RowsTypeOK, Operations, WarnedInv, Foreseen
  <2>4. op = x
    BY <2>2, <2>3 DEF Operations
  <2> QED
    BY <2>4
<1>4. ASSUME NEW kind \in Buttons[list], NEW rows \in Offered(kind), Press(kind, rows)
      PROVE  DOMAIN op.rows \subseteq pointed \cap OnScreen
  <2>1. rows = SelectedRefs
    BY DEF Offered
  <2>2. flight = {}
    BY <1>4, PressClear DEF Press
  <2>3. Mutate(kind, SelectedRefs)
    BY <1>4, <2>1 DEF Press
  <2> QED
    BY <1>2, <2>2, <2>3
<1>5. CASE HandleConfirm
  <2>1. flight = {}
    BY <1>5, ConfirmClear DEF HandleConfirm
  <2>2. Mutate("delete", SelectedRefs)
    BY <1>5 DEF HandleConfirm, CloseDialog
  <2> QED
    BY <1>2, <2>1, <2>2
<1>6. ASSUME NEW x \in flight, CarryOut(x) PROVE FALSE
  BY <1>6 DEF CarryOut, TypesInv, RowsTypeOK, Operations
<1> QED
  BY <1>3, <1>4, <1>5, <1>6
  DEF RowsNext, rowsVars, AskRows, AnswerRows, LandRows, ToggleId, ToggleAll, SelectVlan,
      EnterIp, Cancel, CloseDialog, Succeed, Fail

-----------------------------------------------------------------------------
(***************************************************************************)
(* The desk.                                                               *)
(***************************************************************************)
DeskInv == FormsInv /\ TypesInv /\ FlightInv /\ WarnedInv

LEMMA DeskInit_Inv == DeskInit => DeskInv
<1> SUFFICES ASSUME DeskInit PROVE DeskInv
  OBVIOUS
<1>1. FormsInv
  BY DEF DeskInit, FormsInit, FormsInv, FormsModal, Pending, Idle
<1>2. TypesInv
  BY InitTypes DEF DeskInit
<1>3. FlightInv /\ WarnedInv
  BY DEF DeskInit, RowsInit, FlightInv, RowsModal, WarnedInv
<1> QED
  BY <1>1, <1>2, <1>3 DEF DeskInv

LEMMA DeskSteps ==
    [DeskNext]_deskVars => [FormsNext]_formVars /\ [RowsNext]_rowsVars
BY DEF DeskNext, deskVars

\* The invariant behind the three theorems below.
LEMMA DeskInvariant == DeskSpec => []DeskInv
<1>1. DeskInv /\ [DeskNext]_deskVars => DeskInv'
  BY DeskSteps, FormsInvStep, TypesStep, FlightStep, WarnedStep DEF DeskInv
<1> QED
  BY <1>1, DeskInit_Inv, PTL DEF DeskSpec

\* The tables: rows, what was read of them, and what was asked for stay of their types,
\* for any slots and any table of cards.
THEOREM RowsTypesCorrect == DeskSpec => []RowsTypeOK
<1>1. DeskInv => RowsTypeOK
  BY DEF DeskInv, TypesInv
<1> QED
  BY <1>1, DeskInvariant, PTL

\* DangerConfirmDialog and ConfirmDialog: for any cards and any tables, no write that
\* they guard is under way but under its own open dialog, for which the IP was typed.
THEOREM ModalCorrect == DeskSpec => []ModalHolds
<1>1. DeskInv => ModalHolds
  BY DEF DeskInv, FormsInv, FlightInv, ModalHolds
<1> QED
  BY <1>1, DeskInvariant, PTL

\* The warning of WebManagersCard: a write that leaves the list of managers without
\* the address of the browser was warned about, unless others wrote as well.
THEOREM LockoutCorrect == DeskSpec => []LockoutWarned
<1>1. DeskInv => LockoutWarned
  BY DEF DeskInv, WarnedInv, Foreseen, LockoutWarned
<1> QED
  BY <1>1, DeskInvariant, PTL

\* StatusOverviewPage: an acknowledgement or a deletion names only alerts that the
\* operator ticked and sees, whatever was read since.
THEOREM PointedCorrect == DeskSpec => OnlyPointedAt
<1>1. DeskInv /\ [DeskNext]_deskVars => [NamesPointedAt]_rowsVars
  BY DeskSteps, PointedStep DEF DeskInv
<1> QED
  BY <1>1, DeskInvariant, PTL DEF DeskSpec, OnlyPointedAt, NamesPointedAt

\* The invariant behind the theorems about the cards, for any table that fits.
LEMMA CardInvariant == Fitting => (DeskSpec => []CardInv)
<1> SUFFICES ASSUME Fitting PROVE DeskSpec => []CardInv
  OBVIOUS
<1>1. DeskInit => CardInv
  BY TypesOfInit DEF DeskInit, CardInv
<1>2. CardInv /\ [DeskNext]_deskVars => CardInv'
  BY DeskSteps, CardInvStep
<1> QED
  BY <1>1, <1>2, PTL DEF DeskSpec

LEMMA FrontendFits == Card = AllCards => Fitting
BY AllCardsFit DEF Fitting

\* Cards and tables stay of their types, for the cards of the frontend, any slots and
\* any number of changes by others: a card never lays a value into its form, and never
\* sends one, that the form or the switch does not know.
THEOREM DeskTypesCorrect == Card = AllCards => (DeskSpec => []DeskTypeOK)
<1> SUFFICES ASSUME Card = AllCards PROVE DeskSpec => []DeskTypeOK
  OBVIOUS
<1>1. DeskSpec => []CardInv
  BY CardInvariant, FrontendFits
<1>2. DeskSpec => [](at \in {"card", "rows"})
  <2>1. DeskInit => at \in {"card", "rows"}
    BY DEF DeskInit
  <2>2. at \in {"card", "rows"} /\ [DeskNext]_deskVars => (at \in {"card", "rows"})'
    BY DEF DeskNext, deskVars
  <2> QED
    BY <2>1, <2>2, PTL DEF DeskSpec
<1>3. at \in {"card", "rows"} /\ CardInv /\ RowsTypeOK => DeskTypeOK
  BY DEF CardInv, DeskTypeOK
<1> QED
  BY <1>1, <1>2, <1>3, RowsTypesCorrect, PTL

\* One Save, however many requests it takes: when the last one is carried out, and
\* nobody else has written since the card read, the switch has what the card showed.
THEOREM LandsCorrect == Card = AllCards => (DeskSpec => []LandsAsShown)
<1> SUFFICES ASSUME Card = AllCards PROVE DeskSpec => []LandsAsShown
  OBVIOUS
<1>1. DeskSpec => []CardInv
  BY CardInvariant, FrontendFits
<1>2. CardInv => LandsAsShown
  BY SentLands DEF CardInv
<1> QED
  BY <1>1, <1>2, PTL

\* The buttons of the cards, but those of the two CoS tables, are enabled for forms only
\* that the request models of the API accept, also behind a dialog under which the data
\* were replaced.
THEOREM AcceptedCorrect == Card = AllCards => (DeskSpec => []SendsAccepted)
<1> SUFFICES ASSUME Card = AllCards PROVE DeskSpec => []SendsAccepted
  OBVIOUS
<1>1. DeskSpec => []CardInv
  BY CardInvariant, FrontendFits
<1>2. CardInv => SendsAccepted
  BY SentAccepted DEF CardInv
<1> QED
  BY <1>1, <1>2, PTL

\* useServerSync: whatever was read since, a field to which the operator gave no other
\* value is sent as the card carries what was read, so that an edit of one field is a
\* write of another only where Cards lists it.
THEOREM UntouchedCorrect == Card = AllCards => (DeskSpec => UntouchedAsCarried)
<1> SUFFICES ASSUME Card = AllCards PROVE DeskSpec => UntouchedAsCarried
  OBVIOUS
<1>1. DeskSpec => []CardInv
  BY CardInvariant, FrontendFits
<1>2. CardInv /\ [DeskNext]_deskVars => [SendsAsCarried]_formVars
  BY FrontendFits, DeskSteps, AsCarriedStep
<1> QED
  BY <1>1, <1>2, PTL DEF DeskSpec, UntouchedAsCarried, SendsAsCarried
=============================================================================
