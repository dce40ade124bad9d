------------------------------ MODULE Shipments ------------------------------
(***************************************************************************)
(* Shipments: handle_shipment_POST() numbers new ones from one counter and *)
(* inserts them, handle_shipment_PUT() adds a tracking event to all that   *)
(* are named, or replaces the one whose number stands in the form of a     *)
(* browser with the rest of that form.  Every worker makes one database call after the other, a call *)
(* may fail, unheard or not, and update_many() goes from document to       *)
(* document.  Shipments are named by their order of insertion: nothing     *)
(* ever deletes one.                                                       *)
(***************************************************************************)
EXTENDS Integers, Sequences, FiniteSets

CONSTANTS Worker, Browser,
          Char, Prefix,    \* characters; awbPrefix of the accounts
          Default,         \* "AWB"
          Digits,          \* nine digits for every value of the counter
          Typed,           \* numbers that are typed by hand
          Event,           \* tracking events that are added
          Delivered,       \* one of them, "Proof of Delivery"
          Created, Blank,  \* "Document Created", and the event of an empty form
          MaxNumbers,      \* bound: values of the counter, as long as they have nine digits
          MaxRows,         \* bound: shipments of one request
          MaxShipments,    \* bound: shipments ever inserted
          MaxUpdates,      \* bound: updates
          MaxAsked,        \* bound: look-ups a browser waits for
          MaxFaults        \* bound: database calls that fail

ASSUME ShipmentAssumption ==
  /\ Prefix \subseteq Seq(Char) /\ Default \in Prefix /\ Typed \subseteq Seq(Char)
  /\ MaxNumbers \in Nat
  /\ Digits \in [1..MaxNumbers -> Seq(Char)]
  /\ \A m, n \in 1..MaxNumbers :
       Len(Digits[m]) = Len(Digits[n]) /\ (Digits[m] = Digits[n] => m = n)
  /\ Delivered \in Event \ {Created, Blank}
  /\ {MaxRows, MaxShipments, MaxUpdates, MaxAsked, MaxFaults} \subseteq Nat

VARIABLES counter,   \* counters, "awbno"
          shipments, \* shipping: [number, draw: the counter value behind it or 0,
                     \* goods: which shipment it is about, history,
                     \* typed: that a number was typed over these goods]
          forms,     \* what the forms of the browsers hold
          asked,     \* the answers to look-ups that the browsers wait for
          job,       \* the request every worker is busy with
          updates, faults

formVars == <<forms, asked>>
vars == <<counter, shipments, formVars, job, updates, faults>>

----------------------------------------------------------------------------
Idle == [at |-> "idle"]
NoNumber == <<>>

\* A call that fails counts against the bound; the others leave it alone.
Fault == faults < MaxFaults /\ faults' = faults + 1
Outcome(works) == IF works THEN UNCHANGED faults ELSE Fault

At(w, where) == job[w].at = where
Over(w) == job' = [job EXCEPT ![w] = Idle]

Row == [auto : {TRUE}, text : Prefix] \cup [auto : {FALSE}, text : Typed]

Init ==
  /\ counter = 0
  /\ shipments = <<>>
  /\ forms = [b \in Browser |->
                [number |-> NoNumber, goods |-> 0, event |-> Blank, typed |-> FALSE]]
  /\ asked = [b \in Browser |-> {}]
  /\ job = [w \in Worker |-> Idle]
  /\ updates = 0 /\ faults = 0

----------------------------------------------------------------------------
(* POST /api/v1/shipment/shipping and /api/v1/shipment/bulk/shipping.      *)

Post(w, rows) ==
  /\ job[w] = Idle
  /\ job' = [job EXCEPT ![w] = [at |-> "rows", rows |-> rows, docs |-> <<>>]]
  /\ UNCHANGED <<counter, shipments, formVars, updates, faults>>

\* The row in hand has its number, or none.
Numbered(w, number, draw) ==
  job' = [job EXCEPT ![w] = [at |-> "rows", rows |-> Tail(job[w].rows),
            docs |-> Append(job[w].docs, [number |-> number, draw |-> draw])]]

KeepTyped(w) ==
  /\ At(w, "rows") /\ job[w].rows # <<>>
  /\ ~Head(job[w].rows).auto
  /\ Numbered(w, Head(job[w].rows).text, 0)
  /\ UNCHANGED <<counter, shipments, formVars, updates, faults>>

\* The account that cannot be read has the prefix of those that have none.
ReadPrefix(w) ==
  /\ At(w, "rows") /\ job[w].rows # <<>>
  /\ Head(job[w].rows).auto
  /\ \E works \in BOOLEAN :
       /\ Outcome(works)
       /\ job' = [job EXCEPT ![w] =
            [at |-> "number", rows |-> job[w].rows, docs |-> job[w].docs,
             prefix |-> IF works THEN Head(job[w].rows).text ELSE Default]]
  /\ UNCHANGED <<counter, shipments, formVars, updates>>

\* Mutant: the shipments there are give the next value.
DrawCounted(w) ==
  /\ At(w, "number") /\ Len(shipments) < MaxNumbers
  /\ counter' = Len(shipments) + 1
  /\ Numbered(w, job[w].prefix \o Digits[counter'], counter')
  /\ UNCHANGED <<shipments, formVars, updates, faults>>

\* next_awbno(): one find_one_and_update() that increments and returns.
DrawNumber(w) ==
  /\ At(w, "number") /\ counter < MaxNumbers
  /\ counter' = counter + 1
  /\ Numbered(w, job[w].prefix \o Digits[counter + 1], counter + 1)
  /\ UNCHANGED <<shipments, formVars, updates, faults>>

\* It is not looked at whether next_awbno() returned a number.
DrawFails(w) ==
  /\ At(w, "number")
  /\ Fault
  /\ counter' \in {counter} \cup {n \in {counter + 1} : n <= MaxNumbers}
  /\ Numbered(w, NoNumber, 0)
  /\ UNCHANGED <<shipments, formVars, updates>>

\* insert_one(), or one document of insert_many().  The answer may be lost
\* when all is done, and whoever asked may ask again: a new request.
InsertOne(w) ==
  /\ At(w, "rows") /\ job[w].rows = <<>> /\ job[w].docs # <<>>
  /\ Len(shipments) < MaxShipments
  /\ shipments' = Append(shipments,
       [number |-> Head(job[w].docs).number, draw |-> Head(job[w].docs).draw,
        goods |-> Len(shipments) + 1, history |-> <<Created>>, typed |-> FALSE])
  /\ job' = [job EXCEPT ![w] = [at |-> "rows", rows |-> <<>>, docs |-> Tail(job[w].docs)]]
  /\ UNCHANGED <<counter, formVars, updates, faults>>

Inserted(w) ==
  /\ At(w, "rows") /\ job[w].rows = <<>>
  /\ Outcome(job[w].docs = <<>>)
  /\ Over(w)
  /\ UNCHANGED <<counter, shipments, formVars, updates>>

----------------------------------------------------------------------------
(* PUT /api/v1/shipment/shipping, and the form that it is sent from.       *)

\* patchValue(): the form has room for one event.
Filled(doc) ==
  [number |-> doc.number, goods |-> doc.goods, event |-> Head(doc.history),
   typed |-> doc.typed]

\* The number is what a shipment is looked up by, and it is free to be edited.
Type(b, number) ==
  /\ number # forms[b].number
  /\ forms' = [forms EXCEPT ![b].number = number, ![b].typed = TRUE]
  /\ UNCHANGED <<counter, shipments, asked, job, updates, faults>>

\* onFetchByAwbNo(): the shipment that has this number is read.  The answer takes
\* its time; an empty one, or a failure, leaves the form alone.
Fetch(b, s) ==
  /\ shipments[s].number # NoNumber /\ shipments[s].number = forms[b].number
  /\ Cardinality(asked[b]) < MaxAsked
  /\ asked' = [asked EXCEPT ![b] = @ \cup {Filled(shipments[s])}]
  /\ UNCHANGED <<counter, shipments, forms, job, updates, faults>>

\* Mutant: an answer fills in everything but the number that it was asked with.
PatchedButNumber(form, answer) == [answer EXCEPT !.number = form.number]

\* The answer brings its number along, whatever stands in the form by now.
Patched(form, answer) == answer

Answer(b, answer) ==
  /\ answer \in asked[b]
  /\ forms' = [forms EXCEPT ![b] = Patched(@, answer)]
  /\ asked' = [asked EXCEPT ![b] = @ \ {answer}]
  /\ UNCHANGED <<counter, shipments, job, updates, faults>>

\* The filter: one of these numbers, and no "Proof of Delivery" among the events.
IsDelivered(doc) == \E i \in DOMAIN doc.history : doc.history[i] = Delivered
Matches(s, numbers) == shipments[s].number \in numbers /\ ~IsDelivered(shipments[s])
Matching(numbers) == {s \in DOMAIN shipments : Matches(s, numbers)}

Update(w, change) ==
  /\ job[w] = Idle
  /\ updates < MaxUpdates /\ updates' = updates + 1
  /\ job' = [job EXCEPT ![w] = [at |-> "update", change |-> change,
                                todo |-> Matching(change.numbers)]]
  /\ UNCHANGED <<counter, shipments, formVars, faults>>

\* Add an event to all that are named, or save the form of a browser under the
\* number that stands in it, be it looked up or typed.
PutEvent(w, numbers, e) == Update(w, [kind |-> "push", numbers |-> numbers, event |-> e])
PutForm(w, b) ==
  Update(w, [kind |-> "set", numbers |-> {forms[b].number}, form |-> forms[b]])

Changed(doc, change) ==
  IF change.kind = "push"
  THEN [doc EXCEPT !.history = Append(@, change.event)]
  ELSE [doc EXCEPT !.goods = change.form.goods, !.history = <<change.form.event>>,
                   !.typed = change.form.typed]

\* Mutant: the filter is not part of the update.
AppliesAnyway(w, s) == TRUE
Applies(w, s) == Matches(s, job[w].change.numbers)

UpdateOne(w, s) ==
  /\ At(w, "update") /\ s \in job[w].todo
  /\ shipments' = IF Applies(w, s)
                  THEN [shipments EXCEPT ![s] = Changed(@, job[w].change)] ELSE shipments
  /\ job' = [job EXCEPT ![w].todo = @ \ {s}]
  /\ UNCHANGED <<counter, formVars, updates, faults>>

Updated(w) ==
  /\ At(w, "update")
  /\ Outcome(job[w].todo = {})
  /\ Over(w)
  /\ UNCHANGED <<counter, shipments, formVars, updates>>

----------------------------------------------------------------------------
WorkerStep(w) ==
  \/ KeepTyped(w) \/ ReadPrefix(w) \/ DrawNumber(w) \/ DrawFails(w)
  \/ InsertOne(w) \/ Inserted(w)
  \/ \E s \in DOMAIN shipments : UpdateOne(w, s)
  \/ Updated(w)

Request(w) ==
  \/ \E n \in 1..MaxRows : \E rows \in [1..n -> Row] : Post(w, rows)
  \/ \E numbers \in SUBSET {shipments[s].number : s \in DOMAIN shipments} \ {{}}, e \in Event :
       PutEvent(w, numbers, e)
  \/ \E b \in Browser : PutForm(w, b)

FormStep(b) ==
  \/ \E s \in DOMAIN shipments : Type(b, shipments[s].number) \/ Fetch(b, s)
  \/ \E answer \in asked[b] : Answer(b, answer)

Next ==
  \/ \E w \in Worker : Request(w) \/ WorkerStep(w)
  \/ \E b \in Browser : FormStep(b)

Spec == Init /\ [][Next]_vars
----------------------------------------------------------------------------
Number == Seq(Char)
History == Seq(Event \cup {Created, Blank}) \ {<<>>}
Doc == [number : Number, draw : 0..MaxNumbers]
Shipment == [number : Number, draw : 0..MaxNumbers, goods : Nat, history : History,
             typed : BOOLEAN]
Form == [number : Number, goods : Nat, event : Event \cup {Created, Blank},
         typed : BOOLEAN]
Change == [kind : {"push"}, numbers : SUBSET Number, event : Event]
          \cup [kind : {"set"}, numbers : SUBSET Number, form : Form]

Job ==
  {Idle}
  \cup [at : {"rows"}, rows : Seq(Row), docs : Seq(Doc)]
  \cup [at : {"number"}, rows : Seq(Row) \ {<<>>}, docs : Seq(Doc), prefix : Prefix]
  \cup [at : {"update"}, change : Change, todo : SUBSET Nat]

\* Every variable has its type.
TypeOK ==
  /\ counter \in 0..MaxNumbers
  /\ shipments \in Seq(Shipment)
  /\ forms \in [Browser -> Form]
  /\ asked \in [Browser -> SUBSET Form]
  /\ job \in [Worker -> Job]
  /\ updates \in 0..MaxUpdates /\ faults \in 0..MaxFaults

\* mongodbc.cpp:434-437: two shipments that were numbered here never have one
\* number, whatever the prefixes, the requests that overlap and the calls that
\* fail.
NumberedOnce ==
  \A s, t \in DOMAIN shipments :
    shipments[s].draw # 0 /\ shipments[t].draw # 0
      /\ shipments[s].number = shipments[t].number => s = t

\* webservice.cpp:1560: when a shipment has been delivered nothing changes it any
\* more, neither an update that found it under way nor a form filled before.
DeliveredStays ==
  [][\A s \in DOMAIN shipments :
       IsDelivered(shipments[s]) => shipments'[s] = shipments[s]]_vars

\* modify.component.ts:38-60: look-ups are answered late, out of order or not at
\* all, and the form is saved at any time.  Whatever the order, a shipment that is
\* the only one of its number never has the goods of another, unless someone typed
\* that number over goods that had been filled in.
GoodsOfNumber ==
  \A s \in DOMAIN shipments :
    \/ shipments[s].number = NoNumber \/ shipments[s].goods = s \/ shipments[s].typed
    \/ \E t \in DOMAIN shipments \ {s} : shipments[t].number = shipments[s].number
============================================================================
