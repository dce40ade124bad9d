-------------------------- MODULE Shipments_proofs --------------------------
(***************************************************************************)
(* Proofs about Shipments: every value of the counter is behind one        *)
(* shipment at most, wherever it was drawn and however it got there.       *)
(***************************************************************************)
EXTENDS Shipments, SequenceTheorems, TLAPS

\* The shipments a request has ready but not inserted.
Docs(w) == IF job[w].at \in {"rows", "number"} THEN job[w].docs ELSE <<>>

LEMMA JobTypes ==
  ASSUME TypeOK, NEW w \in Worker
  PROVE  /\ job \in [Worker -> Job] /\ job[w] \in Job
         /\ At(w, "rows") => job[w].rows \in Seq(Row) /\ job[w].docs \in Seq(Doc)
         /\ At(w, "number") => /\ job[w].rows \in Seq(Row) /\ job[w].rows # <<>>
                               /\ job[w].docs \in Seq(Doc) /\ job[w].prefix \in Prefix
         /\ At(w, "update") => /\ job[w] \in [at : {"update"}, change : Change, todo : SUBSET Nat]
                               /\ job[w].change \in Change /\ job[w].todo \in SUBSET Nat
         /\ Docs(w) \in Seq(Doc)
<1>1. job \in [Worker -> Job] /\ job[w] \in Job
  BY DEF TypeOK
<1>2. CASE job[w] = Idle
  BY <1>1, <1>2 DEF Idle, At, Docs
<1>3. CASE job[w] \in [at : {"rows"}, rows : Seq(Row), docs : Seq(Doc)]
  BY <1>1, <1>3 DEF At, Docs
<1>4. CASE job[w] \in [at : {"number"}, rows : Seq(Row) \ {<<>>}, docs : Seq(Doc), prefix : Prefix]
  BY <1>1, <1>4 DEF At, Docs
<1>5. CASE job[w] \in [at : {"update"}, change : Change, todo : SUBSET Nat]
  BY <1>1, <1>5 DEF At, Docs
<1>6. \/ job[w] = Idle
      \/ job[w] \in [at : {"rows"}, rows : Seq(Row), docs : Seq(Doc)]
      \/ job[w] \in [at : {"number"}, rows : Seq(Row) \ {<<>>}, docs : Seq(Doc), prefix : Prefix]
      \/ job[w] \in [at : {"update"}, change : Change, todo : SUBSET Nat]
  BY <1>1 DEF Job
<1> QED
  BY <1>1, <1>2, <1>3, <1>4, <1>5, <1>6

LEMMA ShipmentTypes ==
  ASSUME TypeOK, NEW s \in DOMAIN shipments
  PROVE  /\ shipments \in Seq(Shipment) /\ s \in 1..Len(shipments)
         /\ shipments[s] \in Shipment /\ Head(shipments[s].history) \in Event \cup {Created, Blank}
<1>1. shipments \in Seq(Shipment) /\ s \in 1..Len(shipments) /\ shipments[s] \in Shipment
  BY DEF TypeOK
<1>2. shipments[s].history \in History
  BY <1>1 DEF Shipment
<1> QED
  BY <1>1, <1>2 DEF History

\* A request that ends or goes on has the type of one.
LEMMA JobChanges ==
  ASSUME TypeOK, NEW w \in Worker, NEW j \in Job, job' = [job EXCEPT ![w] = j]
  PROVE  job' \in [Worker -> Job]
BY DEF TypeOK

LEMMA NumberedTypes ==
  ASSUME TypeOK, NEW w \in Worker, NEW number \in Number, NEW draw \in 0..MaxNumbers,
         At(w, "rows") \/ At(w, "number"), job[w].rows # <<>>,
         Numbered(w, number, draw)
  PROVE  job' \in [Worker -> Job]
<1>1. Tail(job[w].rows) \in Seq(Row)
  BY JobTypes
<1>2. [number |-> number, draw |-> draw] \in Doc /\ job[w].docs \in Seq(Doc)
  BY JobTypes DEF Doc
<1>3. Append(job[w].docs, [number |-> number, draw |-> draw]) \in Seq(Doc)
  BY <1>2
<1>4. [at |-> "rows", rows |-> Tail(job[w].rows),
       docs |-> Append(job[w].docs, [number |-> number, draw |-> draw])] \in Job
  BY <1>1, <1>3 DEF Job
<1> QED
  BY <1>4, JobChanges DEF Numbered

LEMMA FaultTypes ==
  ASSUME TypeOK, Fault \/ (\E b \in BOOLEAN : Outcome(b))
  PROVE  faults' \in 0..MaxFaults
BY ShipmentAssumption DEF TypeOK, Fault, Outcome

LEMMA TypeInit == Init => TypeOK
<1> SUFFICES ASSUME Init PROVE TypeOK
  OBVIOUS
<1>1. counter \in 0..MaxNumbers /\ updates \in 0..MaxUpdates /\ faults \in 0..MaxFaults
  BY ShipmentAssumption DEF Init
<1>2. shipments \in Seq(Shipment)
  BY DEF Init
<1>3. forms \in [Browser -> Form] /\ asked \in [Browser -> SUBSET Form]
  BY ShipmentAssumption DEF Init, Form, Number, NoNumber
<1>4. job \in [Worker -> Job]
  BY DEF Init, Job
<1> QED
  BY <1>1, <1>2, <1>3, <1>4 DEF TypeOK

LEMMA RequestKeepsTypes ==
  ASSUME TypeOK, NEW w \in Worker, Request(w)
  PROVE  TypeOK'
<1>1. ASSUME NEW n \in 1..MaxRows, NEW rows \in [1..n -> Row], Post(w, rows) PROVE TypeOK'
  <2>1. rows \in Seq(Row)
    BY <1>1, ShipmentAssumption
  <2>2. [at |-> "rows", rows |-> rows, docs |-> <<>>] \in Job
    BY <2>1 DEF Job
  <2>3. job' \in [Worker -> Job]
    BY <1>1, <2>2, JobChanges DEF Post
  <2> QED
    BY <1>1, <2>3 DEF Post, TypeOK, formVars
<1>2. ASSUME NEW change \in Change, Update(w, change) PROVE TypeOK'
  <2>1. Matching(change.numbers) \in SUBSET Nat
    BY DEF Matching, TypeOK
  <2>2. [at |-> "update", change |-> change, todo |-> Matching(change.numbers)] \in Job
    BY <2>1 DEF Job
  <2>3. job' \in [Worker -> Job]
    BY <1>2, <2>2, JobChanges DEF Update
  <2>4. updates' \in 0..MaxUpdates
    BY <1>2, ShipmentAssumption DEF Update, TypeOK
  <2> QED
    BY <1>2, <2>3, <2>4 DEF Update, TypeOK, formVars
<1>3. ASSUME NEW numbers \in SUBSET {shipments[s].number : s \in DOMAIN shipments} \ {{}},
             NEW e \in Event, PutEvent(w, numbers, e)
      PROVE  TypeOK'
  <2>1. numbers \in SUBSET Number
    BY ShipmentTypes DEF Shipment
  <2>2. [kind |-> "push", numbers |-> numbers, event |-> e] \in Change
    BY <2>1 DEF Change
  <2> QED
    BY <1>2, <1>3, <2>2 DEF PutEvent
<1>4. ASSUME NEW b \in Browser, PutForm(w, b) PROVE TypeOK'
  <2>1. forms[b] \in Form /\ {forms[b].number} \in SUBSET Number
    BY DEF TypeOK, Form
  <2>2. [kind |-> "set", numbers |-> {forms[b].number}, form |-> forms[b]] \in Change
    BY <2>1 DEF Change
  <2> QED
    BY <1>2, <1>4, <2>2 DEF PutForm
<1> QED
  BY <1>1, <1>3, <1>4 DEF Request

\* A form and its look-ups are all that a browser changes.
LEMMA FormsOnly ==
  ASSUME NEW b \in Browser, FormStep(b)
  PROVE  UNCHANGED <<counter, shipments, job, updates, faults>>
BY DEF FormStep, Type, Fetch, Answer

LEMMA FormKeepsTypes ==
  ASSUME TypeOK, NEW b \in Browser, FormStep(b)
  PROVE  TypeOK'
<1>1. forms \in [Browser -> Form] /\ asked \in [Browser -> SUBSET Form]
  BY DEF TypeOK
<1>2. ASSUME NEW s \in DOMAIN shipments, Type(b, shipments[s].number)
      PROVE  forms' \in [Browser -> Form] /\ asked' = asked
  <2>1. shipments[s].number \in Number
    BY ShipmentTypes DEF Shipment
  <2>2. [forms[b] EXCEPT !.number = shipments[s].number, !.typed = TRUE] \in Form
    BY <1>1, <2>1 DEF Form
  <2> QED
    BY <1>1, <1>2, <2>2 DEF Type
<1>3. ASSUME NEW s \in DOMAIN shipments, Fetch(b, s)
      PROVE  asked' \in [Browser -> SUBSET Form] /\ forms' = forms
  <2>1. Filled(shipments[s]) \in Form
    BY ShipmentTypes DEF Filled, Form, Shipment
  <2> QED
    BY <1>1, <1>3, <2>1 DEF Fetch
<1>4. ASSUME NEW answer \in asked[b], Answer(b, answer)
      PROVE  forms' \in [Browser -> Form] /\ asked' \in [Browser -> SUBSET Form]
  BY <1>1, <1>4 DEF Answer, Patched
<1>5. forms' \in [Browser -> Form] /\ asked' \in [Browser -> SUBSET Form]
  BY <1>1, <1>2, <1>3, <1>4 DEF FormStep
<1> QED
  BY <1>5, FormsOnly DEF TypeOK

LEMMA ChangedTypes ==
  ASSUME NEW doc \in Shipment, NEW change \in Change
  PROVE  /\ Changed(doc, change) \in Shipment
         /\ Changed(doc, change).number = doc.number /\ Changed(doc, change).draw = doc.draw
<1>1. CASE change \in [kind : {"push"}, numbers : SUBSET Number, event : Event]
  <2>1. Append(doc.history, change.event) \in History
    <3>1. /\ doc.history \in Seq(Event \cup {Created, Blank})
          /\ change.event \in Event \cup {Created, Blank}
      BY <1>1 DEF Shipment, History
    <3>2. /\ Append(doc.history, change.event) \in Seq(Event \cup {Created, Blank})
          /\ Append(doc.history, change.event) # <<>>
      BY <3>1, AppendProperties, Z3
    <3> QED
      BY <3>2 DEF History
  <2> QED
    BY <1>1, <2>1 DEF Changed, Shipment
<1>2. CASE change \in [kind : {"set"}, numbers : SUBSET Number, form : Form]
  <2>1. /\ change.form.goods \in Nat /\ change.form.typed \in BOOLEAN
        /\ <<change.form.event>> \in History
    BY <1>2 DEF Form, History
  <2> QED
    BY <1>2, <2>1 DEF Changed, Shipment
<1> QED
  BY <1>1, <1>2 DEF Change

LEMMA StepKeepsTypes ==
  ASSUME TypeOK, NEW w \in Worker, WorkerStep(w)
  PROVE  TypeOK'
<1> USE DEF TypeOK, formVars
<1>1. CASE KeepTyped(w)
  <2>1. Head(job[w].rows) \in Row
    BY <1>1, JobTypes DEF KeepTyped
  <2>2. Head(job[w].rows).text \in Number
    BY <1>1, <2>1, ShipmentAssumption DEF KeepTyped, Row, Number
  <2>3. job' \in [Worker -> Job]
    BY <1>1, <2>2, NumberedTypes, ShipmentAssumption DEF KeepTyped
  <2> QED
    BY <1>1, <2>3 DEF KeepTyped
<1>2. CASE ReadPrefix(w)
  <2>1. PICK works \in BOOLEAN :
          /\ Outcome(works)
          /\ job' = [job EXCEPT ![w] =
               [at |-> "number", rows |-> job[w].rows, docs |-> job[w].docs,
                prefix |-> IF works THEN Head(job[w].rows).text ELSE Default]]
    BY <1>2 DEF ReadPrefix
  <2>2. Head(job[w].rows) \in Row
    BY <1>2, JobTypes DEF ReadPrefix
  <2>3. (IF works THEN Head(job[w].rows).text ELSE Default) \in Prefix
    BY <1>2, <2>2, ShipmentAssumption DEF ReadPrefix, Row
  <2>4. [at |-> "number", rows |-> job[w].rows, docs |-> job[w].docs,
         prefix |-> IF works THEN Head(job[w].rows).text ELSE Default] \in Job
    BY <1>2, <2>3, JobTypes DEF ReadPrefix, Job
  <2>5. job' \in [Worker -> Job]
    BY <2>1, <2>4, JobChanges
  <2>6. faults' \in 0..MaxFaults
    BY <2>1, FaultTypes
  <2> QED
    BY <1>2, <2>5, <2>6 DEF ReadPrefix
<1>3. CASE DrawNumber(w)
  <2>1. counter + 1 \in 1..MaxNumbers /\ counter' \in 0..MaxNumbers
    BY <1>3, ShipmentAssumption DEF DrawNumber
  <2>2. job[w].prefix \in Seq(Char) /\ Digits[counter + 1] \in Seq(Char)
    BY <1>3, <2>1, JobTypes, ShipmentAssumption DEF DrawNumber
  <2>3. job[w].prefix \o Digits[counter + 1] \in Number
    BY <2>2 DEF Number
  <2>4. job' \in [Worker -> Job]
    BY <1>3, <2>1, <2>3, NumberedTypes, JobTypes DEF DrawNumber
  <2> QED
    BY <1>3, <2>1, <2>4 DEF DrawNumber
<1>4. CASE DrawFails(w)
  <2>1. counter' \in 0..MaxNumbers
    BY <1>4, ShipmentAssumption DEF DrawFails
  <2>2. NoNumber \in Number /\ 0 \in 0..MaxNumbers
    BY ShipmentAssumption DEF NoNumber, Number
  <2>3. job' \in [Worker -> Job]
    BY <1>4, <2>2, NumberedTypes, JobTypes DEF DrawFails
  <2>4. faults' \in 0..MaxFaults
    BY <1>4, FaultTypes DEF DrawFails
  <2> QED
    BY <1>4, <2>1, <2>3, <2>4 DEF DrawFails
<1>5. CASE InsertOne(w)
  <2>1. job[w].docs \in Seq(Doc) /\ job[w].docs # <<>>
    BY <1>5, JobTypes DEF InsertOne
  <2>2. Head(job[w].docs) \in Doc /\ Tail(job[w].docs) \in Seq(Doc)
    BY <2>1
  <2>3. [number |-> Head(job[w].docs).number, draw |-> Head(job[w].docs).draw,
         goods |-> Len(shipments) + 1, history |-> <<Created>>, typed |-> FALSE] \in Shipment
    BY <2>2, ShipmentAssumption DEF Doc, Shipment, History
  <2>4. shipments' \in Seq(Shipment)
    BY <1>5, <2>3 DEF InsertOne
  <2>5. [at |-> "rows", rows |-> <<>>, docs |-> Tail(job[w].docs)] \in Job
    BY <2>2 DEF Job
  <2>6. job' \in [Worker -> Job]
    BY <1>5, <2>5, JobChanges DEF InsertOne
  <2> QED
    BY <1>5, <2>4, <2>6 DEF InsertOne
<1>6. CASE Inserted(w) \/ Updated(w)
  <2>1. job' \in [Worker -> Job]
    BY <1>6, JobChanges DEF Inserted, Updated, Over, Job
  <2>2. faults' \in 0..MaxFaults
    BY <1>6, FaultTypes DEF Inserted, Updated
  <2> QED
    BY <1>6, <2>1, <2>2 DEF Inserted, Updated
<1>7. ASSUME NEW s \in DOMAIN shipments, UpdateOne(w, s) PROVE TypeOK'
  <2> DEFINE change == job[w].change
  <2>1. shipments[s] \in Shipment /\ change \in Change
    BY <1>7, ShipmentTypes, JobTypes DEF UpdateOne
  <2>2. Changed(shipments[s], change) \in Shipment
    BY <2>1, ChangedTypes
  <2>3. shipments' \in Seq(Shipment)
    BY <1>7, <2>2, ShipmentTypes, ExceptSeq DEF UpdateOne
  <2>4. [job[w] EXCEPT !.todo = @ \ {s}] \in Job
    BY <1>7, JobTypes DEF UpdateOne, Job
  <2>5. job' = [job EXCEPT ![w] = [job[w] EXCEPT !.todo = @ \ {s}]]
    BY <1>7 DEF UpdateOne
  <2>6. job' \in [Worker -> Job]
    BY <2>4, <2>5, JobChanges
  <2> QED
    BY <1>7, <2>3, <2>6 DEF UpdateOne
<1> QED
  BY <1>1, <1>2, <1>3, <1>4, <1>5, <1>6, <1>7 DEF WorkerStep

LEMMA NextKeepsTypes == TypeOK /\ [Next]_vars => TypeOK'
<1>1. CASE UNCHANGED vars
  BY <1>1 DEF TypeOK, vars, formVars
<1> QED
  BY <1>1, RequestKeepsTypes, StepKeepsTypes, FormKeepsTypes DEF Next

----------------------------------------------------------------------------
(* Where the values of the counter are.                                    *)

\* A number that was drawn is made of a value the counter has had.
Drawn(doc) ==
  doc.draw # 0 => /\ doc.draw <= counter
                  /\ \E p \in Prefix : doc.number = p \o Digits[doc.draw]

DrawnInv ==
  /\ \A s \in DOMAIN shipments : Drawn(shipments[s])
  /\ \A w \in Worker : \A i \in DOMAIN Docs(w) : Drawn(Docs(w)[i])

\* No value is in two places.
ApartInv ==
  /\ \A s, t \in DOMAIN shipments :
       shipments[s].draw # 0 /\ shipments[s].draw = shipments[t].draw => s = t
  /\ \A s \in DOMAIN shipments, w \in Worker : \A i \in DOMAIN Docs(w) :
       shipments[s].draw # 0 => shipments[s].draw # Docs(w)[i].draw
  /\ \A v, w \in Worker : \A i \in DOMAIN Docs(v), j \in DOMAIN Docs(w) :
       Docs(v)[i].draw # 0 /\ Docs(v)[i].draw = Docs(w)[j].draw => v = w /\ i = j

ShipInv == TypeOK /\ DrawnInv /\ ApartInv

LEMMA DrawTypes ==
  ASSUME TypeOK
  PROVE  /\ counter \in Nat
         /\ \A s \in DOMAIN shipments : shipments[s].draw \in Nat
         /\ \A w \in Worker : \A i \in DOMAIN Docs(w) : Docs(w)[i].draw \in Nat
<1>1. counter \in Nat
  BY ShipmentAssumption DEF TypeOK
<1>2. ASSUME NEW s \in DOMAIN shipments PROVE shipments[s].draw \in Nat
  BY ShipmentTypes, ShipmentAssumption DEF Shipment
<1>3. ASSUME NEW w \in Worker, NEW i \in DOMAIN Docs(w) PROVE Docs(w)[i].draw \in Nat
  <2>1. Docs(w)[i] \in Doc
    BY JobTypes
  <2> QED
    BY <2>1, ShipmentAssumption DEF Doc
<1> QED
  BY <1>1, <1>2, <1>3

\* Requests that come, go or only change what is stored draw nothing.
LEMMA QuietKeepsDraws ==
  ASSUME ShipInv, TypeOK', counter' >= counter,
         DOMAIN shipments' = DOMAIN shipments,
         \A s \in DOMAIN shipments : /\ shipments'[s].number = shipments[s].number
                                     /\ shipments'[s].draw = shipments[s].draw,
         \A w \in Worker : Docs(w)' = Docs(w) \/ Docs(w)' = <<>>
  PROVE  ShipInv'
<1>0. counter' \in Nat
  BY ShipmentAssumption DEF TypeOK
<1>1. ASSUME NEW s \in DOMAIN shipments PROVE Drawn(shipments[s])'
  <2>1. Drawn(shipments[s]) /\ shipments[s].draw \in Nat /\ counter \in Nat
    BY DrawTypes DEF ShipInv, DrawnInv
  <2>2. shipments'[s].number = shipments[s].number /\ shipments'[s].draw = shipments[s].draw
    OBVIOUS
  <2> QED
    BY <1>0, <2>1, <2>2 DEF Drawn
<1>2. ASSUME NEW w \in Worker, NEW i \in DOMAIN Docs(w)' PROVE Drawn(Docs(w)[i])'
  <2>1. Docs(w)' = Docs(w) /\ i \in DOMAIN Docs(w)
    BY <1>2
  <2>2. Drawn(Docs(w)[i]) /\ Docs(w)[i].draw \in Nat /\ counter \in Nat
    BY <2>1, DrawTypes DEF ShipInv, DrawnInv
  <2>3. (Docs(w)[i])' = Docs(w)[i]
    BY <2>1
  <2> QED
    BY <1>0, <2>2, <2>3 DEF Drawn
<1>3. DrawnInv'
  BY <1>1, <1>2 DEF DrawnInv
<1>4. ApartInv'
  BY DEF ShipInv, ApartInv
<1> QED
  BY <1>3, <1>4 DEF ShipInv

\* What a request that goes on to its next row has ready.
LEMMA NumberedDocs ==
  ASSUME TypeOK, NEW w \in Worker, NEW number, NEW draw,
         At(w, "rows") \/ At(w, "number"), Numbered(w, number, draw)
  PROVE  /\ Docs(w) \in Seq(Doc)
         /\ Docs(w)' = Append(Docs(w), [number |-> number, draw |-> draw])
         /\ \A v \in Worker \ {w} : Docs(v)' = Docs(v)
<1>1. job \in [Worker -> Job] /\ Docs(w) \in Seq(Doc)
  BY JobTypes
<1> QED
  BY <1>1 DEF Numbered, Docs, At

LEMMA NumberedKeepsDraws ==
  ASSUME ShipInv, TypeOK', NEW w \in Worker, NEW number \in Number, NEW draw \in 0..MaxNumbers,
         At(w, "rows") \/ At(w, "number"), Numbered(w, number, draw),
         counter' >= counter, shipments' = shipments,
         draw # 0 => /\ draw = counter + 1 /\ counter' = counter + 1
                     /\ \E p \in Prefix : number = p \o Digits[draw]
  PROVE  ShipInv'
<1> DEFINE doc == [number |-> number, draw |-> draw]
<1>1. /\ Docs(w) \in Seq(Doc) /\ Docs(w)' = Append(Docs(w), doc)
      /\ \A v \in Worker \ {w} : Docs(v)' = Docs(v)
  BY NumberedDocs DEF ShipInv
<1>2. \A v \in Worker : \A i \in DOMAIN Docs(v)' :
        \/ i \in DOMAIN Docs(v) /\ Docs(v)'[i] = Docs(v)[i]
        \/ v = w /\ i = Len(Docs(w)) + 1 /\ Docs(v)'[i] = doc
  BY <1>1
<1>3. /\ counter \in Nat /\ counter' \in Nat
      /\ \A s \in DOMAIN shipments : shipments[s].draw \in Nat
      /\ \A v \in Worker : \A i \in DOMAIN Docs(v) : Docs(v)[i].draw \in Nat
  <2>1. TypeOK
    BY DEF ShipInv
  <2>2. counter' \in Nat
    BY ShipmentAssumption DEF TypeOK
  <2> QED
    BY <2>1, <2>2, DrawTypes
<1>4. /\ \A s \in DOMAIN shipments : shipments[s].draw # 0 => shipments[s].draw <= counter
      /\ \A v \in Worker : \A i \in DOMAIN Docs(v) :
           Docs(v)[i].draw # 0 => Docs(v)[i].draw <= counter
  BY DEF ShipInv, DrawnInv, Drawn
<1>5. ASSUME NEW s \in DOMAIN shipments PROVE Drawn(shipments[s])'
  BY <1>3 DEF ShipInv, DrawnInv, Drawn
<1>6. ASSUME NEW v \in Worker, NEW i \in DOMAIN Docs(v)' PROVE Drawn(Docs(v)[i])'
  <2>1. CASE i \in DOMAIN Docs(v) /\ Docs(v)'[i] = Docs(v)[i]
    BY <1>3, <2>1 DEF ShipInv, DrawnInv, Drawn
  <2>2. CASE Docs(v)'[i] = doc
    BY <1>3, <2>2 DEF Drawn
  <2> QED
    BY <1>2, <2>1, <2>2
<1>7. DrawnInv'
  BY <1>5, <1>6 DEF DrawnInv
<1>8. draw # 0 =>
        /\ \A s \in DOMAIN shipments : shipments[s].draw # draw
        /\ \A v \in Worker : \A i \in DOMAIN Docs(v) : Docs(v)[i].draw # draw
  BY <1>3, <1>4
<1>9. \A s \in DOMAIN shipments, v \in Worker : \A i \in DOMAIN Docs(v)' :
        shipments[s].draw # 0 => shipments[s].draw # Docs(v)'[i].draw
  BY <1>2, <1>8 DEF ShipInv, ApartInv
<1>10. \A u, v \in Worker : \A i \in DOMAIN Docs(u)', j \in DOMAIN Docs(v)' :
         Docs(u)'[i].draw # 0 /\ Docs(u)'[i].draw = Docs(v)'[j].draw => u = v /\ i = j
  BY <1>2, <1>8 DEF ShipInv, ApartInv
<1>11. ApartInv'
  BY <1>9, <1>10 DEF ShipInv, ApartInv
<1> QED
  BY <1>7, <1>11 DEF ShipInv

\* A value goes with its document from the request to the collection.
LEMMA InsertKeepsDraws ==
  ASSUME ShipInv, TypeOK', NEW w \in Worker, InsertOne(w)
  PROVE  ShipInv'
<1> DEFINE docs == Docs(w)
           n == Len(shipments) + 1
<1>1. /\ docs \in Seq(Doc) /\ docs # <<>> /\ Docs(w)' = Tail(docs)
      /\ \A v \in Worker \ {w} : Docs(v)' = Docs(v)
      /\ docs = job[w].docs
  BY JobTypes DEF InsertOne, At, Docs, ShipInv
<1>2. \A v \in Worker : \A i \in DOMAIN Docs(v)' :
        \/ v # w /\ i \in DOMAIN Docs(v) /\ Docs(v)'[i] = Docs(v)[i]
        \/ v = w /\ i + 1 \in DOMAIN docs /\ i # 0 /\ i \in Nat /\ Docs(v)'[i] = docs[i + 1]
  BY <1>1
<1>3. /\ shipments \in Seq(Shipment) /\ 1 \in DOMAIN docs
      /\ \A s \in DOMAIN shipments' :
           \/ s \in DOMAIN shipments /\ shipments'[s] = shipments[s]
           \/ /\ s = n /\ shipments'[s].draw = docs[1].draw
              /\ shipments'[s].number = docs[1].number
  BY <1>1 DEF InsertOne, ShipInv, TypeOK
<1>4. counter' = counter
  BY DEF InsertOne
<1>5. ASSUME NEW s \in DOMAIN shipments' PROVE Drawn(shipments[s])'
  <2>1. Drawn(docs[1])
    BY <1>3 DEF ShipInv, DrawnInv
  <2> QED
    BY <1>3, <1>4, <2>1 DEF ShipInv, DrawnInv, Drawn
<1>6. ASSUME NEW v \in Worker, NEW i \in DOMAIN Docs(v)' PROVE Drawn(Docs(v)[i])'
  <2>1. \E j \in DOMAIN Docs(v) : Docs(v)'[i] = Docs(v)[j]
    BY <1>2
  <2> QED
    BY <1>4, <2>1 DEF ShipInv, DrawnInv, Drawn
<1>7. DrawnInv'
  BY <1>5, <1>6 DEF DrawnInv
<1>8. \A s, t \in DOMAIN shipments' :
        shipments'[s].draw # 0 /\ shipments'[s].draw = shipments'[t].draw => s = t
  BY <1>3 DEF ShipInv, ApartInv
<1>9. \A s \in DOMAIN shipments', v \in Worker : \A i \in DOMAIN Docs(v)' :
        shipments'[s].draw # 0 => shipments'[s].draw # Docs(v)'[i].draw
  <2> SUFFICES ASSUME NEW s \in DOMAIN shipments', NEW v \in Worker, NEW i \in DOMAIN Docs(v)',
                      shipments'[s].draw # 0
               PROVE  shipments'[s].draw # Docs(v)'[i].draw
    OBVIOUS
  <2>1. PICK j \in DOMAIN Docs(v) : Docs(v)'[i] = Docs(v)[j] /\ ~(v = w /\ j = 1)
    BY <1>2
  <2>2. CASE s \in DOMAIN shipments /\ shipments'[s] = shipments[s]
    BY <2>1, <2>2 DEF ShipInv, ApartInv
  <2>3. CASE shipments'[s].draw = docs[1].draw
    BY <1>3, <2>1, <2>3 DEF ShipInv, ApartInv
  <2> QED
    BY <1>3, <2>2, <2>3
<1>10. \A u, v \in Worker : \A i \in DOMAIN Docs(u)', j \in DOMAIN Docs(v)' :
         Docs(u)'[i].draw # 0 /\ Docs(u)'[i].draw = Docs(v)'[j].draw => u = v /\ i = j
  BY <1>2 DEF ShipInv, ApartInv
<1>11. ApartInv'
  BY <1>8, <1>9, <1>10 DEF ApartInv
<1> QED
  BY <1>7, <1>11 DEF ShipInv

\* What updating a document does to the collection.
LEMMA UpdateChanges ==
  ASSUME TypeOK, NEW w \in Worker, NEW s \in DOMAIN shipments, UpdateOne(w, s)
  PROVE  /\ DOMAIN shipments' = DOMAIN shipments
         /\ \A t \in DOMAIN shipments : /\ shipments'[t].number = shipments[t].number
                                        /\ shipments'[t].draw = shipments[t].draw
         /\ job[w].change \in Change
         /\ \A t \in DOMAIN shipments :
              \/ shipments'[t] = shipments[t]
              \/ /\ t = s /\ Applies(w, s)
                 /\ shipments'[t] = Changed(shipments[s], job[w].change)
<1>1. shipments \in Seq(Shipment) /\ s \in 1..Len(shipments) /\ shipments[s] \in Shipment
  BY ShipmentTypes
<1>2. job[w].change \in Change
  BY JobTypes DEF UpdateOne
<1>3. shipments' = shipments \/ (/\ shipments' = [shipments EXCEPT ![s] = Changed(@, job[w].change)]
                                /\ Applies(w, s))
  BY DEF UpdateOne
<1>4. /\ Changed(shipments[s], job[w].change).number = shipments[s].number
      /\ Changed(shipments[s], job[w].change).draw = shipments[s].draw
  BY <1>1, <1>2, ChangedTypes
<1> QED
  BY <1>1, <1>2, <1>3, <1>4

LEMMA NextKeepsDraws == ShipInv /\ [Next]_vars => ShipInv'
<1> SUFFICES ASSUME ShipInv, [Next]_vars PROVE ShipInv'
  OBVIOUS
<1>1. TypeOK /\ TypeOK'
  BY NextKeepsTypes DEF ShipInv
<1>2. counter \in Nat
  BY <1>1, DrawTypes
<1>3. CASE UNCHANGED vars
  BY <1>1, <1>2, <1>3, QuietKeepsDraws DEF vars, Docs
<1>4. ASSUME NEW w \in Worker, Request(w) PROVE ShipInv'
  <2>1. ASSUME NEW rows, Post(w, rows) PROVE \A v \in Worker : Docs(v)' = Docs(v) \/ Docs(v)' = <<>>
    BY <1>1, <2>1, JobTypes DEF Post, Docs
  <2>2. ASSUME NEW change, Update(w, change)
        PROVE  \A v \in Worker : Docs(v)' = Docs(v) \/ Docs(v)' = <<>>
    BY <1>1, <2>2, JobTypes DEF Update, Docs
  <2>4. \A v \in Worker : Docs(v)' = Docs(v) \/ Docs(v)' = <<>>
    BY <1>4, <2>1, <2>2 DEF Request, PutEvent, PutForm
  <2>3. UNCHANGED <<counter, shipments>>
    BY <1>4 DEF Request, Post, PutEvent, PutForm, Update
  <2> QED
    BY <1>1, <1>2, <2>3, <2>4, QuietKeepsDraws
<1>5. ASSUME NEW b \in Browser, FormStep(b) PROVE ShipInv'
  BY <1>1, <1>2, <1>5, FormsOnly, QuietKeepsDraws DEF Docs
<1>6. ASSUME NEW w \in Worker, WorkerStep(w) PROVE ShipInv'
  <2>1. CASE KeepTyped(w)
    <3>1. Head(job[w].rows).text \in Number
      <4>1. Head(job[w].rows) \in Row
        BY <1>1, <2>1, JobTypes DEF KeepTyped
      <4> QED
        BY <2>1, <4>1, ShipmentAssumption DEF KeepTyped, Row, Number
    <3>2. Numbered(w, Head(job[w].rows).text, 0) /\ At(w, "rows") /\ UNCHANGED <<counter, shipments>>
      BY <2>1 DEF KeepTyped
    <3>3. 0 \in 0..MaxNumbers /\ counter' >= counter
      BY <1>2, <3>2, ShipmentAssumption
    <3> QED
      BY <1>1, <3>1, <3>2, <3>3, NumberedKeepsDraws
  <2>2. CASE ReadPrefix(w)
    <3>1. PICK text : job' = [job EXCEPT ![w] =
            [at |-> "number", rows |-> job[w].rows, docs |-> job[w].docs, prefix |-> text]]
      BY <2>2 DEF ReadPrefix
    <3>2. At(w, "rows") /\ UNCHANGED <<counter, shipments>>
      BY <2>2 DEF ReadPrefix
    <3>3. \A v \in Worker : Docs(v)' = Docs(v)
      BY <1>1, <3>1, <3>2, JobTypes DEF Docs, At
    <3> QED
      BY <1>1, <1>2, <3>2, <3>3, QuietKeepsDraws
  <2>3. CASE DrawNumber(w)
    <3>1. counter + 1 \in 0..MaxNumbers /\ job[w].prefix \in Prefix
      BY <1>1, <1>2, <2>3, JobTypes, ShipmentAssumption DEF DrawNumber
    <3>2. Digits[counter + 1] \in Seq(Char) /\ job[w].prefix \in Seq(Char)
      BY <1>2, <2>3, <3>1, ShipmentAssumption DEF DrawNumber
    <3>3. job[w].prefix \o Digits[counter + 1] \in Number
      BY <3>2 DEF Number
    <3> QED
      <4>1. /\ At(w, "number") /\ shipments' = shipments
            /\ Numbered(w, job[w].prefix \o Digits[counter + 1], counter + 1)
        BY <2>3 DEF DrawNumber
      <4>2. counter' = counter + 1 /\ counter' >= counter
        BY <1>2, <2>3 DEF DrawNumber
      <4>3. \E p \in Prefix : job[w].prefix \o Digits[counter + 1] = p \o Digits[counter + 1]
        BY <3>1
      <4> QED
        BY <1>1, <3>1, <3>3, <4>1, <4>2, <4>3, NumberedKeepsDraws
  <2>4. CASE DrawFails(w)
    <3>1. NoNumber \in Number /\ 0 \in 0..MaxNumbers /\ counter' >= counter
      BY <1>2, <2>4, ShipmentAssumption DEF DrawFails, NoNumber, Number
    <3> QED
      BY <1>1, <2>4, <3>1, NumberedKeepsDraws DEF DrawFails
  <2>5. CASE InsertOne(w)
    BY <1>1, <2>5, InsertKeepsDraws
  <2>6. CASE Inserted(w) \/ Updated(w)
    <3>1. \A v \in Worker : Docs(v)' = Docs(v) \/ Docs(v)' = <<>>
      BY <1>1, <2>6, JobTypes DEF Inserted, Updated, Over, Idle, Docs
    <3> QED
      BY <1>1, <1>2, <2>6, <3>1, QuietKeepsDraws DEF Inserted, Updated
  <2>7. ASSUME NEW s \in DOMAIN shipments, UpdateOne(w, s) PROVE ShipInv'
    <3>1. /\ DOMAIN shipments' = DOMAIN shipments
          /\ \A t \in DOMAIN shipments : /\ shipments'[t].number = shipments[t].number
                                         /\ shipments'[t].draw = shipments[t].draw
      BY <1>1, <2>7, UpdateChanges
    <3>2. \A v \in Worker : Docs(v)' = Docs(v)
      BY <1>1, <2>7, JobTypes DEF UpdateOne, Docs, At
    <3>3. counter' >= counter
      BY <1>2, <2>7 DEF UpdateOne
    <3> QED
      BY <1>1, <3>1, <3>2, <3>3, QuietKeepsDraws
  <2> QED
    BY <1>6, <2>1, <2>2, <2>3, <2>4, <2>5, <2>6, <2>7 DEF WorkerStep
<1> QED
  BY <1>3, <1>4, <1>5, <1>6 DEF Next

\* Numbers that end in as many digits end in the same ones.
LEMMA SameEnd ==
  ASSUME NEW p \in Seq(Char), NEW q \in Seq(Char), NEW d \in Seq(Char), NEW e \in Seq(Char),
         Len(d) = Len(e), p \o d = q \o e
  PROVE  d = e
<1>1. Len(p) = Len(q)
  <2>1. Len(p \o d) = Len(p) + Len(d) /\ Len(q \o e) = Len(q) + Len(e)
    OBVIOUS
  <2> QED
    BY <2>1
<1>2. ASSUME NEW i \in 1..Len(d) PROVE d[i] = e[i]
  <2>1. (p \o d)[Len(p) + i] = d[i] /\ (q \o e)[Len(q) + i] = e[i]
    <3>1. Len(p) + i \in 1..(Len(p) + Len(d)) /\ ~(Len(p) + i <= Len(p)) /\ (Len(p) + i) - Len(p) = i
      OBVIOUS
    <3>2. Len(q) + i \in 1..(Len(q) + Len(e)) /\ ~(Len(q) + i <= Len(q)) /\ (Len(q) + i) - Len(q) = i
      OBVIOUS
    <3>3. (p \o d)[Len(p) + i] = d[(Len(p) + i) - Len(p)]
      BY <3>1, ConcatProperties, Z3
    <3>4. (q \o e)[Len(q) + i] = e[(Len(q) + i) - Len(q)]
      BY <3>2, ConcatProperties, Z3
    <3> QED
      BY <3>1, <3>2, <3>3, <3>4
  <2> QED
    BY <1>1, <2>1
<1> QED
  BY <1>2, SeqEqual

LEMMA DrawsNumberOnce == ShipInv => NumberedOnce
<1> SUFFICES ASSUME ShipInv, NEW s \in DOMAIN shipments, NEW t \in DOMAIN shipments,
                    shipments[s].draw # 0, shipments[t].draw # 0,
                    shipments[s].number = shipments[t].number
             PROVE  s = t
  BY DEF NumberedOnce
<1> DEFINE m == shipments[s].draw
           n == shipments[t].draw
<1>1. PICK p \in Prefix : shipments[s].number = p \o Digits[m]
  BY DEF ShipInv, DrawnInv, Drawn
<1>2. PICK q \in Prefix : shipments[t].number = q \o Digits[n]
  BY DEF ShipInv, DrawnInv, Drawn
<1>3. m \in 1..MaxNumbers /\ n \in 1..MaxNumbers
  <2>1. shipments[s].draw \in 0..MaxNumbers /\ shipments[t].draw \in 0..MaxNumbers
    BY ShipmentTypes DEF ShipInv, Shipment
  <2> QED
    BY <2>1, ShipmentAssumption
<1>4. p \in Seq(Char) /\ q \in Seq(Char) /\ Digits[m] \in Seq(Char) /\ Digits[n] \in Seq(Char)
      /\ Len(Digits[m]) = Len(Digits[n]) /\ (Digits[m] = Digits[n] => m = n)
  BY <1>3, ShipmentAssumption
<1>5. m = n
  BY <1>1, <1>2, <1>4, SameEnd
<1> QED
  BY <1>5 DEF ShipInv, ApartInv

----------------------------------------------------------------------------
(* Which shipment a form, and what was saved from it, is about, while no    *)
(* number is typed over it.                                                *)

Known(goods, number, typed) ==
  number # NoNumber /\ ~typed =>
    goods \in DOMAIN shipments /\ shipments[goods].number = number

StoredInv ==
  \A s \in DOMAIN shipments : Known(shipments[s].goods, shipments[s].number, shipments[s].typed)

FormInv ==
  \A b \in Browser :
    /\ Known(forms[b].goods, forms[b].number, forms[b].typed)
    /\ \A answer \in asked[b] : Known(answer.goods, answer.number, answer.typed)

SavedInv ==
  \A w \in Worker :
    At(w, "update") /\ job[w].change.kind = "set" =>
      /\ job[w].change.numbers = {job[w].change.form.number}
      /\ Known(job[w].change.form.goods, job[w].change.form.number, job[w].change.form.typed)

GoodsInv == TypeOK /\ StoredInv /\ FormInv /\ SavedInv

\* Two actions write to the collection.
LEMMA ShipmentSteps ==
  ASSUME [Next]_vars
  PROVE  \/ shipments' = shipments
         \/ \E w \in Worker : InsertOne(w)
         \/ \E w \in Worker, s \in DOMAIN shipments : UpdateOne(w, s)
<1>1. ASSUME NEW w \in Worker, Request(w) PROVE shipments' = shipments
  BY <1>1 DEF Request, Post, PutEvent, PutForm, Update
<1>2. ASSUME NEW b \in Browser, FormStep(b) PROVE shipments' = shipments
  BY <1>2, FormsOnly
<1>3. ASSUME NEW w \in Worker,
             KeepTyped(w) \/ ReadPrefix(w) \/ DrawNumber(w) \/ DrawFails(w)
               \/ Inserted(w) \/ Updated(w)
      PROVE  shipments' = shipments
  BY <1>3 DEF KeepTyped, ReadPrefix, DrawNumber, DrawFails, Inserted, Updated
<1> QED
  BY <1>1, <1>2, <1>3 DEF Next, WorkerStep, vars

\* No shipment goes, and none changes its number.
LEMMA NumbersStay ==
  ASSUME TypeOK, [Next]_vars
  PROVE  \A goods, number, typed :
        Known(goods, number, typed) => Known(goods, number, typed)'
<1>1. CASE shipments' = shipments
  BY <1>1 DEF Known
<1>2. ASSUME NEW w \in Worker, InsertOne(w)
      PROVE  \A goods, number, typed :
        Known(goods, number, typed) => Known(goods, number, typed)'
  BY <1>2 DEF InsertOne, Known, TypeOK
<1>3. ASSUME NEW w \in Worker, NEW s \in DOMAIN shipments, UpdateOne(w, s)
      PROVE  \A goods, number, typed :
        Known(goods, number, typed) => Known(goods, number, typed)'
  BY <1>3, UpdateChanges DEF Known
<1> QED
  BY <1>1, <1>2, <1>3, ShipmentSteps

LEMMA StoredStays ==
  ASSUME GoodsInv, [Next]_vars PROVE StoredInv'
<1>0. TypeOK /\ \A goods, number, typed :
        Known(goods, number, typed) => Known(goods, number, typed)'
  BY NumbersStay DEF GoodsInv
<1>1. CASE shipments' = shipments
  BY <1>1 DEF GoodsInv, StoredInv, Known
<1>2. ASSUME NEW w \in Worker, InsertOne(w) PROVE StoredInv'
  <2>1. /\ shipments \in Seq(Shipment)
        /\ \A s \in DOMAIN shipments' :
             \/ s \in DOMAIN shipments /\ shipments'[s] = shipments[s]
             \/ s = Len(shipments) + 1 /\ shipments'[s].goods = s
    BY <1>0, <1>2 DEF InsertOne, TypeOK
  <2>2. ASSUME NEW s \in DOMAIN shipments' PROVE Known(shipments[s].goods, shipments[s].number, shipments[s].typed)'
    <3>1. CASE s \in DOMAIN shipments /\ shipments'[s] = shipments[s]
      <4>1. Known(shipments[s].goods, shipments[s].number, shipments[s].typed)
        BY <3>1 DEF GoodsInv, StoredInv
      <4>2. shipments[s].number # NoNumber /\ ~shipments[s].typed =>
              /\ shipments[s].goods \in DOMAIN shipments'
              /\ shipments'[shipments[s].goods].number = shipments[s].number
        BY <1>0, <4>1 DEF Known
      <4> QED
        BY <3>1, <4>2 DEF Known
    <3>2. CASE shipments'[s].goods = s
      BY <2>2, <3>2 DEF Known
    <3> QED
      BY <2>1, <2>2, <3>1, <3>2
  <2> QED
    BY <2>2 DEF StoredInv
<1>3. ASSUME NEW w \in Worker, NEW s \in DOMAIN shipments, UpdateOne(w, s) PROVE StoredInv'
  <2> DEFINE change == job[w].change
  <2>1. /\ DOMAIN shipments' = DOMAIN shipments /\ change \in Change
        /\ \A t \in DOMAIN shipments :
             \/ shipments'[t] = shipments[t]
             \/ t = s /\ Applies(w, s) /\ shipments'[t] = Changed(shipments[s], change)
    BY <1>0, <1>3, UpdateChanges
  <2>2. \A t \in DOMAIN shipments : shipments'[t].number = shipments[t].number
    BY <1>0, <1>3, UpdateChanges
  <2>3. shipments[s] \in Shipment
    BY <1>0, ShipmentTypes
  <2>4. \/ /\ Changed(shipments[s], change).goods = shipments[s].goods
           /\ Changed(shipments[s], change).typed = shipments[s].typed
        \/ /\ change.kind = "set"
           /\ Changed(shipments[s], change).goods = change.form.goods
           /\ Changed(shipments[s], change).typed = change.form.typed
    BY <2>1, <2>3 DEF Changed, Change, Shipment
  <2>5. change.kind = "set" /\ Applies(w, s) =>
          Known(change.form.goods, shipments[s].number, change.form.typed)
    BY <1>3 DEF GoodsInv, SavedInv, Applies, Matches, UpdateOne
  <2> QED
    BY <1>0, <2>1, <2>2, <2>4, <2>5 DEF GoodsInv, StoredInv, Known
<1> QED
  BY <1>1, <1>2, <1>3, ShipmentSteps

LEMMA FormsStay ==
  ASSUME GoodsInv, [Next]_vars PROVE FormInv'
<1>0. TypeOK /\ \A goods, number, typed :
        Known(goods, number, typed) => Known(goods, number, typed)'
  BY NumbersStay DEF GoodsInv
<1>1. CASE UNCHANGED formVars
  BY <1>0, <1>1 DEF GoodsInv, FormInv, formVars
<1>2. ASSUME NEW b \in Browser, FormStep(b) PROVE FormInv'
  <2>0. /\ forms \in [Browser -> Form] /\ asked \in [Browser -> SUBSET Form]
        /\ shipments' = shipments
    BY <1>0, <1>2, FormsOnly DEF TypeOK
  <2>1. ASSUME NEW s \in DOMAIN shipments, Type(b, shipments[s].number) PROVE FormInv'
    <3>1. /\ forms'[b].typed = TRUE /\ asked' = asked
          /\ \A c \in Browser \ {b} : forms'[c] = forms[c]
      BY <2>0, <2>1 DEF Type, Form
    <3> QED
      BY <2>0, <3>1 DEF GoodsInv, FormInv, Known
  <2>2. ASSUME NEW s \in DOMAIN shipments, Fetch(b, s) PROVE FormInv'
    <3>1. /\ asked'[b] = asked[b] \cup {Filled(shipments[s])} /\ forms' = forms
          /\ \A c \in Browser \ {b} : asked'[c] = asked[c]
      BY <2>0, <2>2 DEF Fetch
    <3>2. Known(shipments[s].goods, shipments[s].number, shipments[s].typed)
      BY DEF GoodsInv, StoredInv
    <3>3. LET answer == Filled(shipments[s]) IN Known(answer.goods, answer.number, answer.typed)
      BY <3>2 DEF Filled
    <3> QED
      BY <2>0, <3>1, <3>3 DEF GoodsInv, FormInv, Known
  <2>3. ASSUME NEW answer \in asked[b], Answer(b, answer) PROVE FormInv'
    <3>1. /\ forms'[b] = answer /\ asked'[b] \subseteq asked[b]
          /\ \A c \in Browser \ {b} : forms'[c] = forms[c] /\ asked'[c] = asked[c]
      BY <2>0, <2>3 DEF Answer, Patched
    <3> QED
      BY <2>0, <3>1 DEF GoodsInv, FormInv, Known
  <2> QED
    BY <1>2, <2>1, <2>2, <2>3 DEF FormStep
<1>3. ASSUME NEW w \in Worker, Request(w) PROVE UNCHANGED formVars
  BY <1>3 DEF Request, Post, PutEvent, PutForm, Update
<1>4. ASSUME NEW w \in Worker, WorkerStep(w) PROVE UNCHANGED formVars
  BY <1>4 DEF WorkerStep, KeepTyped, ReadPrefix, DrawNumber, DrawFails, InsertOne, Inserted,
              UpdateOne, Updated
<1> QED
  BY <1>1, <1>2, <1>3, <1>4 DEF Next, vars

LEMMA SavesStay ==
  ASSUME GoodsInv, [Next]_vars PROVE SavedInv'
<1>0. /\ TypeOK /\ job \in [Worker -> Job]
      /\ \A goods, number, typed :
        Known(goods, number, typed) => Known(goods, number, typed)'
  BY NumbersStay DEF GoodsInv, TypeOK
<1>1. ASSUME \A w \in Worker : \/ job'[w] = job[w] \/ job'[w].at # "update"
                               \/ job'[w].change.kind # "set"
      PROVE  SavedInv'
  BY <1>0, <1>1 DEF GoodsInv, SavedInv, At
<1>2. CASE job' = job
  BY <1>1, <1>2
<1>3. ASSUME NEW w \in Worker, NEW rows, Post(w, rows) PROVE SavedInv'
  BY <1>0, <1>1, <1>3 DEF Post
<1>4. ASSUME NEW w \in Worker, NEW numbers, NEW e, PutEvent(w, numbers, e) PROVE SavedInv'
  BY <1>0, <1>1, <1>4 DEF PutEvent, Update
<1>5. ASSUME NEW w \in Worker, NEW b \in Browser, PutForm(w, b) PROVE SavedInv'
  <2>1. /\ job'[w].change = [kind |-> "set", numbers |-> {forms[b].number}, form |-> forms[b]]
        /\ \A v \in Worker \ {w} : job'[v] = job[v]
    BY <1>0, <1>5 DEF PutForm, Update
  <2>2. Known(forms[b].goods, forms[b].number, forms[b].typed)
    BY <2>1 DEF GoodsInv, FormInv
  <2>3. Known(forms[b].goods, forms[b].number, forms[b].typed)' /\ forms' = forms
    BY <1>0, <1>5, <2>2 DEF PutForm, Update, formVars
  <2>4. job'[w].change.form = forms[b] /\ job'[w].change.numbers = {forms[b].number}
    BY <2>1
  <2>5. Known(job[w].change.form.goods, job[w].change.form.number, job[w].change.form.typed)'
    BY <2>3, <2>4 DEF Known
  <2>6. job'[w].change.numbers = {job'[w].change.form.number}
    BY <2>4
  <2> QED
    BY <1>0, <2>1, <2>5, <2>6 DEF GoodsInv, SavedInv, At
<1>6. ASSUME NEW w \in Worker, NEW s \in DOMAIN shipments, UpdateOne(w, s) PROVE SavedInv'
  <2>1. /\ job'[w].change = job[w].change /\ At(w, "update")
        /\ \A v \in Worker \ {w} : job'[v] = job[v]
    BY <1>0, <1>6, JobTypes DEF UpdateOne
  <2> QED
    BY <1>0, <2>1 DEF GoodsInv, SavedInv, At
<1>7. ASSUME NEW w \in Worker,
             KeepTyped(w) \/ ReadPrefix(w) \/ DrawNumber(w) \/ DrawFails(w)
               \/ InsertOne(w) \/ Inserted(w) \/ Updated(w)
      PROVE  SavedInv'
  BY <1>0, <1>1, <1>7 DEF KeepTyped, ReadPrefix, DrawNumber, DrawFails, InsertOne, Inserted,
                          Updated, Over, Idle, Numbered
<1>8. ASSUME NEW b \in Browser, FormStep(b) PROVE SavedInv'
  BY <1>2, <1>8, FormsOnly
<1> QED
  BY <1>2, <1>3, <1>4, <1>5, <1>6, <1>7, <1>8 DEF Next, Request, WorkerStep, vars

----------------------------------------------------------------------------
(* The theorems.                                                           *)

\* webservice.cpp:464, 1531: the state keeps its type.
THEOREM TypeCorrect == Spec => []TypeOK
BY TypeInit, NextKeepsTypes, PTL DEF Spec

\* mongodbc.cpp:434-437: every value of the counter is behind one shipment at most,
\* in the collection or in a request that is not through, and so no two numbers
\* that were drawn are the same.
THEOREM DrawnOnce == Spec => []NumberedOnce
<1>1. Init => ShipInv
  BY TypeInit DEF Init, ShipInv, DrawnInv, ApartInv, Docs, Idle
<1> QED
  BY <1>1, NextKeepsDraws, DrawsNumberOnce, PTL DEF Spec

\* webservice.cpp:1560: a delivered shipment is left as it is.
THEOREM DeliveredAreLeft == Spec => DeliveredStays
<1>1. ASSUME TypeOK, [Next]_vars, NEW s \in DOMAIN shipments, IsDelivered(shipments[s])
      PROVE  shipments'[s] = shipments[s]
  <2>1. ASSUME NEW w \in Worker, InsertOne(w) PROVE shipments'[s] = shipments[s]
    BY <1>1, <2>1 DEF InsertOne, TypeOK
  <2>2. ASSUME NEW w \in Worker, NEW t \in DOMAIN shipments, UpdateOne(w, t)
        PROVE  shipments'[s] = shipments[s]
    BY <1>1, <2>2, UpdateChanges DEF Applies, Matches
  <2> QED
    BY <1>1, <2>1, <2>2, ShipmentSteps
<1>2. TypeOK /\ [Next]_vars =>
        [\A s \in DOMAIN shipments : IsDelivered(shipments[s]) => shipments'[s] = shipments[s]]_vars
  BY <1>1
<1> QED
  BY <1>2, TypeCorrect, PTL DEF Spec, DeliveredStays

\* modify.component.ts:38-60: in whatever order look-ups are answered and forms are
\* saved, only a number that was typed over a filled form brings the goods of one
\* shipment to the number of another.
THEOREM FormsKeepTheirGoods == Spec => []GoodsOfNumber
<1>1. Init => GoodsInv
  BY TypeInit DEF Init, GoodsInv, StoredInv, FormInv, SavedInv, Known, At, Idle
<1>2. GoodsInv /\ [Next]_vars => GoodsInv'
  BY NextKeepsTypes, StoredStays, FormsStay, SavesStay DEF GoodsInv
<1>3. GoodsInv => GoodsOfNumber
  BY DEF GoodsInv, StoredInv, Known, GoodsOfNumber
<1> QED
  BY <1>1, <1>2, <1>3, PTL DEF Spec
=============================================================================
