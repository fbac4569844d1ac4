---------------------------- MODULE BillingProofs ----------------------------
(***************************************************************************)
(* Proofs about Billing, for any number of events, jobs and upsets and any *)
(* size of the pack: types, each purchase credited at most once, the books *)
(* of the credits, and the gate that follows the balance.                  *)
(***************************************************************************)
EXTENDS Billing, FiniteSetTheorems, SequenceTheorems, TLAPS

Row       == [balance : Nat, perJob : BOOLEAN, sub : 0 .. MaxEvents,
              customer : Tab \cup {"none"}, status : {"ACTIVE", "CANCELED"}]
Posts     == [ev : Emitted \cup {0}, step : {"idle", "insert", "dispatch", "unblock"}]
Charging  == {"idle", "charging", "blocking"}
Owes(c)   == IF charge[c] = "charging" THEN 1 ELSE 0
Credited  == {e \in Packs : applied[e] > 0}
Working(d) == post[d].step \in {"dispatch", "unblock"}

\* A request that passed the insert carries a recorded event.
Carried == \A d \in Delivery : /\ post[d].step # "idle" => post[d].ev \in Emitted
                               /\ Working(d) => post[d].ev \in ledger

\* A credit is used by a charge that has started, and by no other.
UsedByJobs == used + Owes("job1") + Owes("job2") <= jobs

\* The record of an event admits one request to its dispatch, once.
Admitted ==
  /\ \A e \in 1 .. MaxEvents : applied[e] <= 1 /\ (e \notin ledger => applied[e] = 0)
  /\ \A d \in Delivery : post[d].step = "dispatch" => applied[post[d].ev] = 0
  /\ \A c, d \in Delivery : post[c].step = "dispatch" /\ post[d].step = "dispatch"
                            /\ post[c].ev = post[d].ev => c = d

\* Between the two UPDATEs of a top-up and of a last charge the gate lags the balance.
GateLags ==
  ~tangled =>
    /\ ~(Emptying /\ Topping)
    /\ Topping => bill.balance > 0
    /\ Emptying => bill.balance = 0
    /\ blocked => bill.balance = 0 \/ Topping
    /\ bill.perJob /\ bill.balance = 0 => blocked \/ Emptying

BillInv == TypeOK /\ Carried /\ UsedByJobs /\ Admitted /\ CreditsBalance /\ GateLags

-----------------------------------------------------------------------------
(* What a step leaves alone.                                               *)

\* The conjuncts depend on little: a step that leaves that alone keeps them.
LEMMA StillUsed ==
  ASSUME UsedByJobs, UNCHANGED chargeVars PROVE UsedByJobs'
BY DEF UsedByJobs, Owes, chargeVars

LEMMA StillGate ==
  ASSUME GateLags, UNCHANGED <<blocked, post, charge, tangled>>,
         bill'.balance = bill.balance, bill'.perJob => bill.perJob
  PROVE  GateLags'
BY DEF GateLags, Emptying, Topping

LEMMA StillBooks ==
  ASSUME CreditsBalance, Credited' = Credited, used' = used, bill'.balance = bill.balance
  PROVE  CreditsBalance'
BY DEF CreditsBalance, Credited

-----------------------------------------------------------------------------
(* Checkouts and what Stripe emits.                                        *)

LEMMA EmitFacts ==
  ASSUME TypeOK, NEW kind \in Kind, NEW cust \in Tab, NEW sub \in 0 .. MaxEvents,
         Emit(kind, cust, sub)
  PROVE  /\ events' \in Seq(Event) /\ Len(events') <= MaxEvents
         /\ Emitted' = Emitted \cup {Upcoming} /\ Upcoming \in 1 .. MaxEvents
         /\ Upcoming \notin Emitted
         /\ \A e \in Emitted : events'[e] = events[e]
<1> DEFINE new == [kind |-> kind, cust |-> cust, sub |-> sub]
<1>1. events \in Seq(Event) /\ new \in Event /\ Len(events) \in Nat
  BY LenProperties DEF TypeOK, Event
<1>2. Len(events) < MaxEvents /\ events' = Append(events, new)
  BY DEF Emit
<1>3. /\ events' \in Seq(Event) /\ Len(events') = Len(events) + 1
      /\ \A i \in 1 .. Len(events) : events'[i] = events[i]
  BY <1>1, <1>2, AppendProperties
<1>4. Emitted = 1 .. Len(events) /\ Emitted' = 1 .. Len(events')
  BY <1>1, <1>3, LenProperties DEF Emitted
<1> QED BY <1>1, <1>2, <1>3, <1>4, BoundAssumption DEF Upcoming

LEMMA EventFacts ==
  ASSUME TypeOK
  PROVE  /\ Emitted \subseteq 1 .. MaxEvents
         /\ \A e \in Emitted : events[e] \in Event /\ events[e].kind \in Kind
                               /\ events[e].cust \in Tab /\ events[e].sub \in 0 .. MaxEvents
<1>1. Emitted = 1 .. Len(events) /\ Len(events) \in Nat /\ Len(events) <= MaxEvents
  BY LenProperties DEF TypeOK, Emitted
<1>2. \A e \in Emitted : events[e] \in Event
  BY <1>1, ElementOfSeq DEF TypeOK
<1> QED BY <1>1, <1>2, BoundAssumption DEF Event

\* Stripe's side of the system moves, and emits at most one event.
Outside ==
  /\ UNCHANGED <<blocked, postVars, chargeVars, tangled, bill>>
  /\ UNCHANGED upsets \/ Upset
  /\ tab' \in [Tab -> {"idle", "creating", "created"}] /\ buyers' \subseteq Tab
  /\ muddled' \in BOOLEAN /\ live' \subseteq Emitted'
  /\ UNCHANGED events \/ \E kind \in Kind, cust \in Tab, sub \in 0 .. MaxEvents :
                            Emit(kind, cust, sub)

LEMMA UpsetType == ASSUME upsets \in 0 .. MaxUpsets, Upset PROVE upsets' \in 0 .. MaxUpsets
BY BoundAssumption DEF Upset

LEMMA OutsideKeeps == ASSUME BillInv, Outside PROVE BillInv' /\ Credited' = Credited
<1>1. /\ events' \in Seq(Event) /\ Len(events') <= MaxEvents
      /\ Emitted \subseteq Emitted' /\ \A e \in Emitted : events'[e] = events[e]
  <2>1. CASE UNCHANGED events
    BY <2>1 DEF BillInv, TypeOK, Emitted
  <2>2. CASE \E kind \in Kind, cust \in Tab, sub \in 0 .. MaxEvents : Emit(kind, cust, sub)
    BY <2>2, EmitFacts DEF BillInv
  <2> QED BY <2>1, <2>2 DEF Outside
<1>2. upsets' \in 0 .. MaxUpsets
  BY UpsetType DEF Outside, BillInv, TypeOK
<1>3. TypeOK'
  BY <1>1, <1>2 DEF BillInv, TypeOK, Outside, postVars, chargeVars
<1>4. Carried'
  BY <1>1 DEF BillInv, Carried, Working, Outside, postVars
<1>5. UsedByJobs'
  BY StillUsed DEF BillInv, Outside
<1>6. Admitted'
  BY DEF BillInv, Admitted, Outside, postVars
<1>7. GateLags'
  BY StillGate DEF BillInv, Outside, postVars, chargeVars
<1>8. Credited' = Credited
  <2>1. \A e \in Emitted' : e \in 1 .. MaxEvents
    <3>1. Emitted' = 1 .. Len(events') /\ Len(events') \in Nat
      BY <1>1, LenProperties DEF Emitted
    <3> QED BY <1>1, <3>1, BoundAssumption
  <2>2. ASSUME NEW e \in Emitted', applied'[e] > 0 PROVE e \in Emitted
    BY <2>1, <2>2 DEF BillInv, Admitted, TypeOK, Outside, postVars
  <2> QED BY <1>1, <2>2 DEF Credited, Packs, Outside, postVars
<1>9. CreditsBalance'
  BY <1>8, StillBooks DEF BillInv, Outside, chargeVars
<1> QED BY <1>3, <1>4, <1>5, <1>6, <1>7, <1>8, <1>9 DEF BillInv

LEMMA OutsideSteps ==
  ASSUME BillInv, NEW t \in Tab,
         TabStart(t) \/ TabCreate(t) \/ PayPack(t) \/ Subscribe(t)
  PROVE  Outside
<1>1. CASE TabStart(t)
  BY <1>1 DEF TabStart, Outside, BillInv, TypeOK, Emitted
<1>2. CASE TabCreate(t)
  BY <1>2 DEF TabCreate, Outside, BillInv, TypeOK, Emitted
<1>3. CASE PayPack(t)
  <2>1. Emit("pack", t, 0) /\ "pack" \in Kind /\ 0 \in 0 .. MaxEvents
    BY <1>3, BoundAssumption DEF PayPack, Kind
  <2>2. Emitted \subseteq Emitted'
    BY <2>1, EmitFacts DEF BillInv
  <2> QED BY <1>3, <2>1, <2>2 DEF PayPack, Outside, BillInv, TypeOK
<1>4. CASE Subscribe(t)
  <2>1. Upcoming \in 0 .. MaxEvents
    <3>1. Len(events) \in Nat /\ Len(events) < MaxEvents
      BY <1>4, LenProperties DEF Subscribe, Emit, BillInv, TypeOK
    <3> QED BY <3>1, BoundAssumption DEF Upcoming
  <2>2. Emit("changed", t, Upcoming) /\ "changed" \in Kind
    BY <1>4 DEF Subscribe, Kind
  <2>3. Emitted' = Emitted \cup {Upcoming}
    BY <2>1, <2>2, EmitFacts DEF BillInv
  <2>4. \E kind \in Kind, cust \in Tab, sub \in 0 .. MaxEvents : Emit(kind, cust, sub)
    BY <2>1, <2>2
  <2> QED BY <1>4, <2>3, <2>4 DEF Subscribe, Outside, BillInv, TypeOK
<1> QED BY <1>1, <1>2, <1>3, <1>4

LEMMA SubscriptionOutside ==
  ASSUME BillInv, NEW s \in live, SubscriptionEvent(s) PROVE Outside
<1>1. s \in Emitted /\ s \in 0 .. MaxEvents /\ events[s].cust \in Tab
  BY EventFacts, BoundAssumption DEF BillInv, TypeOK
<1>2. \E kind \in Kind : Emit(kind, events[s].cust, s)
  BY DEF SubscriptionEvent, Kind
<1>3. Emitted \subseteq Emitted'
  BY <1>1, <1>2, EmitFacts DEF BillInv
<1>4. live' \subseteq Emitted' /\ tab' \in [Tab -> {"idle", "creating", "created"}]
      /\ buyers' \subseteq Tab /\ muddled' \in BOOLEAN
  BY <1>3 DEF SubscriptionEvent, BillInv, TypeOK
<1> QED BY <1>1, <1>2, <1>4 DEF SubscriptionEvent, Outside

LEMMA RecordKeeps == ASSUME BillInv, NEW t \in Tab, TabRecord(t) PROVE BillInv'
<1>1. /\ bill' \in Row /\ bill'.balance = bill.balance /\ bill'.perJob = bill.perJob
      /\ UNCHANGED <<blocked, events, live, postVars, chargeVars, tangled, muddled, upsets>>
      /\ tab' \in [Tab -> {"idle", "creating", "created"}] /\ buyers' \subseteq Tab
  BY DEF TabRecord, OnRecord, BillInv, TypeOK, Row
<1>2. TypeOK'
  BY <1>1 DEF BillInv, TypeOK, Row, Emitted, postVars, chargeVars
<1>3. Carried' /\ Admitted' /\ Credited' = Credited
  BY <1>1 DEF BillInv, Carried, Admitted, Working, Credited, Packs, Emitted, postVars
<1>4. UsedByJobs' /\ GateLags' /\ CreditsBalance'
  BY <1>1, <1>3, StillUsed, StillGate, StillBooks DEF BillInv, postVars, chargeVars
<1> QED BY <1>2, <1>3, <1>4 DEF BillInv

-----------------------------------------------------------------------------
(* Webhooks.                                                               *)

\* Only the requests, and what they answered, recorded and lost, change.
Web(p) ==
  /\ post' = p
  /\ UNCHANGED <<bill, blocked, stripeVars, applied, chargeVars, muddled>>
  /\ acked' \subseteq Emitted /\ ledger' \subseteq Emitted /\ ledger \subseteq ledger'
  /\ lost' \subseteq ledger'
  /\ UNCHANGED upsets \/ Upset
  /\ tangled' \in BOOLEAN /\ (tangled => tangled')

LEMMA WebTypes ==
  ASSUME BillInv, NEW p \in [Delivery -> Posts], Web(p)
  PROVE  TypeOK' /\ UsedByJobs' /\ CreditsBalance'
<1>1. TypeOK'
  BY UpsetType DEF Web, BillInv, TypeOK, Posts, Emitted, stripeVars, chargeVars
<1>2. Credited' = Credited
  BY DEF Web, Credited, Packs, Emitted, stripeVars
<1> QED BY <1>1, <1>2, StillUsed, StillBooks DEF Web, BillInv, chargeVars

LEMMA PostFields ==
  ASSUME BillInv
  PROVE  /\ post \in [Delivery -> Posts] /\ Idle \in Posts
         /\ \A d \in Delivery : post[d].step # "idle" => post[d].ev \in Emitted
BY DEF BillInv, TypeOK, Carried, Posts, Idle

LEMMA DeliverKeeps ==
  ASSUME BillInv, NEW d \in Delivery, NEW e \in Emitted, Deliver(d, e) PROVE BillInv'
<1> DEFINE p == [post EXCEPT ![d] = [ev |-> e, step |-> "insert"]]
<1>1. p \in [Delivery -> Posts] /\ post[d].step = "idle"
  BY PostFields DEF Deliver, Posts
<1>2. Web(p) /\ UNCHANGED <<ledger, tangled>>
  BY DEF Deliver, AckedOnArrival, Web, BillInv, TypeOK, stripeVars
<1>3. \A c \in Delivery : \/ c # d /\ post'[c] = post[c]
                          \/ c = d /\ post'[c] = [ev |-> e, step |-> "insert"]
  BY <1>1, <1>2, PostFields DEF Web
<1> HIDE DEF p
<1>4. Emitted' = Emitted /\ UNCHANGED <<bill, blocked, applied, charge, tangled>>
  BY <1>2 DEF Web, stripeVars, chargeVars, Emitted
<1>5. Carried'
  BY <1>2, <1>3, <1>4 DEF BillInv, Carried, Working
<1>6. Admitted'
  BY <1>2, <1>3, <1>4 DEF BillInv, Admitted
<1>7. GateLags'
  BY <1>1, <1>3, <1>4 DEF BillInv, GateLags, Emptying, Topping
<1> QED BY <1>1, <1>2, <1>5, <1>6, <1>7, WebTypes DEF BillInv

LEMMA InsertKeeps == ASSUME BillInv, NEW d \in Delivery, Insert(d) PROVE BillInv'
<1> DEFINE e == post[d].ev
<1>1. post[d].step = "insert" /\ e \in Emitted /\ post \in [Delivery -> Posts]
  BY PostFields DEF Insert
<1>2. UNCHANGED <<bill, blocked, applied, charge, tangled, events, upsets>> /\ Emitted' = Emitted
  BY DEF Insert, stripeVars, chargeVars, Emitted
<1>3. CASE e \in ledger
  <2> DEFINE p == [post EXCEPT ![d] = Idle]
  <2>1. p \in [Delivery -> Posts]
    BY <1>1, PostFields
  <2>2. Web(p) /\ UNCHANGED ledger
    BY <1>1, <1>3 DEF Insert, Recorded, Answer, Web, BillInv, TypeOK, stripeVars
  <2>3. \A c \in Delivery : \/ c # d /\ post'[c] = post[c]
                            \/ c = d /\ post'[c].step = "idle"
    BY <1>1, <2>2 DEF Web, Idle
  <2> HIDE DEF p
  <2>4. Carried' /\ Admitted' /\ GateLags'
    BY <1>1, <1>2, <2>2, <2>3
       DEF BillInv, Carried, Working, Admitted, GateLags, Emptying, Topping
  <2> QED BY <2>1, <2>2, <2>4, WebTypes DEF BillInv
<1>4. CASE e \notin ledger
  <2> DEFINE p == [post EXCEPT ![d].step = "dispatch"]
  <2>1. p \in [Delivery -> Posts]
    BY <1>1 DEF Posts
  <2>2. Web(p) /\ ledger' = ledger \cup {e}
    BY <1>1, <1>4 DEF Insert, Recorded, Web, BillInv, TypeOK, stripeVars
  <2>3. \A c \in Delivery : \/ c # d /\ post'[c] = post[c]
                            \/ c = d /\ post'[c].step = "dispatch" /\ post'[c].ev = e
    BY <1>1, <2>2 DEF Web, Posts
  <2> HIDE DEF p
  <2>4. Carried'
    BY <1>1, <1>2, <2>2, <2>3 DEF BillInv, Carried, Working
  <2>5. applied[e] = 0 /\ \A c \in Delivery : post[c].step = "dispatch" => post[c].ev # e
    BY <1>1, <1>4, EventFacts DEF BillInv, Admitted, Carried, Working
  <2> HIDE DEF e
  <2>6. Admitted'
    BY <1>1, <1>2, <2>2, <2>3, <2>5 DEF BillInv, Admitted
  <2>7. GateLags'
    BY <1>1, <1>2, <2>3 DEF BillInv, GateLags, Emptying, Topping
  <2> QED BY <2>1, <2>2, <2>4, <2>6, <2>7, WebTypes DEF BillInv
<1> QED BY <1>3, <1>4

LEMMA UnblockKeeps == ASSUME BillInv, NEW d \in Delivery, Unblock(d) PROVE BillInv'
<1> DEFINE p == [post EXCEPT ![d] = Idle]
<1>1. post[d].step = "unblock" /\ post[d].ev \in Emitted /\ p \in [Delivery -> Posts]
  BY PostFields DEF Unblock
<1>2. /\ post' = p /\ blocked' = FALSE /\ acked' = acked \cup {post[d].ev}
      /\ UNCHANGED <<bill, stripeVars, ledger, lost, applied, chargeVars, tangled, muddled, upsets>>
  BY DEF Unblock, Cleared, Answer
<1>3. \A c \in Delivery : \/ c # d /\ post'[c] = post[c]
                          \/ c = d /\ post'[c].step = "idle"
  BY <1>2, PostFields DEF Idle
<1>4. TypeOK'
  BY <1>1, <1>2 DEF BillInv, TypeOK, Posts, Emitted, stripeVars, chargeVars
<1> HIDE DEF p
<1>5. Carried' /\ Admitted'
  BY <1>1, <1>2, <1>3 DEF BillInv, Carried, Working, Admitted, Emitted, stripeVars
<1>6. GateLags'
  BY <1>1, <1>2, <1>3 DEF BillInv, TypeOK, GateLags, Emptying, Topping, chargeVars
<1>7. Credited' = Credited
  BY <1>2 DEF Credited, Packs, Emitted, stripeVars
<1>8. UsedByJobs' /\ CreditsBalance'
  BY <1>2, <1>7, StillUsed, StillBooks DEF BillInv, chargeVars
<1> QED BY <1>4, <1>5, <1>6, <1>8 DEF BillInv

LEMMA CutOffRecorded ==
  ASSUME BillInv, NEW ds \in SUBSET Delivery PROVE CutOff(ds) \subseteq ledger
BY DEF CutOff, BillInv, Carried, Working

LEMMA FailKeeps == ASSUME BillInv, NEW d \in Delivery, Fail(d) PROVE BillInv'
<1> DEFINE p == [post EXCEPT ![d] = Idle]
<1>1. post[d].step # "idle" /\ p \in [Delivery -> Posts]
  BY PostFields DEF Fail
<1>2. tangled' = (tangled \/ post[d].step = "unblock")
  BY DEF Fail
<1>3. Web(p) /\ ledger' = ledger
  <2>1. lost' \subseteq ledger
    BY CutOffRecorded DEF Fail, BillInv, TypeOK
  <2> QED BY <1>2, <2>1 DEF Fail, Web, BillInv, TypeOK, stripeVars
<1>4. \A c \in Delivery : \/ c # d /\ post'[c] = post[c]
                          \/ c = d /\ post'[c].step = "idle"
  BY <1>3, PostFields DEF Web, Idle
<1> HIDE DEF p
<1>5. Carried' /\ Admitted'
  BY <1>3, <1>4 DEF BillInv, Carried, Working, Admitted, Web, Emitted, stripeVars
<1>6. GateLags'
  BY <1>2, <1>3, <1>4 DEF BillInv, GateLags, Emptying, Topping, Web, chargeVars
<1> QED BY <1>1, <1>3, <1>5, <1>6, WebTypes DEF BillInv

\* One event is dispatched: its record lets it through once.
LEMMA Dispatched ==
  ASSUME BillInv, NEW d \in Delivery, post[d].step = "dispatch"
  PROVE  /\ post[d].ev \in Emitted /\ post[d].ev \in 1 .. MaxEvents
         /\ post[d].ev \in ledger /\ applied[post[d].ev] = 0
         /\ \A c \in Delivery \ {d} : post[c].step = "dispatch" => post[c].ev # post[d].ev
BY EventFacts DEF BillInv, Carried, Working, Admitted

LEMMA AdmittedDispatch ==
  ASSUME BillInv, NEW d \in Delivery, post[d].step = "dispatch",
         applied' = [applied EXCEPT ![post[d].ev] = @ + 1], ledger' = ledger,
         \A c \in Delivery \ {d} : post'[c] = post[c],
         post'[d].step # "dispatch"
  PROVE  Admitted' /\ \A e \in 1 .. MaxEvents :
                         applied'[e] = IF e = post[d].ev THEN 1 ELSE applied[e]
<1>1. \A e \in 1 .. MaxEvents : applied'[e] = IF e = post[d].ev THEN 1 ELSE applied[e]
  BY Dispatched DEF BillInv, TypeOK
<1>2. \A c \in Delivery : post'[c].step = "dispatch" =>
        c # d /\ post[c].step = "dispatch" /\ post'[c].ev = post[c].ev /\ post[c].ev # post[d].ev
        /\ post[c].ev \in 1 .. MaxEvents
  BY Dispatched
<1> QED BY <1>1, <1>2, Dispatched DEF BillInv, Admitted

LEMMA AppliedType ==
  ASSUME BillInv, NEW e \in Emitted, applied' = [applied EXCEPT ![e] = @ + 1]
  PROVE  applied' \in [1 .. MaxEvents -> Nat]
<1>1. e \in 1 .. MaxEvents /\ applied \in [1 .. MaxEvents -> Nat]
  BY EventFacts DEF BillInv, TypeOK
<1>2. applied[e] + 1 \in Nat
  BY <1>1
<1> QED BY <1>1, <1>2

LEMMA CreditedFinite == ASSUME BillInv PROVE IsFiniteSet(Credited) /\ Cardinality(Credited) \in Nat
<1>1. Credited \subseteq 1 .. MaxEvents
  BY EventFacts DEF BillInv, Credited, Packs
<1>2. IsFiniteSet(1 .. MaxEvents)
  BY FS_Interval, BoundAssumption
<1> QED BY <1>1, <1>2, FS_Subset, FS_CardinalityType

LEMMA CreditKeeps == ASSUME BillInv, NEW d \in Delivery, Credit(d) PROVE BillInv'
<1> DEFINE e == post[d].ev
<1>1. post[d].step = "dispatch" /\ e \in Emitted /\ events[e].kind = "pack"
  BY Dispatched DEF Credit
<1>2. /\ bill' = [bill EXCEPT !.balance = @ + Pack, !.perJob = TRUE]
      /\ applied' = [applied EXCEPT ![e] = @ + 1]
      /\ post' = [post EXCEPT ![d].step = "unblock"]
      /\ tangled' = (tangled \/ Meets(charge, post'))
      /\ UNCHANGED <<blocked, stripeVars, acked, ledger, lost, chargeVars, muddled, upsets>>
  BY DEF Credit
<1>3. /\ \A c \in Delivery \ {d} : post'[c] = post[c]
      /\ post'[d].step = "unblock" /\ post'[d].ev = e /\ post' \in [Delivery -> Posts]
  BY <1>2, PostFields DEF Posts
<1>4. Admitted' /\ \A x \in 1 .. MaxEvents : applied'[x] = IF x = e THEN 1 ELSE applied[x]
  BY <1>1, <1>2, <1>3, AdmittedDispatch
<1>5. /\ bill' \in Row /\ bill'.balance = bill.balance + Pack /\ bill'.balance > 0
  <2>1. bill \in Row /\ bill.balance \in Nat /\ bill.balance + Pack \in Nat
        /\ bill.balance + Pack > 0
    BY BoundAssumption DEF BillInv, TypeOK, Row
  <2> QED BY <1>2, <2>1 DEF Row
<1>6. TypeOK'
  <2>1. applied' \in [1 .. MaxEvents -> Nat]
    BY <1>1, <1>2, AppliedType
  <2>2. tangled' \in BOOLEAN
    BY <1>2 DEF Meets, BillInv, TypeOK
  <2> QED BY <1>2, <1>3, <1>5, <2>1, <2>2
          DEF BillInv, TypeOK, Row, Posts, Emitted, stripeVars, chargeVars
<1>7. Carried'
  BY <1>1, <1>2, <1>3, Dispatched DEF BillInv, Carried, Working, Emitted, stripeVars
<1>8. UsedByJobs'
  BY <1>2, StillUsed DEF BillInv
<1>9. CreditsBalance'
  <2>1. e \in 1 .. MaxEvents /\ applied[e] = 0
    BY <1>1, Dispatched
  <2>2. e \notin Credited
    BY <2>1 DEF Credited
  <2>3. Credited' = Credited \cup {e}
    BY <1>1, <1>2, <1>4, <2>1, EventFacts DEF BillInv, Credited, Packs, Emitted, stripeVars
  <2>4. Cardinality(Credited') = Cardinality(Credited) + 1
    BY <2>2, <2>3, CreditedFinite, FS_AddElement
  <2>5. Pack * (Cardinality(Credited) + 1) = Pack * Cardinality(Credited) + Pack
    BY CreditedFinite, BoundAssumption
  <2>6. bill.balance + used = Pack * Cardinality(Credited) /\ bill.balance \in Nat /\ used \in Nat
    BY BoundAssumption DEF BillInv, CreditsBalance, Credited, TypeOK
  <2>7. used' = used
    BY <1>2 DEF chargeVars
  <2>8. bill'.balance + used' = Pack * Cardinality(Credited')
    BY <1>5, <2>4, <2>5, <2>6, <2>7, CreditedFinite, BoundAssumption
  <2> QED BY <2>8 DEF CreditsBalance, Credited
<1>10. GateLags'
  <2> SUFFICES ASSUME ~tangled' PROVE GateLags'
    BY DEF GateLags
  <2>1. ~tangled /\ ~Meets(charge, post') /\ UNCHANGED <<charge, blocked>>
    BY <1>2 DEF chargeVars
  <2>2. Topping'
    BY <1>3 DEF Topping
  <2>3. ~Emptying'
    BY <2>1, <2>2 DEF Meets, Emptying, Topping
  <2> QED BY <1>5, <2>1, <2>2, <2>3 DEF GateLags
<1> QED BY <1>4, <1>6, <1>7, <1>8, <1>9, <1>10 DEF BillInv

LEMMA ApplyKeeps == ASSUME BillInv, NEW d \in Delivery, ApplySubscription(d) PROVE BillInv'
<1> DEFINE e == post[d].ev
<1>1. post[d].step = "dispatch" /\ e \in Emitted /\ events[e].kind # "pack"
  BY Dispatched DEF ApplySubscription
<1>2. /\ bill' = IF events[e].cust = bill.customer THEN After(events[e]) ELSE bill
      /\ applied' = [applied EXCEPT ![e] = @ + 1]
      /\ post' = [post EXCEPT ![d] = Idle] /\ acked' = acked \cup {e}
      /\ UNCHANGED <<blocked, stripeVars, ledger, lost, chargeVars, tangled, upsets>>
      /\ muddled' \in BOOLEAN
  BY DEF ApplySubscription, Answer, BillInv, TypeOK
<1>3. /\ \A c \in Delivery \ {d} : post'[c] = post[c]
      /\ post'[d].step = "idle" /\ post' \in [Delivery -> Posts]
  BY <1>2, PostFields DEF Idle
<1>4. Admitted' /\ \A x \in 1 .. MaxEvents : applied'[x] = IF x = e THEN 1 ELSE applied[x]
  BY <1>1, <1>2, <1>3, AdmittedDispatch
<1>5. bill' \in Row /\ bill'.balance = bill.balance /\ (bill'.perJob => bill.perJob)
  <2>1. bill \in Row /\ events[e].sub \in 0 .. MaxEvents /\ 0 \in 0 .. MaxEvents
        /\ events[e].kind \in {"changed", "deleted", "paid"}
    BY <1>1, EventFacts, BoundAssumption DEF BillInv, TypeOK, Row, Kind
  <2> HIDE DEF e
  <2>2. CASE events[e].kind = "changed"
    BY <1>2, <2>1, <2>2 DEF After, Row
  <2>3. CASE events[e].kind = "deleted"
    BY <1>2, <2>1, <2>3 DEF After, Row
  <2>4. CASE events[e].kind = "paid"
    BY <1>2, <2>1, <2>4 DEF After, Row
  <2> QED BY <2>1, <2>2, <2>3, <2>4
<1>6. TypeOK'
  <2>1. applied' \in [1 .. MaxEvents -> Nat]
    BY <1>1, <1>2, AppliedType
  <2> QED BY <1>1, <1>2, <1>3, <1>5, <2>1
          DEF BillInv, TypeOK, Row, Posts, Emitted, stripeVars, chargeVars
<1>7. Carried'
  BY <1>2, <1>3 DEF BillInv, Carried, Working, Emitted, stripeVars
<1>8. Credited' = Credited
  BY <1>1, <1>2, <1>4, EventFacts DEF BillInv, Credited, Packs, Emitted, stripeVars
<1>9. UsedByJobs' /\ CreditsBalance'
  BY <1>2, <1>5, <1>8, StillUsed, StillBooks DEF BillInv, chargeVars
<1>10. GateLags'
  BY <1>1, <1>2, <1>3, <1>5 DEF BillInv, GateLags, Emptying, Topping, chargeVars
<1> QED BY <1>4, <1>6, <1>7, <1>9, <1>10 DEF BillInv

-----------------------------------------------------------------------------
(* Charges and restarts.                                                   *)

\* What a charge leaves alone.
Apart == UNCHANGED <<stripeVars, postVars, muddled, upsets>>

LEMMA ApartKeeps ==
  ASSUME BillInv, Apart
  PROVE  Carried' /\ Admitted' /\ Credited' = Credited
BY DEF BillInv, Apart, Carried, Working, Admitted, Credited, Packs, Emitted, stripeVars, postVars

LEMMA ChargeFacts ==
  ASSUME BillInv
  PROVE  /\ charge \in [Charge -> Charging] /\ Owes("job1") \in {0, 1} /\ Owes("job2") \in {0, 1}
         /\ \A c \in Charge : Owes(c) \in {0, 1}
         /\ used \in Nat /\ jobs \in Nat /\ jobs <= MaxJobs /\ bill.balance \in Nat
BY BoundAssumption DEF BillInv, TypeOK, Owes, Charging

\* The charge c goes from one step to the next.
LEMMA ChargeMoves ==
  ASSUME BillInv, NEW c \in Charge, NEW s \in Charging, charge' = [charge EXCEPT ![c] = s]
  PROVE  /\ charge' \in [Charge -> Charging] /\ charge'[c] = s
         /\ \A x \in Charge \ {c} : charge'[x] = charge[x]
         /\ Owes("job1")' + Owes("job2")' =
              Owes("job1") + Owes("job2") - Owes(c) + (IF s = "charging" THEN 1 ELSE 0)
<1>1. /\ charge' \in [Charge -> Charging] /\ charge'[c] = s
      /\ \A x \in Charge \ {c} : charge'[x] = charge[x]
  BY ChargeFacts
<1>2. c = "job1" \/ c = "job2"
  BY DEF Charge
<1> QED BY <1>1, <1>2 DEF Owes, Charge

LEMMA ChargeStartKeeps == ASSUME BillInv, NEW c \in Charge, ChargeStart(c) PROVE BillInv'
<1>1. charge' = [charge EXCEPT ![c] = "charging"] /\ charge[c] = "idle" /\ jobs' = jobs + 1
      /\ jobs < MaxJobs /\ UNCHANGED <<bill, blocked, used, tangled>> /\ Apart
  BY DEF ChargeStart, Apart
<1>2. /\ charge' \in [Charge -> Charging] /\ charge'[c] = "charging"
      /\ \A x \in Charge \ {c} : charge'[x] = charge[x]
      /\ Owes("job1")' + Owes("job2")' = Owes("job1") + Owes("job2") - Owes(c) + 1
  BY <1>1, ChargeMoves DEF Charging
<1>3. TypeOK'
  BY <1>1, <1>2, ChargeFacts, BoundAssumption
     DEF BillInv, TypeOK, Charging, Apart, Emitted, stripeVars, postVars
<1>4. UsedByJobs'
  <2>1. Owes(c) = 0
    BY <1>1 DEF Owes
  <2>2. Owes("job1")' \in {0, 1} /\ Owes("job2")' \in {0, 1}
    BY DEF Owes
  <2> QED BY <1>1, <1>2, <2>1, <2>2, ChargeFacts DEF BillInv, UsedByJobs
<1>5. GateLags'
  BY <1>1, <1>2 DEF BillInv, GateLags, Emptying, Topping, Apart, postVars
<1>6. CreditsBalance'
  BY <1>1, ApartKeeps, StillBooks DEF BillInv
<1> QED BY <1>1, <1>3, <1>4, <1>5, <1>6, ApartKeeps DEF BillInv

LEMMA DeductKeeps == ASSUME BillInv, NEW c \in Charge, Deduct(c) PROVE BillInv'
<1> DEFINE s == IF Exhausted(Floored) THEN "blocking" ELSE "idle"
<1>1. /\ charge[c] = "charging" /\ charge' = [charge EXCEPT ![c] = s] /\ s \in Charging
      /\ bill' = [bill EXCEPT !.balance = Floored]
      /\ used' = IF bill.balance > 0 THEN used + 1 ELSE used
      /\ tangled' = (tangled \/ Meets(charge', post))
      /\ UNCHANGED <<blocked, jobs>> /\ Apart
  BY DEF Deduct, Apart, Charging
<1>2. Floored \in Nat /\ Floored + used' = bill.balance + used
      /\ (s = "blocking" <=> Floored = 0) /\ (bill.balance = 0 => Floored = 0)
  BY <1>1, ChargeFacts DEF Floored, Exhausted
<1>3. bill' \in Row /\ bill'.balance = Floored /\ bill'.perJob = bill.perJob
  BY <1>1, <1>2 DEF BillInv, TypeOK, Row
<1>4. s # "charging"
  BY DEF Exhausted
<1> HIDE DEF s
<1>5. /\ charge' \in [Charge -> Charging] /\ charge'[c] = s
      /\ \A x \in Charge \ {c} : charge'[x] = charge[x]
      /\ Owes("job1")' + Owes("job2")' = Owes("job1") + Owes("job2") - Owes(c)
  <2>1. (IF s = "charging" THEN 1 ELSE 0) = 0
    BY <1>4
  <2>2. /\ charge' \in [Charge -> Charging] /\ charge'[c] = s
        /\ \A x \in Charge \ {c} : charge'[x] = charge[x]
        /\ Owes("job1")' + Owes("job2")' = Owes("job1") + Owes("job2") - Owes(c)
                                             + (IF s = "charging" THEN 1 ELSE 0)
    BY <1>1, ChargeMoves
  <2> QED BY <2>1, <2>2, ChargeFacts
<1>6. UsedByJobs'
  <2>1. Owes(c) = 1
    BY <1>1 DEF Owes
  <2>2. Owes("job1")' \in {0, 1} /\ Owes("job2")' \in {0, 1}
    BY DEF Owes
  <2> QED BY <1>1, <1>5, <2>1, <2>2, ChargeFacts DEF BillInv, UsedByJobs
<1>7. TypeOK'
  <2>1. tangled' \in BOOLEAN
    BY <1>1 DEF Meets, BillInv, TypeOK
  <2>2. used' \in Nat /\ used' <= jobs /\ Owes("job1")' \in Nat /\ Owes("job2")' \in Nat
    BY <1>1, <1>6, ChargeFacts DEF UsedByJobs, Owes
  <2>3. used' \in 0 .. MaxJobs
    BY <2>2, ChargeFacts, BoundAssumption
  <2> QED BY <1>1, <1>3, <1>5, <2>1, <2>3
          DEF BillInv, TypeOK, Row, Charging, Apart, Emitted, stripeVars, postVars
<1>8. GateLags'
  <2> SUFFICES ASSUME ~tangled' PROVE GateLags'
    BY DEF GateLags
  <2>1. ~tangled /\ ~Meets(charge', post) /\ UNCHANGED <<post, blocked>>
    BY <1>1 DEF Apart, postVars
  <2>2. ~(Emptying' /\ Topping')
    BY <2>1 DEF Meets, Emptying, Topping
  <2>3. Topping' = Topping
    BY <2>1 DEF Topping
  <2>4. Floored = 0 => Emptying' /\ ~Topping'
    BY <1>2, <1>5, <2>2 DEF Emptying
  <2>5. Emptying' => Floored = 0
    BY <1>2, <1>5, <2>1 DEF BillInv, GateLags, Emptying
  <2> QED BY <1>2, <1>3, <2>1, <2>2, <2>3, <2>4, <2>5 DEF BillInv, GateLags
<1>9. CreditsBalance'
  <2>1. Credited' = Credited
    BY <1>1, ApartKeeps
  <2> QED BY <1>2, <1>3, <2>1 DEF BillInv, CreditsBalance, Credited
<1> QED BY <1>1, <1>6, <1>7, <1>8, <1>9, ApartKeeps DEF BillInv

LEMMA BlockKeeps == ASSUME BillInv, NEW c \in Charge, Block(c) PROVE BillInv'
<1>1. /\ charge[c] = "blocking" /\ charge' = [charge EXCEPT ![c] = "idle"]
      /\ blocked' = TRUE /\ UNCHANGED <<bill, jobs, used, tangled>> /\ Apart
  BY DEF Block, Apart
<1>2. /\ charge' \in [Charge -> Charging] /\ charge'[c] = "idle"
      /\ \A x \in Charge \ {c} : charge'[x] = charge[x]
      /\ Owes("job1")' + Owes("job2")' = Owes("job1") + Owes("job2") - Owes(c)
  BY <1>1, ChargeMoves, ChargeFacts DEF Charging, Owes
<1>3. TypeOK'
  BY <1>1, <1>2 DEF BillInv, TypeOK, Charging, Apart, Emitted, stripeVars, postVars
<1>4. UsedByJobs'
  <2>1. Owes(c) = 0
    BY <1>1 DEF Owes
  <2>2. Owes("job1")' \in {0, 1} /\ Owes("job2")' \in {0, 1}
    BY DEF Owes
  <2> QED BY <1>1, <1>2, <2>1, <2>2, ChargeFacts DEF BillInv, UsedByJobs
<1>5. GateLags'
  BY <1>1, <1>2 DEF BillInv, GateLags, Emptying, Topping, Apart, postVars
<1>6. CreditsBalance'
  BY <1>1, ApartKeeps, StillBooks DEF BillInv
<1> QED BY <1>1, <1>3, <1>4, <1>5, <1>6, ApartKeeps DEF BillInv

LEMMA CrashKeeps == ASSUME BillInv, Crash PROVE BillInv'
<1>1. /\ post' = [d \in Delivery |-> Idle] /\ charge' = [c \in Charge |-> "idle"]
      /\ tab' = [t \in Tab |-> "idle"] /\ lost' \subseteq ledger /\ upsets' \in 0 .. MaxUpsets
      /\ tangled' = (tangled \/ Emptying \/ Topping)
      /\ UNCHANGED <<bill, blocked, buyers, events, live, acked, ledger, applied, jobs, used, muddled>>
  BY CutOffRecorded, UpsetType DEF Crash, BillInv, TypeOK, Emptying, Topping
<1>2. TypeOK'
  <2>1. tangled' \in BOOLEAN
    BY <1>1 DEF BillInv, TypeOK, Emptying, Topping
  <2> QED BY <1>1, <2>1, PostFields DEF BillInv, TypeOK, Posts, Idle, Emitted
<1>3. \A d \in Delivery : post'[d].step = "idle"
  BY <1>1 DEF Idle
<1>4. \A c \in Charge : charge'[c] = "idle"
  BY <1>1
<1>5. Carried' /\ Admitted'
  BY <1>1, <1>3 DEF BillInv, Carried, Working, Admitted
<1>6. UsedByJobs'
  BY <1>1, <1>4, ChargeFacts DEF BillInv, UsedByJobs, Owes, Charge
<1>7. GateLags'
  BY <1>1, <1>3, <1>4 DEF BillInv, GateLags, Emptying, Topping
<1>8. Credited' = Credited
  BY <1>1 DEF Credited, Packs, Emitted
<1>9. CreditsBalance'
  BY <1>1, <1>8, StillBooks DEF BillInv
<1> QED BY <1>2, <1>5, <1>6, <1>7, <1>9 DEF BillInv

-----------------------------------------------------------------------------
(* The theorems.                                                           *)

LEMMA BillInit == Init => BillInv
<1> SUFFICES ASSUME Init PROVE BillInv
  OBVIOUS
<1>1. events = <<>> /\ Emitted = {} /\ events \in Seq(Event) /\ Len(events) = 0
  BY EmptySeq, LenProperties DEF Init, Emitted
<1>2. TypeOK
  <2>1. 0 \in Nat /\ 0 \in 0 .. MaxEvents /\ 0 \in 0 .. MaxJobs /\ 0 \in 0 .. MaxUpsets
    BY BoundAssumption
  <2>2. bill = [balance |-> 0, perJob |-> FALSE, sub |-> 0, customer |-> "none",
                status |-> "ACTIVE"]
    BY DEF Init
  <2>3. bill \in Row
    BY <2>1, <2>2 DEF Row
  <2>4. post \in [Delivery -> Posts]
    BY DEF Init, Posts, Idle
  <2>5. applied \in [1 .. MaxEvents -> Nat]
    BY <2>1 DEF Init
  <2>6. tab \in [Tab -> {"idle", "creating", "created"}] /\ charge \in [Charge -> Charging]
    BY DEF Init, Charging
  <2>7. /\ blocked = FALSE /\ buyers = {} /\ live = {} /\ acked = {} /\ ledger = {} /\ lost = {}
        /\ jobs = 0 /\ used = 0 /\ tangled = FALSE /\ muddled = FALSE /\ upsets = 0
    BY DEF Init
  <2>8. /\ Len(events) <= MaxEvents /\ buyers \subseteq Tab /\ acked \subseteq Emitted
        /\ ledger \subseteq Emitted /\ lost \subseteq ledger /\ live \subseteq Emitted
        /\ jobs \in 0 .. MaxJobs /\ used \in 0 .. MaxJobs /\ upsets \in 0 .. MaxUpsets
    BY <1>1, <2>1, <2>7, BoundAssumption
  <2>9. blocked \in BOOLEAN /\ tangled \in BOOLEAN /\ muddled \in BOOLEAN
    BY <2>7
  <2> QED BY <1>1, <2>3, <2>4, <2>5, <2>6, <2>8, <2>9, Zenon DEF TypeOK, Row, Posts, Charging
<1>3. Carried /\ UsedByJobs /\ Admitted /\ GateLags
  BY DEF Init, Idle, Carried, Working, UsedByJobs, Owes, Charge, Admitted, GateLags,
         Emptying, Topping
<1>4. Packs = {}
  BY <1>1 DEF Packs
<1>5. CreditsBalance
  BY <1>4, FS_EmptySet, BoundAssumption DEF Init, CreditsBalance
<1> QED BY <1>2, <1>3, <1>5 DEF BillInv

LEMMA BillNext == BillInv /\ [Next]_vars => BillInv'
<1> SUFFICES ASSUME BillInv, [Next]_vars PROVE BillInv'
  OBVIOUS
<1>1. ASSUME NEW t \in Tab, TabStart(t) \/ TabCreate(t) \/ TabRecord(t) \/ PayPack(t) \/ Subscribe(t)
      PROVE  BillInv'
  BY <1>1, OutsideSteps, OutsideKeeps, RecordKeeps
<1>2. ASSUME NEW s \in live, SubscriptionEvent(s) PROVE BillInv'
  BY <1>2, SubscriptionOutside, OutsideKeeps
<1>3. ASSUME NEW d \in Delivery, Handles(d) PROVE BillInv'
  BY <1>3, InsertKeeps, CreditKeeps, UnblockKeeps, ApplyKeeps DEF Handles
<1>4. ASSUME NEW d \in Delivery, Fail(d) PROVE BillInv'
  BY <1>4, FailKeeps
<1>5. ASSUME NEW d \in Delivery, NEW e \in Emitted, Deliver(d, e) PROVE BillInv'
  BY <1>5, DeliverKeeps
<1>6. ASSUME NEW c \in Charge, ChargeStart(c) \/ Deduct(c) \/ Block(c) PROVE BillInv'
  BY <1>6, ChargeStartKeeps, DeductKeeps, BlockKeeps
<1>7. CASE Crash
  BY <1>7, CrashKeeps
<1>8. CASE UNCHANGED vars
  <2>1. Outside
    BY <1>8 DEF vars, Outside, BillInv, TypeOK, Emitted, stripeVars
  <2> QED BY <2>1, OutsideKeeps
<1> QED BY <1>1, <1>2, <1>3, <1>4, <1>5, <1>6, <1>7, <1>8 DEF Next

(* The invariant is inductive. *)
THEOREM BillingInductive == Spec => []BillInv
BY BillInit, BillNext, PTL DEF Spec

(* Types. *)
THEOREM BillingTypeCorrect == Spec => []TypeOK
<1>1. BillInv => TypeOK
  BY DEF BillInv
<1> QED BY <1>1, BillingInductive, PTL

(* However often Stripe delivers a purchase, at once or after a failure, its credits
   are added at most once. *)
THEOREM PurchaseCreditedOnce == Spec => []CreditedOnce
<1>1. BillInv => CreditedOnce
  BY EventFacts DEF BillInv, Admitted, CreditedOnce, Packs
<1> QED BY <1>1, BillingInductive, PTL

(* No credit is created or destroyed by top-ups and charges that interleave. *)
THEOREM NoCreditLost == Spec => []CreditsBalance
<1>1. BillInv => CreditsBalance
  BY DEF BillInv
<1> QED BY <1>1, BillingInductive, PTL

(* At rest the gate agrees with the balance, unless a top-up and the charge of the last
   credit met, or one of them was cut off. *)
THEOREM GateAgrees == Spec => []GateFollowsBalance
<1>1. BillInv => GateFollowsBalance
  BY DEF BillInv, GateLags, GateFollowsBalance, Quiet, Emptying, Topping
<1> QED BY <1>1, BillingInductive, PTL

-----------------------------------------------------------------------------
(* The subscription on the tenant's row.                                   *)

\* The events that start, replace or end a subscription, and what each one leaves.
Turning   == {e \in Emitted : events[e].kind \in {"changed", "deleted"}}
Leaves(e) == IF events[e].kind = "changed" THEN events[e].sub ELSE 0

\* A recorded event is applied, or lost, or a request is about to apply it.
Told ==
  /\ acked \subseteq ledger
  /\ \A e \in ledger : \/ applied[e] > 0 \/ e \in lost
                       \/ \E d \in Delivery : post[d].step = "dispatch" /\ post[d].ev = e

\* One customer is created at a time, and the one on record is the only buyer.
OneBuyer ==
  /\ \A t, u \in Tab : tab[t] # "idle" /\ tab[u] # "idle" => t = u
  /\ bill.customer # "none" => \A t \in Tab : tab[t] = "idle"
  /\ buyers \subseteq {bill.customer}
  /\ \A e \in Emitted : events[e].cust = bill.customer

\* What runs at Stripe is what the last turning event left.
Runs == \/ live = {} /\ Turning = {}
        \/ \E e \in Turning : /\ \A f \in Turning : f <= e
                              /\ live = IF events[e].kind = "changed" THEN {events[e].sub} ELSE {}

\* The row is as a turning event left it after which no other was applied.
RowFollows == \/ bill.sub = 0 /\ \A e \in Turning : applied[e] = 0
              \/ \E e \in Turning : /\ bill.sub = Leaves(e)
                                    /\ \A f \in Turning : f > e => applied[f] = 0

Orderly   == ~muddled => OneBuyer /\ Runs /\ RowFollows
FollowInv == BillInv /\ Told /\ Orderly

LEMMA TurningFacts ==
  ASSUME BillInv
  PROVE  \A e \in Turning : /\ e \in Emitted /\ e \in 1 .. MaxEvents /\ applied[e] \in Nat
                            /\ events[e].kind # "pack"
BY EventFacts DEF Turning, BillInv, TypeOK

\* Checkouts move without a new buyer, events other than the turning ones are applied.
LEMMA OrderlySteady ==
  ASSUME Orderly, muddled' = muddled, UNCHANGED <<buyers, events, live>>,
         bill'.sub = bill.sub, bill'.customer = bill.customer,
         \A t \in Tab : tab'[t] # "idle" => tab[t] # "idle",
         \A e \in Turning : applied'[e] = applied[e]
  PROVE  Orderly'
<1> SUFFICES ASSUME ~muddled PROVE OneBuyer' /\ Runs' /\ RowFollows'
  BY DEF Orderly
<1>1. OneBuyer /\ Runs /\ RowFollows
  BY DEF Orderly
<1>2. Emitted' = Emitted /\ Turning' = Turning /\ \A e \in Turning : Leaves(e)' = Leaves(e)
  BY DEF Emitted, Turning, Leaves
<1>3. OneBuyer'
  BY <1>1, <1>2 DEF OneBuyer
<1>4. Runs'
  BY <1>1, <1>2 DEF Runs
<1>5. RowFollows'
  BY <1>1, <1>2 DEF RowFollows
<1> QED BY <1>3, <1>4, <1>5

LEMMA ToldSteady == ASSUME Told, UNCHANGED postVars PROVE Told'
BY DEF Told, postVars

\* The first checkout: nobody has bought anything.
LEMMA FollowTab ==
  ASSUME FollowInv, NEW t \in Tab, TabStart(t) \/ TabCreate(t) \/ TabRecord(t)
  PROVE  Told' /\ Orderly'
<1>0. tab \in [Tab -> {"idle", "creating", "created"}] /\ buyers \subseteq Tab
      /\ bill \in Row
  BY DEF FollowInv, BillInv, TypeOK, Row
<1>1. Told' /\ UNCHANGED <<events, live, applied>>
  BY ToldSteady DEF FollowInv, TabStart, TabCreate, TabRecord, postVars
<1>2. CASE TabCreate(t)
  <2>1. \A u \in Tab : tab'[u] # "idle" => tab[u] # "idle"
    BY <1>0, <1>2 DEF TabCreate
  <2> QED BY <1>1, <1>2, <2>1, OrderlySteady DEF TabCreate, FollowInv
<1>3. CASE TabStart(t) /\ ~muddled'
  <2>1. /\ ~muddled /\ \A u \in Tab \ {t} : tab[u] = "idle"
        /\ UNCHANGED <<bill, buyers>> /\ bill.customer = "none"
    BY <1>3 DEF TabStart
  <2>2. \A u \in Tab \ {t} : tab'[u] = "idle"
    BY <1>0, <1>3, <2>1 DEF TabStart
  <2>3. Emitted' = Emitted /\ Turning' = Turning /\ \A e \in Turning : Leaves(e)' = Leaves(e)
    BY <1>1 DEF Emitted, Turning, Leaves
  <2>4. OneBuyer /\ Runs /\ RowFollows
    BY <2>1 DEF FollowInv, Orderly
  <2>5. OneBuyer'
    BY <1>1, <2>1, <2>2, <2>3, <2>4 DEF OneBuyer
  <2>6. Runs'
    BY <1>1, <2>3, <2>4 DEF Runs
  <2>7. RowFollows'
    BY <1>1, <2>1, <2>3, <2>4 DEF RowFollows
  <2> QED BY <1>1, <2>5, <2>6, <2>7 DEF Orderly
<1>4. CASE TabRecord(t) /\ ~muddled'
  <2>1. /\ ~muddled /\ tab[t] # "idle" /\ bill'.customer = t /\ bill'.sub = bill.sub
        /\ buyers' = buyers \cup {t} /\ tab' = [tab EXCEPT ![t] = "idle"]
    BY <1>0, <1>4 DEF TabRecord, OnRecord, Row
  <2>2. OneBuyer /\ Runs /\ RowFollows
    BY <2>1 DEF FollowInv, Orderly
  <2>3. bill.customer = "none" /\ "none" \notin Tab
    BY <2>1, <2>2 DEF OneBuyer, Tab
  <2>4. buyers = {} /\ Emitted = {}
    BY <1>0, <2>2, <2>3, EventFacts DEF OneBuyer, FollowInv, BillInv
  <2>5. Emitted' = Emitted /\ Turning' = Turning /\ \A e \in Turning : Leaves(e)' = Leaves(e)
    BY <1>1 DEF Emitted, Turning, Leaves
  <2>6. OneBuyer'
    BY <1>0, <2>1, <2>2, <2>4, <2>5 DEF OneBuyer
  <2>7. Runs'
    BY <1>1, <2>2, <2>5 DEF Runs
  <2>8. RowFollows'
    BY <1>1, <2>1, <2>2, <2>5 DEF RowFollows
  <2> QED BY <1>1, <2>6, <2>7, <2>8 DEF Orderly
<1> QED BY <1>1, <1>2, <1>3, <1>4 DEF Orderly

\* The event that is emitted comes last, and has not been applied.
LEMMA NewEvent ==
  ASSUME BillInv, NEW kind \in Kind, NEW cust \in Tab, NEW sub \in 0 .. MaxEvents,
         Emit(kind, cust, sub), UNCHANGED applied
  PROVE  /\ events'[Upcoming] = [kind |-> kind, cust |-> cust, sub |-> sub]
         /\ Emitted' = Emitted \cup {Upcoming} /\ Upcoming \in 1 .. MaxEvents
         /\ \A e \in Emitted : e < Upcoming /\ events'[e] = events[e]
         /\ applied[Upcoming] = 0
<1>1. /\ Emitted' = Emitted \cup {Upcoming} /\ Upcoming \in 1 .. MaxEvents
      /\ Upcoming \notin Emitted /\ \A e \in Emitted : events'[e] = events[e]
  BY EmitFacts DEF BillInv
<1>2. events \in Seq(Event) /\ Emitted = 1 .. Len(events) /\ Len(events) \in Nat
  BY LenProperties DEF BillInv, TypeOK, Emitted
<1>3. events'[Upcoming] = [kind |-> kind, cust |-> cust, sub |-> sub]
  <2>1. [kind |-> kind, cust |-> cust, sub |-> sub] \in Event
    BY DEF Event
  <2> QED BY <1>2, <2>1, AppendProperties DEF Emit, Upcoming
<1>4. \A e \in Emitted : e < Upcoming
  BY <1>2 DEF Upcoming
<1>5. applied[Upcoming] = 0
  BY <1>1 DEF BillInv, Admitted, TypeOK
<1> QED BY <1>1, <1>3, <1>4, <1>5

\* Stripe emits an event of the buyer on record: the row is behind, but not wrong.
LEMMA FollowEmit ==
  ASSUME FollowInv, NEW kind \in Kind, NEW cust \in Tab, NEW sub \in 0 .. MaxEvents,
         Emit(kind, cust, sub), UNCHANGED <<bill, tab, buyers, postVars>>,
         ~muddled' => /\ ~muddled /\ cust = bill.customer
                      /\ kind \notin {"changed", "deleted"} => live' = live
                      /\ kind = "changed" => live' = {sub}
                      /\ kind = "deleted" => live' = {}
  PROVE  Told' /\ Orderly'
<1>1. Told'
  BY ToldSteady DEF FollowInv
<1>2. SUFFICES ASSUME ~muddled' PROVE OneBuyer' /\ Runs' /\ RowFollows'
  BY <1>1 DEF Orderly
<1>3. OneBuyer /\ Runs /\ RowFollows /\ UNCHANGED applied
  BY <1>2 DEF FollowInv, Orderly, postVars
<1> DEFINE n == Upcoming
<1>4. /\ events'[n].kind = kind /\ events'[n].cust = cust /\ events'[n].sub = sub
      /\ Emitted' = Emitted \cup {n} /\ n \in 1 .. MaxEvents
      /\ \A e \in Emitted : e < n /\ events'[e] = events[e]
      /\ applied[n] = 0
  <2>1. /\ events'[n] = [kind |-> kind, cust |-> cust, sub |-> sub]
        /\ Emitted' = Emitted \cup {n} /\ n \in 1 .. MaxEvents
        /\ \A e \in Emitted : e < n /\ events'[e] = events[e]
        /\ applied[n] = 0
    <3>1. BillInv
      BY DEF FollowInv
    <3> QED BY <1>3, <3>1, NewEvent
  <2> QED BY <2>1
<1>5. Turning \subseteq Emitted /\ Emitted \subseteq 1 .. MaxEvents
  BY EventFacts DEF Turning, FollowInv, BillInv
<1>6. \A e \in Turning : /\ e \in Turning' /\ e < n /\ Leaves(e)' = Leaves(e)
                         /\ events'[e] = events[e]
  BY <1>4, <1>5 DEF Turning, Leaves
<1> HIDE DEF n
<1>7. OneBuyer'
  BY <1>2, <1>3, <1>4 DEF OneBuyer
<1>8. CASE kind \in {"changed", "deleted"}
  <2>1. Turning' = Turning \cup {n}
    BY <1>4, <1>8 DEF Turning
  <2>2. Runs'
    <3>1. \A f \in Turning' : f <= n
      BY <1>4, <1>5, <1>6, <2>1
    <3>2. live' = IF events'[n].kind = "changed" THEN {events'[n].sub} ELSE {}
      BY <1>2, <1>4, <1>8
    <3> QED BY <2>1, <3>1, <3>2 DEF Runs
  <2>3. RowFollows'
    BY <1>3, <1>4, <1>6, <2>1 DEF RowFollows
  <2> QED BY <1>7, <2>2, <2>3
<1>9. CASE kind \notin {"changed", "deleted"}
  <2>1. Turning' = Turning /\ live' = live
    BY <1>2, <1>4, <1>9 DEF Turning
  <2>2. Runs'
    BY <1>3, <1>6, <2>1 DEF Runs
  <2>3. RowFollows'
    BY <1>3, <1>6, <2>1 DEF RowFollows
  <2> QED BY <1>7, <2>2, <2>3
<1> QED BY <1>8, <1>9

LEMMA FollowBuys ==
  ASSUME FollowInv, NEW t \in Tab, PayPack(t) \/ Subscribe(t) PROVE Told' /\ Orderly'
<1>1. ~muddled => t \in buyers /\ t = bill.customer
  BY DEF FollowInv, Orderly, OneBuyer, PayPack, Subscribe
<1>2. CASE PayPack(t)
  <2>1. Emit("pack", t, 0) /\ "pack" \in Kind /\ 0 \in 0 .. MaxEvents
        /\ UNCHANGED <<bill, tab, buyers, postVars, live, muddled>>
    BY <1>2, BoundAssumption DEF PayPack, Kind
  <2> QED BY <1>1, <2>1, FollowEmit
<1>3. CASE Subscribe(t)
  <2>1. /\ Emit("changed", t, Upcoming) /\ "changed" \in Kind
        /\ UNCHANGED <<bill, tab, buyers, postVars>>
        /\ live' = live \cup {Upcoming} /\ muddled' = (muddled \/ live # {})
    BY <1>3 DEF Subscribe, Kind
  <2>2. Upcoming \in 0 .. MaxEvents
    <3>1. Len(events) \in Nat /\ Len(events) < MaxEvents
      BY <2>1, LenProperties DEF Emit, FollowInv, BillInv, TypeOK
    <3> QED BY <3>1, BoundAssumption DEF Upcoming
  <2>3. ~muddled' => ~muddled /\ live' = {Upcoming}
    BY <2>1
  <2> QED BY <1>1, <2>1, <2>2, <2>3, FollowEmit
<1> QED BY <1>2, <1>3

LEMMA FollowSubscription ==
  ASSUME FollowInv, NEW s \in live, SubscriptionEvent(s) PROVE Told' /\ Orderly'
<1>1. /\ s \in Emitted /\ s \in 0 .. MaxEvents /\ events[s].cust \in Tab
      /\ UNCHANGED <<bill, tab, buyers, postVars, muddled>>
  BY EventFacts, BoundAssumption DEF FollowInv, BillInv, TypeOK, SubscriptionEvent
<1>2. ~muddled => live = {s} /\ events[s].cust = bill.customer
  BY <1>1 DEF FollowInv, Orderly, Runs, OneBuyer
<1>3. PICK kind \in Kind :
        /\ Emit(kind, events[s].cust, s)
        /\ \/ kind \in {"changed", "paid"} /\ UNCHANGED live
           \/ kind = "deleted" /\ live' = live \ {s}
  BY DEF SubscriptionEvent, Kind
<1>4. ~muddled' => /\ ~muddled /\ events[s].cust = bill.customer
                   /\ kind \notin {"changed", "deleted"} => live' = live
                   /\ kind = "changed" => live' = {s}
                   /\ kind = "deleted" => live' = {}
  BY <1>1, <1>2, <1>3
<1> QED BY <1>1, <1>3, <1>4, FollowEmit

-----------------------------------------------------------------------------
(* Webhooks, charges and restarts.                                         *)

LEMMA FollowWeb ==
  ASSUME FollowInv, NEW d \in Delivery,
         Insert(d) \/ Unblock(d) \/ Fail(d) \/ \E e \in Emitted : Deliver(d, e)
  PROVE  Told' /\ Orderly'
<1>0. post \in [Delivery -> Posts] /\ BillInv /\ Told
  BY PostFields DEF FollowInv
<1>1. UNCHANGED <<bill, stripeVars, applied, muddled>>
  BY DEF Insert, Unblock, Fail, Deliver
<1>2. Orderly'
  BY <1>1, OrderlySteady DEF FollowInv, stripeVars
<1>3. CASE \E e \in Emitted : Deliver(d, e)
  <2>1. /\ UNCHANGED <<acked, ledger, lost>> /\ post[d].step = "idle"
        /\ \A c \in Delivery \ {d} : post'[c] = post[c]
    BY <1>0, <1>3 DEF Deliver, AckedOnArrival
  <2> QED BY <1>0, <1>1, <1>2, <2>1 DEF Told
<1>4. CASE Insert(d) /\ post[d].ev \in ledger
  <2>1. /\ acked' = acked \cup {post[d].ev} /\ UNCHANGED <<ledger, lost>>
        /\ post[d].step = "insert" /\ \A c \in Delivery \ {d} : post'[c] = post[c]
    BY <1>0, <1>4 DEF Insert, Recorded, Answer
  <2> QED BY <1>0, <1>1, <1>2, <1>4, <2>1 DEF Told
<1>5. CASE Insert(d) /\ post[d].ev \notin ledger
  <2>1. /\ ledger' = ledger \cup {post[d].ev} /\ UNCHANGED <<acked, lost>>
        /\ post[d].step = "insert" /\ \A c \in Delivery \ {d} : post'[c] = post[c]
        /\ post'[d].step = "dispatch" /\ post'[d].ev = post[d].ev
    BY <1>0, <1>5 DEF Insert, Recorded, Posts
  <2> QED BY <1>0, <1>1, <1>2, <2>1 DEF Told
<1>6. CASE Unblock(d)
  <2>1. /\ acked' = acked \cup {post[d].ev} /\ UNCHANGED <<ledger, lost>>
        /\ post[d].step = "unblock" /\ \A c \in Delivery \ {d} : post'[c] = post[c]
    BY <1>0, <1>6 DEF Unblock, Answer
  <2>2. post[d].ev \in ledger
    BY <1>0, <2>1 DEF BillInv, Carried, Working
  <2> QED BY <1>0, <1>1, <1>2, <2>1, <2>2 DEF Told
<1>7. CASE Fail(d)
  <2>1. /\ lost' = lost \cup CutOff({d}) /\ UNCHANGED <<ledger, acked>>
        /\ \A c \in Delivery \ {d} : post'[c] = post[c]
    BY <1>0, <1>7 DEF Fail
  <2>2. post[d].step = "dispatch" => post[d].ev \in lost'
    BY <2>1 DEF CutOff
  <2> QED BY <1>0, <1>1, <1>2, <2>1, <2>2 DEF Told
<1> QED BY <1>3, <1>4, <1>5, <1>6, <1>7

\* An event is applied.
LEMMA ToldApplied ==
  ASSUME FollowInv, NEW d \in Delivery, post[d].step = "dispatch",
         applied' = [applied EXCEPT ![post[d].ev] = @ + 1], UNCHANGED <<ledger, lost>>,
         acked' \subseteq acked \cup {post[d].ev},
         \A c \in Delivery \ {d} : post'[c] = post[c]
  PROVE  Told' /\ \A e \in 1 .. MaxEvents :
                     applied'[e] = IF e = post[d].ev THEN 1 ELSE applied[e]
<1>1. post[d].ev \in ledger /\ \A e \in 1 .. MaxEvents :
                     applied'[e] = IF e = post[d].ev THEN 1 ELSE applied[e]
  BY Dispatched DEF FollowInv, BillInv, TypeOK
<1>2. ledger \subseteq 1 .. MaxEvents
  BY EventFacts DEF FollowInv, BillInv, TypeOK
<1>3. acked' \subseteq ledger' /\ Told
  BY <1>1 DEF FollowInv, Told
<1>4. ASSUME NEW e \in ledger, ~(applied'[e] > 0), e \notin lost
      PROVE  \E c \in Delivery : post'[c].step = "dispatch" /\ post'[c].ev = e
  <2>1. e # post[d].ev /\ ~(applied[e] > 0)
    BY <1>1, <1>2, <1>4
  <2>2. PICK c \in Delivery : post[c].step = "dispatch" /\ post[c].ev = e
    BY <1>3, <1>4, <2>1 DEF Told
  <2> QED BY <2>1, <2>2
<1>5. Told'
  BY <1>3, <1>4 DEF Told
<1> QED BY <1>1, <1>5

LEMMA FollowCredit == ASSUME FollowInv, NEW d \in Delivery, Credit(d) PROVE Told' /\ Orderly'
<1> DEFINE e == post[d].ev
<1>0. post \in [Delivery -> Posts] /\ bill \in Row /\ BillInv
  BY PostFields DEF FollowInv, BillInv, TypeOK, Row
<1>1. /\ post[d].step = "dispatch" /\ events[e].kind = "pack"
      /\ applied' = [applied EXCEPT ![e] = @ + 1]
      /\ UNCHANGED <<stripeVars, acked, ledger, lost, muddled>>
  BY DEF Credit
<1>2. bill'.sub = bill.sub /\ bill'.customer = bill.customer
  BY <1>0 DEF Credit, Row
<1>3. \A c \in Delivery \ {d} : post'[c] = post[c]
  BY <1>0 DEF Credit
<1>4. Told' /\ \A x \in 1 .. MaxEvents : applied'[x] = IF x = e THEN 1 ELSE applied[x]
  BY <1>1, <1>3, ToldApplied
<1>5. \A x \in Turning : applied'[x] = applied[x]
  BY <1>0, <1>1, <1>4, TurningFacts
<1> QED BY <1>1, <1>2, <1>4, <1>5, OrderlySteady DEF FollowInv, stripeVars

\* An event of the subscription is applied: none that came later has been.
LEMMA FollowApply ==
  ASSUME FollowInv, NEW d \in Delivery, ApplySubscription(d) PROVE Told' /\ Orderly'
<1> DEFINE e == post[d].ev
<1>0. post \in [Delivery -> Posts] /\ bill \in Row /\ BillInv
  BY PostFields DEF FollowInv, BillInv, TypeOK, Row
<1>1. /\ post[d].step = "dispatch" /\ events[e].kind # "pack"
      /\ applied' = [applied EXCEPT ![e] = @ + 1]
      /\ bill' = IF events[e].cust = bill.customer THEN After(events[e]) ELSE bill
      /\ muddled' = (muddled \/ \E f \in Emitted : f > e /\ events[f].kind # "pack"
                                                        /\ applied[f] > 0)
      /\ UNCHANGED <<stripeVars, ledger, lost>> /\ acked' = acked \cup {e}
  BY DEF ApplySubscription, Answer
<1>2. e \in Emitted /\ events[e].kind \in {"changed", "deleted", "paid"} /\ e \in 1 .. MaxEvents
  BY <1>0, <1>1, Dispatched, EventFacts DEF BillInv, Kind
<1>3. \A c \in Delivery \ {d} : post'[c] = post[c]
  BY <1>0 DEF ApplySubscription, Answer
<1>4. Told' /\ \A x \in 1 .. MaxEvents : applied'[x] = IF x = e THEN 1 ELSE applied[x]
  BY <1>1, <1>3, ToldApplied
<1> HIDE DEF e
<1>5. SUFFICES ASSUME ~muddled' PROVE OneBuyer' /\ Runs' /\ RowFollows'
  BY <1>4 DEF Orderly
<1>6. ~muddled /\ OneBuyer /\ Runs /\ RowFollows
  BY <1>1, <1>5 DEF FollowInv, Orderly
<1>7. \A f \in Turning : f > e => applied[f] = 0
  <2>1. ~\E f \in Emitted : f > e /\ events[f].kind # "pack" /\ applied[f] > 0
    BY <1>1, <1>5
  <2>2. ASSUME NEW f \in Turning, f > e PROVE applied[f] = 0
    <3>1. f \in Emitted /\ events[f].kind # "pack" /\ applied[f] \in Nat
      BY <1>0, TurningFacts
    <3>2. ~(applied[f] > 0)
      BY <2>1, <2>2, <3>1
    <3> QED BY <3>1, <3>2
  <2> QED BY <2>2
<1>8. bill' = After(events[e])
  BY <1>1, <1>2, <1>6 DEF OneBuyer
<1>9. Emitted' = Emitted /\ Turning' = Turning /\ \A x \in Turning : Leaves(x)' = Leaves(x)
  BY <1>1 DEF Emitted, Turning, Leaves, stripeVars
<1>10. /\ bill'.customer = bill.customer
       /\ e \in Turning => bill'.sub = Leaves(e)
       /\ e \notin Turning => bill'.sub = bill.sub
  <2>1. CASE events[e].kind = "changed"
    BY <1>0, <1>2, <1>8, <2>1 DEF After, Row, Turning, Leaves
  <2>2. CASE events[e].kind = "deleted"
    BY <1>0, <1>2, <1>8, <2>2 DEF After, Row, Turning, Leaves
  <2>3. CASE events[e].kind = "paid"
    BY <1>0, <1>2, <1>8, <2>3 DEF After, Row, Turning, Leaves
  <2> QED BY <1>2, <2>1, <2>2, <2>3
<1>11. OneBuyer'
  BY <1>1, <1>6, <1>9, <1>10 DEF OneBuyer, stripeVars
<1>12. Runs'
  BY <1>1, <1>6, <1>9 DEF Runs, stripeVars
<1>13. \A f \in Turning : f # e => applied'[f] = applied[f]
  BY <1>0, <1>4, TurningFacts
<1>14. RowFollows'
  <2>1. CASE e \in Turning
    <3>1. \A f \in Turning' : f > e => applied'[f] = 0
      BY <1>2, <1>7, <1>9, <1>13
    <3> QED BY <1>9, <1>10, <2>1, <3>1 DEF RowFollows
  <2>2. CASE e \notin Turning
    BY <1>6, <1>9, <1>10, <1>13, <2>2 DEF RowFollows
  <2> QED BY <2>1, <2>2
<1> QED BY <1>11, <1>12, <1>14

LEMMA FollowCharge ==
  ASSUME FollowInv, NEW c \in Charge, ChargeStart(c) \/ Deduct(c) \/ Block(c)
  PROVE  Told' /\ Orderly'
<1>1. UNCHANGED <<stripeVars, postVars, muddled>>
  BY DEF ChargeStart, Deduct, Block
<1>2. bill'.sub = bill.sub /\ bill'.customer = bill.customer
  BY DEF ChargeStart, Deduct, Block, FollowInv, BillInv, TypeOK
<1> QED BY <1>1, <1>2, ToldSteady, OrderlySteady DEF FollowInv, stripeVars, postVars

LEMMA FollowCrash == ASSUME FollowInv, Crash PROVE Told' /\ Orderly'
<1>1. /\ UNCHANGED <<bill, buyers, events, live, acked, ledger, applied, muddled>>
      /\ lost' = lost \cup CutOff(Delivery) /\ \A t \in Tab : tab'[t] = "idle"
  BY DEF Crash
<1>2. \A d \in Delivery : post[d].step = "dispatch" => post[d].ev \in lost'
  BY <1>1 DEF CutOff
<1>3. Told'
  BY <1>1, <1>2 DEF FollowInv, Told
<1> QED BY <1>1, <1>3, OrderlySteady DEF FollowInv

LEMMA FollowInit == Init => Told /\ Orderly
<1> SUFFICES ASSUME Init PROVE Told /\ Orderly
  OBVIOUS
<1>1. Emitted = {} /\ Turning = {}
  BY EmptySeq, LenProperties DEF Init, Emitted, Turning
<1> QED BY <1>1 DEF Init, Told, Orderly, OneBuyer, Runs, RowFollows

LEMMA FollowNext == FollowInv /\ [Next]_vars => FollowInv'
<1> SUFFICES ASSUME FollowInv, [Next]_vars PROVE Told' /\ Orderly'
  BY BillNext DEF FollowInv
<1>1. CASE UNCHANGED vars
  BY <1>1, ToldSteady, OrderlySteady DEF FollowInv, vars, stripeVars, postVars
<1>2. CASE Next
  BY <1>2, FollowTab, FollowBuys, FollowSubscription, FollowWeb, FollowCredit, FollowApply,
     FollowCharge, FollowCrash DEF Next, Handles
<1> QED BY <1>1, <1>2

(* Once all is answered the tenant's row names the subscription that runs at Stripe,
   unless an event was cut off, overtaken, or there were rival checkouts. *)
THEOREM SubscriptionAgrees == Spec => []SubscriptionFollows
<1>1. FollowInv => SubscriptionFollows
  <2> SUFFICES ASSUME FollowInv, Quiet, acked = Emitted, lost = {}, ~muddled
               PROVE  IF live = {} THEN bill.sub = 0 ELSE bill.sub \in live
    BY DEF SubscriptionFollows
  <2>1. Runs /\ RowFollows
    BY DEF FollowInv, Orderly
  <2>2. \A e \in Turning : e \in ledger /\ applied[e] # 0 /\ e \in 1 .. MaxEvents
    <3>1. \A e \in Turning : e \in ledger /\ e \in 1 .. MaxEvents
      BY TurningFacts DEF FollowInv, Told
    <3> QED BY <3>1 DEF FollowInv, Told, Quiet
  <2>3. CASE Turning = {}
    BY <2>1, <2>3 DEF Runs, RowFollows
  <2>4. CASE Turning # {}
    <3>1. PICK e \in Turning : /\ \A f \in Turning : f <= e
                               /\ live = IF events[e].kind = "changed" THEN {events[e].sub} ELSE {}
      BY <2>1, <2>4 DEF Runs
    <3>2. PICK g \in Turning : bill.sub = Leaves(g) /\ \A f \in Turning : f > g => applied[f] = 0
      BY <2>1, <2>2, <2>4 DEF RowFollows
    <3>3. g = e
      <4>1. ~(e > g) /\ g <= e
        BY <2>2, <3>1, <3>2
      <4> QED BY <2>2, <4>1
    <3> QED BY <3>1, <3>2, <3>3 DEF Leaves
  <2> QED BY <2>3, <2>4
<1>2. Init => FollowInv
  BY BillInit, FollowInit DEF FollowInv
<1> QED BY <1>1, <1>2, FollowNext, PTL DEF Spec
-----------------------------------------------------------------------------
(* The credits as the tenant is told of them: CreditAccount.               *)

Gate == IF tangled THEN "unknown" ELSE Shown

LEMMA AccountSteady ==
  ASSUME bill'.balance = bill.balance, used' = used, Credited' = Credited, Gate' = Gate
  PROVE  UNCHANGED Account!vars
BY DEF Gate, Credited, Account!vars

\* With the two kinds of second UPDATE under way as before, the gate shows as before.
LEMMA GateSteady ==
  ASSUME tangled' = tangled, blocked' = blocked, Topping' = Topping, Emptying' = Emptying
  PROVE  Gate' = Gate
BY DEF Gate, Shown

\* What a request or a charge does before, or without, its second UPDATE.
LEMMA ToppingSteady ==
  ASSUME NEW d \in Delivery, \A c \in Delivery \ {d} : post'[c] = post[c],
         post[d].step # "unblock", post'[d].step # "unblock"
  PROVE  Topping' = Topping
BY DEF Topping

LEMMA EmptyingSteady ==
  ASSUME NEW c \in Charge, \A x \in Charge \ {c} : charge'[x] = charge[x],
         charge[c] # "blocking", charge'[c] # "blocking"
  PROVE  Emptying' = Emptying
BY DEF Emptying

LEMMA AccountOutside == ASSUME BillInv, Outside PROVE UNCHANGED Account!vars
<1>1. UNCHANGED <<blocked, post, charge, tangled, bill, used>>
  BY DEF Outside, postVars, chargeVars
<1>2. Gate' = Gate
  BY <1>1, GateSteady DEF Topping, Emptying
<1> QED BY <1>1, <1>2, OutsideKeeps, AccountSteady

LEMMA AccountRecord ==
  ASSUME BillInv, NEW t \in Tab, TabRecord(t) PROVE UNCHANGED Account!vars
<1>1. bill'.balance = bill.balance
  BY DEF TabRecord, OnRecord, BillInv, TypeOK
<1>2. UNCHANGED <<blocked, events, post, applied, charge, used, tangled>>
  BY DEF TabRecord, postVars, chargeVars
<1>3. Gate' = Gate /\ Credited' = Credited
  BY <1>2, GateSteady DEF Topping, Emptying, Credited, Packs, Emitted
<1> QED BY <1>1, <1>2, <1>3, AccountSteady

LEMMA AccountArrival ==
  ASSUME BillInv, NEW d \in Delivery, Insert(d) \/ \E e \in Emitted : Deliver(d, e)
  PROVE  UNCHANGED Account!vars
<1>1. /\ UNCHANGED <<bill, blocked, events, applied, charge, used, tangled>>
      /\ post[d].step \in {"idle", "insert"} /\ post'[d].step # "unblock"
      /\ \A c \in Delivery \ {d} : post'[c] = post[c]
  BY PostFields DEF Insert, Deliver, Answer, Idle, Posts, stripeVars, chargeVars
<1>2. Topping' = Topping
  BY <1>1, ToppingSteady
<1>3. Gate' = Gate /\ Credited' = Credited
  BY <1>1, <1>2, GateSteady DEF Emptying, Credited, Packs, Emitted
<1> QED BY <1>1, <1>3, AccountSteady

\* A purchase is applied: a top-up.
LEMMA AccountCredit ==
  ASSUME BillInv, NEW d \in Delivery, Credit(d) PROVE [Account!Next]_(Account!vars)
<1>1. PICK e \in 1 .. MaxEvents : /\ e = post[d].ev /\ e \in Emitted
                                  /\ applied[e] = 0 /\ events[e].kind = "pack"
  BY Dispatched DEF Credit
<1>2. /\ bill'.balance = bill.balance + Pack /\ used' = used /\ events' = events
      /\ applied' = [applied EXCEPT ![e] = @ + 1] /\ UNCHANGED <<charge, blocked>>
      /\ post' = [post EXCEPT ![d].step = "unblock"]
      /\ tangled' = (tangled \/ Meets(charge, post'))
  BY <1>1 DEF Credit, stripeVars, chargeVars, BillInv, TypeOK
<1>3. \A x \in 1 .. MaxEvents : applied'[x] = IF x = e THEN 1 ELSE applied[x]
  BY <1>1, <1>2 DEF BillInv, TypeOK
<1>4. Topping'
  BY <1>1, <1>2, PostFields DEF Topping, Posts
<1>5. Gate' = "unknown" \/ (Gate # "unknown" /\ Gate' = "open")
  <2>1. CASE tangled'
    BY <2>1 DEF Gate
  <2>2. CASE ~tangled'
    BY <1>2, <1>4, <2>2 DEF Gate, Shown
  <2> QED BY <2>1, <2>2
<1>6. e \notin Credited /\ Credited' = Credited \cup {e}
  BY <1>1, <1>2, <1>3, EventFacts DEF BillInv, Credited, Packs, Emitted
<1>7. Account!Leaves("open")
  BY <1>5 DEF Account!Leaves, Gate
<1>8. Account!TopUp(e)
  BY <1>2, <1>6, <1>7 DEF Account!TopUp, Credited
<1> QED BY <1>8 DEF Account!Next

\* The second UPDATE of a top-up: the gate was open already.
LEMMA AccountUnblock ==
  ASSUME BillInv, NEW d \in Delivery, Unblock(d) PROVE UNCHANGED Account!vars
<1>1. /\ UNCHANGED <<bill, events, applied, charge, used, tangled>> /\ blocked' = FALSE
      /\ post[d].step = "unblock"
  BY DEF Unblock, Cleared, stripeVars, chargeVars
<1>2. Credited' = Credited
  BY <1>1 DEF Credited, Packs, Emitted
<1>3. Gate' = Gate
  <2>1. CASE tangled
    BY <1>1, <2>1 DEF Gate
  <2>2. CASE ~tangled
    <3>1. Topping /\ ~Emptying /\ ~Emptying'
      BY <1>1, <2>2 DEF BillInv, GateLags, Topping, Emptying
    <3>2. Shown = "open" /\ Shown' = "open"
      BY <1>1, <3>1 DEF Shown
    <3> QED BY <1>1, <3>2 DEF Gate
  <2> QED BY <2>1, <2>2
<1> QED BY <1>1, <1>2, <1>3, AccountSteady

LEMMA AccountApply ==
  ASSUME BillInv, NEW d \in Delivery, ApplySubscription(d) PROVE UNCHANGED Account!vars
<1> DEFINE e == post[d].ev
<1>1. /\ post[d].step = "dispatch" /\ e \in Emitted /\ e \in 1 .. MaxEvents
      /\ events[e].kind \in {"changed", "deleted", "paid"}
  BY Dispatched, EventFacts DEF ApplySubscription, BillInv, Kind
<1>2. /\ UNCHANGED <<blocked, events, charge, used, tangled>>
      /\ applied' = [applied EXCEPT ![e] = @ + 1] /\ post' = [post EXCEPT ![d] = Idle]
      /\ bill' = bill \/ bill' = After(events[e])
  BY DEF ApplySubscription, Answer, stripeVars, chargeVars
<1>3. bill'.balance = bill.balance
  BY <1>1, <1>2 DEF After, BillInv, TypeOK
<1>4. \A c \in Delivery \ {d} : post'[c] = post[c]
  BY <1>2, PostFields
<1>5. post'[d].step # "unblock"
  BY <1>2, PostFields DEF Idle
<1>6. Gate' = Gate
  BY <1>1, <1>2, <1>4, <1>5, ToppingSteady, GateSteady DEF Emptying
<1>7. Credited' = Credited
  BY <1>1, <1>2, EventFacts DEF BillInv, TypeOK, Credited, Packs, Emitted
<1> QED BY <1>2, <1>3, <1>6, <1>7, AccountSteady

\* A handler that throws, a restart: between two UPDATEs they disturb the gate.
LEMMA AccountUpset ==
  ASSUME BillInv, UNCHANGED <<bill, blocked, events, applied, used>>,
         \/ tangled'
         \/ tangled' = tangled /\ Topping' = Topping /\ Emptying' = Emptying
  PROVE  [Account!Next]_(Account!vars)
<1>1. Credited' = Credited
  BY DEF Credited, Packs, Emitted
<1>2. CASE tangled'
  <2>1. Account!Disturb
    BY <1>1, <1>2 DEF Account!Disturb, Credited
  <2> QED BY <2>1 DEF Account!Next
<1>3. CASE tangled' = tangled /\ Topping' = Topping /\ Emptying' = Emptying
  BY <1>1, <1>3, GateSteady, AccountSteady
<1> QED BY <1>2, <1>3

LEMMA AccountFail ==
  ASSUME BillInv, NEW d \in Delivery, Fail(d) PROVE [Account!Next]_(Account!vars)
<1>1. /\ UNCHANGED <<bill, blocked, events, applied, used, charge>>
      /\ tangled' = (tangled \/ post[d].step = "unblock")
      /\ post' = [post EXCEPT ![d] = Idle]
  BY DEF Fail, stripeVars, chargeVars
<1>2. \A c \in Delivery \ {d} : post'[c] = post[c]
  BY <1>1, PostFields
<1>3. post'[d].step # "unblock"
  BY <1>1, PostFields DEF Idle
<1>4. CASE post[d].step = "unblock"
  BY <1>1, <1>4, AccountUpset
<1>5. CASE post[d].step # "unblock"
  <2>1. tangled' = tangled
    BY <1>1, <1>5 DEF BillInv, TypeOK
  <2>2. Topping' = Topping /\ Emptying' = Emptying
    BY <1>1, <1>2, <1>3, <1>5, ToppingSteady DEF Emptying
  <2> QED BY <1>1, <2>1, <2>2, AccountUpset
<1> QED BY <1>4, <1>5

LEMMA AccountCrash == ASSUME BillInv, Crash PROVE [Account!Next]_(Account!vars)
<1>1. /\ UNCHANGED <<bill, blocked, events, applied, used>>
      /\ tangled' = (tangled \/ Emptying \/ Topping)
  BY DEF Crash, Emptying, Topping
<1>2. ~Topping' /\ ~Emptying'
  BY DEF Crash, Idle, Topping, Emptying
<1>3. CASE Emptying \/ Topping
  BY <1>1, <1>3, AccountUpset
<1>4. CASE ~Emptying /\ ~Topping
  <2>1. tangled' = tangled
    BY <1>1, <1>4 DEF BillInv, TypeOK
  <2>2. Topping' = Topping /\ Emptying' = Emptying
    BY <1>2, <1>4 DEF Topping, Emptying
  <2> QED BY <1>1, <2>1, <2>2, AccountUpset
<1> QED BY <1>3, <1>4

\* A charge takes a credit if there is one: its first UPDATE decides what the gate shows.
LEMMA AccountDeduct ==
  ASSUME BillInv, NEW c \in Charge, Deduct(c) PROVE [Account!Next]_(Account!vars)
<1>1. /\ charge[c] = "charging" /\ bill'.balance = Floored
      /\ charge' = [charge EXCEPT ![c] = IF Exhausted(Floored) THEN "blocking" ELSE "idle"]
      /\ used' = IF bill.balance > 0 THEN used + 1 ELSE used
      /\ tangled' = (tangled \/ Meets(charge', post))
      /\ UNCHANGED <<blocked, events, post, applied>>
  BY DEF Deduct, stripeVars, postVars, BillInv, TypeOK
<1>2. bill.balance \in Nat /\ bill'.balance \in Nat
      /\ (Exhausted(Floored) <=> bill'.balance = 0)
  BY <1>1, ChargeFacts DEF Floored, Exhausted
<1>3. Credited' = Credited
  BY <1>1 DEF Credited, Packs, Emitted
<1>4. Gate' = "unknown" \/ (Gate # "unknown"
                            /\ Gate' = IF bill'.balance = 0 THEN "closed" ELSE "open")
  <2>1. CASE tangled'
    BY <2>1 DEF Gate
  <2>2. CASE ~tangled'
    <3>1. ~tangled /\ ~Meets(charge', post) /\ Topping' = Topping
      BY <1>1, <2>2 DEF Topping
    <3>2. ~(Emptying' /\ Topping)
      BY <3>1 DEF Meets, Emptying, Topping
    <3>3. CASE bill'.balance = 0
      <4>1. charge'[c] = "blocking"
        BY <1>1, <1>2, <3>3, ChargeFacts
      <4>2. Emptying'
        BY <4>1 DEF Emptying
      <4>3. Shown' = "closed"
        BY <3>1, <3>2, <4>2 DEF Shown
      <4> QED BY <2>2, <3>1, <3>3, <4>3 DEF Gate, Shown
    <3>4. CASE bill'.balance # 0
      <4>1. bill.balance # 0
        BY <1>1, <3>4, ChargeFacts DEF Floored
      <4>2. ~Emptying /\ (blocked => Topping)
        BY <3>1, <4>1 DEF BillInv, GateLags
      <4>3. charge'[c] # "blocking" /\ \A x \in Charge \ {c} : charge'[x] = charge[x]
        BY <1>1, <1>2, <3>4, ChargeFacts
      <4>4. ~Emptying'
        BY <4>2, <4>3 DEF Emptying
      <4>5. Shown' = "open"
        BY <1>1, <3>1, <4>2, <4>4 DEF Shown
      <4> QED BY <2>2, <3>1, <3>4, <4>5 DEF Gate, Shown
    <3> QED BY <3>3, <3>4
  <2> QED BY <2>1, <2>2
<1>5. CASE bill.balance > 0
  <2>1. bill'.balance = bill.balance - 1 /\ used' = used + 1
    BY <1>1, <1>5 DEF Floored
  <2>2. Account!Leaves(IF bill'.balance = 0 THEN "closed" ELSE "open")
    BY <1>4 DEF Account!Leaves, Gate
  <2>3. Account!Use
    BY <1>3, <1>5, <2>1, <2>2 DEF Account!Use, Credited
  <2> QED BY <2>3 DEF Account!Next
<1>6. CASE bill.balance = 0
  <2>1. bill'.balance = 0 /\ used' = used
    BY <1>1, <1>6 DEF Floored
  <2>2. Account!Leaves("closed")
    BY <1>4, <2>1 DEF Account!Leaves, Gate
  <2>3. Account!FindNone
    BY <1>3, <1>6, <2>1, <2>2 DEF Account!FindNone, Credited
  <2> QED BY <2>3 DEF Account!Next
<1> QED BY <1>2, <1>5, <1>6

LEMMA AccountCharge ==
  ASSUME BillInv, NEW c \in Charge, ChargeStart(c) \/ Block(c) PROVE UNCHANGED Account!vars
<1>1. /\ UNCHANGED <<bill, events, post, applied, used, tangled>>
      /\ \A x \in Charge \ {c} : charge'[x] = charge[x]
      /\ charge'[c] # "blocking"
  BY ChargeFacts DEF ChargeStart, Block, stripeVars, postVars
<1>2. Credited' = Credited /\ Topping' = Topping
  BY <1>1 DEF Credited, Packs, Emitted, Topping
<1>3. CASE ChargeStart(c)
  <2>1. charge[c] = "idle" /\ blocked' = blocked
    BY <1>3 DEF ChargeStart
  <2>2. Gate' = Gate
    BY <1>1, <1>2, <2>1, EmptyingSteady, GateSteady
  <2> QED BY <1>1, <1>2, <2>2, AccountSteady
<1>4. CASE Block(c)
  <2>1. charge[c] = "blocking" /\ blocked' = TRUE
    BY <1>4 DEF Block
  <2>2. Gate' = Gate
    <3>1. CASE tangled
      BY <1>1, <3>1 DEF Gate
    <3>2. CASE ~tangled
      <4>1. Emptying /\ ~Topping
        BY <2>1, <3>2 DEF BillInv, GateLags, Emptying
      <4>2. Shown = "closed" /\ Shown' = "closed"
        BY <1>2, <2>1, <4>1 DEF Shown
      <4> QED BY <1>1, <4>2 DEF Gate
    <3> QED BY <3>1, <3>2
  <2> QED BY <1>1, <1>2, <2>2, AccountSteady
<1> QED BY <1>3, <1>4

LEMMA AccountInit == Init => Account!Init
<1> SUFFICES ASSUME Init PROVE Account!Init
  OBVIOUS
<1>1. Emitted = {}
  BY EmptySeq, LenProperties DEF Init, Emitted
<1>2. bill.balance = 0 /\ used = 0 /\ Credited = {} /\ ~tangled /\ ~blocked
  BY <1>1 DEF Init, Credited, Packs
<1>3. ~Emptying
  BY DEF Init, Emptying
<1>4. Gate = "open"
  BY <1>2, <1>3 DEF Gate, Shown
<1> QED BY <1>2, <1>4 DEF Account!Init, Credited, Gate

LEMMA AccountStep == ASSUME BillInv, [Next]_vars PROVE [Account!Next]_(Account!vars)
<1>1. ASSUME NEW t \in Tab, TabStart(t) \/ TabCreate(t) \/ TabRecord(t) \/ PayPack(t) \/ Subscribe(t)
      PROVE  UNCHANGED Account!vars
  BY <1>1, OutsideSteps, AccountOutside, AccountRecord
<1>2. ASSUME NEW s \in live, SubscriptionEvent(s) PROVE UNCHANGED Account!vars
  BY <1>2, SubscriptionOutside, AccountOutside
<1>3. ASSUME NEW d \in Delivery, Handles(d) \/ Fail(d) \/ \E e \in Emitted : Deliver(d, e)
      PROVE  [Account!Next]_(Account!vars)
  BY <1>3, AccountArrival, AccountCredit, AccountUnblock, AccountApply, AccountFail DEF Handles
<1>4. ASSUME NEW c \in Charge, ChargeStart(c) \/ Deduct(c) \/ Block(c)
      PROVE  [Account!Next]_(Account!vars)
  BY <1>4, AccountDeduct, AccountCharge
<1>5. CASE UNCHANGED vars
  <2>1. Outside
    BY <1>5 DEF vars, Outside, BillInv, TypeOK, Emitted, stripeVars
  <2> QED BY <2>1, AccountOutside
<1> QED BY <1>1, <1>2, <1>3, <1>4, <1>5, AccountCrash DEF Next

(* Deliveries, repetitions, failures and charges, however they interleave, act on the
   credits one after the other, each as a whole: Billing implements CreditAccount. *)
THEOREM CreditsActAtomically == Spec => ActsAtomically
<1>1. BillInv /\ [Next]_vars => [Account!Next]_(Account!vars)
  BY AccountStep
<1> QED BY <1>1, AccountInit, BillingInductive, PTL DEF Spec, ActsAtomically, Account!Spec
=============================================================================
