------------------------------- MODULE Billing -------------------------------
(***************************************************************************)
(* The billing of one tenant (modules/billing): checkouts that create the  *)
(* tenant's customer at Stripe, Stripe's webhooks, which are delivered     *)
(* until they are answered and in any order, and the credit that every new *)
(* job of a per-job tenant costs (JobBoard's Announce, and the jobs that   *)
(* operators create).  Each of these is a few statements without a         *)
(* transaction around them; any two may interleave, and a restart or an    *)
(* error may fall between any two statements.                              *)
(*                                                                         *)
(* The tenant's rows exist.  Stripe itself is external.                    *)
(***************************************************************************)
EXTENDS Integers, Sequences, FiniteSets

CONSTANTS
  MaxEvents, \* bound: events Stripe emits
  Pack,      \* credits of one credit pack
  MaxJobs,   \* bound: jobs that are charged
  MaxUpsets  \* bound: failed handlers and restarts

ASSUME BoundAssumption ==
  /\ MaxEvents \in Nat /\ MaxJobs \in Nat /\ MaxUpsets \in Nat
  /\ Pack \in Nat \ {0}

Tab      == {"tab1", "tab2"}           \* first checkouts, and the customers they create
Delivery == {"post1", "post2"}         \* webhook requests under way
Charge   == {"job1", "job2"}           \* upsertJob calls that charge a credit
Kind     == {"pack", "changed", "deleted", "paid"}

VARIABLES
  bill,      \* the row of tenant_billing
  blocked,   \* tenants.billing_blocked
  tab,       \* [Tab -> where ensureCustomer waits]
  buyers,    \* the customers for whom a checkout session was opened
  events,    \* what Stripe has emitted, in order
  acked,     \* events answered with 200: not delivered again
  live,      \* the subscriptions that run at Stripe
  ledger,    \* billing_events
  post,      \* [Delivery -> the event it carries and where the handler waits]
  charge,    \* [Charge -> where deductCreditForJob waits]
  jobs,      \* charges started
  used,      \* history: credits that paid for a job
  applied,   \* history: how often an event was dispatched to the end
  lost,      \* history: events recorded but cut off before their end
  tangled,   \* history: a top-up met the charge of the last credit
  muddled,   \* history: rival checkouts, or events applied out of order
  upsets

stripeVars == <<tab, buyers, events, live>>
postVars   == <<acked, ledger, post, applied, lost>>
chargeVars == <<charge, jobs, used>>
vars == <<bill, blocked, stripeVars, postVars, chargeVars, tangled, muddled, upsets>>

Emitted == DOMAIN events
Idle    == [ev |-> 0, step |-> "idle"]
\* sub: the event that started the subscription, 0 for none.
Event   == [kind : Kind, cust : Tab, sub : 0 .. MaxEvents]

TypeOK ==
  /\ bill \in [balance : Nat, perJob : BOOLEAN, sub : 0 .. MaxEvents,
               customer : Tab \cup {"none"}, status : {"ACTIVE", "CANCELED"}]
  /\ blocked \in BOOLEAN
  /\ tab \in [Tab -> {"idle", "creating", "created"}] /\ buyers \subseteq Tab
  /\ events \in Seq(Event)
  /\ Len(events) <= MaxEvents
  /\ acked \subseteq Emitted /\ ledger \subseteq Emitted /\ lost \subseteq ledger
  /\ live \subseteq Emitted
  /\ post \in [Delivery -> [ev : Emitted \cup {0},
                            step : {"idle", "insert", "dispatch", "unblock"}]]
  /\ charge \in [Charge -> {"idle", "charging", "blocking"}]
  /\ jobs \in 0 .. MaxJobs /\ used \in 0 .. MaxJobs
  /\ applied \in [1 .. MaxEvents -> Nat]
  /\ tangled \in BOOLEAN /\ muddled \in BOOLEAN
  /\ upsets \in 0 .. MaxUpsets

Init ==
  /\ bill = [balance |-> 0, perJob |-> FALSE, sub |-> 0, customer |-> "none",
             status |-> "ACTIVE"]
  /\ blocked = FALSE
  /\ tab = [t \in Tab |-> "idle"] /\ buyers = {} /\ events = <<>> /\ live = {}
  /\ acked = {} /\ ledger = {} /\ post = [d \in Delivery |-> Idle]
  /\ charge = [c \in Charge |-> "idle"] /\ jobs = 0 /\ used = 0
  /\ applied = [e \in 1 .. MaxEvents |-> 0] /\ lost = {}
  /\ tangled = FALSE /\ muddled = FALSE /\ upsets = 0

Upset == upsets < MaxUpsets /\ upsets' = upsets + 1

-----------------------------------------------------------------------------
(* Checkouts.                                                              *)

\* ensureCustomer: without a customer on record a new one is created.
TabStart(t) ==
  /\ tab[t] = "idle" /\ bill.customer = "none"
  /\ t = "tab2" => tab["tab1"] # "idle"
  /\ tab' = [tab EXCEPT ![t] = "creating"]
  /\ muddled' = (muddled \/ \E u \in Tab \ {t} : tab[u] # "idle")
  /\ UNCHANGED <<bill, blocked, buyers, events, live, postVars, chargeVars, tangled, upsets>>

TabCreate(t) ==
  /\ tab[t] = "creating"
  /\ \/ tab' = [tab EXCEPT ![t] = "created"] /\ UNCHANGED upsets
     \/ tab' = [tab EXCEPT ![t] = "idle"] /\ Upset
  /\ UNCHANGED <<bill, blocked, buyers, events, live, postVars, chargeVars, tangled, muddled>>

\* Variant: the new customer is not written to the tenant's row.
OnRecordNever(t) == bill

OnRecord(t) == [bill EXCEPT !.customer = t]

\* From now on the tenant can open sessions for this customer.
TabRecord(t) ==
  /\ tab[t] = "created"
  /\ bill' = OnRecord(t)
  /\ tab' = [tab EXCEPT ![t] = "idle"] /\ buyers' = buyers \cup {t}
  /\ UNCHANGED <<blocked, events, live, postVars, chargeVars, tangled, muddled, upsets>>

Emit(kind, cust, sub) ==
  /\ Len(events) < MaxEvents
  /\ events' = Append(events, [kind |-> kind, cust |-> cust, sub |-> sub])

Upcoming == Len(events) + 1

\* The buyer pays for credits, or starts a subscription: nothing asks whether
\* one runs already.
PayPack(cust) ==
  /\ cust \in buyers /\ Emit("pack", cust, 0)
  /\ UNCHANGED <<bill, blocked, tab, buyers, live, postVars, chargeVars, tangled, muddled, upsets>>

Subscribe(cust) ==
  /\ cust \in buyers /\ Emit("changed", cust, Upcoming)
  /\ live' = live \cup {Upcoming}
  /\ muddled' = (muddled \/ live # {})
  /\ UNCHANGED <<bill, blocked, tab, buyers, postVars, chargeVars, tangled, upsets>>

\* The portal, the calendar: a subscription changes, is paid for, or ends.
SubscriptionEvent(s) ==
  /\ s \in live
  /\ \/ \E kind \in {"changed", "paid"} : Emit(kind, events[s].cust, s) /\ UNCHANGED live
     \/ Emit("deleted", events[s].cust, s) /\ live' = live \ {s}
  /\ UNCHANGED <<bill, blocked, tab, buyers, postVars, chargeVars, tangled, muddled, upsets>>

-----------------------------------------------------------------------------
(* Webhooks.                                                               *)

\* Variant: the request is answered before the event is applied.
AckedAtOnce(e) == acked \cup {e}

AckedOnArrival(e) == acked

\* Stripe delivers what has not been answered, again and again, in any order.
Deliver(d, e) ==
  /\ post[d].step = "idle" /\ e \in Emitted \ acked
  /\ d = "post2" => post["post1"].step # "idle"    \* requests have no identity
  /\ post' = [post EXCEPT ![d] = [ev |-> e, step |-> "insert"]]
  /\ acked' = AckedOnArrival(e)
  /\ UNCHANGED <<bill, blocked, stripeVars, ledger, applied, lost, chargeVars,
                 tangled, muddled, upsets>>

Answer(d) ==
  /\ post' = [post EXCEPT ![d] = Idle] /\ acked' = acked \cup {post[d].ev}

\* Variant: an event counts as processed when it has been dispatched.
RecordedLate(e) == applied[e] > 0

Recorded(e) == e \in ledger

\* INSERT ... ON CONFLICT DO NOTHING decides whether the event is new.
Insert(d) ==
  LET e == post[d].ev IN
  /\ post[d].step = "insert"
  /\ IF Recorded(e)
     THEN Answer(d) /\ UNCHANGED ledger
     ELSE /\ ledger' = ledger \cup {e} /\ UNCHANGED acked
          /\ post' = [post EXCEPT ![d].step = "dispatch"]
  /\ UNCHANGED <<bill, blocked, stripeVars, applied, lost, chargeVars,
                 tangled, muddled, upsets>>

Meets(c, p) == (\E x \in Charge : c[x] = "blocking") /\ (\E d \in Delivery : p[d].step = "unblock")

\* A credit pack: the first of two UPDATEs.
Credit(d) ==
  LET e == post[d].ev IN
  /\ post[d].step = "dispatch" /\ events[e].kind = "pack"
  /\ bill' = [bill EXCEPT !.balance = @ + Pack, !.perJob = TRUE]
  /\ applied' = [applied EXCEPT ![e] = @ + 1]
  /\ post' = [post EXCEPT ![d].step = "unblock"]
  /\ tangled' = (tangled \/ Meets(charge, post'))
  /\ UNCHANGED <<blocked, stripeVars, acked, ledger, lost, chargeVars, muddled, upsets>>

\* Variant: only the balance is topped up.
Unblocked == blocked

Cleared == FALSE

Unblock(d) ==
  /\ post[d].step = "unblock"
  /\ blocked' = Cleared
  /\ Answer(d)
  /\ UNCHANGED <<bill, stripeVars, ledger, applied, lost, chargeVars, tangled, muddled, upsets>>

\* The row that a subscription event leaves; no event looks at the others.
After(ev) ==
  CASE ev.kind = "changed" -> [bill EXCEPT !.sub = ev.sub, !.perJob = FALSE,
                                           !.status = "ACTIVE"]
    [] ev.kind = "deleted" -> [bill EXCEPT !.sub = 0, !.status = "CANCELED"]
    [] ev.kind = "paid"    -> [bill EXCEPT !.status = "ACTIVE"]

\* The tenant is found by the customer on record; without one nothing happens.
ApplySubscription(d) ==
  LET e == post[d].ev IN
  /\ post[d].step = "dispatch" /\ events[e].kind # "pack"
  /\ bill' = IF events[e].cust = bill.customer THEN After(events[e]) ELSE bill
  /\ applied' = [applied EXCEPT ![e] = @ + 1]
  /\ muddled' = (muddled \/ \E f \in Emitted : f > e /\ events[f].kind # "pack"
                                                    /\ applied[f] > 0)
  /\ Answer(d)
  /\ UNCHANGED <<blocked, stripeVars, ledger, lost, chargeVars, tangled, upsets>>

CutOff(ds) == {post[d].ev : d \in {x \in ds : post[x].step \in {"dispatch", "unblock"}}}

\* The handler throws: Stripe gets a 500 and will deliver the event again.
Fail(d) ==
  /\ post[d].step # "idle" /\ Upset
  /\ post' = [post EXCEPT ![d] = Idle]
  /\ lost' = lost \cup CutOff({d})
  /\ tangled' = (tangled \/ post[d].step = "unblock")
  /\ UNCHANGED <<bill, blocked, stripeVars, acked, ledger, applied, chargeVars, muddled>>

-----------------------------------------------------------------------------
(* Charges.  A tenant that is not billed per job is not charged.           *)

ChargeStart(c) ==
  /\ charge[c] = "idle" /\ jobs < MaxJobs /\ bill.perJob
  /\ c = "job2" => charge["job1"] # "idle"
  /\ charge' = [charge EXCEPT ![c] = "charging"] /\ jobs' = jobs + 1
  /\ UNCHANGED <<bill, blocked, stripeVars, postVars, used, tangled, muddled, upsets>>

\* Variant: the balance may go below the floor.
Unfloored == bill.balance - 1

\* GREATEST(credit_balance - 1, 0), in one statement.
Floored == IF bill.balance > 0 THEN bill.balance - 1 ELSE 0

Exhausted(balance) == balance <= 0

Deduct(c) ==
  /\ charge[c] = "charging"
  /\ bill' = [bill EXCEPT !.balance = Floored]
  /\ used' = IF bill.balance > 0 THEN used + 1 ELSE used
  /\ charge' = [charge EXCEPT ![c] = IF Exhausted(Floored) THEN "blocking" ELSE "idle"]
  /\ tangled' = (tangled \/ Meets(charge', post))
  /\ UNCHANGED <<blocked, stripeVars, postVars, jobs, muddled, upsets>>

Block(c) ==
  /\ charge[c] = "blocking"
  /\ blocked' = TRUE /\ charge' = [charge EXCEPT ![c] = "idle"]
  /\ UNCHANGED <<bill, stripeVars, postVars, jobs, used, tangled, muddled, upsets>>

\* Everything in memory is gone; errors of a charge are swallowed as well.
Crash ==
  /\ Upset
  /\ post' = [d \in Delivery |-> Idle] /\ charge' = [c \in Charge |-> "idle"]
  /\ tab' = [t \in Tab |-> "idle"]
  /\ lost' = lost \cup CutOff(Delivery)
  /\ tangled' = (tangled \/ (\E c \in Charge : charge[c] = "blocking")
                         \/ (\E d \in Delivery : post[d].step = "unblock"))
  /\ UNCHANGED <<bill, blocked, buyers, events, live, acked, ledger, applied, jobs, used, muddled>>

-----------------------------------------------------------------------------
Handles(d) == Insert(d) \/ Credit(d) \/ Unblock(d) \/ ApplySubscription(d)

Next ==
  \/ \E t \in Tab : TabStart(t) \/ TabCreate(t) \/ TabRecord(t) \/ PayPack(t) \/ Subscribe(t)
  \/ \E s \in live : SubscriptionEvent(s)
  \/ \E d \in Delivery : Handles(d) \/ Fail(d) \/ \E e \in Emitted : Deliver(d, e)
  \/ \E c \in Charge : ChargeStart(c) \/ Deduct(c) \/ Block(c)
  \/ Crash

Spec == Init /\ [][Next]_vars

\* Stripe redelivers each event for days; awaits settle.
FairSpec ==
  /\ Spec
  /\ \A d \in Delivery : WF_vars(Handles(d))
  /\ \A e \in 1 .. MaxEvents : WF_vars(e \in Emitted /\ \E d \in Delivery : Deliver(d, e))

-----------------------------------------------------------------------------
Packs == {e \in Emitted : events[e].kind = "pack"}
Quiet == /\ \A d \in Delivery : post[d].step = "idle"
         /\ \A c \in Charge : charge[c] = "idle"

(* A purchase is credited once, though Stripe delivers it several times, at once
   or after a handler that failed half-way: the insert of the event decides. *)
CreditedOnce == \A e \in Packs : applied[e] <= 1

(* No credit appears or disappears between top-ups and charges that run at the
   same time: what was bought is what was used and what is left. *)
CreditsBalance ==
  bill.balance + used = Pack * Cardinality({e \in Packs : applied[e] > 0})

(* The gate follows the balance whenever nothing is under way: a tenant is
   blocked only without credits, and a per-job tenant without credits is --
   unless a top-up met the charge of the last credit, or one was cut off. *)
GateFollowsBalance ==
  Quiet /\ ~tangled =>
    /\ blocked => bill.balance = 0
    /\ bill.perJob /\ bill.balance = 0 => blocked

(* Once all events are answered the tenant's row names the subscription that
   runs at Stripe, unless an event was cut off, events came out of order, or
   the tenant had two first checkouts, or two subscriptions, at a time. *)
SubscriptionFollows ==
  Quiet /\ acked = Emitted /\ lost = {} /\ ~muddled =>
    IF live = {} THEN bill.sub = 0 ELSE bill.sub \in live

(* What the tenant is told of all this: CreditAccount.  Between its two UPDATEs a
   top-up has already opened the gate, and a charge of the last credit closed it. *)
Topping  == \E d \in Delivery : post[d].step = "unblock"
Emptying == \E c \in Charge : charge[c] = "blocking"
Shown    == IF (blocked \/ Emptying) /\ ~Topping THEN "closed" ELSE "open"

Account == INSTANCE CreditAccount WITH
  Purchases <- 1 .. MaxEvents,
  balance   <- bill.balance,
  spent     <- used,
  bought    <- {e \in Packs : applied[e] > 0},
  gate      <- IF tangled THEN "unknown" ELSE Shown

(* Deliveries, repetitions, failures and charges, each of several statements and
   interleaved, act on the tenant's credits like indivisible operations, one after
   the other; only the gate can be lost, to the races that `tangled' names. *)
ActsAtomically == Account!Spec

(* Every purchase is credited in the end, across restarts and failures before
   the event was recorded; only an event cut off after its record is lost. *)
PaidIsCredited ==
  \A e \in 1 .. MaxEvents :
    (e \in Emitted /\ events[e].kind = "pack") ~> (applied[e] > 0 \/ e \in lost)
=============================================================================
