----------------------------- MODULE CallPromise -----------------------------
(***************************************************************************)
(* What a dialler promises whom it calls, without rows, statuses, batches, *)
(* webhooks or sweeps: the agent rings only while its attempts last, never *)
(* while it knows of a call to the same person that goes on, and never     *)
(* again once the matter is out of its hands -- the managers were told to  *)
(* call themselves, or the number opted out.  A fault -- a restart, an     *)
(* update of a row that had changed unseen -- costs the promise something: *)
(* one more ring, and perhaps what it knew of the call.                    *)
(* Module OutboundCall implements this one; CampaignDialer implements it   *)
(* without a fault.                                                        *)
(***************************************************************************)
EXTENDS Integers

CONSTANTS
  Calls,    \* the calls that were asked for
  Dials,    \* physical calls
  Attempts  \* how often the agent may ring for one call

VARIABLES
  rings,   \* [Calls -> how often the customer was rung since the last order]
  going,   \* [Calls -> the physical calls known to go on]
  handed,  \* [Calls -> it is out of the agent's hands]
  faults   \* [Calls -> what went wrong for the call]

vars == <<rings, going, handed, faults>>

Init ==
  /\ rings = [c \in Calls |-> 0] /\ going = [c \in Calls |-> {}]
  /\ handed = [c \in Calls |-> FALSE] /\ faults = [c \in Calls |-> 0]

MayRing(c) == ~handed[c] /\ going[c] = {} /\ rings[c] < Attempts + faults[c]

Ring(c, d) ==
  /\ MayRing(c)
  /\ rings' = [rings EXCEPT ![c] = @ + 1] /\ going' = [going EXCEPT ![c] = {d}]
  /\ UNCHANGED <<handed, faults>>

\* Somebody is rung, and the dialler does not learn of it.
RingUnknown(c) ==
  /\ MayRing(c)
  /\ rings' = [rings EXCEPT ![c] = @ + 1]
  /\ handed' \in {handed, [handed EXCEPT ![c] = TRUE]}
  /\ UNCHANGED <<going, faults>>

HangUp(c, d) ==
  /\ going' = [going EXCEPT ![c] = @ \ {d}]
  /\ UNCHANGED <<rings, handed, faults>>

\* These calls leave the agent's hands: a manager calls, or nobody may.
HandOver(told) ==
  /\ handed' = [c \in Calls |-> handed[c] \/ c \in told]
  /\ UNCHANGED <<rings, going, faults>>

\* An operator orders the call anew; a call that goes on is forgotten.
Order(c) ==
  /\ rings' = [rings EXCEPT ![c] = 0] /\ going' = [going EXCEPT ![c] = {}]
  /\ handed' = [handed EXCEPT ![c] = FALSE]
  /\ UNCHANGED faults

\* Something goes wrong for these calls.
Fault(hit) ==
  /\ faults' = [c \in Calls |-> IF c \in hit THEN faults[c] + 1 ELSE faults[c]]
  /\ going' \in [Calls -> SUBSET Dials] /\ handed' \in [Calls -> BOOLEAN]
  /\ \A c \in Calls : /\ going'[c] \subseteq going[c] /\ (handed'[c] => handed[c])
                      /\ c \notin hit => going'[c] = going[c] /\ handed'[c] = handed[c]
  /\ UNCHANGED rings

Next ==
  \/ \E some \in SUBSET Calls : HandOver(some) \/ Fault(some)
  \/ \E c \in Calls : \/ RingUnknown(c) \/ Order(c)
                      \/ \E d \in Dials : Ring(c, d) \/ HangUp(c, d)

Spec == Init /\ [][Next]_vars
=============================================================================
