---------------------------- MODULE CreditAccount ----------------------------
(***************************************************************************)
(* The credits of a tenant as the tenant is told of them: every purchase   *)
(* is one indivisible top-up, made once, that opens the gate; every job    *)
(* takes one credit, if there is one, and whoever takes the last, or finds *)
(* none, closes the gate.  No events, records, repetitions or second       *)
(* UPDATEs.  What a disturbance costs is the gate's word for it, for good; *)
(* credits it never costs.  Module Billing implements this one.            *)
(***************************************************************************)
EXTENDS Integers

CONSTANTS
  Purchases,  \* credit packs that may be bought
  Pack        \* credits of one pack

VARIABLES
  balance,  \* credits left
  spent,    \* credits that paid for a job
  bought,   \* the purchases credited
  gate      \* "open", "closed", or "unknown"

vars == <<balance, spent, bought, gate>>

Init == balance = 0 /\ spent = 0 /\ bought = {} /\ gate = "open"

\* An operation leaves the gate like this, unless one disturbed another.
Leaves(g) == gate' = "unknown" \/ (gate # "unknown" /\ gate' = g)

TopUp(p) ==
  /\ p \notin bought
  /\ bought' = bought \cup {p} /\ balance' = balance + Pack
  /\ Leaves("open")
  /\ UNCHANGED spent

Use ==
  /\ balance > 0
  /\ balance' = balance - 1 /\ spent' = spent + 1
  /\ Leaves(IF balance' = 0 THEN "closed" ELSE "open")
  /\ UNCHANGED bought

\* A job that finds no credit is done all the same.
FindNone ==
  /\ balance = 0
  /\ Leaves("closed")
  /\ UNCHANGED <<balance, spent, bought>>

Disturb == gate' = "unknown" /\ UNCHANGED <<balance, spent, bought>>

Next == \/ \E p \in Purchases : TopUp(p)
        \/ Use \/ FindNone \/ Disturb

Spec == Init /\ [][Next]_vars
=============================================================================
