-------------------------- MODULE CallPromiseProofs --------------------------
(***************************************************************************)
(* OutboundCall implements CallPromise, for every set of rows, of          *)
(* conversations and of handlers at work at once, and every bound: each    *)
(* step of the dispatcher, of a handler, of an operator or of the provider *)
(* is one step of the promise, or none at all.                             *)
(***************************************************************************)
EXTENDS OutboundCallProofs

GoingMap  == [c \in Calls |-> Going(c)]
HandedMap == [c \in Calls |-> alerts[c] > 0 /\ stale[c] = 0]
FaultMap  == [c \in Calls |-> crashes + stale[c]]

LEMMA PromiseInit == Init => Promise!Init
<1> SUFFICES ASSUME Init PROVE Promise!Init
  OBVIOUS
<1>1. \A c \in Calls : Going(c) = {}
  BY DEF Init, Going, Live, Free
<1>2. GoingMap = [c \in Calls |-> {}]
  BY <1>1 DEF GoingMap
<1>3. HandedMap = [c \in Calls |-> FALSE]
  <2>1. \A c \in Calls : (alerts[c] > 0 /\ stale[c] = 0) = FALSE
    BY DEF Init
  <2> QED BY <2>1, Zenon DEF HandedMap
<1>4. FaultMap = [c \in Calls |-> 0]
  BY DEF Init, FaultMap
<1> QED BY <1>2, <1>3, <1>4, Zenon DEF Init, GoingMap, HandedMap, FaultMap, Promise!Init

-----------------------------------------------------------------------------
(* Steps that the customer does not notice, or that only tell the managers. *)

\* What the promise speaks of stands still.
Silent == UNCHANGED <<line, placed, stray, stale, crashes>>

LEMMA SilentGoing == ASSUME Silent PROVE GoingMap' = GoingMap /\ FaultMap' = FaultMap
BY DEF Silent, GoingMap, FaultMap, Going, Live

LEMMA PromiseStutters ==
  ASSUME Silent, alerts' = alerts
  PROVE  UNCHANGED Promise!vars
BY SilentGoing DEF Silent, GoingMap, FaultMap, Promise!vars

\* An alert of a row that was never updated from an outdated read hands the call
\* over; any other says nothing the promise could keep.
LEMMA AlertedMap ==
  ASSUME Typed, NEW c \in Calls, alerts' = Alerted(c), stale' = stale
  PROVE  HandedMap' = IF stale[c] = 0 THEN [HandedMap EXCEPT ![c] = TRUE] ELSE HandedMap
<1>1. alerts'[c] > 0 /\ \A x \in Calls \ {c} : alerts'[x] = alerts[x]
  BY AlertedType DEF Alerted, Typed, TypeOK
<1>2. CASE stale[c] = 0
  BY <1>1, <1>2 DEF HandedMap
<1>3. CASE stale[c] # 0
  <2>1. \A x \in Calls : (alerts'[x] > 0 /\ stale'[x] = 0) = (alerts[x] > 0 /\ stale[x] = 0)
    BY <1>1, <1>3
  <2>2. HandedMap' = HandedMap
    BY <2>1, Zenon DEF HandedMap
  <2> QED BY <1>3, <2>2
<1> QED BY <1>2, <1>3

LEMMA PromiseHandsOver ==
  ASSUME Typed, NEW c \in Calls, Silent, alerts' = Alerted(c)
  PROVE  [Promise!Next]_(Promise!vars)
<1>1. CASE stale[c] = 0
  <2>1. HandedMap' = [x \in Calls |-> HandedMap[x] \/ x \in {c}]
    <3>1. HandedMap' = [HandedMap EXCEPT ![c] = TRUE]
      BY <1>1, AlertedMap DEF Silent
    <3>2. \A x \in Calls : HandedMap'[x] = (HandedMap[x] \/ x \in {c})
      BY <3>1 DEF HandedMap
    <3> QED BY <3>2 DEF HandedMap
  <2>2. Promise!HandOver({c})
    BY <2>1, SilentGoing DEF Silent, GoingMap, FaultMap, HandedMap, Promise!HandOver
  <2> QED BY <2>2 DEF Promise!Next
<1>2. CASE stale[c] # 0
  <2>1. HandedMap' = HandedMap
    BY <1>2, AlertedMap DEF Silent
  <2> QED BY <2>1, SilentGoing DEF Silent, GoingMap, FaultMap, HandedMap, Promise!vars
<1> QED BY <1>1, <1>2

-----------------------------------------------------------------------------
(* The dispatcher.                                                         *)

\* A row whose turn it is may be dialled: nothing known goes on, an attempt is
\* left, and no manager was told.
LEMMA TurnMayRing ==
  ASSUME Typed, Safe, MaxAttempts >= MinAttempts, NEW c \in Calls, InBatch(c)
  PROVE  Promise!MayRing(c)
<1>1. Going(c) = {}
  BY BatchIdle DEF Going
<1>2. snap[c] \in Nat /\ snap[c] # NoSnap /\ pend = NoDial /\ Pending(c) = 0
  BY DEF InBatch, Typed, TypeOK, Pending
<1>3. /\ placed[c] \in Nat /\ crashes \in Nat /\ row[c].attempts \in Nat /\ alerts[c] \in 0 .. 2
      /\ stale[c] \in Nat
  BY RowFields
<1>4. placed[c] < Ceiling + (crashes + stale[c])
  BY <1>2, <1>3, CeilingType DEF Safe, Budget, BudgetOf
<1>5. stale[c] = 0 => row[c].attempts < MaxAttempts
  BY <1>2, <1>3, AttemptAssumption DEF Safe, Budget, BudgetOf, Ceiling
<1>6. ~(alerts[c] > 0 /\ stale[c] = 0)
  BY <1>3, <1>5, AttemptAssumption DEF Safe, AlertedLate, LastAttempt
<1> QED BY <1>1, <1>4, <1>6 DEF Promise!MayRing

\* The call that begins is known to go on, unless it is stray.
LEMMA BegunGoing ==
  ASSUME Typed, Safe, NEW c \in Calls, InBatch(c), NEW d \in Dials, Begins(c, d),
         hook' = hook, stray' \in {stray, stray \cup {d}}
  PROVE  GoingMap' = IF d \in stray' THEN GoingMap ELSE [GoingMap EXCEPT ![c] = {d}]
<1>1. /\ line'[d].phase = "live" /\ line'[d].call = c /\ line[d].phase = "free"
      /\ \A e \in Dials \ {d} : line'[e] = line[e]
  <2>1. line[d] = Free /\ line' = [line EXCEPT ![d] = [phase |-> "live", call |-> c]]
    BY DEF Begins
  <2> QED BY <2>1 DEF Typed, TypeOK, Free
<1>2. Going(c) = {}
  BY BatchIdle DEF Going
<1>3. \A x \in Calls \ {c} : Going(x)' = Going(x)
  BY <1>1 DEF Going, Live
<1>4. Going(c)' = IF d \in stray' THEN {} ELSE {d}
  BY <1>1, <1>2 DEF Going, Live
<1> QED BY <1>2, <1>3, <1>4 DEF GoingMap

LEMMA PromisePlace ==
  ASSUME Typed, Safe, MaxAttempts >= MinAttempts, NEW c \in Calls, DispatchPlace(c)
  PROVE  [Promise!Next]_(Promise!vars)
<1>1. PICK d \in Dials : Begins(c, d)
  BY DEF DispatchPlace
<1>2. /\ InBatch(c) /\ hook' = hook /\ UNCHANGED <<alerts, stray, stale, crashes>>
  BY DEF DispatchPlace
<1>3. Promise!MayRing(c) /\ placed' = [placed EXCEPT ![c] = placed[c] + 1]
  BY <1>1, <1>2, TurnMayRing DEF Begins
<1>4. GoingMap' = IF d \in stray THEN GoingMap ELSE [GoingMap EXCEPT ![c] = {d}]
  BY <1>1, <1>2, BegunGoing
<1>5. HandedMap' = HandedMap /\ FaultMap' = FaultMap
  BY <1>2 DEF HandedMap, FaultMap
<1>6. CASE d \in stray
  BY <1>3, <1>4, <1>5, <1>6
     DEF GoingMap, HandedMap, FaultMap, Promise!RingUnknown, Promise!Next
<1>7. CASE d \notin stray
  BY <1>3, <1>4, <1>5, <1>7
     DEF GoingMap, HandedMap, FaultMap, Promise!Ring, Promise!Next
<1> QED BY <1>6, <1>7

LEMMA PromiseLost ==
  ASSUME Typed, Safe, MaxAttempts >= MinAttempts, NEW c \in Calls, DispatchLost(c)
  PROVE  [Promise!Next]_(Promise!vars)
<1>1. PICK d \in Dials : Begins(c, d) /\ stray' = stray \cup {d}
  BY DEF DispatchLost
<1>2. /\ InBatch(c) /\ hook' = hook /\ UNCHANGED <<stale, crashes>>
      /\ alerts' \in {alerts, Alerted(c)}
  BY DEF DispatchLost, TurnedDown
<1>3. Promise!MayRing(c) /\ placed' = [placed EXCEPT ![c] = placed[c] + 1]
  BY <1>1, <1>2, TurnMayRing DEF Begins
<1>4. GoingMap' = GoingMap
  BY <1>1, <1>2, BegunGoing
<1>5. HandedMap' \in {HandedMap, [HandedMap EXCEPT ![c] = TRUE]}
  <2>1. CASE alerts' = alerts
    BY <1>2, <2>1 DEF HandedMap
  <2>2. CASE alerts' = Alerted(c)
    BY <1>2, <2>2, AlertedMap
  <2> QED BY <1>2, <2>1, <2>2
<1>6. FaultMap' = FaultMap
  BY <1>2 DEF FaultMap
<1> QED BY <1>3, <1>4, <1>5, <1>6
        DEF GoingMap, HandedMap, FaultMap, Promise!RingUnknown, Promise!Next

LEMMA PromiseRefused ==
  ASSUME Typed, NEW c \in Calls, DispatchRefused(c)
  PROVE  [Promise!Next]_(Promise!vars)
<1>1. Silent /\ alerts' \in {alerts, Alerted(c)}
  BY DEF DispatchRefused, TurnedDown, Silent
<1> QED BY <1>1, PromiseStutters, PromiseHandsOver

-----------------------------------------------------------------------------
(* Operators, restarts, the provider, handlers.                            *)

LEMMA PromiseOrder ==
  ASSUME Typed, NEW w \in Workers, RequeueCall(w)
  PROVE  [Promise!Next]_(Promise!vars)
<1>1. PICK c \in Calls : c = hook[w].call
  BY RequeueWrites
<1>2. /\ alerts' = [alerts EXCEPT ![c] = 0] /\ placed' = [placed EXCEPT ![c] = 0]
      /\ stray' = stray \cup {d \in Dials : Live(d) /\ line[d].call = c}
      /\ UNCHANGED <<line, stale, crashes>>
  BY <1>1 DEF RequeueCall
<1>3. GoingMap' = [GoingMap EXCEPT ![c] = {}]
  <2>1. Going(c)' = {} /\ \A x \in Calls \ {c} : Going(x)' = Going(x)
    BY <1>2 DEF Going, Live
  <2> QED BY <2>1 DEF GoingMap
<1>4. HandedMap' = [HandedMap EXCEPT ![c] = FALSE]
  <2>1. /\ (alerts'[c] > 0 /\ stale'[c] = 0) = FALSE
        /\ \A x \in Calls \ {c} : alerts'[x] = alerts[x]
    BY <1>2 DEF Typed, TypeOK
  <2>2. stale' = stale
    BY <1>2
  <2> QED BY <2>1, <2>2, Zenon DEF HandedMap
<1>5. FaultMap' = FaultMap
  BY <1>2 DEF FaultMap
<1>6. Promise!Order(c)
  BY <1>2, <1>3, <1>4, <1>5 DEF GoingMap, HandedMap, FaultMap, Promise!Order
<1> QED BY <1>6 DEF Promise!Next

\* What is forgotten of the calls that go on, and of what the managers were told,
\* is a fault of the rows it is forgotten of.
LEMMA PromiseFault ==
  ASSUME Typed, NEW hit \in SUBSET Calls, placed' = placed, line' = line,
         stray \subseteq stray',
         \A d \in Dials : Live(d) /\ d \in stray' \ stray => line[d].call \in hit,
         \A c \in Calls : FaultMap'[c] = IF c \in hit THEN FaultMap[c] + 1 ELSE FaultMap[c],
         \A c \in Calls : HandedMap'[c] => HandedMap[c],
         \A c \in Calls \ hit : HandedMap'[c] = HandedMap[c]
  PROVE  [Promise!Next]_(Promise!vars)
<1>1. \A c \in Calls : /\ GoingMap'[c] \subseteq GoingMap[c] /\ GoingMap'[c] \subseteq Dials
                       /\ c \notin hit => GoingMap'[c] = GoingMap[c]
  BY DEF GoingMap, Going, Live
<1>2. GoingMap' \in [Calls -> SUBSET Dials]
  BY <1>1 DEF GoingMap
<1>3. HandedMap' \in [Calls -> BOOLEAN]
  <2>1. \A c \in Calls : (alerts'[c] > 0 /\ stale'[c] = 0) \in BOOLEAN
    OBVIOUS
  <2> QED BY <2>1, Zenon DEF HandedMap
<1>4. FaultMap' = [c \in Calls |-> IF c \in hit THEN FaultMap[c] + 1 ELSE FaultMap[c]]
  <2>1. FaultMap' = [c \in Calls |-> FaultMap'[c]]
    BY DEF FaultMap
  <2> QED BY <2>1
<1>5. Promise!Fault(hit)
  BY <1>1, <1>2, <1>3, <1>4, Zenon DEF GoingMap, HandedMap, FaultMap, Promise!Fault
<1> QED BY <1>5 DEF Promise!Next

LEMMA PromiseRestart ==
  ASSUME Typed, Crash
  PROVE  [Promise!Next]_(Promise!vars)
<1>1. /\ crashes' = crashes + 1
      /\ stray' = IF pend = NoDial THEN stray ELSE stray \cup {pend}
      /\ UNCHANGED <<line, alerts, placed, stale>>
  BY DEF Crash
<1>2. HandedMap' = HandedMap
  BY <1>1 DEF HandedMap
<1>3. \A c \in Calls : FaultMap'[c] = FaultMap[c] + 1
  BY <1>1, RowFields DEF FaultMap
<1>4. \A d \in Dials : Live(d) => line[d].call \in Calls
  BY LiveCall
<1> QED BY <1>1, <1>2, <1>3, <1>4, PromiseFault

\* A handler that writes its row from an outdated read.
LEMMA PromiseOutdated ==
  ASSUME Typed, NEW c \in Calls, UNCHANGED <<line, placed, crashes>>,
         alerts' \in {alerts, Alerted(c)}, stale' = [stale EXCEPT ![c] = @ + 1],
         stray' = stray \cup Heard(c)
  PROVE  [Promise!Next]_(Promise!vars)
<1>1. stale'[c] = stale[c] + 1 /\ \A x \in Calls \ {c} : stale'[x] = stale[x]
  BY DEF Typed, TypeOK
<1>2. \A x \in Calls \ {c} : alerts'[x] = alerts[x]
  BY AlertedType DEF Typed, TypeOK
<1>3. \A x \in Calls : FaultMap'[x] = IF x \in {c} THEN FaultMap[x] + 1 ELSE FaultMap[x]
  BY <1>1, RowFields DEF FaultMap
<1>4. (HandedMap'[c] = FALSE) /\ \A x \in Calls \ {c} : HandedMap'[x] = HandedMap[x]
  <2>1. stale'[c] # 0
    BY <1>1, RowFields
  <2>2. HandedMap'[c] = FALSE
    BY <2>1, Zenon DEF HandedMap
  <2>3. \A x \in Calls \ {c} : HandedMap'[x] = HandedMap[x]
    BY <1>1, <1>2, Zenon DEF HandedMap
  <2> QED BY <2>2, <2>3
<1>5. \A d \in Dials : Live(d) /\ d \in stray' \ stray => line[d].call \in {c}
  BY DEF Heard
<1>6. \A x \in Calls : HandedMap'[x] => HandedMap[x]
  BY <1>4
<1> QED BY <1>3, <1>4, <1>5, <1>6, PromiseFault

LEMMA PromiseProvider ==
  ASSUME Typed, NEW d \in Dials, HangUp(d) \/ Analyse(d)
  PROVE  [Promise!Next]_(Promise!vars)
<1>1. /\ UNCHANGED <<alerts, placed, stray, stale, crashes>> /\ HandedMap' = HandedMap
      /\ FaultMap' = FaultMap
  BY DEF HangUp, Analyse, HandedMap, FaultMap
<1>2. /\ line[d].call \in Calls /\ line'[d].call = line[d].call /\ ~Live(d)'
      /\ \A e \in Dials \ {d} : line'[e] = line[e]
  <2>1. CASE HangUp(d)
    BY <2>1, HangUpLine, LiveCall DEF Typed, TypeOK, HangUp, Live
  <2>2. CASE Analyse(d)
    BY <2>2, AnalyseLine DEF Typed, TypeOK, Line, Free, Live
  <2> QED BY <2>1, <2>2
<1>3. GoingMap' = [GoingMap EXCEPT ![line[d].call] = GoingMap[line[d].call] \ {d}]
  <2>1. \A x \in Calls : Going(x)' = IF x = line[d].call THEN Going(x) \ {d} ELSE Going(x)
    BY <1>1, <1>2 DEF Going, Live
  <2> QED BY <1>2, <2>1 DEF GoingMap
<1>4. Promise!HangUp(line[d].call, d)
  BY <1>1, <1>3 DEF GoingMap, HandedMap, FaultMap, Promise!HangUp
<1> QED BY <1>2, <1>4 DEF Promise!Next

\* A handler's write is silent, tells the managers, or is an outdated one.
LEMMA PromiseApply ==
  ASSUME Typed, NEW w \in Workers, Apply(w)
  PROVE  [Promise!Next]_(Promise!vars)
<1>1. PICK c \in Calls : c = hook[w].call
  BY ApplyHook
<1>2. UNCHANGED <<line, placed, crashes>> /\ alerts' \in {alerts, Alerted(c)}
  BY <1>1 DEF Apply, ApplyRepeat, ApplyRetry, ApplyPatch, Judge
<1>3. CASE UNCHANGED <<stale, stray>>
  BY <1>2, <1>3, PromiseStutters, PromiseHandsOver DEF Silent
<1>4. CASE stale' = [stale EXCEPT ![c] = @ + 1] /\ stray' = stray \cup Heard(c)
  BY <1>2, <1>4, PromiseOutdated
<1> QED BY <1>1, <1>3, <1>4, ApplyNotes DEF Notes

LEMMA PromiseHandlers ==
  ASSUME Typed, Handlers
  PROVE  [Promise!Next]_(Promise!vars)
<1>1. ASSUME NEW w \in Workers, Picks(w) PROVE [Promise!Next]_(Promise!vars)
  BY <1>1, PickFrame, PromiseStutters DEF Silent
<1> QED BY <1>1, PromiseApply DEF Handlers, Picks

LEMMA PromiseStep ==
  ASSUME Typed, Safe, MaxAttempts >= MinAttempts, [Next]_vars
  PROVE  [Promise!Next]_(Promise!vars)
<1>1. CASE Handlers
  BY <1>1, PromiseHandlers
<1>2. CASE Provider
  BY <1>2, PromiseProvider DEF Provider
<1>3. CASE Crash
  BY <1>3, PromiseRestart
<1>4. ASSUME NEW c \in Calls, DispatchRefused(c) \/ DispatchPlace(c) \/ DispatchLost(c)
      PROVE  [Promise!Next]_(Promise!vars)
  BY <1>4, PromiseRefused, PromisePlace, PromiseLost
<1>5. ASSUME NEW w \in Workers, RequeueCall(w) PROVE [Promise!Next]_(Promise!vars)
  BY <1>5, PromiseOrder
<1>6. CASE \/ UNCHANGED vars \/ Clock \/ DispatchSelect \/ DispatchRecord
           \/ \E c \in Calls : \/ DispatchSkip(c) \/ Enqueue(c)
                               \/ \E w \in Workers : ReadCancel(w, c) \/ ReadRequeue(w, c)
           \/ \E w \in Workers : CancelCall(w)
  <2>1. Silent /\ alerts' = alerts
    BY <1>6 DEF vars, Clock, AgeOut, FallDue, GrowIdle, DispatchSelect, DispatchRecord,
                DispatchSkip, Enqueue, ReadCancel, ReadRequeue, CancelCall, Silent
  <2> QED BY <2>1, PromiseStutters
<1> QED BY <1>1, <1>2, <1>3, <1>4, <1>5, <1>6 DEF Next, Dispatcher, Operator

\* With a maximum of at least the abandoned-pitch floor, rows, batches, webhooks
\* and sweeps together implement what the customer is promised.
THEOREM KeepsThePromise ==
  ASSUME MaxAttempts >= MinAttempts PROVE Spec => KeepsPromise
<1>1. Init => Promise!Init
  BY PromiseInit
<1>2. IInv /\ [Next]_vars => [Promise!Next]_(Promise!vars)
  BY PromiseStep DEF IInv, Typed, Safe
<1>3. Spec => []IInv
  BY Inductive
<1> QED BY <1>1, <1>2, <1>3, PTL DEF Spec, KeepsPromise, Promise!Spec

=============================================================================
