-------------------------- MODULE FlipIntakeProofs --------------------------
(***************************************************************************)
(* Proofs about FlipIntake, for every set of jobs and any number of upsets:*)
(* types, one customer call per job that no two handlers worked on at      *)
(* once, the trail before each call, one log per call, and no automatic    *)
(* call before the integration was opted in.                               *)
(***************************************************************************)
EXTENDS FlipIntake, FiniteSetTheorems, SequenceTheorems, TLAPS

Works(h) == act[h].step \notin {"idle", "start"}
Owns(h)  == act[h].step \in {"logged", "inserting", "linking"}
Of(j)    == {h \in Handler : JobOf(h) = j}

\* A handler that wrote a log finds it open, and the call it links exists.
Held(j) ==
  \A h \in Of(j) : /\ Owns(h) => act[h].log \in DOMAIN logs[j] /\ logs[j][act[h].log].out = "open"
                   /\ act[h].step = "linking" => act[h].call \in 1 .. Len(calls[j])

\* No two handlers own one log.
Apart(j) ==
  \A g, h \in Of(j) : Owns(g) /\ Owns(h) /\ act[g].log = act[h].log => g = h

\* An asked call has an open log that no failing enqueue can still close.
Trail(j) ==
  Asked(j) # {} =>
    \E n \in DOMAIN logs[j] : /\ logs[j][n].out = "open"
                              /\ \A h \in Of(j) : act[h].step = "logged" => act[h].log # n

\* Where handlers never met, the one at work found no call, and has linked nothing.
Alone(j) ==
  j \notin crossed =>
    /\ \A g, h \in Of(j) : Works(g) /\ Works(h) => g = h
    /\ \A h \in Of(j) : Works(h) =>
         /\ \A n \in DOMAIN logs[j] : logs[j][n].call = 0
         /\ act[h].step # "linking" => Asked(j) = {}
    /\ \A i, k \in Asked(j) : i = k
    /\ \A m, n \in DOMAIN logs[j] : logs[j][m].call # 0 /\ logs[j][m].call = logs[j][n].call => m = n

JobInv(j) == Held(j) /\ Apart(j) /\ Trail(j) /\ Alone(j)

FlipInv == /\ TypeOK /\ (\A j \in Jobs : JobInv(j))
           /\ (optIn => opened) /\ NeverBeforeOptIn

-----------------------------------------------------------------------------
(* Types.                                                                  *)

\* A sequence changes element by element.
LEMMA SameLength ==
  ASSUME NEW S, NEW s \in Seq(S), NEW f \in [DOMAIN s -> S]
  PROVE  f \in Seq(S) /\ Len(f) = Len(s) /\ DOMAIN f = DOMAIN s
<1>1. DOMAIN s = 1 .. Len(s) /\ Len(s) \in Nat
  BY LenProperties
<1>2. f \in [1 .. Len(s) -> S]
  BY <1>1
<1>3. f \in Seq(S)
  BY <1>1, <1>2
<1> QED BY <1>1, <1>2, <1>3, LenProperties

LEMMA HandlerFacts ==
  /\ \A h \in Handler : h[1] \in Kind /\ JobOf(h) \in Jobs
  /\ \A k \in Kind, j \in Jobs : <<k, j>> \in Handler /\ JobOf(<<k, j>>) = j
BY DEF Handler, JobOf

LEMMA RowFacts ==
  ASSUME TypeOK, NEW j \in Jobs
  PROVE  /\ calls[j] \in Seq(Call) /\ Len(calls[j]) \in Nat /\ DOMAIN calls[j] = 1 .. Len(calls[j])
         /\ logs[j] \in Seq(Log) /\ Len(logs[j]) \in Nat /\ DOMAIN logs[j] = 1 .. Len(logs[j])
         /\ \A i \in DOMAIN calls[j] : calls[j][i] \in Call
         /\ \A n \in DOMAIN logs[j] : logs[j][n] \in Log /\ logs[j][n].call \in Nat
<1>1. calls[j] \in Seq(Call) /\ logs[j] \in Seq(Log)
  BY DEF TypeOK
<1>2. /\ Len(calls[j]) \in Nat /\ DOMAIN calls[j] = 1 .. Len(calls[j])
      /\ Len(logs[j]) \in Nat /\ DOMAIN logs[j] = 1 .. Len(logs[j])
  BY <1>1, LenProperties
<1>3. \A i \in DOMAIN calls[j] : calls[j][i] \in Call
  BY <1>1, <1>2, ElementOfSeq
<1>4. \A n \in DOMAIN logs[j] : logs[j][n] \in Log
  BY <1>1, <1>2, ElementOfSeq
<1> QED BY <1>1, <1>2, <1>3, <1>4 DEF Log

LEMMA UpsetType == ASSUME upsets \in 0 .. MaxUpsets, Upset PROVE upsets' \in 0 .. MaxUpsets
BY BoundAssumption DEF Upset

\* One handler moves.
LEMMA Moves ==
  ASSUME TypeOK, NEW h \in Handler, NEW a \in Act, act' = [act EXCEPT ![h] = a]
  PROVE  act' \in [Handler -> Act] /\ act'[h] = a /\ \A g \in Handler \ {h} : act'[g] = act[g]
BY DEF TypeOK

LEMMA Going ==
  ASSUME TypeOK, NEW h \in Handler, NEW s \in Step, Goes(h, s)
  PROVE  /\ act' \in [Handler -> Act] /\ act'[h].step = s
         /\ act'[h].log = act[h].log /\ act'[h].call = act[h].call
         /\ \A g \in Handler \ {h} : act'[g] = act[g]
<1> DEFINE a == [act[h] EXCEPT !.step = s]
<1>1. a \in Act /\ act' = [act EXCEPT ![h] = a] /\ a.step = s /\ a.log = act[h].log /\ a.call = act[h].call
  BY DEF Goes, TypeOK, Act
<1> HIDE DEF a
<1> QED BY <1>1, Moves

LEMMA Ending ==
  ASSUME TypeOK, NEW h \in Handler, Ends(h)
  PROVE  /\ act' \in [Handler -> Act] /\ act'[h].step = "idle"
         /\ \A g \in Handler \ {h} : act'[g] = act[g]
<1>1. Idle \in Act /\ Idle.step = "idle"
  BY DEF Idle, Act, Step
<1> QED BY <1>1, Moves DEF Ends

-----------------------------------------------------------------------------
(* What a job does not notice.                                             *)

\* Handlers go on or rest; calls come or change that no handler asked for.
LEMMA Unnoticed ==
  ASSUME NEW j \in Jobs, JobInv(j), Len(calls[j]) \in Nat, Len(calls'[j]) \in Nat,
         \A h \in Of(j) : act'[h] = act[h] \/ act'[h].step \in {"idle", "start"},
         logs'[j] = logs[j], Len(calls[j]) <= Len(calls'[j]), Asked(j)' = Asked(j),
         j \in crossed => j \in crossed'
  PROVE  JobInv(j)'
<1>1. \A h \in Of(j) : /\ Owns(h)' => Owns(h) /\ act'[h] = act[h]
                       /\ Works(h)' => Works(h) /\ act'[h] = act[h]
                       /\ act'[h].step = "logged" => act'[h] = act[h]
  BY DEF Owns, Works
<1>2. Of(j)' = Of(j)
  BY DEF Of, JobOf
<1>3. Held(j)'
  <2>1. \A h \in Of(j) : act'[h].step = "linking" => act[h].call \in 1 .. Len(calls'[j])
    BY <1>1 DEF JobInv, Held, Owns
  <2> QED BY <1>1, <1>2, <2>1 DEF JobInv, Held, Owns
<1>4. Apart(j)'
  BY <1>1, <1>2 DEF JobInv, Apart
<1>5. Trail(j)'
  BY <1>1, <1>2 DEF JobInv, Trail
<1>6. Alone(j)'
  BY <1>1, <1>2 DEF JobInv, Alone
<1> QED BY <1>3, <1>4, <1>5, <1>6 DEF JobInv

\* The rows stay, and handlers at most rest.
LEMMA Resting ==
  ASSUME FlipInv, UNCHANGED <<calls, logs>>, crossed \subseteq crossed',
         \A h \in Handler : act'[h] = act[h] \/ act'[h].step \in {"idle", "start"}
  PROVE  \A j \in Jobs : JobInv(j)'
<1> TAKE j \in Jobs
<1>1. Asked(j)' = Asked(j) /\ Len(calls[j]) \in Nat
  BY RowFacts DEF Asked, FlipInv
<1> QED BY <1>1, Unnoticed DEF FlipInv, Of

\* Another job's handler moves.
LEMMA Elsewhere ==
  ASSUME FlipInv, NEW h \in Handler, NEW j \in Jobs, j # JobOf(h),
         \A g \in Handler \ {h} : act'[g] = act[g],
         calls'[j] = calls[j], logs'[j] = logs[j], j \in crossed => j \in crossed'
  PROVE  JobInv(j)'
<1>1. Asked(j)' = Asked(j) /\ Len(calls[j]) \in Nat
  BY RowFacts DEF Asked, FlipInv
<1>2. h \notin Of(j)
  BY DEF Of
<1> QED BY <1>1, <1>2, Unnoticed DEF FlipInv, Of

\* What the clean types and switches depend on.
Switches == (optIn => opened) /\ NeverBeforeOptIn

LEMMA StillSwitches ==
  ASSUME Switches, UNCHANGED <<optIn, opened, calls>> PROVE Switches'
BY DEF Switches, NeverBeforeOptIn

-----------------------------------------------------------------------------
(* Entry points, restarts, settings and the clock.                         *)

\* The types that the rows and the handlers do not touch.
Rest ==
  /\ job \in [Jobs -> {"absent", "pending", "old"}] /\ phone \in [Jobs -> BOOLEAN]
  /\ seen \subseteq Handler /\ ticking \in BOOLEAN /\ todo \subseteq Jobs
  /\ voice \in BOOLEAN /\ mode \in Mode /\ optIn \in BOOLEAN /\ opened \in BOOLEAN
  /\ crossed \subseteq Jobs /\ declined \subseteq Jobs /\ upsets \in 0 .. MaxUpsets

LEMMA RestsKeep ==
  ASSUME FlipInv, Rest', UNCHANGED <<calls, logs>>, crossed \subseteq crossed',
         act' \in [Handler -> Act],
         \A h \in Handler : act'[h] = act[h] \/ act'[h].step \in {"idle", "start"},
         (optIn' => opened'), (opened => opened')
  PROVE  FlipInv'
<1>1. TypeOK'
  BY DEF FlipInv, TypeOK, Rest
<1>2. NeverBeforeOptIn'
  BY DEF FlipInv, NeverBeforeOptIn
<1> QED BY <1>1, <1>2, Resting DEF FlipInv

LEMMA ArriveKeeps == ASSUME FlipInv, NEW j \in Jobs, Arrive(j) PROVE FlipInv'
<1>1. Goes(<<"welcome", j>>, "start") /\ <<"welcome", j>> \in Handler /\ "start" \in Step
  BY HandlerFacts DEF Arrive, Goes, Kind, Step
<1>2. Rest'
  BY DEF Arrive, tickVars, setVars, FlipInv, TypeOK, Rest
<1> QED BY <1>1, <1>2, Going, RestsKeep DEF Arrive, setVars, FlipInv

LEMMA ManualRequestKeeps == ASSUME FlipInv, NEW j \in Jobs, ManualRequest(j) PROVE FlipInv'
<1>1. Goes(<<"manual", j>>, "start") /\ <<"manual", j>> \in Handler /\ "start" \in Step
  BY HandlerFacts DEF ManualRequest, Kind, Step
<1>2. Rest'
  BY UpsetType DEF ManualRequest, jobVars, tickVars, setVars, FlipInv, TypeOK, Rest
<1> QED BY <1>1, <1>2, Going, RestsKeep DEF ManualRequest, setVars, FlipInv

LEMMA QuietKeeps ==
  ASSUME FlipInv,
         TickStart \/ TickEnd \/ ChangeSettings \/ (\E j \in Jobs : GrowOld(j)) \/ UNCHANGED vars
  PROVE  FlipInv'
<1>1. UNCHANGED <<calls, logs, act, crossed>>
  BY DEF TickStart, TickEnd, ChangeSettings, GrowOld, vars
<1>2. act' \in [Handler -> Act]
  BY <1>1 DEF FlipInv, TypeOK
<1>3. Rest' /\ (optIn' => opened') /\ (opened => opened')
  <2>1. CASE TickStart
    BY <2>1 DEF TickStart, Pending, jobVars, setVars, FlipInv, TypeOK, Rest
  <2>2. CASE TickEnd
    BY <2>2 DEF TickEnd, jobVars, setVars, FlipInv, TypeOK, Rest
  <2>3. CASE ChangeSettings
    BY <2>3, UpsetType DEF ChangeSettings, jobVars, tickVars, FlipInv, TypeOK, Rest
  <2>4. CASE \E j \in Jobs : GrowOld(j)
    BY <2>4 DEF GrowOld, tickVars, setVars, FlipInv, TypeOK, Rest
  <2>5. CASE UNCHANGED vars
    BY <2>5 DEF vars, jobVars, tickVars, setVars, FlipInv, TypeOK, Rest
  <2> QED BY <2>1, <2>2, <2>3, <2>4, <2>5
<1> QED BY <1>1, <1>2, <1>3, RestsKeep

LEMMA CrashKeeps == ASSUME FlipInv, Crash PROVE FlipInv'
<1>1. /\ act' = [h \in Handler |-> Idle] /\ seen' = {} /\ ticking' = FALSE /\ todo' = {} /\ Upset
      /\ UNCHANGED <<jobVars, calls, logs, setVars, crossed, declined>>
  BY DEF Crash, Remembered
<1>2. act' \in [Handler -> Act] /\ \A h \in Handler : act'[h].step = "idle"
  BY <1>1 DEF Idle, Act, Step
<1>3. Rest'
  BY <1>1, UpsetType DEF jobVars, setVars, FlipInv, TypeOK, Rest
<1> QED BY <1>1, <1>2, <1>3, RestsKeep DEF setVars, FlipInv

LEMMA ThrowKeeps == ASSUME FlipInv, NEW h \in Handler, Throw(h) PROVE FlipInv'
<1>1. Ends(h) /\ JobOf(h) \in Jobs
  BY HandlerFacts DEF Throw
<1>2. Rest'
  BY <1>1, UpsetType DEF Throw, Declines, jobVars, setVars, FlipInv, TypeOK, Rest
<1> QED BY <1>1, <1>2, Ending, RestsKeep DEF Throw, setVars, FlipInv

\* A handler takes the job on: it found no call.
LEMMA Starts ==
  ASSUME FlipInv, NEW h \in Handler, ~Works(h), ~Called(JobOf(h)),
         Goes(h, "checked"), Crosses(h), Rest', UNCHANGED <<calls, logs, setVars>>
  PROVE  FlipInv'
<1> DEFINE j == JobOf(h)
<1>1. /\ act' \in [Handler -> Act] /\ act'[h].step = "checked"
      /\ \A g \in Handler \ {h} : act'[g] = act[g]
  BY Going DEF FlipInv, Step
<1>2. j \in Jobs /\ crossed \subseteq crossed'
      /\ (j \notin crossed' => j \notin crossed /\ \A g \in Of(j) \ {h} : ~Works(g))
  BY HandlerFacts DEF Crosses, Of, Works
<1>3. Asked(j) = {} /\ Asked(j)' = {} /\ \A n \in DOMAIN logs[j] : logs[j][n].call = 0
  <2>1. Len(calls[j]) = 0 /\ DOMAIN calls[j] = {}
    BY <1>2, RowFacts DEF Called, FlipInv
  <2>2. \A n \in DOMAIN logs[j] : logs[j][n].call \in 0 .. Len(calls[j])
    BY <1>2 DEF FlipInv, TypeOK
  <2> QED BY <2>1, <2>2 DEF Asked
<1>4. JobInv(j)'
  <2>1. /\ \A g \in Of(j) : g # h => act'[g] = act[g]
        /\ Of(j)' = Of(j) /\ ~Owns(h)' /\ act'[h].step # "linking"
    BY <1>1 DEF Of, JobOf, Owns
  <2> DEFINE i == j
  <2>2. Held(j)' /\ Apart(j)' /\ Trail(j)'
    BY <1>2, <1>3, <2>1 DEF FlipInv, JobInv, Held, Apart, Trail, Owns
  <2>3. Alone(j)'
    BY <1>1, <1>2, <1>3, <2>1 DEF Alone, Works
  <2> QED BY <2>2, <2>3 DEF JobInv
<1>5. \A k \in Jobs : k # j => JobInv(k)'
  BY <1>1, <1>2, Elsewhere
<1>6. TypeOK'
  BY <1>1 DEF FlipInv, TypeOK, Rest
<1>7. Switches'
  BY StillSwitches DEF FlipInv, Switches, setVars
<1> QED BY <1>4, <1>5, <1>6, <1>7 DEF FlipInv, Switches

LEMMA CheckKeeps == ASSUME FlipInv, NEW h \in Handler, Check(h) PROVE FlipInv'
<1>1. <<"welcome", JobOf(h)>> \in Handler /\ JobOf(h) \in Jobs
  BY HandlerFacts DEF Kind
<1>2. UNCHANGED <<jobVars, ticking, todo, calls, logs, setVars, upsets, declined>>
      /\ crossed' \subseteq Jobs /\ crossed \subseteq crossed' /\ seen' \subseteq Handler
  BY <1>1 DEF Check, Crosses, FlipInv, TypeOK
<1>3. Rest'
  BY <1>2 DEF jobVars, setVars, FlipInv, TypeOK, Rest
<1>4. CASE Ends(h)
  BY <1>2, <1>3, <1>4, Ending, RestsKeep DEF setVars, FlipInv
<1>5. CASE Goes(h, "checked") /\ Crosses(h) /\ ~Called(JobOf(h))
  <2>1. ~Works(h)
    BY DEF Check, Works
  <2> QED BY <1>2, <1>3, <1>5, <2>1, Starts
<1> QED BY <1>4, <1>5 DEF Check

LEMMA TickTakeKeeps == ASSUME FlipInv, NEW j \in Jobs, TickTake(j) PROVE FlipInv'
<1> DEFINE h == <<"tick", j>>
<1>1. h \in Handler /\ JobOf(h) = j
  BY HandlerFacts DEF Kind
<1>2. UNCHANGED <<jobVars, ticking, calls, logs, setVars, upsets, declined>>
      /\ todo' \subseteq Jobs /\ seen' \subseteq Handler
      /\ crossed' \subseteq Jobs /\ crossed \subseteq crossed'
  BY <1>1 DEF TickTake, Crosses, FlipInv, TypeOK
<1>3. Rest'
  BY <1>2 DEF jobVars, setVars, FlipInv, TypeOK, Rest
<1>4. CASE UNCHANGED <<act, crossed>>
  BY <1>2, <1>3, <1>4, RestsKeep DEF setVars, FlipInv, TypeOK
<1>5. CASE Goes(h, "checked") /\ Crosses(h) /\ ~Called(j)
  <2>1. ~Works(h)
    BY DEF TickTake, Waiting, Busy, Works
  <2> HIDE DEF h
  <2> QED BY <1>1, <1>2, <1>3, <1>5, <2>1, Starts
<1> QED BY <1>4, <1>5 DEF TickTake

-----------------------------------------------------------------------------
(* The dispatcher and the operator change the calls.                       *)

\* No call is lost; one is dialled that was, or after the opt-in, or for an operator.
Lawful(j, row) ==
  /\ row \in Seq(Call) /\ Len(calls[j]) <= Len(row)
  /\ \A i \in DOMAIN row : row[i].st = "dialled" =>
       \/ i \in DOMAIN calls[j] /\ calls[j][i].st = "dialled" /\ calls[j][i].by = row[i].by
       \/ opened \/ row[i].by = "manual"

Aside == /\ UNCHANGED <<jobVars, tickVars, act, logs, setVars, crossed, declined>>
         /\ upsets' \in 0 .. MaxUpsets

\* No call appears that a handler asked for.
LEMMA CallsKeep ==
  ASSUME FlipInv, Aside, NEW j \in Jobs, NEW row, Lawful(j, row),
         calls' = [calls EXCEPT ![j] = row],
         Asked(j)' = Asked(j)
  PROVE  FlipInv'
<1>1. Len(row) \in Nat /\ Len(calls[j]) \in Nat /\ Len(calls[j]) <= Len(row)
  BY RowFacts, LenProperties DEF FlipInv, Lawful
<1>2. calls' \in [Jobs -> Seq(Call)] /\ \A k \in Jobs : calls'[k] = IF k = j THEN row ELSE calls[k]
  BY DEF FlipInv, TypeOK, Lawful
<1>3. \A k \in Jobs : \A n \in DOMAIN logs[k] : logs[k][n].call \in 0 .. Len(calls'[k])
  <2>1. \A k \in Jobs : \A n \in DOMAIN logs[k] : logs[k][n].call \in 0 .. Len(calls[k])
    BY DEF FlipInv, TypeOK
  <2> QED BY <1>1, <1>2, <2>1
<1>4. TypeOK'
  BY <1>2, <1>3 DEF FlipInv, TypeOK, Aside, jobVars, tickVars, setVars
<1>5. \A k \in Jobs : JobInv(k)'
  <2> TAKE k \in Jobs
  <2>1. Len(calls[k]) \in Nat /\ Len(calls'[k]) \in Nat /\ Len(calls[k]) <= Len(calls'[k])
    BY <1>1, <1>2, RowFacts DEF FlipInv
  <2>2. Asked(k)' = Asked(k)
    BY <1>2 DEF Asked
  <2> QED BY <2>1, <2>2, Unnoticed DEF FlipInv, Aside
<1>6. (optIn' => opened') /\ NeverBeforeOptIn'
  BY <1>2 DEF FlipInv, NeverBeforeOptIn, Lawful, Aside, setVars
<1> QED BY <1>4, <1>5, <1>6 DEF FlipInv

LEMMA ScriptCallKeeps == ASSUME FlipInv, NEW j \in Jobs, ScriptCall(j) PROVE FlipInv'
<1> DEFINE row == Append(calls[j], Queued("script"))
<1>1. Queued("script") \in Call /\ Queued("script").st = "queued" /\ Queued("script").by = "script"
  BY DEF Queued, Call
<1>2. /\ row \in Seq(Call) /\ Len(row) = Len(calls[j]) + 1
      /\ \A i \in 1 .. Len(calls[j]) : row[i] = calls[j][i]
      /\ row[Len(calls[j]) + 1] = Queued("script")
  BY <1>1, RowFacts, AppendProperties DEF FlipInv
<1>3. DOMAIN row = 1 .. Len(calls[j]) + 1 /\ Len(calls[j]) \in Nat
      /\ DOMAIN calls[j] = 1 .. Len(calls[j])
  BY <1>2, RowFacts, LenProperties DEF FlipInv
<1>4. calls' = [calls EXCEPT ![j] = row] /\ calls'[j] = row
  BY DEF ScriptCall, FlipInv, TypeOK
<1> HIDE DEF row
<1>5. Asked(j)' = Asked(j)
  BY <1>1, <1>2, <1>3, <1>4 DEF Asked
<1>6. Lawful(j, row)
  BY <1>1, <1>2, <1>3 DEF Lawful
<1>7. Aside
  BY UpsetType DEF ScriptCall, Aside, FlipInv, TypeOK
<1> QED BY <1>4, <1>5, <1>6, <1>7, CallsKeep

\* The status of one call changes.
LEMMA StatusKeeps ==
  ASSUME FlipInv, NEW j \in Jobs, NEW i \in DOMAIN calls[j], NEW st \in {"queued", "dialled", "cancelled"},
         calls' = [calls EXCEPT ![j][i].st = st],
         st = "dialled" => opened \/ calls[j][i].by = "manual",
         Aside
  PROVE  FlipInv'
<1> DEFINE row == [calls[j] EXCEPT ![i].st = st]
<1>1. row \in [DOMAIN calls[j] -> Call]
  <2>1. \A k \in DOMAIN calls[j] : calls[j][k] \in Call
    BY RowFacts DEF FlipInv
  <2>2. [calls[j][i] EXCEPT !.st = st] \in Call
    <3>1. calls[j][i] \in Call
      BY <2>1
    <3> QED BY <3>1 DEF Call
  <2>3. \A k \in DOMAIN calls[j] :
          row[k] = IF k = i THEN [calls[j][i] EXCEPT !.st = st] ELSE calls[j][k]
    BY RowFacts DEF FlipInv
  <2>4. row = [k \in DOMAIN calls[j] |-> row[k]]
    BY RowFacts DEF FlipInv
  <2> HIDE DEF row
  <2> QED BY <2>1, <2>2, <2>3, <2>4
<1>2. /\ row \in Seq(Call) /\ Len(row) = Len(calls[j]) /\ DOMAIN row = DOMAIN calls[j]
      /\ Len(calls[j]) \in Nat
  BY <1>1, RowFacts, SameLength DEF FlipInv
<1>3. \A k \in DOMAIN calls[j] : /\ row[k].by = calls[j][k].by
                                 /\ row[k].st = IF k = i THEN st ELSE calls[j][k].st
  BY RowFacts DEF FlipInv, Call
<1>4. calls' = [calls EXCEPT ![j] = row] /\ calls'[j] = row
  BY DEF FlipInv, TypeOK
<1> HIDE DEF row
<1>5. Asked(j)' = Asked(j)
  BY <1>2, <1>3, <1>4 DEF Asked
<1>6. Lawful(j, row)
  BY <1>2, <1>3 DEF Lawful
<1> QED BY <1>4, <1>5, <1>6, CallsKeep

LEMMA DispatchKeeps == ASSUME FlipInv, NEW j \in Jobs, Dispatch(j) PROVE FlipInv'
<1>1. PICK i \in DOMAIN calls[j] :
        calls' = [calls EXCEPT ![j][i].st =
                    IF SourceOpen(calls[j][i]) THEN "dialled" ELSE "cancelled"]
  BY DEF Dispatch
<1>2. SourceOpen(calls[j][i]) => opened \/ calls[j][i].by = "manual"
  BY DEF SourceOpen, FlipInv
<1>3. Aside
  BY DEF Dispatch, Aside, FlipInv, TypeOK
<1>4. CASE SourceOpen(calls[j][i])
  <2>1. calls' = [calls EXCEPT ![j][i].st = "dialled"]
    BY <1>1, <1>4
  <2> QED BY <1>2, <1>3, <1>4, <2>1, StatusKeeps
<1>5. CASE ~SourceOpen(calls[j][i])
  <2>1. calls' = [calls EXCEPT ![j][i].st = "cancelled"]
    BY <1>1, <1>5
  <2> QED BY <1>3, <2>1, StatusKeeps
<1> QED BY <1>4, <1>5

LEMMA CancelCallKeeps == ASSUME FlipInv, NEW j \in Jobs, CancelCall(j) PROVE FlipInv'
<1>1. PICK i \in DOMAIN calls[j] : calls' = [calls EXCEPT ![j][i].st = "cancelled"]
  BY DEF CancelCall
<1>2. Aside
  BY UpsetType DEF CancelCall, Aside, FlipInv, TypeOK
<1> QED BY <1>1, <1>2, StatusKeeps

LEMMA RequeueCallKeeps == ASSUME FlipInv, NEW j \in Jobs, RequeueCall(j) PROVE FlipInv'
<1>1. PICK i \in DOMAIN calls[j] : calls' = [calls EXCEPT ![j][i].st = "queued"]
  BY DEF RequeueCall
<1>2. Aside
  BY UpsetType DEF RequeueCall, Aside, FlipInv, TypeOK
<1> QED BY <1>1, <1>2, StatusKeeps

-----------------------------------------------------------------------------
(* The common course of a handler.                                         *)

\* The handler h moves on with the rows of its job.
Course(h) ==
  /\ UNCHANGED <<jobVars, tickVars, setVars, crossed, upsets>> /\ declined' \subseteq Jobs
  /\ act' \in [Handler -> Act]
  /\ \A g \in Handler \ {h} : act'[g] = act[g]
  /\ calls' \in [Jobs -> Seq(Call)] /\ logs' \in [Jobs -> Seq(Log)]
  /\ \A k \in Jobs \ {JobOf(h)} : calls'[k] = calls[k] /\ logs'[k] = logs[k]

LEMMA CourseKeeps ==
  ASSUME FlipInv, NEW h \in Handler, Course(h), JobInv(JobOf(h))',
         \A n \in DOMAIN logs'[JobOf(h)] :
           logs'[JobOf(h)][n].call \in 0 .. Len(calls'[JobOf(h)]),
         opened \/ \A i \in DOMAIN calls'[JobOf(h)] :
           calls'[JobOf(h)][i].st = "dialled" => calls'[JobOf(h)][i].by = "manual"
  PROVE  FlipInv'
<1>1. JobOf(h) \in Jobs
  BY HandlerFacts
<1>2. \A k \in Jobs : JobInv(k)'
  BY <1>1, Elsewhere DEF Course
<1>3. \A k \in Jobs : \A n \in DOMAIN logs'[k] : logs'[k][n].call \in 0 .. Len(calls'[k])
  BY DEF Course, FlipInv, TypeOK
<1>4. TypeOK'
  BY <1>3 DEF Course, FlipInv, TypeOK, jobVars, tickVars, setVars
<1>5. (optIn' => opened') /\ NeverBeforeOptIn'
  BY DEF Course, FlipInv, NeverBeforeOptIn, setVars
<1> QED BY <1>2, <1>4, <1>5 DEF FlipInv

\* What is known of the job of a handler at work.
LEMMA CourseFacts ==
  ASSUME FlipInv, NEW h \in Handler
  PROVE  /\ JobOf(h) \in Jobs /\ h \in Of(JobOf(h)) /\ JobInv(JobOf(h))
         /\ act[h] \in Act /\ act \in [Handler -> Act]
         /\ \A n \in DOMAIN logs[JobOf(h)] : logs[JobOf(h)][n].call \in 0 .. Len(calls[JobOf(h)])
         /\ opened \/ \A i \in DOMAIN calls[JobOf(h)] :
              calls[JobOf(h)][i].st = "dialled" => calls[JobOf(h)][i].by = "manual"
BY HandlerFacts DEF FlipInv, TypeOK, Of, NeverBeforeOptIn

\* A log of which nobody knows is added, and its handler owns it or ends.
LEMMA LogAdded ==
  ASSUME FlipInv, NEW h \in Handler, act[h].step = "checked",
         NEW row \in Log, row.call = 0,
         NEW a \in Act, act' = [act EXCEPT ![h] = a],
         \/ a.step = "idle"
         \/ a.step = "logged" /\ a.log = Len(logs[JobOf(h)]) + 1 /\ row.out = "open",
         logs' = [logs EXCEPT ![JobOf(h)] = Append(@, row)], calls' = calls,
         UNCHANGED <<jobVars, tickVars, setVars, crossed, upsets>>, declined' \subseteq Jobs
  PROVE  FlipInv'
<1> PICK j \in Jobs : j = JobOf(h)
  BY CourseFacts
<1> DEFINE N == Len(logs[j]) + 1
<1>1. /\ logs' = [logs EXCEPT ![j] = Append(logs[j], row)]
      /\ logs' \in [Jobs -> Seq(Log)] /\ Len(logs'[j]) = N
      /\ DOMAIN logs[j] = 1 .. Len(logs[j]) /\ DOMAIN logs'[j] = 1 .. N
      /\ \A n \in 1 .. Len(logs[j]) : logs'[j][n] = logs[j][n]
      /\ logs'[j][N] = row
      /\ \A k \in Jobs \ {j} : logs'[k] = logs[k]
      /\ Len(logs[j]) \in Nat
  <2>1. /\ Append(logs[j], row) \in Seq(Log) /\ Len(Append(logs[j], row)) = N
        /\ \A n \in 1 .. Len(logs[j]) : Append(logs[j], row)[n] = logs[j][n]
        /\ Append(logs[j], row)[N] = row
    BY RowFacts, AppendProperties DEF FlipInv
  <2>2. DOMAIN Append(logs[j], row) = 1 .. N
    BY <2>1, LenProperties
  <2> QED BY <2>1, <2>2, RowFacts DEF FlipInv, TypeOK
<1>2. PICK top \in Nat : top = N
  BY <1>1
<1> HIDE DEF N
<1>3. act' \in [Handler -> Act] /\ act'[h] = a /\ \A g \in Handler \ {h} : act'[g] = act[g]
  BY Moves DEF FlipInv
<1>4. h \in Of(j) /\ JobInv(j) /\ ~Owns(h) /\ Works(h) /\ Of(j)' = Of(j) /\ Asked(j)' = Asked(j)
  BY CourseFacts DEF Owns, Works, Asked, Of, JobOf
<1>5. \A n \in DOMAIN logs[j] : n # top /\ n \in DOMAIN logs'[j] /\ logs'[j][n] = logs[j][n]
  BY <1>1, <1>2 DEF N
<1>6. \A n \in DOMAIN logs'[j] : n = top \/ n \in DOMAIN logs[j]
  BY <1>1, <1>2 DEF N
<1>7. top \in DOMAIN logs'[j] /\ logs'[j][top] = row /\ (a.step = "logged" => a.log = top)
  BY <1>1, <1>2 DEF N
<1>8. \A g \in Of(j) : g \in Handler /\ (g # h => act'[g] = act[g])
  BY <1>3 DEF Of
<1>9. Held(j)'
  BY <1>3, <1>4, <1>5, <1>7, <1>8 DEF JobInv, Held, Owns
<1>10. Apart(j)'
  <2>1. \A g \in Of(j) : Owns(g) => act[g].log # top
    BY <1>4, <1>5 DEF JobInv, Held
  <2> QED BY <1>3, <1>4, <1>7, <1>8, <2>1 DEF JobInv, Apart, Owns
<1>11. Trail(j)'
  BY <1>3, <1>4, <1>5, <1>7, <1>8 DEF JobInv, Trail
<1>12. Alone(j)'
  <2>1. \A n \in DOMAIN logs'[j] :
          \/ n = top /\ logs'[j][n].call = 0
          \/ n \in DOMAIN logs[j] /\ logs'[j][n].call = logs[j][n].call
    BY <1>5, <1>6, <1>7
  <2> QED BY <1>3, <1>4, <1>8, <2>1 DEF JobInv, Alone, Works
<1>13. Course(h)
  BY <1>1, <1>3 DEF Course, FlipInv, TypeOK
<1>14. \A n \in DOMAIN logs'[j] : logs'[j][n].call \in 0 .. Len(calls'[j])
  <2>1. Len(calls[j]) \in Nat /\ \A n \in DOMAIN logs[j] : logs[j][n].call \in 0 .. Len(calls[j])
    BY RowFacts DEF FlipInv, TypeOK
  <2> QED BY <1>5, <1>6, <1>7, <2>1
<1> QED BY <1>9, <1>10, <1>11, <1>12, <1>13, <1>14, CourseKeeps, CourseFacts DEF JobInv

LEMMA ReadPolicyKeeps == ASSUME FlipInv, NEW h \in Handler, ReadPolicy(h) PROVE FlipInv'
<1> DEFINE j == JobOf(h)
<1>1. /\ act[h].step = "checked" /\ j \in Jobs
      /\ UNCHANGED <<jobVars, tickVars, calls, setVars, crossed, upsets>>
  BY HandlerFacts DEF ReadPolicy
<1>2. CASE WriteLog(h) /\ UNCHANGED declined
  <2> DEFINE a == [act[h] EXCEPT !.step = "logged", !.log = Len(logs[j]) + 1]
  <2>1. logs' = [logs EXCEPT ![j] = Append(@, Opened)]
        /\ Opened \in Log /\ Opened.call = 0 /\ Opened.out = "open"
    BY <1>2 DEF WriteLog, Opened, Log
  <2>2. Len(logs[j]) \in Nat /\ logs'[j] = Append(logs[j], Opened) /\ Len(logs'[j]) = Len(logs[j]) + 1
    BY <1>1, <2>1, RowFacts, AppendProperties DEF FlipInv, TypeOK
  <2>3. act' = [act EXCEPT ![h] = a]
    BY <1>2, <2>2 DEF WriteLog, FlipInv, TypeOK
  <2>4. a \in Act /\ a.step = "logged" /\ a.log = Len(logs[j]) + 1
    <3>1. Len(logs[j]) + 1 \in Nat /\ "logged" \in Step /\ act[h] \in Act
      BY <2>2, CourseFacts DEF Step
    <3> QED BY <3>1 DEF Act
  <2>5. declined' \subseteq Jobs
    BY <1>2 DEF FlipInv, TypeOK
  <2> HIDE DEF a
  <2> QED BY <1>1, <2>1, <2>3, <2>4, <2>5, LogAdded
<1>3. CASE Ends(h) /\ Declines(h) /\ UNCHANGED logs
  <2>1. Rest'
    BY <1>1, <1>3 DEF Declines, jobVars, tickVars, setVars, FlipInv, TypeOK, Rest
  <2> QED BY <1>1, <1>3, <2>1, Ending, RestsKeep DEF setVars, FlipInv
<1>4. CASE logs' = [logs EXCEPT ![j] = Append(@, NotAttempted)] /\ Ends(h) /\ UNCHANGED declined
  <2>1. NotAttempted \in Log /\ NotAttempted.call = 0 /\ Idle \in Act /\ Idle.step = "idle"
    BY DEF NotAttempted, Log, Idle, Act, Step
  <2>2. declined' \subseteq Jobs
    BY <1>4 DEF FlipInv, TypeOK
  <2> QED BY <1>1, <1>4, <2>1, <2>2, LogAdded DEF Ends
<1> QED BY <1>2, <1>3, <1>4 DEF ReadPolicy

LEMMA EnqueueSelectKeeps == ASSUME FlipInv, NEW h \in Handler, EnqueueSelect(h) PROVE FlipInv'
<1> PICK j \in Jobs : j = JobOf(h)
  BY CourseFacts
<1>1. /\ act[h].step = "logged" /\ h \in Of(j) /\ JobInv(j) /\ Owns(h) /\ Works(h)
      /\ UNCHANGED <<jobVars, tickVars, calls, setVars, crossed, upsets, declined>>
      /\ act[h].log \in DOMAIN logs[j]
  BY CourseFacts DEF EnqueueSelect, Owns, Works, JobInv, Held
<1>2. Of(j)' = Of(j) /\ Asked(j)' = Asked(j) /\ \A g \in Of(j) : g \in Handler
  BY <1>1 DEF Of, JobOf, Asked
<1>3. PICK top : top = act[h].log
  OBVIOUS
<1>4. \A g \in Of(j) : g # h => ~Owns(g) \/ act[g].log # top
  BY <1>1, <1>3 DEF JobInv, Apart
<1>5. CASE logs' = [logs EXCEPT ![j][act[h].log].out = "enqueue_failed"] /\ Ends(h)
  <2> DEFINE rows == [logs[j] EXCEPT ![top].out = "enqueue_failed"]
  <2>1. rows \in [DOMAIN logs[j] -> Log]
    BY <1>1, <1>3, RowFacts DEF FlipInv, Log
  <2>2. rows \in Seq(Log) /\ Len(rows) = Len(logs[j]) /\ DOMAIN rows = DOMAIN logs[j]
    BY <2>1, RowFacts, SameLength DEF FlipInv
  <2>3. \A n \in DOMAIN logs[j] : /\ rows[n].call = logs[j][n].call
                                  /\ n # top => rows[n] = logs[j][n]
    BY RowFacts DEF FlipInv, Log
  <2>4. logs' = [logs EXCEPT ![j] = rows] /\ logs'[j] = rows
    BY <1>3, <1>5 DEF FlipInv, TypeOK
  <2> HIDE DEF rows
  <2>5. /\ act' \in [Handler -> Act] /\ act'[h].step = "idle"
        /\ \A g \in Of(j) : g # h => act'[g] = act[g]
        /\ \A g \in Handler \ {h} : act'[g] = act[g]
    BY <1>2, <1>5, Ending DEF FlipInv
  <2>6. Held(j)'
    BY <1>1, <1>2, <1>4, <2>2, <2>3, <2>4, <2>5 DEF JobInv, Held, Owns
  <2>7. Apart(j)'
    BY <1>1, <1>2, <2>5 DEF JobInv, Apart, Owns
  <2>8. Trail(j)'
    BY <1>1, <1>2, <1>3, <2>2, <2>3, <2>4, <2>5 DEF JobInv, Trail
  <2>9. Alone(j)'
    BY <1>1, <1>2, <2>2, <2>3, <2>4, <2>5 DEF JobInv, Alone, Works
  <2>10. Course(h)
    BY <1>1, <2>2, <2>4, <2>5 DEF Course, FlipInv, TypeOK
  <2>11. \A n \in DOMAIN logs'[j] : logs'[j][n].call \in 0 .. Len(calls'[j])
    BY <1>1, <2>2, <2>3, <2>4, CourseFacts
  <2> QED BY <1>1, <2>6, <2>7, <2>8, <2>9, <2>10, <2>11, CourseKeeps, CourseFacts DEF JobInv
<1>6. CASE Standing(j) = {} /\ Goes(h, "inserting") /\ UNCHANGED logs
  <2>1. /\ act' \in [Handler -> Act] /\ act'[h].step = "inserting" /\ act'[h].log = act[h].log
        /\ \A g \in Of(j) : g # h => act'[g] = act[g]
        /\ \A g \in Handler \ {h} : act'[g] = act[g]
    BY <1>2, <1>6, Going DEF FlipInv, Step
  <2>2. Held(j)' /\ Apart(j)' /\ Trail(j)' /\ Alone(j)'
    BY <1>1, <1>2, <1>6, <2>1 DEF JobInv, Held, Apart, Trail, Alone, Owns, Works
  <2>3. Course(h)
    BY <1>1, <1>6, <2>1 DEF Course, FlipInv, TypeOK
  <2> QED BY <1>1, <1>6, <2>2, <2>3, CourseKeeps, CourseFacts DEF JobInv
<1>7. ASSUME NEW i \in Standing(j), act' = [act EXCEPT ![h].step = "linking", ![h].call = i],
             UNCHANGED logs
      PROVE  FlipInv'
  <2> DEFINE a == [act[h] EXCEPT !.step = "linking", !.call = i]
  <2>1. i \in 1 .. Len(calls[j]) /\ i \in Nat
    BY RowFacts DEF Standing, FlipInv
  <2>2. act' = [act EXCEPT ![h] = a]
    BY <1>7 DEF FlipInv, TypeOK
  <2>3. a \in Act /\ a.step = "linking" /\ a.call = i /\ a.log = act[h].log
    <3>1. "linking" \in Step /\ act[h] \in Act
      BY CourseFacts DEF Step
    <3> QED BY <2>1, <3>1 DEF Act
  <2> HIDE DEF a
  <2>4. /\ act' \in [Handler -> Act] /\ act'[h] = a
        /\ \A g \in Of(j) : g # h => act'[g] = act[g]
        /\ \A g \in Handler \ {h} : act'[g] = act[g]
    BY <1>2, <2>2, <2>3, Moves DEF FlipInv
  <2>5. Held(j)' /\ Apart(j)' /\ Trail(j)' /\ Alone(j)'
    BY <1>1, <1>2, <1>7, <2>1, <2>3, <2>4 DEF JobInv, Held, Apart, Trail, Alone, Owns, Works
  <2>6. Course(h)
    BY <1>1, <1>7, <2>4 DEF Course, FlipInv, TypeOK
  <2> QED BY <1>1, <1>7, <2>5, <2>6, CourseKeeps, CourseFacts DEF JobInv
<1> QED BY <1>5, <1>6, <1>7 DEF EnqueueSelect

LEMMA EnqueueInsertKeeps == ASSUME FlipInv, NEW h \in Handler, EnqueueInsert(h) PROVE FlipInv'
<1> PICK j \in Jobs : j = JobOf(h)
  BY CourseFacts
<1> DEFINE N == Len(calls[j]) + 1
           new == Queued(h[1])
<1>1. /\ act[h].step = "inserting" /\ h \in Of(j) /\ JobInv(j) /\ Owns(h) /\ Works(h)
      /\ UNCHANGED <<jobVars, tickVars, logs, setVars, crossed, upsets, declined>>
      /\ act[h].log \in DOMAIN logs[j] /\ logs[j][act[h].log].out = "open"
  BY CourseFacts DEF EnqueueInsert, Owns, Works, JobInv, Held
<1>2. new \in Call /\ new.st = "queued" /\ new.by # "script"
  BY HandlerFacts DEF Queued, Call, Kind
<1>3. /\ calls' = [calls EXCEPT ![j] = Append(calls[j], new)]
      /\ calls' \in [Jobs -> Seq(Call)] /\ Len(calls'[j]) = N /\ Len(calls[j]) \in Nat
      /\ DOMAIN calls[j] = 1 .. Len(calls[j]) /\ DOMAIN calls'[j] = 1 .. N
      /\ \A i \in 1 .. Len(calls[j]) : calls'[j][i] = calls[j][i]
      /\ calls'[j][N] = new
      /\ \A k \in Jobs \ {j} : calls'[k] = calls[k]
  <2>1. calls' = [calls EXCEPT ![j] = Append(calls[j], new)]
    BY DEF EnqueueInsert
  <2> HIDE DEF new
  <2>2. /\ Append(calls[j], new) \in Seq(Call) /\ Len(Append(calls[j], new)) = N
        /\ \A i \in 1 .. Len(calls[j]) : Append(calls[j], new)[i] = calls[j][i]
        /\ Append(calls[j], new)[N] = new
    BY <1>2, RowFacts, AppendProperties DEF FlipInv
  <2>3. DOMAIN Append(calls[j], new) = 1 .. N
    BY <2>2, LenProperties
  <2> QED BY <2>1, <2>2, <2>3, RowFacts DEF FlipInv, TypeOK
<1> HIDE DEF new
<1>4. PICK top \in Nat : top = N
  BY <1>3
<1> HIDE DEF N
<1>5. /\ \A i \in DOMAIN calls[j] : i # top /\ i \in DOMAIN calls'[j] /\ calls'[j][i] = calls[j][i]
      /\ \A i \in DOMAIN calls'[j] : i = top \/ i \in DOMAIN calls[j]
      /\ top \in DOMAIN calls'[j] /\ calls'[j][top] = new /\ top \in 1 .. Len(calls'[j])
      /\ Len(calls[j]) <= Len(calls'[j]) /\ Len(calls'[j]) \in Nat
  BY <1>3, <1>4 DEF N
<1> DEFINE a == [act[h] EXCEPT !.step = "linking", !.call = top]
<1>6. act' = [act EXCEPT ![h] = a]
  BY <1>3, <1>4 DEF EnqueueInsert, FlipInv, TypeOK, N
<1>7. a \in Act /\ a.step = "linking" /\ a.call = top /\ a.log = act[h].log
  <2>1. "linking" \in Step /\ act[h] \in Act
    BY CourseFacts DEF Step
  <2> QED BY <1>4, <2>1 DEF Act
<1> HIDE DEF a
<1>8. /\ act' \in [Handler -> Act] /\ act'[h] = a
      /\ \A g \in Handler \ {h} : act'[g] = act[g]
  BY <1>6, <1>7, Moves DEF FlipInv
<1>9. Of(j)' = Of(j) /\ \A g \in Of(j) : g # h => act'[g] = act[g]
  BY <1>8 DEF Of, JobOf
<1>10. Asked(j)' = Asked(j) \cup {top}
  BY <1>2, <1>5 DEF Asked
<1>11. Held(j)'
  <2>1. \A g \in Of(j) : act[g].step = "linking" => act[g].call \in 1 .. Len(calls'[j])
    BY <1>1, <1>3, <1>5 DEF JobInv, Held
  <2> QED BY <1>1, <1>5, <1>7, <1>8, <1>9, <2>1 DEF JobInv, Held, Owns
<1>12. Apart(j)'
  BY <1>1, <1>7, <1>8, <1>9 DEF JobInv, Apart, Owns
<1>13. Trail(j)'
  <2>1. \A g \in Of(j) : act'[g].step = "logged" => act'[g].log # act[h].log
    BY <1>1, <1>7, <1>8, <1>9 DEF JobInv, Apart, Owns
  <2> QED BY <1>1, <1>9, <2>1 DEF Trail
<1>14. Alone(j)'
  <2>1. j \notin crossed => Asked(j) = {}
    BY <1>1 DEF JobInv, Alone
  <2> QED BY <1>1, <1>7, <1>8, <1>9, <1>10, <2>1 DEF JobInv, Alone, Works
<1>15. Course(h)
  BY <1>1, <1>3, <1>8 DEF Course, FlipInv, TypeOK
<1>16. \A n \in DOMAIN logs'[j] : logs'[j][n].call \in 0 .. Len(calls'[j])
  <2>1. \A n \in DOMAIN logs[j] : logs[j][n].call \in 0 .. Len(calls[j])
    BY CourseFacts
  <2> QED BY <1>1, <1>3, <1>5, <2>1
<1>17. opened \/ \A i \in DOMAIN calls'[j] :
         calls'[j][i].st = "dialled" => calls'[j][i].by = "manual"
  BY <1>2, <1>5, CourseFacts
<1> QED BY <1>11, <1>12, <1>13, <1>14, <1>15, <1>16, <1>17, CourseKeeps DEF JobInv

LEMMA LinkLogKeeps == ASSUME FlipInv, NEW h \in Handler, LinkLog(h) PROVE FlipInv'
<1> PICK j \in Jobs : j = JobOf(h)
  BY CourseFacts
<1>1. /\ act[h].step = "linking" /\ h \in Of(j) /\ JobInv(j) /\ Owns(h) /\ Works(h)
      /\ UNCHANGED <<jobVars, tickVars, calls, setVars, crossed, upsets, declined>>
      /\ act[h].log \in DOMAIN logs[j] /\ act[h].call \in 1 .. Len(calls[j]) /\ Ends(h)
  BY CourseFacts DEF LinkLog, Owns, Works, JobInv, Held
<1>2. Of(j)' = Of(j) /\ Asked(j)' = Asked(j) /\ \A g \in Of(j) : g \in Handler
  BY <1>1 DEF Of, JobOf, Asked
<1> DEFINE rows == [n \in DOMAIN logs[j] |->
                      IF n = act[h].log THEN [logs[j][n] EXCEPT !.call = act[h].call]
                                        ELSE logs[j][n]]
<1>3. \A n \in DOMAIN logs[j] : /\ logs[j][n] \in Log /\ rows[n] \in Log
                                /\ rows[n].out = logs[j][n].out
                                /\ rows[n].call = IF n = act[h].log THEN act[h].call
                                                                    ELSE logs[j][n].call
  <2>1. act[h].call \in Nat
    BY <1>1, RowFacts DEF FlipInv
  <2> TAKE n \in DOMAIN logs[j]
  <2>2. logs[j][n] \in Log
    BY RowFacts DEF FlipInv
  <2>3. rows[n] = IF n = act[h].log THEN [logs[j][n] EXCEPT !.call = act[h].call]
                                    ELSE logs[j][n]
    OBVIOUS
  <2> HIDE DEF rows
  <2> QED BY <2>1, <2>2, <2>3 DEF Log
<1>4. rows \in [DOMAIN logs[j] -> Log]
  BY <1>3
<1>5. rows \in Seq(Log) /\ Len(rows) = Len(logs[j]) /\ DOMAIN rows = DOMAIN logs[j]
  BY <1>4, RowFacts, SameLength DEF FlipInv
<1>6. logs' = [logs EXCEPT ![j] = rows] /\ logs'[j] = rows
  BY DEF LinkLog, FlipInv, TypeOK
<1> HIDE DEF rows
<1>7. /\ act' \in [Handler -> Act] /\ act'[h].step = "idle"
      /\ \A g \in Of(j) : g # h => act'[g] = act[g]
      /\ \A g \in Handler \ {h} : act'[g] = act[g]
  BY <1>1, <1>2, Ending DEF FlipInv
<1>8. Held(j)'
  BY <1>1, <1>2, <1>3, <1>5, <1>6, <1>7 DEF JobInv, Held, Owns
<1>9. Apart(j)'
  BY <1>1, <1>2, <1>7 DEF JobInv, Apart, Owns
<1>10. Trail(j)'
  BY <1>1, <1>2, <1>3, <1>5, <1>6, <1>7 DEF JobInv, Trail
<1>11. Alone(j)'
  <2>1. ASSUME j \notin crossed
        PROVE  /\ \A g \in Of(j) : g # h => ~Works(g)
               /\ \A n \in DOMAIN logs[j] : logs[j][n].call = 0
               /\ \A i, k \in Asked(j) : i = k
    BY <1>1, <2>1 DEF JobInv, Alone
  <2>2. \A g \in Of(j) : Works(g)' => g # h /\ Works(g)
    BY <1>7 DEF Works
  <2>3. ASSUME j \notin crossed
        PROVE  \A m, n \in DOMAIN rows : rows[m].call # 0 /\ rows[m].call = rows[n].call => m = n
    BY <1>3, <1>5, <2>1, <2>3
  <2> QED BY <1>1, <1>2, <1>6, <2>1, <2>2, <2>3 DEF Alone
<1>12. Course(h)
  BY <1>1, <1>5, <1>6, <1>7 DEF Course, FlipInv, TypeOK
<1>13. \A n \in DOMAIN logs'[j] : logs'[j][n].call \in 0 .. Len(calls'[j])
  <2>1. Len(calls[j]) \in Nat /\ act[h].call \in 0 .. Len(calls[j])
    BY <1>1, RowFacts DEF FlipInv
  <2> QED BY <1>1, <1>3, <1>5, <1>6, <2>1, CourseFacts
<1> QED BY <1>1, <1>8, <1>9, <1>10, <1>11, <1>12, <1>13, CourseKeeps, CourseFacts DEF JobInv

-----------------------------------------------------------------------------
(* The theorems.                                                           *)

LEMMA FlipInit == Init => FlipInv
<1> SUFFICES ASSUME Init PROVE FlipInv
  OBVIOUS
<1>1. \A j \in Jobs : /\ calls[j] = <<>> /\ logs[j] = <<>>
                      /\ DOMAIN calls[j] = {} /\ DOMAIN logs[j] = {} /\ Asked(j) = {}
  BY LenProperties, EmptySeq DEF Init, Asked
<1>2. \A h \in Handler : act[h].step = "idle"
  BY DEF Init, Idle
<1>3. \A j \in Jobs : JobInv(j)
  BY <1>1, <1>2 DEF JobInv, Held, Apart, Trail, Alone, Owns, Works, Of
<1>4. TypeOK
  <2>1. act \in [Handler -> Act]
    BY DEF Init, Idle, Act, Step
  <2>2. calls \in [Jobs -> Seq(Call)] /\ logs \in [Jobs -> Seq(Log)]
    BY EmptySeq DEF Init
  <2>3. job \in [Jobs -> {"absent", "pending", "old"}] /\ phone \in [Jobs -> BOOLEAN]
    BY DEF Init
  <2>4. /\ seen \subseteq Handler /\ todo \subseteq Jobs /\ crossed \subseteq Jobs
        /\ declined \subseteq Jobs /\ mode \in Mode /\ upsets \in 0 .. MaxUpsets
    BY BoundAssumption DEF Init, Mode
  <2>5. ticking \in BOOLEAN /\ voice \in BOOLEAN /\ optIn \in BOOLEAN /\ opened \in BOOLEAN
    BY DEF Init
  <2> QED BY <1>1, <2>1, <2>2, <2>3, <2>4, <2>5 DEF TypeOK
<1>5. (optIn => opened) /\ NeverBeforeOptIn
  BY <1>1 DEF Init, NeverBeforeOptIn
<1> QED BY <1>3, <1>4, <1>5 DEF FlipInv

LEMMA FlipNext == FlipInv /\ [Next]_vars => FlipInv'
<1> SUFFICES ASSUME FlipInv, [Next]_vars PROVE FlipInv'
  OBVIOUS
<1>1. ASSUME NEW j \in Jobs,
             \/ Arrive(j) \/ ManualRequest(j) \/ ScriptCall(j)
             \/ TickTake(j) \/ Dispatch(j) \/ CancelCall(j) \/ RequeueCall(j)
      PROVE  FlipInv'
  BY <1>1, ArriveKeeps, ManualRequestKeeps, ScriptCallKeeps, TickTakeKeeps, DispatchKeeps,
     CancelCallKeeps, RequeueCallKeeps
<1>2. ASSUME NEW h \in Handler, Handles(h) \/ Throw(h) PROVE FlipInv'
  BY <1>2, CheckKeeps, ReadPolicyKeeps, EnqueueSelectKeeps, EnqueueInsertKeeps, LinkLogKeeps,
     ThrowKeeps DEF Handles
<1>3. CASE TickStart \/ TickEnd \/ ChangeSettings \/ (\E j \in Jobs : GrowOld(j)) \/ UNCHANGED vars
  BY <1>3, QuietKeeps
<1>4. CASE Crash
  BY <1>4, CrashKeeps
<1> QED BY <1>1, <1>2, <1>3, <1>4 DEF Next

(* The invariant is inductive. *)
THEOREM FlipInductive == Spec => []FlipInv
BY FlipInit, FlipNext, PTL DEF Spec

(* Types. *)
THEOREM FlipTypeCorrect == Spec => []TypeOK
<1>1. FlipInv => TypeOK
  BY DEF FlipInv
<1> QED BY <1>1, FlipInductive, PTL

(* The three handlers make one customer call per job, unless two of them met. *)
THEOREM CustomerCalledOnce == Spec => []OneCallPerJob
<1>1. ASSUME FlipInv, NEW j \in Jobs \ crossed PROVE Cardinality(Asked(j)) <= 1
  <2>1. \A i, k \in Asked(j) : i = k
    BY <1>1 DEF FlipInv, JobInv, Alone
  <2>2. CASE Asked(j) = {}
    BY <2>2, FS_EmptySet
  <2>3. CASE Asked(j) # {}
    <3>1. PICK i : Asked(j) = {i}
      BY <2>1, <2>3
    <3>2. Cardinality(Asked(j)) = 1
      BY <3>1, FS_Singleton
    <3> QED BY <3>2
  <2> QED BY <2>2, <2>3
<1>2. FlipInv => OneCallPerJob
  BY <1>1 DEF OneCallPerJob
<1> QED BY <1>2, FlipInductive, PTL

(* No call without a log that was written before it and not closed since. *)
THEOREM CallsHaveTrail == Spec => []TrailBeforeCall
<1>1. FlipInv => TrailBeforeCall
  BY DEF FlipInv, JobInv, Trail, TrailBeforeCall
<1> QED BY <1>1, FlipInductive, PTL

(* No call is linked to two logs, unless two handlers met. *)
THEOREM CallsCountOnce == Spec => []OneLogPerCall
<1>1. FlipInv => OneLogPerCall
  BY DEF FlipInv, JobInv, Alone, OneLogPerCall
<1> QED BY <1>1, FlipInductive, PTL

(* No automatic call is dialled before the first opt-in. *)
THEOREM OptInComesFirst == Spec => []NeverBeforeOptIn
<1>1. FlipInv => NeverBeforeOptIn
  BY DEF FlipInv
<1> QED BY <1>1, FlipInductive, PTL
=============================================================================
