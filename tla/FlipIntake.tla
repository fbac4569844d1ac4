------------------------------ MODULE FlipIntake ------------------------------
(***************************************************************************)
(* From a job on the dispatch board to a row of outbound_calls             *)
(* (modules/flip-engine).  Three handlers can ask for the customer call of *)
(* one job: the welcome handler that upsertJob starts without waiting for  *)
(* it, the tick that scans the fresh jobs every minute, and the operator's *)
(* button.  All three look for an earlier call, read the tenant's policy,  *)
(* write a call log, enqueue and link the log to the call, with an await   *)
(* between any two of these; `act' holds each handler between its awaits.  *)
(* A fourth, the operator's scripted call, asks for no deduplication.      *)
(*                                                                         *)
(* The jobs of the model come from one integration.  What happens to a     *)
(* call after the dispatcher picked it up is module OutboundCall.          *)
(***************************************************************************)
EXTENDS Integers, Sequences, FiniteSets

CONSTANTS
  Jobs,        \* rows of unified_jobs
  TickEnabled, \* OUTBOUND_FLIP_ENGINE_ENABLED and the tenant's flip engine
  MaxUpsets    \* bound: restarts, handlers that throw, operator requests and
               \* changes of the tenant's settings, taken together

ASSUME BoundAssumption == MaxUpsets \in Nat /\ TickEnabled \in BOOLEAN

Kind    == {"welcome", "tick", "manual"}
Handler == Kind \X Jobs
Mode    == {"AUTO", "MANUAL_ONLY", "OFF"}

VARIABLES
  job,     \* [Jobs -> the row: absent, pending (fresh, not yet served), old]
  phone,   \* [Jobs -> whether the row has a caller phone]
  seen,    \* the in-memory marks
  ticking, \* the `running' flag of the tick
  todo,    \* jobs the running tick has still to look at
  act,     \* [Handler -> where the handler waits]
  calls,   \* [Jobs -> the outbound_calls with this relatedJobId, oldest first]
  logs,    \* [Jobs -> the outbound_call_logs written for the job]
  voice, mode, optIn,   \* the tenant's settings
  crossed, \* history: jobs that two handlers worked on at once
  declined, \* history: jobs the tick turned down, or failed on
  opened,  \* history: the integration has been opted in at some time
  upsets

jobVars  == <<job, phone>>
tickVars == <<seen, ticking, todo>>
setVars  == <<voice, mode, optIn, opened>>
vars == <<jobVars, tickVars, act, calls, logs, setVars, crossed, declined, upsets>>

Step == {"idle", "start", "checked", "logged", "inserting", "linking"}
Act  == [step : Step, log : Nat, call : Nat]
Idle == [step |-> "idle", log |-> 0, call |-> 0]

Call == [by : Kind \cup {"script"}, st : {"queued", "dialled", "cancelled"}]
Log  == [out : {"open", "not_attempted", "enqueue_failed"}, call : Nat]

TypeOK ==
  /\ job \in [Jobs -> {"absent", "pending", "old"}]
  /\ phone \in [Jobs -> BOOLEAN]
  /\ seen \subseteq Handler
  /\ ticking \in BOOLEAN /\ todo \subseteq Jobs
  /\ act \in [Handler -> Act]
  /\ calls \in [Jobs -> Seq(Call)]
  /\ logs \in [Jobs -> Seq(Log)]
  /\ voice \in BOOLEAN /\ mode \in Mode /\ optIn \in BOOLEAN /\ opened \in BOOLEAN
  /\ crossed \subseteq Jobs /\ declined \subseteq Jobs
  /\ upsets \in 0 .. MaxUpsets
  \* every link points to a row that exists
  /\ \A j \in Jobs : \A n \in DOMAIN logs[j] : logs[j][n].call \in 0 .. Len(calls[j])

Init ==
  /\ job = [j \in Jobs |-> "absent"] /\ phone = [j \in Jobs |-> FALSE]
  /\ seen = {} /\ ticking = FALSE /\ todo = {}
  /\ act = [h \in Handler |-> Idle]
  /\ calls = [j \in Jobs |-> <<>>] /\ logs = [j \in Jobs |-> <<>>]
  /\ voice = TRUE /\ mode = "AUTO" /\ optIn \in BOOLEAN /\ opened = optIn
  /\ crossed = {} /\ declined = {}
  /\ upsets = 0

Upset         == upsets < MaxUpsets /\ upsets' = upsets + 1
JobOf(h)      == h[2]
Automatic(h)  == h[1] # "manual"
Busy(h)       == act[h].step # "idle"
Goes(h, step) == act' = [act EXCEPT ![h].step = step]
Ends(h)       == act' = [act EXCEPT ![h] = Idle]

\* The handler takes the job on, perhaps while another one has it.
Crosses(h) ==
  crossed' = IF \E g \in Handler \ {h} : JobOf(g) = JobOf(h)
                                         /\ act[g].step \notin {"idle", "start"}
             THEN crossed \cup {JobOf(h)} ELSE crossed

-----------------------------------------------------------------------------
(* Entry points.                                                           *)

\* The poller upserts a job the board shows for the first time.
Arrive(j) ==
  /\ job[j] = "absent"
  /\ job' = [job EXCEPT ![j] = "pending"]
  /\ \E p \in BOOLEAN : phone' = [phone EXCEPT ![j] = p]
  /\ act' = [act EXCEPT ![<<"welcome", j>>].step = "start"]
  /\ UNCHANGED <<tickVars, calls, logs, setVars, crossed, upsets, declined>>

\* "Call the customer" with the automatic script.
ManualRequest(j) ==
  /\ Upset
  /\ job[j] # "absent" /\ phone[j] /\ ~Busy(<<"manual", j>>)
  /\ Goes(<<"manual", j>>, "start")
  /\ UNCHANGED <<jobVars, tickVars, calls, logs, setVars, crossed, declined>>

\* Variant: the handler relies on the deduplication of enqueueCall.
NoDedup(j) == FALSE

\* A custom call exists for the job, whatever became of it.
Called(j) == Len(calls[j]) > 0

\* Start of handleNewlyCreatedJob, up to the deduplication.
Check(h) ==
  LET j == JobOf(h)
      mark == {<<"welcome", j>>}
      shut == Automatic(h) /\ (h \in seen \/ ~optIn)
      turnedAway == ~phone[j] \/ Called(j)
  IN
  /\ act[h].step = "start"
  /\ \/ /\ shut
        /\ Ends(h) /\ UNCHANGED <<seen, crossed>>
     \/ /\ ~shut /\ turnedAway
        /\ seen' = IF Automatic(h) \/ Called(j) THEN seen \cup mark ELSE seen
        /\ Ends(h) /\ UNCHANGED crossed
     \/ /\ ~shut /\ ~turnedAway
        /\ seen' = IF Automatic(h) THEN seen \cup mark ELSE seen
        /\ Goes(h, "checked") /\ Crosses(h)
  /\ UNCHANGED <<jobVars, ticking, todo, calls, logs, setVars, upsets, declined>>

\* The pending feed: fresh, not yet served, with a phone.
Pending == {j \in Jobs : job[j] = "pending" /\ phone[j]}

TickStart ==
  /\ TickEnabled /\ ~ticking
  /\ ticking' = TRUE /\ todo' = Pending
  /\ UNCHANGED <<jobVars, seen, act, calls, logs, setVars, crossed, upsets, declined>>

\* The jobs of a tick are handled one after the other.
Waiting == \A j \in Jobs : ~Busy(<<"tick", j>>)

TickTake(j) ==
  LET h == <<"tick", j>> IN
  /\ ticking /\ Waiting /\ j \in todo
  /\ todo' = todo \ {j} /\ seen' = seen \cup {h}
  /\ IF h \in seen \/ Called(j)
     THEN UNCHANGED <<act, crossed>>
     ELSE Goes(h, "checked") /\ Crosses(h)
  /\ UNCHANGED <<jobVars, ticking, calls, logs, setVars, upsets, declined>>

\* The flag is released and marks older than six hours may be dropped.
TickEnd ==
  /\ ticking /\ Waiting /\ todo = {}
  /\ ticking' = FALSE
  /\ \E gone \in SUBSET {j \in Jobs : job[j] = "old"} :
       seen' = {h \in seen : JobOf(h) \notin gone}
  /\ UNCHANGED <<jobVars, todo, act, calls, logs, setVars, crossed, upsets, declined>>

-----------------------------------------------------------------------------
(* The common course of a handler.                                         *)

Permitted(h) ==
  CASE h[1] = "tick"    -> mode = "AUTO"
    [] h[1] = "welcome" -> voice /\ mode = "AUTO"
    [] h[1] = "manual"  -> voice /\ mode # "OFF"

NotAttempted == [out |-> "not_attempted", call |-> 0]
Opened       == [out |-> "open", call |-> 0]

\* Variant: the call is enqueued before there is a trail.
WriteLogLate(h) == Goes(h, "inserting") /\ UNCHANGED logs

\* The log row, written before the call is enqueued.  (Nothing is read between
\* the policy and this INSERT, so the two are one step here.)
WriteLog(h) ==
  /\ logs' = [logs EXCEPT ![JobOf(h)] = Append(@, Opened)]
  /\ act' = [act EXCEPT ![h].step = "logged", ![h].log = Len(logs'[JobOf(h)])]

\* The tick has looked at the job and will not look again.
Declines(h) == declined' = IF h[1] = "tick" THEN declined \cup {JobOf(h)} ELSE declined

\* The tenant, the policy, and whether the number is a business line.
ReadPolicy(h) ==
  /\ act[h].step = "checked"
  /\ \/ Permitted(h) /\ WriteLog(h) /\ UNCHANGED declined
     \/ ~Permitted(h) /\ Ends(h) /\ Declines(h) /\ UNCHANGED logs
     \/ /\ Automatic(h) /\ (h[1] = "tick" \/ Permitted(h))
        /\ logs' = [logs EXCEPT ![JobOf(h)] = Append(@, NotAttempted)]
        /\ Ends(h) /\ UNCHANGED declined
  /\ UNCHANGED <<jobVars, tickVars, calls, setVars, crossed, upsets>>

\* The handler throws before it enqueues: the tick keeps its mark, the welcome
\* handler drops its own, the operator gets the error.
Throw(h) ==
  /\ Upset
  /\ act[h].step = "checked"
  /\ seen' = IF h[1] = "welcome" THEN seen \ {h} ELSE seen
  /\ Ends(h) /\ Declines(h)
  /\ UNCHANGED <<jobVars, ticking, todo, calls, logs, setVars, crossed>>

\* The calls enqueueCall deduplicates against.  It takes the one created last;
\* RequeueCall renews the date of any, so the model takes any of them.
Standing(j) == {i \in DOMAIN calls[j] : calls[j][i].st # "cancelled"}

EnqueueSelect(h) ==
  LET j == JobOf(h) IN
  /\ act[h].step = "logged"
  /\ \/ /\ ~voice
        /\ logs' = [logs EXCEPT ![j][act[h].log].out = "enqueue_failed"]
        /\ Ends(h)
     \/ /\ voice /\ Standing(j) = {} /\ Goes(h, "inserting") /\ UNCHANGED logs
     \/ /\ voice /\ Standing(j) # {}
        /\ \E i \in Standing(j) :
             act' = [act EXCEPT ![h].step = "linking", ![h].call = i]
        /\ UNCHANGED logs
  /\ UNCHANGED <<jobVars, tickVars, calls, setVars, crossed, upsets, declined>>

Queued(by) == [by |-> by, st |-> "queued"]

\* Variant: the log is linked although the INSERT was rolled back.
EnqueueInsertLost(h) ==
  /\ act[h].step = "inserting"
  /\ act' = [act EXCEPT ![h].step = "linking", ![h].call = Len(calls[JobOf(h)]) + 1]
  /\ UNCHANGED <<jobVars, tickVars, calls, logs, setVars, crossed, upsets, declined>>

EnqueueInsert(h) ==
  /\ act[h].step = "inserting"
  /\ calls' = [calls EXCEPT ![JobOf(h)] = Append(@, Queued(h[1]))]
  /\ act' = [act EXCEPT ![h].step = "linking", ![h].call = Len(calls'[JobOf(h)])]
  /\ UNCHANGED <<jobVars, tickVars, logs, setVars, crossed, upsets, declined>>

LinkLog(h) ==
  /\ act[h].step = "linking"
  /\ logs' = [logs EXCEPT ![JobOf(h)] =
                [n \in DOMAIN @ |-> IF n = act[h].log THEN [@[n] EXCEPT !.call = act[h].call]
                                                      ELSE @[n]]]
  /\ Ends(h)
  /\ UNCHANGED <<jobVars, tickVars, calls, setVars, crossed, upsets, declined>>

\* An operator's call with a fixed script: no log, no deduplication.
ScriptCall(j) ==
  /\ Upset
  /\ job[j] # "absent" /\ phone[j] /\ voice /\ mode # "OFF"
  /\ calls' = [calls EXCEPT ![j] = Append(@, Queued("script"))]
  /\ UNCHANGED <<jobVars, tickVars, act, logs, setVars, crossed, declined>>

-----------------------------------------------------------------------------
(* The dispatcher, the operator and the clock.                             *)

\* Variant: the integration's switch is not looked at again before the dial.
SourceOpenUnchecked(c) == TRUE

\* Only the welcome handler's automatic:false call is known to be an operator's.
SourceOpen(c) == c.by = "manual" \/ optIn

Dispatch(j) ==
  /\ voice
  /\ \E i \in DOMAIN calls[j] :
       /\ calls[j][i].st = "queued"
       /\ calls' = [calls EXCEPT ![j][i].st =
                      IF SourceOpen(calls[j][i]) THEN "dialled" ELSE "cancelled"]
  /\ UNCHANGED <<jobVars, tickVars, act, logs, setVars, crossed, upsets, declined>>

\* An operator cancels a call that waits, or was dialled and is not over yet.
CancelCall(j) ==
  /\ Upset
  /\ \E i \in DOMAIN calls[j] :
       /\ calls[j][i].st # "cancelled"
       /\ calls' = [calls EXCEPT ![j][i].st = "cancelled"]
  /\ UNCHANGED <<jobVars, tickVars, act, logs, setVars, crossed, declined>>

\* An operator retries a call that is over or was cancelled: the same row waits again.
RequeueCall(j) ==
  /\ Upset
  /\ \E i \in DOMAIN calls[j] :
       /\ calls[j][i].st # "queued"
       /\ calls' = [calls EXCEPT ![j][i].st = "queued"]
  /\ UNCHANGED <<jobVars, tickVars, act, logs, setVars, crossed, declined>>

ChangeSettings ==
  /\ Upset
  /\ \/ voice' = ~voice /\ UNCHANGED <<mode, optIn>>
     \/ mode' \in Mode \ {mode} /\ UNCHANGED <<voice, optIn>>
     \/ optIn' = ~optIn /\ UNCHANGED <<voice, mode>>
  /\ opened' = (opened \/ optIn')
  /\ UNCHANGED <<jobVars, tickVars, act, calls, logs, crossed, declined>>

\* Fifteen minutes pass, or the truck arrives.
GrowOld(j) ==
  /\ job[j] = "pending"
  /\ job' = [job EXCEPT ![j] = "old"]
  /\ UNCHANGED <<phone, tickVars, act, calls, logs, setVars, crossed, upsets, declined>>

\* Variant: the marks outlive the process.
Marks == seen

Remembered == {}

Crash ==
  /\ Upset
  /\ seen' = Remembered /\ ticking' = FALSE /\ todo' = {}
  /\ act' = [h \in Handler |-> Idle]
  /\ UNCHANGED <<jobVars, calls, logs, setVars, crossed, declined>>

-----------------------------------------------------------------------------
Handles(h) ==
  \/ Check(h) \/ ReadPolicy(h)
  \/ EnqueueSelect(h) \/ EnqueueInsert(h) \/ LinkLog(h)

Next ==
  \/ \E j \in Jobs : \/ Arrive(j) \/ ManualRequest(j) \/ ScriptCall(j)
                     \/ TickTake(j) \/ Dispatch(j) \/ GrowOld(j)
                     \/ CancelCall(j) \/ RequeueCall(j)
  \/ \E h \in Handler : Handles(h) \/ Throw(h)
  \/ TickStart \/ TickEnd \/ ChangeSettings \/ Crash

Spec == Init /\ [][Next]_vars

\* Node runs every pending continuation; the cron fires every minute.
FairSpec ==
  /\ Spec
  /\ \A h \in Handler : WF_vars(Handles(h))
  /\ \A j \in Jobs : WF_vars(TickTake(j))
  /\ WF_vars(TickStart) /\ WF_vars(TickEnd)

-----------------------------------------------------------------------------
\* The calls the three deduplicating handlers made for a job.
Asked(j) == {i \in DOMAIN calls[j] : calls[j][i].by # "script"}

(* A job gets one customer call, across restarts, forgotten marks, cancelled
   calls and all three entry points, unless two of them worked on it at the
   same time: the two SELECTs (one includes cancelled calls, the other does
   not) keep every later handler out. *)
OneCallPerJob ==
  \A j \in Jobs \ crossed : Cardinality(Asked(j)) <= 1

(* A call that an orchestrator handler enqueued has a trail: a call log that
   was written for its job before it, even if the process died in between. *)
TrailBeforeCall ==
  \A j \in Jobs : \A i \in Asked(j) : \E n \in DOMAIN logs[j] : logs[j][n].out = "open"

(* No call is counted twice in the reports: unless two handlers met, at most
   one log is linked to any call. *)
OneLogPerCall ==
  \A j \in Jobs \ crossed :
    \A m, n \in DOMAIN logs[j] :
      logs[j][m].call # 0 /\ logs[j][m].call = logs[j][n].call => m = n

(* As long as the tenant has never opted the integration in, no customer is
   called automatically, although the tick does not look at the switch. *)
NeverBeforeOptIn ==
  opened \/ \A j \in Jobs : \A i \in DOMAIN calls[j] :
              calls[j][i].st = "dialled" => calls[j][i].by = "manual"

Wanted(j)  == job[j] = "pending" /\ phone[j] /\ voice /\ mode = "AUTO"

(* Crash recovery: a job that stays on the board gets its call or its log in
   the end, though every mark, every handler and the running tick are lost in
   a restart -- unless a tick has turned it down, or thrown, and marked it. *)
JobIsServed ==
  \A j \in Jobs :
    Wanted(j) ~> (Called(j) \/ Len(logs[j]) > 0 \/ ~Wanted(j) \/ j \in declined)
=============================================================================
