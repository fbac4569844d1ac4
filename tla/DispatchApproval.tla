-------------------------- MODULE DispatchApproval --------------------------
(***************************************************************************)
(* Who decides about a motor-club job.  The rules engine records a         *)
(* decision for every new job (digital-dispatch); a sweep asks the         *)
(* managers by text message about the flagged ones; a reply, or the admin  *)
(* page, accepts or declines the job on the portal and closes the request; *)
(* unanswered requests expire (flip-accept).                               *)
(*                                                                         *)
(* The sweep and the handlers of replies read, await, and write what they  *)
(* read; the click on the portal, a browser session, lies in between.      *)
(***************************************************************************)
EXTENDS Integers, Sequences, FiniteSets

CONSTANTS
  Jobs,        \* jobs the rules engine is started for
  Owner,       \* [Jobs -> the tenant the job belongs to]
  MaxRequests, \* bound: approval requests, over all jobs
  MaxUpsets    \* bound: replies, overrides, API requests, restarts

ASSUME BoundAssumption == MaxRequests \in Nat /\ MaxUpsets \in Nat

Action   == {"accept", "decline", "flag"}    \* what a rule may be stored with
Decision == Action \cup {"accepted", "declined", "flagged"}
Answer   == {"accept", "decline"}
Sweep    == {"sweep1", "sweep2"}
Handler  == {"reply1", "reply2"}
Tenant   == {Owner[j] : j \in Jobs}

VARIABLES
  job,      \* [Jobs -> absent, new, done (its completed_at is set)]
  matched,  \* [Jobs -> the action of the first matching rule, "none" without one]
  engine,   \* [Jobs -> where evaluateForJob waits]
  decision, \* [Jobs -> the recorded decision, "none" before]
  recent,   \* [Jobs -> the decision is younger than fifteen minutes]
  portal,   \* [Jobs -> open, accepted, declined on the motor club's portal]
  reqs,     \* the approval requests, oldest first
  sweep,    \* [Sweep -> jobs it selected and has still to ask about]
  act,      \* [Handler -> the reply it works on]
  crossed,  \* history: jobs asked about by two senders at once
  raced,    \* history: requests answered by two handlers at once
  lost,     \* history: requests whose answer was lost in a restart
  upsets

jobVars == <<job, matched, engine, decision, recent>>
vars == <<jobVars, portal, reqs, sweep, act, crossed, raced, lost, upsets>>

Nobody  == [req |-> 0, answer |-> "accept", step |-> "idle"]
Request == [job : Jobs, late : BOOLEAN, answers : 0 .. 2,
            st : {"pending", "approved", "auto_dispatched", "declined", "expired"}]

TypeOK ==
  /\ job \in [Jobs -> {"absent", "new", "done"}]
  /\ matched \in [Jobs -> Action \cup {"none"}]
  /\ engine \in [Jobs -> {"idle", "evaluating", "recording"}]
  /\ decision \in [Jobs -> Decision \cup {"none"}]
  /\ recent \in [Jobs -> BOOLEAN]
  /\ portal \in [Jobs -> {"open", "accepted", "declined"}]
  /\ reqs \in Seq(Request) /\ Len(reqs) <= MaxRequests
  /\ sweep \in [Sweep -> SUBSET Jobs]
  /\ act \in [Handler -> [req : 0 .. Len(reqs), answer : Answer,
                          step : {"idle", "click", "clicked", "failed"}]]
  /\ crossed \subseteq Jobs /\ raced \subseteq DOMAIN reqs
  /\ lost \subseteq DOMAIN reqs
  /\ upsets \in 0 .. MaxUpsets

Init ==
  /\ job = [j \in Jobs |-> "absent"] /\ matched = [j \in Jobs |-> "none"]
  /\ engine = [j \in Jobs |-> "idle"] /\ decision = [j \in Jobs |-> "none"]
  /\ recent = [j \in Jobs |-> FALSE] /\ portal = [j \in Jobs |-> "open"]
  /\ reqs = <<>> /\ sweep = [s \in Sweep |-> {}] /\ act = [h \in Handler |-> Nobody]
  /\ crossed = {} /\ raced = {} /\ lost = {} /\ upsets = 0

Upset == upsets < MaxUpsets /\ upsets' = upsets + 1

-----------------------------------------------------------------------------
(* The rules engine.                                                       *)

\* The poller creates the row; some rule matches the job, or none.
Arrive(j) ==
  /\ job[j] = "absent"
  /\ job' = [job EXCEPT ![j] = "new"]
  /\ \E a \in Action \cup {"none"} : matched' = [matched EXCEPT ![j] = a]
  /\ engine' = [engine EXCEPT ![j] = "evaluating"]
  /\ UNCHANGED <<decision, recent, portal, reqs, sweep, act, crossed, raced, upsets, lost>>

\* The action of the rule is recorded as it is stored, not as a decision.
Verdict(j) == IF matched[j] = "none" THEN "flagged" ELSE matched[j]

EngineDecide(j) ==
  /\ engine[j] = "evaluating"
  /\ decision' = [decision EXCEPT ![j] = Verdict(j)]
  /\ recent' = [recent EXCEPT ![j] = TRUE]
  /\ engine' = [engine EXCEPT ![j] = "recording"]
  /\ UNCHANGED <<job, matched, portal, reqs, sweep, act, crossed, raced, upsets, lost>>

\* recordAutoDecision, and the click that only "accepted" and "declined" get.
EngineRecord(j) ==
  /\ engine[j] = "recording" /\ engine' = [engine EXCEPT ![j] = "idle"]
  /\ job' = IF decision[j] = "declined" THEN [job EXCEPT ![j] = "done"] ELSE job
  /\ portal' = IF decision[j] \in {"accepted", "declined"} /\ portal[j] = "open"
               THEN [portal EXCEPT ![j] = decision[j]] ELSE portal
  /\ UNCHANGED <<matched, decision, recent, reqs, sweep, act, crossed, raced, upsets, lost>>

-----------------------------------------------------------------------------
(* Asking the managers.                                                    *)

Asked(j) == \E r \in DOMAIN reqs : reqs[r].job = j

\* Variant: only the jobs that a "flag" rule matched.
ToAskMatched == {j \in Jobs : /\ decision[j] = "flagged" /\ matched[j] = "flag"
                              /\ recent[j] /\ ~Asked(j) /\ job[j] # "done"}

\* Variant: the sweep looks for requests that still wait.
ToAskPending == {j \in Jobs : /\ decision[j] = "flagged" /\ recent[j] /\ job[j] # "done"
                              /\ ~ \E r \in DOMAIN reqs :
                                     reqs[r].job = j /\ reqs[r].st = "pending"}

ToAsk == {j \in Jobs : decision[j] = "flagged" /\ recent[j] /\ ~Asked(j) /\ job[j] # "done"}

\* Two senders ask about the same job.
Others(s, asked) == {j \in asked : \E t \in Sweep \ {s} : j \in sweep[t]}

SweepStart(s) ==
  /\ sweep[s] = {} /\ ToAsk # {}
  /\ s = "sweep2" => sweep["sweep1"] # {}   \* the slots have no identity
  /\ sweep' = [sweep EXCEPT ![s] = ToAsk]
  /\ crossed' = crossed \cup Others(s, ToAsk)
  /\ UNCHANGED <<jobVars, portal, reqs, act, raced, upsets, lost>>

Pending(j) == [job |-> j, late |-> FALSE, answers |-> 0, st |-> "pending"]

\* createRequest; a failure is logged and the sweep goes on to the next job.
SweepAsk(s, j) ==
  /\ j \in sweep[s]
  /\ sweep' = [sweep EXCEPT ![s] = @ \ {j}]
  /\ \/ /\ Len(reqs) < MaxRequests
        /\ reqs' = Append(reqs, Pending(j)) /\ UNCHANGED upsets
     \/ Upset /\ UNCHANGED reqs
  /\ UNCHANGED <<jobVars, portal, act, crossed, raced, lost>>

\* POST /v1/flip-accept/request: nothing is looked up first.
ApiRequest(j) ==
  /\ Upset /\ Len(reqs) < MaxRequests /\ job[j] # "absent"
  /\ reqs' = Append(reqs, Pending(j))
  /\ crossed' = crossed \cup {j}
  /\ UNCHANGED <<jobVars, portal, sweep, act, raced, lost>>

-----------------------------------------------------------------------------
(* Answers.                                                                *)

\* Variant: the request is found by its job, whatever its status.
PickableAny == DOMAIN reqs

Pickable == {r \in DOMAIN reqs : reqs[r].st = "pending"}

Newest(rows) == {r \in rows : \A q \in rows : q <= r}

\* The newest pending request of the sender's tenant, else of anybody.
Candidate(tenant) ==
  LET own == {r \in Pickable : Owner[reqs[r].job] = tenant}
  IN  IF own # {} THEN Newest(own) ELSE Newest(Pickable)

Takes(h, r, answer) ==
  /\ act[h].step = "idle"
  /\ h = "reply2" => act["reply1"].step # "idle"
  /\ act' = [act EXCEPT ![h] = [req |-> r, answer |-> answer, step |-> "click"]]
  /\ raced' = IF \E g \in Handler : act[g].req = r THEN raced \cup {r} ELSE raced

\* A text message: from a manager of the tenant, or from an unknown number.
Reply(h, tenant, answer) ==
  /\ Upset
  /\ \E r \in Candidate(tenant) : Takes(h, r, answer)
  /\ UNCHANGED <<jobVars, portal, reqs, sweep, crossed, lost>>

\* The admin page names the request; only a pending one may be overridden.
Override(h, r, answer) ==
  /\ Upset /\ r \in Pickable /\ Takes(h, r, answer)
  /\ UNCHANGED <<jobVars, portal, reqs, sweep, crossed, lost>>

JobOf(h) == reqs[act[h].req].job

\* The portal takes the first click at most, and what the adapter reports does not
\* follow from what the portal did: a dialog whose button is missing or fails to be
\* clicked is passed over and reported as success, a session that ends after the
\* click as failure.
Click(h) ==
  LET j == JobOf(h) IN
  /\ act[h].step = "click"
  /\ \E s \in {"clicked", "failed"} : act' = [act EXCEPT ![h].step = s]
  /\ \/ /\ portal[j] = "open"
        /\ portal' = [portal EXCEPT ![j] = IF act[h].answer = "accept" THEN "accepted"
                                                                       ELSE "declined"]
     \/ UNCHANGED portal
  /\ UNCHANGED <<jobVars, reqs, sweep, crossed, raced, upsets, lost>>

\* Variant: the answer is stored as it was parsed.
OutcomeRaw(h) == act[h].answer

Outcome(h) ==
  CASE act[h].answer = "decline" -> "declined"
    [] act[h].answer = "accept" /\ act[h].step = "clicked" -> "auto_dispatched"
    [] OTHER -> "approved"

\* UPDATE by id, whatever the status has become meanwhile.
Answered(h) ==
  /\ act[h].step \in {"clicked", "failed"}
  /\ reqs' = [reqs EXCEPT ![act[h].req].st = Outcome(h),
                          ![act[h].req].answers = @ + 1]
  /\ act' = [act EXCEPT ![h] = Nobody]
  /\ UNCHANGED <<jobVars, portal, sweep, crossed, raced, upsets, lost>>

-----------------------------------------------------------------------------
(* The clocks, the other writers of the job, restarts.                     *)

TurnLate(r) ==
  /\ r \in DOMAIN reqs /\ ~reqs[r].late
  /\ reqs' = [reqs EXCEPT ![r].late = TRUE]
  /\ UNCHANGED <<jobVars, portal, sweep, act, crossed, raced, upsets, lost>>

\* Variant: only requests whose job is still open expire.
OverdueOpen == {r \in Pickable : reqs[r].late /\ job[reqs[r].job] # "done"}

\* Variant: the UPDATE does not look at the status.
OverdueAny == {r \in DOMAIN reqs : reqs[r].late}

Overdue == {r \in Pickable : reqs[r].late}

\* One UPDATE for all overdue requests.
Expire ==
  /\ Overdue # {}
  /\ reqs' = [r \in DOMAIN reqs |->
                IF r \in Overdue THEN [reqs[r] EXCEPT !.st = "expired"] ELSE reqs[r]]
  /\ UNCHANGED <<jobVars, portal, sweep, act, crossed, raced, upsets, lost>>

TurnOld(j) ==
  /\ recent[j] /\ recent' = [recent EXCEPT ![j] = FALSE]
  /\ UNCHANGED <<job, matched, engine, decision, portal, reqs, sweep, act, crossed, raced, upsets, lost>>

\* An operator, or the clean-up of another source, ends the job.
Finish(j) ==
  /\ job[j] = "new" /\ job' = [job EXCEPT ![j] = "done"]
  /\ UNCHANGED <<matched, engine, decision, recent, portal, reqs, sweep, act, crossed, raced, upsets, lost>>

Crash ==
  /\ Upset
  /\ engine' = [j \in Jobs |-> "idle"]
  /\ sweep' = [s \in Sweep |-> {}] /\ act' = [h \in Handler |-> Nobody]
  /\ lost' = lost \cup {act[h].req : h \in {g \in Handler : act[g].step # "idle"}}
  /\ UNCHANGED <<job, matched, decision, recent, portal, reqs, crossed, raced>>

-----------------------------------------------------------------------------
Next ==
  \/ \E j \in Jobs : \/ Arrive(j) \/ EngineDecide(j) \/ EngineRecord(j)
                     \/ ApiRequest(j) \/ TurnOld(j) \/ Finish(j)
  \/ \E s \in Sweep : SweepStart(s) \/ \E j \in Jobs : SweepAsk(s, j)
  \/ \E h \in Handler : \/ \E a \in Answer, t \in Tenant \cup {"unknown"} : Reply(h, t, a)
                        \/ \E a \in Answer, r \in DOMAIN reqs : Override(h, r, a)
                        \/ Click(h) \/ Answered(h)
  \/ \E r \in DOMAIN reqs : TurnLate(r)
  \/ Expire \/ Crash

Spec == Init /\ [][Next]_vars

\* The sweeps run every thirty seconds, awaits settle, five minutes pass.
FairSpec ==
  /\ Spec
  /\ \A s \in Sweep : WF_vars(SweepStart(s))
                      /\ WF_vars(\E j \in Jobs : SweepAsk(s, j))
  /\ \A h \in Handler : WF_vars(Click(h) \/ Answered(h))
  /\ \A r \in 1 .. MaxRequests : WF_vars(TurnLate(r))
  /\ WF_vars(Expire)

-----------------------------------------------------------------------------
(* The managers are asked once about a job, whatever became of the first
   request, unless two sweeps (or a sweep and the API) selected it at once. *)
AskedOnce ==
  \A j \in Jobs \ crossed : Cardinality({r \in DOMAIN reqs : reqs[r].job = j}) <= 1

(* A request is answered once, by text message or on the admin page, unless two
   handlers had read it as pending at the same time. *)
AnsweredOnce == \A r \in DOMAIN reqs \ raced : reqs[r].answers <= 1

Busy(r) == \E h \in Handler : act[h].req = r

(* An acceptance that the portal took is on record once its handler has written,
   though the request expired while the click was going on -- unless the job had
   two requests, the request two handlers, or a restart lost an earlier answer. *)
AcceptanceIsRecorded ==
  \A r \in DOMAIN reqs \ (raced \cup lost) :
    portal[reqs[r].job] = "accepted" /\ reqs[r].job \notin crossed /\ ~Busy(r)
      => reqs[r].st \in {"approved", "auto_dispatched"}

(* A job whose request is recorded as declined was not accepted on the portal,
   though the outcome of that click is not looked at -- unless the job had two
   requests, the request two handlers, or a restart lost an earlier answer. *)
DeclinedNotAccepted ==
  \A r \in DOMAIN reqs \ (raced \cup lost) :
    reqs[r].st = "declined" /\ reqs[r].job \notin crossed
      => portal[reqs[r].job] # "accepted"

(* What the managers are told of all this: ApprovalDesk.  A handler whose click is
   over has decided, though its UPDATE is still to come. *)
Decided(h, r) == act[h].req = r /\ act[h].step \in {"clicked", "failed"}

Word(r) == IF Decided("reply1", r) THEN Outcome("reply1")
           ELSE IF Decided("reply2", r) THEN Outcome("reply2") ELSE reqs[r].st

Told(r) == IF r \notin DOMAIN reqs THEN "unasked"
           ELSE IF r \in raced \cup lost THEN "unknown" ELSE Word(r)

About(r) == IF r \in DOMAIN reqs THEN reqs[r].job ELSE "nothing"

Desk == INSTANCE ApprovalDesk WITH
  Requests <- 1 .. MaxRequests,
  about    <- [r \in 1 .. MaxRequests |-> About(r)],
  verdict  <- [r \in 1 .. MaxRequests |-> Told(r)]

(* An answer and its click on the portal are one step, and final: no expiry, no
   other handler and no other request undoes it, and a late answer beats the
   expiry -- unless two handlers met on the request, or a restart cut one off. *)
AnswersActAtomically == Desk!Spec

(* Every request is closed in the end, though its answers are lost in restarts
   and its handlers write in any order. *)
RequestsClose ==
  \A r \in 1 .. MaxRequests :
    (r \in DOMAIN reqs /\ reqs[r].st = "pending")
      ~> (r \in DOMAIN reqs /\ reqs[r].st # "pending")

(* A flagged job is put to the managers, across failed sweeps and restarts, as
   long as it is open and its decision is recent. *)
FlaggedIsAsked ==
  \A j \in Jobs :
    decision[j] = "flagged" ~> (Asked(j) \/ ~recent[j] \/ job[j] = "done"
                                \/ Len(reqs) = MaxRequests)

(* A matching "accept" rule accepts: the decision is recorded as accepted. *)
RuleAccepts ==
  \A j \in Jobs :
    matched[j] = "accept" /\ decision[j] # "none" => decision[j] = "accepted"
=============================================================================
