--------------------------- MODULE CampaignDialer ---------------------------
(***************************************************************************)
(* The outreach dialler (modules/campaigns): leads are imported into       *)
(* campaigns, a cron or an operator starts a batch, the batch dials its    *)
(* leads a slice at a time, and the provider's results decide whether a    *)
(* lead is dialled again.  Meanwhile operators accept leads and switch     *)
(* campaigns on, off and into test mode, and anybody may opt out.          *)
(*                                                                         *)
(* dialOne is a sequence of database and provider calls, each awaited, for *)
(* every lead of a slice at once (Promise.all): each of them is an action, *)
(* and `dial' says which one a lead waits for.  A result is handled in two *)
(* steps, the reads and the UPDATE of the lead that rests on them.  So is  *)
(* suppress: the list first, the leads' rows second.                       *)
(***************************************************************************)
EXTENDS Integers, FiniteSets

CONSTANTS
  Leads, Campaigns, Phones,
  CampaignOf,    \* [Leads -> Campaigns]
  PhoneOf,       \* [Leads -> Phones]
  MaxDials,      \* bound: rows of campaign_call_logs
  MaxAttempts,   \* campaigns.max_attempts (default 2)
  DailyCap,      \* campaigns.daily_cap
  Concurrency,   \* campaigns.concurrency
  Outcomes,      \* what can happen on a call
  MaxFaults,     \* bound: restarts, failed statements and lost answers
  MaxToggles     \* bound: changes of a campaign's settings

Disposition == {"PITCHED", "VM", "RETRY", "DNC", "WARM", "GATEKEEPER",
                "NOT_INTERESTED", "ERROR"}

\* What decideDisposition makes of a call when it ends, and when its analysis is in.
Outcome == [ended : Disposition, analysed : Disposition]

ASSUME CampaignAssumption == CampaignOf \in [Leads -> Campaigns] /\ PhoneOf \in [Leads -> Phones]
ASSUME LeadsAssumption == IsFiniteSet(Leads)
ASSUME CampaignLimits ==
  /\ MaxDials \in Nat /\ MaxAttempts \in Nat /\ DailyCap \in Nat
  /\ Concurrency \in Nat \ {0}
  /\ MaxFaults \in Nat /\ MaxToggles \in Nat
ASSUME OutcomeAssumption == Outcomes \subseteq Outcome

Dials    == 1 .. MaxDials
Dialable == {"QUEUED", "RETRY", "VM"}
Status   == Dialable \cup {"none", "CALLING", "PITCHED", "WARM", "ACCEPTED", "DNC", "EXHAUSTED"}

VARIABLES
  lead,      \* campaign_leads
  log,       \* campaign_call_logs, in the order of insertion
  line,      \* the provider's call behind each log
  camp,      \* campaigns: status is ACTIVE, test_mode
  batch,     \* the run of each campaign (`running', and the run's own variables)
  dial,      \* where dialOne stands for each lead
  hook,      \* the result being applied
  suppressed, \* campaign_suppressions
  marking,   \* phones suppressed, whose leads are still to be marked DNC
  vetted,    \* leads ingest has checked against the suppressions
  today,     \* logs inserted since midnight, per campaign
  rung,      \* how often each lead's own number was really called
  silenced,  \* phones suppressed while nobody was dialling them
  faults, toggles

vars == <<lead, log, line, camp, batch, dial, hook, suppressed, marking, vetted, today,
          rung, silenced, faults, toggles>>
provider == <<line, rung>>
optOuts  == <<suppressed, marking, vetted, silenced>>
counters == <<faults, toggles>>

(***************************************************************************)
(* attempted: last_attempt_at is today, where the number rings.  rested:   *)
(* next_eligible_at is null or past.                                       *)
(***************************************************************************)
Lead == [status : Status, attempts : Nat, attempted : BOOLEAN, rested : BOOLEAN]
NoLead == [status |-> "none", attempts |-> 0, attempted |-> FALSE, rested |-> TRUE]

\* known: provider_call_id is stored.  test: it rang the test number.
Log == [lead : Leads, status : {"PENDING", "IN_PROGRESS", "FAILED", "DONE"}, known : BOOLEAN,
        test : BOOLEAN]
NoLog == [status |-> "none"]

Line == [phase : {"live"}] \cup [phase : {"over", "analysed"}, outcome : Outcomes]
Silent == [phase |-> "silent"]

Batch == [on : BOOLEAN, test : BOOLEAN, left : SUBSET Leads]
NoBatch == [on |-> FALSE, test |-> FALSE, left |-> {}]

Dial == [at : {"check", "claim", "log"}] \cup [at : {"place", "record"}, log : Dials]
Idle == [at |-> "idle"]

Hook == [log : Dials, disposition : Disposition, attempts : Nat]
NoHook == [disposition |-> "none"]

TypeOK ==
  /\ lead \in [Leads -> Lead]
  /\ log \in [Dials -> Log \cup {NoLog}]
  /\ line \in [Dials -> Line \cup {Silent}]
  /\ camp \in [Campaigns -> [active : BOOLEAN, test : BOOLEAN]]
  /\ batch \in [Campaigns -> Batch]
  /\ dial \in [Leads -> Dial \cup {Idle}]
  /\ hook \in Hook \cup {NoHook}
  /\ suppressed \subseteq Phones /\ marking \subseteq Phones /\ silenced \subseteq Phones
  /\ vetted \subseteq Leads
  /\ today \in [Campaigns -> Nat] /\ rung \in [Leads -> Nat]
  /\ faults \in 0 .. MaxFaults /\ toggles \in 0 .. MaxToggles

Init ==
  /\ lead = [l \in Leads |-> NoLead]
  /\ log = [k \in Dials |-> NoLog]
  /\ line = [k \in Dials |-> Silent]
  /\ camp \in [Campaigns -> [active : BOOLEAN, test : BOOLEAN]]
  /\ batch = [c \in Campaigns |-> NoBatch]
  /\ dial = [l \in Leads |-> Idle]
  /\ hook = NoHook
  /\ suppressed = {} /\ marking = {} /\ vetted = {} /\ silenced = {}
  /\ today = [c \in Campaigns |-> 0]
  /\ rung = [l \in Leads |-> 0]
  /\ faults = 0 /\ toggles = 0

-----------------------------------------------------------------------------
(* The list: import, acceptance, opt-outs, settings.                       *)

\* ingest checks the suppressions, and inserts the new leads afterwards.
IngestCheck(l) ==
  /\ lead[l].status = "none" /\ PhoneOf[l] \notin suppressed
  /\ vetted' = vetted \cup {l}
  /\ UNCHANGED <<lead, log, camp, batch, dial, hook, suppressed, marking, silenced, today,
                 provider, counters>>

IngestInsert(l) ==
  /\ l \in vetted
  /\ vetted' = vetted \ {l}
  /\ lead' = [lead EXCEPT ![l].status = IF @ = "none" THEN "QUEUED" ELSE @]
  /\ UNCHANGED <<log, camp, batch, dial, hook, suppressed, marking, silenced, today, provider,
                 counters>>

\* The leads of a phone that exist.
LeadsOf(p) == {l \in Leads : PhoneOf[l] = p /\ lead[l].status # "none"}

\* The leads, with those of a phone given a status.
Stamped(p, status) ==
  [l \in Leads |-> IF l \in LeadsOf(p) THEN [lead[l] EXCEPT !.status = status] ELSE lead[l]]

MarkAccepted(p) ==
  /\ LeadsOf(p) # {}
  /\ lead' = Stamped(p, "ACCEPTED")
  /\ UNCHANGED <<log, camp, batch, dial, hook, optOuts, today, provider, counters>>

\* Past its check of the suppressions, and not yet at the provider.
Committed(l) == dial[l].at \in {"claim", "log", "place"}

\* suppress: the list first.
Listed(p) ==
  /\ suppressed' = suppressed \cup {p}
  /\ marking' = marking \cup {p}
  /\ silenced' = IF \E l \in Leads : PhoneOf[l] = p /\ Committed(l)
                 THEN silenced ELSE silenced \cup {p}

\* An operator's /leads/dnc, or the opt-out of somebody who rings back.
Suppress(p) ==
  /\ Listed(p)
  /\ UNCHANGED <<lead, log, camp, batch, dial, hook, vetted, today, provider, counters>>

MarkDNC(p) ==
  /\ p \in marking
  /\ marking' = marking \ {p}
  /\ lead' = Stamped(p, "DNC")
  /\ UNCHANGED <<log, camp, batch, dial, hook, suppressed, vetted, silenced, today, provider,
                 counters>>

UpdateCampaign(c) ==
  /\ toggles < MaxToggles
  /\ toggles' = toggles + 1
  /\ \E s \in [active : BOOLEAN, test : BOOLEAN] : camp' = [camp EXCEPT ![c] = s]
  /\ UNCHANGED <<lead, log, batch, dial, hook, optOuts, today, provider, faults>>

-----------------------------------------------------------------------------
(* The batch.                                                              *)

LeadsIn(c) == {l \in Leads : CampaignOf[l] = c}
Resting(c) == \A l \in LeadsIn(c) : dial[l] = Idle

\* fetchDialable and the guards on each lead.
Eligible(c) == {l \in LeadsIn(c) : /\ lead[l].status \in Dialable
                                   /\ lead[l].attempts < MaxAttempts
                                   /\ lead[l].rested /\ ~lead[l].attempted}

\* Variant: the calls already placed today are not deducted.
RunUncapped(c) ==
  /\ camp[c].active /\ ~batch[c].on
  /\ \E chosen \in SUBSET Eligible(c) :
       /\ chosen # {} /\ Cardinality(chosen) <= DailyCap
       /\ batch' = [batch EXCEPT ![c] = [on |-> TRUE, test |-> camp[c].test, left |-> chosen]]
  /\ UNCHANGED <<lead, log, camp, dial, hook, optOuts, today, provider, counters>>

\* run: the calling window and the caller's limit leave any part of the pool.
Run(c) ==
  /\ camp[c].active /\ ~batch[c].on
  /\ \E chosen \in SUBSET Eligible(c) :
       /\ chosen # {} /\ Cardinality(chosen) <= DailyCap - today[c]
       /\ batch' = [batch EXCEPT ![c] = [on |-> TRUE, test |-> camp[c].test, left |-> chosen]]
  /\ UNCHANGED <<lead, log, camp, dial, hook, optOuts, today, provider, counters>>

\* Bound: there is a log left for every lead that is being dialled.
Spare(n) == n + Cardinality({l \in Leads : dial[l].at \in {"check", "claim", "log"}})
              <= Cardinality({k \in Dials : log[k] = NoLog})

\* The next slice is dialled when all of the last one is through.
Slice(c) ==
  /\ batch[c].on /\ Resting(c)
  /\ \E slice \in SUBSET batch[c].left :
       /\ slice # {} /\ Spare(Cardinality(slice))
       /\ \/ Cardinality(slice) = Concurrency
          \/ Cardinality(slice) < Concurrency /\ slice = batch[c].left
       /\ batch' = [batch EXCEPT ![c].left = @ \ slice]
       /\ dial' = [l \in Leads |-> IF l \in slice THEN [at |-> "check"] ELSE dial[l]]
  /\ UNCHANGED <<lead, log, camp, hook, optOuts, today, provider, counters>>

RunEnd(c) ==
  /\ batch[c].on /\ batch[c].left = {} /\ Resting(c)
  /\ batch' = [batch EXCEPT ![c] = NoBatch]
  /\ UNCHANGED <<lead, log, camp, dial, hook, optOuts, today, provider, counters>>

-----------------------------------------------------------------------------
(* dialOne, for one lead of a slice.                                       *)

Testing(l) == batch[CampaignOf[l]].test
Step(l, d) == dial' = [dial EXCEPT ![l] = d]
Turned(l, status) == lead' = [lead EXCEPT ![l].status = status]

\* Variant: the row's own status is trusted for the suppression list.
DialCheckByStatus(l) ==
  /\ dial[l].at = "check"
  /\ Step(l, IF lead[l].status = "DNC" THEN Idle ELSE [at |-> "claim"])
  /\ UNCHANGED <<lead, log, camp, batch, hook, optOuts, today, provider, counters>>

DialCheck(l) ==
  /\ dial[l].at = "check"
  /\ IF PhoneOf[l] \in suppressed
     THEN Turned(l, "DNC") /\ Step(l, Idle)
     ELSE Step(l, [at |-> "claim"]) /\ UNCHANGED lead
  /\ UNCHANGED <<log, camp, batch, hook, optOuts, today, provider, counters>>

\* Variants: the claim spends no attempt; the claim leaves the row in the pool.
ClaimedUncounted(r, test) == [r EXCEPT !.status = "CALLING", !.attempted = ~test]
ClaimedUnmarked(r, test) == IF test THEN r ELSE [r EXCEPT !.attempts = @ + 1, !.attempted = TRUE]

\* The claimed row: a test borrows the lead, a real call spends an attempt.
Claimed(r, test) == IF test THEN [r EXCEPT !.status = "CALLING"]
                    ELSE [r EXCEPT !.status = "CALLING", !.attempts = @ + 1, !.attempted = TRUE]

DialClaim(l) ==
  /\ dial[l].at = "claim"
  /\ IF lead[l].status \in Dialable
     THEN lead' = [lead EXCEPT ![l] = Claimed(@, Testing(l))] /\ Step(l, [at |-> "log"])
     ELSE Step(l, Idle) /\ UNCHANGED lead
  /\ UNCHANGED <<log, camp, batch, hook, optOuts, today, provider, counters>>

DialLog(l) ==
  /\ dial[l].at = "log"
  /\ \E k \in Dials :
       /\ log[k] = NoLog /\ \A j \in Dials : j < k => log[j] # NoLog
       /\ log' = [log EXCEPT ![k] = [lead |-> l, status |-> "PENDING", known |-> FALSE,
                                     test |-> Testing(l)]]
       /\ Step(l, [at |-> "place", log |-> k])
  /\ today' = [today EXCEPT ![CampaignOf[l]] = @ + 1]
  /\ UNCHANGED <<lead, camp, batch, hook, optOuts, provider, counters>>

\* The provider's call comes into being.
Rings(l) ==
  /\ line' = [line EXCEPT ![dial[l].log] = [phase |-> "live"]]
  /\ rung' = IF Testing(l) THEN rung ELSE [rung EXCEPT ![l] = @ + 1]

DialPlace(l) ==
  /\ dial[l].at = "place"
  /\ Rings(l)
  /\ Step(l, [at |-> "record", log |-> dial[l].log])
  /\ UNCHANGED <<lead, log, camp, batch, hook, optOuts, today, counters>>

\* failCall: the log is closed and the lead goes back into the pool.
FailCall(l) ==
  /\ log' = [log EXCEPT ![dial[l].log].status = "FAILED"]
  /\ Turned(l, "RETRY")
  /\ Step(l, Idle)

DialRefused(l) ==
  /\ dial[l].at = "place"
  /\ FailCall(l)
  /\ UNCHANGED <<camp, batch, hook, optOuts, today, provider, counters>>

\* The provider rings the number, but its answer never reaches placeCall.
DialLost(l) ==
  /\ dial[l].at = "place" /\ faults < MaxFaults
  /\ faults' = faults + 1
  /\ Rings(l)
  /\ FailCall(l)
  /\ UNCHANGED <<camp, batch, hook, optOuts, today, toggles>>

DialRecord(l) ==
  /\ dial[l].at = "record"
  /\ log' = [log EXCEPT ![dial[l].log].known = TRUE, ![dial[l].log].status = "IN_PROGRESS"]
  /\ IF Testing(l) THEN Turned(l, "QUEUED") ELSE UNCHANGED lead
  /\ Step(l, Idle)
  /\ UNCHANGED <<camp, batch, hook, optOuts, today, provider, counters>>

\* A statement of dialOne fails: the batch goes on without this lead.
DialThrows(l) ==
  /\ dial[l] # Idle /\ faults < MaxFaults
  /\ faults' = faults + 1
  /\ Step(l, Idle)
  /\ UNCHANGED <<lead, log, camp, batch, hook, optOuts, today, provider, toggles>>

Crash ==
  /\ faults < MaxFaults
  /\ faults' = faults + 1
  /\ batch' = [c \in Campaigns |-> NoBatch]
  /\ dial' = [l \in Leads |-> Idle]
  /\ hook' = NoHook /\ marking' = {} /\ vetted' = {}
  /\ UNCHANGED <<lead, log, camp, suppressed, silenced, today, provider, toggles>>

-----------------------------------------------------------------------------
(* The provider (external) and the clock.                                  *)

HangUp(k) ==
  /\ line[k].phase = "live"
  /\ \E o \in Outcomes : line' = [line EXCEPT ![k] = [phase |-> "over", outcome |-> o]]
  /\ UNCHANGED <<lead, log, camp, batch, dial, hook, optOuts, today, rung, counters>>

Analyse(k) ==
  /\ line[k].phase = "over"
  /\ line' = [line EXCEPT ![k].phase = "analysed"]
  /\ UNCHANGED <<lead, log, camp, batch, dial, hook, optOuts, today, rung, counters>>

\* Midnight in New York, for the cap; and where a lead's number rings.
Midnight(c) ==
  /\ today[c] > 0
  /\ today' = [today EXCEPT ![c] = 0]
  /\ UNCHANGED <<lead, log, camp, batch, dial, hook, optOuts, provider, counters>>

LeadMidnight(l) ==
  /\ lead[l].attempted
  /\ lead' = [lead EXCEPT ![l].attempted = FALSE]
  /\ UNCHANGED <<log, camp, batch, dial, hook, optOuts, today, provider, counters>>

\* touch_spacing_days have passed.  No call and no dialOne takes that long.
Rested(l) ==
  /\ ~lead[l].rested /\ dial[l] = Idle
  /\ \A k \in Dials : line[k].phase = "live" => log[k].lead # l
  /\ lead' = [lead EXCEPT ![l].rested = TRUE]
  /\ UNCHANGED <<log, camp, batch, dial, hook, optOuts, today, provider, counters>>

-----------------------------------------------------------------------------
(* applyCallResult, for the webhook and for the reconcile sweep.           *)

\* Variant: the disposition is written through raw.
NextLeadStatusRaw(d, attempts) == d

\* nextLeadStatus, for the attempts the lead has used.
NextLeadStatus(d, attempts) ==
  LET exhausted == attempts >= MaxAttempts
  IN  CASE d = "DNC" -> "DNC"
        [] d = "NOT_INTERESTED" -> "PITCHED"
        [] d = "WARM" -> "WARM"
        [] d = "PITCHED" -> IF exhausted THEN "PITCHED" ELSE "RETRY"
        [] d = "VM" -> IF exhausted THEN "EXHAUSTED" ELSE "VM"
        [] OTHER -> IF exhausted THEN "EXHAUSTED" ELSE "RETRY"

\* A call is found by the id its log has stored.
Found(k) == log[k] # NoLog /\ log[k].known

\* call_started, whenever it arrives.
Started(k) ==
  /\ Found(k)
  /\ log' = [log EXCEPT ![k].status = "IN_PROGRESS"]
  /\ UNCHANGED <<lead, camp, batch, dial, hook, optOuts, today, provider, counters>>

\* The log is closed; an opt-out goes on to suppress; any other result reads
\* the lead, unless the campaign is in test mode by now.
Result(k, d) ==
  LET l == log[k].lead
  IN  /\ hook = NoHook
      /\ log' = [log EXCEPT ![k].status = "DONE"]
      /\ hook' = IF d # "DNC" /\ camp[CampaignOf[l]].test THEN NoHook
                 ELSE [log |-> k, disposition |-> d, attempts |-> lead[l].attempts]
      /\ UNCHANGED <<lead, camp, batch, dial, optOuts, today, provider, counters>>

\* call_ended and call_analyzed: any number of times, in any order, or never.
Ended(k)    == Found(k) /\ line[k].phase \in {"over", "analysed"} /\ Result(k, line[k].outcome.ended)
Analyzed(k) == Found(k) /\ line[k].phase = "analysed" /\ Result(k, line[k].outcome.analysed)

\* Variant: a log that got as far as IN_PROGRESS is left alone.
StalledPending(k) == Found(k) /\ log[k].status = "PENDING"

\* The sweep asks the provider about a log that is not closed.
Stalled(k) == Found(k) /\ log[k].status \in {"PENDING", "IN_PROGRESS"}
Reconcile(k) ==
  /\ Stalled(k)
  /\ line[k].phase \in {"over", "analysed"}
  /\ Result(k, IF line[k].phase = "over" THEN line[k].outcome.ended ELSE line[k].outcome.analysed)

ResultSuppresses ==
  /\ hook.disposition = "DNC"
  /\ Listed(PhoneOf[log[hook.log].lead])
  /\ hook' = NoHook
  /\ UNCHANGED <<lead, log, camp, batch, dial, vetted, today, provider, counters>>

\* The lead's row after a result.
Scored(r, next) ==
  [r EXCEPT !.status = next, !.rested = IF next \in {"RETRY", "VM"} THEN FALSE ELSE @]

ResultScores ==
  /\ hook.disposition \notin {"none", "DNC"}
  /\ lead' = [lead EXCEPT ![log[hook.log].lead] =
                 Scored(@, NextLeadStatus(hook.disposition, hook.attempts))]
  /\ hook' = NoHook
  /\ UNCHANGED <<log, camp, batch, dial, optOuts, today, provider, counters>>

-----------------------------------------------------------------------------
List == \/ \E l \in Leads : IngestCheck(l) \/ IngestInsert(l)
        \/ \E p \in Phones : MarkAccepted(p) \/ Suppress(p) \/ MarkDNC(p)
        \/ \E c \in Campaigns : UpdateCampaign(c)
Dialler == \/ \E c \in Campaigns : Run(c) \/ Slice(c) \/ RunEnd(c)
           \/ \E l \in Leads : \/ DialCheck(l) \/ DialClaim(l) \/ DialLog(l) \/ DialPlace(l)
                               \/ DialRefused(l) \/ DialLost(l) \/ DialRecord(l) \/ DialThrows(l)
Provider == \E k \in Dials : HangUp(k) \/ Analyse(k)
Clock    == \/ \E c \in Campaigns : Midnight(c)
            \/ \E l \in Leads : LeadMidnight(l) \/ Rested(l)
Webhook(k) == Started(k) \/ Ended(k) \/ Analyzed(k)
Results  == \/ \E k \in Dials : Webhook(k) \/ Reconcile(k)
            \/ ResultSuppresses \/ ResultScores

Next == List \/ Dialler \/ Provider \/ Clock \/ Results \/ Crash

Spec == Init /\ [][Next]_vars

(***************************************************************************)
(* Fairness.  Code that is awaited continues, the sweep runs every five    *)
(* minutes, the provider ends every call; no webhook need ever arrive, and *)
(* each one arrives a finite number of times.  The handler serves one      *)
(* result at a time here, so the sweep's turn may come and go (SF).        *)
(***************************************************************************)
Fairness ==
  /\ \A c \in Campaigns : WF_vars(Slice(c)) /\ WF_vars(RunEnd(c))
  /\ \A l \in Leads : /\ WF_vars(DialCheck(l)) /\ WF_vars(DialClaim(l)) /\ WF_vars(DialLog(l))
                      /\ WF_vars(DialPlace(l) \/ DialRefused(l)) /\ WF_vars(DialRecord(l))
  /\ \A p \in Phones : WF_vars(MarkDNC(p))
  /\ \A k \in Dials : WF_vars(HangUp(k)) /\ SF_vars(Reconcile(k))
  /\ WF_vars(ResultSuppresses \/ ResultScores)
  /\ <>[][\A k \in Dials : ~Webhook(k)]_vars

FairSpec == Spec /\ Fairness

-----------------------------------------------------------------------------
(* What the code achieves.                                                 *)

\* No lead's number is rung more often than max_attempts allows, counting the
\* provider's calls: not after restarts, lost answers, late or repeated results,
\* nor by switching test mode back and forth.
DialBudget == \A l \in Leads : rung[l] <= MaxAttempts

\* An opt-out that reaches the list while nobody is dialling the number is
\* final in every campaign: no late result, import, acceptance, retry or
\* restart -- not even one in the middle of suppress -- makes it ring again.
OptOutIsFinal ==
  [][\A l \in Leads : rung'[l] > rung[l] => PhoneOf[l] \notin silenced]_vars

\* A campaign never logs more calls in a day than its cap, although a batch
\* budgets at its start and may run past midnight or be cut off.
DailyCapHeld == \A c \in Campaigns : today[c] <= DailyCap

\* A lead's number is never rung twice at a time, except while a call is going
\* on whose answer was lost.
RealCall(k, l) == log[k] # NoLog /\ log[k].lead = l /\ ~log[k].test /\ line[k].phase = "live"
NoDoubleRing ==
  \A l \in Leads, j, k \in Dials :
    RealCall(j, l) /\ RealCall(k, l) /\ j # k => "FAILED" \in {log[j].status, log[k].status}

\* Without restarts, failures and changes of settings, every claimed lead is
\* released again, though every webhook be lost.
CallingResolves == \A l \in Leads : lead[l].status = "CALLING" ~> lead[l].status # "CALLING"

-----------------------------------------------------------------------------
(* The inductive invariant behind DialBudget and OptOutIsFinal.            *)

\* A dialled lead's log, and the log of a result being applied, exist.
LogOK == /\ \A l \in Leads : dial[l].at \in {"place", "record"} => log[dial[l].log] \in Log
         /\ hook # NoHook => log[hook.log] \in Log

\* Only the running batch of its campaign dials a lead, once, and a lead it has
\* not yet claimed has an attempt left.
BatchOK ==
  \A l \in Leads :
    /\ dial[l] # Idle => batch[CampaignOf[l]].on
    /\ \A c \in Campaigns : l \in batch[c].left =>
         c = CampaignOf[l] /\ batch[c].on /\ dial[l] = Idle
    /\ dial[l].at \in {"check", "claim"} \/ l \in batch[CampaignOf[l]].left =>
         lead[l].attempts < MaxAttempts

\* Each call was paid for by an attempt, and a claim has paid for the next one.
Paid(l) == IF dial[l].at \in {"log", "place"} /\ ~Testing(l) THEN 1 ELSE 0
BudgetOK == \A l \in Leads : /\ lead[l].attempts <= MaxAttempts
                            /\ rung[l] + Paid(l) <= lead[l].attempts

\* A silenced phone is on the list, and none of its leads is about to be dialled.
SilenceOK == /\ silenced \subseteq suppressed
             /\ \A l \in Leads : Committed(l) => PhoneOf[l] \notin silenced

CampaignInv == TypeOK /\ LogOK /\ BatchOK /\ BudgetOK /\ SilenceOK

-----------------------------------------------------------------------------
(* What the company that is called notices of all this: CallPromise.       *)

\* The calls to a lead's own number that go on and whose answer was not lost.
Ringing(k, l) == RealCall(k, l) /\ log[k].status # "FAILED"
Going(l) == {k \in Dials : Ringing(k, l)}

Promise == INSTANCE CallPromise WITH
  Calls    <- Leads,
  Attempts <- MaxAttempts,
  rings    <- rung,
  going    <- [l \in Leads |-> Going(l)],
  handed   <- [l \in Leads |-> PhoneOf[l] \in silenced],
  faults   <- [l \in Leads |-> 0]

\* Lists, batches, slices and results together keep the dialler's promise to
\* every lead, step by step -- and, unlike the outbound dialler, at no cost:
\* neither a restart nor a late result, an opt-out in the middle of suppress or
\* a change of the settings buys one more ring or hides a call that goes on.
KeepsPromise == Promise!Spec

=============================================================================
