------------------------ MODULE CampaignDialerProofs ------------------------
(***************************************************************************)
(* Proofs about CampaignDialer: type correctness, the attempt budget of a  *)
(* lead, and the finality of an opt-out, for every set of leads, campaigns *)
(* and phones, every limit and every set of call outcomes.                 *)
(***************************************************************************)
EXTENDS CampaignDialer, TLAPS

Typed == TypeOK /\ LogOK
Safe  == BatchOK /\ BudgetOK /\ SilenceOK

-----------------------------------------------------------------------------
(* Rows.                                                                   *)

LEMMA LeadFields ==
  ASSUME NEW r \in Lead
  PROVE  /\ r.status \in Status /\ r.attempts \in Nat /\ r.attempted \in BOOLEAN
         /\ r.rested \in BOOLEAN
BY DEF Lead

LEMMA NoLeadType == NoLead \in Lead
BY CampaignLimits DEF NoLead, Lead, Status, Dialable

LEMMA StatusSet ==
  ASSUME NEW r \in Lead, NEW s \in Status
  PROVE  /\ [r EXCEPT !.status = s] \in Lead
         /\ [r EXCEPT !.status = s].attempts = r.attempts
BY DEF Lead

LEMMA FlagsSet ==
  ASSUME NEW r \in Lead, NEW b \in BOOLEAN
  PROVE  /\ [r EXCEPT !.attempted = b] \in Lead
         /\ [r EXCEPT !.rested = b] \in Lead
         /\ [r EXCEPT !.attempted = b].attempts = r.attempts
         /\ [r EXCEPT !.rested = b].attempts = r.attempts
BY DEF Lead

LEMMA ClaimedType ==
  ASSUME NEW r \in Lead, NEW test \in BOOLEAN
  PROVE  /\ Claimed(r, test) \in Lead
         /\ Claimed(r, test).attempts = IF test THEN r.attempts ELSE r.attempts + 1
<1>1. "CALLING" \in Status
  BY DEF Status
<1>2. CASE test
  BY <1>1, <1>2, StatusSet DEF Claimed
<1>3. CASE ~test
  <2>1. Claimed(r, test) = [r EXCEPT !.status = "CALLING", !.attempts = r.attempts + 1,
                                     !.attempted = TRUE]
    BY <1>3 DEF Claimed, Lead
  <2>2. r.attempts + 1 \in Nat
    BY LeadFields
  <2>3. Claimed(r, test) \in Lead
    BY <1>1, <2>1, <2>2 DEF Lead
  <2>4. Claimed(r, test).attempts = r.attempts + 1
    BY <2>1 DEF Lead
  <2> QED BY <1>3, <2>3, <2>4
<1> QED BY <1>2, <1>3

LEMMA ScoredType ==
  ASSUME NEW r \in Lead, NEW s \in Status
  PROVE  /\ Scored(r, s) \in Lead /\ Scored(r, s).attempts = r.attempts
<1>1. Scored(r, s) = [r EXCEPT !.status = s,
                          !.rested = IF s \in {"RETRY", "VM"} THEN FALSE ELSE r.rested]
  BY DEF Scored, Lead
<1>2. (IF s \in {"RETRY", "VM"} THEN FALSE ELSE r.rested) \in BOOLEAN
  BY LeadFields
<1> QED BY <1>1, <1>2 DEF Lead

LEMMA NextLeadStatusType ==
  ASSUME NEW d \in Disposition, NEW n \in Nat
  PROVE  NextLeadStatus(d, n) \in Status
BY DEF NextLeadStatus, Status, Dialable, Disposition

\* A phone's leads are stamped with a status: their attempts stay.
LEMMA StampedType ==
  ASSUME lead \in [Leads -> Lead], NEW p \in Phones, NEW s \in Status
  PROVE  /\ Stamped(p, s) \in [Leads -> Lead]
         /\ \A l \in Leads : Stamped(p, s)[l].attempts = lead[l].attempts
<1>1. \A l \in Leads : /\ [lead[l] EXCEPT !.status = s] \in Lead
                       /\ [lead[l] EXCEPT !.status = s].attempts = lead[l].attempts
  BY StatusSet
<1> QED BY <1>1 DEF Stamped

\* One lead's row is replaced by one with the same attempts.
Kept == \A l \in Leads : lead'[l].attempts = lead[l].attempts

LEMMA OneLeadChanges ==
  ASSUME lead \in [Leads -> Lead], NEW l \in Leads, NEW r \in Lead,
         r.attempts = lead[l].attempts, lead' = [lead EXCEPT ![l] = r]
  PROVE  lead' \in [Leads -> Lead] /\ Kept
BY DEF Kept

LEMMA TurnedType ==
  ASSUME lead \in [Leads -> Lead], NEW l \in Leads, NEW s \in Status, Turned(l, s)
  PROVE  lead' \in [Leads -> Lead] /\ Kept
<1>1. lead' = [lead EXCEPT ![l] = [lead[l] EXCEPT !.status = s]]
  BY DEF Turned
<1> QED BY <1>1, StatusSet, OneLeadChanges

LEMMA LogSet ==
  ASSUME log \in [Dials -> Log \cup {NoLog}], NEW k \in Dials, log[k] \in Log,
         NEW s \in {"PENDING", "IN_PROGRESS", "FAILED", "DONE"}, NEW b \in BOOLEAN,
         log' = [log EXCEPT ![k] = [log[k] EXCEPT !.status = s, !.known = b]]
  PROVE  /\ log' \in [Dials -> Log \cup {NoLog}]
         /\ \A j \in Dials : log[j] \in Log => log'[j] \in Log
<1>1. [log[k] EXCEPT !.status = s, !.known = b] \in Log
  BY DEF Log
<1> QED BY <1>1

LEMMA LogStatusSet ==
  ASSUME log \in [Dials -> Log \cup {NoLog}], NEW k \in Dials, log[k] \in Log,
         NEW s \in {"PENDING", "IN_PROGRESS", "FAILED", "DONE"},
         log' = [log EXCEPT ![k].status = s]
  PROVE  /\ log' \in [Dials -> Log \cup {NoLog}]
         /\ \A j \in Dials : log[j] \in Log => log'[j] \in Log
<1>1. [log[k] EXCEPT !.status = s] \in Log
  BY DEF Log
<1>2. log' = [log EXCEPT ![k] = [log[k] EXCEPT !.status = s]]
  OBVIOUS
<1> QED BY <1>1, <1>2

\* A call that is over carries an outcome.
LEMMA OutcomeType ==
  ASSUME Typed, NEW k \in Dials, line[k].phase \in {"over", "analysed"}
  PROVE  /\ line[k].outcome \in Outcomes
         /\ line[k].outcome.ended \in Disposition /\ line[k].outcome.analysed \in Disposition
<1>1. line[k] \in [phase : {"over", "analysed"}, outcome : Outcomes]
  BY DEF Typed, TypeOK, Line, Silent
<1> QED BY <1>1, OutcomeAssumption DEF Outcome

-----------------------------------------------------------------------------
(* Type correctness.                                                       *)

LEMMA TypedInit == Init => Typed
<1> SUFFICES ASSUME Init PROVE Typed
  OBVIOUS
<1>1. NoBatch \in Batch
  BY DEF NoBatch, Batch
<1>2. TypeOK
  BY <1>1, NoLeadType, CampaignLimits DEF Init, TypeOK
<1>3. LogOK
  BY DEF Init, LogOK, Idle
<1> QED BY <1>2, <1>3 DEF Typed

\* A step that touches neither the logs nor where the leads stand.
LEMMA TypedQuietly ==
  ASSUME Typed, TypeOK', UNCHANGED <<log, dial>>, hook' \in {hook, NoHook}
  PROVE  Typed'
BY DEF Typed, LogOK

\* The steps of the list.
LEMMA TypedList == ASSUME Typed, List PROVE Typed'
<1> USE DEF Typed
<1>1. ASSUME NEW l \in Leads, IngestCheck(l) PROVE Typed'
  BY <1>1, TypedQuietly DEF IngestCheck, TypeOK, provider, counters
<1>2. ASSUME NEW l \in Leads, IngestInsert(l) PROVE Typed'
  <2>1. (IF lead[l].status = "none" THEN "QUEUED" ELSE lead[l].status) \in Status
    BY LeadFields DEF TypeOK, Status, Dialable
  <2>2. lead' = [lead EXCEPT ![l] = [lead[l] EXCEPT !.status =
                   IF lead[l].status = "none" THEN "QUEUED" ELSE lead[l].status]]
    BY <1>2 DEF IngestInsert
  <2>3. lead' \in [Leads -> Lead]
    BY <2>1, <2>2, StatusSet DEF TypeOK
  <2> QED BY <1>2, <2>3, TypedQuietly DEF IngestInsert, TypeOK, provider, counters
<1>3. ASSUME NEW p \in Phones, MarkAccepted(p) PROVE Typed'
  <2>1. lead' \in [Leads -> Lead]
    BY <1>3, StampedType DEF MarkAccepted, TypeOK, Status
  <2> QED BY <1>3, <2>1, TypedQuietly DEF MarkAccepted, TypeOK, provider, counters, optOuts
<1>4. ASSUME NEW p \in Phones, Suppress(p) PROVE Typed'
  BY <1>4, TypedQuietly DEF Suppress, Listed, TypeOK, provider, counters
<1>5. ASSUME NEW p \in Phones, MarkDNC(p) PROVE Typed'
  <2>1. lead' \in [Leads -> Lead]
    BY <1>5, StampedType DEF MarkDNC, TypeOK, Status
  <2> QED BY <1>5, <2>1, TypedQuietly DEF MarkDNC, TypeOK, provider, counters
<1>6. ASSUME NEW c \in Campaigns, UpdateCampaign(c) PROVE Typed'
  BY <1>6, TypedQuietly, CampaignLimits DEF UpdateCampaign, TypeOK, provider, optOuts
<1> QED BY <1>1, <1>2, <1>3, <1>4, <1>5, <1>6 DEF List

\* The provider and the clock.
LEMMA TypedOutside == ASSUME Typed, Provider \/ Clock PROVE Typed'
<1> USE DEF Typed
<1>1. ASSUME NEW k \in Dials, HangUp(k) PROVE Typed'
  BY <1>1, TypedQuietly DEF HangUp, TypeOK, Line, optOuts, counters
<1>2. ASSUME NEW k \in Dials, Analyse(k) PROVE Typed'
  <2>1. line[k].outcome \in Outcomes
    BY <1>2, OutcomeType DEF Analyse
  <2>2. line[k] \in [phase : {"over", "analysed"}, outcome : Outcomes]
    BY <1>2 DEF Analyse, TypeOK, Line, Silent
  <2>3. [line[k] EXCEPT !.phase = "analysed"] \in Line
    BY <2>2 DEF Line
  <2>4. line' \in [Dials -> Line \cup {Silent}]
    BY <1>2, <2>3 DEF Analyse, TypeOK
  <2> QED BY <1>2, <2>4, TypedQuietly DEF Analyse, TypeOK, optOuts, counters
<1>3. ASSUME NEW c \in Campaigns, Midnight(c) PROVE Typed'
  BY <1>3, TypedQuietly DEF Midnight, TypeOK, optOuts, provider, counters
<1>4. ASSUME NEW l \in Leads, LeadMidnight(l) PROVE Typed'
  <2>1. lead' = [lead EXCEPT ![l] = [lead[l] EXCEPT !.attempted = FALSE]]
    BY <1>4 DEF LeadMidnight
  <2>2. lead' \in [Leads -> Lead]
    BY <2>1, FlagsSet DEF TypeOK
  <2> QED BY <1>4, <2>2, TypedQuietly DEF LeadMidnight, TypeOK, optOuts, provider, counters
<1>5. ASSUME NEW l \in Leads, Rested(l) PROVE Typed'
  <2>1. lead' = [lead EXCEPT ![l] = [lead[l] EXCEPT !.rested = TRUE]]
    BY <1>5 DEF Rested
  <2>2. lead' \in [Leads -> Lead]
    BY <2>1, FlagsSet DEF TypeOK
  <2> QED BY <1>5, <2>2, TypedQuietly DEF Rested, TypeOK, optOuts, provider, counters
<1> QED BY <1>1, <1>2, <1>3, <1>4, <1>5 DEF Provider, Clock

\* Where a lead stands.
LEMMA DialFields ==
  ASSUME Typed, NEW l \in Leads
  PROVE  /\ dial[l].at \in {"idle", "check", "claim", "log", "place", "record"}
         /\ dial[l].at = "idle" <=> dial[l] = Idle
         /\ dial[l].at \in {"place", "record"} =>
              dial[l].log \in Dials /\ log[dial[l].log] \in Log
         /\ Testing(l) \in BOOLEAN
<1>1. dial[l] \in Dial \cup {Idle}
  BY DEF Typed, TypeOK
<1>2. dial[l].at \in {"idle", "check", "claim", "log", "place", "record"}
  BY <1>1 DEF Dial, Idle
<1>3. dial[l].at = "idle" <=> dial[l] = Idle
  BY <1>1 DEF Dial, Idle
<1>4. dial[l].at \in {"place", "record"} => dial[l].log \in Dials
  BY <1>1 DEF Dial, Idle
<1>5. Testing(l) \in BOOLEAN
  BY CampaignAssumption DEF Typed, TypeOK, Testing, Batch
<1> QED BY <1>2, <1>3, <1>4, <1>5 DEF Typed, LogOK

\* A lead moves on to d; the logs that exist stay.
LEMMA StepTyped ==
  ASSUME Typed, NEW l \in Leads, NEW d \in Dial \cup {Idle}, Step(l, d),
         log' \in [Dials -> Log \cup {NoLog}],
         \A j \in Dials : log[j] \in Log => log'[j] \in Log,
         d.at \in {"place", "record"} => log'[d.log] \in Log,
         UNCHANGED hook
  PROVE  dial' \in [Leads -> Dial \cup {Idle}] /\ LogOK'
<1>1. dial' = [dial EXCEPT ![l] = d] /\ dial \in [Leads -> Dial \cup {Idle}]
  BY DEF Step, Typed, TypeOK
<1>2. \A m \in Leads : m # l => dial'[m] = dial[m]
  BY <1>1
<1>3. ASSUME NEW m \in Leads, dial'[m].at \in {"place", "record"} PROVE log'[dial'[m].log] \in Log
  <2>1. CASE m = l
    BY <1>1, <1>3, <2>1
  <2>2. CASE m # l
    BY <1>2, <1>3, <2>2, DialFields
  <2> QED BY <2>1, <2>2
<1>4. hook # NoHook => hook.log \in Dials /\ log[hook.log] \in Log
  BY DEF Typed, TypeOK, Hook, LogOK
<1>5. LogOK'
  BY <1>3, <1>4 DEF LogOK
<1> QED BY <1>1, <1>5

LEMMA PlacesOfDial ==
  /\ Idle \in Dial \cup {Idle} /\ [at |-> "claim"] \in Dial \cup {Idle}
  /\ [at |-> "check"] \in Dial \cup {Idle} /\ [at |-> "log"] \in Dial \cup {Idle}
  /\ \A k \in Dials : /\ [at |-> "place", log |-> k] \in Dial \cup {Idle}
                      /\ [at |-> "record", log |-> k] \in Dial \cup {Idle}
  /\ Idle.at = "idle"
BY DEF Dial, Idle

LEMMA LogsStay ==
  ASSUME Typed, UNCHANGED log
  PROVE  log' \in [Dials -> Log \cup {NoLog}] /\ \A j \in Dials : log[j] \in Log => log'[j] \in Log
BY DEF Typed, TypeOK

\* The batch.
LEMMA TypedBatch ==
  ASSUME Typed, NEW c \in Campaigns, Run(c) \/ Slice(c) \/ RunEnd(c)
  PROVE  Typed'
<1> USE DEF Typed
<1>1. CASE Run(c)
  <2>1. PICK chosen \in SUBSET Eligible(c) :
          batch' = [batch EXCEPT ![c] = [on |-> TRUE, test |-> camp[c].test, left |-> chosen]]
    BY <1>1 DEF Run
  <2>2. [on |-> TRUE, test |-> camp[c].test, left |-> chosen] \in Batch
    BY DEF TypeOK, Batch, Eligible, LeadsIn
  <2> QED BY <1>1, <2>1, <2>2, TypedQuietly DEF Run, TypeOK, optOuts, provider, counters
<1>2. CASE Slice(c)
  <2>1. PICK slice \in SUBSET batch[c].left :
          /\ batch' = [batch EXCEPT ![c].left = @ \ slice]
          /\ dial' = [l \in Leads |-> IF l \in slice THEN [at |-> "check"] ELSE dial[l]]
    BY <1>2 DEF Slice
  <2>2. batch' = [batch EXCEPT ![c] = [batch[c] EXCEPT !.left = batch[c].left \ slice]]
    BY <2>1
  <2>3. batch' \in [Campaigns -> Batch]
    BY <2>2 DEF TypeOK, Batch
  <2>4. dial' \in [Leads -> Dial \cup {Idle}]
    BY <2>1, PlacesOfDial DEF TypeOK
  <2>5. TypeOK'
    BY <1>2, <2>3, <2>4 DEF Slice, TypeOK, optOuts, provider, counters
  <2>6. ASSUME NEW l \in Leads, dial'[l].at \in {"place", "record"} PROVE dial'[l] = dial[l]
    BY <2>1, <2>6
  <2>7. LogOK'
    BY <1>2, <2>6 DEF LogOK, Slice
  <2> QED BY <2>5, <2>7
<1>3. CASE RunEnd(c)
  <2>1. batch' \in [Campaigns -> Batch]
    BY <1>3 DEF RunEnd, NoBatch, TypeOK, Batch
  <2> QED BY <1>3, <2>1, TypedQuietly DEF RunEnd, TypeOK, optOuts, provider, counters
<1> QED BY <1>1, <1>2, <1>3

\* dialOne, up to its log.
LEMMA TypedDialling ==
  ASSUME Typed, NEW l \in Leads, DialCheck(l) \/ DialClaim(l) \/ DialLog(l) \/ DialThrows(l)
  PROVE  Typed'
<1> USE DEF Typed
<1>1. CASE DialCheck(l)
  <2>1. lead' \in [Leads -> Lead]
    BY <1>1, TurnedType DEF DialCheck, TypeOK, Status
  <2>2. PICK d \in {Idle, [at |-> "claim"]} : Step(l, d)
    BY <1>1 DEF DialCheck
  <2>3. dial' \in [Leads -> Dial \cup {Idle}] /\ LogOK'
    BY <1>1, <2>2, PlacesOfDial, LogsStay, StepTyped DEF DialCheck
  <2> QED BY <1>1, <2>1, <2>3 DEF DialCheck, TypeOK, optOuts, provider, counters
<1>2. CASE DialClaim(l)
  <2>1. Claimed(lead[l], Testing(l)) \in Lead
    BY ClaimedType, DialFields DEF TypeOK
  <2>2. lead' \in [Leads -> Lead]
    BY <1>2, <2>1 DEF DialClaim, TypeOK
  <2>3. PICK d \in {Idle, [at |-> "log"]} : Step(l, d)
    BY <1>2 DEF DialClaim
  <2>4. dial' \in [Leads -> Dial \cup {Idle}] /\ LogOK'
    BY <1>2, <2>3, PlacesOfDial, LogsStay, StepTyped DEF DialClaim
  <2> QED BY <1>2, <2>2, <2>4 DEF DialClaim, TypeOK, optOuts, provider, counters
<1>3. CASE DialLog(l)
  <2> DEFINE row == [lead |-> l, status |-> "PENDING", known |-> FALSE, test |-> Testing(l)]
  <2>1. PICK k \in Dials : log' = [log EXCEPT ![k] = row] /\ Step(l, [at |-> "place", log |-> k])
    BY <1>3 DEF DialLog
  <2>2. row \in Log
    BY DialFields DEF Log
  <2>3. /\ log' \in [Dials -> Log \cup {NoLog}] /\ log'[k] \in Log
        /\ \A j \in Dials : log[j] \in Log => log'[j] \in Log
    BY <2>1, <2>2 DEF TypeOK
  <2>4. UNCHANGED hook
    BY <1>3 DEF DialLog
  <2>5. [at |-> "place", log |-> k] \in Dial \cup {Idle} /\ [at |-> "place", log |-> k].log = k
    BY PlacesOfDial
  <2>6. dial' \in [Leads -> Dial \cup {Idle}] /\ LogOK'
    BY <2>1, <2>3, <2>4, <2>5, StepTyped
  <2>7. today' \in [Campaigns -> Nat]
    BY <1>3, CampaignAssumption DEF DialLog, TypeOK
  <2> QED BY <1>3, <2>3, <2>6, <2>7 DEF DialLog, TypeOK, optOuts, provider, counters
<1>4. CASE DialThrows(l)
  <2>1. dial' \in [Leads -> Dial \cup {Idle}] /\ LogOK'
    BY <1>4, PlacesOfDial, LogsStay, StepTyped DEF DialThrows
  <2> QED BY <1>4, <2>1, CampaignLimits DEF DialThrows, TypeOK, optOuts, provider
<1> QED BY <1>1, <1>2, <1>3, <1>4

\* A call comes into being.
LEMMA RingsType ==
  ASSUME Typed, NEW l \in Leads, dial[l].at = "place", Rings(l)
  PROVE  line' \in [Dials -> Line \cup {Silent}] /\ rung' \in [Leads -> Nat]
<1>1. [phase |-> "live"] \in Line
  BY DEF Line
<1> QED BY <1>1, DialFields DEF Rings, Typed, TypeOK

LEMMA FailCallType ==
  ASSUME Typed, NEW l \in Leads, dial[l].at = "place", FailCall(l), UNCHANGED hook
  PROVE  /\ lead' \in [Leads -> Lead] /\ Kept
         /\ log' \in [Dials -> Log \cup {NoLog}]
         /\ dial' \in [Leads -> Dial \cup {Idle}] /\ LogOK'
<1>1. lead' \in [Leads -> Lead] /\ Kept
  BY TurnedType DEF FailCall, Typed, TypeOK, Status, Dialable
<1>2. /\ log' \in [Dials -> Log \cup {NoLog}]
      /\ \A j \in Dials : log[j] \in Log => log'[j] \in Log
  BY LogStatusSet, DialFields DEF FailCall, Typed, TypeOK
<1>3. dial' \in [Leads -> Dial \cup {Idle}] /\ LogOK'
  BY <1>2, PlacesOfDial, StepTyped DEF FailCall
<1> QED BY <1>1, <1>2, <1>3

\* dialOne at the provider, and after it.
LEMMA TypedPlacing ==
  ASSUME Typed, NEW l \in Leads, DialPlace(l) \/ DialRefused(l) \/ DialLost(l) \/ DialRecord(l)
  PROVE  Typed'
<1> USE DEF Typed
<1>1. CASE DialPlace(l)
  <2>1. line' \in [Dials -> Line \cup {Silent}] /\ rung' \in [Leads -> Nat]
    BY <1>1, RingsType DEF DialPlace
  <2>2. dial[l].log \in Dials /\ log[dial[l].log] \in Log
    BY <1>1, DialFields DEF DialPlace
  <2> DEFINE d == [at |-> "record", log |-> dial[l].log]
  <2>3. d \in Dial \cup {Idle} /\ d.log = dial[l].log
    BY <2>2, PlacesOfDial
  <2>4. Step(l, d) /\ UNCHANGED <<log, hook>>
    BY <1>1 DEF DialPlace
  <2>5. dial' \in [Leads -> Dial \cup {Idle}] /\ LogOK'
    BY <2>2, <2>3, <2>4, LogsStay, StepTyped
  <2> QED BY <1>1, <2>1, <2>5 DEF DialPlace, TypeOK, optOuts, counters
<1>2. CASE DialRefused(l)
  <2>1. /\ lead' \in [Leads -> Lead] /\ log' \in [Dials -> Log \cup {NoLog}]
        /\ dial' \in [Leads -> Dial \cup {Idle}] /\ LogOK'
    BY <1>2, FailCallType DEF DialRefused
  <2> QED BY <1>2, <2>1 DEF DialRefused, TypeOK, optOuts, provider, counters
<1>3. CASE DialLost(l)
  <2>1. /\ lead' \in [Leads -> Lead] /\ log' \in [Dials -> Log \cup {NoLog}]
        /\ dial' \in [Leads -> Dial \cup {Idle}] /\ LogOK'
    BY <1>3, FailCallType DEF DialLost
  <2>2. line' \in [Dials -> Line \cup {Silent}] /\ rung' \in [Leads -> Nat]
    BY <1>3, RingsType DEF DialLost
  <2> QED BY <1>3, <2>1, <2>2, CampaignLimits DEF DialLost, TypeOK, optOuts
<1>4. CASE DialRecord(l)
  <2>1. dial[l].log \in Dials /\ log[dial[l].log] \in Log
    BY <1>4, DialFields DEF DialRecord
  <2>2. log' = [log EXCEPT ![dial[l].log] =
                  [log[dial[l].log] EXCEPT !.status = "IN_PROGRESS", !.known = TRUE]]
    BY <1>4, <2>1 DEF DialRecord, TypeOK, Log
  <2>3. /\ log' \in [Dials -> Log \cup {NoLog}]
        /\ \A j \in Dials : log[j] \in Log => log'[j] \in Log
    BY <2>1, <2>2, LogSet DEF TypeOK
  <2>4. dial' \in [Leads -> Dial \cup {Idle}] /\ LogOK'
    BY <1>4, <2>3, PlacesOfDial, StepTyped DEF DialRecord
  <2>5. lead' \in [Leads -> Lead]
    BY <1>4, TurnedType DEF DialRecord, TypeOK, Status, Dialable
  <2> QED BY <1>4, <2>3, <2>4, <2>5 DEF DialRecord, TypeOK, optOuts, provider, counters
<1> QED BY <1>1, <1>2, <1>3, <1>4

\* Results.
LEMMA ResultTyped ==
  ASSUME Typed, NEW k \in Dials, Found(k), NEW d \in Disposition, Result(k, d)
  PROVE  Typed'
<1>1. log[k] \in Log
  BY DEF Found, Typed, TypeOK
<1>2. /\ log' \in [Dials -> Log \cup {NoLog}]
      /\ \A j \in Dials : log[j] \in Log => log'[j] \in Log
  BY <1>1, LogStatusSet DEF Result, Typed, TypeOK
<1>3. log[k].lead \in Leads
  BY <1>1 DEF Log
<1>4. lead[log[k].lead].attempts \in Nat
  BY <1>3, LeadFields DEF Typed, TypeOK
<1>5. hook' = NoHook \/ (hook' \in Hook /\ hook'.log = k)
  BY <1>4 DEF Result, Hook
<1>6. ASSUME NEW m \in Leads, dial[m].at \in {"place", "record"} PROVE log'[dial[m].log] \in Log
  BY <1>2, <1>6, DialFields
<1>7. UNCHANGED dial
  BY DEF Result
<1>8. LogOK'
  BY <1>1, <1>2, <1>5, <1>6, <1>7 DEF LogOK
<1>9. TypeOK'
  BY <1>2, <1>5 DEF Result, Typed, TypeOK, optOuts, provider, counters
<1> QED BY <1>8, <1>9 DEF Typed

LEMMA HookFields ==
  ASSUME Typed, hook # NoHook
  PROVE  /\ hook \in Hook /\ log[hook.log].lead \in Leads
         /\ PhoneOf[log[hook.log].lead] \in Phones
<1>1. hook \in Hook
  BY DEF Typed, TypeOK
<1>2. log[hook.log] \in Log
  BY DEF Typed, LogOK
<1>3. log[hook.log].lead \in Leads
  BY <1>2 DEF Log
<1> QED BY <1>1, <1>3, CampaignAssumption

\* The lead's row after a result keeps its attempts.
LEMMA ScoresType ==
  ASSUME Typed, ResultScores
  PROVE  lead' \in [Leads -> Lead] /\ Kept
<1> DEFINE l    == log[hook.log].lead
           next == NextLeadStatus(hook.disposition, hook.attempts)
<1>1. hook # NoHook
  BY DEF ResultScores, NoHook
<1>2. /\ hook.disposition \in Disposition /\ hook.attempts \in Nat
      /\ l \in Leads
  BY <1>1, HookFields DEF Hook
<1>3. next \in Status
  BY <1>2, NextLeadStatusType
<1>4. lead' = [lead EXCEPT ![l] = Scored(lead[l], next)]
  BY DEF ResultScores
<1>5. lead \in [Leads -> Lead] /\ lead[l] \in Lead
  BY <1>2 DEF Typed, TypeOK
<1> HIDE DEF l, next
<1>6. Scored(lead[l], next) \in Lead /\ Scored(lead[l], next).attempts = lead[l].attempts
  BY <1>3, <1>5, ScoredType
<1> QED BY <1>2, <1>4, <1>5, <1>6, OneLeadChanges

LEMMA TypedResults == ASSUME Typed, Results PROVE Typed'
<1> USE DEF Typed
<1>1. ASSUME NEW k \in Dials, Started(k) PROVE Typed'
  <2>1. log[k] \in Log
    BY <1>1 DEF Started, Found, TypeOK
  <2>2. /\ log' \in [Dials -> Log \cup {NoLog}]
        /\ \A j \in Dials : log[j] \in Log => log'[j] \in Log
    BY <1>1, <2>1, LogStatusSet DEF Started, TypeOK
  <2>3. ASSUME NEW m \in Leads, dial[m].at \in {"place", "record"} PROVE log'[dial[m].log] \in Log
    BY <2>2, <2>3, DialFields
  <2>4. hook # NoHook => hook.log \in Dials /\ log[hook.log] \in Log
    BY DEF TypeOK, Hook, LogOK
  <2>5. LogOK'
    BY <1>1, <2>2, <2>3, <2>4 DEF LogOK, Started
  <2> QED BY <1>1, <2>2, <2>5 DEF Started, TypeOK, optOuts, provider, counters
<1>2. ASSUME NEW k \in Dials, Ended(k) \/ Analyzed(k) PROVE Typed'
  BY <1>2, ResultTyped, OutcomeType DEF Ended, Analyzed
<1>3. ASSUME NEW k \in Dials, Reconcile(k) PROVE Typed'
  BY <1>3, ResultTyped, OutcomeType DEF Reconcile, Stalled
<1>4. CASE ResultSuppresses
  <2>1. hook # NoHook
    BY <1>4 DEF ResultSuppresses, NoHook
  <2>2. PhoneOf[log[hook.log].lead] \in Phones
    BY <2>1, HookFields
  <2> QED BY <1>4, <2>2, TypedQuietly DEF ResultSuppresses, Listed, TypeOK, provider, counters
<1>5. CASE ResultScores
  BY <1>5, ScoresType, TypedQuietly DEF ResultScores, TypeOK, optOuts, provider, counters
<1> QED BY <1>1, <1>2, <1>3, <1>4, <1>5 DEF Results, Webhook

LEMMA TypedCrash == ASSUME Typed, Crash PROVE Typed'
<1>1. NoBatch \in Batch
  BY DEF NoBatch, Batch
<1>2. TypeOK'
  BY <1>1, CampaignLimits DEF Typed, TypeOK, Crash, provider
<1>3. LogOK'
  BY DEF Crash, LogOK, Idle
<1> QED BY <1>2, <1>3 DEF Typed

LEMMA TypedNext == ASSUME Typed, [Next]_vars PROVE Typed'
<1>1. CASE UNCHANGED vars
  BY <1>1 DEF Typed, TypeOK, LogOK, vars
<1> QED
  BY <1>1, TypedList, TypedBatch, TypedDialling, TypedPlacing, TypedOutside, TypedResults, TypedCrash
  DEF Next, Dialler

\* Every variable keeps its type, and everything that refers to a log of a call
\* -- a lead being dialled, a result being applied -- refers to one that exists.
THEOREM CampaignTypeCorrect == Spec => [](TypeOK /\ LogOK)
<1>1. Init => Typed
  BY TypedInit
<1>2. Typed /\ [Next]_vars => Typed'
  BY TypedNext
<1>3. Typed => TypeOK /\ LogOK
  BY DEF Typed
<1> QED BY <1>1, <1>2, <1>3, PTL DEF Spec

-----------------------------------------------------------------------------
(* The attempt budget and the silenced phones.                             *)

LEMMA Counts ==
  ASSUME Typed, NEW l \in Leads
  PROVE  /\ lead[l].attempts \in Nat /\ rung[l] \in Nat /\ MaxAttempts \in Nat
         /\ CampaignOf[l] \in Campaigns
         /\ \A c \in Campaigns : batch[c].on \in BOOLEAN /\ batch[c].left \subseteq Leads
BY LeadFields, CampaignLimits, CampaignAssumption DEF Typed, TypeOK, Batch

LEMMA SafeInit == Init => Safe
<1> SUFFICES ASSUME Init PROVE Safe
  OBVIOUS
<1>1. BatchOK
  BY CampaignAssumption DEF Init, BatchOK, Idle, NoBatch
<1>2. BudgetOK
  BY CampaignLimits DEF Init, BudgetOK, Paid, Idle, NoLead
<1>3. SilenceOK
  BY DEF Init, SilenceOK, Committed, Idle
<1> QED BY <1>1, <1>2, <1>3 DEF Safe

\* No attempt is spent, no call is placed, and leads only drop out of dialOne.
LEMMA SafeReleased ==
  ASSUME Typed, Safe, Kept, UNCHANGED <<batch, rung, suppressed, silenced>>,
         \A l \in Leads : dial'[l] = dial[l] \/ dial'[l] = Idle
  PROVE  Safe'
<1>1. Idle.at = "idle"
  BY DEF Idle
<1>2. ASSUME NEW l \in Leads PROVE Paid(l)' \in {Paid(l), 0} /\ Paid(l) \in {0, 1}
  BY <1>1 DEF Paid, Testing
<1>3. BatchOK'
  BY <1>1 DEF Safe, BatchOK, Kept
<1>4. BudgetOK'
  <2>1. ASSUME NEW l \in Leads
        PROVE  lead'[l].attempts <= MaxAttempts /\ rung'[l] + Paid(l)' <= lead'[l].attempts
    <3>1. lead[l].attempts <= MaxAttempts /\ rung[l] + Paid(l) <= lead[l].attempts
      BY DEF Safe, BudgetOK
    <3>2. lead'[l].attempts = lead[l].attempts /\ rung'[l] = rung[l]
      BY DEF Kept
    <3> QED BY <1>2, <3>1, <3>2, Counts
  <2> QED BY <2>1 DEF BudgetOK
<1>5. SilenceOK'
  BY <1>1 DEF Safe, SilenceOK, Committed
<1> QED BY <1>3, <1>4, <1>5 DEF Safe

\* Nothing of what Safe is about changes, except the leads' other fields.
LEMMA SafeKept ==
  ASSUME Typed, Safe, Kept, UNCHANGED <<dial, batch, rung, suppressed, silenced>>
  PROVE  Safe'
BY SafeReleased

LEMMA SafeSame ==
  ASSUME Typed, Safe, UNCHANGED <<lead, dial, batch, rung, suppressed, silenced>>
  PROVE  Safe'
BY SafeKept DEF Kept

\* A phone joins the list; it is silenced only if none of its leads is on the way.
LEMMA SafeListed ==
  ASSUME Safe, NEW p \in Phones, Listed(p), UNCHANGED <<lead, dial, batch, rung>>
  PROVE  Safe'
<1>1. BatchOK'
  BY DEF Safe, BatchOK
<1>2. BudgetOK'
  BY DEF Safe, BudgetOK, Paid, Testing
<1>3. SilenceOK'
  BY DEF Safe, SilenceOK, Listed, Committed
<1> QED BY <1>1, <1>2, <1>3 DEF Safe

LEMMA SafeList == ASSUME Typed, Safe, List PROVE Safe'
<1>0. lead \in [Leads -> Lead]
  BY DEF Typed, TypeOK
<1>1. ASSUME NEW l \in Leads, IngestCheck(l) PROVE Safe'
  BY <1>1, SafeSame DEF IngestCheck, provider
<1>2. ASSUME NEW l \in Leads, IngestInsert(l) PROVE Safe'
  <2> DEFINE s == IF lead[l].status = "none" THEN "QUEUED" ELSE lead[l].status
  <2>1. s \in Status
    BY <1>0, LeadFields DEF Status, Dialable
  <2>2. lead' = [lead EXCEPT ![l] = [lead[l] EXCEPT !.status = s]]
    BY <1>2 DEF IngestInsert
  <2> HIDE DEF s
  <2>3. Kept
    BY <1>0, <2>1, <2>2, StatusSet, OneLeadChanges
  <2> QED BY <1>2, <2>3, SafeKept DEF IngestInsert, provider
<1>3. ASSUME NEW p \in Phones, MarkAccepted(p) PROVE Safe'
  <2>1. Kept
    BY <1>0, <1>3, StampedType DEF MarkAccepted, Kept, Status
  <2> QED BY <1>3, <2>1, SafeKept DEF MarkAccepted, provider, optOuts
<1>4. ASSUME NEW p \in Phones, Suppress(p) PROVE Safe'
  BY <1>4, SafeListed DEF Suppress, provider
<1>5. ASSUME NEW p \in Phones, MarkDNC(p) PROVE Safe'
  <2>1. Kept
    BY <1>0, <1>5, StampedType DEF MarkDNC, Kept, Status
  <2> QED BY <1>5, <2>1, SafeKept DEF MarkDNC, provider
<1>6. ASSUME NEW c \in Campaigns, UpdateCampaign(c) PROVE Safe'
  BY <1>6, SafeSame DEF UpdateCampaign, provider, optOuts
<1> QED BY <1>1, <1>2, <1>3, <1>4, <1>5, <1>6 DEF List

LEMMA SafeOutside == ASSUME Typed, Safe, Provider \/ Clock PROVE Safe'
<1>0. lead \in [Leads -> Lead]
  BY DEF Typed, TypeOK
<1>1. ASSUME NEW k \in Dials, HangUp(k) \/ Analyse(k) PROVE Safe'
  BY <1>1, SafeSame DEF HangUp, Analyse, optOuts
<1>2. ASSUME NEW c \in Campaigns, Midnight(c) PROVE Safe'
  BY <1>2, SafeSame DEF Midnight, optOuts, provider
<1>3. ASSUME NEW l \in Leads, LeadMidnight(l) PROVE Safe'
  <2>1. lead' = [lead EXCEPT ![l] = [lead[l] EXCEPT !.attempted = FALSE]]
    BY <1>3 DEF LeadMidnight
  <2>2. Kept
    BY <1>0, <2>1, FlagsSet, OneLeadChanges
  <2> QED BY <1>3, <2>2, SafeKept DEF LeadMidnight, optOuts, provider
<1>4. ASSUME NEW l \in Leads, Rested(l) PROVE Safe'
  <2>1. lead' = [lead EXCEPT ![l] = [lead[l] EXCEPT !.rested = TRUE]]
    BY <1>4 DEF Rested
  <2>2. Kept
    BY <1>0, <2>1, FlagsSet, OneLeadChanges
  <2> QED BY <1>4, <2>2, SafeKept DEF Rested, optOuts, provider
<1> QED BY <1>1, <1>2, <1>3, <1>4 DEF Provider, Clock

LEMMA SafeResults == ASSUME Typed, Safe, Results PROVE Safe'
<1>1. ASSUME NEW k \in Dials, Started(k) PROVE Safe'
  BY <1>1, SafeSame DEF Started, optOuts, provider
<1>2. ASSUME NEW k \in Dials, Ended(k) \/ Analyzed(k) \/ Reconcile(k) PROVE Safe'
  BY <1>2, SafeSame DEF Ended, Analyzed, Reconcile, Result, optOuts, provider
<1>3. CASE ResultSuppresses
  <2>1. hook # NoHook
    BY <1>3 DEF ResultSuppresses, NoHook
  <2> QED BY <1>3, <2>1, HookFields, SafeListed DEF ResultSuppresses, provider
<1>4. CASE ResultScores
  BY <1>4, ScoresType, SafeKept DEF ResultScores, optOuts, provider
<1> QED BY <1>1, <1>2, <1>3, <1>4 DEF Results, Webhook

\* A batch begins with the leads that have attempts left, when none is dialled.
LEMMA SafeBatch ==
  ASSUME Typed, Safe, NEW c \in Campaigns, Run(c) \/ Slice(c) \/ RunEnd(c)
  PROVE  Safe'
<1>0. batch \in [Campaigns -> Batch] /\ dial \in [Leads -> Dial \cup {Idle}]
  BY DEF Typed, TypeOK
<1>1. UNCHANGED <<lead, rung, suppressed, silenced>>
  BY DEF Run, Slice, RunEnd, optOuts, provider
<1>2. Idle.at = "idle"
  BY DEF Idle
<1>3. CASE Run(c)
  <2>1. PICK chosen \in SUBSET Eligible(c) :
          batch' = [batch EXCEPT ![c] = [on |-> TRUE, test |-> camp[c].test, left |-> chosen]]
    BY <1>3 DEF Run
  <2>2. ~batch[c].on /\ UNCHANGED dial
    BY <1>3 DEF Run
  <2>3. \A l \in LeadsIn(c) : dial[l] = Idle
    BY <2>2 DEF Safe, BatchOK, LeadsIn
  <2>4. /\ batch'[c].on /\ batch'[c].left = chosen
        /\ \A b \in Campaigns : b # c => batch'[b] = batch[b]
    BY <1>0, <2>1
  <2>5. \A l \in chosen : /\ l \in Leads /\ CampaignOf[l] = c
                          /\ dial[l] = Idle /\ lead[l].attempts < MaxAttempts
    BY <2>3 DEF Eligible, LeadsIn
  <2>6. BatchOK'
    BY <1>1, <1>2, <2>2, <2>3, <2>4, <2>5, CampaignAssumption DEF Safe, BatchOK, LeadsIn
  <2>7. \A l \in Leads : Paid(l)' = Paid(l)
    BY <1>2, <2>2, <2>3, <2>4, CampaignAssumption DEF Paid, Testing, LeadsIn
  <2>8. BudgetOK' /\ SilenceOK'
    BY <1>1, <2>2, <2>7 DEF Safe, BudgetOK, SilenceOK, Committed
  <2> QED BY <2>6, <2>8 DEF Safe
<1>4. CASE Slice(c)
  <2>1. PICK slice \in SUBSET batch[c].left :
          /\ batch' = [batch EXCEPT ![c].left = @ \ slice]
          /\ dial' = [l \in Leads |-> IF l \in slice THEN [at |-> "check"] ELSE dial[l]]
    BY <1>4 DEF Slice
  <2>2. /\ batch'[c].left = batch[c].left \ slice
        /\ \A b \in Campaigns : b # c => batch'[b] = batch[b]
        /\ \A b \in Campaigns : batch'[b].on = batch[b].on /\ batch'[b].test = batch[b].test
    BY <1>0, <2>1 DEF Batch
  <2>3. batch[c].on /\ batch[c].left \subseteq Leads
    BY <1>0, <1>4 DEF Slice, Batch
  <2>4. \A l \in slice : /\ l \in Leads /\ CampaignOf[l] = c /\ dial[l] = Idle
                         /\ lead[l].attempts < MaxAttempts
    BY <2>1, <2>3 DEF Safe, BatchOK
  <2>5. \A l \in Leads : (l \in slice /\ dial'[l].at = "check") \/ dial'[l] = dial[l]
    BY <2>1
  <2>6. \A l \in Leads : l \notin slice => dial'[l] = dial[l]
    BY <2>1
  <2>7. BatchOK'
    BY <1>1, <2>2, <2>3, <2>4, <2>5, <2>6, CampaignAssumption DEF Safe, BatchOK
  <2>8. \A l \in Leads : Paid(l)' = Paid(l)
    BY <1>2, <2>2, <2>4, <2>5, CampaignAssumption DEF Paid, Testing
  <2>9. BudgetOK'
    BY <1>1, <2>8 DEF Safe, BudgetOK
  <2>10. SilenceOK'
    BY <1>1, <2>5 DEF Safe, SilenceOK, Committed
  <2> QED BY <2>7, <2>9, <2>10 DEF Safe
<1>5. CASE RunEnd(c)
  <2>1. /\ batch'[c].left = {} /\ UNCHANGED dial
        /\ \A b \in Campaigns : b # c => batch'[b] = batch[b]
    BY <1>0, <1>5 DEF RunEnd, NoBatch
  <2>2. \A l \in Leads : CampaignOf[l] = c => dial[l] = Idle
    BY <1>5 DEF RunEnd, Resting, LeadsIn
  <2>3. BatchOK'
    BY <1>1, <1>2, <2>1, <2>2, CampaignAssumption DEF Safe, BatchOK
  <2>4. \A l \in Leads : Paid(l)' = Paid(l)
    BY <1>2, <2>1, <2>2, CampaignAssumption DEF Paid, Testing
  <2>5. BudgetOK' /\ SilenceOK'
    BY <1>1, <2>1, <2>4 DEF Safe, BudgetOK, SilenceOK, Committed
  <2> QED BY <2>3, <2>5 DEF Safe
<1> QED BY <1>3, <1>4, <1>5

\* The other leads, when only one moves.
Others(l) == \A m \in Leads \ {l} :
               /\ dial'[m] = dial[m] /\ lead'[m].attempts = lead[m].attempts
               /\ rung'[m] = rung[m]

\* One lead moves on within dialOne: what it must show.
LEMMA SafeMoved ==
  ASSUME Typed, Safe, NEW l \in Leads, dial[l] # Idle, Others(l),
         UNCHANGED <<batch, suppressed, silenced>>,
         dial'[l].at \in {"check", "claim"} => lead'[l].attempts < MaxAttempts,
         lead'[l].attempts <= MaxAttempts, rung'[l] + Paid(l)' <= lead'[l].attempts,
         Committed(l)' => PhoneOf[l] \notin silenced
  PROVE  Safe'
<1>1. l \notin batch[CampaignOf[l]].left /\ \A c \in Campaigns : l \notin batch[c].left
  BY CampaignAssumption DEF Safe, BatchOK
<1>2. batch[CampaignOf[l]].on
  BY DEF Safe, BatchOK
<1>3. BatchOK'
  BY <1>1, <1>2 DEF Safe, BatchOK, Others
<1>4. \A m \in Leads \ {l} : Paid(m)' = Paid(m)
  BY DEF Paid, Testing, Others
<1>5. BudgetOK'
  BY <1>4 DEF Safe, BudgetOK, Others
<1>6. SilenceOK'
  BY DEF Safe, SilenceOK, Committed, Others
<1> QED BY <1>3, <1>5, <1>6 DEF Safe

LEMMA SafeDialling ==
  ASSUME Typed, Safe, NEW l \in Leads, DialCheck(l) \/ DialClaim(l) \/ DialLog(l) \/ DialThrows(l)
  PROVE  Safe'
<1>0. dial \in [Leads -> Dial \cup {Idle}] /\ lead \in [Leads -> Lead]
  BY DEF Typed, TypeOK
<1>1. UNCHANGED <<batch, rung, silenced, suppressed>>
  BY DEF DialCheck, DialClaim, DialLog, DialThrows, optOuts, provider
<1>2. /\ lead[l].attempts \in Nat /\ rung[l] \in Nat /\ MaxAttempts \in Nat
      /\ lead[l].attempts <= MaxAttempts /\ rung[l] + Paid(l) <= lead[l].attempts
  BY Counts DEF Safe, BudgetOK
<1>3. \A d : Step(l, d) => dial'[l] = d /\ \A m \in Leads : m # l => dial'[m] = dial[m]
  BY <1>0 DEF Step
<1>4. Idle.at = "idle"
  BY DEF Idle
<1>5. CASE DialCheck(l) /\ PhoneOf[l] \in suppressed
  <2>1. Kept
    BY <1>0, <1>5, TurnedType DEF DialCheck, Status
  <2> QED BY <1>1, <1>3, <1>5, <2>1, SafeReleased DEF DialCheck
<1>6. CASE DialCheck(l) /\ PhoneOf[l] \notin suppressed
  <2>1. dial'[l].at = "claim" /\ UNCHANGED lead /\ dial[l].at = "check"
    BY <1>3, <1>6 DEF DialCheck
  <2>2. Others(l)
    BY <1>1, <1>3, <1>6 DEF Others, DialCheck
  <2>3. Paid(l) = 0 /\ Paid(l)' = 0
    BY <2>1 DEF Paid
  <2>4. lead[l].attempts < MaxAttempts
    BY <2>1 DEF Safe, BatchOK
  <2>5. PhoneOf[l] \notin silenced
    BY <1>6 DEF Safe, SilenceOK
  <2>6. dial[l] # Idle
    BY <1>4, <2>1
  <2> QED BY <1>1, <1>2, <2>1, <2>2, <2>3, <2>4, <2>5, <2>6, SafeMoved
<1>7. CASE DialClaim(l) /\ lead[l].status \in Dialable
  <2>1. lead' = [lead EXCEPT ![l] = Claimed(lead[l], Testing(l))]
    BY <1>7 DEF DialClaim
  <2>2. Testing(l) \in BOOLEAN
    BY DialFields
  <2>3. Claimed(lead[l], Testing(l)).attempts
          = IF Testing(l) THEN lead[l].attempts ELSE lead[l].attempts + 1
    BY <1>0, <2>2, ClaimedType
  <2>4. /\ lead'[l].attempts = IF Testing(l) THEN lead[l].attempts ELSE lead[l].attempts + 1
        /\ \A m \in Leads : m # l => lead'[m] = lead[m]
    BY <1>0, <2>1, <2>3
  <2>5. dial'[l].at = "log" /\ dial[l].at = "claim"
    BY <1>3, <1>7 DEF DialClaim
  <2>6. Others(l)
    BY <1>1, <1>3, <1>7, <2>4 DEF Others, DialClaim
  <2>7. Paid(l)' = (IF Testing(l) THEN 0 ELSE 1) /\ Paid(l) = 0
    BY <1>1, <2>5 DEF Paid, Testing
  <2>8. lead[l].attempts < MaxAttempts /\ PhoneOf[l] \notin silenced
    BY <2>5 DEF Safe, BatchOK, SilenceOK, Committed
  <2>9. dial[l] # Idle
    BY <1>4, <2>5
  <2>10. lead'[l].attempts <= MaxAttempts
    BY <1>2, <2>2, <2>4, <2>8
  <2>11. rung'[l] + Paid(l)' <= lead'[l].attempts
    BY <1>1, <1>2, <2>2, <2>4, <2>7
  <2> QED BY <1>1, <2>5, <2>6, <2>8, <2>9, <2>10, <2>11, SafeMoved
<1>8. CASE DialClaim(l) /\ lead[l].status \notin Dialable
  BY <1>1, <1>3, <1>8, SafeReleased DEF DialClaim, Kept
<1>9. CASE DialLog(l)
  <2>1. dial[l].at = "log" /\ dial'[l].at = "place" /\ UNCHANGED lead
    BY <1>3, <1>9 DEF DialLog
  <2>2. Others(l)
    BY <1>1, <1>3, <1>9 DEF Others, DialLog
  <2>3. Paid(l)' = Paid(l)
    BY <1>1, <2>1 DEF Paid, Testing
  <2>4. PhoneOf[l] \notin silenced
    BY <2>1 DEF Safe, SilenceOK, Committed
  <2>5. dial[l] # Idle
    BY <1>4, <2>1
  <2> QED BY <1>1, <1>2, <2>1, <2>2, <2>3, <2>4, <2>5, SafeMoved
<1>10. CASE DialThrows(l)
  BY <1>1, <1>3, <1>10, SafeReleased DEF DialThrows, Kept
<1> QED BY <1>5, <1>6, <1>7, <1>8, <1>9, <1>10

\* The call that a claim has paid for.
LEMMA RingsPaid ==
  ASSUME Typed, Safe, NEW l \in Leads, dial[l].at = "place", Rings(l)
  PROVE  rung'[l] <= lead[l].attempts /\ \A m \in Leads : m # l => rung'[m] = rung[m]
<1>1. rung[l] + Paid(l) <= lead[l].attempts
  BY DEF Safe, BudgetOK
<1>2. Testing(l) \in BOOLEAN /\ rung \in [Leads -> Nat] /\ lead[l].attempts \in Nat
  BY DialFields, Counts DEF Typed, TypeOK
<1>3. CASE Testing(l)
  <2>1. UNCHANGED rung /\ Paid(l) = 0
    BY <1>3 DEF Rings, Paid
  <2> QED BY <1>1, <1>2, <2>1
<1>4. CASE ~Testing(l)
  <2>1. rung' = [rung EXCEPT ![l] = rung[l] + 1] /\ Paid(l) = 1
    BY <1>4 DEF Rings, Paid
  <2> QED BY <1>1, <1>2, <2>1
<1> QED BY <1>2, <1>3, <1>4

LEMMA SafePlacing ==
  ASSUME Typed, Safe, NEW l \in Leads,
         DialPlace(l) \/ DialRefused(l) \/ DialLost(l) \/ DialRecord(l)
  PROVE  Safe'
<1>0. dial \in [Leads -> Dial \cup {Idle}] /\ lead \in [Leads -> Lead]
  BY DEF Typed, TypeOK
<1>1. UNCHANGED <<batch, silenced, suppressed>>
  BY DEF DialPlace, DialRefused, DialLost, DialRecord, optOuts
<1>2. \A d : Step(l, d) => dial'[l] = d /\ \A m \in Leads : m # l => dial'[m] = dial[m]
  BY <1>0 DEF Step
<1>3. Idle.at = "idle"
  BY DEF Idle
<1>4. CASE DialPlace(l) \/ DialLost(l)
  <2>1. dial[l].at = "place" /\ Rings(l) /\ UNCHANGED hook
    BY <1>4 DEF DialPlace, DialLost
  <2>2. rung'[l] <= lead[l].attempts /\ \A m \in Leads : m # l => rung'[m] = rung[m]
    BY <2>1, RingsPaid
  <2>3. Kept
    BY <1>4, <2>1, FailCallType DEF DialPlace, DialLost, Kept
  <2>4. dial'[l].at \in {"record", "idle"} /\ \A m \in Leads : m # l => dial'[m] = dial[m]
    BY <1>2, <1>3, <1>4 DEF DialPlace, DialLost, FailCall
  <2>5. Others(l)
    BY <2>2, <2>3, <2>4 DEF Others, Kept
  <2>6. Paid(l)' = 0 /\ ~Committed(l)'
    BY <2>4 DEF Paid, Committed
  <2>7. dial[l] # Idle
    BY <1>3, <2>1
  <2>8. lead'[l].attempts = lead[l].attempts /\ lead[l].attempts <= MaxAttempts
    BY <2>3 DEF Kept, Safe, BudgetOK
  <2>9. rung'[l] \in Nat
    BY <2>1, RingsType
  <2>10. rung'[l] + Paid(l)' <= lead'[l].attempts
    BY <2>2, <2>6, <2>8, <2>9
  <2> QED BY <1>1, <2>4, <2>5, <2>6, <2>7, <2>8, <2>10, SafeMoved
<1>5. CASE DialRefused(l)
  <2>1. Kept
    BY <1>5, FailCallType DEF DialRefused
  <2> QED BY <1>1, <1>2, <1>5, <2>1, SafeReleased DEF DialRefused, FailCall, provider
<1>6. CASE DialRecord(l)
  <2>1. Kept
    BY <1>0, <1>6, TurnedType DEF DialRecord, Kept, Status, Dialable
  <2> QED BY <1>1, <1>2, <1>6, <2>1, SafeReleased DEF DialRecord, provider
<1> QED BY <1>4, <1>5, <1>6

LEMMA SafeCrash == ASSUME Safe, Typed, Crash PROVE Safe'
<1>1. BatchOK'
  BY CampaignAssumption DEF Crash, BatchOK, Idle, NoBatch
<1>2. BudgetOK'
  <2>1. ASSUME NEW l \in Leads
        PROVE  lead'[l].attempts <= MaxAttempts /\ rung'[l] + Paid(l)' <= lead'[l].attempts
    <3>1. lead[l].attempts <= MaxAttempts /\ rung[l] + Paid(l) <= lead[l].attempts
      BY DEF Safe, BudgetOK
    <3>2. Paid(l)' = 0 /\ Paid(l) \in {0, 1}
      BY DEF Crash, Paid, Idle
    <3>3. UNCHANGED <<lead, rung>>
      BY DEF Crash, provider
    <3> QED BY <3>1, <3>2, <3>3, Counts
  <2> QED BY <2>1 DEF BudgetOK
<1>3. SilenceOK'
  BY DEF Crash, Safe, SilenceOK, Committed, Idle
<1> QED BY <1>1, <1>2, <1>3 DEF Safe

LEMMA SafeNext == ASSUME Typed, Safe, [Next]_vars PROVE Safe'
<1>1. CASE UNCHANGED vars
  BY <1>1, SafeSame DEF vars
<1> QED
  BY <1>1, SafeList, SafeBatch, SafeDialling, SafePlacing, SafeOutside, SafeResults, SafeCrash
  DEF Next, Dialler

\* Only a running batch dials, each lead once; every call has been paid for by
\* an attempt; no lead of a silenced phone is on its way to being dialled.
THEOREM CampaignInductive == Spec => []CampaignInv
<1>1. Init => Typed /\ Safe
  BY TypedInit, SafeInit
<1>2. Typed /\ Safe /\ [Next]_vars => Typed' /\ Safe'
  BY TypedNext, SafeNext
<1>3. Typed /\ Safe => CampaignInv
  BY DEF Typed, Safe, CampaignInv
<1> QED BY <1>1, <1>2, <1>3, PTL DEF Spec

\* No lead's number is rung more often than max_attempts allows, whatever is
\* lost, late, repeated or restarted, and however often test mode is switched.
THEOREM CampaignDialBudget == Spec => []DialBudget
<1>1. CampaignInv => DialBudget
  <2> SUFFICES ASSUME CampaignInv, NEW l \in Leads PROVE rung[l] <= MaxAttempts
    BY DEF DialBudget
  <2>1. Typed /\ BudgetOK
    BY DEF CampaignInv, Typed
  <2>2. Paid(l) \in {0, 1}
    BY DEF Paid
  <2>3. lead[l].attempts <= MaxAttempts /\ rung[l] + Paid(l) <= lead[l].attempts
    BY <2>1 DEF BudgetOK
  <2> QED BY <2>1, <2>2, <2>3, Counts
<1> QED BY <1>1, CampaignInductive, PTL

-----------------------------------------------------------------------------
(* Opt-outs.                                                               *)

\* Only a lead that dialOne has brought to the provider rings.
LEMMA OnlyPlacedRing ==
  ASSUME Typed, [Next]_vars, NEW l \in Leads, rung'[l] > rung[l]
  PROVE  Committed(l)
<1>1. rung \in [Leads -> Nat] /\ rung'[l] # rung[l]
  BY DEF Typed, TypeOK
<1>2. ASSUME NEW m \in Leads, dial[m].at = "place", Rings(m) PROVE Committed(l)
  BY <1>1, <1>2 DEF Rings, Committed
<1>3. CASE List
  BY <1>1, <1>3 DEF List, IngestCheck, IngestInsert, MarkAccepted, Suppress, MarkDNC, UpdateCampaign,
                   provider
<1>4. CASE Provider \/ Clock
  BY <1>1, <1>4 DEF Provider, Clock, HangUp, Analyse, Midnight, LeadMidnight, Rested, provider
<1>5. CASE Results
  BY <1>1, <1>5 DEF Results, Webhook, Started, Ended, Analyzed, Reconcile, Result, ResultSuppresses,
                   ResultScores, provider
<1>6. CASE Dialler
  BY <1>1, <1>2, <1>6 DEF Dialler, Run, Slice, RunEnd, DialCheck, DialClaim, DialLog, DialPlace,
                         DialRefused, DialLost, DialRecord, DialThrows, provider
<1>7. CASE Crash \/ UNCHANGED vars
  BY <1>1, <1>7 DEF Crash, vars, provider
<1> QED BY <1>3, <1>4, <1>5, <1>6, <1>7 DEF Next

\* An opt-out that reaches the list while nobody is dialling the number is final.
THEOREM OptOutFinal == Spec => OptOutIsFinal
<1>1. CampaignInv /\ [Next]_vars =>
        [\A l \in Leads : rung'[l] > rung[l] => PhoneOf[l] \notin silenced]_vars
  <2> SUFFICES ASSUME CampaignInv, [Next]_vars, NEW l \in Leads, rung'[l] > rung[l]
               PROVE  PhoneOf[l] \notin silenced
    OBVIOUS
  <2>1. Typed /\ SilenceOK
    BY DEF CampaignInv, Typed
  <2>2. Committed(l)
    BY <2>1, OnlyPlacedRing
  <2> QED BY <2>1, <2>2 DEF SilenceOK
<1> QED BY <1>1, CampaignInductive, PTL DEF Spec, OptOutIsFinal

=============================================================================
