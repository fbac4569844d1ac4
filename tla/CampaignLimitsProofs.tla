------------------------- MODULE CampaignLimitsProofs -------------------------
(***************************************************************************)
(* Proofs about CampaignDialer, on top of its budget: the daily cap of a   *)
(* campaign, that no number rings twice at a time, and that the whole      *)
(* implements CallPromise, for every finite set of leads and every value   *)
(* of the other constants.                                                 *)
(***************************************************************************)
EXTENDS CampaignDialerProofs, FiniteSetTheorems

-----------------------------------------------------------------------------
(* The daily cap.                                                          *)

\* The leads of the running batch whose call has not been logged yet.
Unlogged(c) == batch[c].left \cup {l \in LeadsIn(c) : dial[l].at \in {"check", "claim", "log"}}

\* The cap has room for them, too.
CapOf(c) == today[c] + Cardinality(Unlogged(c)) <= DailyCap
CapOK    == \A c \in Campaigns : CapOf(c)

LEMMA PartOfLeads ==
  ASSUME NEW S \in SUBSET Leads PROVE IsFiniteSet(S) /\ Cardinality(S) \in Nat
BY LeadsAssumption, FS_Subset, FS_CardinalityType

LEMMA UnloggedFinite ==
  ASSUME Typed, NEW c \in Campaigns
  PROVE  /\ Unlogged(c) \in SUBSET Leads /\ IsFiniteSet(Unlogged(c))
         /\ Cardinality(Unlogged(c)) \in Nat /\ today[c] \in Nat /\ DailyCap \in Nat
<1>1. Unlogged(c) \in SUBSET Leads
  BY DEF Unlogged, LeadsIn, Typed, TypeOK, Batch
<1>2. today[c] \in Nat /\ DailyCap \in Nat
  BY CampaignLimits DEF Typed, TypeOK
<1> HIDE DEF Unlogged
<1> QED BY <1>1, <1>2, PartOfLeads

\* Leads drop out of the batch, or a day begins.
LEMMA CapFewer ==
  ASSUME Typed, Typed', NEW c \in Campaigns, CapOf(c),
         Unlogged(c)' \subseteq Unlogged(c), today'[c] <= today[c]
  PROVE  CapOf(c)'
<1>1. Cardinality(Unlogged(c)') <= Cardinality(Unlogged(c))
  BY UnloggedFinite, FS_Subset
<1>2. Unlogged(c)' \in SUBSET Leads
  BY UnloggedFinite
<1>3. Cardinality(Unlogged(c)') \in Nat
  BY <1>2, PartOfLeads
<1>4. today'[c] \in Nat
  BY DEF Typed, TypeOK
<1> QED BY <1>1, <1>3, <1>4, UnloggedFinite DEF CapOf

\* A campaign whose batch and whose leads stand still.
LEMMA CapSame ==
  ASSUME Typed, Typed', NEW c \in Campaigns, CapOf(c), batch'[c].left \subseteq batch[c].left,
         \A l \in LeadsIn(c) : dial'[l] = dial[l] \/ dial'[l].at \notin {"check", "claim", "log"},
         today'[c] <= today[c]
  PROVE  CapOf(c)'
<1>1. LeadsIn(c)' = LeadsIn(c)
  BY DEF LeadsIn
<1>2. Unlogged(c)' \subseteq Unlogged(c)
  BY <1>1 DEF Unlogged
<1> QED BY <1>2, CapFewer

LEMMA CapInit == Init => CapOK
<1> SUFFICES ASSUME Init, NEW c \in Campaigns PROVE CapOf(c)
  BY DEF CapOK
<1>1. Unlogged(c) = {}
  BY DEF Init, Unlogged, NoBatch, Idle, LeadsIn
<1> QED BY <1>1, FS_EmptySet, CampaignLimits DEF Init, CapOf

LEMMA CapBatch ==
  ASSUME Typed, Typed', BatchOK, CapOK, NEW c \in Campaigns, Run(c) \/ Slice(c) \/ RunEnd(c)
  PROVE  CapOK'
<1>1. UNCHANGED today /\ batch \in [Campaigns -> Batch] /\ today \in [Campaigns -> Nat]
  BY DEF Run, Slice, RunEnd, Typed, TypeOK
<1>2. ASSUME NEW b \in Campaigns, b # c PROVE CapOf(b)'
  <2>1. batch'[b] = batch[b]
    BY <1>1, <1>2 DEF Run, Slice, RunEnd
  <2>2. \A l \in LeadsIn(b) : dial'[l] = dial[l]
    <3>1. CASE Slice(c)
      <4>1. \A l \in batch[c].left : CampaignOf[l] = c
        BY Counts DEF BatchOK, Typed, TypeOK, Batch
      <4> QED BY <1>2, <3>1, <4>1 DEF Slice, LeadsIn
    <3>2. CASE ~Slice(c)
      BY <3>2 DEF Run, RunEnd
    <3> QED BY <3>1, <3>2
  <2> QED BY <1>1, <2>1, <2>2, CapSame DEF CapOK
<1>3. CASE Run(c)
  <2>1. PICK chosen \in SUBSET Eligible(c) :
          /\ Cardinality(chosen) <= DailyCap - today[c]
          /\ batch' = [batch EXCEPT ![c] = [on |-> TRUE, test |-> camp[c].test, left |-> chosen]]
    BY <1>3 DEF Run
  <2>2. \A l \in LeadsIn(c) : dial'[l] = Idle
    BY <1>3 DEF Run, BatchOK, LeadsIn
  <2>3. batch'[c].left = chosen
    BY <1>1, <2>1
  <2>4. Unlogged(c)' = chosen
    BY <2>2, <2>3 DEF Unlogged, LeadsIn, Idle
  <2>5. Cardinality(chosen) \in Nat /\ today[c] \in Nat /\ DailyCap \in Nat
    <3>1. chosen \in SUBSET Leads
      BY DEF Eligible, LeadsIn
    <3> QED BY <3>1, PartOfLeads, UnloggedFinite
  <2>6. CapOf(c)'
    BY <1>1, <2>1, <2>4, <2>5 DEF CapOf
  <2> QED BY <1>2, <2>6 DEF CapOK
<1>4. CASE Slice(c)
  <2>1. PICK slice \in SUBSET batch[c].left :
          /\ batch' = [batch EXCEPT ![c].left = @ \ slice]
          /\ dial' = [l \in Leads |-> IF l \in slice THEN [at |-> "check"] ELSE dial[l]]
    BY <1>4 DEF Slice
  <2>2. batch'[c].left = batch[c].left \ slice
    BY <1>1, <2>1 DEF Batch
  <2>3. Unlogged(c)' \subseteq Unlogged(c)
    BY <2>1, <2>2 DEF Unlogged, LeadsIn
  <2>4. CapOf(c)'
    BY <1>1, <2>3, CapFewer DEF CapOK
  <2> QED BY <1>2, <2>4 DEF CapOK
<1>5. CASE RunEnd(c)
  <2>1. CapOf(c)'
    BY <1>1, <1>5, CapSame DEF CapOK, RunEnd, NoBatch
  <2> QED BY <1>2, <2>1 DEF CapOK
<1> QED BY <1>3, <1>4, <1>5

\* A lead that is logged counts, and is no longer among those to be logged.
LEMMA CapLog == ASSUME Typed, Typed', BatchOK, CapOK, NEW l \in Leads, DialLog(l) PROVE CapOK'
<1> DEFINE c == CampaignOf[l]
<1>1. c \in Campaigns /\ today \in [Campaigns -> Nat] /\ dial \in [Leads -> Dial \cup {Idle}]
  BY CampaignAssumption DEF Typed, TypeOK
<1>2. UNCHANGED batch /\ today' = [today EXCEPT ![c] = today[c] + 1] /\ dial[l].at = "log"
  BY DEF DialLog
<1>3. dial'[l].at = "place" /\ \A m \in Leads : m # l => dial'[m] = dial[m]
  BY <1>1 DEF DialLog, Step
<1>4. ASSUME NEW b \in Campaigns, b # c PROVE CapOf(b)'
  <2>1. \A m \in LeadsIn(b) : dial'[m] = dial[m]
    BY <1>3, <1>4 DEF LeadsIn
  <2>2. today'[b] = today[b]
    BY <1>1, <1>2, <1>4
  <2> QED BY <1>1, <1>2, <2>1, <2>2, CapSame DEF CapOK
<1>5. l \in Unlogged(c) /\ l \notin batch[c].left
  BY <1>1, <1>2 DEF Unlogged, LeadsIn, BatchOK, Idle
<1>6. Unlogged(c)' \subseteq Unlogged(c) \ {l}
  BY <1>2, <1>3, <1>5 DEF Unlogged, LeadsIn
<1>7. Cardinality(Unlogged(c) \ {l}) = Cardinality(Unlogged(c)) - 1 /\ IsFiniteSet(Unlogged(c) \ {l})
  BY <1>1, <1>5, UnloggedFinite, FS_RemoveElement
<1>8. Cardinality(Unlogged(c)') <= Cardinality(Unlogged(c)) - 1
  BY <1>6, <1>7, FS_Subset
<1>9. Cardinality(Unlogged(c)') \in Nat /\ today'[c] = today[c] + 1
  <2>1. Unlogged(c)' \in SUBSET Leads
    BY <1>1, <1>6, UnloggedFinite
  <2> QED BY <1>1, <1>2, <2>1, PartOfLeads
<1>10. CapOf(c)'
  BY <1>1, <1>8, <1>9, UnloggedFinite DEF CapOf, CapOK
<1> QED BY <1>4, <1>10 DEF CapOK

\* One lead moves on, or drops out, without a log.
LEMMA CapMoves ==
  ASSUME Typed, Typed', CapOK, NEW l \in Leads, UNCHANGED <<batch, today>>,
         \A m \in Leads : m # l => dial'[m] = dial[m],
         dial[l].at \in {"check", "claim", "log"} \/ dial'[l].at \notin {"check", "claim", "log"}
  PROVE  CapOK'
<1> SUFFICES ASSUME NEW c \in Campaigns PROVE CapOf(c)'
  BY DEF CapOK
<1>1. Unlogged(c)' \subseteq Unlogged(c)
  BY DEF Unlogged, LeadsIn
<1>2. today[c] \in Nat /\ today'[c] = today[c]
  BY UnloggedFinite
<1> QED BY <1>1, <1>2, CapFewer DEF CapOK

LEMMA CapNext == ASSUME Typed, Typed', BatchOK, CapOK, [Next]_vars PROVE CapOK'
<1>1. CASE \E c \in Campaigns : Run(c) \/ Slice(c) \/ RunEnd(c)
  BY <1>1, CapBatch
<1>2. ASSUME NEW l \in Leads, DialLog(l) PROVE CapOK'
  BY <1>2, CapLog
<1>3. ASSUME NEW l \in Leads,
             \/ DialCheck(l) \/ DialClaim(l) \/ DialPlace(l) \/ DialRefused(l) \/ DialLost(l)
             \/ DialRecord(l) \/ DialThrows(l)
      PROVE  CapOK'
  <2>1. UNCHANGED <<batch, today>>
    BY <1>3 DEF DialCheck, DialClaim, DialPlace, DialRefused, DialLost, DialRecord, DialThrows
  <2>2. PICK d : Step(l, d) /\ (\/ dial[l].at \in {"check", "claim"} 
                                \/ d.at \notin {"check", "claim", "log"})
    <3>1. Idle.at = "idle"
      BY DEF Idle
    <3> QED BY <1>3, <3>1 DEF DialCheck, DialClaim, DialPlace, DialRefused, DialLost, DialRecord,
                              DialThrows, FailCall
  <2>3. dial'[l] = d /\ \A m \in Leads : m # l => dial'[m] = dial[m]
    BY <2>2 DEF Step, Typed, TypeOK
  <2> QED BY <2>1, <2>2, <2>3, CapMoves
<1>4. ASSUME NEW c \in Campaigns, Midnight(c) PROVE CapOK'
  <2>1. UNCHANGED <<batch, dial>> /\ \A b \in Campaigns : today'[b] <= today[b]
    BY <1>4 DEF Midnight, Typed, TypeOK
  <2> QED BY <2>1, CapSame DEF CapOK
<1>5. CASE Crash
  <2>1. UNCHANGED today /\ \A c \in Campaigns : batch'[c].left = {} /\ today[c] \in Nat
    BY <1>5 DEF Crash, NoBatch, Typed, TypeOK
  <2>2. \A l \in Leads : dial'[l].at = "idle"
    BY <1>5 DEF Crash, Idle
  <2>3. \A c \in Campaigns : Unlogged(c)' = {}
    BY <2>1, <2>2 DEF Unlogged, LeadsIn
  <2> QED BY <2>1, <2>3, CapFewer DEF CapOK
<1>6. ASSUME UNCHANGED <<batch, dial, today>> PROVE CapOK'
  <2>1. \A c \in Campaigns : today[c] \in Nat
    BY UnloggedFinite
  <2> QED BY <1>6, <2>1, CapSame DEF CapOK
<1>7. ASSUME List \/ Provider \/ Results \/ UNCHANGED vars
             \/ (\E l \in Leads : LeadMidnight(l) \/ Rested(l))
      PROVE  UNCHANGED <<batch, dial, today>>
  BY <1>7 DEF List, Provider, Results, Webhook, LeadMidnight, Rested, vars, IngestCheck, IngestInsert,
     MarkAccepted, Suppress, MarkDNC, UpdateCampaign, HangUp, Analyse, Started, Ended, Analyzed,
     Reconcile, Result, ResultSuppresses, ResultScores
<1> QED BY <1>1, <1>2, <1>3, <1>4, <1>5, <1>6, <1>7 DEF Next, Dialler, Clock

\* A campaign logs no more calls between two midnights than its cap, whatever the
\* number of batches, restarts and failed statements: each batch leaves room for
\* the leads it has still to log.
THEOREM CampaignCapHeld == Spec => []DailyCapHeld
<1>1. Typed /\ Safe /\ CapOK => DailyCapHeld
  <2> SUFFICES ASSUME Typed, CapOK, NEW c \in Campaigns PROVE today[c] <= DailyCap
    BY DEF DailyCapHeld
  <2> QED BY UnloggedFinite DEF CapOK, CapOf
<1>2. Init => Typed /\ Safe /\ CapOK
  BY TypedInit, SafeInit, CapInit
<1>3. Typed /\ Safe /\ CapOK /\ [Next]_vars => Typed' /\ Safe' /\ CapOK'
  BY TypedNext, SafeNext, CapNext DEF Safe
<1> QED BY <1>1, <1>2, <1>3, PTL DEF Spec

-----------------------------------------------------------------------------
(* No number rings twice at a time.                                        *)

\* The lead may be dialled, or will be once it is on the list.
Open(l)  == lead[l].status \in Dialable \cup {"none"} /\ lead[l].rested

\* The lead's turn comes, or its call is about to be placed, or was a test.
Waits(l) == \/ l \in batch[CampaignOf[l]].left
            \/ dial[l].at \in {"check", "claim", "log", "place"}
            \/ dial[l].at = "record" /\ Testing(l)

Single(l) == \A j, k \in Dials : Ringing(j, l) /\ Ringing(k, l) => j = k
Closed(l) == \A k \in Dials : Ringing(k, l) => ~Open(l) /\ ~Waits(l)
Claims(l) == dial[l].at \in {"log", "place"} => ~Open(l)

\* The log that dialOne wrote for the lead; no webhook finds it yet.
OwnLog(l, k) ==
  /\ log[k].lead = l /\ log[k].test = Testing(l) /\ ~log[k].known /\ log[k].status = "PENDING"
  /\ dial[l].at = "place" => line[k] = Silent
Placing(l) == dial[l].at \in {"place", "record"} => OwnLog(l, dial[l].log)
RingOf(l)  == Single(l) /\ Closed(l) /\ Claims(l) /\ Placing(l)

\* Nothing rings without a log, and a log that failed is never found again.
LogOf(k) == /\ log[k] = NoLog => line[k] = Silent
            /\ log[k] # NoLog /\ log[k].status = "FAILED" => ~log[k].known
LogsOK == \A k \in Dials : LogOf(k)
RingOK == LogsOK /\ \A l \in Leads : RingOf(l)

LEMMA RingInit == Init => RingOK
<1> SUFFICES ASSUME Init PROVE RingOK
  OBVIOUS
<1>1. \A k \in Dials, l \in Leads : ~Ringing(k, l)
  BY DEF Init, Ringing, RealCall, Silent
<1>2. \A l \in Leads : dial[l].at = "idle"
  BY DEF Init, Idle
<1>3. LogsOK
  BY DEF Init, LogsOK, LogOf
<1> QED BY <1>1, <1>2, <1>3 DEF RingOK, RingOf, Single, Closed, Claims, Placing

\* A lead for which nothing new rings and nothing new opens.
LEMMA RingKept ==
  ASSUME NEW l \in Leads, RingOf(l),
         \A k \in Dials : Ringing(k, l)' => Ringing(k, l) /\ (Open(l)' => Open(l)) /\ (Waits(l)' => Waits(l)),
         dial'[l].at \in {"log", "place"} => dial[l].at \in {"log", "place"} /\ (Open(l)' => Open(l)),
         Placing(l)'
  PROVE  RingOf(l)'
<1>1. Single(l)' /\ Closed(l)'
  BY DEF RingOf, Single, Closed
<1>2. Claims(l)'
  BY DEF RingOf, Claims
<1> QED BY <1>1, <1>2 DEF RingOf

\* Logs and calls stand still, and so does the lead, or its batch goes on without it.
LEMMA RingStays ==
  ASSUME NEW l \in Leads, RingOf(l), UNCHANGED <<log, line>>, Open(l)' => Open(l),
         dial'[l] = dial[l] \/ dial'[l].at = "idle",
         dial'[l].at # "idle" => (Testing(l)' <=> Testing(l)) /\ Testing(l)' = Testing(l),
         l \in batch'[CampaignOf[l]].left => l \in batch[CampaignOf[l]].left
  PROVE  RingOf(l)'
<1>1. \A k \in Dials : Ringing(k, l)' => Ringing(k, l)
  BY DEF Ringing, RealCall
<1>2. Waits(l)' => Waits(l)
  BY DEF Waits
<1>3. Placing(l)'
  BY DEF RingOf, Placing, OwnLog
<1> QED BY <1>1, <1>2, <1>3, RingKept

\* Only the leads' rows change, and none opens.
LEMMA RingRows ==
  ASSUME RingOK, UNCHANGED <<log, line, dial, batch>>, \A l \in Leads : Open(l)' => Open(l)
  PROVE  RingOK'
<1>1. LogsOK'
  BY DEF RingOK, LogsOK, LogOf
<1>2. \A l \in Leads : Testing(l)' = Testing(l)
  BY DEF Testing
<1>3. \A l \in Leads : RingOf(l)'
  BY <1>2, RingStays DEF RingOK
<1> QED BY <1>1, <1>3 DEF RingOK

LEMMA StampedClosed ==
  ASSUME lead \in [Leads -> Lead], NEW p \in Phones, NEW s \in Status \ (Dialable \cup {"none"}),
         lead' = Stamped(p, s), NEW l \in Leads, Open(l)'
  PROVE  Open(l)
BY LeadFields, StatusSet DEF Stamped, Open, Lead

LEMMA RingList == ASSUME Typed, RingOK, List PROVE RingOK'
<1>0. lead \in [Leads -> Lead]
  BY DEF Typed, TypeOK
<1>1. ASSUME NEW l \in Leads, IngestCheck(l) PROVE RingOK'
  BY <1>1, RingRows DEF IngestCheck, provider, Open
<1>2. ASSUME NEW l \in Leads, IngestInsert(l) PROVE RingOK'
  <2>1. lead' = [lead EXCEPT ![l] = [lead[l] EXCEPT !.status =
                   IF lead[l].status = "none" THEN "QUEUED" ELSE lead[l].status]]
    BY <1>2 DEF IngestInsert
  <2>2. \A m \in Leads : Open(m)' => Open(m)
    BY <1>0, <2>1 DEF Open, Lead
  <2> QED BY <1>2, <2>2, RingRows DEF IngestInsert, provider
<1>3. ASSUME NEW p \in Phones, MarkAccepted(p) PROVE RingOK'
  <2>1. \A l \in Leads : Open(l)' => Open(l)
    BY <1>0, <1>3, StampedClosed DEF MarkAccepted, Status, Dialable
  <2> QED BY <1>3, <2>1, RingRows DEF MarkAccepted, provider
<1>4. ASSUME NEW p \in Phones, Suppress(p) PROVE RingOK'
  BY <1>4, RingRows DEF Suppress, provider, Open
<1>5. ASSUME NEW p \in Phones, MarkDNC(p) PROVE RingOK'
  <2>1. \A l \in Leads : Open(l)' => Open(l)
    BY <1>0, <1>5, StampedClosed DEF MarkDNC, Status, Dialable
  <2> QED BY <1>5, <2>1, RingRows DEF MarkDNC, provider
<1>6. ASSUME NEW c \in Campaigns, UpdateCampaign(c) PROVE RingOK'
  BY <1>6, RingRows DEF UpdateCampaign, provider, Open
<1> QED BY <1>1, <1>2, <1>3, <1>4, <1>5, <1>6 DEF List

LEMMA RingClock == ASSUME Typed, RingOK, Clock PROVE RingOK'
<1>0. lead \in [Leads -> Lead]
  BY DEF Typed, TypeOK
<1>1. ASSUME NEW c \in Campaigns, Midnight(c) PROVE RingOK'
  BY <1>1, RingRows DEF Midnight, provider, Open
<1>2. ASSUME NEW l \in Leads, LeadMidnight(l) PROVE RingOK'
  <2>1. lead' = [lead EXCEPT ![l] = [lead[l] EXCEPT !.attempted = FALSE]]
    BY <1>2 DEF LeadMidnight
  <2>2. \A m \in Leads : Open(m)' => Open(m)
    BY <1>0, <2>1 DEF Open, Lead
  <2> QED BY <1>2, <2>2, RingRows DEF LeadMidnight, provider
<1>3. ASSUME NEW l \in Leads, Rested(l) PROVE RingOK'
  <2>1. UNCHANGED <<log, line, dial, batch>>
    BY <1>3 DEF Rested, provider
  <2>2. \A k \in Dials : ~Ringing(k, l)'
    BY <1>3, <2>1 DEF Rested, Ringing, RealCall
  <2>3. \A m \in Leads : m # l => lead'[m] = lead[m]
    BY <1>0, <1>3 DEF Rested
  <2>4. \A m \in Leads : Testing(m)' = Testing(m)
    BY <2>1 DEF Testing
  <2>5. ASSUME NEW m \in Leads, m # l PROVE RingOf(m)'
    BY <2>1, <2>3, <2>4, <2>5, RingStays DEF RingOK, Open
  <2>6. dial[l].at = "idle" /\ Placing(l)'
    BY <1>3, <2>1 DEF Rested, Idle, Placing
  <2>7. RingOf(l)'
    BY <2>1, <2>2, <2>6, RingKept DEF RingOK
  <2>8. LogsOK'
    BY <2>1 DEF RingOK, LogsOK, LogOf
  <2> QED BY <2>5, <2>7, <2>8 DEF RingOK
<1> QED BY <1>1, <1>2, <1>3 DEF Clock

-----------------------------------------------------------------------------
(* Results and hang-ups.                                                   *)

\* Calls end, and the logs that a webhook can find change their status.
LEMMA RingLogs ==
  ASSUME Typed, RingOK, UNCHANGED <<lead, dial, batch>>,
         \A k \in Dials, l \in Leads : Ringing(k, l)' => Ringing(k, l),
         \A k \in Dials : log[k] \in Log /\ ~log[k].known => log'[k] = log[k],
         \A k \in Dials : line[k] = Silent => line'[k] = Silent,
         LogsOK'
  PROVE  RingOK'
<1> SUFFICES ASSUME NEW l \in Leads PROVE RingOf(l)'
  BY DEF RingOK
<1>1. Open(l)' = Open(l) /\ Waits(l)' = Waits(l) /\ Testing(l)' = Testing(l)
  BY DEF Open, Waits, Testing
<1>2. Placing(l)'
  <2> SUFFICES ASSUME dial[l].at \in {"place", "record"} PROVE OwnLog(l, dial[l].log)'
    BY DEF Placing
  <2>1. dial[l].log \in Dials /\ log[dial[l].log] \in Log /\ OwnLog(l, dial[l].log)
    BY DialFields DEF RingOK, RingOf, Placing
  <2>2. log'[dial[l].log] = log[dial[l].log]
    BY <2>1 DEF OwnLog
  <2> QED BY <1>1, <2>1, <2>2 DEF OwnLog
<1> QED BY <1>1, <1>2, RingKept DEF RingOK

\* The status of a log that a webhook finds changes, but not to "FAILED".
LEMMA RingFound ==
  ASSUME Typed, RingOK, NEW j \in Dials, Found(j), NEW s \in {"IN_PROGRESS", "DONE"},
         log' = [log EXCEPT ![j].status = s], UNCHANGED <<lead, line, dial, batch>>
  PROVE  RingOK'
<1>1. log[j] \in Log /\ log[j].known /\ log[j].status # "FAILED"
  BY DEF Found, Typed, TypeOK, RingOK, LogsOK, LogOf
<1>2. /\ \A k \in Dials : k # j => log'[k] = log[k]
      /\ log'[j] \in Log /\ log'[j].lead = log[j].lead /\ log'[j].test = log[j].test
      /\ log'[j].status # "FAILED" /\ log'[j].known
  BY <1>1 DEF Typed, TypeOK, Log
<1>3. log'[j] # NoLog /\ log[j] # NoLog
  BY <1>1, <1>2 DEF Found, Log, NoLog
<1>4. \A k \in Dials, l \in Leads : Ringing(k, l)' => Ringing(k, l)
  BY <1>1, <1>2, <1>3 DEF Ringing, RealCall
<1>5. LogsOK'
  BY <1>2, <1>3 DEF RingOK, LogsOK, LogOf
<1> QED BY <1>1, <1>2, <1>4, <1>5, RingLogs

LEMMA RingProvider == ASSUME Typed, RingOK, Provider PROVE RingOK'
<1>0. line \in [Dials -> Line \cup {Silent}]
  BY DEF Typed, TypeOK
<1>1. PICK j \in Dials : HangUp(j) \/ Analyse(j)
  BY DEF Provider
<1>2. UNCHANGED <<lead, dial, batch, log>>
  BY <1>1 DEF HangUp, Analyse
<1>3. \A k \in Dials : k # j => line'[k] = line[k]
  BY <1>0, <1>1 DEF HangUp, Analyse
<1>4. line[j] # Silent /\ line'[j].phase # "live"
  <2>1. CASE HangUp(j)
    BY <1>0, <2>1 DEF HangUp, Silent
  <2>2. CASE Analyse(j)
    <3>1. line[j] \in [phase : {"over", "analysed"}, outcome : Outcomes]
      BY <1>0, <2>2 DEF Analyse, Line, Silent
    <3> QED BY <1>0, <2>2, <3>1 DEF Analyse, Silent
  <2> QED BY <1>1, <2>1, <2>2
<1>5. \A k \in Dials, l \in Leads : Ringing(k, l)' => Ringing(k, l)
  BY <1>2, <1>3, <1>4 DEF Ringing, RealCall
<1>6. LogsOK'
  BY <1>2, <1>3, <1>4 DEF RingOK, LogsOK, LogOf
<1> QED BY <1>2, <1>3, <1>4, <1>5, <1>6, RingLogs

LEMMA RingResults == ASSUME Typed, RingOK, Results PROVE RingOK'
<1>1. ASSUME NEW k \in Dials, Started(k) PROVE RingOK'
  BY <1>1, RingFound DEF Started, provider
<1>2. ASSUME NEW k \in Dials, Ended(k) \/ Analyzed(k) \/ Reconcile(k) PROVE RingOK'
  BY <1>2, RingFound DEF Ended, Analyzed, Reconcile, Stalled, Result, provider
<1>3. CASE ResultSuppresses
  BY <1>3, RingRows DEF ResultSuppresses, provider, Open
<1>4. CASE ResultScores
  <2> DEFINE l    == log[hook.log].lead
             next == NextLeadStatus(hook.disposition, hook.attempts)
  <2>1. hook # NoHook
    BY <1>4 DEF ResultScores, NoHook
  <2>2. hook.disposition \in Disposition /\ l \in Leads
    BY <2>1, HookFields DEF Hook
  <2>3. next \notin {"none", "QUEUED"}
    BY <2>2 DEF NextLeadStatus, Disposition
  <2>4. lead' = [lead EXCEPT ![l] = Scored(lead[l], next)]
    BY <1>4 DEF ResultScores
  <2>5. lead \in [Leads -> Lead]
    BY DEF Typed, TypeOK
  <2> HIDE DEF l, next
  <2>6. Scored(lead[l], next).status = next /\
        (next \in {"RETRY", "VM"} => Scored(lead[l], next).rested = FALSE)
    BY <2>2, <2>5 DEF Scored, Lead
  <2>7. \A m \in Leads : Open(m)' => Open(m)
    BY <2>2, <2>3, <2>4, <2>5, <2>6 DEF Open, Dialable
  <2> QED BY <1>4, <2>7, RingRows DEF ResultScores, provider
<1> QED BY <1>1, <1>2, <1>3, <1>4 DEF Results, Webhook

-----------------------------------------------------------------------------
(* Batches and restarts.                                                   *)

LEMMA LogsStand == ASSUME RingOK, UNCHANGED <<log, line>> PROVE LogsOK'
BY DEF RingOK, LogsOK, LogOf

\* Leads come into a batch when they are open, and are dialled when their turn comes.
LEMMA RingBatch ==
  ASSUME Typed, BatchOK, RingOK, NEW c \in Campaigns, Run(c) \/ Slice(c) \/ RunEnd(c)
  PROVE  RingOK'
<1>0. batch \in [Campaigns -> Batch] /\ dial \in [Leads -> Dial \cup {Idle}]
  BY DEF Typed, TypeOK
<1>1. UNCHANGED <<lead, log, line>>
  BY DEF Run, Slice, RunEnd, provider
<1>2. \A l \in Leads : Open(l)' = Open(l) /\ \A k \in Dials : Ringing(k, l)' = Ringing(k, l)
  BY <1>1 DEF Open, Ringing, RealCall
<1>3. SUFFICES ASSUME NEW l \in Leads PROVE RingOf(l)'
  BY <1>1, LogsStand DEF RingOK
<1>4. RingOf(l) /\ CampaignOf[l] \in Campaigns
  BY CampaignAssumption DEF RingOK
<1>5. CASE Run(c)
  <2>1. PICK chosen \in SUBSET Eligible(c) :
          batch' = [batch EXCEPT ![c] = [on |-> TRUE, test |-> camp[c].test, left |-> chosen]]
    BY <1>5 DEF Run
  <2>2. UNCHANGED dial /\ (CampaignOf[l] = c => dial[l].at = "idle")
    BY <1>5 DEF Run, BatchOK, Idle
  <2>3. CASE l \in chosen
    <3>1. Open(l) /\ CampaignOf[l] = c
      BY <2>3 DEF Eligible, LeadsIn, Open
    <3>2. \A k \in Dials : ~Ringing(k, l)
      BY <1>4, <3>1 DEF RingOf, Closed
    <3>3. Placing(l)'
      BY <2>2, <3>1 DEF Placing
    <3> QED BY <1>2, <1>4, <2>2, <3>2, <3>3, RingKept
  <2>4. CASE l \notin chosen
    <3>1. CampaignOf[l] = c => l \notin batch'[c].left
      BY <1>0, <2>1, <2>4
    <3>2. CampaignOf[l] # c => batch'[CampaignOf[l]] = batch[CampaignOf[l]]
      BY <1>0, <1>4, <2>1
    <3>3. dial'[l].at # "idle" => Testing(l)' = Testing(l)
      BY <2>2, <3>2 DEF Testing
    <3> QED BY <1>1, <1>2, <1>4, <2>2, <3>1, <3>2, <3>3, RingStays
  <2> QED BY <2>3, <2>4
<1>6. CASE Slice(c)
  <2>1. PICK slice \in SUBSET batch[c].left :
          /\ batch' = [batch EXCEPT ![c].left = @ \ slice]
          /\ dial' = [m \in Leads |-> IF m \in slice THEN [at |-> "check"] ELSE dial[m]]
    BY <1>6 DEF Slice
  <2>2. \A b \in Campaigns : batch'[b].test = batch[b].test /\ batch'[b].left \subseteq batch[b].left
    BY <1>0, <2>1 DEF Batch
  <2>3. Testing(l)' = Testing(l)
    BY <1>4, <2>2 DEF Testing
  <2>4. CASE l \in slice
    <3>1. Waits(l) /\ dial'[l].at = "check"
      BY <2>1, <2>4 DEF BatchOK, Waits
    <3>2. \A k \in Dials : ~Ringing(k, l)
      BY <1>4, <3>1 DEF RingOf, Closed
    <3> QED BY <1>2, <1>4, <3>1, <3>2, RingKept DEF Placing
  <2>5. CASE l \notin slice
    <3>1. dial'[l] = dial[l]
      BY <2>1, <2>5
    <3> QED BY <1>1, <1>2, <1>4, <2>2, <2>3, <3>1, RingStays
  <2> QED BY <2>4, <2>5
<1>7. CASE RunEnd(c)
  <2>1. UNCHANGED dial /\ (CampaignOf[l] = c => dial[l].at = "idle")
    BY <1>7 DEF RunEnd, Resting, LeadsIn, Idle
  <2>2. /\ batch'[CampaignOf[l]].left \subseteq batch[CampaignOf[l]].left
        /\ CampaignOf[l] # c => batch'[CampaignOf[l]] = batch[CampaignOf[l]]
    BY <1>0, <1>4, <1>7 DEF RunEnd, NoBatch
  <2>3. dial'[l].at # "idle" => Testing(l)' = Testing(l)
    BY <2>1, <2>2 DEF Testing
  <2> QED BY <1>1, <1>2, <1>4, <2>1, <2>2, <2>3, RingStays
<1> QED BY <1>5, <1>6, <1>7

LEMMA RingCrash == ASSUME RingOK, Crash PROVE RingOK'
<1>1. UNCHANGED <<lead, log, line>>
  BY DEF Crash, provider
<1>2. ASSUME NEW l \in Leads PROVE RingOf(l)'
  <2>1. dial'[l].at = "idle" /\ l \notin batch'[CampaignOf[l]].left
    BY CampaignAssumption DEF Crash, Idle, NoBatch
  <2> QED BY <1>1, <2>1, RingStays DEF RingOK, Open
<1> QED BY <1>1, <1>2, LogsStand DEF RingOK

-----------------------------------------------------------------------------
(* dialOne.                                                                *)

\* One lead moves; no log and no call changes.
LEMMA RingMoves ==
  ASSUME Typed, RingOK, NEW l \in Leads, UNCHANGED <<log, line, batch>>,
         \A m \in Leads : m # l => dial'[m] = dial[m] /\ lead'[m] = lead[m],
         RingOf(l)'
  PROVE  RingOK'
<1>1. ASSUME NEW m \in Leads, m # l PROVE RingOf(m)'
  <2>1. Testing(m)' = Testing(m) /\ Open(m)' = Open(m)
    BY <1>1 DEF Testing, Open
  <2> QED BY <1>1, <2>1, RingStays DEF RingOK
<1> QED BY <1>1, LogsStand DEF RingOK

\* One lead moves; a log, its own from now on at least, and the call behind it change.
LEMMA RingTouches ==
  ASSUME Typed, RingOK, NEW l \in Leads, UNCHANGED batch,
         \A m \in Leads : m # l => dial'[m] = dial[m] /\ lead'[m] = lead[m],
         NEW j \in Dials, log[j] = NoLog \/ log[j].lead = l, log'[j].lead = l,
         \A k \in Dials : k # j => log'[k] = log[k] /\ line'[k] = line[k],
         LogOf(j)', RingOf(l)'
  PROVE  RingOK'
<1>1. LogsOK'
  BY DEF RingOK, LogsOK, LogOf
<1>2. ASSUME NEW m \in Leads, m # l PROVE RingOf(m)'
  <2>1. Testing(m)' = Testing(m) /\ Open(m)' = Open(m) /\ Waits(m)' = Waits(m)
    BY <1>2 DEF Testing, Open, Waits
  <2>2. \A k \in Dials : Ringing(k, m)' => Ringing(k, m)
    BY <1>2 DEF Ringing, RealCall
  <2>3. Placing(m)'
    <3> SUFFICES ASSUME dial[m].at \in {"place", "record"} PROVE OwnLog(m, dial[m].log)'
      BY <1>2 DEF Placing
    <3>1. dial[m].log \in Dials /\ log[dial[m].log] \in Log /\ OwnLog(m, dial[m].log)
      BY DialFields DEF RingOK, RingOf, Placing
    <3>2. log[dial[m].log] # NoLog
      BY <3>1 DEF Log, NoLog
    <3>3. dial[m].log # j
      BY <1>2, <3>1, <3>2 DEF OwnLog
    <3> QED BY <1>2, <2>1, <3>1, <3>3 DEF OwnLog
  <2> QED BY <1>2, <2>1, <2>2, <2>3, RingKept DEF RingOK
<1> QED BY <1>1, <1>2 DEF RingOK

\* A lead for which nothing rings.
LEMMA RingSilent ==
  ASSUME NEW l \in Leads, \A k \in Dials : ~Ringing(k, l)', Claims(l)', Placing(l)'
  PROVE  RingOf(l)'
BY DEF RingOf, Single, Closed

LEMMA RingDialling ==
  ASSUME Typed, BatchOK, RingOK, NEW l \in Leads, DialCheck(l) \/ DialClaim(l) \/ DialThrows(l)
  PROVE  RingOK'
<1>0. lead \in [Leads -> Lead] /\ dial \in [Leads -> Dial \cup {Idle}] /\ RingOf(l)
  BY DEF Typed, TypeOK, RingOK
<1>1. UNCHANGED <<log, line, batch>>
  BY DEF DialCheck, DialClaim, DialThrows, provider
<1>2. \A d : Step(l, d) => dial'[l] = d /\ \A m \in Leads : m # l => dial'[m] = dial[m]
  BY <1>0 DEF Step
<1>3. \A k \in Dials : Ringing(k, l)' => Ringing(k, l)
  BY <1>1 DEF Ringing, RealCall
<1>4. ASSUME Step(l, Idle), Open(l)' => Open(l), \A m \in Leads : m # l => lead'[m] = lead[m]
      PROVE  RingOK'
  <2>1. dial'[l].at = "idle" /\ \A m \in Leads : m # l => dial'[m] = dial[m]
    BY <1>2, <1>4 DEF Idle
  <2>2. RingOf(l)'
    BY <1>0, <1>1, <1>4, <2>1, RingStays
  <2> QED BY <1>1, <1>4, <2>1, <2>2, RingMoves
<1>5. CASE DialCheck(l) /\ PhoneOf[l] \in suppressed
  <2>1. lead' = [lead EXCEPT ![l] = [lead[l] EXCEPT !.status = "DNC"]] /\ Step(l, Idle)
    BY <1>5 DEF DialCheck, Turned
  <2>2. ~Open(l)' /\ \A m \in Leads : m # l => lead'[m] = lead[m]
    BY <1>0, <2>1 DEF Open, Dialable, Lead
  <2> QED BY <1>4, <2>1, <2>2
<1>6. CASE DialCheck(l) /\ PhoneOf[l] \notin suppressed
  <2>1. UNCHANGED lead /\ dial'[l].at = "claim" /\ dial[l].at = "check"
        /\ \A m \in Leads : m # l => dial'[m] = dial[m]
    BY <1>2, <1>6 DEF DialCheck
  <2>2. Waits(l) /\ Open(l)' = Open(l) /\ Placing(l)'
    BY <2>1 DEF Waits, Open, Placing
  <2>3. RingOf(l)'
    BY <1>0, <1>3, <2>1, <2>2, RingKept
  <2> QED BY <1>1, <2>1, <2>3, RingMoves
<1>7. CASE DialClaim(l) /\ lead[l].status \in Dialable
  <2>1. lead' = [lead EXCEPT ![l] = Claimed(lead[l], Testing(l))] /\ Step(l, [at |-> "log"])
    BY <1>7 DEF DialClaim
  <2>2. Claimed(lead[l], Testing(l)).status = "CALLING"
    BY <1>0, DialFields DEF Claimed, Lead
  <2>3. ~Open(l)' /\ \A m \in Leads : m # l => lead'[m] = lead[m]
    BY <1>0, <2>1, <2>2 DEF Open, Dialable
  <2>4. dial'[l].at = "log" /\ \A m \in Leads : m # l => dial'[m] = dial[m]
    BY <1>2, <2>1
  <2>5. Waits(l)
    BY <1>7 DEF DialClaim, Waits
  <2>6. RingOf(l)'
    BY <1>0, <1>3, <2>3, <2>4, <2>5, RingSilent DEF RingOf, Closed, Claims, Placing
  <2> QED BY <1>1, <2>3, <2>4, <2>6, RingMoves
<1>8. CASE DialClaim(l) /\ lead[l].status \notin Dialable
  BY <1>4, <1>8 DEF DialClaim, Open
<1>9. CASE DialThrows(l)
  BY <1>4, <1>9 DEF DialThrows, Open
<1> QED BY <1>5, <1>6, <1>7, <1>8, <1>9

\* The row of the log is new, and nothing rings behind it.
LEMMA RingLogged == ASSUME Typed, BatchOK, RingOK, NEW l \in Leads, DialLog(l) PROVE RingOK'
<1> DEFINE row == [lead |-> l, status |-> "PENDING", known |-> FALSE, test |-> Testing(l)]
<1>0. dial \in [Leads -> Dial \cup {Idle}] /\ RingOf(l) /\ dial[l].at = "log"
  BY DEF Typed, TypeOK, RingOK, DialLog
<1>1. UNCHANGED <<lead, line, batch>>
  BY DEF DialLog, provider
<1>2. PICK j \in Dials : /\ log[j] = NoLog /\ log' = [log EXCEPT ![j] = row]
                         /\ dial' = [dial EXCEPT ![l] = [at |-> "place", log |-> j]]
  BY DEF DialLog, Step
<1>3. log'[j] = row /\ \A k \in Dials : k # j => log'[k] = log[k]
  BY <1>2 DEF Typed, TypeOK
<1>4. /\ dial'[l] = [at |-> "place", log |-> j]
      /\ \A m \in Leads : m # l => dial'[m] = dial[m]
  BY <1>0, <1>2
<1>5. line[j] = Silent /\ line[j].phase # "live"
  BY <1>2 DEF RingOK, LogsOK, LogOf, Silent
<1>6. \A k \in Dials : ~Ringing(k, l)
  BY <1>0 DEF RingOf, Closed, Waits
<1>7. \A k \in Dials : ~Ringing(k, l)'
  BY <1>1, <1>3, <1>5, <1>6 DEF Ringing, RealCall
<1>8. Claims(l)'
  BY <1>0, <1>1 DEF RingOf, Claims, Open
<1>9. Placing(l)'
  BY <1>1, <1>3, <1>4, <1>5 DEF Placing, OwnLog, Testing
<1>10. RingOf(l)'
  BY <1>7, <1>8, <1>9, RingSilent
<1>11. LogOf(j)'
  <2>1. row.status = "PENDING" /\ NoLog.status = "none"
    BY DEF NoLog
  <2> QED BY <1>3, <2>1 DEF LogOf
<1> HIDE DEF row
<1>12. log'[j].lead = l
  BY <1>3 DEF row
<1> QED BY <1>1, <1>2, <1>3, <1>4, <1>10, <1>11, <1>12, RingTouches

\* What dialOne knows of the log it wrote.
LEMMA OwnLogFields ==
  ASSUME Typed, BatchOK, RingOK, NEW l \in Leads, dial[l].at \in {"place", "record"}
  PROVE  /\ dial[l].log \in Dials /\ log[dial[l].log] \in Log /\ log[dial[l].log] # NoLog
         /\ OwnLog(l, dial[l].log) /\ RingOf(l) /\ Testing(l) \in BOOLEAN
         /\ l \notin batch[CampaignOf[l]].left
<1>1. dial[l].log \in Dials /\ log[dial[l].log] \in Log /\ Testing(l) \in BOOLEAN
  BY DialFields
<1>2. log[dial[l].log] # NoLog
  BY <1>1 DEF Log, NoLog
<1>3. RingOf(l) /\ OwnLog(l, dial[l].log)
  BY DEF RingOK, RingOf, Placing
<1>4. l \notin batch[CampaignOf[l]].left
  BY CampaignAssumption DEF BatchOK, Idle
<1> QED BY <1>1, <1>2, <1>3, <1>4

\* The first call that rings: the claim has taken the lead out of the pool.
LEMMA RingPlaced == ASSUME Typed, BatchOK, RingOK, NEW l \in Leads, DialPlace(l) PROVE RingOK'
<1> PICK j \in Dials : j = dial[l].log
  BY OwnLogFields DEF DialPlace
<1>0. dial[l].at = "place" /\ UNCHANGED <<lead, log, batch>>
  BY DEF DialPlace
<1>1. /\ j \in Dials /\ log[j] \in Log /\ log[j] # NoLog /\ OwnLog(l, j) /\ RingOf(l)
      /\ l \notin batch[CampaignOf[l]].left /\ Testing(l) \in BOOLEAN
  BY <1>0, OwnLogFields
<1>2. \A k \in Dials : k # j => line'[k] = line[k]
  BY DEF DialPlace, Rings, Typed, TypeOK
<1>3. /\ dial'[l] = [at |-> "record", log |-> j]
      /\ \A m \in Leads : m # l => dial'[m] = dial[m]
  BY DEF DialPlace, Step, Typed, TypeOK
<1>4. ~Open(l)' /\ Testing(l)' = Testing(l)
  BY <1>0, <1>1 DEF RingOf, Claims, Open, Testing
<1>5. \A k \in Dials : ~Ringing(k, l)
  BY <1>0, <1>1 DEF RingOf, Closed, Waits
<1>6. \A k \in Dials : Ringing(k, l)' => k = j /\ ~Testing(l)
  BY <1>0, <1>1, <1>2, <1>5 DEF Ringing, RealCall, OwnLog
<1>7. Single(l)' /\ Closed(l)'
  BY <1>0, <1>1, <1>3, <1>4, <1>6 DEF Single, Closed, Waits
<1>8. Claims(l)' /\ Placing(l)'
  BY <1>0, <1>1, <1>3, <1>4 DEF Claims, Placing, OwnLog
<1>9. LogOf(j)'
  BY <1>0, <1>1 DEF LogOf, RingOK, LogsOK
<1> QED BY <1>0, <1>1, <1>2, <1>3, <1>7, <1>8, <1>9, RingTouches DEF RingOf, OwnLog

\* The provider refuses, or its answer is lost: nothing rings that counts.
LEMMA RingFails ==
  ASSUME Typed, BatchOK, RingOK, NEW l \in Leads, DialRefused(l) \/ DialLost(l)
  PROVE  RingOK'
<1> PICK j \in Dials : j = dial[l].log
  BY OwnLogFields DEF DialRefused, DialLost
<1>0. dial[l].at = "place" /\ FailCall(l) /\ UNCHANGED batch
  BY DEF DialRefused, DialLost
<1>1. /\ j \in Dials /\ log[j] \in Log /\ log[j] # NoLog /\ OwnLog(l, j) /\ RingOf(l)
  BY <1>0, OwnLogFields
<1>2. \A k \in Dials : k # j => line'[k] = line[k]
  BY DEF DialRefused, DialLost, Rings, provider, Typed, TypeOK
<1>3. /\ dial'[l].at = "idle" /\ \A m \in Leads : m # l => dial'[m] = dial[m] /\ lead'[m] = lead[m]
  BY <1>0 DEF FailCall, Turned, Step, Idle, Typed, TypeOK
<1>4. log' = [log EXCEPT ![j].status = "FAILED"]
  BY <1>0 DEF FailCall
<1>5. /\ log'[j].lead = l /\ log'[j].status = "FAILED" /\ ~log'[j].known /\ log'[j] # NoLog
      /\ \A k \in Dials : k # j => log'[k] = log[k]
  BY <1>1, <1>4 DEF OwnLog, Typed, TypeOK, Log, NoLog
<1>6. \A k \in Dials : ~Ringing(k, l)'
  BY <1>0, <1>1, <1>2, <1>5 DEF RingOf, Closed, Waits, Ringing, RealCall
<1>7. RingOf(l)'
  BY <1>3, <1>6, RingSilent DEF Claims, Placing
<1>8. LogOf(j)'
  BY <1>5 DEF LogOf
<1> QED BY <1>0, <1>1, <1>2, <1>3, <1>5, <1>7, <1>8, RingTouches DEF OwnLog

\* The log can be found from now on; a test hands its lead back.
LEMMA RingRecorded == ASSUME Typed, BatchOK, RingOK, NEW l \in Leads, DialRecord(l) PROVE RingOK'
<1> PICK j \in Dials : j = dial[l].log
  BY OwnLogFields DEF DialRecord
<1>0. dial[l].at = "record" /\ UNCHANGED <<batch, line>>
  BY DEF DialRecord, provider
<1>1. /\ j \in Dials /\ log[j] \in Log /\ log[j] # NoLog /\ OwnLog(l, j) /\ RingOf(l)
      /\ l \notin batch[CampaignOf[l]].left /\ Testing(l) \in BOOLEAN
  BY <1>0, OwnLogFields
<1>2. /\ dial'[l].at = "idle" /\ \A m \in Leads : m # l => dial'[m] = dial[m] /\ lead'[m] = lead[m]
  BY DEF DialRecord, Turned, Step, Idle, Typed, TypeOK
<1>3. log' = [log EXCEPT ![j].known = TRUE, ![j].status = "IN_PROGRESS"]
  BY DEF DialRecord
<1>4. /\ log'[j].lead = l /\ log'[j].status = "IN_PROGRESS" /\ log'[j].test = log[j].test
      /\ log'[j] # NoLog /\ \A k \in Dials : k # j => log'[k] = log[k]
  BY <1>1, <1>3 DEF OwnLog, Typed, TypeOK, Log, NoLog
<1>5. \A k \in Dials : Ringing(k, l)' => Ringing(k, l)
  BY <1>0, <1>1, <1>4 DEF Ringing, RealCall, OwnLog
<1>6. Placing(l)' /\ ~Waits(l)'
  BY <1>0, <1>1, <1>2 DEF Placing, Waits
<1>7. RingOf(l)'
  <2>1. CASE Testing(l)
    <3>1. \A k \in Dials : ~Ringing(k, l)
      BY <1>0, <1>1, <2>1 DEF RingOf, Closed, Waits
    <3> QED BY <1>1, <1>2, <1>5, <1>6, <3>1, RingKept
  <2>2. CASE ~Testing(l)
    <3>1. Open(l)' = Open(l)
      BY <2>2 DEF DialRecord, Open
    <3> QED BY <1>1, <1>2, <1>5, <1>6, <3>1, RingKept
  <2> QED BY <1>1, <2>1, <2>2
<1>8. LogOf(j)'
  BY <1>4 DEF LogOf
<1> QED BY <1>0, <1>1, <1>2, <1>4, <1>7, <1>8, RingTouches DEF OwnLog

LEMMA RingNext == ASSUME Typed, BatchOK, RingOK, [Next]_vars PROVE RingOK'
<1>1. CASE UNCHANGED vars
  BY <1>1, RingRows DEF vars, Open
<1> QED
  BY <1>1, RingList, RingClock, RingProvider, RingResults, RingBatch, RingCrash, RingDialling,
     RingLogged, RingPlaced, RingFails, RingRecorded
  DEF Next, Dialler

\* No lead's number rings twice at a time, whatever restarts, fails or is switched,
\* except while a call goes on whose answer was lost.
THEOREM CampaignRingsOnce == Spec => []NoDoubleRing
<1>1. RingOK => NoDoubleRing
  BY DEF RingOK, RingOf, Single, Ringing, NoDoubleRing
<1>2. Init => Typed /\ Safe /\ RingOK
  BY TypedInit, SafeInit, RingInit
<1>3. Typed /\ Safe /\ RingOK /\ [Next]_vars => Typed' /\ Safe' /\ RingOK'
  BY TypedNext, SafeNext, RingNext DEF Safe
<1> QED BY <1>1, <1>2, <1>3, PTL DEF Spec

-----------------------------------------------------------------------------
(* CampaignDialer implements CallPromise.                                  *)

GoingMap    == [l \in Leads |-> Going(l)]
SilencedMap == [l \in Leads |-> PhoneOf[l] \in silenced]

LEMMA PromiseInit == Init => Promise!Init
<1> SUFFICES ASSUME Init PROVE Promise!Init
  OBVIOUS
<1>1. \A l \in Leads : Going(l) = {}
  BY DEF Init, Going, Ringing, RealCall, Silent
<1>2. GoingMap = [l \in Leads |-> {}]
  BY <1>1 DEF GoingMap
<1>3. SilencedMap = [l \in Leads |-> FALSE]
  <2>1. \A l \in Leads : (PhoneOf[l] \in silenced) = FALSE
    BY DEF Init
  <2> QED BY <2>1, Zenon DEF SilencedMap
<1> QED BY <1>2, <1>3, Zenon DEF Init, GoingMap, SilencedMap, Promise!Init

\* Steps after which the same calls ring as before, and nobody was rung.
LEMMA PromiseQuiet ==
  ASSUME \A k \in Dials, l \in Leads : Ringing(k, l)' <=> Ringing(k, l), rung' = rung
  PROVE  /\ GoingMap' = GoingMap
         /\ silenced' = silenced => UNCHANGED Promise!vars
<1>1. \A l \in Leads : Going(l)' = Going(l)
  BY DEF Going
<1>2. GoingMap' = GoingMap
  BY <1>1 DEF GoingMap
<1>3. ASSUME silenced' = silenced PROVE SilencedMap' = SilencedMap
  BY <1>3 DEF SilencedMap
<1> QED BY <1>2, <1>3 DEF GoingMap, SilencedMap, Promise!vars

\* Rows and batches are not the company's business.
LEMMA PromiseUnseen ==
  ASSUME UNCHANGED <<log, line, rung, silenced>>
  PROVE  UNCHANGED Promise!vars
BY PromiseQuiet DEF Ringing, RealCall

\* An opt-out takes the leads of its phone out of the agent's hands, unless one
\* of them is being dialled.
LEMMA PromiseListed ==
  ASSUME NEW p \in Phones, Listed(p), UNCHANGED <<log, line, rung>>
  PROVE  [Promise!Next]_(Promise!vars)
<1> PICK told \in SUBSET Leads : told = {l \in Leads : PhoneOf[l] \in silenced'}
  OBVIOUS
<1>1. GoingMap' = GoingMap
  BY PromiseQuiet DEF Ringing, RealCall
<1>2. silenced \subseteq silenced'
  BY DEF Listed
<1>3. SilencedMap' = [l \in Leads |-> SilencedMap[l] \/ l \in told]
  <2>1. \A l \in Leads : (PhoneOf[l] \in silenced') = (PhoneOf[l] \in silenced \/ l \in told)
    BY <1>2
  <2> QED BY <2>1, Zenon DEF SilencedMap
<1>4. Promise!HandOver(told)
  BY <1>1, <1>3, Zenon DEF GoingMap, SilencedMap, Promise!HandOver
<1> QED BY <1>4 DEF Promise!Next

LEMMA PromiseList == ASSUME List PROVE [Promise!Next]_(Promise!vars)
<1>1. CASE \E p \in Phones : Suppress(p)
  BY <1>1, PromiseListed DEF Suppress, provider
<1>2. CASE UNCHANGED <<log, line, rung, silenced>>
  BY <1>2, PromiseUnseen
<1> QED BY <1>1, <1>2 DEF List, IngestCheck, IngestInsert, MarkAccepted, MarkDNC, UpdateCampaign,
                          provider, optOuts

\* The log a webhook finds is not a failed one, before or after.
LEMMA FoundRinging ==
  ASSUME Typed, RingOK, NEW j \in Dials, Found(j), NEW s \in {"IN_PROGRESS", "DONE"},
         log' = [log EXCEPT ![j].status = s], UNCHANGED <<line, rung, silenced>>
  PROVE  UNCHANGED Promise!vars
<1>1. log[j] \in Log /\ log[j].known /\ log[j].status # "FAILED"
  BY DEF Found, Typed, TypeOK, RingOK, LogsOK, LogOf
<1>2. /\ \A k \in Dials : k # j => log'[k] = log[k]
      /\ log'[j] \in Log /\ log'[j].lead = log[j].lead /\ log'[j].test = log[j].test
      /\ log'[j].status # "FAILED"
  BY <1>1 DEF Typed, TypeOK, Log
<1>3. log'[j] # NoLog /\ log[j] # NoLog
  BY <1>1, <1>2 DEF Found, Log, NoLog
<1>4. \A k \in Dials, l \in Leads : Ringing(k, l)' <=> Ringing(k, l)
  BY <1>1, <1>2, <1>3 DEF Ringing, RealCall
<1> QED BY <1>4, PromiseQuiet

LEMMA PromiseResults == ASSUME Typed, RingOK, Results PROVE [Promise!Next]_(Promise!vars)
<1>1. ASSUME NEW k \in Dials, Started(k) PROVE UNCHANGED Promise!vars
  BY <1>1, FoundRinging DEF Started, provider, optOuts
<1>2. ASSUME NEW k \in Dials, Ended(k) \/ Analyzed(k) \/ Reconcile(k) PROVE UNCHANGED Promise!vars
  BY <1>2, FoundRinging DEF Ended, Analyzed, Reconcile, Stalled, Result, provider, optOuts
<1>3. CASE ResultSuppresses
  <2>1. hook # NoHook
    BY <1>3 DEF ResultSuppresses, NoHook
  <2>2. log[hook.log].lead \in Leads
    BY <2>1, HookFields
  <2>3. PhoneOf[log[hook.log].lead] \in Phones
    BY <2>2, CampaignAssumption
  <2> QED BY <1>3, <2>3, PromiseListed DEF ResultSuppresses, provider
<1>4. CASE ResultScores
  BY <1>4, PromiseUnseen DEF ResultScores, provider, optOuts
<1> QED BY <1>1, <1>2, <1>3, <1>4 DEF Results, Webhook

LEMMA PromiseProvider == ASSUME Typed, RingOK, Provider PROVE [Promise!Next]_(Promise!vars)
<1>0. line \in [Dials -> Line \cup {Silent}]
  BY DEF Typed, TypeOK
<1>1. PICK j \in Dials : HangUp(j) \/ Analyse(j)
  BY DEF Provider
<1>2. UNCHANGED <<log, rung, silenced>> /\ \A k \in Dials : k # j => line'[k] = line[k]
  BY <1>0, <1>1 DEF HangUp, Analyse, optOuts
<1>3. line'[j].phase # "live"
  <2>1. CASE HangUp(j)
    BY <1>0, <2>1 DEF HangUp
  <2>2. CASE Analyse(j)
    <3>1. line[j] \in [phase : {"over", "analysed"}, outcome : Outcomes]
      BY <1>0, <2>2 DEF Analyse, Line, Silent
    <3> QED BY <1>0, <2>2, <3>1 DEF Analyse
  <2> QED BY <1>1, <2>1, <2>2
<1>4. CASE \A l \in Leads : ~Ringing(j, l)
  <2>1. \A k \in Dials, l \in Leads : Ringing(k, l)' <=> Ringing(k, l)
    BY <1>2, <1>3, <1>4 DEF Ringing, RealCall
  <2> QED BY <1>2, <2>1, PromiseQuiet
<1>5. ASSUME NEW l \in Leads, Ringing(j, l) PROVE [Promise!Next]_(Promise!vars)
  <2>1. Going(l)' = Going(l) \ {j}
    BY <1>2, <1>3 DEF Going, Ringing, RealCall
  <2>2. \A m \in Leads : m # l => Going(m)' = Going(m)
    BY <1>2, <1>3, <1>5 DEF Going, Ringing, RealCall
  <2>3. GoingMap' = [GoingMap EXCEPT ![l] = @ \ {j}]
    BY <2>1, <2>2 DEF GoingMap
  <2>4. SilencedMap' = SilencedMap
    BY <1>2 DEF SilencedMap
  <2>5. Promise!HangUp(l, j)
    BY <1>2, <2>3, <2>4 DEF GoingMap, SilencedMap, Promise!HangUp
  <2> QED BY <2>5 DEF Promise!Next
<1> QED BY <1>4, <1>5

-----------------------------------------------------------------------------
(* The calls that dialOne places.                                          *)

\* Before the provider is asked, nothing rings, an attempt is left, and the phone
\* is not silenced.
LEMMA PlaceMayRing ==
  ASSUME Typed, Safe, RingOK, NEW l \in Leads, dial[l].at = "place", ~Testing(l)
  PROVE  Promise!MayRing(l)
<1>1. Going(l) = {}
  BY DEF RingOK, RingOf, Closed, Waits, Going
<1>2. PhoneOf[l] \notin silenced
  BY DEF Safe, SilenceOK, Committed
<1>3. rung[l] < MaxAttempts + 0
  <2>1. rung[l] + 1 <= lead[l].attempts /\ lead[l].attempts <= MaxAttempts
    BY DEF Safe, BudgetOK, Paid
  <2> QED BY <2>1, Counts
<1> QED BY <1>1, <1>2, <1>3 DEF Promise!MayRing

LEMMA PromisePlaced ==
  ASSUME Typed, Safe, RingOK, NEW l \in Leads, DialPlace(l)
  PROVE  [Promise!Next]_(Promise!vars)
<1> PICK j \in Dials : j = dial[l].log
  BY OwnLogFields DEF DialPlace, Safe
<1>0. dial[l].at = "place" /\ UNCHANGED <<log, silenced>>
  BY DEF DialPlace, optOuts
<1>1. log[j] # NoLog /\ OwnLog(l, j)
  BY <1>0, OwnLogFields DEF Safe
<1>2. line'[j].phase = "live" /\ \A k \in Dials : k # j => line'[k] = line[k]
  BY DEF DialPlace, Rings, Typed, TypeOK
<1>3. line[j].phase # "live"
  BY <1>0, <1>1 DEF OwnLog, Silent
<1>4. CASE Testing(l)
  <2>1. \A k \in Dials, m \in Leads : Ringing(k, m)' <=> Ringing(k, m)
    BY <1>0, <1>1, <1>2, <1>3, <1>4 DEF Ringing, RealCall, OwnLog
  <2>2. rung' = rung
    BY <1>4 DEF DialPlace, Rings
  <2> QED BY <1>0, <2>1, <2>2, PromiseQuiet
<1>5. CASE ~Testing(l)
  <2>1. Promise!MayRing(l)
    BY <1>0, <1>5, PlaceMayRing
  <2>2. Going(l) = {}
    BY <1>0 DEF RingOK, RingOf, Closed, Waits, Going
  <2>3. Going(l)' = {j}
    BY <1>0, <1>1, <1>2, <1>5, <2>2 DEF Going, Ringing, RealCall, OwnLog
  <2>4. \A m \in Leads : m # l => Going(m)' = Going(m)
    BY <1>0, <1>1, <1>2 DEF Going, Ringing, RealCall, OwnLog
  <2>5. GoingMap' = [GoingMap EXCEPT ![l] = {j}]
    BY <2>3, <2>4 DEF GoingMap
  <2>6. SilencedMap' = SilencedMap /\ rung' = [rung EXCEPT ![l] = @ + 1]
    BY <1>0, <1>5 DEF SilencedMap, DialPlace, Rings
  <2>7. Promise!Ring(l, j)
    BY <2>1, <2>5, <2>6 DEF GoingMap, SilencedMap, Promise!Ring
  <2> QED BY <2>7 DEF Promise!Next
<1> QED BY <1>4, <1>5

\* What dialOne fails to learn of rings all the same.
LEMMA PromiseFails ==
  ASSUME Typed, Safe, RingOK, NEW l \in Leads, DialRefused(l) \/ DialLost(l)
  PROVE  [Promise!Next]_(Promise!vars)
<1> PICK j \in Dials : j = dial[l].log
  BY OwnLogFields DEF DialRefused, DialLost, Safe
<1>0. dial[l].at = "place" /\ FailCall(l) /\ UNCHANGED silenced
  BY DEF DialRefused, DialLost, optOuts
<1>1. log[j] \in Log /\ OwnLog(l, j)
  BY <1>0, OwnLogFields DEF Safe
<1>2. \A k \in Dials : k # j => line'[k] = line[k]
  BY DEF DialRefused, DialLost, Rings, provider, Typed, TypeOK
<1>3. log'[j].status = "FAILED" /\ \A k \in Dials : k # j => log'[k] = log[k]
  BY <1>0, <1>1 DEF FailCall, Typed, TypeOK, Log
<1>4. line[j].phase # "live"
  BY <1>0, <1>1 DEF OwnLog, Silent
<1>5. \A k \in Dials, m \in Leads : Ringing(k, m)' <=> Ringing(k, m)
  BY <1>2, <1>3, <1>4 DEF Ringing, RealCall
<1>6. CASE rung' = rung
  BY <1>0, <1>5, <1>6, PromiseQuiet
<1>7. CASE rung' # rung
  <2>1. ~Testing(l) /\ rung' = [rung EXCEPT ![l] = @ + 1]
    BY <1>7 DEF DialRefused, DialLost, Rings, provider
  <2>2. Promise!MayRing(l)
    BY <1>0, <2>1, PlaceMayRing
  <2>3. \A m \in Leads : Going(m)' = Going(m)
    BY <1>5 DEF Going
  <2>4. GoingMap' = GoingMap /\ SilencedMap' = SilencedMap
    BY <1>0, <2>3 DEF GoingMap, SilencedMap
  <2>5. Promise!RingUnknown(l)
    BY <2>1, <2>2, <2>4, Zenon DEF GoingMap, SilencedMap, Promise!RingUnknown
  <2> QED BY <2>5 DEF Promise!Next
<1> QED BY <1>6, <1>7

LEMMA PromiseLogged ==
  ASSUME Typed, RingOK, NEW l \in Leads, DialLog(l)
  PROVE  UNCHANGED Promise!vars
<1>1. PICK j \in Dials : log[j] = NoLog /\ \A k \in Dials : k # j => log'[k] = log[k]
  BY DEF DialLog, Typed, TypeOK
<1>2. line[j].phase # "live"
  BY <1>1 DEF RingOK, LogsOK, LogOf, Silent
<1>3. UNCHANGED <<line, rung, silenced>>
  BY DEF DialLog, provider, optOuts
<1>4. \A k \in Dials, m \in Leads : Ringing(k, m)' <=> Ringing(k, m)
  BY <1>1, <1>2, <1>3 DEF Ringing, RealCall
<1> QED BY <1>3, <1>4, PromiseQuiet

LEMMA PromiseRecorded ==
  ASSUME Typed, Safe, RingOK, NEW l \in Leads, DialRecord(l)
  PROVE  UNCHANGED Promise!vars
<1> PICK j \in Dials : j = dial[l].log
  BY OwnLogFields DEF DialRecord, Safe
<1>1. log[j] \in Log /\ log[j] # NoLog /\ OwnLog(l, j)
  BY OwnLogFields DEF DialRecord, Safe
<1>2. log' = [log EXCEPT ![j].known = TRUE, ![j].status = "IN_PROGRESS"]
  BY DEF DialRecord
<1>3. /\ log'[j].lead = l /\ log'[j].status = "IN_PROGRESS" /\ log'[j].test = log[j].test
      /\ log'[j] # NoLog /\ \A k \in Dials : k # j => log'[k] = log[k]
  BY <1>1, <1>2 DEF OwnLog, Typed, TypeOK, Log, NoLog
<1>4. UNCHANGED <<line, rung, silenced>>
  BY DEF DialRecord, provider, optOuts
<1>5. \A k \in Dials, m \in Leads : Ringing(k, m)' <=> Ringing(k, m)
  BY <1>1, <1>3, <1>4 DEF Ringing, RealCall, OwnLog
<1> QED BY <1>4, <1>5, PromiseQuiet

LEMMA PromiseStep ==
  ASSUME Typed, Safe, RingOK, [Next]_vars
  PROVE  [Promise!Next]_(Promise!vars)
<1>1. CASE List \/ Results \/ Provider
  BY <1>1, PromiseList, PromiseResults, PromiseProvider
<1>2. CASE Clock \/ Crash \/ UNCHANGED vars
  BY <1>2, PromiseUnseen DEF Clock, Midnight, LeadMidnight, Rested, Crash, vars, provider, optOuts
<1>3. CASE Dialler
  <2>1. ASSUME NEW c \in Campaigns, Run(c) \/ Slice(c) \/ RunEnd(c) PROVE UNCHANGED Promise!vars
    BY <2>1, PromiseUnseen DEF Run, Slice, RunEnd, provider, optOuts
  <2>2. ASSUME NEW l \in Leads, DialCheck(l) \/ DialClaim(l) \/ DialThrows(l)
        PROVE  UNCHANGED Promise!vars
    BY <2>2, PromiseUnseen DEF DialCheck, DialClaim, DialThrows, provider, optOuts
  <2> QED BY <1>3, <2>1, <2>2, PromisePlaced, PromiseFails, PromiseLogged, PromiseRecorded DEF Dialler
<1> QED BY <1>1, <1>2, <1>3 DEF Next

\* The campaigns keep the promise of CallPromise without a fault: every step is
\* one of its steps or invisible to the company, whatever restarts, fails, is
\* lost, late or repeated, and whatever an operator switches.
THEOREM CampaignKeepsPromise == Spec => KeepsPromise
<1>1. Init => Typed /\ Safe /\ RingOK
  BY TypedInit, SafeInit, RingInit
<1>2. Typed /\ Safe /\ RingOK /\ [Next]_vars => Typed' /\ Safe' /\ RingOK'
  BY TypedNext, SafeNext, RingNext DEF Safe
<1> QED BY <1>1, <1>2, PromiseInit, PromiseStep, PTL DEF Spec, KeepsPromise, Promise!Spec

=============================================================================
