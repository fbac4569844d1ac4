---------------------------- MODULE OutboundCall ----------------------------
(***************************************************************************)
(* The life of a row of outbound_calls (modules/outbound-voice): it is     *)
(* queued, dialled by the 30-second dispatcher, moved by the provider's    *)
(* webhooks, reconciled against the provider when a webhook is lost,       *)
(* redialled when nobody answered or when the pitch was cut short, and     *)
(* cancelled or requeued by an operator.  One row is dialled several times *)
(* and keeps only the id of its LAST physical call (retell_call_id).       *)
(*                                                                         *)
(* Nothing locks a row.  Everything that runs concurrently in the Node     *)
(* process is an action of its own: the dispatcher works from a snapshot   *)
(* of the queued rows (`snap') and writes the row only after the provider  *)
(* answered (`pend'); a webhook, a sweep or an operator's request reads    *)
(* the row, awaits, and then updates it by id, whatever it has become      *)
(* (`hook', one entry for each handler at work).  The provider's events    *)
(* are a function of its physical call: each one may be delivered at any   *)
(* later time, any number of times, in any order, or never.                *)
(***************************************************************************)
EXTENDS Integers, FiniteSets

CONSTANTS
  Calls,        \* rows of outbound_calls
  MaxDials,     \* bound: physical calls the provider ever places
  MaxAttempts,  \* max_attempts of every row (default 3)
  MinAttempts,  \* ABANDONED_PITCH_MIN_ATTEMPTS (default 3)
  Talks,        \* what can happen on a physical call
  MaxCrashes,   \* bound: restarts of the process
  MaxRequeues,  \* bound: operator retries
  MaxStale,     \* bound: outdated updates of a row, after which no webhook comes for it
  Cancels,      \* whether operators cancel rows
  Losses,       \* whether an answer of the provider may be lost
  Workers,      \* handlers that may be between their read and their write at once
  Clerks,       \* those of them that take operators' requests
  Robots        \* those of them that take webhooks and sweeps

(***************************************************************************)
(* A conversation, reduced to what the code tells apart: the status that   *)
(* mapRetellStatus gives it when it is over, what the customer's           *)
(* transcript shows, and what the post-call analysis says of the offer.    *)
(***************************************************************************)
Said    == {"nothing", "close", "optOut"}
Decided == {"nothing", "accepted", "declined"}
Talk    == [ends : {"completed", "no_answer", "failed", "busy"},
            said : Said, decided : Decided]

ASSUME BoundAssumption ==
  /\ MaxDials \in Nat /\ MaxCrashes \in Nat /\ MaxRequeues \in Nat /\ MaxStale \in Nat
  /\ Cancels \in BOOLEAN /\ Losses \in BOOLEAN
  /\ Clerks \subseteq Workers /\ Robots \subseteq Workers
ASSUME AttemptAssumption == MaxAttempts \in Nat \ {0} /\ MinAttempts \in Nat \ {0}
ASSUME TalkAssumption == Talks \subseteq Talk

Dials    == 1 .. MaxDials
NoDial   == 0
NoSnap   == -1
InFlight == {"dialing", "in_progress"}
Terminal == {"completed", "failed", "no_answer", "busy", "rejected", "cancelled"}
Retryable == {"failed", "no_answer", "busy", "rejected"}
Status   == {"none", "queued"} \cup InFlight \cup Terminal

\* The attempt ceiling of an abandoned pitch: a floor over the row's own maximum.
Ceiling == IF MaxAttempts >= MinAttempts THEN MaxAttempts ELSE MinAttempts

VARIABLES
  row,      \* [Calls -> Row]
  line,     \* [Dials -> physical call at the provider]
  snap,     \* [Calls -> attempts the dispatcher read, or NoSnap]
  pend,     \* physical call placed but not yet written to its row
  hook,     \* [Workers -> a handler between its read and its write]
  alerts,   \* [Calls -> attention SMS rounds sent to the managers]
  placed,   \* [Calls -> physical calls since the row was last enqueued]
  stray,    \* physical calls their row no longer, or never, knew of
  stale,    \* [Calls -> updates made on a read that was no longer true]
  crashes, requeues

vars == <<row, line, snap, pend, hook, alerts, placed, stray, stale, crashes, requeues>>

(***************************************************************************)
(* A row.  fresh: created_at is within the dispatcher's 15 minutes.  due:  *)
(* scheduled_for is null or past.  idle: age of updated_at -- 0, past the  *)
(* first sweep threshold of its status (1: 5 min in flight, 10 min         *)
(* completed), past 30 minutes (2).  pitch: the linked call log is         *)
(* flip-eligible.  said, decided: what the stored transcript and analysis  *)
(* show.  unavailable: error is "..._unavailable_...".                     *)
(***************************************************************************)
Row == [status : Status, attempts : Nat, pid : Dials \cup {NoDial},
        fresh : BOOLEAN, due : BOOLEAN, idle : 0 .. 2, pitch : BOOLEAN,
        said : Said, decided : Decided, unavailable : BOOLEAN]

NoRow == [status |-> "none", attempts |-> 0, pid |-> NoDial,
          fresh |-> FALSE, due |-> FALSE, idle |-> 0, pitch |-> FALSE,
          said |-> "nothing", decided |-> "nothing", unavailable |-> FALSE]

Line == [phase : {"live"}, call : Calls]
        \cup [phase : {"over", "analysed"}, call : Calls, talk : Talks]
Free == [phase |-> "free"]

NoHook == [kind |-> "none"]
Events == {"started", "ended", "analysed"}
Read   == [status : Status, attempts : Nat, pid : Dials \cup {NoDial}, pitch : BOOLEAN]
Hook   == [kind : Events, dial : Dials, call : Calls, seen : Read]
          \cup [kind : {"judge"}, call : Calls, seen : Read, said : Said, decided : Decided]
          \cup [kind : {"cancel", "requeue"}, call : Calls]

Live(d) == line[d].phase = "live"
Over(d) == line[d].phase \in {"over", "analysed"}

TypeOK ==
  /\ row \in [Calls -> Row]
  /\ line \in [Dials -> Line \cup {Free}]
  /\ snap \in [Calls -> Nat \cup {NoSnap}]
  /\ pend \in Dials \cup {NoDial}
  /\ hook \in [Workers -> Hook \cup {NoHook}]
  /\ alerts \in [Calls -> 0 .. 2]
  /\ placed \in [Calls -> Nat]
  /\ stray \subseteq Dials
  /\ stale \in [Calls -> Nat]
  /\ crashes \in 0 .. MaxCrashes /\ requeues \in 0 .. MaxRequeues

Init ==
  /\ row = [c \in Calls |-> NoRow]
  /\ line = [d \in Dials |-> Free]
  /\ snap = [c \in Calls |-> NoSnap]
  /\ pend = NoDial
  /\ hook = [w \in Workers |-> NoHook]
  /\ alerts = [c \in Calls |-> 0]
  /\ placed = [c \in Calls |-> 0]
  /\ stray = {}
  /\ stale = [c \in Calls |-> 0]
  /\ crashes = 0 /\ requeues = 0

(***************************************************************************)
(* The UPDATEs of a row.                                                   *)
(***************************************************************************)
Enqueued(due, pitch) == [NoRow EXCEPT !.status = "queued", !.fresh = TRUE,
                                      !.due = due, !.pitch = pitch]
Cancelled(r) == [r EXCEPT !.status = "cancelled", !.idle = 0]
Requeued(r)  == [r EXCEPT !.status = "queued", !.attempts = 0, !.fresh = TRUE,
                          !.pid = NoDial, !.idle = 0, !.unavailable = FALSE]
Skipped(r, status, n) == [r EXCEPT !.status = status, !.attempts = n, !.idle = 0,
                                   !.unavailable = FALSE]
Refused(r, status, n) == [r EXCEPT !.status = status, !.attempts = n, !.idle = 0,
                                   !.unavailable = TRUE]
\* Variant: the UPDATE forgets the attempt.
DialledUncounted(r, d, n) == [r EXCEPT !.status = "dialing", !.pid = d, !.idle = 0]
Dialled(r, d, n) == [r EXCEPT !.status = "dialing", !.pid = d, !.attempts = n, !.idle = 0]
Retried(r)   == [r EXCEPT !.status = "queued", !.fresh = TRUE, !.idle = 0,
                          !.unavailable = FALSE]
Redialled(r) == [r EXCEPT !.status = "queued", !.fresh = TRUE, !.due = FALSE,
                          !.idle = 0, !.unavailable = FALSE]
Patched(r, status, said, decided, unavailable) ==
  [r EXCEPT !.status = status, !.idle = 0, !.said = said, !.decided = decided,
            !.unavailable = unavailable]

\* One more round of attention SMS, counted to two.
Alerted(c) == [alerts EXCEPT ![c] = IF @ < 2 THEN @ + 1 ELSE 2]

-----------------------------------------------------------------------------
(* Enqueue and the operator's surface.                                     *)

Enqueue(c) ==
  /\ row[c].status = "none"
  /\ \E due, pitch \in BOOLEAN :
       row' = [row EXCEPT ![c] = Enqueued(due, pitch)]
  /\ UNCHANGED <<line, snap, pend, hook, alerts, placed, stray, stale, crashes, requeues>>

(***************************************************************************)
(* Handlers read a row, await, and write it.  Nothing tells a handler that *)
(* the row was written meanwhile; `stale' counts, for the properties, the  *)
(* updates made though the status, the attempts or the physical call the   *)
(* handler read are the row's no more.  Such an update may hide a call     *)
(* that goes on from the row.                                              *)
(***************************************************************************)
Idle(w)     == hook[w] = NoHook
Handling(w) == hook[w].kind \in Events
Seen(w)     == hook[w].seen

\* What a handler keeps of the row it read, and uses.
ReadOf(r) == [status |-> r.status, attempts |-> r.attempts, pid |-> r.pid, pitch |-> r.pitch]
ToJudge(c, seen, said, decided) ==
  [kind |-> "judge", call |-> c, seen |-> seen, said |-> said, decided |-> decided]

Reads(w, h) == Idle(w) /\ hook' = [hook EXCEPT ![w] = h]
Ends(w)     == hook' = [hook EXCEPT ![w] = NoHook]
\* Its write done, the handler goes on to judge the pitch, on what it holds.
Judges(w, seen, said, decided) ==
  hook' = [hook EXCEPT ![w] = ToJudge(@.call, seen, said, decided)]

Outdated(w) == LET r == row[hook[w].call]
               IN  ~ /\ Seen(w).status = r.status
                     /\ Seen(w).attempts = r.attempts
                     /\ Seen(w).pid = r.pid

\* The calls of row c that go on, except the one being placed.
Heard(c) == {d \in Dials : Live(d) /\ line[d].call = c /\ d # pend}

\* The UPDATE of the handler's row: the row becomes r.
Update(w, r) ==
  LET c == hook[w].call
  IN  /\ row' = [row EXCEPT ![c] = r]
      /\ IF Outdated(w)
         THEN stale' = [stale EXCEPT ![c] = @ + 1] /\ stray' = stray \cup Heard(c)
         ELSE UNCHANGED <<stale, stray>>

\* A row read through the schema has no provider and no retell_call_id, so for
\* a Retell call the provider is not asked to end anything.
ReadCancel(w, c) ==
  /\ Cancels /\ w \in Clerks
  /\ row[c].status \notin Terminal \cup {"none"}
  /\ Reads(w, [kind |-> "cancel", call |-> c])
  /\ UNCHANGED <<row, line, snap, pend, alerts, placed, stray, stale, crashes, requeues>>

CancelCall(w) ==
  /\ hook[w].kind = "cancel"
  /\ row' = [row EXCEPT ![hook[w].call] = Cancelled(@)]
  /\ Ends(w)
  /\ UNCHANGED <<line, snap, pend, alerts, placed, stray, stale, crashes, requeues>>

ReadRequeue(w, c) ==
  /\ requeues < MaxRequeues /\ w \in Clerks
  /\ row[c].status \in Terminal
  /\ Reads(w, [kind |-> "requeue", call |-> c])
  /\ requeues' = requeues + 1
  /\ UNCHANGED <<row, line, snap, pend, alerts, placed, stray, stale, crashes>>

\* What the agent did for the row is forgotten.
RequeueCall(w) ==
  /\ hook[w].kind = "requeue"
  /\ LET c == hook[w].call
     IN  /\ row' = [row EXCEPT ![c] = Requeued(@)]
         /\ alerts' = [alerts EXCEPT ![c] = 0]
         /\ placed' = [placed EXCEPT ![c] = 0]
         /\ stray' = stray \cup {d \in Dials : Live(d) /\ line[d].call = c}
  /\ Ends(w)
  /\ UNCHANGED <<line, snap, pend, stale, crashes, requeues>>

-----------------------------------------------------------------------------
(* The dispatcher.                                                         *)

\* The rows the cron's query returns.
DueRows == {c \in Calls : row[c].status = "queued" /\ row[c].due /\ row[c].fresh}

DispatchSelect ==
  /\ pend = NoDial /\ \A c \in Calls : snap[c] = NoSnap
  /\ DueRows # {}
  /\ snap' = [c \in Calls |-> IF c \in DueRows THEN row[c].attempts ELSE NoSnap]
  /\ UNCHANGED <<row, line, pend, hook, alerts, placed, stray, stale, crashes, requeues>>

InBatch(c) == snap[c] # NoSnap /\ pend = NoDial
Served(c)  == snap' = [snap EXCEPT ![c] = NoSnap]

\* The row is not dialled: its source is switched off, the free trial is used
\* up, or the tenant is in test mode without a number.
DispatchSkip(c) ==
  /\ InBatch(c) /\ Served(c)
  /\ \/ row' = [row EXCEPT ![c] = Skipped(@, "cancelled", @.attempts)]
     \/ row' = [row EXCEPT ![c] = Skipped(@, "failed", @.attempts)]
     \/ row' = [row EXCEPT ![c] = Skipped(@, "failed", snap[c] + 1)]
  /\ UNCHANGED <<line, pend, hook, alerts, placed, stray, stale, crashes, requeues>>

\* Variant: one attempt too few.
LastAttemptEarly(n) == n + 1 >= MaxAttempts

\* No attempt of the row's own maximum is left after the nth.
LastAttempt(n) == n >= MaxAttempts

\* placeCall returned null: back to the queue, or failed at the last attempt.
TurnedDown(c) ==
  LET last == LastAttempt(snap[c] + 1)
  IN  /\ row' = [row EXCEPT ![c] =
                   Refused(@, IF last THEN "failed" ELSE "queued", snap[c] + 1)]
      /\ alerts' = IF last THEN Alerted(c) ELSE alerts

DispatchRefused(c) ==
  /\ InBatch(c) /\ Served(c)
  /\ TurnedDown(c)
  /\ UNCHANGED <<line, pend, hook, placed, stray, stale, crashes, requeues>>

\* The provider accepts the call: it exists from now on, the row does not know.
Begins(c, d) ==
  /\ line[d] = Free /\ \A e \in Dials : e < d => line[e] # Free
  /\ line' = [line EXCEPT ![d] = [phase |-> "live", call |-> c]]
  /\ placed' = [placed EXCEPT ![c] = @ + 1]

DispatchPlace(c) ==
  /\ InBatch(c)
  /\ \E d \in Dials : Begins(c, d) /\ pend' = d
  /\ UNCHANGED <<row, snap, hook, alerts, stray, stale, crashes, requeues>>

\* The provider accepts the call, but its answer never reaches placeCall.
DispatchLost(c) ==
  /\ Losses /\ InBatch(c) /\ Served(c)
  /\ \E d \in Dials : Begins(c, d) /\ stray' = stray \cup {d}
  /\ TurnedDown(c)
  /\ UNCHANGED <<pend, hook, stale, crashes, requeues>>

\* The unconditional UPDATE that follows.
DispatchRecord ==
  /\ pend # NoDial
  /\ LET c == line[pend].call
     IN  /\ row' = [row EXCEPT ![c] = Dialled(@, pend, snap[c] + 1)]
         /\ Served(c)
  /\ pend' = NoDial
  /\ UNCHANGED <<line, hook, alerts, placed, stray, stale, crashes, requeues>>

\* The process restarts: the batch, the answer it waited for and the handlers
\* it was running are gone.
Crash ==
  /\ crashes < MaxCrashes
  /\ crashes' = crashes + 1
  /\ snap' = [c \in Calls |-> NoSnap]
  /\ stray' = IF pend = NoDial THEN stray ELSE stray \cup {pend}
  /\ pend' = NoDial
  /\ hook' = [w \in Workers |-> NoHook]
  /\ UNCHANGED <<row, line, alerts, placed, stale, requeues>>

-----------------------------------------------------------------------------
(* The provider (external) and the clock.                                  *)

HangUp(d) ==
  /\ Live(d)
  /\ \E t \in Talks : line' = [line EXCEPT ![d] = [phase |-> "over", call |-> @.call, talk |-> t]]
  /\ UNCHANGED <<row, snap, pend, hook, alerts, placed, stray, stale, crashes, requeues>>

Analyse(d) ==
  /\ line[d].phase = "over"
  /\ line' = [line EXCEPT ![d].phase = "analysed"]
  /\ UNCHANGED <<row, snap, pend, hook, alerts, placed, stray, stale, crashes, requeues>>

\* A queued row passes its fifteenth minute.
AgeOut(c) ==
  /\ row[c].fresh /\ (row[c].status = "queued" \/ snap[c] # NoSnap)
  /\ row' = [row EXCEPT ![c].fresh = FALSE]
  /\ UNCHANGED <<line, snap, pend, hook, alerts, placed, stray, stale, crashes, requeues>>

FallDue(c) ==
  /\ row[c].status = "queued" /\ ~row[c].due
  /\ row' = [row EXCEPT ![c].due = TRUE]
  /\ UNCHANGED <<line, snap, pend, hook, alerts, placed, stray, stale, crashes, requeues>>

\* updated_at grows old.  No conversation lasts thirty minutes.
GrowIdle(c) ==
  /\ row[c].status \in InFlight \cup {"completed"} /\ row[c].idle < 2
  /\ row[c].idle = 1 /\ row[c].pid # NoDial => ~Live(row[c].pid)
  /\ row' = [row EXCEPT ![c].idle = @ + 1]
  /\ UNCHANGED <<line, snap, pend, hook, alerts, placed, stray, stale, crashes, requeues>>

-----------------------------------------------------------------------------
(* The handler of the provider's events, and the two sweeps.               *)

\* Variant: the provider's own vocabulary reaches the row.
EventStatusRaw(kind, d) == IF kind = "started" THEN "in_progress" ELSE "ended"

\* The status mapRetellStatus gives an event of physical call d.
EventStatus(kind, d) == IF kind = "started" THEN "in_progress" ELSE line[d].talk.ends

\* What judgePitchCompletion answers, given what the transcript and the analysis
\* at hand show: only an abandoned pitch is redialled.
Abandoned(pitch, said, decided) == pitch /\ said = "nothing" /\ decided = "nothing"

\* The phases of a physical call in which its provider has sent an event.
Sent == [started |-> {"live", "over", "analysed"}, ended |-> {"over", "analysed"},
         analysed |-> {"analysed"}]
Happened(kind, d) == line[d].phase \in Sent[kind]

Handle(w, kind, d, c) ==
  /\ w \in Robots
  /\ Reads(w, [kind |-> kind, dial |-> d, call |-> c, seen |-> ReadOf(row[c])])
  /\ UNCHANGED <<row, line, snap, pend, alerts, placed, stray, stale, crashes, requeues>>

\* A webhook arrives and finds its row by retell_call_id.  An event whose call
\* is no row's last one is found by its metadata and changes no row.
Deliver(w, d) ==
  \E kind \in Events, c \in Calls :
    /\ Happened(kind, d) /\ row[c].pid = d /\ stale[c] < MaxStale
    /\ Handle(w, kind, d, c)

\* Variant: rows that never got past dialling are left alone.
StalledTalking(r) == r.status = "in_progress" /\ r.idle >= 1 /\ r.pid # NoDial

\* The provider is asked about a row in flight for five minutes, and the answer
\* takes the webhook's path -- unless the call is still going on.
Stalled(r) == r.status \in InFlight /\ r.idle >= 1 /\ r.pid # NoDial

Reconcile(w, c) ==
  /\ Stalled(row[c])
  /\ Over(row[c].pid)
  /\ Handle(w, IF line[row[c].pid].phase = "analysed" THEN "analysed" ELSE "ended", row[c].pid, c)

\* Variant: five minutes without news are taken for the end of the call.
SweepableEarly(r) == /\ r.attempts < Ceiling
                     /\ r.status \in InFlight \cup {"completed"} /\ r.idle >= 1

\* The abandoned-pitch sweep picks a settled row, or one stuck for 30 minutes.
Sweepable(r) == /\ r.attempts < Ceiling
                /\ \/ r.status = "completed" /\ r.idle >= 1
                   \/ r.status \in InFlight /\ r.idle = 2

SweepPick(w, c) ==
  /\ w \in Robots /\ Sweepable(row[c])
  /\ Reads(w, ToJudge(c, ReadOf(row[c]), row[c].said, row[c].decided))
  /\ UNCHANGED <<row, line, snap, pend, alerts, placed, stray, stale, crashes, requeues>>

NewStatus(w) == EventStatus(hook[w].kind, hook[w].dial)
Repeats(w)   == Seen(w).status \in Terminal /\ Seen(w).status = NewStatus(w)
\* Variant: the managers are told one attempt before the last.
RetriesEarly(w) == /\ ~Repeats(w) /\ NewStatus(w) \in Retryable
                   /\ ~LastAttempt(Seen(w).attempts + 1)
Retries(w)   == /\ ~Repeats(w) /\ NewStatus(w) \in Retryable
                /\ ~LastAttempt(Seen(w).attempts)

\* A terminal status told again: only its analysis is new, and the pitch is
\* judged on it.
ApplyRepeat(w) ==
  /\ Handling(w) /\ Repeats(w)
  /\ LET h == hook[w]
         talk == line[h.dial].talk
     IN  IF h.kind = "analysed"
         THEN /\ Update(w, [row[h.call] EXCEPT !.decided = talk.decided])
              /\ Judges(w, h.seen, talk.said, talk.decided)
         ELSE Ends(w) /\ UNCHANGED <<row, stale, stray>>
  /\ UNCHANGED <<line, snap, pend, alerts, placed, crashes, requeues>>

\* Nobody was reached and attempts remain: back to the queue, nothing stored.
ApplyRetry(w) ==
  /\ Handling(w) /\ Retries(w)
  /\ Update(w, Retried(row[hook[w].call]))
  /\ Ends(w)
  /\ UNCHANGED <<line, snap, pend, alerts, placed, crashes, requeues>>

\* Every other event: the status is overwritten, the managers are told of an
\* unanswered call, and a call that is over is judged -- on the analysis of
\* this very event, which only call_analyzed carries.
ApplyPatch(w) ==
  /\ Handling(w) /\ ~Repeats(w) /\ ~Retries(w)
  /\ LET h == hook[w]
         r == row[h.call]
         s == NewStatus(w)
         talk == line[h.dial].talk
         decided == IF h.kind = "analysed" THEN talk.decided ELSE "nothing"
     IN  /\ IF h.kind = "started"
            THEN Update(w, Patched(r, s, r.said, decided, r.unavailable)) /\ Ends(w)
            ELSE /\ Update(w, Patched(r, s, talk.said, decided, FALSE))
                 /\ Judges(w, [h.seen EXCEPT !.status = s], talk.said, decided)
         /\ alerts' = IF s \in {"no_answer", "failed"} /\ h.seen.status # s
                      THEN Alerted(h.call) ELSE alerts
  /\ UNCHANGED <<line, snap, pend, placed, crashes, requeues>>

\* maybeRetryAbandonedPitch: an abandoned pitch goes back to the queue while
\* attempts remain.  A sweep judges on what the row it picked had stored.
Judge(w) ==
  /\ hook[w].kind = "judge"
  /\ IF Seen(w).attempts < Ceiling /\ Abandoned(Seen(w).pitch, hook[w].said, hook[w].decided)
     THEN Update(w, Redialled(row[hook[w].call]))
     ELSE UNCHANGED <<row, stale, stray>>
  /\ Ends(w)
  /\ UNCHANGED <<line, snap, pend, alerts, placed, crashes, requeues>>

-----------------------------------------------------------------------------
Dispatcher == \/ DispatchSelect \/ DispatchRecord
              \/ \E c \in Calls : \/ DispatchSkip(c) \/ DispatchRefused(c)
                                  \/ DispatchPlace(c) \/ DispatchLost(c)
Operator   == \/ \E c \in Calls : Enqueue(c) \/ \E w \in Workers : ReadCancel(w, c) \/ ReadRequeue(w, c)
              \/ \E w \in Workers : CancelCall(w) \/ RequeueCall(w)
Apply(w)   == ApplyRepeat(w) \/ ApplyRetry(w) \/ ApplyPatch(w) \/ Judge(w)
Handlers   == \E w \in Workers : \/ \E d \in Dials : Deliver(w, d)
                                 \/ \E c \in Calls : Reconcile(w, c) \/ SweepPick(w, c)
                                 \/ Apply(w)
Provider   == \E d \in Dials : HangUp(d) \/ Analyse(d)
Clock      == \E c \in Calls : AgeOut(c) \/ FallDue(c) \/ GrowIdle(c)

Next == Dispatcher \/ Operator \/ Handlers \/ Provider \/ Clock \/ Crash

Spec == Init /\ [][Next]_vars

(***************************************************************************)
(* Fairness.  The crons run as long as the process does, the provider ends *)
(* every call, a handler that has read its row goes on to write it, and    *)
(* time passes.  No webhook need ever arrive; each is delivered a finite   *)
(* number of times.  The other sweep may keep taking Reconcile's turn, but *)
(* not for ever, both being crons (SF).                                    *)
(***************************************************************************)
Serve(c) == DispatchSkip(c) \/ DispatchRefused(c) \/ DispatchPlace(c)

Fairness ==
  /\ WF_vars(DispatchSelect) /\ WF_vars(DispatchRecord)
  /\ \A c \in Calls : /\ WF_vars(Serve(c)) /\ SF_vars(\E w \in Workers : Reconcile(w, c))
                      /\ WF_vars(FallDue(c)) /\ WF_vars(GrowIdle(c))
  /\ \A d \in Dials : WF_vars(HangUp(d))
  /\ \A w \in Workers : WF_vars(Apply(w) \/ CancelCall(w) \/ RequeueCall(w))
  /\ <>[][\A w \in Workers, d \in Dials : ~Deliver(w, d)]_vars

FairSpec == Spec /\ Fairness

-----------------------------------------------------------------------------
(* What the code achieves.                                                 *)

\* The customer is never dialled more often than the attempt ceiling allows,
\* counting physical calls and not the attempts column: retries, redials of
\* abandoned pitches, refusals by the provider and both sweeps draw on the same
\* budget.  A restart between placing a call and recording it can add one, and
\* so can an update made on a read the row has left behind -- never two.
DialCeiling == \A c \in Calls : placed[c] <= Ceiling + crashes + stale[c]

\* The automation never has two physical calls of a row going at once, although
\* a row does not know that its call is over until someone tells it.  Calls a
\* restart, an operator's retry or an outdated update made the row forget, and
\* those whose answer was lost, are excepted.
SingleFlight ==
  \A d, e \in Dials : Live(d) /\ Live(e) /\ line[d].call = line[e].call /\ d # e
                       => d \in stray \/ e \in stray

\* Once the managers were told to call the customer themselves, the agent does
\* not dial the customer again, whatever late or repeated event arrives -- unless
\* a handler wrote the row from a read that was no longer true.
AlertIsLast ==
  [][\A c \in Calls : placed'[c] > placed[c] => alerts[c] = 0 \/ stale[c] > 0]_vars

\* retryFailed's query -- failed, "unavailable" and attempts left -- never
\* matches: the dispatcher requeues such a row by itself.
RetryFailedIdle ==
  \A c \in Calls : row[c].status = "failed" /\ row[c].unavailable
                    => row[c].attempts >= MaxAttempts

\* Every row that waits or is being dialled comes to rest -- or has waited past
\* the dispatcher's fifteen minutes -- though every webhook be lost, and operators
\* cancel and requeue it while handlers are at work on it.  The exception is a row
\* that an event of its old call moved after a requeue had cleared the call's id:
\* it is in flight without a call, and no sweep asks the provider about it.
Settled(c)  == \/ row[c].status \in Terminal
               \/ row[c].status = "queued" /\ ~row[c].fresh
Stranded(c) == row[c].status \in InFlight /\ row[c].pid = NoDial
EventuallySettled ==
  \A c \in Calls :
    row[c].status \in {"queued"} \cup InFlight ~> Settled(c) \/ Stranded(c)

-----------------------------------------------------------------------------
(* The inductive invariant behind the safety properties, part by part.     *)

\* The call being placed exists, for a row of the batch.
PendOK == pend # NoDial => line[pend] # Free /\ snap[line[pend].call] # NoSnap

\* The event being handled was sent by its call, the row's last one when read.
HookOK == \A w \in Workers : Handling(w) => /\ Happened(hook[w].kind, hook[w].dial)
                                            /\ Seen(w).pid = hook[w].dial

\* The row remembers only calls that were placed; and a row untouched for half
\* an hour remembers none that goes on.
PidOK == \A c \in Calls : row[c].pid # NoDial =>
           line[row[c].pid] # Free /\ (row[c].idle = 2 => ~Live(row[c].pid))

\* A row about to be judged was settled when it was read, or its call was over.
SettledRead(r) == \/ r.status \in Terminal \ {"cancelled"}
                  \/ r.pid # NoDial => Over(r.pid)
JudgeOK == \A w \in Workers : hook[w].kind = "judge" => SettledRead(Seen(w))

\* What is placed was paid for by an attempt, or is about to be, or was lost.
Pending(c) == IF pend # NoDial /\ line[pend].call = c THEN 1 ELSE 0
BudgetOf(c) ==
  /\ row[c].status = "none" => row[c].attempts = 0
  /\ row[c].attempts <= Ceiling + stale[c]
  /\ row[c].status = "queued" => row[c].attempts < Ceiling + stale[c]
  /\ placed[c] <= row[c].attempts + crashes + Pending(c)
  /\ snap[c] # NoSnap => /\ snap[c] < Ceiling + stale[c]
                         /\ row[c].attempts \in {0, snap[c]}
                         /\ placed[c] <= snap[c] + crashes + Pending(c)
Budget == \A c \in Calls : BudgetOf(c)

\* A call that goes on is being placed, or is the one its row remembers, in a
\* status that no cron redials.
Known(d) == LET c == line[d].call
            IN  pend = d \/ /\ row[c].pid = d /\ snap[c] = NoSnap
                            /\ row[c].status \in InFlight \cup {"cancelled"}
Accounted == \A d \in Dials : Live(d) /\ d \notin stray => Known(d)

\* Managers are told at the last attempt.
AlertedLate == \A c \in Calls : alerts[c] > 0 /\ stale[c] = 0 => LastAttempt(row[c].attempts)

IInv == /\ TypeOK /\ PendOK /\ HookOK /\ PidOK /\ JudgeOK /\ Budget /\ Accounted
        /\ AlertedLate /\ RetryFailedIdle

-----------------------------------------------------------------------------
(* What the customer notices of all this: CallPromise.                     *)

Going(c) == {d \in Dials : Live(d) /\ line[d].call = c /\ d \notin stray}

Promise == INSTANCE CallPromise WITH
  Attempts <- Ceiling,
  rings    <- placed,
  going    <- [c \in Calls |-> Going(c)],
  handed   <- [c \in Calls |-> alerts[c] > 0 /\ stale[c] = 0],
  faults   <- [c \in Calls |-> crashes + stale[c]]

\* Rows, batches, webhooks and sweeps together keep the dialler's promise to the
\* customer, step by step: every step is one of CallPromise's or invisible to it.
\* A restart and an outdated update are the promise's faults.
KeepsPromise == Promise!Spec

-----------------------------------------------------------------------------
(* What its comments and documents say, and the code does not do.          *)

\* A customer who asked not to be contacted is not dialled again.
OptOutNeverRedialled ==
  [][\A c \in Calls : placed'[c] > placed[c] =>
       \A d \in Dials : Over(d) /\ line[d].call = c
                         => line[d].talk.said # "optOut"]_vars

=============================================================================
