------------------------- MODULE OutboundCallProofs -------------------------
(***************************************************************************)
(* Proofs about OutboundCall, for every set of rows, of conversations and  *)
(* of handlers at work at once, and every bound: type correctness, the     *)
(* attempt ceiling, the single call in flight, and the finality of the     *)
(* managers' alert.                                                        *)
(***************************************************************************)
EXTENDS OutboundCall, TLAPS

Typed == TypeOK /\ PendOK /\ HookOK

-----------------------------------------------------------------------------
(* What the UPDATEs do to a row: they keep its type, and these are the      *)
(* columns they leave behind.                                              *)

Columns(r, status, attempts, pid, idle) ==
  /\ r \in Row
  /\ r.status = status /\ r.attempts = attempts /\ r.pid = pid /\ r.idle = idle

LEMMA Values ==
  /\ "none" \in Status /\ "queued" \in Status /\ "dialing" \in Status
  /\ "in_progress" \in Status /\ "cancelled" \in Status /\ "failed" \in Status
  /\ Terminal \subseteq Status /\ InFlight \subseteq Status
  /\ 0 \in 0 .. 2 /\ NoDial \in Dials \cup {NoDial}
  /\ "nothing" \in Said /\ "nothing" \in Decided
BY DEF Status, InFlight, Terminal, Said, Decided

LEMMA NoRowRow == NoRow \in Row
BY Values DEF NoRow, Row

\* A row waiting to be dialled for the first time.
LEMMA EnqueuedRow ==
  ASSUME NEW due \in BOOLEAN, NEW pitch \in BOOLEAN
  PROVE  /\ Columns(Enqueued(due, pitch), "queued", 0, NoDial, 0)
         /\ Enqueued(due, pitch).unavailable = FALSE
<1>1. Enqueued(due, pitch) \in Row
  BY Values, NoRowRow DEF Enqueued, NoRow, Row
<1>2. Columns(Enqueued(due, pitch), "queued", 0, NoDial, 0)
  BY <1>1 DEF Enqueued, NoRow, Columns, Row
<1>3. Enqueued(due, pitch).unavailable = FALSE
  BY DEF Enqueued, NoRow, Row
<1> QED BY <1>2, <1>3

LEMMA CancelledRow ==
  ASSUME NEW r \in Row
  PROVE  Columns(Cancelled(r), "cancelled", r.attempts, r.pid, 0)
<1>1. Cancelled(r) \in Row
  BY Values DEF Cancelled, Row
<1>2. Columns(Cancelled(r), "cancelled", r.attempts, r.pid, 0)
  BY <1>1 DEF Cancelled, Columns, Row
<1> QED BY <1>2

LEMMA RequeuedRow ==
  ASSUME NEW r \in Row
  PROVE  /\ Columns(Requeued(r), "queued", 0, NoDial, 0)
         /\ Requeued(r).unavailable = FALSE
<1>1. Requeued(r) \in Row
  BY Values DEF Requeued, Row
<1>2. Columns(Requeued(r), "queued", 0, NoDial, 0)
  BY <1>1 DEF Requeued, Columns, Row
<1>3. Requeued(r).unavailable = FALSE
  BY DEF Requeued, Row
<1> QED BY <1>2, <1>3

LEMMA SkippedRow ==
  ASSUME NEW r \in Row, NEW s \in Status, NEW n \in Nat
  PROVE  /\ Columns(Skipped(r, s, n), s, n, r.pid, 0)
         /\ Skipped(r, s, n).unavailable = FALSE
<1>1. Skipped(r, s, n) \in Row
  BY Values DEF Skipped, Row
<1>2. Columns(Skipped(r, s, n), s, n, r.pid, 0)
  BY <1>1 DEF Skipped, Columns, Row
<1>3. Skipped(r, s, n).unavailable = FALSE
  BY DEF Skipped, Row
<1> QED BY <1>2, <1>3

LEMMA RefusedRow ==
  ASSUME NEW r \in Row, NEW s \in Status, NEW n \in Nat
  PROVE  Columns(Refused(r, s, n), s, n, r.pid, 0)
<1>1. Refused(r, s, n) \in Row
  BY Values DEF Refused, Row
<1>2. Columns(Refused(r, s, n), s, n, r.pid, 0)
  BY <1>1 DEF Refused, Columns, Row
<1> QED BY <1>2

LEMMA DialledRow ==
  ASSUME NEW r \in Row, NEW d \in Dials, NEW n \in Nat
  PROVE  Columns(Dialled(r, d, n), "dialing", n, d, 0)
<1>1. Dialled(r, d, n) \in Row
  BY Values DEF Dialled, Row
<1>2. Columns(Dialled(r, d, n), "dialing", n, d, 0)
  BY <1>1 DEF Dialled, Columns, Row
<1> QED BY <1>2

LEMMA RetriedRow ==
  ASSUME NEW r \in Row
  PROVE  /\ Columns(Retried(r), "queued", r.attempts, r.pid, 0)
         /\ Retried(r).unavailable = FALSE
<1>1. Retried(r) \in Row
  BY Values DEF Retried, Row
<1>2. Columns(Retried(r), "queued", r.attempts, r.pid, 0)
  BY <1>1 DEF Retried, Columns, Row
<1>3. Retried(r).unavailable = FALSE
  BY DEF Retried, Row
<1> QED BY <1>2, <1>3

LEMMA RedialledRow ==
  ASSUME NEW r \in Row
  PROVE  /\ Columns(Redialled(r), "queued", r.attempts, r.pid, 0)
         /\ Redialled(r).unavailable = FALSE
<1>1. Redialled(r) \in Row
  BY Values DEF Redialled, Row
<1>2. Columns(Redialled(r), "queued", r.attempts, r.pid, 0)
  BY <1>1 DEF Redialled, Columns, Row
<1>3. Redialled(r).unavailable = FALSE
  BY DEF Redialled, Row
<1> QED BY <1>2, <1>3

LEMMA PatchedRow ==
  ASSUME NEW r \in Row, NEW s \in Status, NEW h \in Said, NEW a \in Decided,
         NEW u \in BOOLEAN
  PROVE  /\ Columns(Patched(r, s, h, a, u), s, r.attempts, r.pid, 0)
         /\ Patched(r, s, h, a, u).unavailable = u
<1>1. Patched(r, s, h, a, u) \in Row
  BY Values DEF Patched, Row
<1>2. Columns(Patched(r, s, h, a, u), s, r.attempts, r.pid, 0)
  BY <1>1 DEF Patched, Columns, Row
<1>3. Patched(r, s, h, a, u).unavailable = u
  BY DEF Patched, Row
<1> QED BY <1>2, <1>3

-----------------------------------------------------------------------------
(* What the provider does to a physical call.                              *)

\* Nothing but a free line becomes live, and what a call was placed for stays.
Progress ==
  \A d \in Dials : line[d] # Free =>
    /\ line'[d] # Free /\ line'[d].call = line[d].call
    /\ Live(d)' => Live(d)
    /\ \A k \in DOMAIN Sent : Happened(k, d) => Happened(k, d)'

LEMMA PlaceLine ==
  ASSUME NEW c \in Calls, NEW d \in Dials, line \in [Dials -> Line \cup {Free}],
         line[d] = Free, line' = [line EXCEPT ![d] = [phase |-> "live", call |-> c]]
  PROVE  /\ line' \in [Dials -> Line \cup {Free}]
         /\ line'[d] # Free /\ line'[d].call = c
         /\ \A e \in Dials \ {d} : line'[e] = line[e]
BY DEF Line, Free

LEMMA HangUpLine ==
  ASSUME NEW d \in Dials, line \in [Dials -> Line \cup {Free}], HangUp(d)
  PROVE  /\ line' \in [Dials -> Line \cup {Free}]
         /\ line[d] # Free /\ line'[d].call = line[d].call /\ line'[d].phase = "over"
         /\ line'[d] # Free /\ line[d].phase = "live"
         /\ \A e \in Dials \ {d} : line'[e] = line[e]
BY DEF HangUp, Live, Line, Free

LEMMA AnalyseLine ==
  ASSUME NEW d \in Dials, line \in [Dials -> Line \cup {Free}], Analyse(d)
  PROVE  /\ line' \in [Dials -> Line \cup {Free}]
         /\ line[d] # Free /\ line'[d].call = line[d].call /\ line'[d].phase = "analysed"
         /\ line'[d] # Free /\ line[d].phase = "over"
         /\ \A e \in Dials \ {d} : line'[e] = line[e]
<1>1. line[d] \in [phase : {"over"}, call : Calls, talk : Talks]
  BY DEF Analyse, Line, Free
<1>2. line'[d] = [line[d] EXCEPT !.phase = "analysed"]
  BY DEF Analyse
<1>3. /\ line'[d] \in [phase : {"analysed"}, call : Calls, talk : Talks]
      /\ line'[d].call = line[d].call
  BY <1>1, <1>2
<1>4. /\ \A e \in Dials \ {d} : line'[e] = line[e]
      /\ line' \in [Dials -> Line \cup {Free}]
  BY <1>3 DEF Analyse, Line
<1> QED BY <1>1, <1>3, <1>4 DEF Free

\* Every step of a physical call is forward.
LEMMA ProviderProgress ==
  ASSUME NEW d \in Dials, line \in [Dials -> Line \cup {Free}], HangUp(d) \/ Analyse(d)
  PROVE  Progress
<1>1. CASE HangUp(d)
  BY <1>1, HangUpLine DEF Progress, Live, Happened, Sent
<1>2. CASE Analyse(d)
  BY <1>2, AnalyseLine DEF Progress, Live, Happened, Sent
<1> QED BY <1>1, <1>2

-----------------------------------------------------------------------------
(* The effect of every action on the rows.                                 *)

\* Row c alone is written, and these are its columns then.
Writes(c, status, attempts, pid, idle) ==
  /\ row' \in [Calls -> Row]
  /\ \A x \in Calls \ {c} : row'[x] = row[x]
  /\ Columns(row'[c], status, attempts, pid, idle)

LEMMA WriteRow ==
  ASSUME NEW c \in Calls, row \in [Calls -> Row],
         NEW r, NEW s, NEW n, NEW p, NEW i, Columns(r, s, n, p, i),
         row' = [row EXCEPT ![c] = r]
  PROVE  Writes(c, s, n, p, i) /\ row'[c] = r
BY DEF Writes, Columns

\* A handler at work has its row, and what it keeps of the read it works on.
LEMMA HookFields ==
  ASSUME Typed, NEW w \in Workers, hook[w] # NoHook
  PROVE  /\ hook[w].call \in Calls
         /\ Handling(w) => hook[w] \in [kind : Events, dial : Dials, call : Calls, seen : Read]
         /\ hook[w].kind = "judge" =>
              hook[w] \in [kind : {"judge"}, call : Calls, seen : Read,
                           said : Said, decided : Decided]
BY DEF Typed, TypeOK, Hook, NoHook, Handling, Events

LEMMA ReadOfRow ==
  ASSUME NEW r \in Row
  PROVE  /\ ReadOf(r) \in Read
         /\ ReadOf(r).status = r.status /\ ReadOf(r).attempts = r.attempts
         /\ ReadOf(r).pid = r.pid
BY DEF ReadOf, Read, Row

LEMMA EnqueueWrites ==
  ASSUME Typed, NEW c \in Calls, Enqueue(c)
  PROVE  Writes(c, "queued", 0, NoDial, 0) /\ row'[c].unavailable = FALSE
<1>1. PICK due \in BOOLEAN, pitch \in BOOLEAN : row' = [row EXCEPT ![c] = Enqueued(due, pitch)]
  BY DEF Enqueue
<1> QED BY <1>1, EnqueuedRow, WriteRow DEF Typed, TypeOK

LEMMA CancelWrites ==
  ASSUME Typed, NEW w \in Workers, CancelCall(w)
  PROVE  /\ hook[w].call \in Calls
         /\ Writes(hook[w].call, "cancelled", row[hook[w].call].attempts,
                   row[hook[w].call].pid, 0)
<1> DEFINE c == hook[w].call
<1>1. c \in Calls /\ row \in [Calls -> Row]
  BY HookFields DEF CancelCall, NoHook, Typed, TypeOK
<1>2. row' = [row EXCEPT ![c] = Cancelled(row[c])]
  BY DEF CancelCall
<1> HIDE DEF c
<1>3. Columns(Cancelled(row[c]), "cancelled", row[c].attempts, row[c].pid, 0)
  BY <1>1, CancelledRow
<1>4. Writes(c, "cancelled", row[c].attempts, row[c].pid, 0)
  BY <1>1, <1>2, <1>3, WriteRow
<1> QED BY <1>1, <1>4 DEF c

LEMMA RequeueWrites ==
  ASSUME Typed, NEW w \in Workers, RequeueCall(w)
  PROVE  /\ hook[w].call \in Calls
         /\ Writes(hook[w].call, "queued", 0, NoDial, 0)
         /\ row'[hook[w].call].unavailable = FALSE
<1> DEFINE c == hook[w].call
<1>1. c \in Calls /\ row \in [Calls -> Row]
  BY HookFields DEF RequeueCall, NoHook, Typed, TypeOK
<1>2. row' = [row EXCEPT ![c] = Requeued(row[c])]
  BY DEF RequeueCall
<1> HIDE DEF c
<1>3. /\ Columns(Requeued(row[c]), "queued", 0, NoDial, 0)
      /\ Requeued(row[c]).unavailable = FALSE
  BY <1>1, RequeuedRow
<1>4. Writes(c, "queued", 0, NoDial, 0) /\ row'[c] = Requeued(row[c])
  BY <1>1, <1>2, <1>3, WriteRow
<1> QED BY <1>1, <1>3, <1>4 DEF c

LEMMA SkipWrites ==
  ASSUME Typed, NEW c \in Calls, DispatchSkip(c)
  PROVE  /\ \E s \in {"cancelled", "failed"}, n \in {row[c].attempts, snap[c] + 1} :
              Writes(c, s, n, row[c].pid, 0)
         /\ row'[c].unavailable = FALSE
<1>1. row \in [Calls -> Row] /\ row[c].attempts \in Nat /\ snap[c] + 1 \in Nat
  BY DEF Typed, TypeOK, Row, DispatchSkip, InBatch, NoSnap
<1>2. \A s \in {"cancelled", "failed"}, n \in {row[c].attempts, snap[c] + 1} :
        /\ Columns(Skipped(row[c], s, n), s, n, row[c].pid, 0)
        /\ Skipped(row[c], s, n).unavailable = FALSE
  BY <1>1, SkippedRow, Values
<1>3. PICK s \in {"cancelled", "failed"}, n \in {row[c].attempts, snap[c] + 1} :
        row' = [row EXCEPT ![c] = Skipped(row[c], s, n)]
  BY DEF DispatchSkip
<1>4. /\ Columns(Skipped(row[c], s, n), s, n, row[c].pid, 0)
      /\ Skipped(row[c], s, n).unavailable = FALSE
  BY <1>2
<1>5. Writes(c, s, n, row[c].pid, 0) /\ row'[c].unavailable = FALSE
  BY <1>1, <1>3, <1>4, WriteRow
<1> QED BY <1>5

LEMMA RefuseWrites ==
  ASSUME Typed, NEW c \in Calls, InBatch(c), TurnedDown(c)
  PROVE  Writes(c, IF LastAttempt(snap[c] + 1) THEN "failed" ELSE "queued",
                snap[c] + 1, row[c].pid, 0)
<1>1. row \in [Calls -> Row] /\ snap[c] + 1 \in Nat
  BY DEF Typed, TypeOK, InBatch, NoSnap
<1> QED BY <1>1, RefusedRow, Values, WriteRow DEF TurnedDown

LEMMA RecordWrites ==
  ASSUME Typed, DispatchRecord
  PROVE  /\ pend \in Dials /\ line[pend] # Free
         /\ line[pend].call \in Calls /\ snap[line[pend].call] \in Nat
         /\ Writes(line[pend].call, "dialing", snap[line[pend].call] + 1, pend, 0)
<1>1. /\ pend \in Dials /\ line[pend] \in Line /\ line[pend] # Free
      /\ snap[line[pend].call] # NoSnap /\ row \in [Calls -> Row]
  BY DEF Typed, TypeOK, PendOK, DispatchRecord
<1>2. line[pend].call \in Calls
  BY <1>1 DEF Line
<1>3. snap[line[pend].call] \in Nat
  BY <1>1, <1>2 DEF Typed, TypeOK
<1>4. row' = [row EXCEPT ![line[pend].call] = Dialled(@, pend, snap[line[pend].call] + 1)]
  BY DEF DispatchRecord
<1>5. Columns(Dialled(row[line[pend].call], pend, snap[line[pend].call] + 1),
              "dialing", snap[line[pend].call] + 1, pend, 0)
  BY <1>1, <1>2, <1>3, DialledRow
<1> QED BY <1>1, <1>2, <1>3, <1>4, <1>5, WriteRow

LEMMA AgeOutWrites ==
  ASSUME Typed, NEW c \in Calls, AgeOut(c)
  PROVE  /\ Writes(c, row[c].status, row[c].attempts, row[c].pid, row[c].idle)
         /\ row'[c].unavailable = row[c].unavailable
<1> DEFINE r == [row[c] EXCEPT !.fresh = FALSE]
<1>1. Columns(r, row[c].status, row[c].attempts, row[c].pid, row[c].idle)
  BY DEF Typed, TypeOK, Row, Columns
<1>2. r.unavailable = row[c].unavailable
  BY DEF Typed, TypeOK, Row
<1>3. row' = [row EXCEPT ![c] = r]
  BY DEF AgeOut
<1> HIDE DEF r
<1> QED BY <1>1, <1>2, <1>3, WriteRow DEF Typed, TypeOK

LEMMA FallDueWrites ==
  ASSUME Typed, NEW c \in Calls, FallDue(c)
  PROVE  /\ Writes(c, row[c].status, row[c].attempts, row[c].pid, row[c].idle)
         /\ row'[c].unavailable = row[c].unavailable
<1> DEFINE r == [row[c] EXCEPT !.due = TRUE]
<1>1. Columns(r, row[c].status, row[c].attempts, row[c].pid, row[c].idle)
  BY DEF Typed, TypeOK, Row, Columns
<1>2. r.unavailable = row[c].unavailable
  BY DEF Typed, TypeOK, Row
<1>3. row' = [row EXCEPT ![c] = r]
  BY DEF FallDue
<1> HIDE DEF r
<1> QED BY <1>1, <1>2, <1>3, WriteRow DEF Typed, TypeOK

LEMMA GrowIdleWrites ==
  ASSUME Typed, NEW c \in Calls, GrowIdle(c)
  PROVE  /\ Writes(c, row[c].status, row[c].attempts, row[c].pid, row[c].idle + 1)
         /\ row'[c].unavailable = row[c].unavailable
<1> DEFINE r == [row[c] EXCEPT !.idle = @ + 1]
<1>0. row[c] \in Row /\ row[c].idle + 1 \in 0 .. 2
  BY DEF Typed, TypeOK, Row, GrowIdle
<1>1. r \in Row
  BY <1>0 DEF Row
<1>2. /\ Columns(r, row[c].status, row[c].attempts, row[c].pid, row[c].idle + 1)
      /\ r.unavailable = row[c].unavailable
  BY <1>0, <1>1 DEF Row, Columns
<1>3. row' = [row EXCEPT ![c] = r]
  BY DEF GrowIdle
<1> HIDE DEF r
<1> QED BY <1>2, <1>3, WriteRow DEF Typed, TypeOK

-----------------------------------------------------------------------------
(* The effect of a handler's write.                                        *)

\* The call a handler works on, of an event that ends it, is over: what it said
\* is known, and the row that was read is settled.
LEMMA OverTalk ==
  ASSUME Typed, NEW w \in Workers, Handling(w), hook[w].kind # "started"
  PROVE  /\ hook[w].dial \in Dials /\ Over(hook[w].dial)
         /\ line[hook[w].dial].talk \in Talk
         /\ SettledRead(Seen(w))
<1>1. hook[w].dial \in Dials /\ hook[w].kind \in Events /\ hook[w].seen \in Read
  BY HookFields DEF Handling, Events, NoHook
<1>2. Happened(hook[w].kind, hook[w].dial) /\ Seen(w).pid = hook[w].dial
  BY DEF Typed, HookOK
<1>3. Over(hook[w].dial)
  BY <1>1, <1>2 DEF Events, Happened, Sent, Over
<1>4. line[hook[w].dial] \in [phase : {"over", "analysed"}, call : Calls, talk : Talks]
  BY <1>1, <1>3 DEF Typed, TypeOK, Line, Free, Over
<1>5. line[hook[w].dial].talk \in Talk
  BY <1>4, TalkAssumption
<1> QED BY <1>1, <1>2, <1>3, <1>5 DEF SettledRead

\* An event carries a status of the row; one that ends a call does not say that
\* the call goes on.
LEMMA EventStatusType ==
  ASSUME Typed, NEW w \in Workers, Handling(w)
  PROVE  /\ NewStatus(w) \in Status \ {"none", "queued"}
         /\ hook[w].kind # "started" => NewStatus(w) \in Terminal
         /\ hook[w].kind = "started" => NewStatus(w) = "in_progress"
<1>1. CASE hook[w].kind = "started"
  BY <1>1, Values DEF NewStatus, EventStatus
<1>2. CASE hook[w].kind # "started"
  <2>1. line[hook[w].dial].talk.ends \in Terminal
    BY <1>2, OverTalk DEF Talk, Terminal
  <2> QED BY <1>2, <2>1, Values DEF NewStatus, EventStatus, Terminal
<1> QED BY <1>1, <1>2

\* The row keeps its place in the machine.
Unmoved(c) == /\ Writes(c, row[c].status, row[c].attempts, row[c].pid, row[c].idle)
              /\ row'[c].unavailable = row[c].unavailable

\* The row takes a status, and keeps its attempts and its call.
Moves(c, s) == /\ Writes(c, s, row[c].attempts, row[c].pid, 0)
               /\ s \in {"failed", "queued"} => row'[c].unavailable = FALSE

\* What an update is found to have done, beyond the row.
Notes(w) ==
  LET c == hook[w].call
  IN  \/ ~Outdated(w) /\ UNCHANGED <<stale, stray>>
      \/ stale' = [stale EXCEPT ![c] = @ + 1] /\ stray' = stray \cup Heard(c)

LEMMA WriteMoves ==
  ASSUME NEW c \in Calls, row \in [Calls -> Row], NEW r, NEW s,
         Columns(r, s, row[c].attempts, row[c].pid, 0),
         s \in {"failed", "queued"} => r.unavailable = FALSE,
         row' = [row EXCEPT ![c] = r]
  PROVE  Moves(c, s)
<1>1. Writes(c, s, row[c].attempts, row[c].pid, 0) /\ row'[c] = r
  BY WriteRow
<1> QED BY <1>1 DEF Moves

LEMMA WriteUnmoved ==
  ASSUME NEW c \in Calls, row \in [Calls -> Row], NEW r,
         Columns(r, row[c].status, row[c].attempts, row[c].pid, row[c].idle),
         r.unavailable = row[c].unavailable, row' = [row EXCEPT ![c] = r]
  PROVE  Unmoved(c)
<1>1. /\ Writes(c, row[c].status, row[c].attempts, row[c].pid, row[c].idle)
      /\ row'[c] = r
  BY WriteRow
<1> QED BY <1>1 DEF Unmoved

LEMMA UnchangedUnmoved ==
  ASSUME Typed, NEW c \in Calls, row' = row
  PROVE  Unmoved(c)
BY DEF Typed, TypeOK, Unmoved, Writes, Columns, Row

LEMMA RepeatWrites ==
  ASSUME Typed, NEW w \in Workers, ApplyRepeat(w)
  PROVE  Unmoved(hook[w].call) /\ (Notes(w) \/ UNCHANGED <<stale, stray>>)
<1> DEFINE c == hook[w].call
           r == [row[c] EXCEPT !.decided = line[hook[w].dial].talk.decided]
<1>0. c \in Calls /\ row \in [Calls -> Row] /\ row[c] \in Row
  BY HookFields DEF ApplyRepeat, Handling, Events, NoHook, Typed, TypeOK
<1>1. CASE hook[w].kind = "analysed"
  <2>1. line[hook[w].dial].talk.decided \in Decided
    BY <1>1, OverTalk DEF ApplyRepeat, Talk
  <2>2. r \in Row
    BY <1>0, <2>1 DEF Row
  <2>3. /\ Columns(r, row[c].status, row[c].attempts, row[c].pid, row[c].idle)
        /\ r.unavailable = row[c].unavailable
    BY <1>0, <2>2 DEF Row, Columns
  <2>4. row' = [row EXCEPT ![c] = r] /\ Notes(w)
    BY <1>1 DEF ApplyRepeat, Update, Notes
  <2> HIDE DEF r, c
  <2>5. Unmoved(c)
    BY <1>0, <2>3, <2>4, WriteUnmoved
  <2> QED BY <2>4, <2>5 DEF c
<1>2. CASE hook[w].kind # "analysed"
  <2>1. row' = row /\ UNCHANGED <<stale, stray>>
    BY <1>2 DEF ApplyRepeat
  <2> QED BY <1>0, <2>1, UnchangedUnmoved
<1> QED BY <1>1, <1>2

LEMMA RetryWrites ==
  ASSUME Typed, NEW w \in Workers, ApplyRetry(w)
  PROVE  /\ Moves(hook[w].call, "queued") /\ Notes(w)
         /\ Seen(w).attempts < MaxAttempts /\ hook[w].kind # "started"
<1> DEFINE c == hook[w].call
<1>1. c \in Calls /\ row \in [Calls -> Row] /\ row[c] \in Row /\ Seen(w).attempts \in Nat
  BY HookFields DEF ApplyRetry, Handling, Events, NoHook, Typed, TypeOK, Seen, Read
<1>2. row' = [row EXCEPT ![c] = Retried(row[c])] /\ Notes(w)
  BY DEF ApplyRetry, Update, Notes
<1>3. hook[w].kind # "started"
  BY EventStatusType DEF ApplyRetry, Retries, Retryable
<1>4. Seen(w).attempts < MaxAttempts
  BY <1>1, AttemptAssumption DEF ApplyRetry, Retries, LastAttempt
<1>5. /\ Columns(Retried(row[c]), "queued", row[c].attempts, row[c].pid, 0)
      /\ Retried(row[c]).unavailable = FALSE
  BY <1>1, RetriedRow
<1> HIDE DEF c
<1>6. Moves(c, "queued")
  BY <1>1, <1>2, <1>5, WriteMoves
<1> QED BY <1>2, <1>3, <1>4, <1>6 DEF c

LEMMA PatchWrites ==
  ASSUME Typed, NEW w \in Workers, ApplyPatch(w)
  PROVE  Moves(hook[w].call, NewStatus(w)) /\ Notes(w)
<1> DEFINE c == hook[w].call
           talk == line[hook[w].dial].talk
           a == IF hook[w].kind = "analysed" THEN talk.decided ELSE "nothing"
<1>0. c \in Calls /\ row \in [Calls -> Row] /\ row[c] \in Row
  BY HookFields DEF ApplyPatch, Handling, Events, NoHook, Typed, TypeOK
<1>1. NewStatus(w) \in Status
  BY EventStatusType DEF ApplyPatch
<1>2. CASE hook[w].kind = "started"
  <2> DEFINE r == Patched(row[c], NewStatus(w), row[c].said, a, row[c].unavailable)
  <2>1. /\ Columns(r, NewStatus(w), row[c].attempts, row[c].pid, 0)
    <3>1. row[c].said \in Said /\ row[c].unavailable \in BOOLEAN /\ a \in Decided
      BY <1>0, <1>2, Values DEF Row
    <3> HIDE DEF a
    <3> QED BY <1>0, <1>1, <3>1, PatchedRow
  <2>2. row' = [row EXCEPT ![c] = r] /\ Notes(w)
    BY <1>2 DEF ApplyPatch, Update, Notes
  <2>3. NewStatus(w) = "in_progress"
    BY <1>2, EventStatusType DEF ApplyPatch
  <2> HIDE DEF r, c
  <2>4. Moves(c, NewStatus(w))
    BY <1>0, <2>1, <2>2, <2>3, WriteMoves
  <2> QED BY <2>2, <2>4 DEF c
<1>3. CASE hook[w].kind # "started"
  <2> DEFINE r == Patched(row[c], NewStatus(w), talk.said, a, FALSE)
  <2>0. talk.said \in Said /\ talk.decided \in Decided
    BY <1>3, OverTalk DEF ApplyPatch, Talk
  <2>1. /\ Columns(r, NewStatus(w), row[c].attempts, row[c].pid, 0)
        /\ r.unavailable = FALSE
    <3>1. a \in Decided
      BY <2>0, Values
    <3> HIDE DEF a, talk
    <3> QED BY <1>0, <1>1, <2>0, <3>1, PatchedRow
  <2>2. row' = [row EXCEPT ![c] = r] /\ Notes(w)
    BY <1>3 DEF ApplyPatch, Update, Notes
  <2> HIDE DEF r, c
  <2>4. Moves(c, NewStatus(w))
    BY <1>0, <2>1, <2>2, WriteMoves
  <2> QED BY <2>2, <2>4 DEF c
<1> QED BY <1>2, <1>3

LEMMA JudgeWrites ==
  ASSUME Typed, NEW w \in Workers, Judge(w)
  PROVE  \/ Unmoved(hook[w].call) /\ UNCHANGED <<stale, stray>>
         \/ Moves(hook[w].call, "queued") /\ Notes(w) /\ Seen(w).attempts < Ceiling
<1> DEFINE c == hook[w].call
<1>1. c \in Calls /\ row \in [Calls -> Row] /\ row[c] \in Row
  BY HookFields DEF Judge, NoHook, Typed, TypeOK
<1>2. CASE row' = row /\ UNCHANGED <<stale, stray>>
  BY <1>1, <1>2, UnchangedUnmoved
<1>3. CASE Seen(w).attempts < Ceiling /\ Update(w, Redialled(row[c]))
  <2>1. /\ Columns(Redialled(row[c]), "queued", row[c].attempts, row[c].pid, 0)
        /\ Redialled(row[c]).unavailable = FALSE
    BY <1>1, RedialledRow
  <2>2. row' = [row EXCEPT ![c] = Redialled(row[c])] /\ Notes(w)
    BY <1>3 DEF Update, Notes
  <2> HIDE DEF c
  <2>3. Moves(c, "queued")
    BY <1>1, <2>1, <2>2, WriteMoves
  <2> QED BY <1>3, <2>2, <2>3 DEF c
<1> QED BY <1>2, <1>3 DEF Judge

-----------------------------------------------------------------------------
(* Type correctness.                                                       *)

LEMMA TypedInit == Init => Typed
BY NoRowRow, BoundAssumption
   DEF Init, Typed, TypeOK, PendOK, HookOK, Handling, Events, NoHook, Line, Free, NoDial, NoSnap

LEMMA AlertedType ==
  ASSUME alerts \in [Calls -> 0 .. 2], NEW c \in Calls
  PROVE  Alerted(c) \in [Calls -> 0 .. 2] /\ \A x \in Calls \ {c} : Alerted(c)[x] = alerts[x]
BY DEF Alerted

\* A handler keeps its read, reads its row anew, goes on to judge, or is done.
HookStep ==
  /\ hook' \in [Workers -> Hook \cup {NoHook}]
  /\ \A w \in Workers : Handling(w)' =>
       \/ hook'[w] = hook[w]
       \/ Happened(hook'[w].kind, hook'[w].dial) /\ Seen(w)'.pid = hook'[w].dial

\* A step that takes no call further keeps what is known of the handlers.
LEMMA HookKept ==
  ASSUME Typed, HookStep, UNCHANGED line
  PROVE  HookOK'
BY DEF Typed, HookOK, HookStep, Handling, Happened, Seen

\* A step that leaves the physical calls and the dispatcher alone keeps the types
\* if what it writes has them.
LEMMA TypedRowStep ==
  ASSUME Typed, HookStep, row' \in [Calls -> Row], alerts' \in [Calls -> 0 .. 2],
         placed' \in [Calls -> Nat], stray' \subseteq Dials, stale' \in [Calls -> Nat],
         requeues' \in 0 .. MaxRequeues, UNCHANGED <<line, snap, pend, crashes>>
  PROVE  Typed'
<1>1. HookOK'
  BY HookKept
<1>2. PendOK'
  BY DEF Typed, PendOK
<1>3. TypeOK'
  BY DEF Typed, TypeOK, HookStep
<1> QED BY <1>1, <1>2, <1>3 DEF Typed

LEMMA SameHook ==
  ASSUME Typed, UNCHANGED hook
  PROVE  HookStep
BY DEF Typed, TypeOK, HookStep

\* A handler that has written its row is done.
LEMMA EndsHook ==
  ASSUME Typed, NEW w \in Workers, Ends(w)
  PROVE  HookStep
BY DEF Ends, Typed, TypeOK, HookStep, Handling, Events, NoHook

LEMMA ReadsHook ==
  ASSUME Typed, NEW w \in Workers, NEW h \in Hook, Reads(w, h),
         h.kind \in Events => Happened(h.kind, h.dial) /\ h.seen.pid = h.dial
  PROVE  HookStep
<1>1. hook' = [hook EXCEPT ![w] = h]
  BY DEF Reads
<1>2. hook' \in [Workers -> Hook \cup {NoHook}]
  BY <1>1 DEF Typed, TypeOK
<1>3. ASSUME NEW v \in Workers, Handling(v)', v # w PROVE hook'[v] = hook[v]
  BY <1>1, <1>3 DEF Typed, TypeOK
<1>4. hook'[w] = h
  BY <1>1 DEF Typed, TypeOK
<1>5. Handling(w)' => Happened(hook'[w].kind, hook'[w].dial) /\ Seen(w)'.pid = hook'[w].dial
  BY <1>4 DEF Handling, Seen
<1> QED BY <1>2, <1>3, <1>5 DEF HookStep

LEMMA JudgesHook ==
  ASSUME Typed, NEW w \in Workers, hook[w].call \in Calls,
         NEW seen \in Read, NEW said \in Said, NEW decided \in Decided,
         Judges(w, seen, said, decided)
  PROVE  HookStep
<1> DEFINE h == ToJudge(hook[w].call, seen, said, decided)
<1>1. h \in Hook /\ h.kind = "judge"
  BY DEF ToJudge, Hook
<1>2. hook' = [hook EXCEPT ![w] = h]
  BY DEF Judges
<1> HIDE DEF h
<1> QED BY <1>1, <1>2 DEF Typed, TypeOK, HookStep, Handling, Events

LEMMA TypedOperator ==
  ASSUME Typed, Operator
  PROVE  Typed'
<1>1. ASSUME NEW c \in Calls, Enqueue(c) PROVE Typed'
  BY <1>1, EnqueueWrites, SameHook, TypedRowStep DEF Enqueue, Writes, Typed, TypeOK
<1>2. ASSUME NEW c \in Calls, NEW w \in Workers, ReadCancel(w, c) PROVE Typed'
  <2>1. [kind |-> "cancel", call |-> c] \in Hook
    BY DEF Hook
  <2>2. HookStep
    BY <1>2, <2>1, ReadsHook DEF ReadCancel, Events
  <2> QED BY <1>2, <2>2, TypedRowStep DEF ReadCancel, Typed, TypeOK
<1>3. ASSUME NEW c \in Calls, NEW w \in Workers, ReadRequeue(w, c) PROVE Typed'
  <2>1. [kind |-> "requeue", call |-> c] \in Hook
    BY DEF Hook
  <2>2. HookStep
    BY <1>3, <2>1, ReadsHook DEF ReadRequeue, Events
  <2>3. requeues' \in 0 .. MaxRequeues
    BY <1>3, BoundAssumption DEF ReadRequeue, Typed, TypeOK
  <2> QED BY <1>3, <2>2, <2>3, TypedRowStep DEF ReadRequeue, Typed, TypeOK
<1>4. ASSUME NEW w \in Workers, CancelCall(w) PROVE Typed'
  BY <1>4, CancelWrites, EndsHook, TypedRowStep DEF CancelCall, Writes, Typed, TypeOK
<1>5. ASSUME NEW w \in Workers, RequeueCall(w) PROVE Typed'
  <2>1. row' \in [Calls -> Row] /\ HookStep
    BY <1>5, RequeueWrites, EndsHook DEF RequeueCall, Writes
  <2>2. alerts' \in [Calls -> 0 .. 2]
    <3>1. alerts' = [alerts EXCEPT ![hook[w].call] = 0] /\ alerts \in [Calls -> 0 .. 2]
      BY <1>5 DEF RequeueCall, Typed, TypeOK
    <3> QED BY <3>1, Values
  <2>3. placed' \in [Calls -> Nat]
    BY <1>5 DEF RequeueCall, Typed, TypeOK
  <2>4. stray' \subseteq Dials
    BY <1>5 DEF RequeueCall, Typed, TypeOK
  <2> QED BY <1>5, <2>1, <2>2, <2>3, <2>4, TypedRowStep DEF RequeueCall, Typed, TypeOK
<1> QED BY <1>1, <1>2, <1>3, <1>4, <1>5 DEF Operator

\* A step of the dispatcher that serves row c of the batch without placing a call.
LEMMA TypedServed ==
  ASSUME Typed, NEW c \in Calls, InBatch(c), Served(c), row' \in [Calls -> Row],
         alerts' \in [Calls -> 0 .. 2],
         UNCHANGED <<line, pend, hook, placed, stray, stale, crashes, requeues>>
  PROVE  Typed'
<1>1. HookOK'
  BY SameHook, HookKept
<1>2. PendOK' /\ TypeOK'
  BY DEF Typed, TypeOK, PendOK, InBatch, Served
<1> QED BY <1>1, <1>2 DEF Typed

\* A call that begins is of its row, and the events being handled are of others.
LEMMA TypedBegins ==
  ASSUME Typed, NEW c \in Calls, NEW d \in Dials, Begins(c, d), hook' = hook
  PROVE  /\ line' \in [Dials -> Line \cup {Free}] /\ placed' \in [Calls -> Nat]
         /\ line'[d] # Free /\ line'[d].call = c
         /\ \A e \in Dials \ {d} : line'[e] = line[e]
         /\ HookOK'
<1>1. /\ line' \in [Dials -> Line \cup {Free}] /\ line'[d] # Free /\ line'[d].call = c
      /\ \A e \in Dials \ {d} : line'[e] = line[e]
  BY PlaceLine DEF Begins, Typed, TypeOK
<1>2. placed' \in [Calls -> Nat]
  BY DEF Begins, Typed, TypeOK
<1>3. ASSUME NEW w \in Workers, Handling(w) PROVE Happened(hook[w].kind, hook[w].dial)'
  <2>1. hook[w].dial \in Dials /\ Happened(hook[w].kind, hook[w].dial) /\ hook[w].kind \in Events
    BY <1>3, HookFields DEF Handling, Events, NoHook, Typed, HookOK
  <2>2. hook[w].dial # d
    BY <2>1 DEF Begins, Happened, Sent, Events, Free
  <2> QED BY <1>1, <2>1, <2>2 DEF Happened
<1>4. HookOK'
  BY <1>3 DEF Typed, HookOK, Handling, Seen
<1> QED BY <1>1, <1>2, <1>4

LEMMA TypedDispatcher ==
  ASSUME Typed, Dispatcher
  PROVE  Typed'
<1>1. CASE DispatchSelect
  <2>1. snap' \in [Calls -> Nat \cup {NoSnap}]
    BY <1>1 DEF DispatchSelect, Typed, TypeOK, Row
  <2>2. HookOK'
    BY <1>1, SameHook, HookKept DEF DispatchSelect
  <2> QED BY <1>1, <2>1, <2>2 DEF DispatchSelect, Typed, TypeOK, PendOK
<1>2. CASE DispatchRecord
  <2>1. row' \in [Calls -> Row]
    BY <1>2, RecordWrites DEF Writes
  <2>2. snap' \in [Calls -> Nat \cup {NoSnap}]
    BY <1>2 DEF DispatchRecord, Served, Typed, TypeOK
  <2>3. UNCHANGED <<line, hook, alerts, placed, stray, stale, crashes, requeues>> /\ pend' = NoDial
    BY <1>2 DEF DispatchRecord
  <2>4. HookOK'
    BY <2>3, SameHook, HookKept
  <2> QED BY <2>1, <2>2, <2>3, <2>4 DEF Typed, TypeOK, PendOK
<1>3. ASSUME NEW c \in Calls, DispatchSkip(c) PROVE Typed'
  <2>1. row' \in [Calls -> Row]
    BY <1>3, SkipWrites DEF Writes
  <2> QED BY <1>3, <2>1, TypedServed DEF DispatchSkip, Typed, TypeOK
<1>4. ASSUME NEW c \in Calls, DispatchRefused(c) PROVE Typed'
  <2>1. row' \in [Calls -> Row]
    BY <1>4, RefuseWrites DEF DispatchRefused, Writes
  <2>2. alerts' \in [Calls -> 0 .. 2]
    BY <1>4, AlertedType DEF DispatchRefused, TurnedDown, Typed, TypeOK
  <2> QED BY <1>4, <2>1, <2>2, TypedServed DEF DispatchRefused
<1>5. ASSUME NEW c \in Calls, DispatchPlace(c) PROVE Typed'
  <2>1. PICK d \in Dials : Begins(c, d) /\ pend' = d
    BY <1>5 DEF DispatchPlace
  <2>2. /\ line' \in [Dials -> Line \cup {Free}] /\ placed' \in [Calls -> Nat]
        /\ line'[d] # Free /\ line'[d].call = c /\ HookOK'
    BY <1>5, <2>1, TypedBegins DEF DispatchPlace
  <2>3. TypeOK'
    BY <1>5, <2>1, <2>2 DEF DispatchPlace, Typed, TypeOK
  <2>4. PendOK'
    BY <1>5, <2>1, <2>2 DEF DispatchPlace, InBatch, PendOK
  <2> QED BY <2>2, <2>3, <2>4 DEF Typed
<1>6. ASSUME NEW c \in Calls, DispatchLost(c) PROVE Typed'
  <2>1. PICK d \in Dials : Begins(c, d) /\ stray' = stray \cup {d}
    BY <1>6 DEF DispatchLost
  <2>2. /\ line' \in [Dials -> Line \cup {Free}] /\ placed' \in [Calls -> Nat] /\ HookOK'
    BY <1>6, <2>1, TypedBegins DEF DispatchLost
  <2>3. row' \in [Calls -> Row]
    BY <1>6, RefuseWrites DEF DispatchLost, Writes
  <2>4. alerts' \in [Calls -> 0 .. 2]
    BY <1>6, AlertedType DEF DispatchLost, TurnedDown, Typed, TypeOK
  <2>5. TypeOK'
    BY <1>6, <2>1, <2>2, <2>3, <2>4 DEF DispatchLost, Served, Typed, TypeOK
  <2>6. PendOK'
    BY <1>6 DEF DispatchLost, InBatch, PendOK
  <2> QED BY <2>2, <2>5, <2>6 DEF Typed
<1> QED BY <1>1, <1>2, <1>3, <1>4, <1>5, <1>6 DEF Dispatcher

LEMMA TypedProvider ==
  ASSUME Typed, NEW d \in Dials, HangUp(d) \/ Analyse(d)
  PROVE  Typed'
<1>1. line' \in [Dials -> Line \cup {Free}] /\ Progress
  BY HangUpLine, AnalyseLine, ProviderProgress DEF Typed, TypeOK
<1>2. UNCHANGED <<row, snap, pend, hook, alerts, placed, stray, stale, crashes, requeues>>
  BY DEF HangUp, Analyse
<1>3. TypeOK'
  BY <1>1, <1>2 DEF Typed, TypeOK
<1>4. PendOK'
  BY <1>1, <1>2 DEF Typed, TypeOK, PendOK, Progress
<1>5. HookOK'
  <2> SUFFICES ASSUME NEW w \in Workers, Handling(w)
               PROVE  Happened(hook[w].kind, hook[w].dial)' /\ Seen(w).pid = hook[w].dial
    BY <1>2 DEF HookOK, Handling, Seen
  <2>1. /\ hook[w].dial \in Dials /\ Happened(hook[w].kind, hook[w].dial)
        /\ hook[w].kind \in DOMAIN Sent /\ Seen(w).pid = hook[w].dial
    BY HookFields DEF Handling, Events, NoHook, Typed, HookOK, Sent
  <2>2. line[hook[w].dial] # Free
    BY <2>1 DEF Happened, Sent, Free
  <2> QED BY <1>1, <1>2, <2>1, <2>2 DEF Progress, Happened
<1> QED BY <1>3, <1>4, <1>5 DEF Typed

LEMMA TypedClock ==
  ASSUME Typed, NEW c \in Calls, AgeOut(c) \/ FallDue(c) \/ GrowIdle(c)
  PROVE  Typed'
<1>1. row' \in [Calls -> Row]
  BY AgeOutWrites, FallDueWrites, GrowIdleWrites DEF Writes
<1>2. HookStep
  BY SameHook DEF AgeOut, FallDue, GrowIdle
<1> QED BY <1>1, <1>2, TypedRowStep DEF AgeOut, FallDue, GrowIdle, Typed, TypeOK

\* A webhook or a sweep reads its row.
Picks(w) == \/ \E d \in Dials : Deliver(w, d)
            \/ \E c \in Calls : Reconcile(w, c) \/ SweepPick(w, c)

LEMMA HandleHook ==
  ASSUME Typed, NEW w \in Workers, NEW kind \in Events, NEW d \in Dials, NEW c \in Calls,
         Handle(w, kind, d, c), Happened(kind, d), row[c].pid = d
  PROVE  HookStep
<1>1. ReadOf(row[c]) \in Read /\ ReadOf(row[c]).pid = d
  BY ReadOfRow DEF Typed, TypeOK
<1>2. PICK h \in Hook :
        h = [kind |-> kind, dial |-> d, call |-> c, seen |-> ReadOf(row[c])]
  BY <1>1 DEF Hook
<1>3. Reads(w, h) /\ UNCHANGED line
  BY <1>2 DEF Handle
<1>4. Happened(h.kind, h.dial) /\ h.seen.pid = h.dial
  BY <1>1, <1>2, <1>3 DEF Happened
<1> QED BY <1>3, <1>4, ReadsHook

LEMMA PickHook ==
  ASSUME Typed, NEW w \in Workers, Picks(w)
  PROVE  HookStep
<1>1. ASSUME NEW d \in Dials, Deliver(w, d) PROVE HookStep
  BY <1>1, HandleHook DEF Deliver
<1>2. ASSUME NEW c \in Calls, Reconcile(w, c) PROVE HookStep
  <2>1. row[c].pid \in Dials /\ line[row[c].pid].phase \in {"over", "analysed"}
    BY <1>2 DEF Reconcile, Stalled, Over, Typed, TypeOK, Row
  <2>2. CASE line[row[c].pid].phase = "analysed"
    <3>1. Handle(w, "analysed", row[c].pid, c) /\ Happened("analysed", row[c].pid)
      BY <1>2, <2>2 DEF Reconcile, Happened, Sent
    <3> QED BY <2>1, <3>1, HandleHook DEF Events
  <2>3. CASE line[row[c].pid].phase # "analysed"
    <3>1. Handle(w, "ended", row[c].pid, c) /\ Happened("ended", row[c].pid)
      BY <1>2, <2>1, <2>3 DEF Reconcile, Happened, Sent
    <3> QED BY <2>1, <3>1, HandleHook DEF Events
  <2> QED BY <2>2, <2>3
<1>3. ASSUME NEW c \in Calls, SweepPick(w, c) PROVE HookStep
  <2>1. ToJudge(c, ReadOf(row[c]), row[c].said, row[c].decided) \in Hook
    BY ReadOfRow DEF ToJudge, Hook, Typed, TypeOK, Row
  <2>2. PICK h \in Hook : h = ToJudge(c, ReadOf(row[c]), row[c].said, row[c].decided)
    BY <2>1
  <2>3. Reads(w, h) /\ h.kind = "judge"
    BY <1>3, <2>2 DEF SweepPick, ToJudge
  <2> QED BY <2>3, ReadsHook DEF Events
<1> QED BY <1>1, <1>2, <1>3 DEF Picks

LEMMA PickFrame ==
  ASSUME NEW w \in Workers, Picks(w)
  PROVE  UNCHANGED <<row, line, snap, pend, alerts, placed, stray, stale, crashes, requeues>>
BY DEF Picks, Deliver, Reconcile, SweepPick, Handle

LEMMA TypedPick ==
  ASSUME Typed, NEW w \in Workers, Picks(w)
  PROVE  Typed'
BY PickHook, PickFrame, TypedRowStep DEF Typed, TypeOK

\* What a handler hands on to the judgement is what it read and heard.
LEMMA ApplyHook ==
  ASSUME Typed, NEW w \in Workers, Apply(w)
  PROVE  /\ hook[w].call \in Calls /\ HookStep
         /\ \A v \in Workers \ {w} : hook'[v] = hook[v]
         /\ hook'[w].kind = "judge" => /\ hook'[w].call = hook[w].call
                                       /\ SettledRead(Seen(w)')
         /\ ~Handling(w)'
<1>1. CASE Ends(w)
  <2>1. hook[w] # NoHook
    <3>1. Handling(w) \/ hook[w].kind = "judge"
      BY DEF Apply, ApplyRepeat, ApplyRetry, ApplyPatch, Judge
    <3> QED BY <3>1 DEF Handling, Events, NoHook
  <2>2. hook[w].call \in Calls
    BY <2>1, HookFields
  <2>3. hook'[w] = NoHook /\ \A v \in Workers \ {w} : hook'[v] = hook[v]
    BY <1>1 DEF Ends, Typed, TypeOK
  <2> QED BY <1>1, <2>2, <2>3, EndsHook DEF Handling, Events, NoHook
<1>2. CASE ~Ends(w)
  <2>1. /\ Handling(w) /\ hook[w].kind # "started"
        /\ \E seen \in {hook[w].seen, [hook[w].seen EXCEPT !.status = NewStatus(w)]},
              said \in {line[hook[w].dial].talk.said},
              decided \in {"nothing", line[hook[w].dial].talk.decided} :
             Judges(w, seen, said, decided)
    BY <1>2 DEF Apply, ApplyRepeat, ApplyRetry, ApplyPatch, Judge
  <2>2. PICK seen \in {hook[w].seen, [hook[w].seen EXCEPT !.status = NewStatus(w)]},
             said \in {line[hook[w].dial].talk.said},
             decided \in {"nothing", line[hook[w].dial].talk.decided} :
          Judges(w, seen, said, decided)
    BY <2>1
  <2>3. hook[w].call \in Calls /\ hook[w].seen \in Read /\ NewStatus(w) \in Status
    BY <2>1, HookFields, EventStatusType DEF Handling, Events, NoHook
  <2>4. /\ seen \in Read /\ seen.pid = hook[w].seen.pid
        /\ said \in Said /\ decided \in Decided
    BY <2>1, <2>2, <2>3, OverTalk, Values DEF Read, Talk
  <2>5. HookStep
    BY <2>2, <2>3, <2>4, JudgesHook
  <2>6. /\ hook'[w] = ToJudge(hook[w].call, seen, said, decided)
        /\ \A v \in Workers \ {w} : hook'[v] = hook[v]
    BY <2>2 DEF Judges, Typed, TypeOK
  <2>7. Over(hook[w].dial) /\ hook[w].seen.pid = hook[w].dial
    BY <2>1, OverTalk DEF Typed, HookOK, Seen
  <2>8. line' = line
    BY DEF Apply, ApplyRepeat, ApplyRetry, ApplyPatch, Judge
  <2>9. SettledRead(seen)
    BY <2>4, <2>7 DEF SettledRead
  <2> QED BY <2>3, <2>5, <2>6, <2>8, <2>9
          DEF ToJudge, Handling, Events, Seen, SettledRead, Over
<1> QED BY <1>1, <1>2

LEMMA NotesType ==
  ASSUME Typed, NEW w \in Workers, Notes(w) \/ UNCHANGED <<stale, stray>>
  PROVE  stale' \in [Calls -> Nat] /\ stray' \subseteq Dials
BY DEF Notes, Typed, TypeOK, Heard

LEMMA ApplyNotes ==
  ASSUME Typed, NEW w \in Workers, Apply(w)
  PROVE  /\ row' \in [Calls -> Row]
         /\ Notes(w) \/ UNCHANGED <<stale, stray>>
<1>1. CASE ApplyRepeat(w)
  BY <1>1, RepeatWrites DEF Unmoved, Writes
<1>2. CASE ApplyRetry(w)
  BY <1>2, RetryWrites DEF Moves, Writes
<1>3. CASE ApplyPatch(w)
  BY <1>3, PatchWrites DEF Moves, Writes
<1>4. CASE Judge(w)
  BY <1>4, JudgeWrites DEF Unmoved, Moves, Writes
<1> QED BY <1>1, <1>2, <1>3, <1>4 DEF Apply

LEMMA TypedApply ==
  ASSUME Typed, NEW w \in Workers, Apply(w)
  PROVE  Typed'
<1>1. row' \in [Calls -> Row] /\ stale' \in [Calls -> Nat] /\ stray' \subseteq Dials
  BY ApplyNotes, NotesType
<1>2. hook[w].call \in Calls /\ HookStep
  BY ApplyHook
<1>3. alerts' \in [Calls -> 0 .. 2]
  BY <1>2, AlertedType DEF Apply, ApplyRepeat, ApplyRetry, ApplyPatch, Judge, Typed, TypeOK
<1>4. UNCHANGED <<line, snap, pend, placed, crashes, requeues>>
  BY DEF Apply, ApplyRepeat, ApplyRetry, ApplyPatch, Judge
<1> QED BY <1>1, <1>2, <1>3, <1>4, TypedRowStep DEF Typed, TypeOK

LEMMA TypedCrash ==
  ASSUME Typed, Crash
  PROVE  Typed'
<1>1. crashes' \in 0 .. MaxCrashes
  BY BoundAssumption DEF Crash, Typed, TypeOK
<1>2. stray' \subseteq Dials /\ snap' \in [Calls -> Nat \cup {NoSnap}]
  BY DEF Crash, Typed, TypeOK
<1>3. hook' \in [Workers -> Hook \cup {NoHook}] /\ HookOK'
  BY DEF Crash, HookOK, Handling, Events, NoHook
<1> QED BY <1>1, <1>2, <1>3 DEF Crash, Typed, TypeOK, PendOK

LEMMA TypedStep == Typed /\ [Next]_vars => Typed'
<1> SUFFICES ASSUME Typed, [Next]_vars PROVE Typed'
  OBVIOUS
<1>1. CASE UNCHANGED vars
  BY <1>1, SameHook, TypedRowStep DEF vars, Typed, TypeOK
<1>2. CASE Handlers
  BY <1>2, TypedPick, TypedApply DEF Handlers, Picks
<1> QED BY <1>1, <1>2, TypedOperator, TypedDispatcher, TypedProvider, TypedClock, TypedCrash
        DEF Next, Provider, Clock

\* Every reachable state is one the columns and the provider can hold.
THEOREM TypeCorrect == Spec => []TypeOK
<1>1. Spec => []Typed
  BY TypedInit, TypedStep, PTL DEF Spec
<1>2. Typed => TypeOK
  BY DEF Typed
<1> QED BY <1>1, <1>2, PTL

-----------------------------------------------------------------------------
(* The inductive invariant.                                                *)

Safe == PidOK /\ JudgeOK /\ Budget /\ Accounted /\ AlertedLate /\ RetryFailedIdle

LEMMA CeilingType ==
  Ceiling \in Nat \ {0} /\ MaxAttempts \in Nat \ {0} /\ MaxAttempts <= Ceiling
BY AttemptAssumption DEF Ceiling

LEMMA RowFields ==
  ASSUME Typed, NEW c \in Calls
  PROVE  /\ row[c] \in Row /\ row[c].status \in Status /\ row[c].attempts \in Nat
         /\ row[c].pid \in Dials \cup {NoDial} /\ row[c].idle \in 0 .. 2
         /\ stale[c] \in Nat /\ placed[c] \in Nat /\ crashes \in Nat
         /\ alerts[c] \in 0 .. 2
BY DEF Typed, TypeOK, Row

LEMMA LiveCall ==
  ASSUME Typed, NEW d \in Dials, Live(d)
  PROVE  line[d] # Free /\ line[d].call \in Calls
BY DEF Typed, TypeOK, Line, Free, Live

LEMMA SafeInit == Init => Safe
<1> SUFFICES ASSUME Init PROVE Safe
  OBVIOUS
<1>1. PidOK /\ Budget /\ AlertedLate /\ RetryFailedIdle
  BY CeilingType
     DEF Init, PidOK, Budget, BudgetOf, AlertedLate, RetryFailedIdle, NoRow, Pending,
         NoDial, NoSnap, LastAttempt
<1>2. JudgeOK /\ Accounted
  BY DEF Init, JudgeOK, NoHook, Accounted, Live, Free
<1> QED BY <1>1, <1>2 DEF Safe

\* A read of a settled row is one of a settled row for good.
LEMMA JudgeKept ==
  ASSUME Typed, Safe, \A d \in Dials : Over(d) => Over(d)',
         \A w \in Workers : hook'[w].kind = "judge" =>
           hook'[w] = hook[w] \/ SettledRead(Seen(w))'
  PROVE  JudgeOK'
<1> SUFFICES ASSUME NEW w \in Workers, hook'[w].kind = "judge", hook'[w] = hook[w]
             PROVE  SettledRead(Seen(w))'
  BY DEF JudgeOK
<1>1. SettledRead(Seen(w)) /\ Seen(w)' = Seen(w)
  BY DEF Safe, JudgeOK, Seen
<1>2. Seen(w).pid \in Dials \cup {NoDial}
  BY HookFields DEF NoHook, Seen, Read
<1> QED BY <1>1, <1>2 DEF SettledRead

LEMMA JudgeSame ==
  ASSUME Typed, Safe, UNCHANGED line, hook' = hook
  PROVE  JudgeOK'
BY JudgeKept DEF Over

\* A handler that has written its row leaves the others to judge theirs.
LEMMA JudgeEnds ==
  ASSUME Typed, Safe, UNCHANGED line, NEW w \in Workers, Ends(w)
  PROVE  JudgeOK'
<1>1. \A v \in Workers : hook'[v].kind = "judge" => hook'[v] = hook[v]
  BY DEF Ends, Typed, TypeOK, NoHook
<1> QED BY <1>1, JudgeKept DEF Over

\* So does one that reads a row an operator asked it to write.
LEMMA JudgeReads ==
  ASSUME Typed, Safe, UNCHANGED line, NEW w \in Workers, NEW h, Reads(w, h), h.kind # "judge"
  PROVE  JudgeOK'
<1>1. \A v \in Workers : hook'[v].kind = "judge" => hook'[v] = hook[v]
  BY DEF Reads, Typed, TypeOK
<1> QED BY <1>1, JudgeKept DEF Over

\* Nothing is known of the calls but what the rows say: an invariant of the rest
\* outlives a step that keeps it.
LEMMA SafeSame ==
  ASSUME Safe, JudgeOK',
         UNCHANGED <<row, line, snap, pend, alerts, placed, stray, stale, crashes>>
  PROVE  Safe'
BY DEF Safe, PidOK, Budget, BudgetOf, Pending, Accounted, Known, Live, AlertedLate,
       RetryFailedIdle

\* What a write of a row's status must satisfy to keep the invariant.
LEMMA SafeWritten ==
  ASSUME Typed, Safe, NEW c \in Calls, NEW s, NEW i \in {row[c].idle, 0},
         Writes(c, s, row[c].attempts, row[c].pid, i), JudgeOK',
         s = row[c].status \/ (s # "none" /\ (s = "queued" => row[c].attempts < Ceiling + stale'[c])),
         s = "failed" /\ row'[c].unavailable => row[c].attempts >= MaxAttempts,
         \A d \in Dials : Live(d) /\ d \notin stray' /\ pend # d /\ line[d].call = c
                          => s \in InFlight \cup {"cancelled"},
         alerts' = alerts \/ ( /\ alerts' = Alerted(c)
                               /\ stale'[c] = 0 => LastAttempt(row[c].attempts)),
         stale' = stale \/ stale' = [stale EXCEPT ![c] = @ + 1], stray \subseteq stray',
         UNCHANGED <<line, snap, pend, placed, crashes>>
  PROVE  Safe'
<1>1. /\ \A x \in Calls \ {c} : row'[x] = row[x]
      /\ row'[c].status = s /\ row'[c].attempts = row[c].attempts
      /\ row'[c].pid = row[c].pid /\ row'[c].idle = i
  BY DEF Writes, Columns
<1>2. \A x \in Calls : stale[x] \in Nat /\ stale'[x] \in Nat /\ stale[x] <= stale'[x]
  BY DEF Typed, TypeOK
<1>3. PidOK'
  BY <1>1 DEF Safe, PidOK, Live
<1>4. Budget'
  <2> SUFFICES ASSUME NEW x \in Calls PROVE BudgetOf(x)'
    BY DEF Budget
  <2>1. Pending(x)' = Pending(x)
    BY DEF Pending
  <2>2. /\ BudgetOf(x) /\ stale[x] \in Nat /\ stale'[x] \in Nat /\ stale[x] <= stale'[x]
        /\ row[x].attempts \in Nat /\ Ceiling \in Nat
        /\ snap[x] # NoSnap => snap[x] \in Nat
        /\ row'[x].attempts = row[x].attempts
    BY <1>1, <1>2, CeilingType, RowFields DEF Safe, Budget, Typed, TypeOK
  <2>3. /\ row'[x].status = "none" => row[x].status = "none"
        /\ row'[x].status = "queued" =>
             row[x].status = "queued" \/ row[x].attempts < Ceiling + stale'[x]
    BY <1>1
  <2>4. /\ row'[x].status = "none" => row'[x].attempts = 0
        /\ row'[x].attempts <= Ceiling + stale'[x]
        /\ row'[x].status = "queued" => row'[x].attempts < Ceiling + stale'[x]
    BY <2>2, <2>3 DEF BudgetOf
  <2>5. snap[x] # NoSnap => snap[x] < Ceiling + stale'[x]
    BY <2>2 DEF BudgetOf
  <2> QED BY <2>1, <2>2, <2>4, <2>5 DEF BudgetOf
<1>5. Accounted'
  <2> SUFFICES ASSUME NEW d \in Dials, Live(d), d \notin stray', pend # d
               PROVE  Known(d)'
    BY DEF Accounted, Known, Live
  <2> QED BY <1>1, LiveCall DEF Safe, Accounted, Known
<1>6. AlertedLate'
  <2> SUFFICES ASSUME NEW x \in Calls, alerts'[x] > 0, stale'[x] = 0
               PROVE  LastAttempt(row'[x].attempts)
    BY DEF AlertedLate, LastAttempt
  <2>1. row'[x].attempts = row[x].attempts /\ stale[x] = 0
    BY <1>1, <1>2
  <2>2. alerts'[x] = alerts[x] \/ LastAttempt(row[x].attempts)
    BY AlertedType DEF Typed, TypeOK
  <2> QED BY <2>1, <2>2 DEF Safe, AlertedLate
<1>7. RetryFailedIdle'
  BY <1>1 DEF Safe, RetryFailedIdle
<1> QED BY <1>3, <1>4, <1>5, <1>6, <1>7 DEF Safe

\* The call of a fresh or requeued row is forgotten, and so is what it cost.
LEMMA SafeQueued ==
  ASSUME Typed, Safe, NEW c \in Calls, Writes(c, "queued", 0, NoDial, 0),
         row'[c].unavailable = FALSE, JudgeOK',
         placed'[c] <= crashes + Pending(c),
         \A x \in Calls \ {c} : placed'[x] = placed[x] /\ alerts'[x] = alerts[x],
         alerts'[c] > 0 => stale[c] > 0,
         \A d \in Dials : Live(d) /\ d \notin stray' /\ pend # d => line[d].call # c,
         stray \subseteq stray', placed' \in [Calls -> Nat],
         UNCHANGED <<line, snap, pend, stale, crashes>>
  PROVE  Safe'
<1>1. /\ \A x \in Calls \ {c} : row'[x] = row[x]
      /\ row'[c].status = "queued" /\ row'[c].attempts = 0 /\ row'[c].pid = NoDial
      /\ row'[c].idle = 0
  BY DEF Writes, Columns
<1>2. PidOK'
  BY <1>1 DEF Safe, PidOK, Live
<1>3. Budget'
  <2>1. \A x \in Calls : Pending(x)' = Pending(x) /\ Pending(x) \in {0, 1}
    BY DEF Pending
  <2>2. ASSUME NEW x \in Calls \ {c} PROVE BudgetOf(x)'
    BY <1>1, <2>1 DEF Safe, Budget, BudgetOf
  <2>3. BudgetOf(c)'
    <3>1. /\ BudgetOf(c) /\ stale[c] \in Nat /\ crashes \in Nat /\ Ceiling \in Nat \ {0}
          /\ Pending(c) \in Nat /\ placed'[c] \in Nat
          /\ snap[c] # NoSnap => snap[c] \in Nat
      BY <2>1, CeilingType, RowFields DEF Safe, Budget, Typed, TypeOK
    <3> QED BY <1>1, <2>1, <3>1 DEF BudgetOf
  <2> QED BY <2>2, <2>3 DEF Budget
<1>4. Accounted'
  <2> SUFFICES ASSUME NEW d \in Dials, Live(d), d \notin stray', pend # d
               PROVE  Known(d)'
    BY DEF Accounted, Known, Live
  <2> QED BY <1>1, LiveCall DEF Safe, Accounted, Known
<1>5. AlertedLate'
  <2>1. ASSUME NEW x \in Calls \ {c}, alerts'[x] > 0, stale'[x] = 0
        PROVE  LastAttempt(row'[x].attempts)
    BY <1>1, <2>1 DEF Safe, AlertedLate
  <2>2. alerts'[c] > 0 => stale'[c] # 0
    BY RowFields
  <2> QED BY <2>1, <2>2 DEF AlertedLate, LastAttempt
<1>6. RetryFailedIdle'
  BY <1>1 DEF Safe, RetryFailedIdle
<1> QED BY <1>2, <1>3, <1>4, <1>5, <1>6 DEF Safe

LEMMA SafeEnqueue ==
  ASSUME Typed, Safe, NEW c \in Calls, Enqueue(c)
  PROVE  Safe'
<1>1. /\ row[c].status = "none" /\ row[c].attempts = 0
      /\ UNCHANGED <<line, snap, pend, hook, alerts, placed, stray, stale, crashes, requeues>>
  BY DEF Enqueue, Safe, Budget, BudgetOf
<1>2. Writes(c, "queued", 0, NoDial, 0) /\ row'[c].unavailable = FALSE
  BY EnqueueWrites
<1>3. JudgeOK'
  BY <1>1, JudgeSame
<1>4. alerts[c] > 0 => stale[c] > 0
  BY <1>1, CeilingType, RowFields DEF Safe, AlertedLate, LastAttempt
<1>5. \A d \in Dials : Live(d) /\ d \notin stray /\ pend # d => line[d].call # c
  BY <1>1 DEF Safe, Accounted, Known, InFlight
<1>6. placed[c] <= crashes + Pending(c)
  BY <1>1, RowFields DEF Safe, Budget, BudgetOf, Pending
<1> QED BY <1>1, <1>2, <1>3, <1>4, <1>5, <1>6, SafeQueued DEF Typed, TypeOK

LEMMA SafeOperator ==
  ASSUME Typed, Safe, Operator
  PROVE  Safe'
<1>1. ASSUME NEW w \in Workers, NEW c \in Calls, ReadCancel(w, c) \/ ReadRequeue(w, c)
      PROVE  Safe'
  <2>1. JudgeOK'
    BY <1>1, JudgeReads DEF ReadCancel, ReadRequeue
  <2> QED BY <1>1, <2>1, SafeSame DEF ReadCancel, ReadRequeue
<1>2. ASSUME NEW w \in Workers, CancelCall(w) PROVE Safe'
  <2>1. PICK c \in Calls : c = hook[w].call
    BY <1>2, CancelWrites
  <2>2. Writes(c, "cancelled", row[c].attempts, row[c].pid, 0)
    BY <1>2, <2>1, CancelWrites
  <2>3. JudgeOK'
    BY <1>2, JudgeEnds DEF CancelCall
  <2> QED BY <1>2, <2>2, <2>3, SafeWritten DEF CancelCall
<1>3. ASSUME NEW w \in Workers, RequeueCall(w) PROVE Safe'
  <2>1. PICK c \in Calls : c = hook[w].call
    BY <1>3, RequeueWrites
  <2>2. Writes(c, "queued", 0, NoDial, 0) /\ row'[c].unavailable = FALSE
    BY <1>3, <2>1, RequeueWrites
  <2>3. JudgeOK'
    BY <1>3, JudgeEnds DEF RequeueCall
  <2>4. /\ alerts' = [alerts EXCEPT ![c] = 0] /\ placed' = [placed EXCEPT ![c] = 0]
        /\ stray' = stray \cup {d \in Dials : Live(d) /\ line[d].call = c}
        /\ UNCHANGED <<line, snap, pend, stale, crashes>>
    BY <1>3, <2>1 DEF RequeueCall
  <2>5. /\ placed' \in [Calls -> Nat] /\ placed'[c] = 0 /\ alerts'[c] = 0
        /\ \A x \in Calls \ {c} : placed'[x] = placed[x] /\ alerts'[x] = alerts[x]
    BY <2>4 DEF Typed, TypeOK
  <2>6. placed'[c] <= crashes + Pending(c)
    BY <2>5, RowFields DEF Pending
  <2>7. alerts'[c] > 0 => stale[c] > 0
    BY <2>5
  <2>8. \A d \in Dials : Live(d) /\ d \notin stray' /\ pend # d => line[d].call # c
    BY <2>4
  <2> QED BY <2>2, <2>3, <2>4, <2>5, <2>6, <2>7, <2>8, SafeQueued
<1> QED BY <1>1, <1>2, <1>3, SafeEnqueue DEF Operator

LEMMA SafeSelect ==
  ASSUME Typed, Safe, DispatchSelect
  PROVE  Safe'
<1>1. /\ pend = NoDial /\ \A c \in Calls : snap[c] = NoSnap
      /\ snap' = [c \in Calls |-> IF c \in DueRows THEN row[c].attempts ELSE NoSnap]
      /\ UNCHANGED <<row, line, pend, hook, alerts, placed, stray, stale, crashes>>
  BY DEF DispatchSelect
<1>2. \A c \in Calls : snap'[c] # NoSnap => snap'[c] = row[c].attempts /\ row[c].status = "queued"
  BY <1>1 DEF DueRows
<1>3. PidOK' /\ AlertedLate' /\ RetryFailedIdle'
  BY <1>1 DEF Safe, PidOK, Live, AlertedLate, RetryFailedIdle
<1>4. JudgeOK'
  BY <1>1, JudgeSame
<1>5. Budget'
  BY <1>1, <1>2 DEF Safe, Budget, BudgetOf, Pending, Typed, TypeOK, NoSnap
<1>6. Accounted'
  <2> SUFFICES ASSUME NEW d \in Dials, Live(d), d \notin stray PROVE Known(d)'
    BY <1>1 DEF Accounted, Live
  <2>1. line[d].call \in Calls
    BY LiveCall
  <2> QED BY <1>1, <1>2, <2>1 DEF Safe, Accounted, Known, InFlight
<1> QED BY <1>3, <1>4, <1>5, <1>6 DEF Safe

\* A row of the batch, whose turn it is, has no call going on that it knows of.
LEMMA BatchIdle ==
  ASSUME Typed, Safe, NEW c \in Calls, InBatch(c), NEW d \in Dials, Live(d), d \notin stray
  PROVE  line[d].call # c
BY DEF Safe, Accounted, Known, InBatch, NoDial, Dials

\* The same four steps settle every way of serving a row without a call.
LEMMA SafeServed ==
  ASSUME Typed, Safe, NEW c \in Calls, InBatch(c), Served(c),
         NEW s \in {"cancelled", "failed", "queued"}, NEW n \in Nat,
         Writes(c, s, n, row[c].pid, 0),
         n \in {row[c].attempts, snap[c] + 1},
         s = "queued" => n < Ceiling,
         s = "failed" /\ row'[c].unavailable => n >= MaxAttempts,
         alerts' = alerts \/ (alerts' = Alerted(c) /\ LastAttempt(n)),
         UNCHANGED <<line, pend, hook, placed, stray, stale, crashes>>
  PROVE  Safe'
<1>1. pend = NoDial /\ snap[c] \in Nat
  BY DEF InBatch, Typed, TypeOK
<1>2. /\ \A x \in Calls \ {c} : row'[x] = row[x] /\ snap'[x] = snap[x]
      /\ snap'[c] = NoSnap
  BY DEF Writes, Served, Typed, TypeOK
<1>3. /\ row'[c].status = s /\ row'[c].attempts = n
      /\ row'[c].pid = row[c].pid /\ row'[c].idle = 0
  BY DEF Writes, Columns
<1>4. PidOK'
  BY <1>2, <1>3 DEF Safe, PidOK, Live
<1>5. JudgeOK'
  BY JudgeSame
<1>6. Budget'
  <2>1. n <= Ceiling + stale[c] /\ placed[c] <= n + crashes
    BY <1>1, CeilingType, RowFields DEF Safe, Budget, BudgetOf, Pending, InBatch
  <2>2. \A x \in Calls : Pending(x)' = 0 /\ Pending(x) = 0
    BY <1>1 DEF Pending
  <2>3. s = "queued" => n < Ceiling + stale[c]
    BY CeilingType, RowFields
  <2> QED BY <1>1, <1>2, <1>3, <2>1, <2>2, <2>3, RowFields DEF Safe, Budget, BudgetOf
<1>7. Accounted'
  <2> SUFFICES ASSUME NEW d \in Dials, Live(d), d \notin stray, pend # d
               PROVE  Known(d)'
    BY DEF Accounted, Known, Live
  <2> QED BY <1>2, <1>3, LiveCall, BatchIdle DEF Safe, Accounted, Known
<1>8. AlertedLate'
  <2>1. alerts[c] > 0 /\ stale[c] = 0 => LastAttempt(n)
    BY <1>1, RowFields, CeilingType
       DEF Safe, AlertedLate, Budget, BudgetOf, LastAttempt, InBatch
  <2>2. \A x \in Calls \ {c} : alerts'[x] = alerts[x]
    BY AlertedType DEF Typed, TypeOK
  <2> QED BY <1>2, <1>3, <2>1, <2>2 DEF Safe, AlertedLate
<1>9. RetryFailedIdle'
  BY <1>2, <1>3 DEF Safe, RetryFailedIdle
<1> QED BY <1>4, <1>5, <1>6, <1>7, <1>8, <1>9 DEF Safe

LEMMA SafeSkip ==
  ASSUME Typed, Safe, NEW c \in Calls, DispatchSkip(c)
  PROVE  Safe'
<1>1. PICK s \in {"cancelled", "failed"}, n \in {row[c].attempts, snap[c] + 1} :
        Writes(c, s, n, row[c].pid, 0)
  BY SkipWrites
<1>2. row'[c].unavailable = FALSE
  BY SkipWrites
<1>5. n \in Nat
  BY <1>1, RowFields DEF DispatchSkip, InBatch, Typed, TypeOK
<1>3. /\ InBatch(c) /\ Served(c)
      /\ UNCHANGED <<line, pend, hook, alerts, placed, stray, stale, crashes>>
  BY DEF DispatchSkip
<1>4. s \in {"cancelled", "failed", "queued"} /\ s # "queued"
  BY <1>1
<1> QED BY <1>1, <1>2, <1>3, <1>4, <1>5, SafeServed

LEMMA SafeRefused ==
  ASSUME Typed, Safe, NEW c \in Calls, DispatchRefused(c)
  PROVE  Safe'
<1> DEFINE s == IF LastAttempt(snap[c] + 1) THEN "failed" ELSE "queued"
           n == snap[c] + 1
<1>1. /\ InBatch(c) /\ Served(c)
      /\ alerts' = IF LastAttempt(n) THEN Alerted(c) ELSE alerts
      /\ UNCHANGED <<line, pend, hook, placed, stray, stale, crashes>>
  BY DEF DispatchRefused, TurnedDown
<1>2. n \in Nat
  BY <1>1 DEF InBatch, Typed, TypeOK
<1>3. Writes(c, s, n, row[c].pid, 0)
  BY RefuseWrites DEF DispatchRefused
<1>4. /\ s \in {"failed", "queued"}
      /\ s = "queued" => n < Ceiling
      /\ s = "failed" => n >= MaxAttempts
  BY <1>2, CeilingType DEF LastAttempt
<1>5. alerts' = alerts \/ (alerts' = Alerted(c) /\ LastAttempt(n))
  BY <1>1 DEF LastAttempt
<1> HIDE DEF s
<1> QED BY <1>1, <1>2, <1>3, <1>4, <1>5, SafeServed

\* A call that begins was none before.
LEMMA BeginsOver ==
  ASSUME Typed, NEW c \in Calls, NEW d \in Dials, Begins(c, d), hook' = hook
  PROVE  \A e \in Dials : Over(e) => Over(e)'
<1>1. line[d] = Free /\ \A e \in Dials \ {d} : line'[e] = line[e]
  BY TypedBegins DEF Begins
<1> QED BY <1>1 DEF Over, Free

LEMMA SafePlace ==
  ASSUME Typed, Safe, NEW c \in Calls, DispatchPlace(c)
  PROVE  Safe'
<1>0. PICK d \in Dials : Begins(c, d) /\ pend' = d
  BY DEF DispatchPlace
<1>1. line[d] = Free /\ pend' = d /\ placed' = [placed EXCEPT ![c] = @ + 1]
  BY <1>0 DEF Begins
<1>2. /\ pend = NoDial /\ InBatch(c) /\ snap[c] \in Nat
      /\ placed' = [placed EXCEPT ![c] = @ + 1]
      /\ UNCHANGED <<row, snap, hook, alerts, stray, stale, crashes>>
  BY <1>1 DEF DispatchPlace, InBatch, Typed, TypeOK
<1>3. /\ line'[d] # Free /\ line'[d].call = c
      /\ \A e \in Dials \ {d} : line'[e] = line[e]
  BY <1>0, <1>2, TypedBegins
<1>4. PidOK'
  <2> SUFFICES ASSUME NEW x \in Calls, row[x].pid # NoDial
               PROVE  /\ line'[row[x].pid] # Free
                      /\ row[x].idle = 2 => ~Live(row[x].pid)'
    BY <1>2 DEF PidOK
  <2>1. row[x].pid \in Dials \ {d}
    BY <1>1, RowFields DEF Safe, PidOK
  <2> QED BY <1>2, <1>3, <2>1 DEF Safe, PidOK, Live
<1>5. JudgeOK'
  BY <1>0, <1>2, BeginsOver, JudgeKept
<1>6. Budget'
  <2>1. \A x \in Calls \ {c} : Pending(x)' = 0 /\ Pending(x) = 0 /\ placed'[x] = placed[x]
    BY <1>1, <1>2, <1>3 DEF Pending, Typed, TypeOK
  <2>2. Pending(c)' = 1 /\ Pending(c) = 0 /\ placed'[c] = placed[c] + 1
    BY <1>1, <1>2, <1>3 DEF Pending, Typed, TypeOK, Dials, NoDial
  <2> QED BY <1>2, <2>1, <2>2, RowFields DEF Safe, Budget, BudgetOf
<1>7. Accounted'
  <2> SUFFICES ASSUME NEW e \in Dials \ {d}, Live(e), e \notin stray
               PROVE  Known(e)'
    BY <1>1, <1>2, <1>3 DEF Accounted, Known, Live
  <2> QED BY <1>2, <1>3, LiveCall DEF Safe, Accounted, Known, NoDial, Dials
<1>8. AlertedLate' /\ RetryFailedIdle'
  BY <1>2 DEF Safe, AlertedLate, RetryFailedIdle
<1> QED BY <1>4, <1>5, <1>6, <1>7, <1>8 DEF Safe

\* A call whose answer is lost is paid for like any other, and is stray.
LEMMA SafeLost ==
  ASSUME Typed, Safe, NEW c \in Calls, DispatchLost(c)
  PROVE  Safe'
<1> DEFINE n == snap[c] + 1
<1>0. PICK d \in Dials : Begins(c, d) /\ stray' = stray \cup {d}
  BY DEF DispatchLost
<1>1. line[d] = Free /\ placed' = [placed EXCEPT ![c] = @ + 1]
  BY <1>0 DEF Begins
<1>2. /\ pend = NoDial /\ InBatch(c) /\ snap[c] \in Nat /\ n \in Nat
      /\ alerts' = IF LastAttempt(n) THEN Alerted(c) ELSE alerts
      /\ UNCHANGED <<pend, hook, stale, crashes>>
  BY DEF DispatchLost, TurnedDown, InBatch, Typed, TypeOK
<1>3. /\ line'[d] # Free /\ \A e \in Dials \ {d} : line'[e] = line[e]
  BY <1>0, <1>2, TypedBegins
<1>4. /\ \A x \in Calls \ {c} : row'[x] = row[x] /\ snap'[x] = snap[x]
      /\ snap'[c] = NoSnap
      /\ row'[c].status = IF LastAttempt(n) THEN "failed" ELSE "queued"
      /\ row'[c].attempts = n /\ row'[c].pid = row[c].pid /\ row'[c].idle = 0
  BY <1>2, RefuseWrites DEF DispatchLost, Writes, Columns, Served, Typed, TypeOK
<1>5. PidOK'
  <2> SUFFICES ASSUME NEW x \in Calls, row'[x].pid # NoDial
               PROVE  /\ line'[row'[x].pid] # Free
                      /\ row'[x].idle = 2 => ~Live(row[x].pid)'
    BY <1>4 DEF PidOK, Live
  <2>1. row[x].pid = row'[x].pid /\ (row'[x].idle = 2 => row[x].idle = 2)
    BY <1>4
  <2>2. row[x].pid \in Dials \ {d}
    BY <1>1, <2>1, RowFields DEF Safe, PidOK
  <2> QED BY <1>3, <2>1, <2>2 DEF Safe, PidOK, Live
<1>6. JudgeOK'
  BY <1>0, <1>2, BeginsOver, JudgeKept
<1>7. Budget'
  <2>1. /\ n <= Ceiling + stale[c] /\ placed[c] + 1 <= n + crashes
        /\ ~LastAttempt(n) => n < Ceiling + stale[c]
    BY <1>2, CeilingType, RowFields DEF Safe, Budget, BudgetOf, Pending, InBatch, LastAttempt
  <2>2. \A x \in Calls : Pending(x)' = 0 /\ Pending(x) = 0
    BY <1>2 DEF Pending
  <2>3. placed'[c] = placed[c] + 1 /\ \A x \in Calls \ {c} : placed'[x] = placed[x]
    BY <1>1 DEF Typed, TypeOK
  <2>4. crashes' = crashes /\ stale' = stale
    BY <1>2
  <2> QED BY <1>2, <1>4, <2>1, <2>2, <2>3, <2>4, RowFields DEF Safe, Budget, BudgetOf
<1>8. Accounted'
  <2> SUFFICES ASSUME NEW e \in Dials \ {d}, Live(e), e \notin stray
               PROVE  Known(e)'
    BY <1>0, <1>3 DEF Accounted, Live
  <2> QED BY <1>2, <1>3, <1>4, LiveCall, BatchIdle DEF Safe, Accounted, Known, NoDial, Dials
<1>9. AlertedLate'
  <2>1. alerts[c] > 0 /\ stale[c] = 0 => LastAttempt(n)
    BY <1>2, RowFields, CeilingType
       DEF Safe, AlertedLate, Budget, BudgetOf, LastAttempt, InBatch
  <2>2. \A x \in Calls \ {c} : alerts'[x] = alerts[x]
    BY <1>2, AlertedType DEF Typed, TypeOK
  <2> QED BY <1>2, <1>4, <2>1, <2>2 DEF Safe, AlertedLate
<1>10. RetryFailedIdle'
  BY <1>2, <1>4 DEF Safe, RetryFailedIdle, LastAttempt
<1> QED BY <1>5, <1>6, <1>7, <1>8, <1>9, <1>10 DEF Safe

LEMMA SafeRecord ==
  ASSUME Typed, Safe, DispatchRecord
  PROVE  Safe'
<1>0. PICK c \in Calls : c = line[pend].call
  BY RecordWrites
<1>1. /\ pend' = NoDial /\ Served(c)
      /\ UNCHANGED <<line, hook, alerts, placed, stray, stale, crashes>>
  BY <1>0 DEF DispatchRecord
<1>2. /\ pend \in Dials /\ line[pend] # Free /\ snap[c] \in Nat
      /\ Writes(c, "dialing", snap[c] + 1, pend, 0)
  BY <1>0, RecordWrites
<1>3. /\ \A x \in Calls \ {c} : row'[x] = row[x] /\ snap'[x] = snap[x]
      /\ snap'[c] = NoSnap
      /\ row'[c].status = "dialing" /\ row'[c].attempts = snap[c] + 1
      /\ row'[c].pid = pend /\ row'[c].idle = 0
  BY <1>1, <1>2 DEF Writes, Columns, Served, Typed, TypeOK
<1>4. \A x \in Calls \ {c} : Pending(x) = 0 /\ Pending(x)' = 0
  BY <1>0, <1>1 DEF Pending
<1>5. Pending(c) = 1 /\ Pending(c)' = 0
  BY <1>0, <1>1, <1>2 DEF Pending, Dials, NoDial
<1>6. PidOK'
  BY <1>1, <1>2, <1>3 DEF Safe, PidOK, Live
<1>7. JudgeOK'
  BY <1>1, JudgeSame
<1>8. Budget'
  <2>1. snap[c] + 1 <= Ceiling + stale[c] /\ placed[c] <= snap[c] + crashes + 1
    BY <1>2, <1>5, CeilingType, RowFields DEF Safe, Budget, BudgetOf, NoSnap
  <2>2. /\ row'[c].status # "none" /\ row'[c].attempts <= Ceiling + stale[c]
        /\ row'[c].status # "queued" /\ placed[c] <= row'[c].attempts + crashes + 0
    BY <1>2, <1>3, <2>1, CeilingType, RowFields
  <2>3. crashes' = crashes /\ placed' = placed /\ stale' = stale
    BY <1>1
  <2>4. BudgetOf(c)'
    BY <1>3, <1>5, <2>2, <2>3 DEF BudgetOf
  <2>5. ASSUME NEW x \in Calls \ {c} PROVE BudgetOf(x)'
    BY <1>3, <1>4, <2>3 DEF Safe, Budget, BudgetOf
  <2> QED BY <2>4, <2>5 DEF Budget
<1>9. Accounted'
  <2> SUFFICES ASSUME NEW e \in Dials, Live(e), e \notin stray
               PROVE  Known(e)'
    BY <1>1 DEF Accounted, Live
  <2>1. CASE e = pend
    BY <1>0, <1>1, <1>2, <1>3, <2>1 DEF Known, InFlight
  <2>2. CASE e # pend
    <3>0. line[e] # Free /\ line[e].call \in Calls
      BY LiveCall
    <3>1. row[line[e].call].pid = e /\ snap[line[e].call] = NoSnap
          /\ row[line[e].call].status \in InFlight \cup {"cancelled"}
          /\ line[e].call \in Calls \ {c}
      BY <1>0, <1>2, <2>2, <3>0 DEF Safe, Accounted, Known, NoSnap
    <3> QED BY <1>1, <1>3, <3>1 DEF Known
  <2> QED BY <2>1, <2>2
<1>10. AlertedLate'
  <2>1. alerts[c] = 0 \/ stale[c] # 0 \/ LastAttempt(snap[c] + 1)
    BY <1>2, RowFields, CeilingType
       DEF Safe, AlertedLate, Budget, BudgetOf, LastAttempt, NoSnap
  <2> QED BY <1>1, <1>2, <1>3, <2>1, RowFields DEF Safe, AlertedLate
<1>11. RetryFailedIdle'
  BY <1>1, <1>3 DEF Safe, RetryFailedIdle
<1> QED BY <1>6, <1>7, <1>8, <1>9, <1>10, <1>11 DEF Safe

LEMMA SafeDispatcher ==
  ASSUME Typed, Safe, Dispatcher
  PROVE  Safe'
BY SafeSelect, SafeRecord, SafeSkip, SafeRefused, SafePlace, SafeLost DEF Dispatcher

LEMMA SafeCrash ==
  ASSUME Typed, Safe, Crash
  PROVE  Safe'
<1>1. /\ crashes' = crashes + 1 /\ pend' = NoDial /\ hook' = [w \in Workers |-> NoHook]
      /\ snap' = [c \in Calls |-> NoSnap]
      /\ stray' = IF pend = NoDial THEN stray ELSE stray \cup {pend}
      /\ UNCHANGED <<row, line, alerts, placed, stale, requeues>>
  BY DEF Crash
<1>2. PidOK' /\ AlertedLate' /\ RetryFailedIdle'
  BY <1>1 DEF Safe, PidOK, Live, AlertedLate, RetryFailedIdle
<1>3. JudgeOK'
  BY <1>1 DEF JudgeOK, NoHook
<1>4. Budget'
  <2> SUFFICES ASSUME NEW c \in Calls PROVE BudgetOf(c)'
    BY DEF Budget
  <2>1. BudgetOf(c)
    BY DEF Safe, Budget
  <2>2. Pending(c) \in {0, 1} /\ Pending(c)' = 0
    BY <1>1 DEF Pending
  <2> QED BY <1>1, <2>1, <2>2, RowFields DEF BudgetOf
<1>5. Accounted'
  <2> SUFFICES ASSUME NEW d \in Dials, Live(d), d \notin stray' PROVE Known(d)'
    BY <1>1 DEF Accounted, Live
  <2>1. d # pend /\ d \notin stray
    BY <1>1 DEF NoDial, Dials
  <2> QED BY <1>1, <2>1, LiveCall DEF Safe, Accounted, Known
<1> QED BY <1>2, <1>3, <1>4, <1>5 DEF Safe

\* The provider moves a call forward.
LEMMA SafeProvider ==
  ASSUME Typed, Safe, NEW d \in Dials, HangUp(d) \/ Analyse(d)
  PROVE  Safe'
<1>1. Progress
  BY ProviderProgress DEF Typed, TypeOK
<1>2. UNCHANGED <<row, snap, pend, hook, alerts, placed, stray, stale, crashes>>
  BY DEF HangUp, Analyse
<1>3. \A e \in Dials : Live(e)' => Live(e) /\ line[e] # Free /\ line'[e].call = line[e].call
  <2>1. line[d] # Free /\ \A e \in Dials \ {d} : line'[e] = line[e]
    BY HangUpLine, AnalyseLine DEF Typed, TypeOK
  <2> QED BY <1>1, <2>1 DEF Progress, Live, Free
<1>4. PidOK'
  <2> SUFFICES ASSUME NEW c \in Calls, row[c].pid # NoDial
               PROVE  /\ line'[row[c].pid] # Free
                      /\ row[c].idle = 2 => ~(line'[row[c].pid].phase = "live")
    BY <1>2 DEF PidOK, Live
  <2>1. row[c].pid \in Dials /\ line[row[c].pid] # Free
    BY RowFields DEF Safe, PidOK
  <2> QED BY <1>1, <1>3, <2>1 DEF Safe, PidOK, Progress, Live
<1>5. JudgeOK'
  <2>1. \A e \in Dials : Over(e) => Over(e)'
    BY <1>1 DEF Progress, Over, Happened, Sent, Free
  <2> QED BY <1>2, <2>1, JudgeKept
<1>6. Budget'
  <2>1. \A c \in Calls : Pending(c)' = Pending(c)
    BY <1>1, <1>2 DEF Pending, Progress, Typed, PendOK, TypeOK
  <2> QED BY <1>2, <2>1 DEF Safe, Budget, BudgetOf
<1>7. Accounted'
  BY <1>2, <1>3 DEF Safe, Accounted, Known
<1>8. AlertedLate' /\ RetryFailedIdle'
  BY <1>2 DEF Safe, AlertedLate, RetryFailedIdle
<1> QED BY <1>4, <1>5, <1>6, <1>7, <1>8 DEF Safe

\* Time passes on a row: its columns stay, and it grows idle only if no call of
\* its own goes on.
LEMMA SafeClock ==
  ASSUME Typed, Safe, NEW c \in Calls, AgeOut(c) \/ FallDue(c) \/ GrowIdle(c)
  PROVE  Safe'
<1>1. UNCHANGED <<line, snap, pend, hook, alerts, placed, stray, stale, crashes>>
  BY DEF AgeOut, FallDue, GrowIdle
<1>2. PICK i \in {row[c].idle, row[c].idle + 1} :
        Writes(c, row[c].status, row[c].attempts, row[c].pid, i)
        /\ row'[c].unavailable = row[c].unavailable
        /\ (i # row[c].idle /\ i = 2 => row[c].pid = NoDial \/ ~Live(row[c].pid))
  <2>1. CASE AgeOut(c) \/ FallDue(c)
    BY <2>1, AgeOutWrites, FallDueWrites
  <2>2. CASE GrowIdle(c)
    <3>1. /\ Writes(c, row[c].status, row[c].attempts, row[c].pid, row[c].idle + 1)
          /\ row'[c].unavailable = row[c].unavailable
      BY <2>2, GrowIdleWrites
    <3>2. row[c].idle + 1 = 2 => row[c].pid = NoDial \/ ~Live(row[c].pid)
      BY <2>2, RowFields DEF GrowIdle
    <3> QED BY <3>1, <3>2
  <2> QED BY <2>1, <2>2
<1>3. /\ \A x \in Calls \ {c} : row'[x] = row[x]
      /\ \A x \in Calls : /\ row'[x].status = row[x].status
                          /\ row'[x].attempts = row[x].attempts
                          /\ row'[x].pid = row[x].pid
                          /\ row'[x].unavailable = row[x].unavailable
      /\ row'[c].idle = i
  BY <1>2 DEF Writes, Columns
<1>4. PidOK'
  BY <1>1, <1>2, <1>3 DEF Safe, PidOK, Live
<1>5. JudgeOK'
  BY <1>1, JudgeSame
<1>6. Budget'
  <2>1. \A x \in Calls : Pending(x)' = Pending(x)
    BY <1>1 DEF Pending
  <2> QED BY <1>1, <1>3, <2>1 DEF Safe, Budget, BudgetOf
<1>7. Accounted'
  <2> SUFFICES ASSUME NEW d \in Dials, Live(d), d \notin stray PROVE Known(d)'
    BY <1>1 DEF Accounted, Live
  <2> QED BY <1>1, <1>3, LiveCall DEF Safe, Accounted, Known
<1>8. AlertedLate' /\ RetryFailedIdle'
  BY <1>1, <1>3 DEF Safe, AlertedLate, RetryFailedIdle
<1> QED BY <1>4, <1>5, <1>6, <1>7, <1>8 DEF Safe

\* A handler reads its row: one that is to be judged at once is settled.
LEMMA SafePick ==
  ASSUME Typed, Safe, NEW w \in Workers, Picks(w)
  PROVE  Safe'
<1>1. UNCHANGED <<row, line, snap, pend, alerts, placed, stray, stale, crashes>>
  BY PickFrame
<1>2. JudgeOK'
  <2>1. ASSUME NEW kind \in Events, NEW d \in Dials, NEW c \in Calls, Handle(w, kind, d, c)
        PROVE  JudgeOK'
    <3> DEFINE h == [kind |-> kind, dial |-> d, call |-> c, seen |-> ReadOf(row[c])]
    <3>1. Reads(w, h) /\ h.kind # "judge"
      BY <2>1 DEF Handle, Events
    <3> HIDE DEF h
    <3> QED BY <1>1, <3>1, JudgeReads
  <2>2. ASSUME NEW d \in Dials, Deliver(w, d) PROVE JudgeOK'
    BY <2>1, <2>2 DEF Deliver
  <2>3. ASSUME NEW c \in Calls, Reconcile(w, c) PROVE JudgeOK'
    <3>1. row[c].pid \in Dials
      BY <2>3 DEF Reconcile, Stalled, Typed, TypeOK, Row
    <3> QED BY <2>1, <2>3, <3>1 DEF Reconcile, Events
  <2>4. ASSUME NEW c \in Calls, SweepPick(w, c) PROVE JudgeOK'
    <3>1. /\ hook'[w].seen = ReadOf(row[c])
          /\ \A v \in Workers \ {w} : hook'[v] = hook[v]
      BY <2>4 DEF SweepPick, Reads, ToJudge, Typed, TypeOK
    <3>2. row[c].pid # NoDial /\ row[c].idle = 2 => Over(row[c].pid)
      <4>1. row[c].pid \in Dials \cup {NoDial}
        BY RowFields
      <4> QED BY <4>1 DEF Safe, PidOK, Typed, TypeOK, Line, Live, Over
    <3>3. SettledRead(ReadOf(row[c]))
      BY <2>4, <3>2, RowFields, ReadOfRow DEF SweepPick, Sweepable, SettledRead, Terminal
    <3>4. SettledRead(Seen(w))'
      BY <1>1, <3>1, <3>3 DEF SettledRead, Seen, Over
    <3> QED BY <1>1, <3>1, <3>4, JudgeKept DEF Over
  <2> QED BY <2>2, <2>3, <2>4 DEF Picks
<1> QED BY <1>1, <1>2, SafeSame

\* A row that was settled when it was read, and has not changed since, has no
\* call that goes on.
LEMMA SettledIdle ==
  ASSUME Typed, Safe, NEW w \in Workers, hook[w].call \in Calls,
         ~Outdated(w), SettledRead(Seen(w)),
         NEW d \in Dials, Live(d), d \notin stray, pend # d
  PROVE  line[d].call # hook[w].call
<1>1. Seen(w).status = row[hook[w].call].status /\ Seen(w).pid = row[hook[w].call].pid
  BY DEF Outdated
<1> QED BY <1>1
        DEF Safe, Accounted, Known, SettledRead, Over, Live, Terminal, InFlight, NoDial, Dials

\* After a handler's write, none of the calls its row is known to hold goes on --
\* or the read was outdated, which is counted.
LEMMA WrittenIdle ==
  ASSUME Typed, Safe, NEW w \in Workers, hook[w].call \in Calls, Notes(w),
         SettledRead(Seen(w)), NEW d \in Dials, Live(d), d \notin stray', pend # d
  PROVE  line[d].call # hook[w].call
<1>1. CASE ~Outdated(w) /\ UNCHANGED <<stale, stray>>
  BY <1>1, SettledIdle
<1>2. CASE stray' = stray \cup Heard(hook[w].call)
  BY <1>2 DEF Heard
<1> QED BY <1>1, <1>2 DEF Notes

\* An outdated update is counted; after any other, the attempts are those read.
LEMMA NotedAttempts ==
  ASSUME Typed, NEW w \in Workers, hook[w].call \in Calls, Notes(w),
         Seen(w).attempts < Ceiling, row[hook[w].call].attempts <= Ceiling + stale[hook[w].call]
  PROVE  row[hook[w].call].attempts < Ceiling + stale'[hook[w].call]
<1> DEFINE c == hook[w].call
<1>1. row[c].attempts \in Nat /\ stale[c] \in Nat /\ Ceiling \in Nat
  BY RowFields, CeilingType
<1>2. CASE ~Outdated(w) /\ UNCHANGED <<stale, stray>>
  <2>1. row[c].attempts = Seen(w).attempts /\ stale'[c] = stale[c]
    BY <1>2 DEF Outdated
  <2> QED BY <1>1, <2>1
<1>3. CASE stale' = [stale EXCEPT ![c] = @ + 1]
  <2>1. stale'[c] = stale[c] + 1
    BY <1>3 DEF Typed, TypeOK
  <2> QED BY <1>1, <2>1
<1> QED BY <1>2, <1>3 DEF Notes

\* What an update of a handler leaves of what was counted and forgotten.
LEMMA NotesGrow ==
  ASSUME Typed, NEW w \in Workers, hook[w].call \in Calls, Notes(w)
  PROVE  /\ stray \subseteq stray'
         /\ stale' = stale \/ stale' = [stale EXCEPT ![hook[w].call] = @ + 1]
BY DEF Notes

\* A handler that goes on to judge has told what it read.
LEMMA JudgeApplied ==
  ASSUME Typed, Safe, NEW w \in Workers, Apply(w)
  PROVE  JudgeOK'
<1>1. line' = line
  BY DEF Apply, ApplyRepeat, ApplyRetry, ApplyPatch, Judge
<1>2. \A v \in Workers : hook'[v].kind = "judge" =>
        hook'[v] = hook[v] \/ (v = w /\ SettledRead(Seen(w)'))
  BY ApplyHook
<1>3. SettledRead(Seen(w)') => SettledRead(Seen(w))'
  BY <1>1 DEF SettledRead, Over
<1> QED BY <1>1, <1>2, <1>3, JudgeKept DEF Over

LEMMA SafeKept ==
  ASSUME Typed, Safe, NEW c \in Calls, Unmoved(c), alerts' = alerts, JudgeOK',
         stale' = stale \/ stale' = [stale EXCEPT ![c] = @ + 1], stray \subseteq stray',
         UNCHANGED <<line, snap, pend, placed, crashes>>
  PROVE  Safe'
<1>1. row[c].status = "failed" /\ row'[c].unavailable => row[c].attempts >= MaxAttempts
  BY DEF Safe, RetryFailedIdle, Unmoved
<1>2. \A d \in Dials : Live(d) /\ d \notin stray' /\ pend # d /\ line[d].call = c
                       => row[c].status \in InFlight \cup {"cancelled"}
  BY DEF Safe, Accounted, Known
<1> QED BY <1>1, <1>2, SafeWritten DEF Unmoved

\* A handler sends its row back to the queue: the row was settled when it was
\* read, and attempts remained.
LEMMA SafeRequeues ==
  ASSUME Typed, Safe, NEW w \in Workers, hook[w].call \in Calls, JudgeOK',
         Moves(hook[w].call, "queued"), Notes(w), Seen(w).attempts < Ceiling,
         SettledRead(Seen(w)), alerts' = alerts,
         UNCHANGED <<line, snap, pend, placed, crashes>>
  PROVE  Safe'
<1>1. PICK c \in Calls : c = hook[w].call
  OBVIOUS
<1>2. Writes(c, "queued", row[c].attempts, row[c].pid, 0)
  BY <1>1 DEF Moves
<1>3. row[c].attempts < Ceiling + stale'[c]
  BY <1>1, NotedAttempts DEF Safe, Budget, BudgetOf
<1>4. \A d \in Dials : Live(d) /\ d \notin stray' /\ pend # d => line[d].call # c
  BY <1>1, WrittenIdle
<1>5. /\ stray \subseteq stray'
      /\ stale' = stale \/ stale' = [stale EXCEPT ![c] = @ + 1]
  BY <1>1, NotesGrow
<1> QED BY <1>2, <1>3, <1>4, <1>5, SafeWritten

LEMMA SafePatch ==
  ASSUME Typed, Safe, NEW w \in Workers, ApplyPatch(w)
  PROVE  Safe'
<1>1. UNCHANGED <<line, snap, pend, placed, crashes>> /\ Handling(w)
  BY DEF ApplyPatch
<1>2. PICK c \in Calls : c = hook[w].call
  BY ApplyHook DEF Apply
<1>3. PICK s : s = NewStatus(w)
  OBVIOUS
<1>4. /\ Moves(c, s) /\ Notes(w) /\ JudgeOK'
  BY <1>2, <1>3, PatchWrites, JudgeApplied DEF Apply
<1>5. /\ s \notin {"none", "queued"} /\ (hook[w].kind = "started" => s = "in_progress")
  BY <1>1, <1>3, EventStatusType
<1>6. \A d \in Dials : Live(d) /\ d \notin stray' /\ pend # d /\ line[d].call = c
                       => s \in InFlight \cup {"cancelled"}
  <2>1. CASE hook[w].kind = "started"
    BY <1>5, <2>1 DEF InFlight
  <2>2. CASE hook[w].kind # "started"
    BY <1>1, <1>2, <1>4, <2>2, OverTalk, WrittenIdle
  <2> QED BY <2>1, <2>2
<1>7. /\ stray \subseteq stray'
      /\ stale' = stale \/ stale' = [stale EXCEPT ![c] = @ + 1]
  BY <1>2, <1>4, NotesGrow
<1>8. alerts' = alerts \/ ( /\ alerts' = Alerted(c)
                            /\ stale'[c] = 0 => LastAttempt(row[c].attempts))
  <2>1. ASSUME alerts' # alerts, stale'[c] = 0
        PROVE  LastAttempt(row[c].attempts)
    <3>1. s \in {"no_answer", "failed"} /\ Seen(w).status # s
      BY <1>2, <1>3, <2>1 DEF ApplyPatch, Seen
    <3>2. LastAttempt(Seen(w).attempts)
      BY <1>3, <3>1 DEF ApplyPatch, Repeats, Retries, Retryable
    <3>3. ~Outdated(w)
      BY <1>2, <1>4, <2>1, RowFields DEF Notes, Typed, TypeOK
    <3>4. Seen(w).attempts = row[c].attempts
      BY <1>2, <3>3 DEF Outdated
    <3> QED BY <3>2, <3>4
  <2>2. alerts' = alerts \/ alerts' = Alerted(c)
    BY <1>2 DEF ApplyPatch
  <2> QED BY <2>1, <2>2
<1> QED BY <1>1, <1>4, <1>5, <1>6, <1>7, <1>8, SafeWritten DEF Moves

LEMMA SafeApply ==
  ASSUME Typed, Safe, NEW w \in Workers, Apply(w)
  PROVE  Safe'
<1>1. JudgeOK' /\ hook[w].call \in Calls
  BY JudgeApplied, ApplyHook
<1>2. CASE ApplyRepeat(w)
  <2>1. /\ Unmoved(hook[w].call) /\ alerts' = alerts
        /\ UNCHANGED <<line, snap, pend, placed, crashes>>
    BY <1>2, RepeatWrites DEF ApplyRepeat
  <2>2. /\ stray \subseteq stray'
        /\ stale' = stale \/ stale' = [stale EXCEPT ![hook[w].call] = @ + 1]
    BY <1>1, <1>2, RepeatWrites, NotesGrow
  <2> QED BY <1>1, <2>1, <2>2, SafeKept
<1>3. CASE ApplyRetry(w)
  <2>1. /\ Moves(hook[w].call, "queued") /\ Notes(w)
        /\ Seen(w).attempts < MaxAttempts /\ hook[w].kind # "started"
    BY <1>3, RetryWrites
  <2>2. Seen(w).attempts \in Nat /\ SettledRead(Seen(w))
    BY <1>3, <2>1, HookFields, OverTalk
       DEF ApplyRetry, Handling, Events, NoHook, Seen, Read
  <2>3. Seen(w).attempts < Ceiling
    BY <2>1, <2>2, CeilingType
  <2> QED BY <1>1, <1>3, <2>1, <2>2, <2>3, SafeRequeues DEF ApplyRetry
<1>4. CASE Judge(w)
  <2>1. SettledRead(Seen(w))
    BY <1>4 DEF Judge, Safe, JudgeOK
  <2>2. alerts' = alerts /\ UNCHANGED <<line, snap, pend, placed, crashes>>
    BY <1>4 DEF Judge
  <2>3. CASE Unmoved(hook[w].call) /\ UNCHANGED <<stale, stray>>
    BY <1>1, <2>2, <2>3, SafeKept
  <2>4. CASE Moves(hook[w].call, "queued") /\ Notes(w) /\ Seen(w).attempts < Ceiling
    BY <1>1, <2>1, <2>2, <2>4, SafeRequeues
  <2> QED BY <1>4, <2>3, <2>4, JudgeWrites
<1> QED BY <1>2, <1>3, <1>4, SafePatch DEF Apply

LEMMA SafeStep ==
  ASSUME Typed, Safe, [Next]_vars
  PROVE  Safe'
<1>1. CASE UNCHANGED vars
  BY <1>1, JudgeSame, SafeSame DEF vars
<1>2. CASE Handlers
  BY <1>2, SafePick, SafeApply DEF Handlers, Picks
<1> QED BY <1>1, <1>2, SafeDispatcher, SafeOperator, SafeProvider, SafeClock, SafeCrash
        DEF Next, Provider, Clock

-----------------------------------------------------------------------------
(* The theorems.                                                           *)

\* The invariant is inductive, whatever the handlers write from reads that are
\* no longer true.
THEOREM Inductive == Spec => []IInv
<1>1. Init => Typed /\ Safe
  BY TypedInit, SafeInit
<1>2. Typed /\ Safe /\ [Next]_vars => (Typed /\ Safe)'
  BY TypedStep, SafeStep
<1>3. Typed /\ Safe => IInv
  BY DEF Typed, Safe, IInv
<1> QED BY <1>1, <1>2, <1>3, PTL DEF Spec

\* However often calls are retried, redialled, refused and swept, a customer is
\* dialled at most up to the ceiling, plus once for each restart and for each
\* update of the row from an outdated read.
THEOREM AttemptCeiling == Spec => []DialCeiling
<1>1. IInv => DialCeiling
  <2> SUFFICES ASSUME IInv, NEW c \in Calls
               PROVE  placed[c] <= Ceiling + crashes + stale[c]
    BY DEF DialCeiling
  <2>1. BudgetOf(c) /\ Typed
    BY DEF IInv, Budget, Typed
  <2>2. /\ crashes \in Nat /\ placed[c] \in Nat /\ row[c].attempts \in Nat
        /\ stale[c] \in Nat
    BY <2>1, RowFields
  <2>3. CASE pend # NoDial /\ line[pend].call = c
    <3>1. snap[c] \in Nat /\ snap[c] # NoSnap /\ Pending(c) = 1
      BY <2>1, <2>3 DEF Typed, TypeOK, PendOK, Pending
    <3> QED BY <2>1, <2>2, <3>1, CeilingType DEF BudgetOf
  <2>4. CASE ~(pend # NoDial /\ line[pend].call = c)
    BY <2>1, <2>2, <2>4, CeilingType DEF BudgetOf, Pending
  <2> QED BY <2>3, <2>4
<1> QED BY <1>1, Inductive, PTL

\* The automation never rings a customer on two calls of one row at a time.
THEOREM OneCallAtATime == Spec => []SingleFlight
<1>1. IInv => SingleFlight
  <2> SUFFICES ASSUME IInv, NEW d \in Dials, NEW e \in Dials, Live(d), Live(e),
                      line[d].call = line[e].call, d # e, d \notin stray, e \notin stray
               PROVE  FALSE
    BY DEF SingleFlight
  <2>1. Known(d) /\ Known(e)
    BY DEF IInv, Accounted
  <2>2. pend = d => snap[line[d].call] # NoSnap
    BY DEF IInv, PendOK, NoDial, Dials
  <2>3. pend = e => snap[line[e].call] # NoSnap
    BY DEF IInv, PendOK, NoDial, Dials
  <2> QED BY <2>1, <2>2, <2>3 DEF Known
<1> QED BY <1>1, Inductive, PTL

\* A step that adds a physical call of a row is the dispatcher's, of a row whose
\* turn it is.
LEMMA PlacedInBatch ==
  ASSUME Typed, Next, NEW c \in Calls, placed'[c] > placed[c]
  PROVE  InBatch(c)
<1>1. placed[c] \in Nat /\ placed \in [Calls -> Nat]
  BY DEF Typed, TypeOK
<1>2. placed' # placed
  BY <1>1
<1>3. CASE \E x \in Calls : DispatchPlace(x) \/ DispatchLost(x)
  <2>1. PICK x \in Calls : placed' = [placed EXCEPT ![x] = placed[x] + 1] /\ InBatch(x)
    BY <1>3 DEF DispatchPlace, DispatchLost, Begins
  <2>2. x = c
    BY <1>1, <2>1
  <2> QED BY <2>1, <2>2
<1>4. CASE \E w \in Workers : RequeueCall(w)
  BY <1>1, <1>4 DEF RequeueCall
<1>5. CASE Handlers
  <2>1. ASSUME NEW w \in Workers, Picks(w) PROVE placed' = placed
    BY <2>1, PickFrame
  <2>2. ASSUME NEW w \in Workers, Apply(w) PROVE placed' = placed
    BY <2>2 DEF Apply, ApplyRepeat, ApplyRetry, ApplyPatch, Judge
  <2> QED BY <1>2, <1>5, <2>1, <2>2 DEF Handlers, Picks
<1>6. CASE Dispatcher
  BY <1>2, <1>3, <1>6
     DEF Dispatcher, DispatchSelect, DispatchRecord, DispatchSkip, DispatchRefused
<1>7. CASE Operator
  BY <1>2, <1>4, <1>7 DEF Operator, Enqueue, ReadCancel, ReadRequeue, CancelCall
<1>8. CASE Provider \/ Clock \/ Crash
  BY <1>2, <1>8 DEF Provider, Clock, Crash, HangUp, Analyse, AgeOut, FallDue, GrowIdle
<1> QED BY <1>5, <1>6, <1>7, <1>8 DEF Next

\* With a maximum of at least the abandoned-pitch floor, the managers' alert is
\* the end of the agent's own dialling -- of a row that was never updated from an
\* outdated read.
THEOREM AlertIsFinal ==
  ASSUME MaxAttempts >= MinAttempts PROVE Spec => AlertIsLast
<1>1. IInv /\ [Next]_vars =>
        [\A c \in Calls : placed'[c] > placed[c] => alerts[c] = 0 \/ stale[c] > 0]_vars
  <2> SUFFICES ASSUME IInv, Next, NEW c \in Calls, placed'[c] > placed[c]
               PROVE  alerts[c] = 0 \/ stale[c] > 0
    BY DEF vars
  <2>1. Typed /\ BudgetOf(c)
    BY DEF IInv, Typed, Budget
  <2>2. InBatch(c)
    BY <2>1, PlacedInBatch
  <2>3. snap[c] # NoSnap /\ snap[c] \in Nat
    BY <2>1, <2>2 DEF InBatch, Typed, TypeOK
  <2>4. stale[c] = 0 => row[c].attempts < MaxAttempts
    BY <2>1, <2>3, AttemptAssumption DEF BudgetOf, Ceiling
  <2> QED BY <2>1, <2>4, AttemptAssumption, RowFields DEF IInv, AlertedLate, LastAttempt
<1> QED BY <1>1, Inductive, PTL DEF Spec, AlertIsLast

\* The retry cron of rows the provider refused never finds one.
THEOREM NothingToRetry == Spec => []RetryFailedIdle
<1>1. IInv => RetryFailedIdle
  BY DEF IInv
<1> QED BY <1>1, Inductive, PTL

=============================================================================
