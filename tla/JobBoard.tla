------------------------------ MODULE JobBoard ------------------------------
(***************************************************************************)
(* The board of jobs of one integration: the poller that copies the jobs   *)
(* of the dispatch software's own board into unified_jobs (job-poller),    *)
(* the sessions it needs (session-manager), and the operators, who write   *)
(* the same rows at the same time (command-center, admin).  The dispatch   *)
(* rules engine, which every new job starts as well, is DispatchApproval.  *)
(*                                                                         *)
(* A poll cycle and a session refresh are sequences of awaits: `cycle' and *)
(* `refresh' say where each of them waits.  A refresh is run by its own    *)
(* cron and by every poll cycle that meets an expired session; the cycle   *)
(* may give up waiting for it, and it then goes on by itself.              *)
(***************************************************************************)
EXTENDS Integers, FiniteSets

CONSTANTS
  Jobs,         \* jobs of the external board
  BreakerLimit, \* failed logins that open the circuit breaker (3 in the code)
  MaxUpsets     \* bound: faults, ageing sessions, operators' acts, restarts

ASSUME BoundAssumption == BreakerLimit \in Nat \ {0} /\ MaxUpsets \in Nat

Cycle     == {"poll1", "poll2"}
Refresher == Cycle \cup {"cron"}
Listed    == {"new", "completed"}      \* what the normalizers map, in two classes
Status    == {"none", "assigned", "declined"} \cup Listed
Over      == {"completed", "declined"}

VARIABLES
  source,   \* "towbook", or "aaa" whose terminal statuses are verified
  site,     \* [Jobs -> what the external board shows]
  watched,  \* AAA: jobs marked as observed active, in Redis
  row,      \* [Jobs -> status of the row of unified_jobs, "none" without one]
  charged,  \* [Jobs -> credits deducted for the job]
  cred,     \* the row of tenant_credentials
  session,  \* the session in Redis: none, low (ten minutes left), high
  stray,    \* an abandoned login still goes on
  running,  \* the poller's isRunning
  cycle, refresh,
  ended,    \* history: jobs the board or an operator called completed
  missed,   \* history: AAA jobs whose outcome was read, and not stored or overwritten
  upsets

markVars  == <<watched, missed>>
boardVars == <<site, row, charged, ended, markVars>>
sessVars  == <<session, stray, refresh>>
pollVars  == <<running, cycle>>
vars == <<source, boardVars, cred, sessVars, pollVars, upsets>>

\* Where a cycle waits, the list it read, the jobs it has still to look at, the
\* ids it has noted, the job it upserts and the row it had found for it.
\* "closing": an AAA work order in progress whose appointments are all cleared.
Shown == Listed \cup {"unlisted", "gone"}
Poll  == [step : {"idle", "scrape", "ingest", "upsert", "created", "refresh"},
          list : [Jobs -> Shown], todo : SUBSET Jobs, ids : SUBSET Jobs,
          cur : SUBSET Jobs, was : Status]
Rest == [step |-> "idle", list |-> [j \in Jobs |-> "unlisted"],
         todo |-> {}, ids |-> {}, cur |-> {}, was |-> "none"]

TypeOK ==
  /\ source \in {"towbook", "aaa"}
  /\ site \in [Jobs -> IF source = "aaa" THEN Shown \cup {"closing"} ELSE Shown]
  /\ row \in [Jobs -> Status]
  /\ charged \in [Jobs -> 0 .. 2] /\ ended \subseteq Jobs
  /\ watched \subseteq Jobs /\ missed \subseteq Jobs
  /\ cred \in [st : {"PENDING", "ACTIVE", "FAILED", "PAUSED"},
               fails : 0 .. BreakerLimit, cooling : BOOLEAN]
  /\ session \in {"none", "low", "high"}
  /\ stray \in BOOLEAN /\ running \in BOOLEAN
  /\ refresh \in [Refresher -> {"idle", "listed", "login", "won", "lost"}]
  /\ cycle \in [Cycle -> Poll]
  /\ upsets \in 0 .. MaxUpsets

Init ==
  /\ source \in {"towbook", "aaa"}
  /\ site = [j \in Jobs |-> "unlisted"] /\ row = [j \in Jobs |-> "none"]
  /\ charged = [j \in Jobs |-> 0] /\ ended = {}
  /\ watched = {} /\ missed = {}
  /\ cred = [st |-> "PENDING", fails |-> 0, cooling |-> FALSE]
  /\ session = "none" /\ stray = FALSE /\ refresh = [r \in Refresher |-> "idle"]
  /\ running = FALSE /\ cycle = [c \in Cycle |-> Rest]
  /\ upsets = 0

Upset      == upsets < MaxUpsets /\ upsets' = upsets + 1
InStep(c, s) == cycle[c].step = s
OnBoard(list) == {j \in Jobs : list[j] \in Listed}

-----------------------------------------------------------------------------
(* The poll cycle.                                                         *)

\* Variant: the breaker waits for a login that only a poll would ask for.
PollableUntilBroken == cred.st # "PAUSED" /\ cred.fails < BreakerLimit

\* Not paused; the breaker is closed or its hour has passed.
Pollable ==
  /\ cred.st # "PAUSED"
  /\ ~(cred.fails >= BreakerLimit /\ cred.cooling)

\* Variant: a cycle starts while the previous one still runs.
MayStartOverlapping == TRUE

MayStart == ~running

Free(c) == InStep(c, "idle") /\ refresh[c] = "idle"

PollStart(c) ==
  /\ MayStart /\ Free(c) /\ Pollable
  /\ c = "poll2" => ~Free("poll1")   \* the slots have no identity
  /\ running' = TRUE
  /\ cycle' = [cycle EXCEPT ![c].step = "scrape"]
  /\ UNCHANGED <<source, boardVars, cred, sessVars, upsets>>

Ends(c) == cycle' = [cycle EXCEPT ![c] = Rest] /\ running' = FALSE

\* Variant: rows without a recognised status are ingested as well.
ReadsRaw(c, list) ==
  cycle' = [cycle EXCEPT ![c] = [Rest EXCEPT !.step = "ingest", !.list = list,
                                             !.todo = Jobs]]

Reads(c, list) ==
  cycle' = [cycle EXCEPT ![c] = [Rest EXCEPT !.step = "ingest", !.list = list,
                                             !.todo = OnBoard(list)]]

\* Towbook's board is read, or was not rendered in ten seconds and counts as empty.
Scrape(c) ==
  /\ source = "towbook" /\ InStep(c, "scrape") /\ session # "none"
  /\ \/ Reads(c, site) /\ UNCHANGED upsets
     \/ Upset /\ Reads(c, [j \in Jobs |-> "unlisted"])
  /\ UNCHANGED <<source, boardVars, cred, sessVars, running>>

\* What AAA's adapter makes of a work order: a cleared one is passed over unless it
\* was observed active, or its details cannot be read; the details of one that is
\* closing may come from the cache.
Makes(j) ==
  CASE site[j] = "closing"   -> {"new", "completed"}
    [] site[j] = "completed" -> {"unlisted"} \cup (IF j \in watched THEN {"completed"} ELSE {})
    [] OTHER                 -> {site[j]}

Views == {list \in [Jobs -> Shown] : \A j \in Jobs : list[j] \in Makes(j)}

\* Cleared calls that a poll should have reported.
Withheld(list) == {j \in watched : site[j] = "completed" /\ list[j] # "completed"}

\* The mark of an active call is set; that of a reported outcome is deleted.
Marked(list, done) ==
  (watched \cup {j \in done : site[j] \in {"new", "closing"}})
    \ {j \in done : list[j] = "completed"}

ScrapeAaa(c) ==
  /\ source = "aaa" /\ InStep(c, "scrape") /\ session # "none"
  /\ \E list \in Views :
       /\ IF Withheld(list) = {} THEN UNCHANGED upsets ELSE Upset
       /\ Reads(c, list) /\ watched' = Marked(list, Jobs)
  /\ UNCHANGED <<source, site, row, charged, ended, missed, cred, sessVars, running>>

\* No session, or one the portal bounces; the cycle waits for a refresh.
ScrapeExpired(c) ==
  /\ InStep(c, "scrape")
  /\ \/ session = "none" /\ UNCHANGED upsets
     \/ session # "none" /\ Upset
  /\ session' = "none"
  /\ cycle' = [cycle EXCEPT ![c].step = "refresh"]
  /\ refresh' = [refresh EXCEPT ![c] = IF cred.st = "PAUSED" THEN "idle" ELSE "listed"]
  /\ UNCHANGED <<source, boardVars, cred, stray, running>>

\* The refresh ended, or the watchdog fired.
StopWaiting(c) ==
  /\ InStep(c, "refresh") /\ Ends(c)
  /\ UNCHANGED <<source, boardVars, cred, sessVars, upsets>>

\* Nothing could be read, or AAA's adapter failed with some of the jobs done; it
\* tries again before it gives up.
ScrapeFails(c) ==
  /\ InStep(c, "scrape") /\ Upset
  /\ Ends(c) \/ (source = "aaa" /\ UNCHANGED pollVars)
  /\ \E list \in Views, done \in SUBSET Jobs :
       /\ (source = "aaa" /\ session # "none") \/ done = {}
       /\ watched' = Marked(list, done)
       /\ missed' = missed \cup {j \in done : list[j] = "completed"}
  /\ UNCHANGED <<source, site, row, charged, ended, cred, sessVars>>

\* A terminal row of AAA that we never knew is not imported.
Ignored(j, list) == source = "aaa" /\ list[j] \in Over /\ row[j] = "none"

\* Variant: only what was upserted counts as still on the board.
PresentLate(c, j) == cycle[c].ids

\* The id is on the list before the upsert is tried.
Present(c, j) == cycle[c].ids \cup {j}

IngestRead(c, j) ==
  /\ InStep(c, "ingest") /\ j \in cycle[c].todo
  /\ cycle' = IF Ignored(j, cycle[c].list)
              THEN [cycle EXCEPT ![c].todo = @ \ {j}]
              ELSE [cycle EXCEPT ![c].todo = @ \ {j}, ![c].step = "upsert",
                                 ![c].ids = Present(c, j),
                                 ![c].cur = {j}, ![c].was = row[j]]
  /\ UNCHANGED <<source, boardVars, cred, sessVars, running, upsets>>

\* Outcomes that AAA's adapter will not repeat, and the cycle has still to store.
Unstored(c) == IF source = "aaa"
               THEN {j \in cycle[c].todo \cup cycle[c].cur : cycle[c].list[j] = "completed"}
               ELSE {}

\* The look-up of a terminal row fails, outside the try of the upsert.
LookupFails(c) ==
  /\ source = "aaa" /\ InStep(c, "ingest") /\ Upset
  /\ \E j \in cycle[c].todo : cycle[c].list[j] \in Over
  /\ Ends(c) /\ missed' = missed \cup Unstored(c)
  /\ UNCHANGED <<source, site, row, charged, ended, watched, cred, sessVars>>

\* The next job of the list.
NextJob(c) == [cycle EXCEPT ![c].step = "ingest", ![c].cur = {}, ![c].was = "none"]

\* INSERT ... ON CONFLICT DO UPDATE writes the board's status over any other.
IngestWrite(c) ==
  /\ InStep(c, "upsert")
  /\ \E j \in cycle[c].cur :
       /\ row' = [row EXCEPT ![j] = cycle[c].list[j]]
       /\ ended' = IF cycle[c].list[j] = "completed" THEN ended \cup {j} ELSE ended
  /\ missed' = missed \ cycle[c].cur
  /\ cycle' = IF cycle[c].was = "none" THEN [cycle EXCEPT ![c].step = "created"]
                                       ELSE NextJob(c)
  /\ UNCHANGED <<source, site, charged, watched, cred, sessVars, running, upsets>>

UpsertFails(c) ==
  /\ InStep(c, "upsert") /\ Upset
  /\ missed' = missed \cup (cycle[c].cur \cap Unstored(c))
  /\ cycle' = NextJob(c)
  /\ UNCHANGED <<source, site, row, charged, ended, watched, cred, sessVars, running>>

\* The credit, and the welcome call (FlipIntake) started without waiting.
Announce(c) ==
  /\ InStep(c, "created")
  /\ charged' = [j \in Jobs |-> IF j \in cycle[c].cur THEN charged[j] + 1 ELSE charged[j]]
  /\ cycle' = NextJob(c)
  /\ UNCHANGED <<source, site, row, ended, markVars, cred, sessVars, running, upsets>>

\* Variant: the clean-up runs for every source.
CleansUpAll == TRUE

CleansUp == source # "aaa"

\* Active rows that are missing from the list are completed.
Archive(c) ==
  /\ InStep(c, "ingest") /\ cycle[c].todo = {}
  /\ row' = [j \in Jobs |->
               IF CleansUp /\ row[j] \notin Over \cup {"none"} /\ j \notin cycle[c].ids
               THEN "completed" ELSE row[j]]
  /\ Ends(c)
  /\ UNCHANGED <<source, site, charged, ended, markVars, cred, sessVars, upsets>>

-----------------------------------------------------------------------------
(* Sessions.                                                               *)

RefreshStart ==
  /\ refresh["cron"] = "idle" /\ cred.st # "PAUSED"
  /\ refresh' = [refresh EXCEPT !["cron"] = "listed"]
  /\ UNCHANGED <<source, boardVars, cred, session, stray, pollVars, upsets>>

\* The turn of this credential: a session with more than ten minutes is kept.
RefreshLook(r) ==
  /\ refresh[r] = "listed"
  /\ refresh' = [refresh EXCEPT ![r] = IF session = "high" THEN "idle" ELSE "login"]
  /\ UNCHANGED <<source, boardVars, cred, session, stray, pollVars, upsets>>

Login(r) ==
  /\ refresh[r] = "login"
  /\ \/ /\ session' = "high" /\ refresh' = [refresh EXCEPT ![r] = "won"]
        /\ UNCHANGED <<stray, upsets>>
     \/ /\ Upset /\ refresh' = [refresh EXCEPT ![r] = "lost"]
        /\ UNCHANGED <<session, stray>>
  /\ UNCHANGED <<source, boardVars, cred, pollVars>>

\* The timeout wins the race with a login that stalls.
LoginStalls(r) ==
  /\ refresh[r] = "login" /\ Upset /\ stray' = TRUE
  /\ refresh' = [refresh EXCEPT ![r] = "lost"]
  /\ UNCHANGED <<source, boardVars, cred, session, pollVars>>

\* An abandoned login may still store its session.
StrayEnds ==
  /\ stray /\ stray' = FALSE
  /\ session' \in {session, "high"}
  /\ UNCHANGED <<source, boardVars, cred, refresh, pollVars, upsets>>

Won  == [st |-> "ACTIVE", fails |-> 0, cooling |-> FALSE]
Lost == [st |-> "FAILED", cooling |-> TRUE,
         fails |-> IF cred.fails < BreakerLimit THEN cred.fails + 1 ELSE cred.fails]

Record(r) ==
  /\ \/ refresh[r] = "won" /\ cred' = Won
     \/ refresh[r] = "lost" /\ cred' = Lost
  /\ refresh' = [refresh EXCEPT ![r] = "idle"]
  /\ UNCHANGED <<source, boardVars, session, stray, pollVars, upsets>>

\* The UPDATE to ACTIVE fails and is caught like a failed login.
RecordFails(r) ==
  /\ refresh[r] = "won" /\ Upset
  /\ refresh' = [refresh EXCEPT ![r] = "lost"]
  /\ UNCHANGED <<source, boardVars, cred, session, stray, pollVars>>

\* An hour without another failure.
Cool ==
  /\ cred.cooling /\ cred' = [cred EXCEPT !.cooling = FALSE]
  /\ UNCHANGED <<source, boardVars, sessVars, pollVars, upsets>>

SessionAges ==
  /\ session # "none" /\ Upset
  /\ session' = IF session = "high" THEN "low" ELSE "none"
  /\ UNCHANGED <<source, boardVars, cred, stray, refresh, pollVars>>

-----------------------------------------------------------------------------
(* The external board, the rules engine, the operators.                    *)

After(s) == CASE s = "unlisted"  -> Listed
              [] s = "new"       -> {"completed", "gone"} \cup
                                    (IF source = "aaa" THEN {"closing"} ELSE {})
              [] s = "closing"   -> {"completed", "gone"}
              [] s = "completed" -> {"gone"}
              [] OTHER           -> {}

SiteMoves(j) ==
  /\ \E s \in After(site[j]) : site' = [site EXCEPT ![j] = s]
  /\ UNCHANGED <<source, row, charged, ended, markVars, cred, sessVars, pollVars, upsets>>

\* transitionStatus and assignJob: any status may follow any other.
Transition(j) ==
  /\ row[j] # "none" /\ Upset
  /\ \E s \in Status \ {row[j], "none", "new"} :
       /\ row' = [row EXCEPT ![j] = s]
       /\ ended' = IF s = "completed" THEN ended \cup {j} ELSE ended
  /\ missed' = IF source = "aaa" /\ j \notin watched THEN missed \cup {j} ELSE missed
  /\ UNCHANGED <<source, site, charged, watched, cred, sessVars, pollVars>>

Pause ==
  /\ cred.st # "PAUSED" /\ Upset
  /\ cred' = [cred EXCEPT !.st = "PAUSED"]
  /\ UNCHANGED <<source, boardVars, sessVars, pollVars>>

\* Resume keeps the failure count; a connection test rewrites it.
ResumeOrTest ==
  /\ Upset
  /\ cred' \in {[cred EXCEPT !.st = "ACTIVE"], Won, Lost}
  /\ UNCHANGED <<source, boardVars, sessVars, pollVars>>

Crash ==
  /\ Upset
  /\ running' = FALSE /\ cycle' = [c \in Cycle |-> Rest]
  /\ refresh' = [r \in Refresher |-> "idle"] /\ stray' = FALSE
  /\ missed' = missed \cup UNION {Unstored(c) : c \in Cycle}
  /\ UNCHANGED <<source, site, row, charged, ended, watched, cred, session>>

-----------------------------------------------------------------------------
Polls(c) ==
  \/ Scrape(c) \/ ScrapeAaa(c) \/ ScrapeExpired(c) \/ StopWaiting(c)
  \/ \E j \in Jobs : IngestRead(c, j)
  \/ IngestWrite(c) \/ Announce(c) \/ Archive(c)

Refreshes(r) == RefreshLook(r) \/ Login(r) \/ Record(r)

Next ==
  \/ \E c \in Cycle : PollStart(c) \/ Polls(c) \/ ScrapeFails(c) \/ LookupFails(c) \/ UpsertFails(c)
  \/ \E r \in Refresher : Refreshes(r) \/ LoginStalls(r) \/ RecordFails(r)
  \/ RefreshStart \/ StrayEnds \/ Cool \/ SessionAges
  \/ \E j \in Jobs : SiteMoves(j) \/ Transition(j)
  \/ Pause \/ ResumeOrTest \/ Crash

Spec == Init /\ [][Next]_vars

\* The crons fire, awaits settle (the adapters' page operations have their own
\* timeouts), and the hour of the breaker passes.
FairSpec ==
  /\ Spec
  /\ \A c \in Cycle : WF_vars(PollStart(c)) /\ WF_vars(Polls(c))
  /\ \A r \in Refresher : WF_vars(Refreshes(r))
  /\ WF_vars(Cool)

-----------------------------------------------------------------------------
(* One poll at a time: the flag is up exactly while a cycle goes on, through
   failures, abandoned refreshes and restarts. *)
OneCycle ==
  /\ Cardinality({c \in Cycle : ~InStep(c, "idle")}) <= 1
  /\ running <=> \E c \in Cycle : ~InStep(c, "idle")

(* A job is announced once: one credit and one welcome call, although upsertJob
   decides by a SELECT several awaits before its INSERT whether it is new. *)
AnnouncedOnce == \A j \in Jobs : charged[j] <= 1

(* The clean-up at the end of a cycle never completes a job that the cycle's
   own scrape listed, even one whose upsert failed. *)
NeverArchivedWhileListed ==
  [][ \A c \in Cycle, j \in Jobs :
        /\ InStep(c, "ingest") /\ cycle'[c].step = "idle"
        /\ cycle[c].list[j] \in Listed /\ upsets' = upsets
        => row'[j] = row[j] ]_vars

(* Nobody infers that an AAA call ended well: its row is completed only when
   the board said so or an operator did (a wrong one asks for a review). *)
CompletionVerified ==
  source = "aaa" => \A j \in Jobs : row[j] = "completed" => j \in ended

(* Self-healing: whatever was lost, misread or overwritten, once the external
   board keeps showing a status and the integration is not paused, the row
   comes to that status and keeps it.  (So a status that an operator, or the
   rules engine, has set does not survive the next poll.)  Not so the outcome
   of an AAA call, which its adapter reports once: where it was read and not
   stored, or an operator wrote the row after it, or the call has no row, the
   row stays as it is.  An outcome that could not be read is reported later.
   The cron of the session manager is not assumed to run: the polls alone
   recover. *)
BoardConverges ==
  \A j \in Jobs, s \in Listed :
    <>[](site[j] = s /\ cred.st # "PAUSED")
      => <>[]\/ row[j] = s
             \/ source = "aaa" /\ s \in Over /\ (row[j] = "none" \/ j \in missed)

(* A paused integration stays paused until somebody resumes it: no poll and no
   refresh ends the pause.  (Operators' acts are the steps that use `upsets'.) *)
PauseHolds ==
  [][cred.st = "PAUSED" /\ cred'.st # "PAUSED" => upsets' # upsets]_vars
=============================================================================
