--------------------------- MODULE JobBoardProofs ---------------------------
(***************************************************************************)
(* Proofs about JobBoard, for every set of jobs, every limit of the        *)
(* circuit breaker and any number of faults: types, one poll at a time,    *)
(* one announcement per job, the clean-up's respect for the list, and the  *)
(* verification of AAA's completions.                                      *)
(***************************************************************************)
EXTENDS JobBoard, FiniteSetTheorems, TLAPS

Active(c) == ~InStep(c, "idle")

\* The flag is up exactly while a cycle goes on, and only one does.
Single == /\ \A c, d \in Cycle : Active(c) /\ Active(d) => c = d
          /\ running <=> \E c \in Cycle : Active(c)

\* What a cycle knows: it works on jobs of its list, one at a time; those it is done with
\* are noted (AAA's unknown terminal rows apart, where nothing is cleaned up),
\* and a job it takes for new has no row, or has not been announced.
Knows(p, rows, charges) ==
  /\ p.todo \subseteq OnBoard(p.list) /\ p.cur \subseteq OnBoard(p.list)
  /\ \A i, j \in p.cur : i = j
  /\ source # "aaa" /\ p.step \in {"ingest", "upsert", "created"}
       => OnBoard(p.list) \subseteq p.todo \cup p.ids
  /\ p.step = "upsert" /\ p.was = "none" => \A j \in p.cur : rows[j] = "none"
  /\ p.step = "created" => \A j \in p.cur : rows[j] # "none" /\ charges[j] = 0

Cyc(c) == Knows(cycle[c], row, charged)

\* A job without a row was never charged.
Books == \A j \in Jobs : charged[j] <= 1 /\ (row[j] = "none" => charged[j] = 0)

BoardInv == TypeOK /\ Single /\ (\A c \in Cycle : Cyc(c)) /\ Books /\ CompletionVerified

-----------------------------------------------------------------------------
(* Cycles.                                                                 *)

LEMMA RestPoll ==
  /\ Rest \in Poll
  /\ Rest.step = "idle" /\ Rest.todo = {} /\ Rest.cur = {} /\ Rest.list \in [Jobs -> Shown]
BY DEF Rest, Poll, Shown, Status

LEMMA PollFields ==
  ASSUME TypeOK, NEW c \in Cycle
  PROVE  /\ cycle[c] \in Poll /\ cycle[c].list \in [Jobs -> Shown]
         /\ cycle[c].todo \subseteq Jobs /\ cycle[c].ids \subseteq Jobs
         /\ cycle[c].cur \subseteq Jobs /\ cycle[c].was \in Status
BY DEF TypeOK, Poll

\* A cycle that is active, or that may start, is alone.
LEMMA Alone ==
  ASSUME Single, NEW c \in Cycle, Active(c) \/ ~running
  PROVE  \A d \in Cycle \ {c} : InStep(d, "idle")
BY DEF Single, Active

\* One cycle moves: the others rest, so the rows may change under them.
LEMMA CycleMoves ==
  ASSUME BoardInv, NEW c \in Cycle, NEW p \in Poll, Active(c) \/ ~running,
         cycle' = [cycle EXCEPT ![c] = p], running' = (p.step # "idle"),
         Knows(p, row', charged'),
         source' = source
  PROVE  cycle' \in [Cycle -> Poll] /\ Single' /\ (\A d \in Cycle : Cyc(d)')
<1>1. /\ cycle' \in [Cycle -> Poll] /\ cycle'[c] = p
      /\ \A d \in Cycle \ {c} : cycle'[d] = cycle[d]
  BY DEF BoardInv, TypeOK
<1>2. \A d \in Cycle \ {c} : InStep(d, "idle") /\ InStep(d, "idle")'
  BY <1>1, Alone DEF BoardInv, InStep
<1>3. Single'
  BY <1>1, <1>2 DEF Single, Active, InStep
<1>4. Cyc(c)'
  BY <1>1 DEF Cyc, Knows, OnBoard
<1>5. ASSUME NEW d \in Cycle \ {c} PROVE Cyc(d)'
  BY <1>1, <1>2, <1>5 DEF BoardInv, Cyc, Knows, OnBoard, InStep
<1> QED BY <1>1, <1>3, <1>4, <1>5

\* The cycle ends.
LEMMA CycleEnds ==
  ASSUME BoardInv, NEW c \in Cycle, Active(c), Ends(c), source' = source
  PROVE  cycle' \in [Cycle -> Poll] /\ Single' /\ (\A d \in Cycle : Cyc(d)')
<1>1. cycle' = [cycle EXCEPT ![c] = Rest] /\ running' = FALSE
  BY DEF Ends
<1>2. running' = (Rest.step # "idle")
  BY <1>1, RestPoll
<1>3. Knows(Rest, row', charged')
  BY RestPoll DEF Knows
<1> QED BY <1>1, <1>2, <1>3, RestPoll, CycleMoves

\* What no cycle and no operator's act on the rows changes.
Still == UNCHANGED <<source, row, charged, ended>>

LEMMA StillBooks == ASSUME BoardInv, Still PROVE Books' /\ CompletionVerified'
BY DEF BoardInv, Still, Books, CompletionVerified

\* Sessions, credentials and the external board.
LEMMA StillBoard ==
  ASSUME BoardInv, Still, UNCHANGED pollVars, TypeOK'
  PROVE  BoardInv'
<1>1. Single' /\ \A c \in Cycle : Cyc(c)'
  BY DEF BoardInv, Still, Single, Active, InStep, Cyc, Knows, OnBoard, pollVars
<1> QED BY <1>1, StillBooks DEF BoardInv

-----------------------------------------------------------------------------
(* Types of what surrounds the cycles.                                     *)

Cred == [st : {"PENDING", "ACTIVE", "FAILED", "PAUSED"}, fails : 0 .. BreakerLimit,
         cooling : BOOLEAN]

LEMMA UpsetType == ASSUME upsets \in 0 .. MaxUpsets, Upset PROVE upsets' \in 0 .. MaxUpsets
BY BoundAssumption DEF Upset

LEMMA VerdictTypes == ASSUME cred \in Cred PROVE Won \in Cred /\ Lost \in Cred
<1>1. Won \in Cred
  BY BoundAssumption DEF Won, Cred
<1>2. (IF cred.fails < BreakerLimit THEN cred.fails + 1 ELSE cred.fails) \in 0 .. BreakerLimit
  BY BoundAssumption DEF Cred
<1> QED BY <1>1, <1>2 DEF Lost, Cred

\* The steps that belong to no cycle and write no row.
Aside ==
  \/ \E r \in Refresher : Refreshes(r) \/ LoginStalls(r) \/ RecordFails(r)
  \/ RefreshStart \/ StrayEnds \/ Cool \/ SessionAges
  \/ \E j \in Jobs : SiteMoves(j)
  \/ Pause \/ ResumeOrTest

LEMMA AsideStep == ASSUME BoardInv, Aside PROVE BoardInv'
<1>0. TypeOK /\ cred \in Cred
  BY DEF BoardInv, TypeOK, Cred
<1>1. Still /\ UNCHANGED <<pollVars, markVars>>
  BY DEF Aside, Refreshes, RefreshLook, Login, Record, LoginStalls, RecordFails, RefreshStart, StrayEnds,
         Cool, SessionAges, SiteMoves, Pause, ResumeOrTest, Still, boardVars, markVars
<1>2. cred' \in Cred
  <2>1. cred' \in {cred, Won, Lost, [cred EXCEPT !.st = "PAUSED"], [cred EXCEPT !.st = "ACTIVE"],
                   [cred EXCEPT !.cooling = FALSE]}
    BY DEF Aside, Refreshes, RefreshLook, Login, Record, LoginStalls, RecordFails, RefreshStart,
           StrayEnds, Cool, SessionAges, SiteMoves, Pause, ResumeOrTest
  <2>2. /\ [cred EXCEPT !.st = "PAUSED"] \in Cred /\ [cred EXCEPT !.st = "ACTIVE"] \in Cred
        /\ [cred EXCEPT !.cooling = FALSE] \in Cred
    BY <1>0 DEF Cred
  <2> QED BY <1>0, <2>1, <2>2, VerdictTypes
<1>3. site' \in [Jobs -> IF source = "aaa" THEN Shown \cup {"closing"} ELSE Shown]
  <2>1. CASE site' = site
    BY <1>0, <2>1 DEF TypeOK
  <2>2. ASSUME NEW j \in Jobs, SiteMoves(j) PROVE <1>3!:
    <3>1. PICK s \in After(site[j]) : site' = [site EXCEPT ![j] = s]
      BY <2>2 DEF SiteMoves
    <3>2. s \in IF source = "aaa" THEN Shown \cup {"closing"} ELSE Shown
      BY <3>1 DEF After, Shown, Listed
    <3> QED BY <1>0, <3>1, <3>2 DEF TypeOK
  <2> QED BY <2>1, <2>2
          DEF Aside, Refreshes, RefreshLook, Login, Record, LoginStalls, RecordFails, RefreshStart,
              StrayEnds, Cool, SessionAges, Pause, ResumeOrTest, boardVars
<1>4. /\ session' \in {"none", "low", "high"} /\ stray' \in BOOLEAN
      /\ refresh' \in [Refresher -> {"idle", "listed", "login", "won", "lost"}]
      /\ upsets' \in 0 .. MaxUpsets
  <2>1. ASSUME NEW r \in Refresher, Refreshes(r) \/ LoginStalls(r) \/ RecordFails(r)
        PROVE  <1>4!:
    BY <1>0, <2>1, UpsetType DEF Refreshes, RefreshLook, Login, Record, LoginStalls, RecordFails,
                                 TypeOK
  <2>2. ASSUME NEW j \in Jobs, SiteMoves(j) PROVE <1>4!:
    BY <1>0, <2>2 DEF SiteMoves, TypeOK, sessVars
  <2>3. CASE RefreshStart \/ StrayEnds \/ SessionAges
    BY <1>0, <2>3, UpsetType DEF RefreshStart, StrayEnds, SessionAges, TypeOK, Refresher
  <2>4. CASE Cool \/ Pause \/ ResumeOrTest
    BY <1>0, <2>4, UpsetType DEF Cool, Pause, ResumeOrTest, TypeOK, sessVars
  <2> QED BY <2>1, <2>2, <2>3, <2>4 DEF Aside
<1>5. TypeOK'
  BY <1>0, <1>1, <1>2, <1>3, <1>4 DEF TypeOK, Still, pollVars, markVars, Cred
<1> QED BY <1>1, <1>5, StillBoard

-----------------------------------------------------------------------------
(* The steps of a cycle that write no row.                                 *)

LEMMA StartStep == ASSUME BoardInv, NEW c \in Cycle, PollStart(c) PROVE BoardInv'
<1> DEFINE p == [cycle[c] EXCEPT !.step = "scrape"]
<1>1. TypeOK /\ cycle[c] \in Poll /\ Cyc(c)
  BY DEF BoardInv, TypeOK
<1>2. /\ ~running /\ running' = TRUE /\ cycle' = [cycle EXCEPT ![c] = p]
      /\ UNCHANGED <<source, boardVars, cred, sessVars, upsets>>
  BY <1>1 DEF PollStart, MayStart, TypeOK
<1>3. /\ p \in Poll /\ p.step = "scrape" /\ p.list = cycle[c].list
      /\ p.todo = cycle[c].todo /\ p.cur = cycle[c].cur
  BY <1>1 DEF Poll
<1>4. running' = (p.step # "idle") /\ Knows(p, row', charged')
  BY <1>1, <1>2, <1>3 DEF Cyc, Knows, boardVars
<1> HIDE DEF p
<1>5. cycle' \in [Cycle -> Poll] /\ Single' /\ \A d \in Cycle : Cyc(d)'
  BY <1>2, <1>3, <1>4, CycleMoves
<1>6. TypeOK'
  BY <1>1, <1>2, <1>5 DEF TypeOK, boardVars, markVars, sessVars
<1> QED BY <1>2, <1>5, <1>6, StillBooks DEF BoardInv, Still, boardVars

LEMMA ReadStep ==
  ASSUME BoardInv, NEW c \in Cycle, Active(c), NEW list \in [Jobs -> Shown], Reads(c, list),
         upsets' \in 0 .. MaxUpsets, watched' \subseteq Jobs,
         UNCHANGED <<source, site, row, charged, ended, missed, cred, sessVars, running>>
  PROVE  BoardInv'
<1> DEFINE p == [Rest EXCEPT !.step = "ingest", !.list = list, !.todo = OnBoard(list)]
<1>1. TypeOK /\ running = TRUE
  BY DEF BoardInv, Single, TypeOK
<1>2. /\ p \in Poll /\ p.step = "ingest" /\ p.list = list
      /\ p.todo = OnBoard(list) /\ p.cur = {}
  BY RestPoll DEF Rest, Poll, OnBoard
<1>3. cycle' = [cycle EXCEPT ![c] = p]
  BY DEF Reads
<1>4. running' = (p.step # "idle") /\ Knows(p, row', charged')
  BY <1>1, <1>2 DEF Knows
<1> HIDE DEF p
<1>5. cycle' \in [Cycle -> Poll] /\ Single' /\ \A d \in Cycle : Cyc(d)'
  BY <1>2, <1>3, <1>4, CycleMoves
<1>6. TypeOK'
  BY <1>1, <1>5 DEF TypeOK, sessVars
<1> QED BY <1>5, <1>6, StillBooks DEF BoardInv, Still

LEMMA ScrapeStep == ASSUME BoardInv, NEW c \in Cycle, Scrape(c) PROVE BoardInv'
<1>1. /\ Active(c) /\ UNCHANGED <<source, boardVars, cred, sessVars, running>>
      /\ upsets \in 0 .. MaxUpsets /\ site \in [Jobs -> Shown] /\ watched \subseteq Jobs
      /\ [j \in Jobs |-> "unlisted"] \in [Jobs -> Shown]
  BY DEF Scrape, Active, InStep, BoardInv, TypeOK, Shown
<1>2. upsets' \in 0 .. MaxUpsets
  BY <1>1, UpsetType DEF Scrape
<1> QED BY <1>1, <1>2, ReadStep DEF Scrape, boardVars, markVars

LEMMA ScrapeAaaStep == ASSUME BoardInv, NEW c \in Cycle, ScrapeAaa(c) PROVE BoardInv'
<1>1. PICK list \in Views :
        /\ IF Withheld(list) = {} THEN UNCHANGED upsets ELSE Upset
        /\ Reads(c, list) /\ watched' = Marked(list, Jobs)
  BY DEF ScrapeAaa
<1>2. /\ Active(c) /\ upsets \in 0 .. MaxUpsets /\ watched \subseteq Jobs
      /\ UNCHANGED <<source, site, row, charged, ended, missed, cred, sessVars, running>>
  BY DEF ScrapeAaa, Active, InStep, BoardInv, TypeOK
<1>3. list \in [Jobs -> Shown] /\ watched' \subseteq Jobs /\ upsets' \in 0 .. MaxUpsets
  BY <1>1, <1>2, UpsetType DEF Views, Marked
<1> QED BY <1>1, <1>2, <1>3, ReadStep

LEMMA ExpiredStep == ASSUME BoardInv, NEW c \in Cycle, ScrapeExpired(c) PROVE BoardInv'
<1> DEFINE p == [cycle[c] EXCEPT !.step = "refresh"]
<1>1. TypeOK /\ cycle[c] \in Poll /\ Cyc(c) /\ Active(c) /\ running = TRUE
  BY DEF BoardInv, TypeOK, Single, ScrapeExpired, Active, InStep
<1>2. /\ cycle' = [cycle EXCEPT ![c] = p] /\ session' = "none"
      /\ refresh' = [refresh EXCEPT ![c] = IF cred.st = "PAUSED" THEN "idle" ELSE "listed"]
      /\ UNCHANGED <<source, boardVars, cred, stray, running>>
  BY <1>1 DEF ScrapeExpired, TypeOK
<1>3. /\ p \in Poll /\ p.step = "refresh" /\ p.list = cycle[c].list
      /\ p.todo = cycle[c].todo /\ p.cur = cycle[c].cur
  BY <1>1 DEF Poll
<1>4. running' = (p.step # "idle") /\ Knows(p, row', charged')
  BY <1>1, <1>2, <1>3 DEF Cyc, Knows, boardVars
<1> HIDE DEF p
<1>5. cycle' \in [Cycle -> Poll] /\ Single' /\ \A d \in Cycle : Cyc(d)'
  BY <1>1, <1>2, <1>3, <1>4, CycleMoves
<1>6. upsets' \in 0 .. MaxUpsets
  BY <1>1, UpsetType DEF ScrapeExpired, TypeOK
<1>7. refresh' \in [Refresher -> {"idle", "listed", "login", "won", "lost"}]
  BY <1>1, <1>2 DEF TypeOK, Refresher
<1>8. TypeOK'
  BY <1>1, <1>2, <1>5, <1>6, <1>7 DEF TypeOK, boardVars, markVars
<1> QED BY <1>2, <1>5, <1>8, StillBooks DEF BoardInv, Still, boardVars

\* A cycle that gives up, or reads its board again.
LEMMA GiveUpStep ==
  ASSUME BoardInv, NEW c \in Cycle, StopWaiting(c) \/ ScrapeFails(c) \/ LookupFails(c)
  PROVE  BoardInv'
<1>1. /\ Active(c) /\ TypeOK
      /\ UNCHANGED <<source, site, row, charged, ended, cred, sessVars>>
  BY DEF StopWaiting, ScrapeFails, LookupFails, Active, InStep, BoardInv, boardVars
<1>2. upsets' \in 0 .. MaxUpsets
  BY <1>1, UpsetType DEF StopWaiting, ScrapeFails, LookupFails, TypeOK
<1>3. watched' \subseteq Jobs /\ missed' \subseteq Jobs
  <2>1. CASE StopWaiting(c)
    BY <1>1, <2>1 DEF StopWaiting, TypeOK, boardVars, markVars
  <2>2. CASE ScrapeFails(c)
    BY <1>1, <2>2 DEF ScrapeFails, TypeOK, Marked
  <2>3. CASE LookupFails(c)
    BY <1>1, <2>3, PollFields DEF LookupFails, TypeOK, Unstored
  <2> QED BY <2>1, <2>2, <2>3
<1>4. CASE Ends(c)
  <2>1. cycle' \in [Cycle -> Poll] /\ Single' /\ \A d \in Cycle : Cyc(d)'
    BY <1>1, <1>4, CycleEnds
  <2>2. TypeOK'
    BY <1>1, <1>2, <1>3, <1>4, <2>1 DEF TypeOK, sessVars, Ends
  <2> QED BY <1>1, <2>1, <2>2, StillBooks DEF BoardInv, Still
<1>5. CASE UNCHANGED pollVars
  <2>1. TypeOK'
    BY <1>1, <1>2, <1>3, <1>5 DEF TypeOK, sessVars, pollVars
  <2> QED BY <1>1, <1>5, <2>1, StillBoard DEF Still
<1> QED BY <1>4, <1>5 DEF StopWaiting, ScrapeFails, LookupFails

LEMMA IngestReadStep ==
  ASSUME BoardInv, NEW c \in Cycle, NEW j \in Jobs, IngestRead(c, j)
  PROVE  BoardInv'
<1> DEFINE q == cycle[c]
           p == IF Ignored(j, q.list) THEN [q EXCEPT !.todo = q.todo \ {j}]
                ELSE [q EXCEPT !.todo = q.todo \ {j}, !.step = "upsert", !.ids = q.ids \cup {j},
                               !.cur = {j}, !.was = row[j]]
<1>1. /\ TypeOK /\ q \in Poll /\ Cyc(c) /\ Active(c) /\ running = TRUE
      /\ q.step = "ingest" /\ j \in q.todo /\ row[j] \in Status
      /\ UNCHANGED <<source, boardVars, cred, sessVars, running, upsets>>
  BY DEF BoardInv, TypeOK, Single, IngestRead, Active, InStep
<1>2. cycle' = [cycle EXCEPT ![c] = p]
  BY <1>1 DEF IngestRead, Present, TypeOK
<1>3. /\ p \in Poll /\ p.list = q.list /\ p.todo = q.todo \ {j} /\ p.step # "idle"
      /\ p.cur \in {q.cur, {j}} /\ p.step # "created"
      /\ p.step = "upsert" => p.cur = {j} /\ p.was = row[j]
      /\ p.ids = IF Ignored(j, q.list) THEN q.ids ELSE q.ids \cup {j}
  BY <1>1 DEF Poll
<1>4. Knows(p, row', charged')
  BY <1>1, <1>3 DEF Cyc, Knows, Ignored, boardVars
<1>5. running' = (p.step # "idle") /\ source' = source
  BY <1>1, <1>3
<1> HIDE DEF p, q
<1>6. cycle' \in [Cycle -> Poll] /\ Single' /\ \A d \in Cycle : Cyc(d)'
  BY <1>1, <1>2, <1>3, <1>4, <1>5, CycleMoves
<1>7. TypeOK'
  BY <1>1, <1>6 DEF TypeOK, boardVars, markVars, sessVars
<1> QED BY <1>1, <1>6, <1>7, StillBooks DEF BoardInv, Still, boardVars

\* After an upsert, however it went, the cycle goes on with its list.
LEMMA NextJobMoves ==
  ASSUME BoardInv, NEW c \in Cycle, cycle[c].step \in {"upsert", "created"},
         cycle' = NextJob(c), running' = running, source' = source
  PROVE  cycle' \in [Cycle -> Poll] /\ Single' /\ (\A d \in Cycle : Cyc(d)')
<1> DEFINE p == [cycle[c] EXCEPT !.step = "ingest", !.cur = {}, !.was = "none"]
<1>1. TypeOK /\ cycle[c] \in Poll /\ Cyc(c) /\ Active(c) /\ running = TRUE
  BY DEF BoardInv, TypeOK, Single, Active, InStep
<1>2. cycle' = [cycle EXCEPT ![c] = p]
  BY <1>1 DEF NextJob, TypeOK
<1>3. /\ p \in Poll /\ p.step = "ingest" /\ p.list = cycle[c].list
      /\ p.todo = cycle[c].todo /\ p.ids = cycle[c].ids /\ p.cur = {}
  BY <1>1 DEF Poll, Status
<1>4. running' = (p.step # "idle") /\ Knows(p, row', charged')
  BY <1>1, <1>3 DEF Cyc, Knows
<1> HIDE DEF p
<1> QED BY <1>1, <1>2, <1>3, <1>4, CycleMoves

LEMMA UpsertFailsStep == ASSUME BoardInv, NEW c \in Cycle, UpsertFails(c) PROVE BoardInv'
<1>1. /\ TypeOK /\ cycle[c].step = "upsert" /\ cycle' = NextJob(c)
      /\ UNCHANGED <<source, site, row, charged, ended, watched, cred, sessVars, running>>
  BY DEF UpsertFails, BoardInv, InStep
<1>2. upsets' \in 0 .. MaxUpsets /\ missed' \subseteq Jobs
  BY <1>1, UpsetType, PollFields DEF UpsertFails, TypeOK
<1>3. cycle' \in [Cycle -> Poll] /\ Single' /\ \A d \in Cycle : Cyc(d)'
  BY <1>1, NextJobMoves
<1>4. TypeOK'
  BY <1>1, <1>2, <1>3 DEF TypeOK, sessVars
<1> QED BY <1>1, <1>3, <1>4, StillBooks DEF BoardInv, Still

-----------------------------------------------------------------------------
(* The steps that write rows and credits.                                  *)

\* The row gets the board's status; a row that was not there is not charged yet.
LEMMA WriteStep == ASSUME BoardInv, NEW c \in Cycle, IngestWrite(c) PROVE BoardInv'
<1>1. /\ TypeOK /\ cycle[c] \in Poll /\ Cyc(c) /\ Active(c) /\ running = TRUE
      /\ cycle[c].step = "upsert" /\ Books /\ CompletionVerified
  BY DEF BoardInv, TypeOK, Single, IngestWrite, Active, InStep
<1>2. PICK j \in cycle[c].cur :
        /\ row' = [row EXCEPT ![j] = cycle[c].list[j]]
        /\ ended' = IF cycle[c].list[j] = "completed" THEN ended \cup {j} ELSE ended
  BY DEF IngestWrite
<1>3. /\ j \in Jobs /\ cycle[c].list[j] \in Listed
      /\ UNCHANGED <<source, site, charged, watched, cred, sessVars, running, upsets>>
      /\ missed' = missed \ cycle[c].cur
  BY <1>1, <1>2 DEF Cyc, Knows, OnBoard, IngestWrite
<1>4. /\ row' \in [Jobs -> Status] /\ row'[j] = cycle[c].list[j] /\ row'[j] # "none"
      /\ \A i \in Jobs \ {j} : row'[i] = row[i]
      /\ ended' \subseteq Jobs
  BY <1>1, <1>2, <1>3 DEF TypeOK, Status, Listed
<1>5. cycle' \in [Cycle -> Poll] /\ Single' /\ \A d \in Cycle : Cyc(d)'
  <2>1. CASE cycle[c].was = "none"
    <3> DEFINE p == [cycle[c] EXCEPT !.step = "created"]
    <3>1. cycle' = [cycle EXCEPT ![c] = p]
      BY <1>1, <2>1 DEF IngestWrite, TypeOK
    <3>2. /\ p \in Poll /\ p.step = "created" /\ p.list = cycle[c].list
          /\ p.todo = cycle[c].todo /\ p.ids = cycle[c].ids /\ p.cur = cycle[c].cur
      BY <1>1 DEF Poll
    <3>3. \A i \in cycle[c].cur : row'[i] # "none" /\ charged'[i] = 0
      BY <1>1, <1>3, <1>4, <2>1, PollFields DEF Cyc, Knows, Books
    <3>4. running' = (p.step # "idle") /\ Knows(p, row', charged')
      BY <1>1, <1>3, <3>2, <3>3 DEF Cyc, Knows
    <3> HIDE DEF p
    <3> QED BY <1>1, <1>3, <3>1, <3>2, <3>4, CycleMoves
  <2>2. CASE cycle[c].was # "none"
    <3>1. cycle' = NextJob(c)
      BY <2>2 DEF IngestWrite
    <3> QED BY <1>1, <1>3, <3>1, NextJobMoves
  <2> QED BY <2>1, <2>2
<1>6. Books'
  BY <1>1, <1>3, <1>4 DEF Books
<1>7. CompletionVerified'
  BY <1>1, <1>2, <1>3, <1>4 DEF CompletionVerified
<1>8. TypeOK'
  BY <1>1, <1>3, <1>4, <1>5 DEF TypeOK, sessVars
<1> QED BY <1>5, <1>6, <1>7, <1>8 DEF BoardInv

LEMMA AnnounceStep == ASSUME BoardInv, NEW c \in Cycle, Announce(c) PROVE BoardInv'
<1>1. /\ TypeOK /\ Cyc(c) /\ cycle[c].step = "created" /\ cycle' = NextJob(c)
      /\ charged' = [j \in Jobs |-> IF j \in cycle[c].cur THEN charged[j] + 1 ELSE charged[j]]
      /\ UNCHANGED <<source, site, row, ended, markVars, cred, sessVars, running, upsets>>
  BY DEF Announce, BoardInv, InStep
<1>2. Books /\ CompletionVerified /\ \A j \in Jobs : charged[j] \in 0 .. 2
  BY DEF BoardInv, TypeOK
<1>3. \A j \in cycle[c].cur : charged[j] = 0 /\ row[j] # "none"
  BY <1>1 DEF Cyc, Knows
<1>4. charged' \in [Jobs -> 0 .. 2] /\ Books'
  BY <1>1, <1>2, <1>3 DEF Books
<1>5. cycle' \in [Cycle -> Poll] /\ Single' /\ \A d \in Cycle : Cyc(d)'
  BY <1>1, NextJobMoves
<1>6. CompletionVerified'
  BY <1>1, <1>2 DEF CompletionVerified
<1>7. TypeOK'
  BY <1>1, <1>4, <1>5 DEF TypeOK, sessVars, markVars
<1> QED BY <1>4, <1>5, <1>6, <1>7 DEF BoardInv

\* Only rows that exist are completed, and none of AAA's.
LEMMA ArchiveStep == ASSUME BoardInv, NEW c \in Cycle, Archive(c) PROVE BoardInv'
<1>1. /\ TypeOK /\ Active(c) /\ Ends(c) /\ Books /\ CompletionVerified
      /\ UNCHANGED <<source, site, charged, ended, markVars, cred, sessVars, upsets>>
  BY DEF Archive, Active, InStep, BoardInv
<1>2. row' \in [Jobs -> Status] /\ \A j \in Jobs : row'[j] = "none" <=> row[j] = "none"
  BY <1>1 DEF Archive, TypeOK, Status, Listed, Over
<1>3. source = "aaa" => \A j \in Jobs : row'[j] = row[j]
  BY DEF Archive, CleansUp
<1>4. cycle' \in [Cycle -> Poll] /\ Single' /\ \A d \in Cycle : Cyc(d)'
  BY <1>1, CycleEnds
<1>5. Books' /\ CompletionVerified'
  BY <1>1, <1>2, <1>3 DEF Books, CompletionVerified
<1>6. TypeOK'
  BY <1>1, <1>2, <1>4 DEF TypeOK, sessVars, markVars, Ends
<1> QED BY <1>4, <1>5, <1>6 DEF BoardInv

LEMMA TransitionStep == ASSUME BoardInv, NEW j \in Jobs, Transition(j) PROVE BoardInv'
<1>1. PICK s \in Status \ {row[j], "none", "new"} :
        /\ row' = [row EXCEPT ![j] = s]
        /\ ended' = IF s = "completed" THEN ended \cup {j} ELSE ended
  BY DEF Transition
<1>2. /\ TypeOK /\ Books /\ CompletionVerified /\ row[j] # "none"
      /\ UNCHANGED <<source, site, charged, watched, cred, sessVars, pollVars>>
      /\ missed' \in {missed, missed \cup {j}}
  BY DEF Transition, BoardInv
<1>3. /\ row' \in [Jobs -> Status] /\ row'[j] = s /\ \A i \in Jobs \ {j} : row'[i] = row[i]
      /\ ended' \subseteq Jobs /\ upsets' \in 0 .. MaxUpsets
  BY <1>1, <1>2, UpsetType DEF TypeOK, Transition
<1>4. Single' /\ \A c \in Cycle : Cyc(c)'
  <2>1. Single'
    BY <1>2 DEF BoardInv, Single, Active, InStep, pollVars
  <2>2. ASSUME NEW c \in Cycle PROVE Cyc(c)'
    <3>1. Cyc(c) /\ cycle' = cycle /\ cycle[c].cur \subseteq Jobs
      BY <1>2, PollFields DEF BoardInv, pollVars
    <3> QED BY <1>2, <1>3, <3>1 DEF Cyc, Knows, OnBoard
  <2> QED BY <2>1, <2>2
<1>5. Books' /\ CompletionVerified'
  BY <1>1, <1>2, <1>3 DEF Books, CompletionVerified
<1>6. TypeOK'
  BY <1>2, <1>3 DEF TypeOK, sessVars, pollVars
<1> QED BY <1>4, <1>5, <1>6 DEF BoardInv

LEMMA CrashStep == ASSUME BoardInv, Crash PROVE BoardInv'
<1>1. /\ TypeOK /\ running' = FALSE /\ cycle' = [c \in Cycle |-> Rest]
      /\ refresh' = [r \in Refresher |-> "idle"] /\ stray' = FALSE
      /\ UNCHANGED <<source, site, row, charged, ended, watched, cred, session>>
      /\ missed' = missed \cup UNION {Unstored(c) : c \in Cycle}
  BY DEF Crash, BoardInv
<1>2. upsets' \in 0 .. MaxUpsets /\ missed' \subseteq Jobs
  <2>1. \A c \in Cycle : Unstored(c) \subseteq Jobs
    BY <1>1, PollFields DEF Unstored
  <2> QED BY <1>1, <2>1, UpsetType DEF Crash, TypeOK
<1>3. Single' /\ \A c \in Cycle : Cyc(c)'
  BY <1>1, RestPoll DEF Single, Active, InStep, Cyc, Knows, OnBoard
<1>4. TypeOK'
  BY <1>1, <1>2, RestPoll DEF TypeOK
<1> QED BY <1>1, <1>3, <1>4, StillBooks DEF BoardInv, Still

LEMMA BoardInit == Init => BoardInv
<1> SUFFICES ASSUME Init PROVE BoardInv
  OBVIOUS
<1>1. TypeOK
  <2>1. cred \in Cred /\ charged \in [Jobs -> 0 .. 2] /\ upsets \in 0 .. MaxUpsets
    BY BoundAssumption DEF Init, Cred
  <2>2. /\ site \in [Jobs -> IF source = "aaa" THEN Shown \cup {"closing"} ELSE Shown]
        /\ row \in [Jobs -> Status] /\ cycle \in [Cycle -> Poll]
    BY RestPoll DEF Init, Shown, Status
  <2> QED BY <2>1, <2>2 DEF Init, TypeOK, Cred
<1>2. Single /\ \A c \in Cycle : Cyc(c)
  BY RestPoll DEF Init, Single, Active, InStep, Cyc, Knows, OnBoard
<1>3. Books /\ CompletionVerified
  BY DEF Init, Books, CompletionVerified
<1> QED BY <1>1, <1>2, <1>3 DEF BoardInv

LEMMA BoardStep == BoardInv /\ [Next]_vars => BoardInv'
<1> SUFFICES ASSUME BoardInv, [Next]_vars PROVE BoardInv'
  OBVIOUS
<1>1. CASE UNCHANGED vars
  <2>1. Still /\ UNCHANGED pollVars /\ TypeOK'
    BY <1>1 DEF vars, boardVars, markVars, sessVars, pollVars, Still, BoardInv, TypeOK
  <2> QED BY <2>1, StillBoard
<1>2. ASSUME NEW c \in Cycle,
             PollStart(c) \/ Polls(c) \/ ScrapeFails(c) \/ LookupFails(c) \/ UpsertFails(c)
      PROVE  BoardInv'
  BY <1>2, StartStep, ScrapeStep, ScrapeAaaStep, ExpiredStep, GiveUpStep, IngestReadStep, WriteStep,
     AnnounceStep, ArchiveStep, UpsertFailsStep DEF Polls
<1>3. CASE Aside
  BY <1>3, AsideStep
<1>4. ASSUME NEW j \in Jobs, Transition(j) PROVE BoardInv'
  BY <1>4, TransitionStep
<1>5. CASE Crash
  BY <1>5, CrashStep
<1> QED BY <1>1, <1>2, <1>3, <1>4, <1>5 DEF Next, Aside

-----------------------------------------------------------------------------
(* The theorems.                                                           *)

\* Cycles that overlap only through the flag, operators who write the same rows,
\* abandoned refreshes and restarts leave this much true.
THEOREM BoardInductive == Spec => []BoardInv
<1> QED BY BoardInit, BoardStep, PTL DEF Spec

THEOREM BoardTypeCorrect == Spec => []TypeOK
<1>1. BoardInv => TypeOK
  BY DEF BoardInv
<1> QED BY <1>1, BoardInductive, PTL

\* One poll at a time, and the flag never stays up without one.
THEOREM OnePollAtATime == Spec => []OneCycle
<1>1. BoardInv => OneCycle
  <2> SUFFICES ASSUME BoardInv PROVE OneCycle
    OBVIOUS
  <2> DEFINE busy == {c \in Cycle : ~InStep(c, "idle")}
  <2>1. busy = {} \/ \E c \in Cycle : busy = {c}
    BY DEF BoardInv, Single, Active
  <2> HIDE DEF busy
  <2>2. Cardinality(busy) <= 1
    <3>1. CASE busy = {}
      BY <3>1, FS_EmptySet
    <3>2. ASSUME NEW c \in Cycle, busy = {c} PROVE Cardinality(busy) <= 1
      BY <3>2, FS_Singleton
    <3> QED BY <2>1, <3>1, <3>2
  <2> QED BY <2>2 DEF busy, BoardInv, Single, Active, OneCycle
<1> QED BY <1>1, BoardInductive, PTL

\* A job is charged and announced at most once, whoever writes its row meanwhile.
THEOREM AnnouncedAtMostOnce == Spec => []AnnouncedOnce
<1>1. BoardInv => AnnouncedOnce
  BY DEF BoardInv, Books, AnnouncedOnce
<1> QED BY <1>1, BoardInductive, PTL

\* No completion of an AAA job is inferred.
THEOREM NoInferredCompletion == Spec => []CompletionVerified
<1>1. BoardInv => CompletionVerified
  BY DEF BoardInv
<1> QED BY <1>1, BoardInductive, PTL

\* The clean-up never completes a job that its own cycle has listed.
THEOREM ListedIsKept == Spec => NeverArchivedWhileListed
<1>1. ASSUME BoardInv, [Next]_vars, NEW c \in Cycle, NEW j \in Jobs,
             InStep(c, "ingest"), cycle'[c].step = "idle", cycle[c].list[j] \in Listed,
             upsets' = upsets
      PROVE  row'[j] = row[j]
  <2>1. TypeOK /\ Cyc(c) /\ cycle' # cycle /\ ~Upset
    BY <1>1 DEF BoardInv, InStep, TypeOK, Upset
  <2>2. PICK d \in Cycle : PollStart(d) \/ Polls(d)
    BY <1>1, <2>1 DEF Next, vars, Refreshes, RefreshLook, Login, Record, LoginStalls, RecordFails,
       RefreshStart, StrayEnds, Cool, SessionAges, SiteMoves, Transition, Pause, ResumeOrTest,
       Crash, ScrapeFails, LookupFails, UpsertFails, pollVars
  <2>3. CASE Archive(d)
    <3>1. d = c /\ cycle[c].todo = {}
      BY <1>1, <2>1, <2>3 DEF Archive, Ends, BoardInv, Single, Active, InStep
    <3>2. source # "aaa" => j \in cycle[c].ids
      BY <1>1, <2>1, <3>1 DEF Cyc, Knows, OnBoard, InStep
    <3> QED BY <2>3, <3>1, <3>2 DEF Archive, CleansUp
  <2>4. CASE ~Archive(d)
    <3>1. row' = row \/ IngestWrite(d)
      BY <2>2, <2>4 DEF PollStart, Polls, Scrape, ScrapeAaa, ScrapeExpired, StopWaiting,
                        IngestRead, Announce, boardVars
    <3>2. ~IngestWrite(d)
      <4> SUFFICES ASSUME IngestWrite(d) PROVE FALSE
        OBVIOUS
      <4>1. d # c /\ Active(d) /\ Active(c)
        BY <1>1 DEF IngestWrite, Active, InStep
      <4> QED BY <1>1, <4>1 DEF BoardInv, Single
    <3> QED BY <3>1, <3>2
  <2> QED BY <2>2, <2>3, <2>4
<1>2. BoardInv /\ [Next]_vars
      => [\A c \in Cycle, j \in Jobs :
            /\ InStep(c, "ingest") /\ cycle'[c].step = "idle"
            /\ cycle[c].list[j] \in Listed /\ upsets' = upsets
            => row'[j] = row[j]]_vars
  BY <1>1
<1> QED BY <1>2, BoardInductive, PTL DEF Spec, NeverArchivedWhileListed

=============================================================================
