----------------------- MODULE DispatchApprovalProofs -----------------------
(***************************************************************************)
(* Proofs about DispatchApproval, for every set of jobs and tenants and    *)
(* any number of requests and upsets: types, one request per job, one      *)
(* answer per request, what the recorded answers say of the portal, and    *)
(* that the whole implements ApprovalDesk.                                 *)
(***************************************************************************)
EXTENDS DispatchApproval, FiniteSetTheorems, SequenceTheorems, TLAPS

Steps    == {"idle", "click", "clicked", "failed"}
Act      == [req : 0 .. Len(reqs), answer : Answer, step : Steps]
On(a, r) == IF a.req = r THEN 1 ELSE 0

\* The engine records no decision under the name that clicks on the portal.
Undecided == \A j \in Jobs : decision[j] \notin {"accepted", "declined"}

\* A job that is not asked about by two senders at once is on one list at most,
\* and leaves it for its only request.
Asking ==
  \A j \in Jobs \ crossed :
    /\ \A r, q \in DOMAIN reqs : reqs[r].job = j /\ reqs[q].job = j => r = q
    /\ \A s, t \in Sweep : j \in sweep[s] /\ j \in sweep[t] => s = t
    /\ \A s \in Sweep : j \in sweep[s] => ~Asked(j)

\* A handler works on a request.
Clicking ==
  \A h \in Handler :
    /\ act[h].step = "idle" => act[h].req = 0
    /\ act[h].step # "idle" => act[h].req \in DOMAIN reqs

\* Answers given and answers under way share the request: one, or two when raced.
Answering ==
  \A r \in DOMAIN reqs :
    /\ reqs[r].answers + On(act["reply1"], r) + On(act["reply2"], r) <= IF r \in raced THEN 2 ELSE 1
    /\ reqs[r].st = "pending" => reqs[r].answers = 0
    /\ r \notin raced /\ (\E h \in Handler : act[h].req = r) => reqs[r].st \in {"pending", "expired"}

Accepted(r) == \E h \in Handler : Decided(h, r) /\ act[h].answer = "accept"

\* An accepted job was asked about, and its request says so, or its handler will.
Accepting ==
  /\ \A j \in Jobs : portal[j] = "accepted" => Asked(j)
  /\ \A r \in DOMAIN reqs \ (raced \cup lost) :
       reqs[r].job \notin crossed /\ portal[reqs[r].job] = "accepted"
         => reqs[r].st \in {"auto_dispatched", "approved"} \/ Accepted(r)

ApprovalInv == TypeOK /\ Undecided /\ Asking /\ Clicking /\ Answering /\ Accepting

\* The part that depends on the requests and on what is done about them.
Requests == Asking /\ Clicking /\ Answering /\ Accepting

-----------------------------------------------------------------------------
(* Requests as a sequence.                                                 *)

LEMMA ReqFacts ==
  ASSUME TypeOK
  PROVE  /\ reqs \in Seq(Request) /\ Len(reqs) \in Nat /\ DOMAIN reqs = 1 .. Len(reqs)
         /\ \A r \in DOMAIN reqs : reqs[r] \in Request /\ reqs[r].job \in Jobs
                                   /\ reqs[r].answers \in 0 .. 2
<1>1. reqs \in Seq(Request) /\ Len(reqs) \in Nat /\ DOMAIN reqs = 1 .. Len(reqs)
  BY LenProperties DEF TypeOK
<1>2. \A r \in DOMAIN reqs : reqs[r] \in Request
  BY <1>1, ElementOfSeq
<1> QED BY <1>1, <1>2 DEF Request

\* Requests change one by one, and none comes or goes.
LEMMA SameRequests ==
  ASSUME TypeOK, NEW rows \in [DOMAIN reqs -> Request], reqs' = rows
  PROVE  reqs' \in Seq(Request) /\ Len(reqs') = Len(reqs) /\ DOMAIN reqs' = DOMAIN reqs
<1>1. rows \in [1 .. Len(reqs) -> Request] /\ Len(reqs) \in Nat
  BY ReqFacts
<1>2. rows \in Seq(Request)
  BY <1>1
<1>3. Len(rows) = Len(reqs)
  BY <1>1, <1>2, LenProperties
<1> QED BY <1>1, <1>2, <1>3, ReqFacts

\* A request is added.
LEMMA AddedRequest ==
  ASSUME TypeOK, NEW j \in Jobs, Len(reqs) < MaxRequests, reqs' = Append(reqs, Pending(j))
  PROVE  /\ reqs' \in Seq(Request) /\ Len(reqs') = Len(reqs) + 1 /\ Len(reqs') <= MaxRequests
         /\ DOMAIN reqs' = DOMAIN reqs \cup {Len(reqs')} /\ Len(reqs') \notin DOMAIN reqs
         /\ Len(reqs') > 0
         /\ \A r \in DOMAIN reqs : reqs'[r] = reqs[r]
         /\ reqs'[Len(reqs')] = Pending(j)
<1>1. Pending(j) \in Request
  BY DEF Pending, Request
<1>2. /\ reqs' \in Seq(Request) /\ Len(reqs') = Len(reqs) + 1
      /\ \A r \in 1 .. Len(reqs) : reqs'[r] = reqs[r]
      /\ reqs'[Len(reqs) + 1] = Pending(j)
  BY <1>1, ReqFacts, AppendProperties
<1>3. DOMAIN reqs' = 1 .. Len(reqs')
  BY <1>2, LenProperties
<1> QED BY <1>2, <1>3, ReqFacts, BoundAssumption

LEMMA UpsetType == ASSUME upsets \in 0 .. MaxUpsets, Upset PROVE upsets' \in 0 .. MaxUpsets
BY BoundAssumption DEF Upset

LEMMA IdleType == ASSUME TypeOK PROVE Nobody \in Act
BY ReqFacts DEF Nobody, Act, Answer, Steps

-----------------------------------------------------------------------------
(* The engine and the other writers of the job.                            *)

LEMMA StillRequests ==
  ASSUME Requests, UNCHANGED <<portal, reqs, sweep, act, crossed, raced, lost>>
  PROVE  Requests'
BY DEF Requests, Asking, Clicking, Answering, Accepting, Accepted,
       Decided, Asked, JobOf, On

LEMMA ClerksKeep ==
  ASSUME ApprovalInv, NEW j \in Jobs,
         Arrive(j) \/ EngineDecide(j) \/ EngineRecord(j) \/ TurnOld(j) \/ Finish(j)
  PROVE  ApprovalInv'
<1>1. portal' = portal
  BY DEF ApprovalInv, Undecided, Arrive, EngineDecide, EngineRecord, TurnOld, Finish
<1>2. UNCHANGED <<reqs, sweep, act, crossed, raced, lost, upsets>>
  BY DEF Arrive, EngineDecide, EngineRecord, TurnOld, Finish
<1>3. Verdict(j) \in Action \cup {"flagged"}
  BY DEF Verdict, ApprovalInv, TypeOK
<1>4. /\ job' \in [Jobs -> {"absent", "new", "done"}]
      /\ matched' \in [Jobs -> Action \cup {"none"}]
      /\ engine' \in [Jobs -> {"idle", "evaluating", "recording"}]
      /\ decision' \in [Jobs -> Decision \cup {"none"}]
      /\ recent' \in [Jobs -> BOOLEAN] /\ Undecided'
  <2>1. CASE Arrive(j)
    BY <2>1 DEF Arrive, ApprovalInv, TypeOK, Undecided
  <2>2. CASE EngineDecide(j)
    <3>1. \A i \in Jobs : decision'[i] = IF i = j THEN Verdict(j) ELSE decision[i]
      BY <2>2 DEF EngineDecide, ApprovalInv, TypeOK
    <3> QED BY <2>2, <1>3, <3>1 DEF EngineDecide, ApprovalInv, TypeOK, Undecided, Decision, Action
  <2>3. CASE EngineRecord(j)
    BY <2>3 DEF EngineRecord, ApprovalInv, TypeOK, Undecided
  <2>4. CASE TurnOld(j)
    BY <2>4 DEF TurnOld, ApprovalInv, TypeOK, Undecided
  <2>5. CASE Finish(j)
    BY <2>5 DEF Finish, ApprovalInv, TypeOK, Undecided
  <2> QED BY <2>1, <2>2, <2>3, <2>4, <2>5
<1>5. TypeOK'
  BY <1>1, <1>2, <1>4 DEF ApprovalInv, TypeOK
<1>6. Requests'
  BY <1>1, <1>2, StillRequests DEF ApprovalInv, Requests
<1> QED BY <1>4, <1>5, <1>6 DEF ApprovalInv, Requests

-----------------------------------------------------------------------------
(* Asking.                                                                 *)

LEMMA SweepStartKeeps == ASSUME ApprovalInv, NEW s \in Sweep, SweepStart(s) PROVE ApprovalInv'
<1>1. /\ sweep' = [sweep EXCEPT ![s] = ToAsk] /\ crossed' = crossed \cup Others(s, ToAsk)
      /\ ToAsk \subseteq Jobs /\ \A j \in ToAsk : ~Asked(j)
      /\ UNCHANGED <<jobVars, portal, reqs, act, raced, upsets, lost>>
  BY DEF SweepStart, ToAsk
<1>2. \A t \in Sweep : sweep'[t] = IF t = s THEN ToAsk ELSE sweep[t]
  BY <1>1 DEF ApprovalInv, TypeOK
<1>3. TypeOK' /\ Undecided'
  BY <1>1 DEF ApprovalInv, TypeOK, Undecided, Others, jobVars
<1>4. Asking'
  <2> SUFFICES ASSUME NEW j \in Jobs, j \notin crossed'
               PROVE  /\ \A r, q \in DOMAIN reqs : reqs[r].job = j /\ reqs[q].job = j => r = q
                      /\ \A t, u \in Sweep : j \in sweep'[t] /\ j \in sweep'[u] => t = u
                      /\ \A t \in Sweep : j \in sweep'[t] => ~Asked(j)
    BY <1>1 DEF Asking, Asked
  <2>1. j \notin crossed /\ \A t \in Sweep \ {s} : j \in ToAsk => j \notin sweep[t]
    BY <1>1 DEF Others
  <2> QED BY <1>1, <1>2, <2>1 DEF ApprovalInv, Asking
<1>5. Clicking' /\ Answering' /\ Accepting'
  BY <1>1 DEF ApprovalInv, Clicking, Answering, Accepting, Accepted,
              Decided, Asked, JobOf, On
<1> QED BY <1>3, <1>4, <1>5 DEF ApprovalInv

\* The request that is added is new, and nobody works on it.
LEMMA AddKeeps ==
  ASSUME ApprovalInv, NEW j \in Jobs, Len(reqs) < MaxRequests, reqs' = Append(reqs, Pending(j)),
         UNCHANGED <<jobVars, portal, act, raced, lost>>,
         Asking', portal[j] = "accepted" => j \in crossed',
         crossed \subseteq crossed', crossed' \subseteq Jobs,
         sweep' \in [Sweep -> SUBSET Jobs], upsets' \in 0 .. MaxUpsets
  PROVE  ApprovalInv'
<1> DEFINE new == Len(reqs')
<1>1. /\ reqs' \in Seq(Request) /\ new = Len(reqs) + 1 /\ new <= MaxRequests
      /\ DOMAIN reqs' = DOMAIN reqs \cup {new} /\ new \notin DOMAIN reqs /\ new > 0
      /\ \A r \in DOMAIN reqs : reqs'[r] = reqs[r]
      /\ reqs'[new] = Pending(j)
  BY AddedRequest DEF ApprovalInv
<1>2. Act \subseteq Act'
  BY <1>1, ReqFacts DEF ApprovalInv, Act
<1>3. act \in [Handler -> Act]
  BY DEF ApprovalInv, TypeOK, Act, Steps
<1>4. \A h \in Handler : act[h].req # new
  BY <1>1 DEF ApprovalInv, Clicking
<1> HIDE DEF new
<1>5. TypeOK'
  <2>1. act' \in [Handler -> Act']
    BY <1>2, <1>3
  <2>2. Len(reqs') <= MaxRequests
    BY <1>1 DEF new
  <2> QED BY <1>1, <2>1, <2>2 DEF ApprovalInv, TypeOK, Act, Steps, jobVars
<1>6. Undecided'
  BY DEF ApprovalInv, Undecided, jobVars
<1>7. Clicking'
  BY <1>1 DEF ApprovalInv, Clicking, JobOf
<1>8. Answering'
  <2>1. ASSUME NEW r \in DOMAIN reqs
        PROVE  /\ reqs'[r].answers + On(act'["reply1"], r) + On(act'["reply2"], r) <= IF r \in raced' THEN 2 ELSE 1
               /\ reqs'[r].st = "pending" => reqs'[r].answers = 0
               /\ r \notin raced' /\ (\E h \in Handler : act'[h].req = r)
                    => reqs'[r].st \in {"pending", "expired"}
    BY <1>1 DEF ApprovalInv, Answering, On
  <2>2. reqs'[new].answers = 0 /\ reqs'[new].st = "pending"
    BY <1>1 DEF Pending
  <2>3. On(act'["reply1"], new) = 0 /\ On(act'["reply2"], new) = 0
    BY <1>4 DEF On, Handler
  <2> QED BY <1>1, <2>1, <2>2, <2>3 DEF Answering
<1>10. Accepting'
  <2>1. \A i \in Jobs : Asked(i) => Asked(i)'
    BY <1>1 DEF Asked
  <2>2. reqs'[new].job = j
    BY <1>1 DEF Pending
  <2> QED BY <1>1, <2>1, <2>2 DEF ApprovalInv, Accepting, Accepted, Decided
<1> QED BY <1>5, <1>6, <1>7, <1>8, <1>10 DEF ApprovalInv

LEMMA SweepAskKeeps ==
  ASSUME ApprovalInv, NEW s \in Sweep, NEW j \in Jobs, SweepAsk(s, j) PROVE ApprovalInv'
<1>1. /\ j \in sweep[s] /\ sweep' = [sweep EXCEPT ![s] = @ \ {j}]
      /\ UNCHANGED <<jobVars, portal, act, crossed, raced, lost>>
  BY DEF SweepAsk
<1>2. /\ sweep' \in [Sweep -> SUBSET Jobs]
      /\ \A t \in Sweep : sweep'[t] = IF t = s THEN sweep[s] \ {j} ELSE sweep[t]
  BY <1>1 DEF ApprovalInv, TypeOK
<1>3. CASE Upset /\ UNCHANGED reqs
  <2>1. Asking'
    BY <1>1, <1>2, <1>3 DEF ApprovalInv, Asking, Asked
  <2>2. TypeOK' /\ Undecided'
    BY <1>1, <1>2, <1>3, UpsetType DEF ApprovalInv, TypeOK, Undecided, jobVars
  <2>3. Clicking' /\ Answering' /\ Accepting'
    BY <1>1, <1>3 DEF ApprovalInv, Clicking, Answering, Accepting, Accepted,
                      Decided, Asked, JobOf, On
  <2> QED BY <2>1, <2>2, <2>3 DEF ApprovalInv
<1>4. CASE Len(reqs) < MaxRequests /\ reqs' = Append(reqs, Pending(j)) /\ UNCHANGED upsets
  <2>1. j \notin crossed => ~Asked(j) /\ \A t \in Sweep \ {s} : j \notin sweep[t]
    BY <1>1 DEF ApprovalInv, Asking
  <2>2. portal[j] = "accepted" => j \in crossed'
    BY <1>1, <2>1 DEF ApprovalInv, Accepting
  <2>3. /\ DOMAIN reqs' = DOMAIN reqs \cup {Len(reqs')} /\ reqs'[Len(reqs')].job = j
        /\ \A r \in DOMAIN reqs : reqs'[r] = reqs[r]
    BY <1>4, AddedRequest DEF ApprovalInv, Pending
  <2>4. Asking'
    <3> SUFFICES ASSUME NEW i \in Jobs, i \notin crossed
                 PROVE  /\ \A r, q \in DOMAIN reqs' : reqs'[r].job = i /\ reqs'[q].job = i => r = q
                        /\ \A t, u \in Sweep : i \in sweep'[t] /\ i \in sweep'[u] => t = u
                        /\ \A t \in Sweep : i \in sweep'[t] => ~Asked(i)'
      BY <1>1 DEF Asking
    <3>1. \A t, u \in Sweep : i \in sweep'[t] /\ i \in sweep'[u] => t = u
      BY <1>2 DEF ApprovalInv, Asking
    <3>2. CASE i # j
      BY <1>2, <2>3, <3>1, <3>2 DEF ApprovalInv, Asking, Asked
    <3>3. CASE i = j
      <4>1. \A t \in Sweep : i \notin sweep'[t]
        BY <1>2, <2>1, <3>3
      <4>2. \A r \in DOMAIN reqs' : reqs'[r].job = i => r = Len(reqs')
        BY <2>1, <2>3, <3>3 DEF Asked
      <4> QED BY <3>1, <4>1, <4>2
    <3> QED BY <3>2, <3>3
  <2> QED BY <1>1, <1>2, <1>4, <2>2, <2>4, AddKeeps DEF ApprovalInv, TypeOK
<1> QED BY <1>3, <1>4 DEF SweepAsk

LEMMA ApiRequestKeeps == ASSUME ApprovalInv, NEW j \in Jobs, ApiRequest(j) PROVE ApprovalInv'
<1>1. /\ Len(reqs) < MaxRequests /\ reqs' = Append(reqs, Pending(j)) /\ crossed' = crossed \cup {j}
      /\ UNCHANGED <<jobVars, portal, sweep, act, raced, lost>> /\ Upset
  BY DEF ApiRequest
<1>2. /\ DOMAIN reqs' = DOMAIN reqs \cup {Len(reqs')} /\ reqs'[Len(reqs')].job = j
      /\ \A r \in DOMAIN reqs : reqs'[r] = reqs[r]
  BY <1>1, AddedRequest DEF ApprovalInv, Pending
<1>3. Asking'
  BY <1>1, <1>2 DEF ApprovalInv, Asking, Asked
<1> QED BY <1>1, <1>3, AddKeeps, UpsetType DEF ApprovalInv, TypeOK

-----------------------------------------------------------------------------
(* Answering.                                                              *)

\* One handler moves.
LEMMA HandlerMoves ==
  ASSUME ApprovalInv, NEW h \in Handler, NEW a \in Act, act' = [act EXCEPT ![h] = a], reqs' = reqs
  PROVE  /\ act' \in [Handler -> Act'] /\ act'[h] = a
         /\ \A g \in Handler \ {h} : act'[g] = act[g]
BY DEF ApprovalInv, TypeOK, Act, Steps

LEMMA TakesKeeps ==
  ASSUME ApprovalInv, NEW h \in Handler, NEW r \in Pickable, NEW answer \in Answer,
         Takes(h, r, answer), Upset, UNCHANGED <<jobVars, portal, reqs, sweep, crossed, lost>>
  PROVE  ApprovalInv'
<1> DEFINE a == [req |-> r, answer |-> answer, step |-> "click"]
<1>1. /\ act' = [act EXCEPT ![h] = a] /\ act[h].step = "idle"
      /\ raced' = IF \E g \in Handler : act[g].req = r THEN raced \cup {r} ELSE raced
      /\ r \in DOMAIN reqs /\ reqs[r].st = "pending" /\ a \in Act
  BY ReqFacts DEF Takes, Pickable, ApprovalInv, Act, Steps
<1>2. /\ act' \in [Handler -> Act'] /\ act'[h] = a
      /\ \A g \in Handler \ {h} : act'[g] = act[g]
  BY <1>1, HandlerMoves
<1>3. a.req = r /\ a.step = "click"
  OBVIOUS
<1> HIDE DEF a
<1>4. TypeOK' /\ Undecided'
  BY <1>1, <1>2, UpsetType DEF ApprovalInv, TypeOK, Undecided, Act, Steps, jobVars
<1>5. Asking'
  BY DEF ApprovalInv, Asking, Asked
<1>6. Clicking'
  BY <1>1, <1>2, <1>3 DEF ApprovalInv, Clicking, JobOf
<1>7. act[h].req = 0 /\ r # 0
  BY <1>1, ReqFacts DEF ApprovalInv, Clicking
<1>8. Answering'
  <2>1. reqs[r].answers = 0
    BY <1>1 DEF ApprovalInv, Answering
  <2>2. ASSUME NEW q \in DOMAIN reqs, q # r
        PROVE  On(act'["reply1"], q) = On(act["reply1"], q) /\ On(act'["reply2"], q) = On(act["reply2"], q)
    <3>1. q # 0
      BY ReqFacts DEF ApprovalInv
    <3> QED BY <1>2, <1>3, <1>7, <2>2, <3>1 DEF On, Handler
  <2>3. \A q \in DOMAIN reqs : q # r =>
          ((\E g \in Handler : act'[g].req = q) => \E g \in Handler : act[g].req = q)
    BY <1>2, <1>3
  <2>4. \A q \in DOMAIN reqs : q # r => (q \in raced' <=> q \in raced)
    BY <1>1
  <2>5. ASSUME r \notin raced' PROVE On(act'["reply1"], r) + On(act'["reply2"], r) <= 1
    BY <1>1, <1>2, <1>3, <2>5 DEF On, Handler
  <2>6. On(act'["reply1"], r) \in {0, 1} /\ On(act'["reply2"], r) \in {0, 1}
    BY DEF On
  <2> QED BY <1>1, <2>1, <2>2, <2>3, <2>4, <2>5, <2>6 DEF ApprovalInv, Answering
<1>9. Accepting'
  <2>1. \A q \in DOMAIN reqs : Accepted(q) => Accepted(q)'
    BY <1>1, <1>2 DEF Accepted, Decided
  <2>2. raced \subseteq raced'
    BY <1>1
  <2> QED BY <2>1, <2>2 DEF ApprovalInv, Accepting, Asked
<1> QED BY <1>4, <1>5, <1>6, <1>8, <1>9 DEF ApprovalInv

LEMMA ReplyKeeps ==
  ASSUME ApprovalInv, NEW h \in Handler, NEW t \in Tenant \cup {"unknown"}, NEW answer \in Answer,
         Reply(h, t, answer)
  PROVE  ApprovalInv'
<1>1. PICK r \in Candidate(t) : Takes(h, r, answer)
  BY DEF Reply
<1>2. Candidate(t) \subseteq Pickable
  BY DEF Candidate, Newest
<1> QED BY <1>1, <1>2, TakesKeeps DEF Reply

LEMMA OverrideKeeps ==
  ASSUME ApprovalInv, NEW h \in Handler, NEW r \in DOMAIN reqs, NEW answer \in Answer,
         Override(h, r, answer)
  PROVE  ApprovalInv'
BY TakesKeeps DEF Override

\* A working handler's request; a second handler on it means that it is raced.
LEMMA Handled ==
  ASSUME ApprovalInv, NEW h \in Handler, act[h].step # "idle"
  PROVE  /\ act[h].req \in DOMAIN reqs /\ act[h].req # 0 /\ JobOf(h) \in Jobs
         /\ \A g \in Handler \ {h} : act[g].req = act[h].req => act[h].req \in raced
<1>1. act[h].req \in DOMAIN reqs
  BY DEF ApprovalInv, Clicking
<1>2. act[h].req # 0 /\ JobOf(h) \in Jobs /\ reqs[act[h].req].answers \in 0 .. 2
  BY <1>1, ReqFacts DEF ApprovalInv, JobOf
<1>3. ASSUME NEW g \in Handler \ {h}, act[g].req = act[h].req PROVE act[h].req \in raced
  <2>1. On(act["reply1"], act[h].req) = 1 /\ On(act["reply2"], act[h].req) = 1
    BY <1>3 DEF On, Handler
  <2> QED BY <1>1, <1>2, <2>1 DEF ApprovalInv, Answering
<1> QED BY <1>1, <1>2, <1>3

LEMMA ClickKeeps == ASSUME ApprovalInv, NEW h \in Handler, Click(h) PROVE ApprovalInv'
<1> DEFINE j == JobOf(h)  r == act[h].req
<1>1. /\ act[h].step = "click" /\ r \in DOMAIN reqs /\ j \in Jobs /\ reqs[r].job = j
      /\ UNCHANGED <<jobVars, reqs, sweep, crossed, raced, upsets, lost>>
  BY Handled DEF Click, JobOf
<1>2. PICK s \in {"clicked", "failed"} :
        /\ act' = [act EXCEPT ![h].step = s]
        /\ \/ portal' = portal
           \/ /\ portal[j] = "open"
              /\ portal' = [portal EXCEPT ![j] = IF act[h].answer = "accept" THEN "accepted"
                                                                            ELSE "declined"]
  BY DEF Click
<1> DEFINE a == [act[h] EXCEPT !.step = s]
<1>3. act[h] \in Act /\ a \in Act /\ act' = [act EXCEPT ![h] = a]
      /\ a.req = r /\ a.answer = act[h].answer /\ a.step = s
  BY <1>2 DEF ApprovalInv, TypeOK, Act, Steps
<1> HIDE DEF a
<1>4. /\ act' \in [Handler -> Act'] /\ act'[h] = a
      /\ \A g \in Handler \ {h} : act'[g] = act[g]
  BY <1>1, <1>3, HandlerMoves
<1>5. /\ portal' \in [Jobs -> {"open", "accepted", "declined"}]
      /\ \A i \in Jobs : portal[i] # "open" => portal'[i] = portal[i]
      /\ \A i \in Jobs \ {j} : portal'[i] = portal[i]
      /\ a.answer # "accept" => portal'[j] \in {portal[j], "declined"}
  BY <1>1, <1>2, <1>3 DEF ApprovalInv, TypeOK
<1>6. TypeOK' /\ Undecided'
  BY <1>1, <1>4, <1>5 DEF ApprovalInv, TypeOK, Undecided, Act, Steps, jobVars
<1>7. Asking'
  BY <1>1 DEF ApprovalInv, Asking, Asked
<1>9. Clicking'
  BY <1>1, <1>3, <1>4 DEF ApprovalInv, Clicking
<1>10. Answering'
  <2>1. \A g \in Handler : act'[g].req = act[g].req
    BY <1>3, <1>4
  <2>2. \A q \in DOMAIN reqs : On(act'["reply1"], q) = On(act["reply1"], q) /\ On(act'["reply2"], q) = On(act["reply2"], q)
    BY <2>1 DEF On, Handler
  <2> QED BY <1>1, <2>1, <2>2 DEF ApprovalInv, Answering
<1>11. Accepting'
  <2>1. Asked(j) /\ \A i \in Jobs : Asked(i)' = Asked(i)
    BY <1>1 DEF Asked
  <2>2. \A q \in DOMAIN reqs : Accepted(q) => Accepted(q)'
    BY <1>1, <1>4 DEF Accepted, Decided
  <2>3. ASSUME NEW q \in DOMAIN reqs, reqs[q].job = j, j \notin crossed PROVE q = r
    BY <1>1, <2>3 DEF ApprovalInv, Asking
  <2>4. a.answer = "accept" => Accepted(r)'
    BY <1>3, <1>4 DEF Accepted, Decided
  <2>5. ASSUME NEW q \in DOMAIN reqs \ (raced \cup lost), reqs[q].job \notin crossed,
               portal'[reqs[q].job] = "accepted"
        PROVE  reqs[q].st \in {"auto_dispatched", "approved"} \/ Accepted(q)'
    <3>1. reqs[q].job \in Jobs
      BY ReqFacts DEF ApprovalInv
    <3>2. CASE portal[reqs[q].job] = "accepted"
      BY <2>2, <2>5, <3>2 DEF ApprovalInv, Accepting
    <3>3. CASE portal[reqs[q].job] # "accepted"
      BY <1>2, <1>5, <2>3, <2>4, <2>5, <3>1, <3>3
    <3> QED BY <3>2, <3>3
  <2>6. \A i \in Jobs : portal'[i] = "accepted" => Asked(i)
    BY <1>5, <2>1 DEF ApprovalInv, Accepting
  <2> QED BY <1>1, <2>1, <2>5, <2>6 DEF Accepting
<1> QED BY <1>6, <1>7, <1>9, <1>10, <1>11 DEF ApprovalInv

LEMMA AnsweredKeeps == ASSUME ApprovalInv, NEW h \in Handler, Answered(h) PROVE ApprovalInv'
<1> DEFINE r == act[h].req  j == JobOf(h)
<1>1. /\ act[h].step \in {"clicked", "failed"} /\ r \in DOMAIN reqs /\ r # 0 /\ reqs[r].job = j
      /\ \A g \in Handler \ {h} : act[g].req = r => r \in raced
      /\ UNCHANGED <<jobVars, portal, sweep, crossed, raced, upsets, lost>>
  BY Handled DEF Answered, JobOf
<1>2. Outcome(h) \in {"declined", "auto_dispatched", "approved"}
      /\ (Outcome(h) = "auto_dispatched" <=> act[h].answer = "accept" /\ act[h].step = "clicked")
      /\ (Outcome(h) = "declined" <=> act[h].answer # "accept")
  BY DEF Outcome, ApprovalInv, TypeOK, Answer
<1>3. reqs[r].answers \in 0 .. 1
  <2>1. On(act["reply1"], r) + On(act["reply2"], r) \in {1, 2}
    BY DEF On, Handler
  <2>2. reqs[r].answers \in 0 .. 2 /\ On(act["reply1"], r) \in {0, 1} /\ On(act["reply2"], r) \in {0, 1}
    BY <1>1, ReqFacts DEF On, ApprovalInv
  <2> QED BY <1>1, <2>1, <2>2 DEF ApprovalInv, Answering
<1> DEFINE row == [reqs[r] EXCEPT !.st = Outcome(h), !.answers = @ + 1]
           rows == [reqs EXCEPT ![r] = row]
<1>4. reqs' = rows
  BY <1>1 DEF Answered
<1>5. /\ row \in Request /\ row.job = j /\ row.st = Outcome(h)
      /\ row.answers = reqs[r].answers + 1
  <2>1. reqs[r] \in Request /\ reqs[r].answers + 1 \in 0 .. 2
    BY <1>1, <1>3, ReqFacts DEF ApprovalInv
  <2>2. Outcome(h) \in {"pending", "approved", "auto_dispatched", "declined", "expired"}
    BY <1>2
  <2> QED BY <1>1, <2>1, <2>2 DEF Request
<1> HIDE DEF row
<1>6. rows \in [DOMAIN reqs -> Request]
  BY <1>1, <1>5, ReqFacts DEF ApprovalInv
<1>7. reqs' \in Seq(Request) /\ Len(reqs') = Len(reqs) /\ DOMAIN reqs' = DOMAIN reqs
  BY <1>4, <1>6, SameRequests DEF ApprovalInv
<1>8. \A q \in DOMAIN reqs : reqs'[q] = IF q = r THEN row ELSE reqs[q]
  BY <1>4, ReqFacts DEF ApprovalInv
<1> HIDE DEF rows
<1>9. \A q \in DOMAIN reqs : reqs'[q].job = reqs[q].job
  BY <1>1, <1>5, <1>8
<1>10. /\ act' = [act EXCEPT ![h] = Nobody] /\ act' \in [Handler -> Act'] /\ act'[h] = Nobody
       /\ \A g \in Handler \ {h} : act'[g] = act[g]
  BY <1>7, IdleType DEF Answered, ApprovalInv, TypeOK, Act, Steps
<1>11. Nobody.req = 0 /\ Nobody.step = "idle"
  BY DEF Nobody
<1>12. TypeOK' /\ Undecided'
  BY <1>1, <1>7, <1>10 DEF ApprovalInv, TypeOK, Undecided, Act, Steps, jobVars
<1>13. Asking'
  BY <1>1, <1>7, <1>9 DEF ApprovalInv, Asking, Asked
<1>14. Clicking'
  BY <1>1, <1>7, <1>9, <1>10, <1>11 DEF ApprovalInv, Clicking, JobOf
<1>16. Answering'
  <2>1. ASSUME NEW q \in DOMAIN reqs, q # r
        PROVE  On(act'["reply1"], q) = On(act["reply1"], q) /\ On(act'["reply2"], q) = On(act["reply2"], q)
    <3>1. q # 0
      BY ReqFacts DEF ApprovalInv
    <3> QED BY <1>10, <1>11, <2>1, <3>1 DEF On, Handler
  <2>2. On(act'["reply1"], r) + On(act'["reply2"], r) + 1 = On(act["reply1"], r) + On(act["reply2"], r)
    BY <1>1, <1>10, <1>11 DEF On, Handler
  <2>3. On(act["reply1"], r) \in {0, 1} /\ On(act["reply2"], r) \in {0, 1}
        /\ On(act'["reply1"], r) \in {0, 1} /\ On(act'["reply2"], r) \in {0, 1}
    BY DEF On
  <2>4. (\E g \in Handler : act'[g].req = r) => r \in raced
    BY <1>1, <1>10, <1>11
  <2>5. \A q \in DOMAIN reqs : q # r =>
          ((\E g \in Handler : act'[g].req = q) => \E g \in Handler : act[g].req = q)
    BY <1>10, <1>11, ReqFacts DEF ApprovalInv
  <2>6. reqs'[r].answers = reqs[r].answers + 1 /\ reqs'[r].st # "pending"
    BY <1>1, <1>2, <1>5, <1>8
  <2>7. reqs'[r].answers + On(act'["reply1"], r) + On(act'["reply2"], r) <= IF r \in raced THEN 2 ELSE 1
    <3>1. reqs[r].answers + On(act["reply1"], r) + On(act["reply2"], r) <= IF r \in raced THEN 2 ELSE 1
      BY <1>1 DEF ApprovalInv, Answering
    <3> QED BY <1>3, <2>2, <2>3, <2>6, <3>1
  <2>8. ASSUME NEW q \in DOMAIN reqs, q # r
        PROVE  /\ reqs'[q].answers + On(act'["reply1"], q) + On(act'["reply2"], q) <= IF q \in raced THEN 2 ELSE 1
               /\ reqs'[q].st = "pending" => reqs'[q].answers = 0
               /\ q \notin raced /\ (\E g \in Handler : act'[g].req = q)
                    => reqs'[q].st \in {"pending", "expired"}
    BY <1>8, <2>1, <2>5, <2>8 DEF ApprovalInv, Answering
  <2> HIDE DEF r
  <2> QED BY <1>1, <1>7, <2>4, <2>6, <2>7, <2>8 DEF Answering
<1>17. Accepting'
  <2>1. \A i \in Jobs : Asked(i) => Asked(i)'
    BY <1>7, <1>9 DEF Asked
  <2>2. ASSUME NEW q \in DOMAIN reqs \ (raced \cup lost), reqs[q].job \notin crossed,
               portal[reqs[q].job] = "accepted"
        PROVE  reqs'[q].st \in {"auto_dispatched", "approved"} \/ Accepted(q)'
    <3>1. reqs[q].st \in {"auto_dispatched", "approved"} \/ Accepted(q)
      BY <2>2 DEF ApprovalInv, Accepting
    <3>2. CASE q # r
      BY <1>8, <1>10, <3>1, <3>2 DEF Accepted, Decided
    <3>3. CASE q = r
      <4>1. reqs[q].st \in {"pending", "expired"}
        BY <2>2, <3>3 DEF ApprovalInv, Answering
      <4>2. PICK g \in Handler : act[g].req = q /\ act[g].answer = "accept"
        BY <3>1, <4>1 DEF Accepted, Decided
      <4>3. g = h
        BY <1>1, <2>2, <3>3, <4>2
      <4> QED BY <1>2, <1>5, <1>8, <3>3, <4>2, <4>3
    <3> QED BY <3>2, <3>3
  <2> QED BY <1>1, <1>7, <1>9, <2>1, <2>2 DEF ApprovalInv, Accepting
<1> QED BY <1>12, <1>13, <1>14, <1>16, <1>17 DEF ApprovalInv

-----------------------------------------------------------------------------
(* The clocks and restarts.                                                *)

\* Requests turn late or expire; a pending one may close without an answer.
LEMMA ClockKeeps ==
  ASSUME ApprovalInv, NEW rows \in [DOMAIN reqs -> Request], reqs' = rows,
         \A r \in DOMAIN reqs :
           /\ rows[r].job = reqs[r].job /\ rows[r].answers = reqs[r].answers
           /\ rows[r].st = reqs[r].st \/ (reqs[r].st = "pending" /\ rows[r].st = "expired"),
         UNCHANGED <<jobVars, portal, sweep, act, crossed, raced, upsets, lost>>
  PROVE  ApprovalInv'
<1>1. reqs' \in Seq(Request) /\ Len(reqs') = Len(reqs) /\ DOMAIN reqs' = DOMAIN reqs
  BY SameRequests DEF ApprovalInv
<1>2. TypeOK' /\ Undecided'
  BY <1>1 DEF ApprovalInv, TypeOK, Undecided, jobVars
<1>3. Asking' /\ Clicking'
  BY <1>1 DEF ApprovalInv, Asking, Asked, Clicking
<1>4. Answering'
  BY <1>1 DEF ApprovalInv, Answering, On
<1>5. Accepting'
  BY <1>1 DEF ApprovalInv, Accepting, Asked, Accepted, Decided
<1> QED BY <1>2, <1>3, <1>4, <1>5 DEF ApprovalInv

LEMMA TurnLateKeeps == ASSUME ApprovalInv, NEW r \in DOMAIN reqs, TurnLate(r) PROVE ApprovalInv'
<1> DEFINE rows == [reqs EXCEPT ![r].late = TRUE]
<1>1. rows \in [DOMAIN reqs -> Request]
      /\ \A q \in DOMAIN reqs : /\ rows[q].job = reqs[q].job /\ rows[q].answers = reqs[q].answers
                                /\ rows[q].st = reqs[q].st
  BY ReqFacts DEF ApprovalInv, Request
<1>2. reqs' = rows /\ UNCHANGED <<jobVars, portal, sweep, act, crossed, raced, upsets, lost>>
  BY DEF TurnLate
<1> HIDE DEF rows
<1> QED BY <1>1, <1>2, ClockKeeps

LEMMA ExpireKeeps == ASSUME ApprovalInv, Expire PROVE ApprovalInv'
<1> DEFINE rows == [r \in DOMAIN reqs |->
                      IF r \in Overdue THEN [reqs[r] EXCEPT !.st = "expired"] ELSE reqs[r]]
<1>1. \A r \in DOMAIN reqs : reqs[r] \in Request /\ (r \in Overdue => reqs[r].st = "pending")
  BY ReqFacts DEF ApprovalInv, Overdue, Pickable
<1>2. rows \in [DOMAIN reqs -> Request]
      /\ \A q \in DOMAIN reqs :
           /\ rows[q].job = reqs[q].job /\ rows[q].answers = reqs[q].answers
           /\ rows[q].st = reqs[q].st \/ (reqs[q].st = "pending" /\ rows[q].st = "expired")
  BY <1>1 DEF Request
<1>3. reqs' = rows /\ UNCHANGED <<jobVars, portal, sweep, act, crossed, raced, upsets, lost>>
  BY DEF Expire
<1> HIDE DEF rows
<1> QED BY <1>2, <1>3, ClockKeeps

LEMMA CrashKeeps == ASSUME ApprovalInv, Crash PROVE ApprovalInv'
<1>1. /\ engine' = [j \in Jobs |-> "idle"] /\ sweep' = [s \in Sweep |-> {}]
      /\ act' = [h \in Handler |-> Nobody] /\ upsets' \in 0 .. MaxUpsets
      /\ lost' = lost \cup {act[h].req : h \in {g \in Handler : act[g].step # "idle"}}
      /\ UNCHANGED <<job, matched, decision, recent, portal, reqs, crossed, raced>>
  BY UpsetType DEF Crash, ApprovalInv, TypeOK
<1>2. act' \in [Handler -> Act'] /\ \A h \in Handler : act'[h].req = 0 /\ act'[h].step = "idle"
  BY <1>1, IdleType DEF ApprovalInv, Nobody, Act
<1>3. lost' \subseteq DOMAIN reqs
  BY <1>1 DEF ApprovalInv, TypeOK, Clicking
<1>4. TypeOK' /\ Undecided'
  BY <1>1, <1>2, <1>3 DEF ApprovalInv, TypeOK, Undecided, Act, Steps
<1>5. Asking' /\ Clicking'
  BY <1>1, <1>2 DEF ApprovalInv, Asking, Asked, Clicking
<1>6. Answering'
  <2>1. \A r \in DOMAIN reqs : r # 0 /\ reqs[r].answers \in 0 .. 2
    BY ReqFacts DEF ApprovalInv
  <2>2. \A r \in DOMAIN reqs : On(act'["reply1"], r) = 0 /\ On(act'["reply2"], r) = 0
                               /\ On(act["reply1"], r) \in {0, 1} /\ On(act["reply2"], r) \in {0, 1}
    BY <1>2, <2>1 DEF On, Handler
  <2> QED BY <1>1, <1>2, <2>1, <2>2 DEF ApprovalInv, Answering
<1>7. Accepting'
  <2>1. \A r \in DOMAIN reqs : Accepted(r) => r \in lost'
    BY <1>1 DEF Accepted, Decided
  <2> QED BY <1>1, <2>1 DEF ApprovalInv, Accepting, Asked
<1> QED BY <1>4, <1>5, <1>6, <1>7 DEF ApprovalInv

-----------------------------------------------------------------------------
(* The desk: how the actions look to the managers.                         *)

Ids == 1 .. MaxRequests

LEMMA IdFacts ==
  ASSUME ApprovalInv
  PROVE  DOMAIN reqs \subseteq Ids /\ \A r \in DOMAIN reqs : About(r) = reqs[r].job /\ About(r) \in Jobs
BY ReqFacts, BoundAssumption DEF ApprovalInv, TypeOK, Ids, About

\* What is told of a request that nobody disturbed.
LEMMA ToldWritten ==
  ASSUME NEW r \in DOMAIN reqs, r \notin raced \cup lost, \A h \in Handler : ~Decided(h, r)
  PROVE  Told(r) = reqs[r].st
BY DEF Told, Word, Handler

LEMMA ToldDecided ==
  ASSUME ApprovalInv, NEW r \in DOMAIN reqs, r \notin raced \cup lost, NEW h \in Handler, Decided(h, r)
  PROVE  Told(r) = Outcome(h)
<1>1. \A g \in Handler \ {h} : act[g].req # r
  BY Handled DEF Decided
<1> QED BY <1>1 DEF Told, Word, Decided, Handler

LEMMA ToldUnknown == ASSUME NEW r \in DOMAIN reqs, r \in raced \cup lost PROVE Told(r) = "unknown"
BY DEF Told

\* Nothing is heard of at the desk.
LEMMA Unheard ==
  ASSUME \A r \in Ids : Told(r)' = Told(r) /\ About(r)' = About(r), portal' = portal
  PROVE  UNCHANGED Desk!vars
BY DEF Desk!vars, Ids

\* One word changes.
LEMMA OneTold ==
  ASSUME NEW r \in Ids, NEW v, Told(r)' = v, \A q \in Ids \ {r} : Told(q)' = Told(q)
  PROVE  Desk!Tell(r, v)
BY DEF Desk!Tell, Ids

\* The engine, the sweeps, the lateness of a request.
LEMMA Backstage ==
  ASSUME DOMAIN reqs' = DOMAIN reqs,
         \A r \in DOMAIN reqs : reqs'[r].job = reqs[r].job /\ reqs'[r].st = reqs[r].st,
         UNCHANGED <<portal, act, raced, lost>>
  PROVE  UNCHANGED Desk!vars
<1>1. \A r \in Ids : Told(r)' = Told(r)
  BY DEF Told, Word, Decided, Outcome
<1>2. \A r \in Ids : About(r)' = About(r)
  BY DEF About
<1> QED BY <1>1, <1>2, Unheard

LEMMA DeskBackstage ==
  ASSUME ApprovalInv,
         \/ \E j \in Jobs : \/ Arrive(j) \/ EngineDecide(j) \/ EngineRecord(j)
                            \/ TurnOld(j) \/ Finish(j)
         \/ \E s \in Sweep : SweepStart(s)
         \/ \E r \in DOMAIN reqs : TurnLate(r)
         \/ UNCHANGED vars
  PROVE  UNCHANGED Desk!vars
<1>1. CASE \E j \in Jobs : \/ Arrive(j) \/ EngineDecide(j) \/ EngineRecord(j)
                           \/ TurnOld(j) \/ Finish(j)
  <2>1. portal' = portal /\ UNCHANGED <<reqs, act, raced, lost>>
    BY <1>1 DEF ApprovalInv, Undecided, Arrive, EngineDecide, EngineRecord, TurnOld, Finish
  <2> QED BY <2>1, Backstage
<1>2. CASE (\E s \in Sweep : SweepStart(s)) \/ UNCHANGED vars
  BY <1>2, Backstage DEF SweepStart, vars
<1>3. CASE \E r \in DOMAIN reqs : TurnLate(r)
  <2>1. PICK r \in DOMAIN reqs : reqs' = [reqs EXCEPT ![r].late = TRUE]
                                 /\ UNCHANGED <<portal, act, raced, lost>>
    BY <1>3 DEF TurnLate
  <2>2. reqs[r] \in Request
    BY ReqFacts DEF ApprovalInv
  <2>3. DOMAIN reqs' = DOMAIN reqs
        /\ \A q \in DOMAIN reqs : reqs'[q].job = reqs[q].job /\ reqs'[q].st = reqs[q].st
    BY <2>1, <2>2 DEF Request
  <2> QED BY <2>1, <2>3, Backstage
<1> QED BY <1>1, <1>2, <1>3

LEMMA DeskAsk ==
  ASSUME ApprovalInv, NEW j \in Jobs, Len(reqs) < MaxRequests, reqs' = Append(reqs, Pending(j)),
         UNCHANGED <<portal, act, raced, lost>>
  PROVE  [Desk!Next]_(Desk!vars)
<1> PICK new \in Ids : new = Len(reqs')
  BY AddedRequest, BoundAssumption DEF ApprovalInv, Ids
<1>1. /\ DOMAIN reqs' = DOMAIN reqs \cup {new} /\ new \notin DOMAIN reqs /\ new \in Ids
      /\ \A r \in DOMAIN reqs : reqs'[r] = reqs[r]
      /\ reqs'[new].job = j /\ reqs'[new].st = "pending"
  BY AddedRequest, BoundAssumption DEF ApprovalInv, Pending, Ids
<1>2. new \notin raced \cup lost /\ \A h \in Handler : ~Decided(h, new)
  BY <1>1 DEF ApprovalInv, TypeOK, Clicking, Decided
<1>3. \A r \in Ids \ {new} : Told(r)' = Told(r) /\ About(r)' = About(r)
  BY <1>1 DEF Told, Word, Decided, Outcome, About
<1>4. Told(new) = "unasked" /\ Told(new)' = "pending" /\ About(new)' = j
  BY <1>1, <1>2 DEF Told, Word, Decided, About, Handler
<1>5. Desk!Ask(new, j)
  BY <1>1, <1>3, <1>4, OneTold DEF Desk!Ask, Ids
<1> QED BY <1>1, <1>5 DEF Desk!Next, Ids

LEMMA OutcomeFacts ==
  ASSUME NEW h \in Handler
  PROVE  Outcome(h) \in {"declined", "auto_dispatched", "approved"}
BY DEF Outcome

\* Some requests are disturbed, and nothing else is heard.
LEMMA DeskDisturb ==
  ASSUME ApprovalInv, NEW hit \in SUBSET DOMAIN reqs,
         \A r \in hit : Told(r)' = "unknown",
         \A r \in Ids \ hit : Told(r)' = Told(r),
         \A r \in Ids : About(r)' = About(r), portal' = portal
  PROVE  [Desk!Next]_(Desk!vars)
<1>1. \A r \in DOMAIN reqs : reqs[r].st # "unasked"
  BY ReqFacts DEF ApprovalInv, Request
<1>2. \A r \in DOMAIN reqs : r \in Ids /\ Told(r) # "unasked"
  BY <1>1, IdFacts, OutcomeFacts DEF Told, Word, Handler
<1>3. Desk!Disturb
  BY <1>2 DEF Desk!Disturb, Ids
<1> QED BY <1>3 DEF Desk!Next

\* A handler takes a request on: nothing is heard, unless another one has it.
LEMMA DeskTakes ==
  ASSUME ApprovalInv, NEW h \in Handler, NEW r \in Pickable, NEW answer \in Answer,
         Takes(h, r, answer), UNCHANGED <<portal, reqs, lost>>
  PROVE  [Desk!Next]_(Desk!vars)
<1>1. /\ act' = [act EXCEPT ![h] = [req |-> r, answer |-> answer, step |-> "click"]]
      /\ act[h].step = "idle" /\ r \in DOMAIN reqs
      /\ raced' = IF \E g \in Handler : act[g].req = r THEN raced \cup {r} ELSE raced
  BY DEF Takes, Pickable
<1>2. act'[h].step = "click" /\ \A g \in Handler \ {h} : act'[g] = act[g]
  BY <1>1 DEF ApprovalInv, TypeOK
<1>3. \A q \in Ids : About(q)' = About(q)
  BY DEF About
<1>4. \A q \in Ids : (q \in raced' <=> q \in raced) => Told(q)' = Told(q)
  <2>1. \A q \in Ids, g \in Handler : Decided(g, q)' = Decided(g, q)
    BY <1>1, <1>2 DEF Decided
  <2>2. \A q \in Ids, g \in Handler : Decided(g, q) => Outcome(g)' = Outcome(g)
    BY <1>1, <1>2 DEF Decided, Outcome
  <2> QED BY <2>1, <2>2 DEF Told, Word, Handler
<1>5. CASE raced' = raced
  BY <1>3, <1>4, <1>5, Unheard
<1>6. CASE raced' # raced
  <2>1. r \in raced' /\ \A q \in Ids \ {r} : q \in raced' <=> q \in raced
    BY <1>1, <1>6
  <2>2. Told(r)' = "unknown"
    BY <1>1, <2>1 DEF Told
  <2>3. {r} \in SUBSET DOMAIN reqs /\ \A q \in {r} : Told(q)' = "unknown"
    BY <1>1, <2>2
  <2>4. \A q \in Ids \ {r} : Told(q)' = Told(q)
    BY <1>4, <2>1
  <2> QED BY <1>3, <2>3, <2>4, DeskDisturb
<1> QED BY <1>5, <1>6

\* The click: the answer, as far as the managers are concerned.
LEMMA DeskClick == ASSUME ApprovalInv, NEW h \in Handler, Click(h) PROVE [Desk!Next]_(Desk!vars)
<1> PICK r \in DOMAIN reqs, j \in Jobs : r = act[h].req /\ j = JobOf(h)
  BY Handled DEF Click
<1>1. /\ act[h].step = "click" /\ r \in DOMAIN reqs /\ j \in Jobs /\ About(r) = j /\ r \in Ids
      /\ UNCHANGED <<reqs, raced, lost>>
  BY Handled, IdFacts DEF Click, JobOf
<1>2. PICK s \in {"clicked", "failed"} :
        /\ act' = [act EXCEPT ![h].step = s]
        /\ \/ portal' = portal
           \/ /\ portal[j] = "open"
              /\ portal' = [portal EXCEPT ![j] = IF act[h].answer = "accept" THEN "accepted"
                                                                            ELSE "declined"]
  BY DEF Click
<1>3. /\ act'[h].step = s /\ act'[h].req = r /\ act'[h].answer = act[h].answer
      /\ act[h].answer \in Answer
      /\ \A g \in Handler \ {h} : act'[g] = act[g]
  BY <1>2 DEF ApprovalInv, TypeOK
<1>4. \A q \in Ids : About(q)' = About(q)
  BY <1>1 DEF About
<1>5. \A q \in Ids \ {r} : Told(q)' = Told(q)
  <2>1. \A q \in Ids \ {r}, g \in Handler : Decided(g, q)' = Decided(g, q)
    BY <1>3 DEF Decided
  <2>2. \A q \in Ids \ {r}, g \in Handler : Decided(g, q) => Outcome(g)' = Outcome(g)
    BY <1>3 DEF Decided, Outcome
  <2> QED BY <1>1, <2>1, <2>2 DEF Told, Word, Handler
<1>6. CASE r \in raced \cup lost
  <2>1. Told(r) = "unknown" /\ Told(r)' = "unknown"
    BY <1>1, <1>6 DEF Told
  <2>2. CASE portal' = portal
    BY <1>4, <1>5, <2>1, <2>2, Unheard
  <2>3. CASE portal' # portal
    <3>1. \E w \in {"accepted", "declined"} : portal[j] = "open" /\ portal' = [portal EXCEPT ![j] = w]
      BY <1>2, <2>3
    <3>2. Desk!Blind(r)
      BY <1>1, <1>4, <1>5, <2>1, <3>1 DEF Desk!Blind, Desk!Click, Ids
    <3> QED BY <1>1, <3>2 DEF Desk!Next, Ids
  <2> QED BY <2>2, <2>3
<1>7. CASE r \notin raced \cup lost
  <2>1. \A g \in Handler \ {h} : act[g].req # r
    BY <1>1, <1>7, Handled
  <2>2. \A g \in Handler : ~Decided(g, r)
    BY <1>1, <2>1 DEF Decided
  <2>3. Told(r) \in {"pending", "expired"}
    <3>1. reqs[r].st \in {"pending", "expired"}
      BY <1>1, <1>7 DEF ApprovalInv, Answering
    <3> QED BY <1>1, <1>7, <2>2, <3>1, ToldWritten
  <2>4. Told(r)' = IF act[h].answer = "decline" THEN "declined"
                   ELSE IF s = "clicked" THEN "auto_dispatched" ELSE "approved"
    <3>1. Outcome(h)' = IF act[h].answer = "decline" THEN "declined"
                        ELSE IF s = "clicked" THEN "auto_dispatched" ELSE "approved"
      BY <1>3 DEF Outcome, Answer
    <3>2. Decided(h, r)' /\ \A g \in Handler \ {h} : ~Decided(g, r)'
      BY <1>3, <2>1 DEF Decided
    <3>3. Told(r)' = Outcome(h)'
      BY <1>1, <1>7, <3>2 DEF Told, Word, Handler
    <3> QED BY <3>1, <3>3
  <2>5. Desk!Open(r)
    BY <1>1, <2>3 DEF Desk!Open, Ids
  <2>6. Desk!Tell(r, Told(r)')
    BY <1>1, <1>5, OneTold
  <2>7. \/ /\ \E v \in {"auto_dispatched", "approved"} : Desk!Tell(r, v)
           /\ Desk!Click(j, "accepted") \/ UNCHANGED portal
        \/ /\ Desk!Tell(r, "declined")
           /\ Desk!Click(j, "declined") \/ UNCHANGED portal
    <3>1. CASE act[h].answer = "accept"
      <4>1. Desk!Click(j, "accepted") \/ UNCHANGED portal
        BY <1>2, <3>1 DEF Desk!Click
      <4>2. \E v \in {"auto_dispatched", "approved"} : Desk!Tell(r, v)
        BY <2>4, <2>6, <3>1
      <4> QED BY <4>1, <4>2
    <3>2. CASE act[h].answer = "decline"
      <4>1. Desk!Click(j, "declined") \/ UNCHANGED portal
        BY <1>2, <3>2 DEF Desk!Click
      <4> QED BY <2>4, <2>6, <3>2, <4>1
    <3> QED BY <1>3, <3>1, <3>2 DEF Answer
  <2>8. Desk!Answer(r)
    BY <1>1, <1>4, <2>5, <2>7 DEF Desk!Answer, Ids
  <2> QED BY <1>1, <2>8 DEF Desk!Next, Ids
<1> QED BY <1>6, <1>7

\* The UPDATE brings no news.
LEMMA DeskAnswered == ASSUME ApprovalInv, NEW h \in Handler, Answered(h) PROVE UNCHANGED Desk!vars
<1> PICK r \in DOMAIN reqs : r = act[h].req
  BY Handled DEF Answered
<1>1. /\ act[h].step \in {"clicked", "failed"} /\ r \in DOMAIN reqs /\ r # 0
      /\ \A g \in Handler \ {h} : act[g].req = r => r \in raced
      /\ UNCHANGED <<portal, raced, lost>> /\ act' = [act EXCEPT ![h] = Nobody]
      /\ reqs' = [reqs EXCEPT ![r].st = Outcome(h), ![r].answers = @ + 1]
  BY Handled DEF Answered
<1>2. act'[h] = Nobody /\ \A g \in Handler \ {h} : act'[g] = act[g]
  BY <1>1 DEF ApprovalInv, TypeOK
<1>3. reqs[r] \in Request
  BY <1>1, ReqFacts DEF ApprovalInv
<1>4. /\ DOMAIN reqs' = DOMAIN reqs /\ \A q \in DOMAIN reqs : reqs'[q].job = reqs[q].job
      /\ reqs'[r].st = Outcome(h) /\ \A q \in DOMAIN reqs \ {r} : reqs'[q] = reqs[q]
  BY <1>1, <1>3, ReqFacts DEF ApprovalInv, Request
<1>5. \A q \in Ids : About(q)' = About(q)
  BY <1>4 DEF About
<1>6. \A q \in Ids \ {r} : Told(q)' = Told(q)
  <2>1. \A q \in Ids \ {r}, g \in Handler : Decided(g, q)' = Decided(g, q)
    BY <1>1, <1>2 DEF Decided, Nobody
  <2>2. \A q \in Ids \ {r}, g \in Handler : Decided(g, q) => Outcome(g)' = Outcome(g)
    BY <1>1, <1>2 DEF Decided, Outcome
  <2> QED BY <1>1, <1>4, <2>1, <2>2 DEF Told, Word, Handler
<1>7. Told(r)' = Told(r)
  <2>1. CASE r \in raced \cup lost
    BY <1>1, <1>4, <2>1 DEF Told
  <2>2. CASE r \notin raced \cup lost
    <3>1. Told(r) = Outcome(h)
      BY <1>1, <2>2, ToldDecided DEF Decided
    <3>2. \A g \in Handler : ~Decided(g, r)'
      BY <1>1, <1>2, <2>2 DEF Decided, Nobody
    <3>3. Told(r)' = reqs'[r].st
      BY <1>1, <1>4, <2>2, <3>2 DEF Told, Word, Handler
    <3> QED BY <1>4, <3>1, <3>3
  <2> QED BY <2>1, <2>2
<1> QED BY <1>1, <1>5, <1>6, <1>7, Unheard

LEMMA DeskExpire == ASSUME ApprovalInv, Expire PROVE [Desk!Next]_(Desk!vars)
<1> DEFINE late == {r \in Overdue : Told(r) = "pending"}
<1>1. /\ reqs' = [r \in DOMAIN reqs |->
                    IF r \in Overdue THEN [reqs[r] EXCEPT !.st = "expired"] ELSE reqs[r]]
      /\ UNCHANGED <<portal, act, raced, lost>>
  BY DEF Expire
<1>2. \A r \in DOMAIN reqs : reqs[r] \in Request
  BY ReqFacts DEF ApprovalInv
<1>3. /\ DOMAIN reqs' = DOMAIN reqs
      /\ \A r \in DOMAIN reqs : /\ reqs'[r].job = reqs[r].job
                                /\ reqs'[r].st = IF r \in Overdue THEN "expired" ELSE reqs[r].st
  BY <1>1, <1>2 DEF Request
<1>4. \A r \in Ids : About(r)' = About(r)
  BY <1>3 DEF About
<1>5. \A h \in Handler : Outcome(h)' = Outcome(h) /\ \A r \in Ids : Decided(h, r)' = Decided(h, r)
  BY <1>1 DEF Outcome, Decided
<1>6. \A r \in Overdue : r \in DOMAIN reqs /\ r \in Ids /\ reqs[r].st = "pending"
  BY IdFacts DEF Overdue, Pickable
<1>7. \A r \in Ids : Told(r)' = IF r \in late THEN "expired" ELSE Told(r)
  <2> TAKE r \in Ids
  <2>1. CASE r \notin DOMAIN reqs \/ r \in raced \cup lost
    <3>1. Told(r)' = Told(r) /\ Told(r) # "pending"
      BY <1>1, <1>3, <2>1 DEF Told
    <3> QED BY <3>1
  <2>2. CASE r \in DOMAIN reqs /\ r \notin raced \cup lost /\ \E h \in Handler : Decided(h, r)
    <3>1. Told(r)' = Told(r)
      BY <1>1, <1>3, <1>5, <2>2 DEF Told, Word, Handler
    <3>2. Told(r) # "pending"
      BY <2>2, ToldDecided, OutcomeFacts
    <3> QED BY <3>1, <3>2
  <2>3. CASE r \in DOMAIN reqs /\ r \notin raced \cup lost /\ \A h \in Handler : ~Decided(h, r)
    <3>1. Told(r) = reqs[r].st
      BY <2>3, ToldWritten
    <3>2. Told(r)' = reqs'[r].st
      BY <1>1, <1>3, <1>5, <2>3 DEF Told, Word, Handler
    <3> QED BY <1>3, <1>6, <2>3, <3>1, <3>2
  <2> QED BY <2>1, <2>2, <2>3
<1>8. late \subseteq {r \in Ids : Told(r) = "pending"}
  BY <1>6
<1> HIDE DEF late
<1>9. Desk!Expire
  BY <1>1, <1>4, <1>7, <1>8 DEF Desk!Expire, Ids
<1> QED BY <1>9 DEF Desk!Next

LEMMA DeskCrash == ASSUME ApprovalInv, Crash PROVE [Desk!Next]_(Desk!vars)
<1> DEFINE hit == {act[h].req : h \in {g \in Handler : act[g].step # "idle"}}
<1>1. /\ act' = [h \in Handler |-> Nobody] /\ lost' = lost \cup hit
      /\ UNCHANGED <<portal, reqs, raced>>
  BY DEF Crash
<1>2. hit \subseteq DOMAIN reqs
  BY DEF ApprovalInv, Clicking
<1>3. \A r \in Ids \ hit, h \in Handler : ~Decided(h, r)
  BY DEF Decided
<1>4. \A r \in Ids, h \in Handler : ~Decided(h, r)'
  BY <1>1 DEF Decided, Nobody
<1> HIDE DEF hit
<1>5. \A r \in hit : Told(r)' = "unknown"
  BY <1>1, <1>2 DEF Told
<1>6. \A r \in Ids \ hit : Told(r)' = Told(r)
  BY <1>1, <1>3, <1>4 DEF Told, Word, Handler
<1>7. \A r \in Ids : About(r)' = About(r)
  BY <1>1 DEF About
<1> QED BY <1>1, <1>2, <1>5, <1>6, <1>7, DeskDisturb

LEMMA DeskInit == Init => Desk!Init
<1> SUFFICES ASSUME Init PROVE Desk!Init
  OBVIOUS
<1>1. DOMAIN reqs = {}
  BY EmptySeq, LenProperties DEF Init
<1>2. \A r \in Ids : Told(r) = "unasked" /\ About(r) = "nothing"
  BY <1>1 DEF Told, About
<1> QED BY <1>2 DEF Desk!Init, Init, Ids

LEMMA DeskStep == ASSUME ApprovalInv, [Next]_vars PROVE [Desk!Next]_(Desk!vars)
<1>1. ASSUME NEW j \in Jobs,
             \/ Arrive(j) \/ EngineDecide(j) \/ EngineRecord(j)
             \/ ApiRequest(j) \/ TurnOld(j) \/ Finish(j)
      PROVE  [Desk!Next]_(Desk!vars)
  BY <1>1, DeskBackstage, DeskAsk DEF ApiRequest
<1>2. ASSUME NEW s \in Sweep, NEW j \in Jobs, SweepAsk(s, j) PROVE [Desk!Next]_(Desk!vars)
  <2>1. UNCHANGED <<portal, act, raced, lost>>
    BY <1>2 DEF SweepAsk
  <2>2. CASE Len(reqs) < MaxRequests /\ reqs' = Append(reqs, Pending(j))
    BY <2>1, <2>2, DeskAsk
  <2>3. CASE UNCHANGED reqs
    BY <2>1, <2>3, Backstage
  <2> QED BY <1>2, <2>2, <2>3 DEF SweepAsk
<1>3. ASSUME NEW h \in Handler, NEW answer \in Answer, NEW t \in Tenant \cup {"unknown"},
             Reply(h, t, answer)
      PROVE  [Desk!Next]_(Desk!vars)
  <2>1. PICK r \in Candidate(t) : Takes(h, r, answer)
    BY <1>3 DEF Reply
  <2>2. r \in Pickable
    BY DEF Candidate, Newest
  <2> QED BY <1>3, <2>1, <2>2, DeskTakes DEF Reply
<1>4. ASSUME NEW h \in Handler, NEW answer \in Answer, NEW r \in DOMAIN reqs, Override(h, r, answer)
      PROVE  [Desk!Next]_(Desk!vars)
  BY <1>4, DeskTakes DEF Override
<1>5. ASSUME NEW h \in Handler, Click(h) \/ Answered(h) PROVE [Desk!Next]_(Desk!vars)
  BY <1>5, DeskClick, DeskAnswered
<1>6. CASE \/ \E s \in Sweep : SweepStart(s)
           \/ \E r \in DOMAIN reqs : TurnLate(r)
           \/ UNCHANGED vars
  BY <1>6, DeskBackstage
<1>7. CASE Expire \/ Crash
  BY <1>7, DeskExpire, DeskCrash
<1> QED BY <1>1, <1>2, <1>3, <1>4, <1>5, <1>6, <1>7 DEF Next

-----------------------------------------------------------------------------
(* The theorems.                                                           *)

LEMMA ApprovalInit == Init => ApprovalInv
<1> SUFFICES ASSUME Init PROVE ApprovalInv
  OBVIOUS
<1>1. reqs = <<>> /\ reqs \in Seq(Request) /\ Len(reqs) = 0 /\ DOMAIN reqs = {}
  BY EmptySeq, LenProperties DEF Init
<1>2. /\ \A h \in Handler : act[h].req = 0 /\ act[h].step = "idle"
      /\ \A j \in Jobs : portal[j] = "open" /\ decision[j] = "none"
      /\ \A s \in Sweep : sweep[s] = {}
  BY DEF Init, Nobody
<1>3. TypeOK
  BY <1>1, BoundAssumption DEF Init, TypeOK, Nobody, Answer
<1>4. Undecided /\ Asking /\ Clicking /\ Answering /\ Accepting
  BY <1>1, <1>2 DEF Undecided, Asking, Asked, Clicking, Answering, Accepting
<1> QED BY <1>3, <1>4 DEF ApprovalInv

LEMMA ApprovalNext == ApprovalInv /\ [Next]_vars => ApprovalInv'
<1> SUFFICES ASSUME ApprovalInv, [Next]_vars PROVE ApprovalInv'
  OBVIOUS
<1>1. ASSUME NEW j \in Jobs,
             \/ Arrive(j) \/ EngineDecide(j) \/ EngineRecord(j)
             \/ ApiRequest(j) \/ TurnOld(j) \/ Finish(j)
      PROVE  ApprovalInv'
  BY <1>1, ClerksKeep, ApiRequestKeeps
<1>2. ASSUME NEW s \in Sweep, SweepStart(s) \/ \E j \in Jobs : SweepAsk(s, j) PROVE ApprovalInv'
  BY <1>2, SweepStartKeeps, SweepAskKeeps
<1>3. ASSUME NEW h \in Handler,
             \/ \E a \in Answer, t \in Tenant \cup {"unknown"} : Reply(h, t, a)
             \/ \E a \in Answer, r \in DOMAIN reqs : Override(h, r, a)
             \/ Click(h) \/ Answered(h)
      PROVE  ApprovalInv'
  BY <1>3, ReplyKeeps, OverrideKeeps, ClickKeeps, AnsweredKeeps
<1>4. ASSUME NEW r \in DOMAIN reqs, TurnLate(r) PROVE ApprovalInv'
  BY <1>4, TurnLateKeeps
<1>5. CASE Expire \/ Crash
  BY <1>5, ExpireKeeps, CrashKeeps
<1>6. CASE UNCHANGED vars
  <2>1. TypeOK' /\ Undecided'
    BY <1>6 DEF vars, jobVars, ApprovalInv, TypeOK, Undecided
  <2>2. Requests'
    BY <1>6, StillRequests DEF vars, ApprovalInv, Requests
  <2> QED BY <2>1, <2>2 DEF ApprovalInv, Requests
<1> QED BY <1>1, <1>2, <1>3, <1>4, <1>5, <1>6 DEF Next

(* The invariant is inductive. *)
THEOREM ApprovalInductive == Spec => []ApprovalInv
BY ApprovalInit, ApprovalNext, PTL DEF Spec

(* Types. *)
THEOREM ApprovalTypeCorrect == Spec => []TypeOK
<1>1. ApprovalInv => TypeOK
  BY DEF ApprovalInv
<1> QED BY <1>1, ApprovalInductive, PTL

(* The managers get one request per job, unless two senders selected it at once. *)
THEOREM OneRequestPerJob == Spec => []AskedOnce
<1>1. ASSUME ApprovalInv, NEW j \in Jobs \ crossed
      PROVE  Cardinality({r \in DOMAIN reqs : reqs[r].job = j}) <= 1
  <2> DEFINE asks == {r \in DOMAIN reqs : reqs[r].job = j}
  <2>1. \A r, q \in asks : r = q
    BY <1>1 DEF ApprovalInv, Asking
  <2>2. CASE asks = {}
    BY <2>2, FS_EmptySet
  <2>3. CASE asks # {}
    <3>1. PICK r : r \in asks
      BY <2>3
    <3>2. asks = {r}
      BY <2>1, <3>1
    <3> HIDE DEF asks
    <3>3. Cardinality(asks) = 1
      BY <3>2, FS_Singleton
    <3> QED BY <3>3 DEF asks
  <2> QED BY <2>2, <2>3
<1>2. ApprovalInv => AskedOnce
  BY <1>1 DEF AskedOnce
<1> QED BY <1>2, ApprovalInductive, PTL

(* A request gets one answer, unless two handlers read it as pending at once. *)
THEOREM OneAnswerPerRequest == Spec => []AnsweredOnce
<1>1. ASSUME ApprovalInv, NEW r \in DOMAIN reqs \ raced PROVE reqs[r].answers <= 1
  <2>1. reqs[r].answers \in 0 .. 2 /\ On(act["reply1"], r) \in {0, 1} /\ On(act["reply2"], r) \in {0, 1}
    BY <1>1, ReqFacts DEF ApprovalInv, On
  <2> QED BY <1>1, <2>1 DEF ApprovalInv, Answering
<1>2. ApprovalInv => AnsweredOnce
  BY <1>1 DEF AnsweredOnce
<1> QED BY <1>2, ApprovalInductive, PTL

(* An acceptance that the portal took does not stay pending, expired or declined
   on record, where one handler answered the only request and finished. *)
THEOREM AcceptanceRecorded == Spec => []AcceptanceIsRecorded
<1>1. ApprovalInv => AcceptanceIsRecorded
  BY DEF ApprovalInv, Accepting, Accepted, Decided, Busy, AcceptanceIsRecorded
<1> QED BY <1>1, ApprovalInductive, PTL

(* A request recorded as declined leaves its job unaccepted, where one handler
   answered the only request and no restart lost its answer. *)
THEOREM DeclineRecordIsTrue == Spec => []DeclinedNotAccepted
<1>1. ApprovalInv => DeclinedNotAccepted
  BY DEF ApprovalInv, Accepting, Answering, Accepted, Decided, DeclinedNotAccepted
<1> QED BY <1>1, ApprovalInductive, PTL

(* Sweeps, handlers, clicks, expiry and restarts, however they interleave, look to
   the managers like requests answered in one step: DispatchApproval implements
   ApprovalDesk. *)
THEOREM AnswersAreAtomic == Spec => AnswersActAtomically
<1>1. ApprovalInv /\ [Next]_vars => [Desk!Next]_(Desk!vars)
  BY DeskStep
<1> QED BY <1>1, DeskInit, ApprovalInductive, PTL DEF Spec, AnswersActAtomically, Desk!Spec
=============================================================================
