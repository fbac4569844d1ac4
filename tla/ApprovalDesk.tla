---------------------------- MODULE ApprovalDesk ----------------------------
(***************************************************************************)
(* Requests for approval as the managers are told of them: a request is    *)
(* asked, may expire, and is answered once; the answer and what the motor  *)
(* club's portal makes of it are one indivisible step, and final.  An      *)
(* answer beats the expiry, however late.  No sweeps, handlers, clicks or  *)
(* UPDATEs.  What a disturbance costs is the word about that request, for  *)
(* good; the portal never takes a second click for a job.  Module          *)
(* DispatchApproval implements this one.                                   *)
(***************************************************************************)
CONSTANTS
  Jobs,
  Requests  \* requests that may be made

VARIABLES
  about,    \* [Requests -> the job, "nothing" before it is asked]
  verdict,  \* [Requests -> what the managers are told]
  portal    \* [Jobs -> open, accepted, declined on the portal]

vars == <<about, verdict, portal>>

Init ==
  /\ about = [r \in Requests |-> "nothing"]
  /\ verdict = [r \in Requests |-> "unasked"]
  /\ portal = [j \in Jobs |-> "open"]

Open(r)     == verdict[r] \in {"pending", "expired"}
Tell(r, v)  == verdict' = [verdict EXCEPT ![r] = v]
Click(j, s) == portal[j] = "open" /\ portal' = [portal EXCEPT ![j] = s]

Ask(r, j) ==
  /\ verdict[r] = "unasked"
  /\ about' = [about EXCEPT ![r] = j] /\ Tell(r, "pending")
  /\ UNCHANGED portal

Expire ==
  /\ \E late \in SUBSET {r \in Requests : verdict[r] = "pending"} :
       verdict' = [r \in Requests |-> IF r \in late THEN "expired" ELSE verdict[r]]
  /\ UNCHANGED <<about, portal>>

\* The answer is final, and the portal takes this answer or none; whether it did is
\* not what tells "auto_dispatched" from "approved", nor what a decline depends on.
Answer(r) ==
  /\ Open(r)
  /\ \/ /\ \E v \in {"auto_dispatched", "approved"} : Tell(r, v)
        /\ Click(about[r], "accepted") \/ UNCHANGED portal
     \/ /\ Tell(r, "declined")
        /\ Click(about[r], "declined") \/ UNCHANGED portal
  /\ UNCHANGED about

\* Two handlers meet on a request, or a restart cuts them off.
Disturb ==
  /\ \E hit \in SUBSET {r \in Requests : verdict[r] # "unasked"} :
       verdict' = [r \in Requests |-> IF r \in hit THEN "unknown" ELSE verdict[r]]
  /\ UNCHANGED <<about, portal>>

\* A disturbed request may be answered on the portal all the same.
Blind(r) ==
  /\ verdict[r] = "unknown"
  /\ \E s \in {"accepted", "declined"} : Click(about[r], s)
  /\ UNCHANGED <<about, verdict>>

Next ==
  \/ \E r \in Requests : \/ \E j \in Jobs : Ask(r, j)
                         \/ Answer(r) \/ Blind(r)
  \/ Expire \/ Disturb

Spec == Init /\ [][Next]_vars
=============================================================================
