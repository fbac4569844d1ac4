--------------------------- MODULE MCOutboundCall ---------------------------
(* The conversations TLC chooses from in the runs of OutboundCall. *)
EXTENDS OutboundCall, TLC

CONSTANTS c1, c2, w1, w2

talk(ends, said, decided) == [ends |-> ends, said |-> said, decided |-> decided]

unanswered == talk("no_answer", "nothing", "nothing")
brushOff   == talk("no_answer", "optOut", "nothing")   \* a hang-up within 30 s
failed     == talk("failed", "nothing", "nothing")
dropped    == talk("completed", "nothing", "nothing")  \* died before the pitch was decided
closed     == talk("completed", "close", "nothing")    \* the agent reached its close
won        == talk("completed", "nothing", "accepted")
optOut     == talk("completed", "optOut", "declined")

OneCall  == {c1}
TwoCalls == {c1, c2}
OneWorker  == {w1}
OtherWorker == {w2}
TwoWorkers == {w1, w2}

AllTalks  == {unanswered, brushOff, failed, dropped, closed, won, optOut}
CoreTalks == {unanswered, dropped, won}
FewTalks  == {unanswered, dropped}

\* Bounds: one upset of a row -- a restart, a requeue or an outdated update --
\* with one handler at work after it; and no row past its fifteen minutes, which
\* the dispatcher leaves alone.
Upsets(c) == crashes + requeues + stale[c]
OneBusy   == \E w \in Workers : \A v \in Workers \ {w} : Idle(v)
OneUpset  == \A c \in Calls : /\ Upsets(c) <= 1 /\ (Upsets(c) = 1 => OneBusy)
                              /\ row[c].status # "none" => row[c].fresh

Workmen == Permutations(Workers)

\* The liveness run tells no states apart by what only the other properties count:
\* no guard reads these histories, so states that differ in them behave alike.
Unhistoried == <<row, line, snap, pend, hook, stale, crashes, requeues>>
=============================================================================
