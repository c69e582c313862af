----------------------------- MODULE MCScheduler -----------------------------
(* Values of Scheduler's constants for TLC. *)
EXTENDS Scheduler, TLC

CONSTANTS c1, f1, f2, f3

OneClient   == {c1}
OneFiber    == {f1}
TwoFibers   == {f1, f2}
ThreeFibers == {f1, f2, f3}
OneWorker   == 1 .. 1
FourWorkers == 1 .. 4
ClientAndWorkers == OneClient \cup Workers

\* Every task is submitted with the default priority, at the same time.
SamePriority == [t \in Fibers |-> 5]
SameTime     == [t \in Fibers |-> 0]

OnlyZero == {0}
AfterYieldOrHold == {"yield", "hold"}
Anything    == {"yield", "hold", "sleep", "stop", "throw"}
YieldOrStop == {"yield", "stop"}
HoldOrStop  == {"hold", "stop"}
HoldOrSleep == {"hold", "sleep", "stop"}
Symmetry    == Permutations(Fibers)
=============================================================================
