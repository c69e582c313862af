----------------------------- MODULE MCIOManager -----------------------------
(* Values of IOManager's constants for TLC. *)
EXTENDS IOManager, TLC

CONSTANTS a1, a2, c1, c2, m1, w1, w2

OneApp       == {a1}
TwoApps      == {a1, a2}
TwoCallbacks == {c1, c2}
OneWorker    == {w1}
TwoWorkers   == {w1, w2}
OneClient    == {m1}
JustRead     == {"READ"}
ReadOrError  == {"READ", "ERR"}
ReadOrWrite  == {"READ", "WRITE"}
Nothing      == {}

\* One fd in the initial table, or one for which it must grow.
OneFd        == {1}
OneFarFd     == {2}

\* What fibers and clients do: fibers make n calls of F, clients m calls of C.
Calling(n, m) == [t \in Tasks \cup Clients |-> IF t \in Apps THEN n ELSE IF t \in Clients THEN m ELSE 0]
Making(F, C)  == [t \in Tasks \cup Clients |-> IF t \in Clients THEN C ELSE F]
OneCall       == Calling(1, 0)
TwoCalls      == Calling(2, 0)
ThreeAndOne   == Calling(3, 1)
OnlyAdd       == Making({"add"}, {})
AddOrTake     == Making({"add", "cancel", "del"}, {})
AddOrCancel   == Making({"add", "cancel", "cancelAll"}, {"add", "cancelAll"})
Symmetry      == Permutations(Callbacks) \cup Permutations(Workers)

-----------------------------------------------------------------------------
(* What assertions of the repository say that the code does not do. *)

\* SYLAR_ASSERT(events & event) in triggerEvent: only armed events are triggered.
TriggersOnlyArmed == abort # "triggerEvent"

\* SYLAR_ASSERT(!event_ctx.scheduler && !event_ctx.fiber) in addEvent: the context of an
\* event that is not armed is empty.
DisarmedIsEmpty == abort # "addEvent.context"
=============================================================================
