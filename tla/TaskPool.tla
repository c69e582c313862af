------------------------------ MODULE TaskPool ------------------------------
(***************************************************************************)
(* What the scheduler promises its callers about a submitted task, with no *)
(* queue, lock or thread in sight: it is refused only when the pool is     *)
(* full; otherwise it is dealt to exactly one worker, which keeps it until *)
(* its fiber is over.  A task is never lost, duplicated or handed on.      *)
(***************************************************************************)
EXTENDS Naturals, FiniteSets

CONSTANTS Tasks, Workers,
          QueueCap,  \* how many tasks may wait for a worker
          LoadCap,   \* how many unfinished tasks a worker may have
          Nobody     \* the worker of a task that has none

VARIABLES status,    \* [Tasks -> {"new", "waiting", "dealt", "done", "refused"}]
          worker     \* [Tasks -> Workers or Nobody]

poolVars == <<status, worker>>

Waiting == {t \in Tasks : status[t] = "waiting"}
Load(w) == {t \in Tasks : status[t] = "dealt" /\ worker[t] = w}

Init == /\ status = [t \in Tasks |-> "new"]
        /\ worker = [t \in Tasks |-> Nobody]

Accept(t) == /\ status[t] = "new" /\ Cardinality(Waiting) < QueueCap
             /\ status' = [status EXCEPT ![t] = "waiting"]
             /\ UNCHANGED worker

Refuse(t) == /\ status[t] = "new" /\ Cardinality(Waiting) >= QueueCap
             /\ status' = [status EXCEPT ![t] = "refused"]
             /\ UNCHANGED worker

Deal(t, w) == /\ status[t] = "waiting" /\ Cardinality(Load(w)) < LoadCap
              /\ status' = [status EXCEPT ![t] = "dealt"]
              /\ worker' = [worker EXCEPT ![t] = w]

Finish(t) == /\ status[t] = "dealt"
             /\ status' = [status EXCEPT ![t] = "done"]
             /\ UNCHANGED worker

Next == \E t \in Tasks : \/ Accept(t) \/ Refuse(t) \/ Finish(t)
                         \/ \E w \in Workers : Deal(t, w)

Spec == Init /\ [][Next]_poolVars
=============================================================================
