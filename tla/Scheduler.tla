------------------------------ MODULE Scheduler ------------------------------
(***************************************************************************)
(* The coroutine scheduler of sylar/scheduler.{h,cpp}.  Client threads (and *)
(* fibers) submit tasks to one bounded queue; the alloc thread deals them  *)
(* out round robin, a batch at a time; each worker thread starts, resumes, *)
(* wakes and notifies the fibers it was dealt, and never gives one back.   *)
(* A controller thread owns the scheduler: start(), stop(), ~Scheduler().  *)
(*                                                                         *)
(* A step is one access to what threads share (m_stop, m_count, a lock, a  *)
(* queue under its lock) or one context switch; what a worker does between *)
(* two of them touches only its own queues and is part of the step.        *)
(*                                                                         *)
(* Task and its fiber are one thing here: a Task owns its fiber, and the   *)
(* callers of the repository move their only reference into it.            *)
(***************************************************************************)
EXTENDS Fiber, Sequences, FiniteSets

CONSTANTS Clients,      \* threads outside the scheduler that call submit()
          Workers,      \* every worker thread that start() ever creates, 1 .. n
          ThreadCount,  \* m_thread_count
          MaxStarts,    \* bound: how often the controller calls start()
          TaskCap,      \* 10000 in submit()
          WorkerCap,    \* 100000 in AllocThread::run
          Batch,        \* 10, `int l = 10'
          Submitters,   \* the threads whose code calls submit()
          Priority,     \* Task::priority, after the clamp to 9
          Lasttime,     \* Task::lasttime, set by the constructor only
          NotifyOps,    \* what a fiber does first after notify() switched it in
          ResumeOps,    \* what a fiber does in a slice that resume() gave it
          Naps,         \* the arguments of Fiber::sleep
          MaxClock,     \* bound on now
          NoTask,       \* no task
          Free, Alloc   \* a lock nobody holds; the alloc thread as a lock owner

WorkerCount == ThreadCount * MaxStarts
Ops == {"yield", "hold", "sleep", "stop", "throw"}

ASSUME SchedulerAssumption ==
  /\ ThreadCount \in Nat /\ MaxStarts \in Nat
  /\ Workers = 1 .. WorkerCount
  /\ Threads = Clients \cup Workers
  /\ TaskCap \in Nat /\ WorkerCap \in Nat /\ Batch \in Nat \ {0}
  /\ Submitters \subseteq Threads
  /\ Priority \in [Fibers -> 0 .. 9] /\ Lasttime \in [Fibers -> Nat]
  /\ NotifyOps \subseteq Ops /\ ResumeOps \subseteq Ops
  /\ Naps \subseteq Nat /\ MaxClock \in Nat
  /\ NoTask \notin Fibers /\ NoTask # MainFiber
  /\ Free # Alloc /\ {Free, Alloc} \cap Threads = {}

VARIABLES
  m_stop, m_tasks, m_count,   \* Scheduler: switch, queue, its atomic size
  m_workers, starts, ctl,     \* m_workers.size(), calls of start(), the controller
  mutex,                      \* owner of Scheduler::m_mutex
  sub,                        \* [Threads -> task in submit(), past the m_stop test]
  apc, k, left,               \* AllocThread::run: control, k, and the batch's l
  wpc, wcount, wlock,         \* WokerThread: control, m_count, owner of m_mutex
  t_init, t_ready, t_sleep, t_hold, \* WokerThread: the four task queues
  visit, task,                \* the rest of the pass over t_hold; local `task'
  stage, owner                \* history: how far a task got, and with which worker

queueVars  == <<m_tasks, m_count, mutex>>
ctlVars    == <<m_stop, m_workers, starts, ctl>>
allocVars  == <<apc, k, left>>
readyVars  == <<t_ready, t_sleep, t_hold>>
localVars  == <<wpc, visit, task>>
ghostVars  == <<stage, owner>>
schedVars  == <<queueVars, ctlVars, allocVars, readyVars, localVars, ghostVars,
                sub, wcount, wlock, t_init>>
vars == <<fiberVars, schedVars>>

Stage == {"fresh", "submitting", "queued", "init", "ready", "running", "sleep",
          "hold", "done", "refused"}
Held  == {"init", "ready", "running", "sleep", "hold"}   \* dealt to a worker, not done

Elems(s) == {s[i] : i \in 1 .. Len(s)}

SharedTypeOK ==
  /\ m_stop \in BOOLEAN /\ m_tasks \in Seq(Fibers) /\ m_count \in Nat
  /\ m_workers \in 0 .. WorkerCount /\ starts \in 0 .. MaxStarts
  /\ ctl \in {"stopped", "starting", "started", "joining", "destroyed"}
  /\ mutex \in {Free, Alloc}
  /\ sub \in [Threads -> Fibers \cup {NoTask}]
  /\ apc \in {"off", "loop", "locked", "move", "exited"}
  /\ k \in 0 .. WorkerCount /\ left \in 0 .. Batch

WorkerTypeOK ==
  /\ wpc \in [Workers -> {"off", "loop", "drain", "wake", "pass", "notified",
                          "resumed", "exited"}]
  /\ wcount \in [Workers -> Nat]
  /\ wlock \in [Workers -> Workers \cup {Free, Alloc}]
  /\ task \in [Workers -> Fibers \cup {NoTask}]
  /\ t_init \in [Workers -> Seq(Fibers)]

SetTypeOK ==
  /\ t_ready \in [Workers -> SUBSET Fibers] /\ t_sleep \in [Workers -> SUBSET Fibers]
  /\ t_hold \in [Workers -> SUBSET Fibers] /\ visit \in [Workers -> SUBSET Fibers]

StageTypeOK == /\ stage \in [Fibers -> Stage]
               /\ owner \in [Fibers -> Workers \cup {Free}]

TypeOK == FiberTypeOK /\ SharedTypeOK /\ WorkerTypeOK /\ SetTypeOK /\ StageTypeOK

Init ==
  /\ FiberInit
  /\ m_stop = TRUE /\ m_tasks = <<>> /\ m_count = 0
  /\ m_workers = 0 /\ starts = 0 /\ ctl = "stopped"
  /\ mutex = Free
  /\ sub = [p \in Threads |-> NoTask]
  /\ apc = "off" /\ k = 0 /\ left = 0
  /\ wpc = [w \in Workers |-> "off"]
  /\ wcount = [w \in Workers |-> 0]
  /\ wlock = [w \in Workers |-> Free]
  /\ t_init = [w \in Workers |-> <<>>]
  /\ t_ready = [w \in Workers |-> {}] /\ t_sleep = [w \in Workers |-> {}]
  /\ t_hold = [w \in Workers |-> {}] /\ visit = [w \in Workers |-> {}]
  /\ task = [w \in Workers |-> NoTask]
  /\ stage = [t \in Fibers |-> "fresh"]
  /\ owner = [t \in Fibers |-> Free]

-----------------------------------------------------------------------------
(* Scheduler::submit, on thread p.  m_stop is read before the lock is taken. *)

\* The callers that can be about to call submit: a client while the scheduler
\* exists, a fiber while it executes.
MaySubmit(p) == /\ p \in Submitters /\ sub[p] = NoTask
                /\ IF p \in Clients THEN ctl # "destroyed" ELSE ~InMain(p)

\* When m_stop, the task is dropped with its fiber still INIT.
SubmitCheck(p, t) ==
  /\ MaySubmit(p) /\ stage[t] = "fresh"
  /\ IF m_stop
     THEN FiberDrop(p, t) /\ UNCHANGED <<sub, stage>>
     ELSE /\ sub' = [sub EXCEPT ![p] = t]
          /\ stage' = [stage EXCEPT ![t] = "submitting"]
          /\ UNCHANGED fiberVars
  /\ UNCHANGED <<queueVars, ctlVars, allocVars, readyVars, localVars, owner,
                 wcount, wlock, t_init>>

\* Mutated form of Fits: off by one.
FitsButOne == Len(m_tasks) + 1 < TaskCap
Fits == Len(m_tasks) < TaskCap

\* Under m_mutex: push, or destroy the fiber of a task that does not fit.
SubmitPush(p) ==
  LET t == sub[p] IN
  /\ t # NoTask /\ mutex = Free
  /\ sub' = [sub EXCEPT ![p] = NoTask]
  /\ IF Fits
     THEN /\ m_tasks' = Append(m_tasks, t)
          /\ m_count' = m_count + 1
          /\ stage' = [stage EXCEPT ![t] = "queued"]
          /\ UNCHANGED fiberVars
     ELSE /\ FiberDestroy(p, t)
          /\ stage' = [stage EXCEPT ![t] = "refused"]
          /\ UNCHANGED <<m_tasks, m_count>>
  /\ UNCHANGED <<mutex, ctlVars, allocVars, readyVars, localVars, owner,
                 wcount, wlock, t_init>>

-----------------------------------------------------------------------------
(* AllocThread::run.  `k' is the index of the worker after the one being dealt to. *)

AllocExit ==
  /\ apc = "loop" /\ m_stop /\ m_count = 0
  /\ apc' = "exited"
  /\ UNCHANGED <<fiberVars, queueVars, ctlVars, k, left, readyVars, localVars, ghostVars,
                 sub, wcount, wlock, t_init>>

\* Mutated form of NextWorker: the wrap-around test is off by one.
NextWorkerLate == IF k > m_workers THEN 0 ELSE k
NextWorker == IF k >= m_workers THEN 0 ELSE k

\* lock1, and the choice of the next worker.
AllocLock ==
  /\ apc = "loop" /\ (~m_stop \/ m_count > 0)
  /\ m_workers # 0 /\ mutex = Free
  /\ mutex' = Alloc
  /\ k' = NextWorker + 1
  /\ apc' = "locked"
  /\ UNCHANGED <<fiberVars, m_tasks, m_count, ctlVars, left, readyVars, localVars,
                 ghostVars, sub, wcount, wlock, t_init>>

\* Mutated form of HasRoom: <= for <.
HasRoomAtCap(w) == wcount[w] <= WorkerCap
HasRoom(w) == wcount[w] < WorkerCap

\* lock2, and the test of the worker's load.
AllocLockWorker ==
  /\ apc = "locked" /\ wlock[k] = Free
  /\ wlock' = [wlock EXCEPT ![k] = Alloc]
  /\ left' = IF HasRoom(k) THEN Batch ELSE 0
  /\ apc' = "move"
  /\ UNCHANGED <<fiberVars, queueVars, ctlVars, k, readyVars, localVars, ghostVars,
                 sub, wcount, t_init>>

\* Mutated form of CountAfterDeal: m_count-- is forgotten.
CountKept == m_count
CountAfterDeal == m_count - 1

\* One turn of the batch loop.
AllocMove ==
  /\ apc = "move" /\ left > 0 /\ m_tasks # <<>>
  /\ LET t == Head(m_tasks) IN
     /\ m_tasks' = Tail(m_tasks)
     /\ t_init' = [t_init EXCEPT ![k] = Append(@, t)]
     /\ wcount' = [wcount EXCEPT ![k] = @ + 1]
     /\ m_count' = CountAfterDeal
     /\ stage' = [stage EXCEPT ![t] = "init"]
     /\ owner' = [owner EXCEPT ![t] = k]
  /\ left' = left - 1
  /\ UNCHANGED <<fiberVars, mutex, ctlVars, apc, k, readyVars, localVars, sub, wlock>>

\* ~lock2, ~lock1.
AllocUnlock ==
  /\ apc = "move" /\ (left = 0 \/ m_tasks = <<>>)
  /\ mutex' = Free
  /\ wlock' = [wlock EXCEPT ![k] = Free]
  /\ left' = 0
  /\ apc' = "loop"
  /\ UNCHANGED <<fiberVars, m_tasks, m_count, ctlVars, k, readyVars, localVars, ghostVars,
                 sub, wcount, t_init>>

-----------------------------------------------------------------------------
(* WokerThread::run, on worker w. *)

At(w, pc) == wpc[w] = pc
Goto(w, pc) == wpc' = [wpc EXCEPT ![w] = pc]

\* Mutated form of MayLeave: the loop condition forgets the tasks under way.
MayLeaveAtOnce(w) == m_stop
MayLeave(w) == m_stop /\ wcount[w] = 0

\* The loop condition fails.
WorkerExit(w) ==
  /\ At(w, "loop") /\ MayLeave(w)
  /\ Goto(w, "exited")
  /\ UNCHANGED <<fiberVars, queueVars, ctlVars, allocVars, readyVars, visit, task,
                 ghostVars, sub, wcount, wlock, t_init>>

\* trylock succeeds ...
WorkerLock(w) ==
  /\ At(w, "loop") /\ wcount[w] > 0 /\ wlock[w] = Free
  /\ wlock' = [wlock EXCEPT ![w] = w]
  /\ Goto(w, "drain")
  /\ UNCHANGED <<fiberVars, queueVars, ctlVars, allocVars, readyVars, visit, task,
                 ghostVars, sub, wcount, t_init>>

\* ... or fails, and this turn does without the new tasks.
WorkerLockFails(w) ==
  /\ At(w, "loop") /\ wcount[w] > 0 /\ wlock[w] # Free
  /\ Goto(w, "wake")
  /\ UNCHANGED <<fiberVars, queueVars, ctlVars, allocVars, readyVars, visit, task,
                 ghostVars, sub, wcount, wlock, t_init>>

\* One new task: start its fiber.
WorkerDrain(w) ==
  /\ At(w, "drain") /\ t_init[w] # <<>>
  /\ LET t == Head(t_init[w]) IN
     /\ FiberStart(w, t)
     /\ t_init' = [t_init EXCEPT ![w] = Tail(@)]
     /\ t_ready' = [t_ready EXCEPT ![w] = @ \cup {t}]
     /\ stage' = [stage EXCEPT ![t] = "ready"]
  /\ UNCHANGED <<queueVars, ctlVars, allocVars, t_sleep, t_hold, localVars, owner,
                 sub, wcount, wlock>>

WorkerUnlock(w) ==
  /\ At(w, "drain") /\ t_init[w] = <<>>
  /\ wlock' = [wlock EXCEPT ![w] = Free]
  /\ Goto(w, "wake")
  /\ UNCHANGED <<fiberVars, queueVars, ctlVars, allocVars, readyVars, visit, task,
                 ghostVars, sub, wcount, t_init>>

\* The sleepers whose time has passed are woken; t_sleep is ordered by waketime,
\* so taking from its top until one is not due takes exactly these.
\* Mutated form of Due: the comparison is reversed.
NotDue(w) == {t \in t_sleep[w] : waketime[t] > now}
Due(w) == {t \in t_sleep[w] : waketime[t] < now}

\* awake() of every due sleeper, then the pass over t_hold begins.
WorkerWake(w) ==
  /\ At(w, "wake")
  /\ Asserting(InMain(w) /\ \A t \in Due(w) : m_state[t] = "SLEEP", "awake",
               /\ m_state' = [t \in Fibers |-> IF t \in Due(w) THEN "READY" ELSE m_state[t]]
               /\ UNCHANGED <<waketime, this_fiber>>)
  /\ t_ready' = [t_ready EXCEPT ![w] = @ \cup Due(w)]
  /\ t_sleep' = [t_sleep EXCEPT ![w] = @ \ Due(w)]
  /\ stage' = [t \in Fibers |-> IF t \in Due(w) THEN "ready" ELSE stage[t]]
  /\ visit' = [visit EXCEPT ![w] = t_hold[w]]
  /\ Goto(w, "pass")
  /\ UNCHANGED <<queueVars, ctlVars, allocVars, t_hold, task, owner, sub,
                 wcount, wlock, t_init>>

\* Every task in t_hold is switched into, once a pass ...
WorkerNotify(w, t) ==
  /\ At(w, "pass") /\ t \in visit[w]
  /\ FiberNotify(w, t)
  /\ visit' = [visit EXCEPT ![w] = @ \ {t}]
  /\ task' = [task EXCEPT ![w] = t]
  /\ Goto(w, "notified")
  /\ UNCHANGED <<queueVars, ctlVars, allocVars, readyVars, ghostVars, sub,
                 wcount, wlock, t_init>>

\* Mutated form of CameBackReady: no test.
CameBack(t) == TRUE
CameBackReady(t) == m_state[t] = "READY"
\* Mutated form of HoldErase: erase() is forgotten.
HoldKeep(w, t) == UNCHANGED t_hold
HoldErase(w, t) == t_hold' = [t_hold EXCEPT ![w] = @ \ {t}]

\* ... and leaves t_hold only when it comes back READY.
AfterNotify(w) ==
  LET t == task[w] IN
  /\ At(w, "notified") /\ InMain(w)
  /\ IF CameBackReady(t)
     THEN /\ t_ready' = [t_ready EXCEPT ![w] = @ \cup {t}]
          /\ HoldErase(w, t)
          /\ stage' = [stage EXCEPT ![t] = "ready"]
     ELSE UNCHANGED <<t_ready, t_hold, stage>>
  /\ task' = [task EXCEPT ![w] = NoTask]
  /\ Goto(w, "pass")
  /\ UNCHANGED <<fiberVars, queueVars, ctlVars, allocVars, t_sleep, visit, owner, sub,
                 wcount, wlock, t_init>>

\* task_cmp: with one priority the oldest lasttime is on top; between different priorities the
\* comparator tosses a coin, which leaves a heap in any order, so any task may be.
OnTop(w, t) == (\A u \in Fibers : Priority[u] = Priority[t])
                 => \A u \in t_ready[w] : Lasttime[t] <= Lasttime[u]

\* The pass is over and something is ready: pop the top and resume it.
WorkerRun(w, t) ==
  /\ At(w, "pass") /\ visit[w] = {} /\ t \in t_ready[w] /\ OnTop(w, t)
  /\ FiberResume(w, t)
  /\ t_ready' = [t_ready EXCEPT ![w] = @ \ {t}]
  /\ task' = [task EXCEPT ![w] = t]
  /\ stage' = [stage EXCEPT ![t] = "running"]
  /\ Goto(w, "resumed")
  /\ UNCHANGED <<queueVars, ctlVars, allocVars, t_sleep, t_hold, visit, owner, sub,
                 wcount, wlock, t_init>>

WorkerNothingReady(w) ==
  /\ At(w, "pass") /\ visit[w] = {} /\ t_ready[w] = {}
  /\ Goto(w, "loop")
  /\ UNCHANGED <<fiberVars, queueVars, ctlVars, allocVars, readyVars, visit, task,
                 ghostVars, sub, wcount, wlock, t_init>>

\* Mutated form of FiberOver: the SLEEP branch is forgotten.
FiberOverOrAsleep(s) == s \notin {"HOLD", "READY"}
FiberOver(s) == s \notin {"HOLD", "SLEEP", "READY"}

\* The stage of a task whose fiber came back from resume() in state s.
QueueFor == [HOLD |-> "hold", SLEEP |-> "sleep", READY |-> "ready"]
StageAfter(s) == IF s \in DOMAIN QueueFor THEN QueueFor[s] ELSE "done"

\* Where a task goes when resume() returns, by the state its fiber came back in.
AfterResume(w) ==
  LET t == task[w]
      Into(q, here) == [q EXCEPT ![w] = IF here THEN @ \cup {t} ELSE @]
  IN
  /\ At(w, "resumed") /\ InMain(w)
  /\ t_hold'  = Into(t_hold, m_state[t] = "HOLD")
  /\ t_sleep' = Into(t_sleep, m_state[t] = "SLEEP")
  /\ t_ready' = Into(t_ready, m_state[t] = "READY")
  /\ IF FiberOver(m_state[t])
     THEN wcount' = [wcount EXCEPT ![w] = @ - 1] /\ FiberDrop(w, t)
     ELSE UNCHANGED <<wcount, fiberVars>>
  /\ stage' = [stage EXCEPT ![t] = StageAfter(m_state[t])]
  /\ task' = [task EXCEPT ![w] = NoTask]
  /\ Goto(w, "loop")
  /\ UNCHANGED <<queueVars, ctlVars, allocVars, visit, owner, sub, wlock, t_init>>

-----------------------------------------------------------------------------
(* The code of the fiber that worker w is executing: it runs until it switches out. *)

Slice(w, op) ==
  /\ wpc[w] \in {"notified", "resumed"} /\ ~InMain(w) /\ sub[w] = NoTask
  /\ op \in (IF wpc[w] = "notified" THEN NotifyOps ELSE ResumeOps)
  /\ \/ op = "yield" /\ FiberYield(w)
     \/ op = "hold" /\ FiberHold(w)
     \/ op = "sleep" /\ \E t \in Naps : now + t < MaxClock /\ FiberSleep(w, t)
     \/ op = "stop" /\ FiberStop(w)
     \/ op = "throw" /\ FiberThrow(w)
  /\ UNCHANGED schedVars

Tick == /\ now < MaxClock
        /\ now' = now + 1
        /\ UNCHANGED <<fiberState, abort, schedVars>>

-----------------------------------------------------------------------------
(* Scheduler::start, stop and ~Scheduler, called by the thread that owns it. *)

StartBegin ==
  /\ ctl = "stopped" /\ m_stop /\ starts < MaxStarts
  /\ m_stop' = FALSE /\ starts' = starts + 1 /\ ctl' = "starting"
  /\ UNCHANGED <<fiberVars, queueVars, m_workers, allocVars, readyVars, localVars,
                 ghostVars, sub, wcount, wlock, t_init>>

\* A new worker is appended; those of an earlier start() stay in m_workers.
StartWorker ==
  /\ ctl = "starting" /\ m_workers < starts * ThreadCount
  /\ m_workers' = m_workers + 1
  /\ Goto(m_workers + 1, "loop")
  /\ UNCHANGED <<fiberVars, queueVars, m_stop, starts, ctl, allocVars, readyVars, visit,
                 task, ghostVars, sub, wcount, wlock, t_init>>

\* m_tasks is replaced, without m_mutex and without m_count: what it held is dropped,
\* with fibers that are INIT.
StartAlloc ==
  /\ ctl = "starting" /\ m_workers = starts * ThreadCount
  /\ IF m_tasks = <<>>
     THEN apc' = "loop" /\ k' = 0 /\ ctl' = "started" /\ UNCHANGED abort
     ELSE abort' = "~Fiber" /\ UNCHANGED <<apc, k, ctl>>
  /\ UNCHANGED <<fiberState, now, queueVars, m_stop, m_workers, starts, left, readyVars,
                 localVars, ghostVars, sub, wcount, wlock, t_init>>

StopBegin ==
  /\ ctl = "started"
  /\ m_stop' = TRUE /\ ctl' = "joining"
  /\ UNCHANGED <<fiberVars, queueVars, m_workers, starts, allocVars, readyVars, localVars,
                 ghostVars, sub, wcount, wlock, t_init>>

\* Every worker and the alloc thread are joined.
StopJoin ==
  /\ ctl = "joining" /\ apc = "exited"
  /\ \A w \in 1 .. m_workers : At(w, "exited")
  /\ ctl' = "stopped"
  /\ UNCHANGED <<fiberVars, queueVars, m_stop, m_workers, starts, allocVars, readyVars,
                 localVars, ghostVars, sub, wcount, wlock, t_init>>

\* ~Scheduler after stop(), when no client is inside submit: the queues go, with
\* whatever fibers they still hold.
InWorker(w) == Elems(t_init[w]) \cup t_ready[w] \cup t_sleep[w] \cup t_hold[w]
Leftover == Elems(m_tasks) \cup UNION {InWorker(w) : w \in Workers}
Destruct ==
  /\ ctl = "stopped" /\ starts > 0 /\ \A p \in Clients : sub[p] = NoTask
  /\ IF \A t \in Leftover : m_state[t] \in {"DESTROY", "EXCEPT"}
     THEN ctl' = "destroyed" /\ UNCHANGED abort
     ELSE abort' = "~Fiber" /\ UNCHANGED ctl
  /\ UNCHANGED <<fiberState, now, queueVars, m_stop, m_workers, starts, allocVars,
                 readyVars, localVars, ghostVars, sub, wcount, wlock, t_init>>

Submit(p) == SubmitPush(p) \/ \E t \in Fibers : SubmitCheck(p, t)
AllocStep == AllocExit \/ AllocLock \/ AllocLockWorker \/ AllocMove \/ AllocUnlock
WorkerStep(w) ==
  \/ WorkerExit(w) \/ WorkerLock(w) \/ WorkerLockFails(w) \/ WorkerDrain(w)
  \/ WorkerUnlock(w) \/ WorkerWake(w) \/ AfterNotify(w) \/ WorkerNothingReady(w)
  \/ AfterResume(w)
  \/ \E t \in Fibers : WorkerNotify(w, t) \/ WorkerRun(w, t)
OwnerStep == StartBegin \/ StartWorker \/ StartAlloc \/ StopBegin \/ StopJoin \/ Destruct

\* The scheduler is gone, or the process has died.
Over == (ctl = "destroyed" \/ ~Alive) /\ UNCHANGED vars

Next == \/ /\ Alive
           /\ \/ \E p \in Threads : Submit(p)
              \/ AllocStep
              \/ \E w \in Workers : WorkerStep(w) \/ \E op \in Ops : Slice(w, op)
              \/ Tick
              \/ OwnerStep
        \/ Over

Spec == Init /\ [][Next]_vars

-----------------------------------------------------------------------------
(* Safety. *)

Dealt(w) == {t \in Fibers : stage[t] \in Held /\ owner[t] = w}
OwnedAt(w, s) == {t \in Fibers : stage[t] = s /\ owner[t] = w}
NoRepeats(s) == \A i, j \in 1 .. Len(s) : s[i] = s[j] => i = j

\* A submitted task is in exactly one place: its submitter, m_tasks, or one queue of
\* one worker; no queue holds it twice and no two workers share it, whatever the
\* interleaving of submitters, alloc thread and workers (scheduler.cpp 26-103, 124-146).
PlacedOnce ==
  /\ NoRepeats(m_tasks)
  /\ Elems(m_tasks) = {t \in Fibers : stage[t] = "queued"}
  /\ \A p, q \in Threads : sub[p] = sub[q] /\ sub[p] # NoTask => p = q
  /\ {t \in Fibers : stage[t] = "submitting"} = {sub[p] : p \in Threads} \ {NoTask}
  /\ \A w \in Workers :
       /\ NoRepeats(t_init[w])
       /\ Elems(t_init[w]) = OwnedAt(w, "init")
       /\ t_ready[w] = OwnedAt(w, "ready")
       /\ t_sleep[w] = OwnedAt(w, "sleep")
       /\ t_hold[w] = OwnedAt(w, "hold")
       /\ OwnedAt(w, "running") = IF At(w, "resumed") THEN {task[w]} ELSE {}

\* The atomic counters, read without the locks by the two loop conditions, count what
\* they stand for: m_count the queue, a worker's m_count every task it was dealt and
\* has not finished, in whichever queue it is (scheduler.cpp 18, 100, 118, 141, 142, 264).
Accounting == /\ m_count = Len(m_tasks)
              /\ \A w \in Workers : wcount[w] = Cardinality(Dealt(w))

\* The limits of submit() and of the alloc thread hold: a worker is overshot by at most
\* one batch less one, since its load is tested once a batch (scheduler.cpp 133, 261).
Bounded == /\ Len(m_tasks) <= TaskCap
           /\ \A w \in Workers : wcount[w] <= WorkerCap + Batch - 1

\* A worker thread that has left its loop abandons no fiber that ever ran: all it can
\* leave behind is tasks that were dealt to it and never started (scheduler.cpp 18).
ExitedClean == \A w \in Workers : At(w, "exited") => Dealt(w) = OwnedAt(w, "init")

\* A fiber is EXEC exactly while one thread executes it: no two workers are ever on the
\* same stack, and no fiber is left EXEC behind a thread's back (fiber.cpp 160-256).
OneRunner ==
  Alive => /\ \A p, q \in Threads : this_fiber[p] = this_fiber[q] /\ ~InMain(p) => p = q
           /\ \A t \in Fibers : m_state[t] = "EXEC" <=> \E p \in Threads : this_fiber[p] = t

\* The state of a fiber agrees with the queue its task is in, so that the next call the
\* worker makes on it passes the assertion of that call (fiber.cpp 155, 168, 213, 253).
\* One thread executes it at most.
StateMatchesQueue ==
  /\ OneRunner
  /\ Alive => \A t \in Fibers :
       CASE stage[t] \in {"fresh", "submitting", "queued", "init"} -> m_state[t] = "INIT"
         [] stage[t] = "ready" -> m_state[t] = "READY"
         [] stage[t] = "sleep" -> m_state[t] = "SLEEP"
         [] stage[t] = "hold" ->
              m_state[t] \in (IF task[owner[t]] # t THEN {"HOLD"}
                              ELSE IF InMain(owner[t]) THEN {"HOLD", "READY"} ELSE {"EXEC"})
         [] stage[t] = "running" ->
              m_state[t] \in (IF InMain(owner[t]) THEN {"HOLD", "READY", "SLEEP", "DESTROY"}
                              ELSE {"EXEC"})
         [] OTHER -> m_state[t] = "DESTROY"

\* No call that the worker loop makes on a fiber, and no switch of a fiber back to the
\* loop, fails its assertion, as long as a notified fiber first yields or holds again.
LoopAssertsHold == abort \notin {"start", "resume", "yield", "hold", "notify", "stop",
                                "sleep", "awake"}

\* While the scheduler is started no fiber is dropped before its end, on any path: a
\* worker drops a fiber only when it is over, a full queue only after destroying it
\* (fiber.cpp 136, scheduler.cpp 98-102, 268).
NoEarlyDrop == abort = "~Fiber" => ctl # "started"
AssertionsHold == LoopAssertsHold /\ NoEarlyDrop

\* Every step is a step, or a stutter, of the contract in TaskPool.
Status == [t \in Fibers |-> CASE stage[t] \in {"fresh", "submitting"} -> "new"
                               [] stage[t] = "queued" -> "waiting"
                               [] stage[t] \in Held -> "dealt"
                               [] OTHER -> stage[t]]
Pool == INSTANCE TaskPool WITH Tasks <- Fibers, Nobody <- Free, QueueCap <- TaskCap,
                               LoadCap <- WorkerCap + Batch - 1,
                               status <- Status, worker <- owner
KeepsContract == Pool!Spec

-----------------------------------------------------------------------------
(* Liveness. *)

\* The kernel runs every thread, and every critical section that a mutex guards ends, so
\* a thread that waits for one gets it; time passes.  Nobody owes a client, or the owner
\* of the scheduler, the call of submit(), start() or stop().
ThreadFairness ==
  /\ WF_vars(Alive /\ AllocStep)
  /\ SF_vars(Alive /\ AllocLockWorker)
  /\ \A p \in Threads : SF_vars(Alive /\ SubmitPush(p))
  /\ \A w \in Workers : WF_vars(Alive /\ WorkerStep(w))
  /\ WF_vars(Alive /\ Tick)
  /\ WF_vars(Alive /\ (StartWorker \/ StartAlloc \/ StopJoin))

\* A fiber's code gets somewhere between two switches.
SliceFairness == \A w \in Workers : WF_vars(Alive /\ \E op \in Ops : Slice(w, op))

\* A fiber does not yield, sleep or hold for ever: given slices again and again it ends,
\* and notified again and again it yields.
FiberFairness == \A t \in Fibers :
  /\ SF_vars(Alive /\ \E w \in Workers : this_fiber[w] = t /\ Slice(w, "stop"))
  /\ SF_vars(Alive /\ \E w \in Workers : /\ this_fiber[w] = t /\ At(w, "notified")
                                        /\ Slice(w, "yield"))

FairSpec == Spec /\ ThreadFairness /\ SliceFairness /\ FiberFairness

\* trylock may fail on every turn if the alloc thread holds the worker's lock each time.
\* Nothing in the code rules that out; the liveness properties assume it does not go on
\* for ever.
TrylockSometimesWins ==
  \A w \in Workers : []<>(At(w, "drain") \/ wcount[w] = 0 \/ At(w, "exited"))

\* A task that m_tasks accepted is run to the end of its fiber, unless the scheduler is
\* stopped first (scheduler.cpp 18-104, 118-147).
Served == TrylockSometimesWins =>
            \A t \in Fibers : (stage[t] = "queued") ~> (stage[t] = "done" \/ m_stop \/ ~Alive)

\* A task dealt to a worker that is still in its loop is run to its end even if stop()
\* is called meanwhile (scheduler.cpp 18, 141).
StopFinishesDealt == TrylockSometimesWins =>
  \A t \in Fibers : (\E w \in Workers : t \in Dealt(w) /\ ~At(w, "exited"))
                        ~> (stage[t] = "done" \/ ~Alive)

\* stop() returns: every worker and the alloc thread leave their loops, however the last
\* submissions and deals fall around it (scheduler.cpp 18, 118, 245-253).
StopReturns == TrylockSometimesWins => (ctl = "joining") ~> (ctl = "stopped" \/ ~Alive)
=============================================================================
