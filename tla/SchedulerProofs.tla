--------------------------- MODULE SchedulerProofs ---------------------------
(***************************************************************************)
(* Scheduler's safety properties for every number of clients, workers,     *)
(* tasks and starts, and every value of the caps: no task is lost; the     *)
(* states of fibers agree with the queues their tasks are in, no assertion *)
(* of a call on them fails, and TaskPool's promises are kept.              *)
(***************************************************************************)
EXTENDS Scheduler, SequenceTheorems, FiniteSetTheorems, FunctionTheorems, TLAPS

(***************************************************************************)
(* The queues: what Append and Tail do to the elements of a sequence that  *)
(* holds nothing twice.                                                    *)
(***************************************************************************)
\* Pushing a new element.
LEMMA PushLemma ==
  ASSUME NEW S, NEW s \in Seq(S), NEW e \in S, e \notin Elems(s), NoRepeats(s)
  PROVE  /\ Append(s, e) \in Seq(S) /\ Len(Append(s, e)) = Len(s) + 1
         /\ Elems(Append(s, e)) = Elems(s) \cup {e}
         /\ NoRepeats(Append(s, e))
<1>1. /\ Append(s, e) \in Seq(S) /\ Len(Append(s, e)) = Len(s) + 1 /\ Len(s) \in Nat
      /\ \A i \in 1 .. Len(s) : Append(s, e)[i] = s[i]
      /\ Append(s, e)[Len(s) + 1] = e
  OBVIOUS
<1>2. Elems(Append(s, e)) = Elems(s) \cup {e}
  BY <1>1 DEF Elems
<1>3. NoRepeats(Append(s, e))
  BY <1>1 DEF NoRepeats, Elems
<1> QED BY <1>1, <1>2, <1>3

\* Popping the head.
LEMMA PopLemma ==
  ASSUME NEW S, NEW s \in Seq(S), s # <<>>, NoRepeats(s)
  PROVE  /\ Head(s) \in S /\ Head(s) \in Elems(s)
         /\ Tail(s) \in Seq(S) /\ Len(Tail(s)) = Len(s) - 1 /\ Len(s) \in Nat \ {0}
         /\ Elems(Tail(s)) = Elems(s) \ {Head(s)}
         /\ NoRepeats(Tail(s))
<1>1. /\ Len(s) \in Nat \ {0} /\ Head(s) = s[1] /\ Head(s) \in S
      /\ Tail(s) \in Seq(S) /\ Len(Tail(s)) = Len(s) - 1
      /\ \A i \in 1 .. Len(Tail(s)) : Tail(s)[i] = s[i + 1]
  BY HeadTailProperties, EmptySeq
<1>2. Head(s) \in Elems(s)
  BY <1>1 DEF Elems
<1>3. NoRepeats(Tail(s))
  BY <1>1 DEF NoRepeats
<1>4. Elems(Tail(s)) \subseteq Elems(s) \ {Head(s)}
  BY <1>1 DEF NoRepeats, Elems
<1>5. Elems(s) \ {Head(s)} \subseteq Elems(Tail(s))
  <2> SUFFICES ASSUME NEW i \in 1 .. Len(s), s[i] # Head(s) PROVE s[i] \in Elems(Tail(s))
    BY DEF Elems
  <2>1. i - 1 \in 1 .. Len(Tail(s)) /\ Tail(s)[i - 1] = s[i]
    BY <1>1
  <2> QED BY <2>1 DEF Elems
<1> QED BY <1>1, <1>2, <1>3, <1>4, <1>5

\* A queue of tasks holds tasks only.
LEMMA QueueElems ==
  ASSUME NEW S, NEW s \in Seq(S) PROVE Elems(s) \subseteq S
BY ElementOfSeq DEF Elems

\* The empty queue.
LEMMA EmptyQueue == Elems(<<>>) = {} /\ NoRepeats(<<>>)
BY DEF Elems, NoRepeats

(***************************************************************************)
(* The inductive invariant.  Its parts say who holds which lock, which     *)
(* control points a worker's local variables belong to, and where every    *)
(* task is; PlacedOnce, Accounting and ExitedClean follow from them.       *)
(***************************************************************************)
Locks ==
  /\ mutex = Alloc <=> apc \in {"locked", "move"}
  /\ apc \in {"locked", "move"} => k \in 1 .. m_workers
  /\ \A w \in Workers : /\ wlock[w] = Alloc <=> apc = "move" /\ k = w
                        /\ wlock[w] \in Workers <=> At(w, "drain")

Control ==
  \A w \in Workers :
    /\ At(w, "off") <=> w > m_workers
    /\ task[w] # NoTask <=> wpc[w] \in {"notified", "resumed"}
    /\ visit[w] \subseteq t_hold[w]
    /\ At(w, "notified") => task[w] \in t_hold[w] /\ task[w] \notin visit[w]
    /\ visit[w] # {} => wpc[w] \in {"pass", "notified"}
    /\ wpc[w] \in {"off", "exited"} => t_ready[w] = {} /\ t_sleep[w] = {} /\ t_hold[w] = {}

Submitting ==
  /\ \A p, q \in Threads : sub[p] = sub[q] /\ sub[p] # NoTask => p = q
  /\ \A t \in Fibers : stage[t] = "submitting" <=> \E p \in Threads : sub[p] = t

Queue ==
  /\ NoRepeats(m_tasks)
  /\ \A t \in Fibers : t \in Elems(m_tasks) <=> stage[t] = "queued"
  /\ m_count = Len(m_tasks)
  /\ Len(m_tasks) <= TaskCap

Places ==
  \A w \in Workers :
    /\ NoRepeats(t_init[w])
    /\ \A t \in Fibers :
         /\ t \in Elems(t_init[w]) <=> stage[t] = "init" /\ owner[t] = w
         /\ t \in t_ready[w] <=> stage[t] = "ready" /\ owner[t] = w
         /\ t \in t_sleep[w] <=> stage[t] = "sleep" /\ owner[t] = w
         /\ t \in t_hold[w] <=> stage[t] = "hold" /\ owner[t] = w
         /\ At(w, "resumed") /\ task[w] = t <=> stage[t] = "running" /\ owner[t] = w

Load ==
  /\ left > 0 => apc = "move" /\ wcount[k] + left <= WorkerCap + Batch - 1
  /\ \A w \in Workers : /\ IsFiniteSet(Dealt(w))
                        /\ wcount[w] = Cardinality(Dealt(w))
                        /\ wcount[w] <= WorkerCap + Batch - 1

\* The alloc thread is not running while there is none.
Owner == ctl \in {"stopped", "starting"} => apc \in {"off", "exited"}

IInv == TypeOK /\ Owner /\ Locks /\ Control /\ Submitting /\ Queue /\ Places /\ Load

(***************************************************************************)
(* What the proofs use of the constants, and the steps that deal nothing.  *)
(***************************************************************************)
\* Multiplication, for the workers that a number of starts can make.
LEMMA TimesNat ==
  ASSUME NEW a \in Nat, NEW b \in Nat PROVE a * b \in Nat
OBVIOUS

\* The same number of workers a start, over more starts, is no fewer workers.
LEMMA TimesMonotone ==
  ASSUME NEW a \in Nat, NEW b \in Nat, NEW c \in Nat, a <= b PROVE a * c <= b * c
<1>1. b - a \in Nat /\ b * c = a * c + (b - a) * c
  OBVIOUS
<1>2. a * c \in Nat /\ b * c \in Nat /\ (b - a) * c \in Nat
  BY <1>1, TimesNat
<1> QED BY <1>1, <1>2

\* What the proofs use of the constants.
LEMMA Constants ==
  /\ WorkerCount \in Nat /\ Workers = 1 .. WorkerCount /\ Threads = Clients \cup Workers
  /\ MaxStarts \in Nat /\ ThreadCount \in Nat
  /\ TaskCap \in Nat /\ WorkerCap \in Nat /\ Batch \in Nat \ {0}
  /\ NoTask \notin Fibers /\ Free # Alloc /\ Free \notin Workers /\ Alloc \notin Workers
  /\ Naps \subseteq Nat
BY SchedulerAssumption DEF WorkerCount

\* Each part of the invariant is about a few variables: a step that leaves them alone
\* keeps it.  Here, the types of the fibers.
LEMMA FiberTypeOKFrame ==
  ASSUME FiberTypeOK, UNCHANGED <<fiberVars>> PROVE FiberTypeOK'
BY DEF FiberTypeOK, fiberVars

\* The types of the queue, the controls and the alloc thread.
LEMMA SharedTypeOKFrame ==
  ASSUME SharedTypeOK, UNCHANGED <<queueVars, ctlVars, allocVars, sub>> PROVE SharedTypeOK'
BY DEF SharedTypeOK, queueVars, ctlVars, allocVars

\* The types of the workers' own variables.
LEMMA WorkerTypeOKFrame ==
  ASSUME WorkerTypeOK, UNCHANGED <<wpc, wcount, wlock, task, t_init>> PROVE WorkerTypeOK'
BY DEF WorkerTypeOK

\* The types of the sets of tasks.
LEMMA SetTypeOKFrame ==
  ASSUME SetTypeOK, UNCHANGED <<readyVars, visit>> PROVE SetTypeOK'
BY DEF SetTypeOK, readyVars

\* The types of where each task is.
LEMMA StageTypeOKFrame ==
  ASSUME StageTypeOK, UNCHANGED <<ghostVars>> PROVE StageTypeOK'
BY DEF StageTypeOK, ghostVars

\* When there is no alloc thread.
LEMMA OwnerFrame ==
  ASSUME Owner, UNCHANGED <<ctl, apc>> PROVE Owner'
BY DEF Owner

\* Who holds which lock.
LEMMA LocksFrame ==
  ASSUME Locks, UNCHANGED <<mutex, apc, k, m_workers, wlock, wpc>> PROVE Locks'
BY DEF Locks, At

\* Which control points the local variables belong to.
LEMMA ControlFrame ==
  ASSUME Control, UNCHANGED <<localVars, m_workers, readyVars>> PROVE Control'
BY DEF Control, At, localVars, readyVars

\* Who is submitting what.
LEMMA SubmittingFrame ==
  ASSUME Submitting, UNCHANGED <<sub, stage>> PROVE Submitting'
BY DEF Submitting

\* What is in m_tasks.
LEMMA QueueFrame ==
  ASSUME Queue, UNCHANGED <<m_tasks, m_count, stage>> PROVE Queue'
BY DEF Queue

\* What is in the queues of the workers.
LEMMA PlacesFrame ==
  ASSUME Places, UNCHANGED <<t_init, readyVars, wpc, task, ghostVars>> PROVE Places'
BY DEF Places, At, readyVars, ghostVars

\* What each worker counts.
LEMMA LoadFrame ==
  ASSUME Load, UNCHANGED <<apc, k, left, wcount, ghostVars>> PROVE Load'
BY DEF Load, Dealt, ghostVars

\* Dealt moves only with owner, or when stage enters or leaves Held.
LEMMA StaysDealt ==
  ASSUME UNCHANGED owner, \A t \in Fibers : stage[t] \in Held <=> stage'[t] \in Held
  PROVE  \A w \in Workers : Dealt(w)' = Dealt(w)
BY DEF Dealt

\* Load, when the worker's counters stay and nothing is dealt or finished.
LEMMA LoadStays ==
  ASSUME Load, UNCHANGED <<wcount, owner>>,
         \A t \in Fibers : stage[t] \in Held <=> stage'[t] \in Held,
         left' > 0 => apc' = "move" /\ wcount[k'] + left' <= WorkerCap + Batch - 1
  PROVE  Load'
BY StaysDealt DEF Load

\* A task that moves between the queues of its worker, or is over, concerns neither
\* the submitters nor m_tasks.
LEMMA HeldMoves ==
  ASSUME Submitting, Queue, UNCHANGED <<sub, m_tasks, m_count>>,
         \A t \in Fibers : \/ stage'[t] = stage[t]
                           \/ stage[t] \in Held /\ stage'[t] \in Held \cup {"done"}
  PROVE  (Submitting') /\ (Queue')
BY DEF Submitting, Queue, Held

\* Every call on a fiber keeps the fibers' types.
LEMMA FiberTypes ==
  ASSUME FiberTypeOK, NEW th \in Threads, NEW f \in Fibers
  PROVE  /\ FiberStart(th, f) => FiberTypeOK'
         /\ FiberResume(th, f) => FiberTypeOK'
         /\ FiberNotify(th, f) => FiberTypeOK'
         /\ FiberDestroy(th, f) => FiberTypeOK'
         /\ FiberDrop(th, f) => FiberTypeOK'
         /\ UNCHANGED fiberVars => FiberTypeOK'
<1>1. FiberStart(th, f) => FiberTypeOK'
  BY DEF FiberTypeOK, FiberStart, Asserting, Become, State, FiberFaults
<1>2. FiberResume(th, f) => FiberTypeOK'
  BY DEF FiberTypeOK, FiberResume, Asserting, SwitchIn, State, FiberFaults
<1>3. FiberNotify(th, f) => FiberTypeOK'
  BY DEF FiberTypeOK, FiberNotify, Asserting, SwitchIn, State, FiberFaults
<1>4. FiberDestroy(th, f) => FiberTypeOK'
  BY DEF FiberTypeOK, FiberDestroy, Asserting, Become, State, FiberFaults
<1>5. FiberDrop(th, f) => FiberTypeOK'
  BY DEF FiberTypeOK, FiberDrop, Asserting, fiberState, State, FiberFaults
<1>6. UNCHANGED fiberVars => FiberTypeOK'
  BY DEF FiberTypeOK, fiberVars
<1> QED BY <1>1, <1>2, <1>3, <1>4, <1>5, <1>6

\* What a fiber does in its slice, too.
LEMMA SliceTypes ==
  ASSUME FiberTypeOK, NEW th \in Threads, ~InMain(th)
  PROVE  /\ FiberYield(th) => FiberTypeOK'
         /\ FiberHold(th) => FiberTypeOK'
         /\ \A n \in Nat : FiberSleep(th, n) => FiberTypeOK'
         /\ FiberStop(th) => FiberTypeOK'
         /\ FiberThrow(th) => FiberTypeOK'
<1>0. this_fiber[th] \in Fibers
  BY DEF FiberTypeOK, InMain
<1>1. FiberYield(th) => FiberTypeOK'
  BY <1>0 DEF FiberTypeOK, FiberYield, Asserting, SwitchOut, State, FiberFaults
<1>2. FiberHold(th) => FiberTypeOK'
  BY <1>0 DEF FiberTypeOK, FiberHold, Asserting, SwitchOut, State, FiberFaults
<1>3. ASSUME NEW n \in Nat, FiberSleep(th, n) PROVE FiberTypeOK'
  BY <1>0, <1>3 DEF FiberTypeOK, FiberSleep, WakeAt, Asserting, SwitchOut, State, FiberFaults
<1>4. FiberStop(th) => FiberTypeOK'
  BY <1>0 DEF FiberTypeOK, FiberStop, Asserting, SwitchOut, State, FiberFaults
<1>5. FiberThrow(th) => FiberTypeOK'
  BY <1>0 DEF FiberTypeOK, FiberThrow, State, FiberFaults
<1> QED BY <1>1, <1>2, <1>3, <1>4, <1>5

\* A task is done exactly when its fiber came back in no state that a queue takes.
LEMMA StageAfterValues ==
  \A s : /\ StageAfter(s) \in {"hold", "sleep", "ready", "done"}
         /\ StageAfter(s) = "hold" <=> s = "HOLD"
         /\ StageAfter(s) = "sleep" <=> s = "SLEEP"
         /\ StageAfter(s) = "ready" <=> s = "READY"
BY DEF StageAfter, QueueFor

(***************************************************************************)
(* One lemma per action: it preserves the inductive invariant.             *)
(***************************************************************************)
\* A task enters submit() only when it is fresh, so no other thread is submitting it.
LEMMA SubmitCheckStep ==
  ASSUME IInv, NEW p \in Threads, NEW t \in Fibers, SubmitCheck(p, t)
  PROVE  IInv'
<1> USE DEF IInv, TypeOK
<1>0. /\ UNCHANGED <<m_tasks, m_count, owner, wcount, apc, k, left>>
      /\ stage[t] = "fresh" /\ sub[p] = NoTask /\ t # NoTask
      /\ \/ UNCHANGED <<sub, stage>>
         \/ /\ sub' = [sub EXCEPT ![p] = t]
            /\ stage' = [stage EXCEPT ![t] = "submitting"]
  BY Constants DEF SubmitCheck, MaySubmit, queueVars, allocVars
<1>1. /\ WorkerTypeOK' /\ SetTypeOK' /\ Owner' /\ Locks' /\ Control'
  BY WorkerTypeOKFrame, SetTypeOKFrame, OwnerFrame, LocksFrame, ControlFrame DEF
    SubmitCheck, fiberVars, queueVars, ctlVars, allocVars, readyVars, localVars,
    ghostVars
<1>2. FiberTypeOK'
  BY FiberTypes, FiberTypeOKFrame, Constants DEF SubmitCheck
<1>3. SharedTypeOK'
  BY Constants DEF SubmitCheck, SharedTypeOK, fiberVars, queueVars, ctlVars, allocVars,
    readyVars, localVars, ghostVars
<1>4. StageTypeOK'
  BY Constants DEF SubmitCheck, StageTypeOK, Stage, fiberVars, queueVars, ctlVars,
    allocVars, readyVars, localVars, ghostVars
<1>5. Submitting'
  <2>1. CASE UNCHANGED <<sub, stage>>
    BY <2>1, SubmittingFrame
  <2>2. CASE sub' = [sub EXCEPT ![p] = t] /\ stage' = [stage EXCEPT ![t] = "submitting"]
    <3>1. \A q \in Threads : sub'[q] = (IF q = p THEN t ELSE sub[q]) /\ sub[q] # t
      BY <1>0, <2>2 DEF Submitting, SharedTypeOK
    <3>2. \A u \in Fibers : stage'[u] = IF u = t THEN "submitting" ELSE stage[u]
      BY <2>2 DEF StageTypeOK
    <3> QED BY <1>0, <3>1, <3>2, Constants DEF Submitting
  <2> QED BY <1>0, <2>1, <2>2
<1>6. Queue'
  BY Constants DEF SubmitCheck, Queue, SharedTypeOK, StageTypeOK, fiberVars, queueVars,
    ctlVars, allocVars, readyVars, localVars, ghostVars
<1>7. Places'
  BY Constants DEF SubmitCheck, Places, WorkerTypeOK, SetTypeOK, StageTypeOK, At,
    fiberVars, queueVars, ctlVars, allocVars, readyVars, localVars, ghostVars
<1>8. Load'
  BY <1>0, LoadStays DEF Held, Load, StageTypeOK
<1> QED BY <1>1, <1>2, <1>3, <1>4, <1>5, <1>6, <1>7, <1>8

\* The task goes from its submitter to the end of m_tasks, or is refused.
LEMMA SubmitPushStep ==
  ASSUME IInv, NEW p \in Threads, SubmitPush(p)
  PROVE  IInv'
<1> USE DEF IInv, TypeOK
<1>0. PICK t \in Fibers :
        /\ t = sub[p] /\ t # NoTask /\ stage[t] = "submitting" /\ t \notin Elems(m_tasks)
        /\ sub' = [sub EXCEPT ![p] = NoTask]
        /\ UNCHANGED <<m_stop, m_workers, starts, ctl, mutex, owner, wcount, apc, k, left>>
        /\ UNCHANGED <<t_init, t_ready, t_sleep, t_hold, wpc, task>>
        /\ \/ /\ Fits /\ UNCHANGED fiberVars
              /\ m_tasks' = Append(m_tasks, t) /\ m_count' = m_count + 1
              /\ stage' = [stage EXCEPT ![t] = "queued"]
           \/ /\ FiberDestroy(p, t) /\ UNCHANGED <<m_tasks, m_count>>
              /\ stage' = [stage EXCEPT ![t] = "refused"]
  BY Constants DEF SubmitPush, SharedTypeOK, Submitting, Queue, ctlVars, allocVars,
     readyVars, localVars
<1>0a. /\ Append(m_tasks, t) \in Seq(Fibers) /\ Len(Append(m_tasks, t)) = Len(m_tasks) + 1
       /\ Elems(Append(m_tasks, t)) = Elems(m_tasks) \cup {t}
       /\ NoRepeats(Append(m_tasks, t))
  BY <1>0, PushLemma DEF SharedTypeOK, Queue
<1>1. /\ WorkerTypeOK' /\ SetTypeOK' /\ Owner' /\ Locks' /\ Control'
  BY WorkerTypeOKFrame, SetTypeOKFrame, OwnerFrame, LocksFrame, ControlFrame DEF
    SubmitPush, fiberVars, queueVars, ctlVars, allocVars, readyVars, localVars,
    ghostVars
<1>2. FiberTypeOK'
  BY <1>0, FiberTypes, FiberTypeOKFrame
<1>3. SharedTypeOK'
  <2>1. m_tasks' \in Seq(Fibers)
    BY <1>0, <1>0a DEF SharedTypeOK
  <2>3. m_count' \in Nat
    BY <1>0 DEF SharedTypeOK
  <2>2. sub' \in [Threads -> Fibers \cup {NoTask}]
    BY <1>0 DEF SharedTypeOK
  <2> QED BY <1>0, <2>1, <2>2, <2>3 DEF SharedTypeOK
<1>4. StageTypeOK'
  BY <1>0 DEF StageTypeOK, Stage
<1>5. Submitting'
  <2>1. /\ stage'[t] # "submitting"
        /\ \A u \in Fibers : u # t => stage'[u] = stage[u]
    BY <1>0 DEF StageTypeOK
  <2>2. \A q \in Threads : sub'[q] = IF q = p THEN NoTask ELSE sub[q]
    BY <1>0 DEF SharedTypeOK
  <2>3. \A q \in Threads : sub'[q] # t
    BY <1>0, <2>2 DEF Submitting
  <2> QED BY <1>0, <2>1, <2>2, <2>3, Constants DEF Submitting
<1>6. Queue'
  <2>1. CASE /\ Fits /\ m_tasks' = Append(m_tasks, t) /\ m_count' = m_count + 1
             /\ stage' = [stage EXCEPT ![t] = "queued"]
    <3>1. \A u \in Fibers : stage'[u] = IF u = t THEN "queued" ELSE stage[u]
      BY <2>1 DEF StageTypeOK
    <3>2. Len(m_tasks) \in Nat /\ Len(m_tasks) < TaskCap /\ m_count = Len(m_tasks)
      BY <2>1 DEF Fits, SharedTypeOK, Queue
    <3>3. m_count' = Len(m_tasks') /\ Len(m_tasks') <= TaskCap
      BY <1>0a, <2>1, <3>2, Constants
    <3>4. NoRepeats(m_tasks') /\ Elems(m_tasks') = Elems(m_tasks) \cup {t}
      BY <1>0a, <2>1
    <3> QED BY <3>1, <3>3, <3>4 DEF Queue
  <2>2. CASE UNCHANGED <<m_tasks, m_count>> /\ stage' = [stage EXCEPT ![t] = "refused"]
    BY <1>0, <2>2 DEF Queue, StageTypeOK
  <2> QED BY <1>0, <2>1, <2>2
<1>7. Places'
  BY <1>0 DEF Places, At, StageTypeOK
<1>8. Load'
  BY <1>0, LoadStays DEF Held, Load, StageTypeOK
<1> QED BY <1>1, <1>2, <1>3, <1>4, <1>5, <1>6, <1>7, <1>8

\* The alloc thread leaves its loop holding no lock and no batch.
LEMMA AllocExitStep ==
  ASSUME IInv, AllocExit
  PROVE  IInv'
<1> USE DEF IInv, TypeOK
<1>1. /\ FiberTypeOK' /\ WorkerTypeOK' /\ SetTypeOK' /\ StageTypeOK' /\ Control'
      /\ Submitting' /\ Queue' /\ Places'
  BY FiberTypeOKFrame, WorkerTypeOKFrame, SetTypeOKFrame, StageTypeOKFrame,
    ControlFrame, SubmittingFrame, QueueFrame, PlacesFrame DEF AllocExit, fiberVars,
    queueVars, ctlVars, allocVars, readyVars, localVars, ghostVars
<1>2. SharedTypeOK'
  BY Constants DEF AllocExit, SharedTypeOK, fiberVars, queueVars, ctlVars, allocVars,
    readyVars, localVars, ghostVars
<1>3. Owner'
  BY Constants DEF AllocExit, Owner, SharedTypeOK, fiberVars, queueVars, ctlVars,
    allocVars, readyVars, localVars, ghostVars
<1>4. Locks'
  BY Constants DEF AllocExit, Locks, SharedTypeOK, WorkerTypeOK, At, fiberVars,
    queueVars, ctlVars, allocVars, readyVars, localVars, ghostVars
<1>5. Load'
  BY LoadStays DEF Load, AllocExit, allocVars, ghostVars
<1> QED BY <1>1, <1>2, <1>3, <1>4, <1>5

\* The next worker is one of m_workers: NextWorker wraps k around.
LEMMA AllocLockStep ==
  ASSUME IInv, AllocLock
  PROVE  IInv'
<1> USE DEF IInv, TypeOK
<1>0. /\ k' \in 1 .. m_workers /\ k' \in Workers /\ apc = "loop" /\ apc' = "locked"
      /\ mutex = Free /\ mutex' = Alloc
      /\ UNCHANGED <<m_stop, m_tasks, m_count, m_workers, starts, ctl, sub, left>>
      /\ UNCHANGED <<wcount, wlock, wpc, stage, owner>>
  <2>1. NextWorker + 1 \in 1 .. m_workers /\ m_workers \in 0 .. WorkerCount
    BY Constants DEF AllocLock, NextWorker, SharedTypeOK
  <2> QED BY <2>1, Constants DEF AllocLock, ctlVars, localVars, ghostVars
<1>1. /\ FiberTypeOK' /\ WorkerTypeOK' /\ SetTypeOK' /\ StageTypeOK' /\ Control'
      /\ Submitting' /\ Queue' /\ Places'
  BY FiberTypeOKFrame, WorkerTypeOKFrame, SetTypeOKFrame, StageTypeOKFrame,
    ControlFrame, SubmittingFrame, QueueFrame, PlacesFrame DEF AllocLock, fiberVars,
    queueVars, ctlVars, allocVars, readyVars, localVars, ghostVars
<1>2. SharedTypeOK'
  BY <1>0, Constants DEF SharedTypeOK
<1>3. Owner'
  BY Constants DEF AllocLock, Owner, SharedTypeOK, fiberVars, queueVars, ctlVars,
    allocVars, readyVars, localVars, ghostVars
<1>4. Locks'
  BY <1>0, Constants DEF Locks, At
<1>5. Load'
  BY <1>0, LoadStays DEF Load
<1> QED BY <1>1, <1>2, <1>3, <1>4, <1>5

\* A batch is begun only for a worker with room for it.
LEMMA AllocLockWorkerStep ==
  ASSUME IInv, AllocLockWorker
  PROVE  IInv'
<1> USE DEF IInv, TypeOK
<1>0. /\ k \in Workers /\ apc = "locked" /\ apc' = "move" /\ wlock[k] = Free
      /\ wlock' = [wlock EXCEPT ![k] = Alloc]
      /\ left' = (IF HasRoom(k) THEN Batch ELSE 0)
      /\ UNCHANGED <<k, wcount, stage, owner>>
  BY Constants DEF AllocLockWorker, Locks, SharedTypeOK, ghostVars
<1>1. /\ FiberTypeOK' /\ SetTypeOK' /\ StageTypeOK' /\ Control' /\ Submitting'
      /\ Queue' /\ Places'
  BY FiberTypeOKFrame, SetTypeOKFrame, StageTypeOKFrame, ControlFrame, SubmittingFrame,
    QueueFrame, PlacesFrame DEF AllocLockWorker, fiberVars, queueVars, ctlVars,
    allocVars, readyVars, localVars, ghostVars
<1>2. SharedTypeOK'
  BY Constants DEF AllocLockWorker, SharedTypeOK, fiberVars, queueVars, ctlVars,
    allocVars, readyVars, localVars, ghostVars
<1>3. WorkerTypeOK'
  BY Constants DEF AllocLockWorker, WorkerTypeOK, fiberVars, queueVars, ctlVars,
    allocVars, readyVars, localVars, ghostVars
<1>4. Owner'
  BY Constants DEF AllocLockWorker, Owner, SharedTypeOK, fiberVars, queueVars, ctlVars,
    allocVars, readyVars, localVars, ghostVars
<1>5. Locks'
  BY Constants DEF AllocLockWorker, Locks, SharedTypeOK, WorkerTypeOK, At, fiberVars,
    queueVars, ctlVars, allocVars, readyVars, localVars, ghostVars
<1>6. Load'
  <2>1. left' > 0 => wcount[k] + left' <= WorkerCap + Batch - 1
    BY <1>0, Constants DEF HasRoom, WorkerTypeOK
  <2> QED BY <1>0, <2>1, LoadStays
<1> QED BY <1>1, <1>2, <1>3, <1>4, <1>5, <1>6

\* The head of m_tasks becomes the last new task of worker k, which counts it.
LEMMA AllocMoveStep ==
  ASSUME IInv, AllocMove
  PROVE  IInv'
<1> USE DEF IInv, TypeOK
<1>0. PICK t \in Fibers :
        /\ t = Head(m_tasks) /\ m_tasks # <<>> /\ apc = "move" /\ left > 0 /\ left' = left - 1
        /\ m_tasks' = Tail(m_tasks) /\ m_count' = m_count - 1
        /\ k \in Workers /\ t_init' = [t_init EXCEPT ![k] = Append(t_init[k], t)]
        /\ wcount' = [wcount EXCEPT ![k] = wcount[k] + 1]
        /\ stage' = [stage EXCEPT ![t] = "init"] /\ owner' = [owner EXCEPT ![t] = k]
        /\ UNCHANGED <<m_stop, m_workers, starts, ctl, mutex, sub, apc, k>>
        /\ UNCHANGED <<t_ready, t_sleep, t_hold, wpc, task, wlock>>
  <2>1. m_tasks # <<>> /\ k \in Workers
    BY Constants DEF AllocMove, Locks, SharedTypeOK
  <2>2. Head(m_tasks) \in Fibers
    BY <2>1, PopLemma DEF SharedTypeOK, Queue
  <2> QED BY <2>1, <2>2 DEF AllocMove, CountAfterDeal, ctlVars, readyVars, localVars
<1>0a. /\ t \in Elems(m_tasks) /\ Tail(m_tasks) \in Seq(Fibers)
       /\ Len(Tail(m_tasks)) = Len(m_tasks) - 1 /\ Len(m_tasks) \in Nat \ {0}
       /\ Elems(Tail(m_tasks)) = Elems(m_tasks) \ {t} /\ NoRepeats(Tail(m_tasks))
  BY <1>0, PopLemma DEF SharedTypeOK, Queue
<1>0b. stage[t] = "queued" /\ t \notin Elems(t_init[k])
  BY <1>0, <1>0a DEF Queue, Places
<1>0c. /\ Append(t_init[k], t) \in Seq(Fibers) /\ NoRepeats(Append(t_init[k], t))
       /\ Elems(Append(t_init[k], t)) = Elems(t_init[k]) \cup {t}
  BY <1>0, <1>0b, PushLemma DEF WorkerTypeOK, Places
<1>1. /\ FiberTypeOK' /\ SetTypeOK' /\ Owner' /\ Locks' /\ Control'
  BY FiberTypeOKFrame, SetTypeOKFrame, OwnerFrame, LocksFrame, ControlFrame DEF
    AllocMove, fiberVars, queueVars, ctlVars, allocVars, readyVars, localVars,
    ghostVars
<1>2. SharedTypeOK'
  <2>1. m_tasks' \in Seq(Fibers) /\ m_count' \in Nat /\ left' \in 0 .. Batch
    BY <1>0, <1>0a, Constants DEF SharedTypeOK, Queue
  <2> QED BY <1>0, <2>1 DEF SharedTypeOK
<1>3. WorkerTypeOK'
  BY <1>0, <1>0c DEF WorkerTypeOK
<1>4. StageTypeOK'
  BY <1>0 DEF StageTypeOK, Stage
<1>5. Submitting'
  BY <1>0, <1>0b DEF Submitting, StageTypeOK
<1>6. Queue'
  BY <1>0, <1>0a, <1>0b, Constants DEF Queue, SharedTypeOK, StageTypeOK
<1>7. Places'
  <2>1. ASSUME NEW w \in Workers PROVE NoRepeats(t_init'[w])
    BY <1>0, <1>0c, <2>1 DEF Places, WorkerTypeOK
  <2>2. ASSUME NEW w \in Workers, NEW u \in Fibers
        PROVE  u \in Elems(t_init'[w]) <=> stage'[u] = "init" /\ owner'[u] = w
    BY <1>0, <1>0b, <1>0c, <2>2 DEF Places, WorkerTypeOK, StageTypeOK
  <2> QED BY <1>0, <1>0b, <2>1, <2>2 DEF Places, At, StageTypeOK
<1>8. Load'
  <2>1. \A w \in Workers : Dealt(w)' = (IF w = k THEN Dealt(w) \cup {t} ELSE Dealt(w))
    BY <1>0, <1>0b DEF Dealt, Held, StageTypeOK
  <2>2. t \notin Dealt(k)
    BY <1>0b DEF Dealt, Held
  <2>3. /\ IsFiniteSet(Dealt(k) \cup {t})
        /\ Cardinality(Dealt(k) \cup {t}) = Cardinality(Dealt(k)) + 1
    BY <1>0, <2>2, FS_AddElement DEF Load
  <2>4. /\ wcount[k] + left <= WorkerCap + Batch - 1 /\ wcount[k] \in Nat
        /\ left \in Nat /\ wcount'[k] = wcount[k] + 1
    BY <1>0 DEF Load, WorkerTypeOK, SharedTypeOK
  <2>5. \A w \in Workers : w # k => wcount'[w] = wcount[w]
    BY <1>0 DEF WorkerTypeOK
  <2>6. wcount'[k] + left' <= WorkerCap + Batch - 1 /\ wcount'[k] <= WorkerCap + Batch - 1
    BY <1>0, <2>4, Constants
  <2> QED BY <1>0, <2>1, <2>3, <2>4, <2>5, <2>6 DEF Load
<1> QED BY <1>1, <1>2, <1>3, <1>4, <1>5, <1>6, <1>7, <1>8

\* Both locks are released together.
LEMMA AllocUnlockStep ==
  ASSUME IInv, AllocUnlock
  PROVE  IInv'
<1> USE DEF IInv, TypeOK
<1>1. /\ FiberTypeOK' /\ SetTypeOK' /\ StageTypeOK' /\ Control' /\ Submitting'
      /\ Queue' /\ Places'
  BY FiberTypeOKFrame, SetTypeOKFrame, StageTypeOKFrame, ControlFrame, SubmittingFrame,
    QueueFrame, PlacesFrame DEF AllocUnlock, fiberVars, queueVars, ctlVars, allocVars,
    readyVars, localVars, ghostVars
<1>2. SharedTypeOK'
  BY Constants DEF AllocUnlock, SharedTypeOK, fiberVars, queueVars, ctlVars, allocVars,
    readyVars, localVars, ghostVars
<1>3. WorkerTypeOK'
  BY Constants DEF AllocUnlock, WorkerTypeOK, fiberVars, queueVars, ctlVars, allocVars,
    readyVars, localVars, ghostVars
<1>4. Owner'
  BY Constants DEF AllocUnlock, Owner, SharedTypeOK, fiberVars, queueVars, ctlVars,
    allocVars, readyVars, localVars, ghostVars
<1>5. Locks'
  BY Constants DEF AllocUnlock, Locks, SharedTypeOK, WorkerTypeOK, At, fiberVars,
    queueVars, ctlVars, allocVars, readyVars, localVars, ghostVars
<1>6. Load'
  BY LoadStays DEF AllocUnlock, allocVars, ghostVars
<1> QED BY <1>1, <1>2, <1>3, <1>4, <1>5, <1>6

\* A worker leaves with m_count = 0, so it holds no task in any queue.
LEMMA WorkerExitStep ==
  ASSUME IInv, NEW w \in Workers, WorkerExit(w)
  PROVE  IInv'
<1> USE DEF IInv, TypeOK
<1>1. /\ FiberTypeOK' /\ SharedTypeOK' /\ SetTypeOK' /\ StageTypeOK' /\ Owner'
      /\ Submitting' /\ Queue' /\ Load'
  BY FiberTypeOKFrame, SharedTypeOKFrame, SetTypeOKFrame, StageTypeOKFrame, OwnerFrame,
    SubmittingFrame, QueueFrame, LoadFrame DEF WorkerExit, Goto, fiberVars, queueVars,
    ctlVars, allocVars, readyVars, localVars, ghostVars
<1>2. WorkerTypeOK'
  BY Constants DEF WorkerExit, Goto, WorkerTypeOK, fiberVars, queueVars, ctlVars,
    allocVars, readyVars, localVars, ghostVars
<1>3. Locks'
  BY Constants DEF WorkerExit, Goto, Locks, SharedTypeOK, WorkerTypeOK, At, fiberVars,
    queueVars, ctlVars, allocVars, readyVars, localVars, ghostVars
<1>4. Control'
  <2>1. Dealt(w) = {}
    BY FS_EmptySet DEF WorkerExit, MayLeave, Load
  <2>2. t_ready[w] = {} /\ t_sleep[w] = {} /\ t_hold[w] = {}
    BY <2>1 DEF Dealt, Held, Places, SetTypeOK
  <2> QED BY <2>2 DEF WorkerExit, Goto, Control, At, WorkerTypeOK, readyVars, ctlVars
<1>5. Places'
  BY Constants DEF WorkerExit, Goto, Places, WorkerTypeOK, SetTypeOK, StageTypeOK, At,
    fiberVars, queueVars, ctlVars, allocVars, readyVars, localVars, ghostVars
<1> QED BY <1>1, <1>2, <1>3, <1>4, <1>5

\* trylock takes a lock that the alloc thread does not hold.
LEMMA WorkerLockStep ==
  ASSUME IInv, NEW w \in Workers, WorkerLock(w)
  PROVE  IInv'
<1> USE DEF IInv, TypeOK
<1>1. /\ FiberTypeOK' /\ SharedTypeOK' /\ SetTypeOK' /\ StageTypeOK' /\ Owner'
      /\ Submitting' /\ Queue' /\ Load'
  BY FiberTypeOKFrame, SharedTypeOKFrame, SetTypeOKFrame, StageTypeOKFrame, OwnerFrame,
    SubmittingFrame, QueueFrame, LoadFrame DEF WorkerLock, Goto, fiberVars, queueVars,
    ctlVars, allocVars, readyVars, localVars, ghostVars
<1>2. WorkerTypeOK'
  BY Constants DEF WorkerLock, Goto, WorkerTypeOK, fiberVars, queueVars, ctlVars,
    allocVars, readyVars, localVars, ghostVars
<1>3. Locks'
  BY Constants DEF WorkerLock, Goto, Locks, SharedTypeOK, WorkerTypeOK, At, fiberVars,
    queueVars, ctlVars, allocVars, readyVars, localVars, ghostVars
<1>4. Control'
  BY Constants DEF WorkerLock, Goto, Control, SharedTypeOK, WorkerTypeOK, SetTypeOK,
    At, fiberVars, queueVars, ctlVars, allocVars, readyVars, localVars, ghostVars
<1>5. Places'
  BY Constants DEF WorkerLock, Goto, Places, WorkerTypeOK, SetTypeOK, StageTypeOK, At,
    fiberVars, queueVars, ctlVars, allocVars, readyVars, localVars, ghostVars
<1> QED BY <1>1, <1>2, <1>3, <1>4, <1>5

\* Nothing moves when trylock fails.
LEMMA WorkerLockFailsStep ==
  ASSUME IInv, NEW w \in Workers, WorkerLockFails(w)
  PROVE  IInv'
<1> USE DEF IInv, TypeOK
<1>1. /\ FiberTypeOK' /\ SharedTypeOK' /\ SetTypeOK' /\ StageTypeOK' /\ Owner'
      /\ Submitting' /\ Queue' /\ Load'
  BY FiberTypeOKFrame, SharedTypeOKFrame, SetTypeOKFrame, StageTypeOKFrame, OwnerFrame,
    SubmittingFrame, QueueFrame, LoadFrame DEF WorkerLockFails, Goto, fiberVars,
    queueVars, ctlVars, allocVars, readyVars, localVars, ghostVars
<1>2. WorkerTypeOK'
  BY Constants DEF WorkerLockFails, Goto, WorkerTypeOK, fiberVars, queueVars, ctlVars,
    allocVars, readyVars, localVars, ghostVars
<1>3. Locks'
  BY Constants DEF WorkerLockFails, Goto, Locks, SharedTypeOK, WorkerTypeOK, At,
    fiberVars, queueVars, ctlVars, allocVars, readyVars, localVars, ghostVars
<1>4. Control'
  BY Constants DEF WorkerLockFails, Goto, Control, SharedTypeOK, WorkerTypeOK,
    SetTypeOK, At, fiberVars, queueVars, ctlVars, allocVars, readyVars, localVars,
    ghostVars
<1>5. Places'
  BY Constants DEF WorkerLockFails, Goto, Places, WorkerTypeOK, SetTypeOK, StageTypeOK,
    At, fiberVars, queueVars, ctlVars, allocVars, readyVars, localVars, ghostVars
<1> QED BY <1>1, <1>2, <1>3, <1>4, <1>5

\* The head of t_init becomes ready on the same worker.
LEMMA WorkerDrainStep ==
  ASSUME IInv, NEW w \in Workers, WorkerDrain(w)
  PROVE  IInv'
<1> USE DEF IInv, TypeOK
<1>0. PICK t \in Fibers :
        /\ t = Head(t_init[w]) /\ t_init[w] # <<>> /\ FiberStart(w, t) /\ At(w, "drain")
        /\ t_init' = [t_init EXCEPT ![w] = Tail(t_init[w])]
        /\ t_ready' = [t_ready EXCEPT ![w] = t_ready[w] \cup {t}]
        /\ stage' = [stage EXCEPT ![t] = "ready"]
        /\ UNCHANGED <<sub, m_tasks, m_count, m_workers, owner, wcount, apc, k, left>>
        /\ UNCHANGED <<t_sleep, t_hold, wpc, task, visit, wlock>>
  BY PopLemma DEF WorkerDrain, WorkerTypeOK, Places, queueVars, ctlVars, allocVars, localVars
<1>0a. /\ t \in Elems(t_init[w]) /\ Tail(t_init[w]) \in Seq(Fibers)
       /\ Elems(Tail(t_init[w])) = Elems(t_init[w]) \ {t} /\ NoRepeats(Tail(t_init[w]))
  BY <1>0, PopLemma DEF WorkerTypeOK, Places
<1>0b. stage[t] = "init" /\ owner[t] = w /\ stage \in [Fibers -> Stage]
  BY <1>0a DEF Places, StageTypeOK
<1>1. /\ SharedTypeOK' /\ Owner' /\ Locks'
  BY SharedTypeOKFrame, OwnerFrame, LocksFrame DEF WorkerDrain, fiberVars, queueVars,
    ctlVars, allocVars, readyVars, localVars, ghostVars
<1>2. FiberTypeOK'
  BY <1>0, FiberTypes, Constants
<1>3. WorkerTypeOK'
  BY <1>0, <1>0a DEF WorkerTypeOK
<1>4. SetTypeOK'
  BY <1>0 DEF SetTypeOK
<1>5. StageTypeOK'
  BY <1>0 DEF StageTypeOK, Stage
<1>6. Control'
  BY <1>0 DEF Control, At, SetTypeOK
<1>7. Submitting'
  BY <1>0, <1>0b, HeldMoves DEF Held
<1>8. Queue'
  BY <1>0, <1>0b, HeldMoves DEF Held
<1>9. Places'
  <2>1. ASSUME NEW v \in Workers PROVE NoRepeats(t_init'[v])
    BY <1>0, <1>0a, <2>1 DEF Places, WorkerTypeOK
  <2>2. ASSUME NEW v \in Workers, NEW u \in Fibers
        PROVE  u \in Elems(t_init'[v]) <=> stage'[u] = "init" /\ owner'[u] = v
    BY <1>0, <1>0a, <1>0b, <2>2 DEF Places, WorkerTypeOK
  <2>3. ASSUME NEW v \in Workers, NEW u \in Fibers
        PROVE  u \in t_ready'[v] <=> stage'[u] = "ready" /\ owner'[u] = v
    BY <1>0, <1>0b, <2>3 DEF Places, SetTypeOK
  <2> QED BY <1>0, <1>0b, <2>1, <2>2, <2>3 DEF Places, At
<1>10. Load'
  BY <1>0, <1>0b, LoadStays DEF Held, Load
<1> QED BY <1>1, <1>2, <1>3, <1>4, <1>5, <1>6, <1>7, <1>8, <1>9, <1>10

\* Only the worker itself held the lock that it releases.
LEMMA WorkerUnlockStep ==
  ASSUME IInv, NEW w \in Workers, WorkerUnlock(w)
  PROVE  IInv'
<1> USE DEF IInv, TypeOK
<1>0. /\ wpc[w] = "drain" /\ wlock[w] \in Workers /\ wpc' = [wpc EXCEPT ![w] = "wake"]
      /\ wlock' = [wlock EXCEPT ![w] = Free]
      /\ UNCHANGED <<mutex, apc, k, m_workers, t_init, t_ready, t_sleep, t_hold>>
      /\ UNCHANGED <<task, stage, owner>>
  BY DEF WorkerUnlock, Goto, Locks, At, queueVars, ctlVars, allocVars, readyVars, ghostVars
<1>1. /\ FiberTypeOK' /\ SharedTypeOK' /\ SetTypeOK' /\ StageTypeOK' /\ Owner'
      /\ Submitting' /\ Queue' /\ Load'
  BY FiberTypeOKFrame, SharedTypeOKFrame, SetTypeOKFrame, StageTypeOKFrame, OwnerFrame,
    SubmittingFrame, QueueFrame, LoadFrame DEF WorkerUnlock, Goto, fiberVars,
    queueVars, ctlVars, allocVars, readyVars, localVars, ghostVars
<1>2. WorkerTypeOK'
  BY Constants DEF WorkerUnlock, Goto, WorkerTypeOK, fiberVars, queueVars, ctlVars,
    allocVars, readyVars, localVars, ghostVars
<1>3. Locks'
  BY <1>0, Constants DEF Locks, At, WorkerTypeOK
<1>4. Control'
  BY Constants DEF WorkerUnlock, Goto, Control, SharedTypeOK, WorkerTypeOK, SetTypeOK,
    At, fiberVars, queueVars, ctlVars, allocVars, readyVars, localVars, ghostVars
<1>5. Places'
  BY <1>0 DEF Places, At, WorkerTypeOK
<1> QED BY <1>1, <1>2, <1>3, <1>4, <1>5

\* The due sleepers become ready on the same worker.
LEMMA WorkerWakeStep ==
  ASSUME IInv, NEW w \in Workers, WorkerWake(w)
  PROVE  IInv'
<1> USE DEF IInv, TypeOK
<1>0. PICK D \in SUBSET Fibers :
        /\ D \subseteq t_sleep[w] /\ wpc[w] = "wake" /\ wpc' = [wpc EXCEPT ![w] = "pass"]
        /\ \/ m_state' = [t \in Fibers |-> IF t \in D THEN "READY" ELSE m_state[t]]
              /\ UNCHANGED <<waketime, this_fiber, now, abort>>
           \/ abort' = "awake" /\ UNCHANGED <<m_state, waketime, this_fiber, now>>
        /\ t_ready' = [t_ready EXCEPT ![w] = t_ready[w] \cup D]
        /\ t_sleep' = [t_sleep EXCEPT ![w] = t_sleep[w] \ D]
        /\ stage' = [t \in Fibers |-> IF t \in D THEN "ready" ELSE stage[t]]
        /\ visit' = [visit EXCEPT ![w] = t_hold[w]]
        /\ UNCHANGED <<sub, m_tasks, m_count, m_workers, owner, wcount, apc, k, left>>
        /\ UNCHANGED <<t_init, t_hold, task>>
  <2>1. Due(w) \in SUBSET Fibers /\ Due(w) \subseteq t_sleep[w]
    BY DEF Due, SetTypeOK
  <2> QED BY <2>1 DEF WorkerWake, Asserting, Goto, At, queueVars, ctlVars, allocVars
<1>0b. \A t \in D : stage[t] = "sleep" /\ owner[t] = w
  BY <1>0 DEF Places
<1>1. /\ SharedTypeOK' /\ Owner'
  BY SharedTypeOKFrame, OwnerFrame DEF WorkerWake, Goto, fiberVars, queueVars, ctlVars,
    allocVars, readyVars, localVars, ghostVars
<1>2. FiberTypeOK'
  BY <1>0 DEF FiberTypeOK, State, FiberFaults
<1>3. WorkerTypeOK'
  BY <1>0, WorkerTypeOKFrame DEF WorkerTypeOK, WorkerWake
<1>4. SetTypeOK'
  BY <1>0 DEF SetTypeOK
<1>5. StageTypeOK'
  BY <1>0 DEF StageTypeOK, Stage
<1>6. Locks'
  BY Constants DEF WorkerWake, Goto, Locks, SharedTypeOK, WorkerTypeOK, At, fiberVars,
    queueVars, ctlVars, allocVars, readyVars, localVars, ghostVars
<1>7. Control'
  BY <1>0 DEF Control, At, SetTypeOK, WorkerTypeOK
<1>8. Submitting'
  BY <1>0, <1>0b, HeldMoves DEF Held
<1>9. Queue'
  BY <1>0, <1>0b, HeldMoves DEF Held
<1>10. Places'
  <2>1. ASSUME NEW v \in Workers, NEW u \in Fibers
        PROVE  u \in t_ready'[v] <=> stage'[u] = "ready" /\ owner'[u] = v
    BY <1>0, <1>0b, <2>1 DEF Places, SetTypeOK
  <2>2. ASSUME NEW v \in Workers, NEW u \in Fibers
        PROVE  u \in t_sleep'[v] <=> stage'[u] = "sleep" /\ owner'[u] = v
    BY <1>0, <1>0b, <2>2 DEF Places, SetTypeOK
  <2> QED BY <1>0, <1>0b, <2>1, <2>2 DEF Places, At, WorkerTypeOK
<1>11. Load'
  BY <1>0, <1>0b, LoadStays DEF Held, Load
<1> QED BY <1>1, <1>2, <1>3, <1>4, <1>5, <1>6, <1>7, <1>8, <1>9, <1>10, <1>11

\* The task being notified stays in t_hold and leaves the rest of the pass.
LEMMA WorkerNotifyStep ==
  ASSUME IInv, NEW w \in Workers, NEW t \in Fibers, WorkerNotify(w, t)
  PROVE  IInv'
<1> USE DEF IInv, TypeOK
<1>1. /\ SharedTypeOK' /\ StageTypeOK' /\ Owner' /\ Submitting' /\ Queue' /\ Load'
  BY SharedTypeOKFrame, StageTypeOKFrame, OwnerFrame, SubmittingFrame, QueueFrame,
    LoadFrame DEF WorkerNotify, Goto, fiberVars, queueVars, ctlVars, allocVars,
    readyVars, localVars, ghostVars
<1>2. FiberTypeOK'
  BY FiberTypes, FiberTypeOKFrame, Constants DEF WorkerNotify
<1>3. WorkerTypeOK'
  BY Constants DEF WorkerNotify, Goto, WorkerTypeOK, fiberVars, queueVars, ctlVars,
    allocVars, readyVars, localVars, ghostVars
<1>4. SetTypeOK'
  BY Constants DEF WorkerNotify, Goto, SetTypeOK, fiberVars, queueVars, ctlVars,
    allocVars, readyVars, localVars, ghostVars
<1>5. Locks'
  BY Constants DEF WorkerNotify, Goto, Locks, SharedTypeOK, WorkerTypeOK, At,
    fiberVars, queueVars, ctlVars, allocVars, readyVars, localVars, ghostVars
<1>6. Control'
  BY Constants DEF WorkerNotify, Goto, Control, SharedTypeOK, WorkerTypeOK, SetTypeOK,
    At, fiberVars, queueVars, ctlVars, allocVars, readyVars, localVars, ghostVars
<1>7. Places'
  BY Constants DEF WorkerNotify, Goto, Places, WorkerTypeOK, SetTypeOK, StageTypeOK,
    At, fiberVars, queueVars, ctlVars, allocVars, readyVars, localVars, ghostVars
<1> QED BY <1>1, <1>2, <1>3, <1>4, <1>5, <1>6, <1>7

\* The notified task stays in t_hold or becomes ready, on the same worker.
LEMMA AfterNotifyStep ==
  ASSUME IInv, NEW w \in Workers, AfterNotify(w)
  PROVE  IInv'
<1> USE DEF IInv, TypeOK
<1>0. PICK t \in Fibers :
        /\ t = task[w] /\ t \in t_hold[w] /\ t \notin visit[w] /\ stage[t] = "hold" /\ owner[t] = w
        /\ wpc[w] = "notified" /\ wpc' = [wpc EXCEPT ![w] = "pass"]
        /\ task' = [task EXCEPT ![w] = NoTask]
        /\ \/ /\ t_ready' = [t_ready EXCEPT ![w] = t_ready[w] \cup {t}]
              /\ t_hold' = [t_hold EXCEPT ![w] = t_hold[w] \ {t}]
              /\ stage' = [stage EXCEPT ![t] = "ready"]
           \/ UNCHANGED <<t_ready, t_hold, stage>>
        /\ UNCHANGED <<sub, m_tasks, m_count, m_workers, owner, wcount, apc, k, left>>
        /\ UNCHANGED <<t_init, t_sleep, visit>>
  <2>1. task[w] \in t_hold[w] /\ task[w] \notin visit[w] /\ task[w] \in Fibers
    BY DEF AfterNotify, Control, At, SetTypeOK
  <2>2. stage[task[w]] = "hold" /\ owner[task[w]] = w
    BY <2>1 DEF Places
  <2> QED BY <2>1, <2>2 DEF AfterNotify, HoldErase, Goto, At, queueVars, ctlVars, allocVars
<1>1. /\ FiberTypeOK' /\ SharedTypeOK' /\ Owner'
  BY FiberTypeOKFrame, SharedTypeOKFrame, OwnerFrame DEF AfterNotify, Goto, fiberVars,
    queueVars, ctlVars, allocVars, readyVars, localVars, ghostVars
<1>2. WorkerTypeOK'
  BY Constants DEF AfterNotify, Goto, WorkerTypeOK, fiberVars, queueVars, ctlVars,
    allocVars, readyVars, localVars, ghostVars
<1>3. SetTypeOK'
  BY <1>0 DEF SetTypeOK
<1>4. StageTypeOK'
  BY <1>0 DEF StageTypeOK, Stage
<1>5. Locks'
  BY Constants DEF AfterNotify, Goto, Locks, SharedTypeOK, WorkerTypeOK, At, fiberVars,
    queueVars, ctlVars, allocVars, readyVars, localVars, ghostVars
<1>6. Control'
  BY <1>0, Constants DEF Control, At, SetTypeOK, WorkerTypeOK
<1>7. Submitting'
  BY <1>0, HeldMoves DEF Held, StageTypeOK
<1>8. Queue'
  BY <1>0, HeldMoves DEF Held, StageTypeOK
<1>9. Places'
  <2>1. ASSUME NEW v \in Workers, NEW u \in Fibers
        PROVE  u \in t_ready'[v] <=> stage'[u] = "ready" /\ owner'[u] = v
    BY <1>0, <2>1 DEF Places, SetTypeOK, StageTypeOK
  <2>2. ASSUME NEW v \in Workers, NEW u \in Fibers
        PROVE  u \in t_hold'[v] <=> stage'[u] = "hold" /\ owner'[u] = v
    BY <1>0, <2>2 DEF Places, SetTypeOK, StageTypeOK
  <2>3. ASSUME NEW v \in Workers, NEW u \in Fibers
        PROVE  wpc'[v] = "resumed" /\ task'[v] = u <=> stage'[u] = "running" /\ owner'[u] = v
    BY <1>0, <2>3 DEF Places, At, WorkerTypeOK, StageTypeOK
  <2> QED BY <1>0, <2>1, <2>2, <2>3 DEF Places, At, StageTypeOK
<1>10. Load'
  BY <1>0, LoadStays DEF Held, Load, StageTypeOK
<1> QED BY <1>1, <1>2, <1>3, <1>4, <1>5, <1>6, <1>7, <1>8, <1>9, <1>10

\* A ready task becomes the one task its worker is running.
LEMMA WorkerRunStep ==
  ASSUME IInv, NEW w \in Workers, NEW t \in Fibers, WorkerRun(w, t)
  PROVE  IInv'
<1> USE DEF IInv, TypeOK
<1>0. /\ t \in t_ready[w] /\ stage[t] = "ready" /\ owner[t] = w
      /\ stage' = [stage EXCEPT ![t] = "running"] /\ stage \in [Fibers -> Stage]
      /\ UNCHANGED <<sub, m_tasks, m_count, owner, wcount, apc, k, left>>
  BY DEF WorkerRun, Places, StageTypeOK, queueVars, allocVars
<1>1. /\ SharedTypeOK' /\ Owner'
  BY SharedTypeOKFrame, OwnerFrame DEF WorkerRun, Goto, fiberVars, queueVars, ctlVars,
    allocVars, readyVars, localVars, ghostVars
<1>2. FiberTypeOK'
  BY FiberTypes, FiberTypeOKFrame, Constants DEF WorkerRun
<1>3. WorkerTypeOK'
  BY Constants DEF WorkerRun, Goto, WorkerTypeOK, fiberVars, queueVars, ctlVars,
    allocVars, readyVars, localVars, ghostVars
<1>4. SetTypeOK'
  BY Constants DEF WorkerRun, Goto, SetTypeOK, fiberVars, queueVars, ctlVars,
    allocVars, readyVars, localVars, ghostVars
<1>5. StageTypeOK'
  BY Constants DEF WorkerRun, Goto, StageTypeOK, Stage, fiberVars, queueVars, ctlVars,
    allocVars, readyVars, localVars, ghostVars
<1>6. Locks'
  BY Constants DEF WorkerRun, Goto, Locks, SharedTypeOK, WorkerTypeOK, At, fiberVars,
    queueVars, ctlVars, allocVars, readyVars, localVars, ghostVars
<1>7. Control'
  BY Constants DEF WorkerRun, Goto, Control, SharedTypeOK, WorkerTypeOK, SetTypeOK, At,
    fiberVars, queueVars, ctlVars, allocVars, readyVars, localVars, ghostVars
<1>8. Submitting'
  BY <1>0, HeldMoves DEF Held
<1>9. Queue'
  BY <1>0, HeldMoves DEF Held
<1>10. Places'
  BY Constants DEF WorkerRun, Goto, Places, WorkerTypeOK, SetTypeOK, StageTypeOK, At,
    fiberVars, queueVars, ctlVars, allocVars, readyVars, localVars, ghostVars
<1>11. Load'
  BY <1>0, LoadStays DEF Held, Load
<1> QED BY <1>1, <1>2, <1>3, <1>4, <1>5, <1>6, <1>7, <1>8, <1>9, <1>10, <1>11

\* The worker turns round its loop with no task in hand.
LEMMA WorkerNothingReadyStep ==
  ASSUME IInv, NEW w \in Workers, WorkerNothingReady(w)
  PROVE  IInv'
<1> USE DEF IInv, TypeOK
<1>1. /\ FiberTypeOK' /\ SharedTypeOK' /\ SetTypeOK' /\ StageTypeOK' /\ Owner'
      /\ Submitting' /\ Queue' /\ Load'
  BY FiberTypeOKFrame, SharedTypeOKFrame, SetTypeOKFrame, StageTypeOKFrame, OwnerFrame,
    SubmittingFrame, QueueFrame, LoadFrame DEF WorkerNothingReady, Goto, fiberVars,
    queueVars, ctlVars, allocVars, readyVars, localVars, ghostVars
<1>2. WorkerTypeOK'
  BY Constants DEF WorkerNothingReady, Goto, WorkerTypeOK, fiberVars, queueVars,
    ctlVars, allocVars, readyVars, localVars, ghostVars
<1>3. Locks'
  BY Constants DEF WorkerNothingReady, Goto, Locks, SharedTypeOK, WorkerTypeOK, At,
    fiberVars, queueVars, ctlVars, allocVars, readyVars, localVars, ghostVars
<1>4. Control'
  BY Constants DEF WorkerNothingReady, Goto, Control, SharedTypeOK, WorkerTypeOK,
    SetTypeOK, At, fiberVars, queueVars, ctlVars, allocVars, readyVars, localVars,
    ghostVars
<1>5. Places'
  BY Constants DEF WorkerNothingReady, Goto, Places, WorkerTypeOK, SetTypeOK,
    StageTypeOK, At, fiberVars, queueVars, ctlVars, allocVars, readyVars, localVars,
    ghostVars
<1> QED BY <1>1, <1>2, <1>3, <1>4, <1>5

\* The task goes to one queue of the same worker, or is over and no longer counted.
LEMMA AfterResumeStep ==
  ASSUME IInv, NEW w \in Workers, AfterResume(w)
  PROVE  IInv'
<1> USE DEF IInv, TypeOK
<1>0. PICK t \in Fibers :
        /\ t = task[w] /\ t # NoTask /\ stage[t] = "running" /\ owner[t] = w
        /\ wpc[w] = "resumed" /\ wpc' = [wpc EXCEPT ![w] = "loop"]
        /\ task' = [task EXCEPT ![w] = NoTask]
        /\ t_hold' = [t_hold EXCEPT ![w] = IF m_state[t] = "HOLD" THEN @ \cup {t} ELSE @]
        /\ t_sleep' = [t_sleep EXCEPT ![w] = IF m_state[t] = "SLEEP" THEN @ \cup {t} ELSE @]
        /\ t_ready' = [t_ready EXCEPT ![w] = IF m_state[t] = "READY" THEN @ \cup {t} ELSE @]
        /\ IF FiberOver(m_state[t])
           THEN wcount' = [wcount EXCEPT ![w] = @ - 1] /\ FiberDrop(w, t)
           ELSE UNCHANGED <<wcount, fiberVars>>
        /\ stage' = [stage EXCEPT ![t] = StageAfter(m_state[t])]
        /\ UNCHANGED <<sub, m_tasks, m_count, m_workers, owner, apc, k, left, t_init, visit,
                       wlock>>
  <2>1. task[w] \in Fibers /\ task[w] # NoTask
    BY DEF AfterResume, At, Control, WorkerTypeOK
  <2>2. stage[task[w]] = "running" /\ owner[task[w]] = w
    BY <2>1 DEF AfterResume, Places
  <2> QED BY <2>1, <2>2 DEF AfterResume, At, Goto, queueVars, ctlVars, allocVars
<1>0a. /\ stage \in [Fibers -> Stage] /\ stage'[t] \in {"hold", "sleep", "ready", "done"}
       /\ \A u \in Fibers : u # t => stage'[u] = stage[u]
       /\ stage'[t] = "hold" <=> m_state[t] = "HOLD"
       /\ stage'[t] = "sleep" <=> m_state[t] = "SLEEP"
       /\ stage'[t] = "ready" <=> m_state[t] = "READY"
       /\ stage'[t] = "done" <=> FiberOver(m_state[t])
  <2>1. /\ stage \in [Fibers -> Stage] /\ stage'[t] = StageAfter(m_state[t])
        /\ \A u \in Fibers : u # t => stage'[u] = stage[u]
    BY <1>0 DEF StageTypeOK
  <2> QED BY <2>1, StageAfterValues DEF FiberOver
<1>0b. t \in Dealt(w) /\ Cardinality(Dealt(w)) \in Nat \ {0}
  <2>1. t \in Dealt(w)
    BY <1>0 DEF Dealt, Held
  <2>2. IsFiniteSet(Dealt(w))
    BY DEF Load
  <2>3. Cardinality(Dealt(w)) \in Nat /\ Cardinality(Dealt(w)) # 0
    <3> HIDE DEF IInv, TypeOK
    <3> QED BY <2>1, <2>2, FS_EmptySet, FS_CardinalityType
  <2> QED BY <2>1, <2>3
<1>1. /\ SharedTypeOK' /\ Owner'
  BY SharedTypeOKFrame, OwnerFrame DEF AfterResume, Goto, fiberVars, queueVars,
    ctlVars, allocVars, readyVars, localVars, ghostVars
<1>2. FiberTypeOK'
  BY <1>0, FiberTypes, FiberTypeOKFrame, Constants
<1>3. WorkerTypeOK'
  <2>1. wcount' \in [Workers -> Nat]
    <3>1. wcount[w] - 1 \in Nat
      BY <1>0b DEF Load
    <3>2. wcount \in [Workers -> Nat]
      BY DEF WorkerTypeOK
    <3> QED BY <1>0, <3>1, <3>2
  <2>2. /\ wpc' = [wpc EXCEPT ![w] = "loop"] /\ task' = [task EXCEPT ![w] = NoTask]
        /\ UNCHANGED <<t_init, wlock>>
    BY <1>0
  <2> QED BY <2>1, <2>2 DEF WorkerTypeOK
<1>4. SetTypeOK'
  BY <1>0 DEF SetTypeOK
<1>5. StageTypeOK'
  <2>1. stage'[t] \in Stage
    BY <1>0a DEF Stage
  <2> QED BY <1>0, <2>1 DEF StageTypeOK
<1>6. Locks'
  BY Constants DEF AfterResume, Goto, Locks, SharedTypeOK, WorkerTypeOK, At, fiberVars,
    queueVars, ctlVars, allocVars, readyVars, localVars, ghostVars
<1>7. Control'
  BY Constants DEF AfterResume, Goto, Control, SharedTypeOK, WorkerTypeOK, SetTypeOK,
    At, fiberVars, queueVars, ctlVars, allocVars, readyVars, localVars, ghostVars
<1>8. Submitting'
  BY <1>0, <1>0a, HeldMoves DEF Held
<1>9. Queue'
  BY <1>0, <1>0a, HeldMoves DEF Held
<1>10. Places'
  <2>1. ASSUME NEW v \in Workers, NEW u \in Fibers
        PROVE  /\ u \in t_ready'[v] <=> stage'[u] = "ready" /\ owner'[u] = v
               /\ u \in t_sleep'[v] <=> stage'[u] = "sleep" /\ owner'[u] = v
               /\ u \in t_hold'[v] <=> stage'[u] = "hold" /\ owner'[u] = v
    BY <1>0, <1>0a, <2>1 DEF Places, SetTypeOK
  <2>2. ASSUME NEW v \in Workers, NEW u \in Fibers
        PROVE  wpc'[v] = "resumed" /\ task'[v] = u <=> stage'[u] = "running" /\ owner'[u] = v
    BY <1>0, <1>0a, <2>2 DEF Places, At, WorkerTypeOK
  <2>3. ASSUME NEW v \in Workers, NEW u \in Fibers
        PROVE  u \in Elems(t_init'[v]) <=> stage'[u] = "init" /\ owner'[u] = v
    BY <1>0, <1>0a, <2>3 DEF Places
  <2> QED BY <1>0, <2>1, <2>2, <2>3 DEF Places, At
<1>11. Load'
  <2>1. CASE FiberOver(m_state[t])
    <3>0. UNCHANGED owner /\ owner[t] = w /\ stage'[t] = "done"
      BY <1>0, <1>0a, <2>1
    <3>1. \A v \in Workers : Dealt(v)' = (IF v = w THEN Dealt(v) \ {t} ELSE Dealt(v))
      BY <1>0a, <3>0 DEF Dealt, Held
    <3>2. /\ IsFiniteSet(Dealt(w) \ {t})
          /\ Cardinality(Dealt(w) \ {t}) = Cardinality(Dealt(w)) - 1
      BY <1>0b, FS_RemoveElement DEF Load
    <3>3. wcount'[w] = wcount[w] - 1 /\ \A v \in Workers : v # w => wcount'[v] = wcount[v]
      BY <1>0, <2>1 DEF WorkerTypeOK
    <3>4. wcount[w] \in Nat /\ left \in Nat /\ (left > 0 => k \in Workers /\ wcount[k] \in Nat)
      BY Constants DEF WorkerTypeOK, SharedTypeOK, Load, Locks
    <3>5. left > 0 => wcount'[k] <= wcount[k] /\ wcount'[k] \in Int
      BY <3>3, <3>4
    <3>6. left' > 0 => apc' = "move" /\ wcount'[k'] + left' <= WorkerCap + Batch - 1
      BY <1>0, <3>4, <3>5, Constants DEF Load
    <3>7. wcount'[w] = Cardinality(Dealt(w) \ {t}) /\ wcount'[w] <= WorkerCap + Batch - 1
      BY <3>2, <3>3, <3>4, Constants DEF Load
    <3> QED BY <3>1, <3>2, <3>3, <3>6, <3>7 DEF Load
  <2>2. CASE ~FiberOver(m_state[t])
    <3>1. UNCHANGED <<wcount, owner, left, apc, k>> /\ stage[t] = "running"
      BY <1>0, <2>2
    <3>2. \A u \in Fibers : stage[u] \in Held <=> stage'[u] \in Held
      BY <1>0a, <2>2, <3>1 DEF Held
    <3> QED BY <3>1, <3>2, LoadStays DEF Load
  <2> QED BY <2>1, <2>2
<1> QED BY <1>1, <1>2, <1>3, <1>4, <1>5, <1>6, <1>7, <1>8, <1>9, <1>10, <1>11

\* The code of a fiber touches nothing of the scheduler but through submit().
LEMMA SliceStep ==
  ASSUME IInv, NEW w \in Workers, NEW op \in Ops, Slice(w, op)
  PROVE  IInv'
<1> USE DEF IInv, TypeOK
<1>1. /\ SharedTypeOK' /\ WorkerTypeOK' /\ SetTypeOK' /\ StageTypeOK' /\ Owner'
      /\ Locks' /\ Control' /\ Submitting' /\ Queue' /\ Places' /\ Load'
  BY SharedTypeOKFrame, WorkerTypeOKFrame, SetTypeOKFrame, StageTypeOKFrame,
    OwnerFrame, LocksFrame, ControlFrame, SubmittingFrame, QueueFrame, PlacesFrame,
    LoadFrame DEF Slice, schedVars, fiberVars, queueVars, ctlVars, allocVars,
    readyVars, localVars, ghostVars
<1>2. FiberTypeOK'
  <2>1. w \in Threads /\ ~InMain(w)
    BY Constants DEF Slice
  <2> QED BY <2>1, SliceTypes, Constants DEF Slice
<1> QED BY <1>1, <1>2

\* Time is no part of the scheduler's own state.
LEMMA TickStep ==
  ASSUME IInv, Tick
  PROVE  IInv'
<1> USE DEF IInv, TypeOK
<1>1. /\ SharedTypeOK' /\ WorkerTypeOK' /\ SetTypeOK' /\ StageTypeOK' /\ Owner'
      /\ Locks' /\ Control' /\ Submitting' /\ Queue' /\ Places' /\ Load'
  BY SharedTypeOKFrame, WorkerTypeOKFrame, SetTypeOKFrame, StageTypeOKFrame,
    OwnerFrame, LocksFrame, ControlFrame, SubmittingFrame, QueueFrame, PlacesFrame,
    LoadFrame DEF Tick, schedVars, fiberVars, queueVars, ctlVars, allocVars, readyVars,
    localVars, ghostVars
<1>2. FiberTypeOK'
  BY DEF Tick, FiberTypeOK, fiberState
<1> QED BY <1>1, <1>2

\* start() is called only while the alloc thread is not running.
LEMMA StartBeginStep ==
  ASSUME IInv, StartBegin
  PROVE  IInv'
<1> USE DEF IInv, TypeOK
<1>1. /\ FiberTypeOK' /\ WorkerTypeOK' /\ SetTypeOK' /\ StageTypeOK' /\ Locks'
      /\ Control' /\ Submitting' /\ Queue' /\ Places' /\ Load'
  BY FiberTypeOKFrame, WorkerTypeOKFrame, SetTypeOKFrame, StageTypeOKFrame, LocksFrame,
    ControlFrame, SubmittingFrame, QueueFrame, PlacesFrame, LoadFrame DEF StartBegin,
    fiberVars, queueVars, ctlVars, allocVars, readyVars, localVars, ghostVars
<1>2. SharedTypeOK'
  <2>1. starts' \in 0 .. MaxStarts
    BY Constants DEF StartBegin, SharedTypeOK
  <2> QED BY <2>1 DEF StartBegin, SharedTypeOK, queueVars, allocVars
<1>3. Owner'
  BY Constants DEF StartBegin, Owner, SharedTypeOK, fiberVars, queueVars, ctlVars,
    allocVars, readyVars, localVars, ghostVars
<1> QED BY <1>1, <1>2, <1>3

\* The new worker is one that has never run, and its queues are empty.
LEMMA StartWorkerStep ==
  ASSUME IInv, StartWorker
  PROVE  IInv'
<1> USE DEF IInv, TypeOK
<1>0. /\ m_workers' = m_workers + 1 /\ m_workers' \in 1 .. WorkerCount
      /\ m_workers' \in Workers /\ wpc[m_workers'] = "off"
      /\ wpc' = [wpc EXCEPT ![m_workers'] = "loop"]
      /\ UNCHANGED <<m_stop, m_tasks, m_count, starts, ctl, mutex, sub, apc, k, left, wlock>>
      /\ UNCHANGED <<t_init, t_ready, t_sleep, t_hold, task, stage, owner>>
  <2>1. starts * ThreadCount <= MaxStarts * ThreadCount
    BY Constants, TimesMonotone DEF SharedTypeOK
  <2>2. m_workers + 1 \in 1 .. WorkerCount
    BY <2>1, Constants, TimesNat DEF StartWorker, SharedTypeOK, WorkerCount
  <2>3. wpc[m_workers + 1] = "off"
    BY <2>2, Constants DEF Control, At, SharedTypeOK
  <2> QED BY <2>2, <2>3, Constants DEF StartWorker, Goto, queueVars, allocVars, readyVars,
          ghostVars
<1>1. /\ FiberTypeOK' /\ SetTypeOK' /\ StageTypeOK' /\ Owner' /\ Submitting'
      /\ Queue' /\ Load'
  BY FiberTypeOKFrame, SetTypeOKFrame, StageTypeOKFrame, OwnerFrame, SubmittingFrame,
    QueueFrame, LoadFrame DEF StartWorker, Goto, fiberVars, queueVars, ctlVars,
    allocVars, readyVars, localVars, ghostVars
<1>2. SharedTypeOK'
  BY <1>0 DEF SharedTypeOK
<1>3. WorkerTypeOK'
  BY Constants DEF StartWorker, Goto, WorkerTypeOK, fiberVars, queueVars, ctlVars,
    allocVars, readyVars, localVars, ghostVars
<1>4. Locks'
  BY <1>0, Constants DEF Locks, At, SharedTypeOK, WorkerTypeOK
<1>5. Control'
  BY Constants DEF StartWorker, Goto, Control, SharedTypeOK, WorkerTypeOK, SetTypeOK,
    At, fiberVars, queueVars, ctlVars, allocVars, readyVars, localVars, ghostVars
<1>6. Places'
  <2>1. /\ UNCHANGED <<t_init, t_ready, t_sleep, t_hold, task, stage, owner>>
        /\ \A w \in Workers : wpc'[w] = "resumed" <=> wpc[w] = "resumed"
    BY <1>0 DEF WorkerTypeOK
  <2> QED BY <2>1 DEF Places, At
<1> QED BY <1>1, <1>2, <1>3, <1>4, <1>5, <1>6

\* A new alloc thread begins without the locks of the old one.
LEMMA StartAllocStep ==
  ASSUME IInv, StartAlloc
  PROVE  IInv'
<1> USE DEF IInv, TypeOK
<1>0. /\ apc \in {"off", "exited"} /\ mutex # Alloc /\ left = 0
      /\ UNCHANGED <<mutex, left, m_workers, wpc, wlock, wcount, stage, owner>>
      /\ apc' \in {"off", "exited", "loop"} /\ abort' \in {"~Fiber", abort}
      /\ UNCHANGED <<m_state, waketime, this_fiber, now>>
  BY DEF StartAlloc, Owner, Locks, Load, SharedTypeOK, queueVars, localVars, ghostVars, fiberState
<1>1. /\ WorkerTypeOK' /\ SetTypeOK' /\ StageTypeOK' /\ Control' /\ Submitting'
      /\ Queue' /\ Places'
  BY WorkerTypeOKFrame, SetTypeOKFrame, StageTypeOKFrame, ControlFrame,
    SubmittingFrame, QueueFrame, PlacesFrame DEF StartAlloc, fiberVars, queueVars,
    ctlVars, allocVars, readyVars, localVars, ghostVars
<1>2. FiberTypeOK'
  BY <1>0 DEF FiberTypeOK, FiberFaults
<1>3. SharedTypeOK'
  BY Constants DEF StartAlloc, SharedTypeOK, fiberVars, queueVars, ctlVars, allocVars,
    readyVars, localVars, ghostVars
<1>4. Owner'
  BY Constants DEF StartAlloc, Owner, SharedTypeOK, fiberVars, queueVars, ctlVars,
    allocVars, readyVars, localVars, ghostVars
<1>5. Locks'
  BY <1>0 DEF Locks, At
<1>6. Load'
  BY <1>0, LoadStays
<1> QED BY <1>1, <1>2, <1>3, <1>4, <1>5, <1>6

\* m_stop alone changes, and the alloc thread goes on.
LEMMA StopBeginStep ==
  ASSUME IInv, StopBegin
  PROVE  IInv'
<1> USE DEF IInv, TypeOK
<1>1. /\ FiberTypeOK' /\ WorkerTypeOK' /\ SetTypeOK' /\ StageTypeOK' /\ Locks'
      /\ Control' /\ Submitting' /\ Queue' /\ Places' /\ Load'
  BY FiberTypeOKFrame, WorkerTypeOKFrame, SetTypeOKFrame, StageTypeOKFrame, LocksFrame,
    ControlFrame, SubmittingFrame, QueueFrame, PlacesFrame, LoadFrame DEF StopBegin,
    fiberVars, queueVars, ctlVars, allocVars, readyVars, localVars, ghostVars
<1>2. SharedTypeOK'
  BY Constants DEF StopBegin, SharedTypeOK, fiberVars, queueVars, ctlVars, allocVars,
    readyVars, localVars, ghostVars
<1>3. Owner'
  BY Constants DEF StopBegin, Owner, SharedTypeOK, fiberVars, queueVars, ctlVars,
    allocVars, readyVars, localVars, ghostVars
<1> QED BY <1>1, <1>2, <1>3

\* The alloc thread is over when stop() returns.
LEMMA StopJoinStep ==
  ASSUME IInv, StopJoin
  PROVE  IInv'
<1> USE DEF IInv, TypeOK
<1>1. /\ FiberTypeOK' /\ WorkerTypeOK' /\ SetTypeOK' /\ StageTypeOK' /\ Locks'
      /\ Control' /\ Submitting' /\ Queue' /\ Places' /\ Load'
  BY FiberTypeOKFrame, WorkerTypeOKFrame, SetTypeOKFrame, StageTypeOKFrame, LocksFrame,
    ControlFrame, SubmittingFrame, QueueFrame, PlacesFrame, LoadFrame DEF StopJoin,
    fiberVars, queueVars, ctlVars, allocVars, readyVars, localVars, ghostVars
<1>2. SharedTypeOK'
  BY Constants DEF StopJoin, SharedTypeOK, fiberVars, queueVars, ctlVars, allocVars,
    readyVars, localVars, ghostVars
<1>3. Owner'
  BY Constants DEF StopJoin, Owner, SharedTypeOK, fiberVars, queueVars, ctlVars,
    allocVars, readyVars, localVars, ghostVars
<1> QED BY <1>1, <1>2, <1>3

\* ~Scheduler runs when every thread of the scheduler is over.
LEMMA DestructStep ==
  ASSUME IInv, Destruct
  PROVE  IInv'
<1> USE DEF IInv, TypeOK
<1>1. /\ WorkerTypeOK' /\ SetTypeOK' /\ StageTypeOK' /\ Locks' /\ Control'
      /\ Submitting' /\ Queue' /\ Places' /\ Load'
  BY WorkerTypeOKFrame, SetTypeOKFrame, StageTypeOKFrame, LocksFrame, ControlFrame,
    SubmittingFrame, QueueFrame, PlacesFrame, LoadFrame DEF Destruct, fiberVars,
    queueVars, ctlVars, allocVars, readyVars, localVars, ghostVars
<1>2. FiberTypeOK'
  BY DEF Destruct, FiberTypeOK, FiberFaults, fiberState
<1>3. SharedTypeOK'
  BY Constants DEF Destruct, SharedTypeOK, fiberVars, queueVars, ctlVars, allocVars,
    readyVars, localVars, ghostVars
<1>4. Owner'
  BY Constants DEF Destruct, Owner, SharedTypeOK, fiberVars, queueVars, ctlVars,
    allocVars, readyVars, localVars, ghostVars
<1> QED BY <1>1, <1>2, <1>3, <1>4

(***************************************************************************)
(* The theorems.                                                           *)
(***************************************************************************)
\* The constructors establish the invariant.
LEMMA InitHolds == Init => IInv
<1> SUFFICES ASSUME Init PROVE IInv
  OBVIOUS
<1>1. TypeOK
  BY Constants DEF Init, FiberInit, TypeOK, FiberTypeOK, SharedTypeOK, WorkerTypeOK,
     SetTypeOK, StageTypeOK, State, Stage
<1>2. Owner /\ Locks /\ Control
  BY Constants DEF Init, FiberInit, Owner, Locks, Control, At
<1>3. Submitting /\ Queue
  BY Constants, EmptyQueue DEF Init, Submitting, Queue
<1>4. Places
  BY Constants, EmptyQueue DEF Init, Places, At
<1>5. \A w \in Workers : Dealt(w) = {}
  BY DEF Init, Dealt, Held
<1>6. Load
  <2>1. IsFiniteSet({}) /\ Cardinality({}) = 0
    BY FS_EmptySet
  <2>2. 0 <= WorkerCap + Batch - 1
    BY Constants
  <2>3. \A w \in Workers : IsFiniteSet(Dealt(w)) /\ Cardinality(Dealt(w)) = 0
    BY <1>5, <2>1
  <2>4. left = 0 /\ \A w \in Workers : wcount[w] = 0
    BY DEF Init
  <2> QED BY <2>2, <2>3, <2>4 DEF Load
<1> QED BY <1>1, <1>2, <1>3, <1>4, <1>6 DEF IInv

\* Every step keeps it.
LEMMA NextHolds == IInv /\ [Next]_vars => IInv'
<1> SUFFICES ASSUME IInv, [Next]_vars PROVE IInv'
  OBVIOUS
<1>1. ASSUME NEW p \in Threads, Submit(p) PROVE IInv'
  BY <1>1, SubmitCheckStep, SubmitPushStep DEF Submit
<1>2. CASE AllocStep
  BY <1>2, AllocExitStep, AllocLockStep, AllocLockWorkerStep, AllocMoveStep,
     AllocUnlockStep DEF AllocStep
<1>3. ASSUME NEW w \in Workers, WorkerStep(w) PROVE IInv'
  BY <1>3, WorkerExitStep, WorkerLockStep, WorkerLockFailsStep, WorkerDrainStep,
     WorkerUnlockStep, WorkerWakeStep, WorkerNotifyStep, AfterNotifyStep, WorkerRunStep,
     WorkerNothingReadyStep, AfterResumeStep DEF WorkerStep
<1>4. ASSUME NEW w \in Workers, NEW op \in Ops, Slice(w, op) PROVE IInv'
  BY <1>4, SliceStep
<1>5. CASE Tick
  BY <1>5, TickStep
<1>6. CASE OwnerStep
  BY <1>6, StartBeginStep, StartWorkerStep, StartAllocStep, StopBeginStep, StopJoinStep,
     DestructStep DEF OwnerStep
<1>7. CASE UNCHANGED vars
  <2>1. /\ FiberTypeOK' /\ SharedTypeOK' /\ WorkerTypeOK'
        /\ SetTypeOK' /\ StageTypeOK'
    BY <1>7, FiberTypeOKFrame, SharedTypeOKFrame, WorkerTypeOKFrame, SetTypeOKFrame,
       StageTypeOKFrame DEF IInv, TypeOK, vars, schedVars, queueVars, ctlVars, allocVars,
       readyVars, localVars, ghostVars
  <2>2. Owner' /\ Locks' /\ Control'
    BY <1>7, OwnerFrame, LocksFrame, ControlFrame DEF IInv, vars, schedVars, queueVars,
       ctlVars, allocVars, readyVars, localVars
  <2>3. Submitting' /\ Queue' /\ Places' /\ Load'
    BY <1>7, SubmittingFrame, QueueFrame, PlacesFrame, LoadFrame DEF IInv, vars, schedVars,
       queueVars, allocVars, readyVars, localVars, ghostVars
  <2> QED BY <2>1, <2>2, <2>3 DEF IInv, TypeOK
<1> QED BY <1>1, <1>2, <1>3, <1>4, <1>5, <1>6, <1>7 DEF Next, Over

\* The invariant that the others follow from, for any number of threads, tasks and starts.
THEOREM Inductive == Spec => []IInv
BY InitHolds, NextHolds, PTL DEF Spec

\* Every variable keeps its type: in particular the index of the worker being dealt to
\* stays within the workers, however many a restart adds (scheduler.cpp 125-128).
THEOREM TypeCorrect == Spec => []TypeOK
<1>1. IInv => TypeOK
  BY DEF IInv
<1> QED BY <1>1, Inductive, PTL

\* A submitted task is in exactly one place, once, whatever the interleaving of
\* submitters, alloc thread and workers (scheduler.cpp 26-103, 124-146).
THEOREM PlacedOnceHolds == Spec => []PlacedOnce
<1>1. ASSUME IInv PROVE PlacedOnce
  <2>1. NoRepeats(m_tasks) /\ Elems(m_tasks) = {t \in Fibers : stage[t] = "queued"}
    <3>1. Elems(m_tasks) \subseteq Fibers
      BY <1>1, QueueElems DEF IInv, TypeOK, SharedTypeOK
    <3> QED BY <1>1, <3>1 DEF IInv, Queue
  <2>2. /\ \A p, q \in Threads : sub[p] = sub[q] /\ sub[p] # NoTask => p = q
        /\ {t \in Fibers : stage[t] = "submitting"} = {sub[p] : p \in Threads} \ {NoTask}
    BY <1>1, Constants DEF IInv, Submitting, TypeOK, SharedTypeOK
  <2>3. ASSUME NEW w \in Workers
        PROVE  /\ NoRepeats(t_init[w]) /\ Elems(t_init[w]) = OwnedAt(w, "init")
               /\ t_ready[w] = OwnedAt(w, "ready") /\ t_sleep[w] = OwnedAt(w, "sleep")
               /\ t_hold[w] = OwnedAt(w, "hold")
    <3>1. Elems(t_init[w]) \subseteq Fibers
      BY <1>1, QueueElems DEF IInv, TypeOK, WorkerTypeOK
    <3>2. t_ready[w] \subseteq Fibers /\ t_sleep[w] \subseteq Fibers /\ t_hold[w] \subseteq Fibers
      BY <1>1 DEF IInv, TypeOK, SetTypeOK
    <3> QED BY <1>1, <3>1, <3>2 DEF IInv, Places, OwnedAt
  <2>4. ASSUME NEW w \in Workers
        PROVE  OwnedAt(w, "running") = IF At(w, "resumed") THEN {task[w]} ELSE {}
    <3>1. At(w, "resumed") => task[w] \in Fibers
      BY <1>1 DEF IInv, TypeOK, WorkerTypeOK, Control, At
    <3> QED BY <1>1, <3>1 DEF IInv, Places, OwnedAt
  <2> QED BY <2>1, <2>2, <2>3, <2>4 DEF PlacedOnce
<1> QED BY <1>1, Inductive, PTL

\* Both counters, which the loop conditions read without a lock, are exact
\* (scheduler.cpp 18, 100, 118, 141, 142, 264).
THEOREM AccountingHolds == Spec => []Accounting
<1>1. IInv => Accounting
  BY DEF IInv, Queue, Load, Accounting
<1> QED BY <1>1, Inductive, PTL

\* The queue keeps its limit and a worker overshoots its own by less than a batch
\* (scheduler.cpp 133, 261).
THEOREM BoundedHolds == Spec => []Bounded
<1>1. IInv => Bounded
  BY DEF IInv, Queue, Load, Bounded
<1> QED BY <1>1, Inductive, PTL

\* A worker that has left its loop abandons nothing but tasks it never started
\* (scheduler.cpp 18).
THEOREM ExitedCleanHolds == Spec => []ExitedClean
<1>1. ASSUME IInv PROVE ExitedClean
  <2> SUFFICES ASSUME NEW w \in Workers, At(w, "exited"), NEW t \in Dealt(w)
               PROVE  stage[t] = "init"
    BY DEF ExitedClean, Dealt, OwnedAt, Held
  <2>1. t_ready[w] = {} /\ t_sleep[w] = {} /\ t_hold[w] = {}
    BY <1>1 DEF IInv, Control, At
  <2>2. ~At(w, "resumed")
    BY DEF At
  <2> QED BY <1>1, <2>1, <2>2 DEF IInv, Places, Dealt, Held
<1> QED BY <1>1, Inductive, PTL

-----------------------------------------------------------------------------
(* The inductive invariant, besides IInv. *)

\* A task that a worker has was dealt to one that exists.
Owned == \A t \in Fibers : stage[t] \in Held => owner[t] \in Workers

\* A thread that executes a fiber is the worker that has its task in its hands.
InHand ==
  \A p \in Threads : ~InMain(p) =>
    /\ p \in Workers /\ wpc[p] \in {"notified", "resumed"}
    /\ this_fiber[p] = task[p]

\* The state of a fiber, by how far its task got.
Agrees(t) ==
  /\ stage[t] \in {"fresh", "submitting", "queued", "init"} => m_state[t] = "INIT"
  /\ stage[t] = "ready" => m_state[t] = "READY"
  /\ stage[t] = "sleep" => m_state[t] = "SLEEP"
  /\ stage[t] = "hold" =>
       IF task[owner[t]] # t THEN m_state[t] = "HOLD"
       ELSE IF InMain(owner[t]) THEN m_state[t] \in {"HOLD", "READY"}
       ELSE m_state[t] = "EXEC"
  /\ stage[t] = "running" =>
       IF InMain(owner[t]) THEN m_state[t] \in {"HOLD", "READY", "SLEEP", "DESTROY"}
       ELSE m_state[t] = "EXEC"
  /\ stage[t] \in {"done", "refused"} => m_state[t] = "DESTROY"

\* The switch is off while the scheduler is started.
Switch == m_stop <=> ctl \in {"stopped", "joining", "destroyed"}

\* What the process may die of.
Deaths == /\ abort \in {"none", "MainFunc", "destroy", "~Fiber"}
          /\ NoEarlyDrop

States == InHand /\ \A t \in Fibers : Agrees(t)
SInv == Owned /\ Switch /\ Deaths /\ (Alive => States)
-----------------------------------------------------------------------------
(* What the invariant says, in the form that the steps use. *)

\* The part of SInv about fibers holds as long as steps are taken; a notified fiber only yields or holds.
Premise == IInv /\ SInv /\ Alive /\ NotifyOps \subseteq {"yield", "hold"}

\* The types of what the steps below change.
LEMMA Types ==
  ASSUME IInv
  PROVE  /\ m_state \in [Fibers -> State] /\ this_fiber \in [Threads -> Fibers \cup {MainFiber}]
         /\ wpc \in [Workers -> {"off", "loop", "drain", "wake", "pass", "notified", "resumed", "exited"}]
         /\ task \in [Workers -> Fibers \cup {NoTask}]
         /\ stage \in [Fibers -> Stage] /\ owner \in [Fibers -> Workers \cup {Free}]
         /\ Workers \subseteq Threads
BY Constants DEF IInv, TypeOK, FiberTypeOK, SharedTypeOK, WorkerTypeOK, StageTypeOK

\* Steps that concern neither a fiber nor the worker that has it.
LEMMA Apart ==
  ASSUME Premise, UNCHANGED <<fiberVars, m_stop, ctl, task, owner, stage>>,
         \A w \in Workers : wpc[w] \in {"notified", "resumed"} => wpc'[w] = wpc[w]
  PROVE  SInv'
BY DEF Premise, SInv, Owned, Switch, Deaths, NoEarlyDrop, States, InHand, Agrees, InMain, Alive, fiberVars

-----------------------------------------------------------------------------
(* The steps. *)

\* The alloc thread deals tasks that are INIT (scheduler.cpp:135-143).
LEMMA AllocStates == ASSUME Premise, AllocStep PROVE SInv'
<1>1. CASE AllocExit \/ AllocLock \/ AllocLockWorker \/ AllocUnlock
  BY <1>1, Apart DEF AllocExit, AllocLock, AllocLockWorker, AllocUnlock, ctlVars, localVars, ghostVars
<1>2. CASE AllocMove
  <2>1. PICK t \in Fibers : /\ stage[t] = "queued" /\ k \in Workers
                            /\ stage' = [stage EXCEPT ![t] = "init"] /\ owner' = [owner EXCEPT ![t] = k]
    <3>1. m_tasks \in Seq(Fibers) /\ m_tasks # <<>> /\ NoRepeats(m_tasks)
      BY <1>2 DEF AllocMove, Premise, IInv, TypeOK, SharedTypeOK, Queue
    <3>2. Head(m_tasks) \in Fibers /\ Head(m_tasks) \in Elems(m_tasks) BY <3>1, PopLemma
    <3>3. stage[Head(m_tasks)] = "queued" BY <3>2 DEF Premise, IInv, Queue
    <3>4. k \in Workers BY <1>2, Constants DEF AllocMove, Premise, IInv, Locks, TypeOK, SharedTypeOK
    <3> QED BY <1>2, <3>2, <3>3, <3>4 DEF AllocMove
  <2>2. UNCHANGED <<fiberVars, m_stop, ctl, wpc, task>> BY <1>2 DEF AllocMove, ctlVars, localVars
  <2>3. Owned' BY <2>1, Types DEF Premise, SInv, Owned, Held, Stage
  <2>4. InHand' BY <2>2 DEF Premise, SInv, States, InHand, InMain, fiberVars
  <2>5. ASSUME NEW u \in Fibers PROVE Agrees(u)'
    BY <2>1, <2>2, Types DEF Premise, SInv, States, Agrees, InMain, fiberVars
  <2> QED BY <2>2, <2>3, <2>4, <2>5 DEF Premise, SInv, Switch, Deaths, NoEarlyDrop, States, Alive, fiberVars
<1> QED BY <1>1, <1>2 DEF AllocStep

\* The scheduler's owner drops nothing while it is started (scheduler.cpp:226-256).
LEMMA OwnerStates == ASSUME Premise, OwnerStep PROVE SInv'
<1>1. /\ UNCHANGED <<m_state, this_fiber, task, owner, stage>>
      /\ \A w \in Workers : wpc[w] \in {"notified", "resumed"} => wpc'[w] = wpc[w]
  BY Types DEF OwnerStep, StartBegin, StartWorker, StartAlloc, StopBegin, StopJoin, Destruct, Goto,
     fiberVars, fiberState, localVars, ghostVars, Premise, IInv, Control, At, SharedTypeOK, TypeOK
<1>2. Owned' BY <1>1 DEF Premise, SInv, Owned
<1>3. States' BY <1>1 DEF Premise, SInv, States, InHand, Agrees, InMain
<1>4. Switch'
  BY DEF Premise, SInv, Switch, OwnerStep, StartBegin, StartWorker, StartAlloc, StopBegin, StopJoin, Destruct
<1>5. Deaths'
  BY DEF Premise, SInv, Deaths, NoEarlyDrop, Alive, OwnerStep, StartBegin, StartWorker, StartAlloc, StopBegin,
         StopJoin, Destruct, fiberVars
<1> QED BY <1>2, <1>3, <1>4, <1>5 DEF SInv

\* submit() drops a fiber in INIT only when it is switched off, and destroys one only from a main fiber
\* (scheduler.cpp:258-272).
LEMMA SubmitStates == ASSUME Premise, NEW p \in Threads, Submit(p) PROVE SInv'
<1>1. CASE SubmitPush(p)
  <2>1. PICK t \in Fibers : /\ t = sub[p] /\ stage[t] = "submitting"
                            /\ \/ stage' = [stage EXCEPT ![t] = "queued"] /\ UNCHANGED fiberVars
                               \/ stage' = [stage EXCEPT ![t] = "refused"] /\ FiberDestroy(p, t)
    BY <1>1, Constants DEF SubmitPush, Premise, IInv, TypeOK, SharedTypeOK, Submitting
  <2>2. UNCHANGED <<m_stop, ctl, wpc, task, owner>> BY <1>1 DEF SubmitPush, ctlVars, localVars
  <2>3. Owned' /\ Switch' BY <2>1, <2>2, Types DEF Premise, SInv, Owned, Held, Stage, Switch
  <2>4. Deaths' BY <2>1, <2>2 DEF Premise, SInv, Deaths, NoEarlyDrop, Alive, FiberDestroy, Asserting, fiberVars
  <2>5. ASSUME Alive' PROVE States'
    <3>1. /\ UNCHANGED this_fiber
          /\ \/ stage' = [stage EXCEPT ![t] = "queued"] /\ UNCHANGED m_state
             \/ stage' = [stage EXCEPT ![t] = "refused"] /\ m_state' = [m_state EXCEPT ![t] = "DESTROY"]
      BY <2>1, <2>5 DEF FiberDestroy, Asserting, Become, Alive, fiberVars
    <3>2. InHand' BY <2>2, <3>1 DEF Premise, SInv, States, InHand, InMain
    <3>3. ASSUME NEW u \in Fibers PROVE Agrees(u)'
      BY <2>1, <2>2, <3>1, Types DEF Premise, SInv, States, Agrees, InMain
    <3> QED BY <3>2, <3>3 DEF States
  <2> QED BY <2>3, <2>4, <2>5 DEF SInv
<1>2. ASSUME NEW t \in Fibers, SubmitCheck(p, t) PROVE SInv'
  <2>1. /\ stage[t] = "fresh" /\ UNCHANGED <<m_stop, ctl, wpc, task, owner>>
        /\ \/ m_stop /\ FiberDrop(p, t) /\ UNCHANGED stage
           \/ UNCHANGED fiberVars /\ stage' = [stage EXCEPT ![t] = "submitting"]
    BY <1>2 DEF SubmitCheck, ctlVars, localVars
  <2>2. Owned' /\ Switch' BY <2>1, Types DEF Premise, SInv, Owned, Held, Stage, Switch
  <2>3. Deaths'
    BY <2>1 DEF Premise, SInv, Switch, Deaths, NoEarlyDrop, Alive, FiberDrop, Asserting, fiberVars
  <2>4. States'
    <3>1. UNCHANGED <<m_state, this_fiber>> BY <2>1 DEF FiberDrop, Asserting, fiberVars, fiberState
    <3>2. InHand' BY <2>1, <3>1 DEF Premise, SInv, States, InHand, InMain
    <3>3. ASSUME NEW u \in Fibers PROVE Agrees(u)'
      BY <2>1, <3>1, Types DEF Premise, SInv, States, Agrees, InMain
    <3> QED BY <3>2, <3>3 DEF States
  <2> QED BY <2>2, <2>3, <2>4 DEF SInv
<1> QED BY <1>1, <1>2 DEF Submit
\* Where a task in the hands of a worker is, and that nobody else has it.
LEMMA TaskOf ==
  ASSUME IInv, NEW w \in Workers
  PROVE  /\ wpc[w] \in {"notified", "resumed"} => task[w] \in Fibers /\ owner[task[w]] = w
         /\ wpc[w] = "notified" => stage[task[w]] = "hold"
         /\ wpc[w] = "resumed" => stage[task[w]] = "running"
         /\ wpc[w] \notin {"notified", "resumed"} => task[w] = NoTask
BY Types, Constants DEF IInv, Control, Places, At

\* A worker's loop makes no call that asserts: the queue a task is in tells the state of its fiber
\* (scheduler.cpp:24-104).
LEMMA DrainStates == ASSUME Premise, NEW w \in Workers, WorkerDrain(w) PROVE SInv'
<1>1. PICK t \in Fibers : /\ stage[t] = "init" /\ owner[t] = w /\ FiberStart(w, t)
                          /\ stage' = [stage EXCEPT ![t] = "ready"]
  <2>1. t_init[w] \in Seq(Fibers) /\ t_init[w] # <<>> /\ NoRepeats(t_init[w])
    BY DEF WorkerDrain, Premise, IInv, TypeOK, WorkerTypeOK, Places
  <2>2. Head(t_init[w]) \in Fibers /\ Head(t_init[w]) \in Elems(t_init[w]) BY <2>1, PopLemma
  <2>3. stage[Head(t_init[w])] = "init" /\ owner[Head(t_init[w])] = w BY <2>2 DEF Premise, IInv, Places
  <2> QED BY <2>2, <2>3 DEF WorkerDrain
<1>2. UNCHANGED <<m_stop, ctl, wpc, task, owner>> /\ wpc[w] = "drain"
  BY DEF WorkerDrain, At, ctlVars, localVars
<1>3. InMain(w) /\ m_state[t] = "INIT"
  BY <1>1, <1>2, Types DEF Premise, SInv, States, InHand, Agrees
<1>4. UNCHANGED <<this_fiber, abort>> /\ m_state' = [m_state EXCEPT ![t] = "READY"]
  BY <1>1, <1>3 DEF FiberStart, Asserting, Become
<1>5. Owned' /\ Switch' /\ Deaths'
  BY <1>1, <1>2, <1>4, Types DEF Premise, SInv, Owned, Held, Stage, Switch, Deaths, NoEarlyDrop
<1>6. InHand' BY <1>2, <1>4 DEF Premise, SInv, States, InHand, InMain
<1>7. ASSUME NEW u \in Fibers PROVE Agrees(u)'
  BY <1>1, <1>2, <1>4, Types DEF Premise, SInv, States, Agrees, InMain
<1> QED BY <1>5, <1>6, <1>7 DEF SInv, States

\* Waking takes sleepers only.
LEMMA WakeStates == ASSUME Premise, NEW w \in Workers, WorkerWake(w) PROVE SInv'
<1>1. UNCHANGED <<m_stop, ctl, task, owner>> /\ wpc[w] = "wake" /\ wpc' = [wpc EXCEPT ![w] = "pass"]
  BY DEF WorkerWake, At, Goto, ctlVars
<1>2. InMain(w) BY <1>1, Types DEF Premise, SInv, States, InHand
<1>3. \A t \in Due(w) : t \in Fibers /\ stage[t] = "sleep" /\ owner[t] = w /\ m_state[t] = "SLEEP"
  BY DEF Due, Premise, IInv, TypeOK, SetTypeOK, Places, SInv, States, Agrees
<1>4. UNCHANGED <<this_fiber, abort>>
      /\ m_state' = [t \in Fibers |-> IF t \in Due(w) THEN "READY" ELSE m_state[t]]
      /\ stage' = [t \in Fibers |-> IF t \in Due(w) THEN "ready" ELSE stage[t]]
  BY <1>2, <1>3 DEF WorkerWake, Asserting
<1>5. Owned' /\ Switch' /\ Deaths'
  BY <1>1, <1>3, <1>4, Types DEF Premise, SInv, Owned, Held, Stage, Switch, Deaths, NoEarlyDrop
<1>6. InHand' BY <1>1, <1>4, Types DEF Premise, SInv, States, InHand, InMain
<1>7. ASSUME NEW u \in Fibers PROVE Agrees(u)'
  BY <1>1, <1>3, <1>4, Types DEF Premise, SInv, States, Agrees, InMain
<1> QED BY <1>5, <1>6, <1>7 DEF SInv, States

\* notify() switches into a fiber that is HOLD.
LEMMA NotifyStates == ASSUME Premise, NEW w \in Workers, NEW t \in Fibers, WorkerNotify(w, t) PROVE SInv'
<1>1. /\ UNCHANGED <<m_stop, ctl, owner, stage>> /\ wpc[w] = "pass" /\ wpc' = [wpc EXCEPT ![w] = "notified"]
      /\ task' = [task EXCEPT ![w] = t] /\ stage[t] = "hold" /\ owner[t] = w /\ FiberNotify(w, t)
  BY DEF WorkerNotify, At, Goto, ctlVars, ghostVars, Premise, IInv, Control, Places
<1>2. InMain(w) /\ task[w] # t /\ m_state[t] = "HOLD"
  BY <1>1, Types, TaskOf, Constants DEF Premise, SInv, States, InHand, Agrees
<1>3. /\ UNCHANGED abort /\ m_state' = [m_state EXCEPT ![t] = "EXEC"]
      /\ this_fiber' = [this_fiber EXCEPT ![w] = t]
  BY <1>1, <1>2 DEF FiberNotify, Asserting, SwitchIn
<1>4. Owned' /\ Switch' /\ Deaths'
  BY <1>1, <1>3 DEF Premise, SInv, Owned, Switch, Deaths, NoEarlyDrop
<1>5. InHand' BY <1>1, <1>3, Types DEF Premise, SInv, States, InHand, InMain
<1>6. ASSUME NEW u \in Fibers PROVE Agrees(u)'
  <2>1. ~InMain(w)' /\ task'[w] = t BY <1>1, <1>3, Types, FiberAssumption DEF InMain, Premise
  <2>2. CASE u = t BY <1>1, <1>3, <2>1, <2>2, Types DEF Agrees, Premise
  <2>3. CASE u # t /\ owner[u] = w
    <3>1. m_state'[u] = m_state[u] /\ stage'[u] = stage[u] /\ owner'[u] = w
      BY <1>1, <1>3, <2>3, Types DEF Premise
    <3>2. stage[u] # "running" /\ task[w] # u
      BY <1>1, <2>3, Types, TaskOf, Constants DEF Premise, IInv, Places, At
    <3>3. Agrees(u) BY DEF Premise, SInv, States
    <3> QED BY <2>1, <2>3, <3>1, <3>2, <3>3 DEF Agrees
  <2>4. CASE u # t /\ owner[u] # w
    <3>1. m_state'[u] = m_state[u] /\ stage'[u] = stage[u] /\ owner'[u] = owner[u]
      BY <1>1, <1>3, <2>4, Types DEF Premise
    <3>2. stage[u] \in Held => task'[owner[u]] = task[owner[u]] /\ InMain(owner[u])' = InMain(owner[u])
      BY <1>1, <1>3, <2>4, Types DEF Premise, SInv, Owned, InMain
    <3>3. Agrees(u) BY DEF Premise, SInv, States
    <3> QED BY <3>1, <3>2, <3>3 DEF Agrees, Held
  <2> QED BY <2>2, <2>3, <2>4
<1> QED BY <1>4, <1>5, <1>6 DEF SInv, States

\* A notified fiber comes back in HOLD or READY.
LEMMA AfterNotifyStates == ASSUME Premise, NEW w \in Workers, AfterNotify(w) PROVE SInv'
<1>1. PICK t \in Fibers : t = task[w] /\ stage[t] = "hold" /\ owner[t] = w
  BY TaskOf DEF AfterNotify, At, Premise
<1>2. /\ UNCHANGED <<fiberVars, m_stop, ctl, owner>> /\ InMain(w)
      /\ wpc[w] = "notified" /\ wpc' = [wpc EXCEPT ![w] = "pass"] /\ task' = [task EXCEPT ![w] = NoTask]
      /\ IF m_state[t] = "READY" THEN stage' = [stage EXCEPT ![t] = "ready"] ELSE UNCHANGED stage
  BY <1>1 DEF AfterNotify, At, Goto, ctlVars, CameBackReady
<1>3. Owned' /\ Switch' /\ Deaths'
  BY <1>1, <1>2, Types DEF Premise, SInv, Owned, Held, Stage, Switch, Deaths, NoEarlyDrop, fiberVars
<1>4. InHand' BY <1>2, Types DEF Premise, SInv, States, InHand, InMain, fiberVars
<1>5. ASSUME NEW u \in Fibers PROVE Agrees(u)'
  BY <1>1, <1>2, Types, Constants DEF Premise, SInv, States, Agrees, InMain, fiberVars, Owned, Held
<1> QED BY <1>3, <1>4, <1>5 DEF SInv, States

\* resume() switches into a fiber that is READY.
LEMMA RunStates == ASSUME Premise, NEW w \in Workers, NEW t \in Fibers, WorkerRun(w, t) PROVE SInv'
<1>1. /\ UNCHANGED <<m_stop, ctl, owner>> /\ wpc[w] = "pass" /\ wpc' = [wpc EXCEPT ![w] = "resumed"]
      /\ task' = [task EXCEPT ![w] = t] /\ stage[t] = "ready" /\ owner[t] = w /\ FiberResume(w, t)
      /\ stage' = [stage EXCEPT ![t] = "running"]
  BY DEF WorkerRun, At, Goto, ctlVars, Premise, IInv, Places
<1>2. InMain(w) /\ m_state[t] = "READY"
  BY <1>1, Types DEF Premise, SInv, States, InHand, Agrees
<1>3. /\ UNCHANGED abort /\ m_state' = [m_state EXCEPT ![t] = "EXEC"]
      /\ this_fiber' = [this_fiber EXCEPT ![w] = t]
  BY <1>1, <1>2 DEF FiberResume, Asserting, SwitchIn
<1>4. Owned' /\ Switch' /\ Deaths'
  BY <1>1, <1>3, Types DEF Premise, SInv, Owned, Held, Stage, Switch, Deaths, NoEarlyDrop
<1>5. InHand' BY <1>1, <1>3, Types DEF Premise, SInv, States, InHand, InMain
<1>6. ASSUME NEW u \in Fibers PROVE Agrees(u)'
  <2>1. ~InMain(w)' /\ task'[w] = t BY <1>1, <1>3, Types, FiberAssumption DEF InMain, Premise
  <2>2. CASE u = t BY <1>1, <1>3, <2>1, <2>2, Types DEF Agrees, Premise
  <2>3. CASE u # t /\ owner[u] = w
    <3>1. m_state'[u] = m_state[u] /\ stage'[u] = stage[u] /\ owner'[u] = w
      BY <1>1, <1>3, <2>3, Types DEF Premise
    <3>2. task[w] = NoTask BY <1>1, Types, TaskOf DEF Premise
    <3>3. stage[u] # "running" BY <1>1, <2>3 DEF Premise, IInv, Places, At
    <3>4. Agrees(u) BY DEF Premise, SInv, States
    <3> QED BY <1>1, <2>1, <2>3, <3>1, <3>2, <3>3, <3>4, Constants DEF Agrees
  <2>4. CASE u # t /\ owner[u] # w
    <3>1. m_state'[u] = m_state[u] /\ stage'[u] = stage[u] /\ owner'[u] = owner[u]
      BY <1>1, <1>3, <2>4, Types DEF Premise
    <3>2. stage[u] \in Held => task'[owner[u]] = task[owner[u]] /\ InMain(owner[u])' = InMain(owner[u])
      BY <1>1, <1>3, <2>4, Types DEF Premise, SInv, Owned, InMain
    <3>3. Agrees(u) BY DEF Premise, SInv, States
    <3> QED BY <3>1, <3>2, <3>3 DEF Agrees, Held
  <2> QED BY <2>2, <2>3, <2>4
<1> QED BY <1>4, <1>5, <1>6 DEF SInv, States

\* A resumed fiber comes back in one of the states that the worker tells apart, or is over.
LEMMA AfterResumeStates == ASSUME Premise, NEW w \in Workers, AfterResume(w) PROVE SInv'
<1>1. PICK t \in Fibers : t = task[w] /\ stage[t] = "running" /\ owner[t] = w
  BY TaskOf DEF AfterResume, At, Premise
<1>2. /\ UNCHANGED <<m_stop, ctl, owner>> /\ InMain(w)
      /\ wpc[w] = "resumed" /\ wpc' = [wpc EXCEPT ![w] = "loop"] /\ task' = [task EXCEPT ![w] = NoTask]
      /\ stage' = [stage EXCEPT ![t] = StageAfter(m_state[t])]
      /\ IF FiberOver(m_state[t]) THEN FiberDrop(w, t) ELSE UNCHANGED fiberVars
  BY <1>1 DEF AfterResume, At, Goto, ctlVars
<1>3. m_state[t] \in {"HOLD", "READY", "SLEEP", "DESTROY"}
  BY <1>1, <1>2 DEF Premise, SInv, States, Agrees
<1>4. UNCHANGED <<m_state, this_fiber, abort>>
  BY <1>2, <1>3 DEF FiberOver, FiberDrop, Droppable, Asserting, fiberVars, fiberState
<1>5. Owned' /\ Switch' /\ Deaths'
  BY <1>1, <1>2, <1>4, Types DEF Premise, SInv, Owned, Held, Switch, Deaths, NoEarlyDrop
<1>6. InHand' BY <1>2, <1>4, Types DEF Premise, SInv, States, InHand, InMain
<1>7. ASSUME NEW u \in Fibers PROVE Agrees(u)'
  BY <1>1, <1>2, <1>3, <1>4, Types, StageAfterValues, Constants
     DEF Premise, SInv, States, Agrees, InMain, Owned, Held
<1> QED BY <1>5, <1>6, <1>7 DEF SInv, States

\* A slice begins in EXEC and ends in a state that the worker expects (fiber.cpp:183-247).
LEMMA SliceStates == ASSUME Premise, NEW w \in Workers, NEW op \in Ops, Slice(w, op) PROVE SInv'
<1>1. /\ UNCHANGED <<m_stop, ctl, wpc, task, owner, stage>> /\ ~InMain(w)
      /\ wpc[w] = "notified" => op \in {"yield", "hold"}
  BY DEF Slice, Premise, schedVars, ctlVars, localVars, ghostVars
<1>2. PICK t \in Fibers : /\ t = task[w] /\ t = this_fiber[w] /\ owner[t] = w /\ m_state[t] = "EXEC"
                          /\ \/ wpc[w] = "notified" /\ stage[t] = "hold"
                             \/ wpc[w] = "resumed" /\ stage[t] = "running"
  BY <1>1, Types, TaskOf DEF Premise, SInv, States, InHand, Agrees
<1>3. Executing(w) BY <1>1, <1>2 DEF Executing
<1>4. Owned' /\ Switch' BY <1>1 DEF Premise, SInv, Owned, Switch
<1>5. CASE op = "throw"
  BY <1>4, <1>5 DEF Slice, FiberThrow, SInv, Deaths, NoEarlyDrop, Alive
<1>6. CASE op # "throw"
  <2>1. /\ UNCHANGED abort /\ this_fiber' = [this_fiber EXCEPT ![w] = MainFiber]
        /\ \E s \in {"HOLD", "READY", "SLEEP", "DESTROY"} :
             m_state' = [m_state EXCEPT ![t] = s] /\ (wpc[w] = "notified" => s \in {"HOLD", "READY"})
    BY <1>1, <1>2, <1>3, <1>6
       DEF Slice, FiberYield, FiberHold, FiberSleep, FiberStop, Asserting, SwitchOut, Ops
  <2>2. Deaths' BY <1>1, <2>1 DEF Premise, SInv, Deaths, NoEarlyDrop
  <2>3. InHand' BY <1>1, <2>1, Types DEF Premise, SInv, States, InHand, InMain
  <2>4. ASSUME NEW u \in Fibers PROVE Agrees(u)'
    <3>1. CASE u = t
      <4>1. InMain(w)' /\ m_state'[t] \in {"HOLD", "READY", "SLEEP", "DESTROY"}
            /\ (wpc[w] = "notified" => m_state'[t] \in {"HOLD", "READY"})
        BY <2>1, Types DEF InMain, Premise
      <4> QED BY <1>1, <1>2, <3>1, <4>1 DEF Agrees
    <3>2. CASE u # t
      <4>1. m_state'[u] = m_state[u] BY <2>1, <3>2, Types DEF Premise
      <4>2. owner[u] = w /\ stage[u] \in {"hold", "running"} => stage[u] = "hold" /\ task[w] # u
        BY <1>2, <3>2, Types DEF Premise, IInv, Places, At
      <4>3. owner[u] \in Workers /\ owner[u] # w => this_fiber'[owner[u]] = this_fiber[owner[u]]
        BY <2>1, Types DEF Premise
      <4>4. Agrees(u) /\ (stage[u] \in Held => owner[u] \in Workers)
        BY DEF Premise, SInv, States, Owned
      <4> QED BY <1>1, <4>1, <4>2, <4>3, <4>4 DEF Agrees, Held, InMain
    <3> QED BY <3>1, <3>2
  <2> QED BY <1>4, <2>2, <2>3, <2>4 DEF SInv, States
<1> QED BY <1>5, <1>6

-----------------------------------------------------------------------------
(* The theorems about states. *)

\* Every fiber is INIT, and nothing runs, before the first start().
LEMMA InitStates == Init => SInv
BY Constants DEF Init, FiberInit, SInv, Owned, Held, Switch, Deaths, NoEarlyDrop, States, InHand, InMain, Agrees

\* Every step keeps the states in agreement with the queues.
LEMMA NextStates == IInv /\ SInv /\ NotifyOps \subseteq {"yield", "hold"} /\ [Next]_vars => SInv'
<1> SUFFICES ASSUME IInv, SInv, NotifyOps \subseteq {"yield", "hold"}, [Next]_vars PROVE SInv'
  OBVIOUS
<1>1. CASE UNCHANGED vars
  <2>1. UNCHANGED <<fiberVars, m_stop, ctl, wpc, task, owner, stage>>
    BY <1>1 DEF vars, schedVars, ctlVars, localVars, ghostVars
  <2> QED BY <2>1 DEF SInv, Owned, Switch, Deaths, NoEarlyDrop, States, InHand, Agrees, InMain, Alive, fiberVars
<1>2. CASE ~UNCHANGED vars
  <2>1. Premise BY <1>2 DEF Premise, Next, Over
  <2>2. ASSUME NEW w \in Workers, WorkerStep(w) PROVE SInv'
    <3>1. CASE WorkerExit(w) \/ WorkerLock(w) \/ WorkerLockFails(w) \/ WorkerUnlock(w) \/ WorkerNothingReady(w)
      <4>1. /\ UNCHANGED <<fiberVars, m_stop, ctl, task, owner, stage>>
            /\ wpc[w] \notin {"notified", "resumed"}
            /\ wpc' \in {[wpc EXCEPT ![w] = here] : here \in {"loop", "drain", "wake", "exited"}}
        <5>1. CASE WorkerExit(w)
          BY <5>1 DEF WorkerExit, At, Goto, ctlVars, ghostVars
        <5>2. CASE WorkerLock(w) BY <5>2 DEF WorkerLock, At, Goto, ctlVars, ghostVars
        <5>3. CASE WorkerLockFails(w) BY <5>3 DEF WorkerLockFails, At, Goto, ctlVars, ghostVars
        <5>4. CASE WorkerUnlock(w) BY <5>4 DEF WorkerUnlock, At, Goto, ctlVars, ghostVars
        <5>5. CASE WorkerNothingReady(w) BY <5>5 DEF WorkerNothingReady, At, Goto, ctlVars, ghostVars
        <5> QED BY <3>1, <5>1, <5>2, <5>3, <5>4, <5>5
      <4> QED BY <2>1, <4>1, Types, Apart
    <3> QED BY <2>1, <2>2, <3>1, DrainStates, WakeStates, NotifyStates, AfterNotifyStates, RunStates,
               AfterResumeStates DEF WorkerStep
  <2>3. CASE Tick
    BY <2>3 DEF Tick, SInv, Owned, Switch, Deaths, NoEarlyDrop, States, InHand, Agrees, InMain, Alive,
                fiberState, schedVars, ctlVars, localVars, ghostVars
  <2> QED BY <1>2, <2>1, <2>2, <2>3, SubmitStates, AllocStates, SliceStates, OwnerStates DEF Next, Over
<1> QED BY <1>1, <1>2

\* SInv is an invariant as long as a notified fiber first yields or holds again.
LEMMA InductiveStates ==
  ASSUME NotifyOps \subseteq {"yield", "hold"} PROVE Spec => []SInv
<1>1. IInv /\ SInv /\ [Next]_vars => SInv' BY NextStates
<1> QED BY <1>1, InitStates, Inductive, PTL DEF Spec

\* The state of a fiber agrees with the queue of its task and with who executes it, if what notify()
\* switches in yields or holds again: it is EXEC exactly while one thread is on its stack
\* (fiber.cpp:155-253, scheduler.cpp:24-104).
THEOREM StateMatchesQueueHolds ==
  ASSUME NotifyOps \subseteq {"yield", "hold"} PROVE Spec => []StateMatchesQueue
<1>1. ASSUME IInv, SInv PROVE StateMatchesQueue
  <2>1. ASSUME Alive, NEW p \in Threads, NEW q \in Threads, this_fiber[p] = this_fiber[q], ~InMain(p)
        PROVE  p = q
    BY <1>1, <2>1, TaskOf DEF SInv, States, InHand, InMain
  <2>2. ASSUME Alive, NEW t \in Fibers PROVE m_state[t] = "EXEC" <=> \E p \in Threads : this_fiber[p] = t
    <3>1. ASSUME m_state[t] = "EXEC" PROVE \E p \in Threads : this_fiber[p] = t
      <4>1. stage[t] \in {"hold", "running"} /\ owner[t] \in Workers /\ ~InMain(owner[t])
        BY <1>1, <2>2, <3>1, Types DEF SInv, States, Agrees, Owned, Held, Stage
      <4>2. task[owner[t]] = t
        BY <1>1, <2>2, <3>1, <4>1 DEF SInv, States, Agrees, IInv, Places
      <4> QED BY <1>1, <2>2, <4>1, <4>2, Types DEF SInv, States, InHand
    <3>2. ASSUME NEW p \in Threads, this_fiber[p] = t PROVE m_state[t] = "EXEC"
      BY <1>1, <2>2, <3>2, TaskOf, FiberAssumption DEF SInv, States, InHand, InMain, Agrees
    <3> QED BY <3>1, <3>2
  <2>3. OneRunner BY <2>1, <2>2 DEF OneRunner
  <2>4. ASSUME Alive PROVE \A t \in Fibers : Agrees(t) BY <1>1, <2>4 DEF SInv, States
  <2> QED BY <1>1, <2>3, <2>4, Types DEF StateMatchesQueue, Agrees, Stage
<1> QED BY <1>1, Inductive, InductiveStates, PTL

\* No assertion of a call on a fiber fails in the loop of a worker, and while the scheduler is started no
\* fiber is dropped before its end (fiber.cpp:136-253, scheduler.cpp:98-102, 268).
THEOREM AssertionsHoldAlways ==
  ASSUME NotifyOps \subseteq {"yield", "hold"} PROVE Spec => []AssertionsHold
<1>1. SInv => AssertionsHold BY DEF SInv, Deaths, AssertionsHold, LoopAssertsHold
<1> QED BY <1>1, InductiveStates, PTL

-----------------------------------------------------------------------------
(* The contract of TaskPool: every step is one of its steps, or none. *)

StatusOf(s) == CASE s \in {"fresh", "submitting"} -> "new"
                 [] s = "queued" -> "waiting"
                 [] s \in Held -> "dealt"
                 [] OTHER -> s

\* The status of a task in each stage.
LEMMA Statuses ==
  /\ Status = [t \in Fibers |-> StatusOf(stage[t])]
  /\ StatusOf("fresh") = "new" /\ StatusOf("submitting") = "new" /\ StatusOf("queued") = "waiting"
  /\ StatusOf("done") = "done" /\ StatusOf("refused") = "refused"
  /\ \A s \in Held : StatusOf(s) = "dealt"
<1>1. Status = [t \in Fibers |-> StatusOf(stage[t])] BY DEF Status, StatusOf
<1>2. StatusOf("fresh") = "new" /\ StatusOf("submitting") = "new" BY DEF StatusOf, Held
<1>3. StatusOf("queued") = "waiting" BY DEF StatusOf, Held
<1>4. StatusOf("done") = "done" /\ StatusOf("refused") = "refused" BY DEF StatusOf, Held
<1>5. \A s \in Held : StatusOf(s) = "dealt" BY DEF StatusOf, Held
<1> QED BY <1>1, <1>2, <1>3, <1>4, <1>5

\* A step that moves one task moves its status only.
LEMMA StatusMoves ==
  ASSUME IInv, NEW t \in Fibers, NEW s, stage' = [stage EXCEPT ![t] = s]
  PROVE  Status' = [Status EXCEPT ![t] = StatusOf(s)]
<1>1. Status = [u \in Fibers |-> StatusOf(stage[u])] /\ stage \in [Fibers -> Stage] BY Statuses, Types
<1>2. Status' = [u \in Fibers |-> StatusOf(stage'[u])] BY DEF Status, StatusOf
<1> QED BY <1>1, <1>2

\* Queues hold as many tasks as they are long.
LEMMA CountQueue ==
  ASSUME NEW S, NEW s \in Seq(S), NoRepeats(s)
  PROVE  Cardinality(Elems(s)) = Len(s)
<1> DEFINE f == [i \in 1 .. Len(s) |-> s[i]]
<1>1. Len(s) \in Nat BY LenProperties
<1>2. f \in Bijection(1 .. Len(s), Elems(s))
  <2>1. \A i \in 1 .. Len(s) : f[i] = s[i] /\ s[i] \in Elems(s) BY DEF Elems
  <2>2. f \in [1 .. Len(s) -> Elems(s)] BY <2>1
  <2>3. \A i, j \in 1 .. Len(s) : f[i] = f[j] => i = j BY <2>1 DEF NoRepeats
  <2>4. \A e \in Elems(s) : \E i \in 1 .. Len(s) : f[i] = e BY <2>1 DEF Elems
  <2> HIDE DEF f
  <2> QED BY <2>2, <2>3, <2>4, Fun_IsBij
<1>3. IsFiniteSet(1 .. Len(s)) /\ Cardinality(1 .. Len(s)) = Len(s) BY <1>1, FS_Interval
<1>4. ExistsBijection(1 .. Len(s), Elems(s)) BY <1>2 DEF ExistsBijection
<1> QED BY <1>3, <1>4, FS_Bijection

\* TaskPool counts as Scheduler does.
LEMMA SameCardinality == ASSUME NEW S PROVE Pool!Cardinality(S) = Cardinality(S)
BY Zenon DEF Pool!Cardinality, Cardinality

\* The steps that leave stages and owners alone.
LEMMA QuietStep ==
  ASSUME UNCHANGED ghostVars PROVE UNCHANGED Pool!poolVars
BY DEF ghostVars, Pool!poolVars, Status, Held

\* The steps that move a task from one queue of its worker to another.
LEMMA WithinWorker ==
  ASSUME IInv, NEW t \in Fibers, stage[t] \in Held, NEW s \in Held,
         stage' = [stage EXCEPT ![t] = s], UNCHANGED owner
  PROVE  UNCHANGED Pool!poolVars
<1>1. Status' = [Status EXCEPT ![t] = StatusOf(s)] BY StatusMoves
<1>2. Status[t] = "dealt" /\ StatusOf(s) = "dealt" BY Statuses
<1>3. Status' = Status BY <1>1, <1>2, Statuses
<1> QED BY <1>3 DEF Pool!poolVars

\* submit() accepts a task when the pool has room, and refuses it when it has none (scheduler.cpp:258-272).
LEMMA SubmitContract ==
  ASSUME IInv, NEW p \in Threads, Submit(p) PROVE [Pool!Next]_(Pool!poolVars)
<1>1. CASE SubmitPush(p)
  <2>1. PICK t \in Fibers : /\ t = sub[p] /\ stage[t] = "submitting" /\ UNCHANGED owner
                            /\ \/ Fits /\ stage' = [stage EXCEPT ![t] = "queued"]
                               \/ ~Fits /\ stage' = [stage EXCEPT ![t] = "refused"]
    BY <1>1, Constants DEF SubmitPush, IInv, TypeOK, SharedTypeOK, Submitting
  <2>2. Status[t] = "new" BY <2>1, Statuses
  <2>3. Pool!Waiting = Elems(m_tasks)
    <3>1. \A u \in Fibers : Status[u] = "waiting" <=> stage[u] = "queued"
      BY Types, Statuses DEF StatusOf, Stage, Held
    <3> QED BY <3>1, QueueElems DEF Pool!Waiting, IInv, Queue, TypeOK, SharedTypeOK
  <2>4. Cardinality(Pool!Waiting) = Len(m_tasks)
    BY <2>3, CountQueue DEF IInv, Queue, TypeOK, SharedTypeOK
  <2>5. CASE Fits /\ stage' = [stage EXCEPT ![t] = "queued"]
    <3>1. Status' = [Status EXCEPT ![t] = StatusOf("queued")] BY <2>1, <2>5, StatusMoves
    <3>2. Pool!Accept(t) BY <2>1, <2>2, <2>4, <2>5, <3>1, Statuses, SameCardinality DEF Fits, Pool!Accept
    <3> QED BY <3>2 DEF Pool!Next
  <2>6. CASE ~Fits /\ stage' = [stage EXCEPT ![t] = "refused"]
    <3>1. Len(m_tasks) >= TaskCap
      BY <2>6, Constants, LenProperties, SchedulerAssumption DEF Fits, IInv, TypeOK, SharedTypeOK
    <3>2. Status' = [Status EXCEPT ![t] = StatusOf("refused")] BY <2>1, <2>6, StatusMoves
    <3>3. Pool!Refuse(t) BY <2>1, <2>2, <2>4, <3>1, <3>2, Statuses, SameCardinality DEF Pool!Refuse
    <3> QED BY <3>3 DEF Pool!Next
  <2> QED BY <2>1, <2>5, <2>6
<1>2. ASSUME NEW t \in Fibers, SubmitCheck(p, t) PROVE UNCHANGED Pool!poolVars
  <2>1. /\ stage[t] = "fresh" /\ UNCHANGED owner
        /\ UNCHANGED stage \/ stage' = [stage EXCEPT ![t] = "submitting"]
    BY <1>2 DEF SubmitCheck
  <2>2. CASE UNCHANGED stage BY <2>1, <2>2, QuietStep DEF ghostVars
  <2>3. CASE stage' = [stage EXCEPT ![t] = "submitting"]
    <3>1. Status' = [Status EXCEPT ![t] = StatusOf("submitting")] BY <2>3, StatusMoves
    <3>2. Status' = Status BY <2>1, <3>1, Statuses
    <3> QED BY <2>1, <3>2 DEF Pool!poolVars
  <2> QED BY <2>1, <2>2, <2>3
<1> QED BY <1>1, <1>2 DEF Submit

\* The alloc thread deals a waiting task to one worker, whose load its limit allows (scheduler.cpp:126-144).
LEMMA AllocContract ==
  ASSUME IInv, AllocStep PROVE [Pool!Next]_(Pool!poolVars)
<1>1. CASE AllocExit \/ AllocLock \/ AllocLockWorker \/ AllocUnlock
  BY <1>1, QuietStep DEF AllocExit, AllocLock, AllocLockWorker, AllocUnlock
<1>2. CASE AllocMove
  <2>1. PICK t \in Fibers : /\ stage[t] = "queued" /\ k \in Workers
                            /\ stage' = [stage EXCEPT ![t] = "init"] /\ owner' = [owner EXCEPT ![t] = k]
    <3>1. m_tasks \in Seq(Fibers) /\ m_tasks # <<>> /\ NoRepeats(m_tasks)
      BY <1>2 DEF AllocMove, IInv, TypeOK, SharedTypeOK, Queue
    <3>2. Head(m_tasks) \in Fibers /\ Head(m_tasks) \in Elems(m_tasks) BY <3>1, PopLemma
    <3>3. stage[Head(m_tasks)] = "queued" BY <3>2 DEF IInv, Queue
    <3>4. k \in Workers BY <1>2, Constants DEF AllocMove, IInv, Locks, TypeOK, SharedTypeOK
    <3> QED BY <1>2, <3>2, <3>3, <3>4 DEF AllocMove
  <2>2. Pool!Load(k) = Dealt(k)
    <3>1. \A u \in Fibers : Status[u] = "dealt" <=> stage[u] \in Held
      BY Types, Statuses DEF StatusOf, Stage, Held
    <3> QED BY <3>1 DEF Pool!Load, Dealt
  <2>3. Cardinality(Pool!Load(k)) < WorkerCap + Batch - 1
    <3>1. wcount[k] \in Nat /\ left > 0 BY <1>2, <2>1 DEF AllocMove, IInv, TypeOK, WorkerTypeOK
    <3>2. left \in Nat BY SchedulerAssumption DEF IInv, TypeOK, SharedTypeOK
    <3>3. wcount[k] + left <= WorkerCap + Batch - 1 /\ wcount[k] = Cardinality(Dealt(k))
      BY <2>1, <3>1 DEF IInv, Load
    <3> QED BY <2>2, <3>1, <3>2, <3>3, SchedulerAssumption
  <2>4. Status[t] = "waiting" /\ Status' = [Status EXCEPT ![t] = "dealt"]
    <3>1. Status' = [Status EXCEPT ![t] = StatusOf("init")] BY <2>1, StatusMoves
    <3> QED BY <2>1, <3>1, Statuses DEF Held
  <2>5. Pool!Deal(t, k) BY <2>1, <2>3, <2>4, SameCardinality DEF Pool!Deal
  <2> QED BY <2>1, <2>5 DEF Pool!Next
<1> QED BY <1>1, <1>2 DEF AllocStep

\* A worker finishes a task of its own or keeps it (scheduler.cpp:24-104).
LEMMA WorkerContract ==
  ASSUME IInv, NEW w \in Workers, WorkerStep(w) PROVE [Pool!Next]_(Pool!poolVars)
<1>1. CASE WorkerExit(w) \/ WorkerLock(w) \/ WorkerLockFails(w) \/ WorkerUnlock(w) \/ WorkerNothingReady(w)
  BY <1>1, QuietStep DEF WorkerExit, WorkerLock, WorkerLockFails, WorkerUnlock, WorkerNothingReady
<1>2. CASE WorkerDrain(w)
  <2>1. t_init[w] \in Seq(Fibers) /\ t_init[w] # <<>> /\ NoRepeats(t_init[w])
    BY <1>2 DEF WorkerDrain, IInv, TypeOK, WorkerTypeOK, Places
  <2>2. Head(t_init[w]) \in Fibers /\ Head(t_init[w]) \in Elems(t_init[w]) BY <2>1, PopLemma
  <2>3. stage[Head(t_init[w])] \in Held BY <2>2 DEF IInv, Places, Held
  <2>4. stage' = [stage EXCEPT ![Head(t_init[w])] = "ready"] /\ UNCHANGED owner BY <1>2 DEF WorkerDrain
  <2> QED BY <2>2, <2>3, <2>4, WithinWorker DEF Held
<1>3. CASE WorkerWake(w)
  <2>1. \A t \in Due(w) : t \in Fibers /\ stage[t] = "sleep"
    BY DEF Due, IInv, TypeOK, SetTypeOK, Places
  <2>2. stage' = [t \in Fibers |-> IF t \in Due(w) THEN "ready" ELSE stage[t]] /\ UNCHANGED owner
    BY <1>3 DEF WorkerWake
  <2>3. Status' = [t \in Fibers |-> StatusOf(stage'[t])] BY DEF Status, StatusOf
  <2>4. Status' = Status BY <2>1, <2>2, <2>3, Statuses DEF Held
  <2> QED BY <2>2, <2>4 DEF Pool!poolVars
<1>4. ASSUME NEW t \in Fibers, WorkerNotify(w, t) PROVE UNCHANGED Pool!poolVars
  BY <1>4, QuietStep DEF WorkerNotify
<1>5. CASE AfterNotify(w)
  <2>1. PICK t \in Fibers : t = task[w] /\ stage[t] = "hold" BY <1>5, TaskOf DEF AfterNotify, At
  <2>2. UNCHANGED owner /\ (UNCHANGED stage \/ stage' = [stage EXCEPT ![t] = "ready"])
    BY <1>5, <2>1 DEF AfterNotify
  <2> QED BY <2>1, <2>2, QuietStep, WithinWorker DEF ghostVars, Held
<1>6. ASSUME NEW t \in Fibers, WorkerRun(w, t) PROVE UNCHANGED Pool!poolVars
  <2>1. stage[t] = "ready" BY <1>6 DEF WorkerRun, IInv, Places
  <2>2. stage' = [stage EXCEPT ![t] = "running"] /\ UNCHANGED owner BY <1>6 DEF WorkerRun
  <2> QED BY <2>1, <2>2, WithinWorker DEF Held
<1>7. CASE AfterResume(w)
  <2>1. PICK t \in Fibers : t = task[w] /\ stage[t] = "running" BY <1>7, TaskOf DEF AfterResume, At
  <2>2. stage' = [stage EXCEPT ![t] = StageAfter(m_state[t])] /\ UNCHANGED owner
    BY <1>7, <2>1 DEF AfterResume
  <2>3. StageAfter(m_state[t]) \in Held \cup {"done"}
    BY <2>1, Types, StageAfterValues DEF Held
  <2>4. CASE StageAfter(m_state[t]) = "done"
    <3>1. Status' = [Status EXCEPT ![t] = StatusOf("done")] BY <2>1, <2>2, <2>4, StatusMoves
    <3>2. Pool!Finish(t) BY <2>1, <2>2, <3>1, Statuses DEF Held, Pool!Finish
    <3> QED BY <3>2 DEF Pool!Next
  <2> QED BY <2>1, <2>2, <2>3, <2>4, WithinWorker DEF Held
<1> QED BY <1>1, <1>2, <1>3, <1>4, <1>5, <1>6, <1>7 DEF WorkerStep

\* Initial states map to initial states.
LEMMA ContractInit == Init => Pool!Init
<1> SUFFICES ASSUME Init PROVE Pool!Init
  OBVIOUS
<1>1. Status = [t \in Fibers |-> "new"] BY Statuses DEF Init
<1> QED BY <1>1 DEF Init, Pool!Init

\* Steps map to steps or stutters.
LEMMA ContractNext == IInv /\ [Next]_vars => [Pool!Next]_(Pool!poolVars)
<1> SUFFICES ASSUME IInv, [Next]_vars PROVE [Pool!Next]_(Pool!poolVars)
  OBVIOUS
<1>1. CASE UNCHANGED vars BY <1>1, QuietStep DEF vars, schedVars
<1>2. ASSUME NEW w \in Workers, NEW op \in Ops, Slice(w, op) PROVE UNCHANGED Pool!poolVars
  BY <1>2, QuietStep DEF Slice, schedVars
<1>3. CASE Tick BY <1>3, QuietStep DEF Tick, schedVars
<1>4. CASE OwnerStep
  BY <1>4, QuietStep DEF OwnerStep, StartBegin, StartWorker, StartAlloc, StopBegin, StopJoin, Destruct
<1> QED BY <1>1, <1>2, <1>3, <1>4, SubmitContract, AllocContract, WorkerContract DEF Next, Over

\* The scheduler keeps the contract of TaskPool: a task is refused only by a full queue; any other is dealt
\* to exactly one worker, which keeps it until its fiber is over; nothing is lost, duplicated or handed on,
\* and no worker exceeds its limit by a batch (scheduler.cpp:24-147, 258-272).
THEOREM ContractKept == Spec => KeepsContract
<1>1. IInv /\ [Next]_vars => [Pool!Next]_(Pool!poolVars) BY ContractNext
<1> QED BY <1>1, ContractInit, Inductive, PTL DEF Spec, KeepsContract, Pool!Spec
=============================================================================
