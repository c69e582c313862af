------------------------------ MODULE IOManager ------------------------------
(***************************************************************************)
(* The IOManager of sylar/iomanager.{h,cpp}: a scheduler with idle workers *)
(* that wait in epoll_wait and hand the callbacks of ready events to it.   *)
(* addEvent is called by a fiber on a worker or by the thread that made    *)
(* the manager, the other operations by any thread.  A registration        *)
(* belongs to a context (FdContext), one per fd, found in a table that     *)
(* grows on demand.                                                        *)
(*                                                                         *)
(* The inherited scheduler is TaskPool, the contract that Scheduler keeps. *)
(* epoll is modelled from what the calls of this file need: edge-triggered *)
(* interest per fd, re-armed by ADD and MOD, taken by one waiter per edge. *)
(* A context's `scheduler' is non-null exactly while its event is armed,   *)
(* so it is not kept apart; the tickle pipe is never written.              *)
(*                                                                         *)
(* A step is one access to what threads share: the switches, the table     *)
(* under m_rwmutex, a context under its mutex, the counter, the pool, or a *)
(* system call.                                                            *)
(***************************************************************************)
EXTENDS Naturals, FiniteSets, Sequences

CONSTANTS Apps,      \* the tasks submitted after construction
          Callbacks, \* the fibers that addEvent makes
          Workers,   \* the worker threads
          Clients,   \* other threads that delete or cancel events
          Owner,     \* the one of them that constructs and stops the manager, or None
          Fds,       \* file descriptors
          MayClose,  \* those that the program closes without cancelling them
          Signals,   \* the readiness that comes and goes
          InitSize,  \* 32, contextResize(32) in the constructor
          MaxGen,    \* bound: how often the context of an fd is allocated
          Budget,    \* [Tasks and Clients -> Nat], bound on their calls
          Kinds,     \* [Tasks and Clients -> which calls]
          QueueCap, LoadCap,   \* of the scheduler
          None, Free \* no value; a mutex nobody holds

Tasks  == Apps \cup Callbacks
Actors == Workers \cup Clients
Event  == {"READ", "WRITE"}            \* EPOLLIN and EPOLLOUT have the same values
Bits   == Event \cup {"ERR"}           \* what the kernel reports
Ctxs   == Fds \X (1 .. MaxGen)
Calls  == {"add", "del", "cancel", "cancelAll"}

ASSUME IOManagerAssumption ==
  /\ Fds \subseteq Nat /\ MayClose \subseteq Fds /\ Signals \subseteq Bits
  /\ InitSize \in Nat \ {0, 1} /\ MaxGen \in Nat \ {0}
  /\ Budget \in [Tasks \cup Clients -> Nat]
  /\ Kinds \in [Tasks \cup Clients -> SUBSET Calls]
  /\ QueueCap \in Nat /\ LoadCap \in Nat
  /\ Apps \cap Callbacks = {} /\ Workers \cap Clients = {}
  /\ Owner \in Clients \cup {None}
  /\ None \notin Tasks \cup Ctxs \cup Workers /\ Free \notin Actors

VARIABLES
  m_stopping, m_stop, ctl, alloc, \* switches, the owner's control, alloc thread alive
  size, table, made,         \* m_fdContexts: size, its context, contexts allocated
  events, slot, fdlock,      \* FdContext: armed events, their fibers, owner of mutex
  m_pendingEventCount,
  ready, epoll, edge,        \* the kernel: readiness, interest, an edge to report
  status, worker,            \* TaskPool
  wpc, got, running,         \* worker: control, results of epoll_wait, current fiber
  pc, arg, ctx, todo,        \* [Actors -> ..]: the call under way
  budget, closed, late,      \* calls left; history: fds closed, callbacks registered
                             \* when m_stopping was already set
  abort                      \* "none", or the function in which the process died

ownerVars  == <<m_stopping, m_stop, ctl, alloc>>
tableVars  == <<size, table, made>>
ctxVars    == <<events, slot>>
kernelVars == <<ready, epoll, edge>>
poolVars   == <<status, worker>>
workerVars == <<wpc, got, running>>
callVars   == <<pc, arg, ctx, todo>>
ghostVars  == <<closed, late>>
\* What no step of a call changes; most of what some steps of a call change; what neither
\* the owner, nor a worker between two calls, changes.
byCall   == <<ownerVars, workerVars, budget, closed>>
shared   == <<ctxVars, fdlock, m_pendingEventCount, kernelVars, poolVars, late, abort>>
byOwner  == <<tableVars, ctxVars, fdlock, m_pendingEventCount, kernelVars, poolVars,
              workerVars, callVars, budget, ghostVars>>
byWorker == <<ownerVars, tableVars, ctxVars, fdlock, m_pendingEventCount, callVars, budget,
              ghostVars, abort>>
vars == <<ownerVars, tableVars, ctxVars, fdlock, m_pendingEventCount, kernelVars, poolVars,
          workerVars, callVars, budget, ghostVars, abort>>

Pool == INSTANCE TaskPool WITH Nobody <- None

NoInterest == [ctx |-> None, evs |-> {}]
NoCall     == [op |-> "none", fd |-> 0, ev |-> "READ"]
Fires      == {<<>>, <<"READ">>, <<"WRITE">>, <<"READ", "WRITE">>}
Faults     == {"addEvent", "addEvent.context", "triggerEvent", "~Fiber", "destroy"}

OwnerTypeOK ==
  /\ m_stopping \in BOOLEAN /\ m_stop \in BOOLEAN /\ alloc \in BOOLEAN
  /\ ctl \in {"up", "spin", "joining", "joined", "destroyed"}
  /\ abort \in Faults \cup {"none"}

TableTypeOK ==
  size \in Nat /\ table \in [Fds -> 0 .. MaxGen] /\ made \in [Fds -> 0 .. MaxGen]

CtxTypeOK ==
  /\ events \in [Ctxs -> SUBSET Event]
  /\ slot \in [Ctxs -> [Event -> Callbacks \cup {None}]]
  /\ fdlock \in [Ctxs -> Actors \cup {Free}]

KernelTypeOK ==
  /\ ready \in [Fds -> SUBSET Bits] /\ edge \in [Fds -> BOOLEAN]
  /\ epoll \in [Fds -> [ctx : Ctxs \cup {None}, evs : SUBSET Event]]

PoolTypeOK ==
  /\ status \in [Tasks -> {"new", "waiting", "dealt", "done", "refused"}]
  /\ worker \in [Tasks -> Workers \cup {None}]

WorkerTypeOK ==
  /\ wpc \in [Workers -> {"loop", "wait", "events", "exited"}]
  /\ got \in [Workers -> SUBSET [ctx : Ctxs, evs : SUBSET Bits]]
  /\ running \in [Workers -> Tasks \cup {None}]

CallTypeOK ==
  /\ pc \in [Actors -> {"none", "find", "grow", "enter", "commit", "fire", "push", "dec"}]
  /\ arg \in [Actors -> [op : Calls \cup {"none"}, fd : Fds \cup {0}, ev : Event]]
  /\ ctx \in [Actors -> Ctxs \cup {None}]
  /\ todo \in [Actors -> Fires]

RestTypeOK ==
  /\ budget \in [Tasks \cup Clients -> Nat]
  /\ closed \in [Fds -> BOOLEAN] /\ late \subseteq Callbacks

TypeOK == /\ OwnerTypeOK /\ TableTypeOK /\ CtxTypeOK /\ KernelTypeOK /\ PoolTypeOK
          /\ WorkerTypeOK /\ CallTypeOK /\ RestTypeOK /\ m_pendingEventCount \in Nat

\* The constructor has run and the program has submitted its first tasks.
Init ==
  /\ m_stopping = FALSE /\ m_stop = FALSE /\ ctl = "up" /\ alloc = TRUE
  /\ size = InitSize
  /\ table = [f \in Fds |-> IF f < InitSize THEN 1 ELSE 0] /\ made = table
  /\ events = [x \in Ctxs |-> {}]
  /\ slot = [x \in Ctxs |-> [e \in Event |-> None]]
  /\ fdlock = [x \in Ctxs |-> Free]
  /\ m_pendingEventCount = 0
  /\ ready = [f \in Fds |-> {}] /\ edge = [f \in Fds |-> FALSE]
  /\ epoll = [f \in Fds |-> NoInterest]
  /\ status = [t \in Tasks |-> IF t \in Apps THEN "waiting" ELSE "new"]
  /\ worker = [t \in Tasks |-> None]
  /\ wpc = [w \in Workers |-> "loop"]
  /\ got = [w \in Workers |-> {}] /\ running = [w \in Workers |-> None]
  /\ pc = [p \in Actors |-> "none"] /\ arg = [p \in Actors |-> NoCall]
  /\ ctx = [p \in Actors |-> None] /\ todo = [p \in Actors |-> <<>>]
  /\ budget = Budget
  /\ closed = [f \in Fds |-> FALSE] /\ late = {}
  /\ abort = "none"

Alive == abort = "none"
Step(p, here) == pc' = [pc EXCEPT ![p] = here] /\ UNCHANGED <<arg, ctx>>
\* The call returns, and its local variables are gone.
Return(p) == /\ pc' = [pc EXCEPT ![p] = "none"] /\ arg' = [arg EXCEPT ![p] = NoCall]
             /\ ctx' = [ctx EXCEPT ![p] = None]
Dies(where) == abort' = where /\ UNCHANGED <<ownerVars, byOwner>>

-----------------------------------------------------------------------------
(* The kernel. *)

\* What epoll_wait would report of fd now.
Reported(fd, bits, evs) == bits \cap (evs \cup {"ERR"})

\* EPOLL_CTL_ADD, MOD or DEL of fd with EPOLLET | evs and data.ptr = x.
Watch(fd, x, evs) ==
  /\ epoll' = [epoll EXCEPT ![fd] = IF evs = {} THEN NoInterest
                                    ELSE [ctx |-> x, evs |-> evs]]
  /\ edge' = [edge EXCEPT ![fd] = evs # {} /\ Reported(fd, ready[fd], evs) # {}]
  /\ UNCHANGED ready

Watched(fd) == epoll[fd].ctx # None

BecomeReady(fd, b) ==
  /\ ready' = [ready EXCEPT ![fd] = @ \cup {b}]
  /\ edge' = [edge EXCEPT ![fd] = @ \/ (Watched(fd) /\ b \in epoll[fd].evs \cup {"ERR"})]
  /\ UNCHANGED epoll

Unready(fd, b) == /\ ready' = [ready EXCEPT ![fd] = @ \ {b}]
                  /\ UNCHANGED <<epoll, edge>>

\* The program closes fd: the kernel forgets it, the IOManager is not told.
Close(fd) == /\ fd \in MayClose
             /\ ready' = [ready EXCEPT ![fd] = {}]
             /\ edge' = [edge EXCEPT ![fd] = FALSE]
             /\ epoll' = [epoll EXCEPT ![fd] = NoInterest]
             /\ closed' = [closed EXCEPT ![fd] = @ \/ Watched(fd)]

Kernel == /\ \/ /\ \E fd \in Fds : \/ \E b \in Signals : BecomeReady(fd, b)
                                   \/ \E e \in Signals \ {"ERR"} : Unready(fd, e)
                /\ UNCHANGED ghostVars
             \/ (\E fd \in Fds : Close(fd)) /\ UNCHANGED late
          /\ UNCHANGED <<ownerVars, tableVars, ctxVars, fdlock, m_pendingEventCount, poolVars,
                         workerVars, callVars, budget, abort>>

-----------------------------------------------------------------------------
(* addEvent, delEvent, cancelEvent, cancelAll, called by p. *)

InFiber(p) == p \in Workers /\ running[p] # None
Caller(p)  == IF p \in Workers THEN running[p] ELSE p
Idling(p)  == p \in Workers /\ running[p] = None

\* addEvent returns -1 at once when the manager is stopping, and needs a scheduler: workers have
\* one, and the thread that constructed the manager.
BeginCall(p, op, fd, ev) ==
  /\ pc[p] = "none" /\ ~Idling(p) /\ op \in Kinds[Caller(p)]
  /\ budget[Caller(p)] > 0
  /\ op = "add" => (InFiber(p) \/ p = Owner) /\ ~m_stopping
  /\ p = Owner => ctl \in {"up", "joined"}     \* not in stop()
  /\ op = "cancelAll" => ev = "READ"     \* it has no event
  /\ budget' = [budget EXCEPT ![Caller(p)] = @ - 1]
  /\ arg' = [arg EXCEPT ![p] = [op |-> op, fd |-> fd, ev |-> ev]]
  /\ pc' = [pc EXCEPT ![p] = "find"]
  /\ UNCHANGED <<ownerVars, tableVars, ctxVars, fdlock, m_pendingEventCount, kernelVars,
                 poolVars, workerVars, ctx, todo, ghostVars, abort>>

\* Under the read lock of m_rwmutex.
Reach(p, x) == /\ ctx' = [ctx EXCEPT ![p] = x]
               /\ pc' = [pc EXCEPT ![p] = "enter"]
               /\ UNCHANGED arg
Find(p) ==
  LET fd == arg[p].fd IN
  /\ pc[p] = "find"
  /\ \/ fd < size /\ Reach(p, <<fd, table[fd]>>)
     \/ fd >= size /\ arg[p].op = "add" /\ Step(p, "grow")
     \/ fd >= size /\ arg[p].op # "add" /\ Return(p)
  /\ UNCHANGED <<tableVars, shared, todo>>

\* contextResize(n): the vector is cut or extended to n, every null entry gets a context.
Resize(n) ==
  LET new == {f \in Fds : f < n /\ table[f] = 0} IN
  /\ \A f \in new : made[f] < MaxGen
  /\ size' = n
  /\ made' = [f \in Fds |-> IF f \in new THEN made[f] + 1 ELSE made[f]]
  /\ table' = [f \in Fds |-> IF f \in new THEN made[f] + 1 ELSE IF f < n THEN table[f] ELSE 0]

\* Under the write lock; the size is not read again after the read lock was released.
Grow(p) ==
  LET fd == arg[p].fd IN
  /\ pc[p] = "grow"
  /\ Resize((fd * 3) \div 2)
  /\ Reach(p, <<fd, table'[fd]>>)
  /\ UNCHANGED <<shared, todo>>

\* The context's mutex is taken (and kept, unless the call returns at once).
Entering(p, ops) == pc[p] = "enter" /\ arg[p].op \in ops /\ fdlock[ctx[p]] = Free

\* Mutated form of Wanted: what was armed before is forgotten.
JustNew(x, e) == {e}
Wanted(x, e) == events[x] \cup {e}

\* EPOLL_CTL_ADD of an fd the kernel watches is EEXIST, MOD of one it does not is ENOENT.
AddAccepted(fd, x) == Watched(fd) <=> events[x] # {}

AddEnter(p) ==
  LET x == ctx[p]
      e == arg[p].ev
  IN
  /\ Entering(p, {"add"})
  /\ \/ e \in events[x] /\ Dies("addEvent")
     \/ /\ e \notin events[x] /\ AddAccepted(arg[p].fd, x)
        /\ Watch(arg[p].fd, x, Wanted(x, e))
        /\ fdlock' = [fdlock EXCEPT ![x] = p]
        /\ Step(p, "commit")
        /\ UNCHANGED <<tableVars, ctxVars, m_pendingEventCount, poolVars, todo, late, abort>>
     \/ /\ e \notin events[x] /\ Return(p)    \* epoll_ctl fails: -1
        /\ UNCHANGED <<tableVars, shared, todo>>

Unlock(p) == fdlock' = [fdlock EXCEPT ![ctx[p]] = Free] /\ Return(p)

Unused(c) == \A x \in Ctxs, e \in Event : slot[x][e] # c

\* Mutated form of CountAfterAdd: the increment is forgotten.
CountNotAdded == m_pendingEventCount
CountAfterAdd == m_pendingEventCount + 1

\* The event is counted and armed with a new fiber c.
AddCommit(p, c) ==
  LET x == ctx[p]
      e == arg[p].ev
  IN
  /\ pc[p] = "commit" /\ arg[p].op = "add" /\ slot[x][e] = None /\ Unused(c)
  /\ m_pendingEventCount' = CountAfterAdd
  /\ events' = [events EXCEPT ![x] = @ \cup {e}]
  /\ slot' = [slot EXCEPT ![x][e] = c]
  /\ late' = IF m_stopping THEN late \cup {c} ELSE late
  /\ Unlock(p)
  /\ UNCHANGED <<tableVars, kernelVars, poolVars, todo, abort>>

\* triggerEvent leaves the fiber of an earlier registration in the context.
AddOccupied(p) == /\ pc[p] = "commit" /\ arg[p].op = "add"
                  /\ slot[ctx[p]][arg[p].ev] # None
                  /\ Dies("addEvent.context")

\* READ is fired before WRITE.
InOrder(S) == (IF "READ" \in S THEN <<"READ">> ELSE <<>>) \o (IF "WRITE" \in S THEN <<"WRITE">> ELSE <<>>)

\* delEvent, cancelEvent and cancelAll up to epoll_ctl, which fails for an fd the kernel
\* has forgotten.
Target(p) == IF arg[p].op = "cancelAll" THEN events[ctx[p]] ELSE {arg[p].ev}
RemoveEnter(p) ==
  LET x == ctx[p]
      found == Target(p) \cap events[x] # {} /\ Watched(arg[p].fd)
  IN
  /\ Entering(p, {"del", "cancel", "cancelAll"})
  /\ IF found
     THEN /\ Watch(arg[p].fd, x, events[x] \ Target(p))
          /\ fdlock' = [fdlock EXCEPT ![x] = p]
          /\ todo' = [todo EXCEPT ![p] = InOrder(Target(p))]
          /\ Step(p, IF arg[p].op = "del" THEN "commit" ELSE "fire")
     ELSE Return(p) /\ UNCHANGED <<kernelVars, fdlock, todo>>
  /\ UNCHANGED <<tableVars, ctxVars, m_pendingEventCount, poolVars, late, abort>>

\* resetContext drops the only reference to a fiber that was never started.
DelCommit(p) == pc[p] = "commit" /\ arg[p].op = "del" /\ Dies("~Fiber")

-----------------------------------------------------------------------------
(* triggerEvent and the decrement after it, for each event in todo[p], under the mutex. *)

Disarmed(x, e) == events[x] \ {e}

\* Mutated form of SubmitTakes: the wrong switch is tested.
SubmitTakesEarly == ~m_stopping
SubmitTakes == ~m_stop

\* The assertion, and the test of m_stop at the head of submit().
Fire(p) ==
  LET x == ctx[p]
      e == Head(todo[p])
  IN
  /\ pc[p] = "fire"
  /\ IF e \notin events[x]
     THEN Dies("triggerEvent")
     ELSE /\ events' = [events EXCEPT ![x] = Disarmed(x, e)]
          /\ Step(p, IF SubmitTakes THEN "push" ELSE "dec")
          /\ UNCHANGED <<tableVars, slot, fdlock, m_pendingEventCount, kernelVars, poolVars,
                         todo, late, abort>>

\* The fiber is submitted; a full queue destroys it, which only a main fiber may do.
FirePush(p) ==
  LET c == slot[ctx[p]][Head(todo[p])] IN
  /\ pc[p] = "push"
  /\ \/ /\ Pool!Accept(c) \/ (Pool!Refuse(c) /\ ~InFiber(p))
        /\ Step(p, "dec")
        /\ UNCHANGED <<tableVars, ctxVars, fdlock, m_pendingEventCount, kernelVars, todo, late,
                       abort>>
     \/ Cardinality(Pool!Waiting) >= QueueCap /\ InFiber(p) /\ Dies("destroy")

\* Mutated form of CountAfterFire: the decrement is forgotten.
CountAsBefore == m_pendingEventCount
CountAfterFire == m_pendingEventCount - 1

FireDec(p) ==
  /\ pc[p] = "dec"
  /\ m_pendingEventCount' = CountAfterFire
  /\ todo' = [todo EXCEPT ![p] = Tail(@)]
  /\ IF Len(todo[p]) > 1 THEN Step(p, "fire") /\ UNCHANGED fdlock ELSE Unlock(p)
  /\ UNCHANGED <<tableVars, ctxVars, kernelVars, poolVars, late, abort>>

-----------------------------------------------------------------------------
(* A worker: the fibers it was dealt, and idle() when it has none. *)

AtLoop(w) == wpc[w] = "loop" /\ Idling(w) /\ pc[w] = "none"
Busy(w) == Pool!Load(w) # {}

SwitchIn(w, t) ==
  /\ AtLoop(w) /\ t \in Pool!Load(w)
  /\ running' = [running EXCEPT ![w] = t]
  /\ UNCHANGED <<poolVars, wpc, got, kernelVars, byWorker>>

\* The fiber yields, holds or sleeps, or is over.
SwitchOut(w) ==
  /\ InFiber(w) /\ pc[w] = "none"
  /\ UNCHANGED poolVars \/ Pool!Finish(running[w])
  /\ running' = [running EXCEPT ![w] = None]
  /\ UNCHANGED <<wpc, got, kernelVars, byWorker>>

\* The condition of the loop in idle(), and the call of epoll_wait.
IdleWait(w) ==
  /\ AtLoop(w) /\ ~Busy(w) /\ ~m_stop
  /\ wpc' = [wpc EXCEPT ![w] = "wait"]
  /\ UNCHANGED <<poolVars, got, running, kernelVars, byWorker>>

\* epoll_wait returns, with every edge there is or after MAX_TIMEOUT with none.
IdleReturns(w) ==
  LET reports(fd) == Reported(fd, ready[fd], epoll[fd].evs)
      told == {fd \in Fds : edge[fd] /\ reports(fd) # {}}
  IN
  /\ wpc[w] = "wait"
  /\ got' = [got EXCEPT ![w] = {[ctx |-> epoll[fd].ctx, evs |-> reports(fd)] : fd \in told}]
  /\ edge' = [fd \in Fds |-> FALSE]
  /\ wpc' = [wpc EXCEPT ![w] = IF told = {} THEN "loop" ELSE "events"]
  /\ UNCHANGED <<poolVars, running, ready, epoll, byWorker>>

\* real_events: an error stands for every armed event.
RealEvents(x, evs) == (evs \cap Event) \cup (IF "ERR" \in evs THEN events[x] ELSE {})

\* One result r, under its context's mutex.  What is fired is every real event, not only
\* those still armed; nothing is when none is armed or the kernel has forgotten the fd.
IdleHandle(w, r) ==
  LET x == r.ctx
      real == RealEvents(x, r.evs)
      fired == events[x] \cap real # {} /\ Watched(x[1])
  IN
  /\ wpc[w] = "events" /\ pc[w] = "none" /\ fdlock[x] = Free
  /\ got' = [got EXCEPT ![w] = @ \ {r}]
  /\ wpc' = [wpc EXCEPT ![w] = IF got[w] = {r} THEN "loop" ELSE "events"]
  /\ IF fired
     THEN /\ Watch(x[1], x, events[x] \ real)
          /\ fdlock' = [fdlock EXCEPT ![x] = w]
          /\ ctx' = [ctx EXCEPT ![w] = x]
          /\ todo' = [todo EXCEPT ![w] = InOrder(real)]
          /\ pc' = [pc EXCEPT ![w] = "fire"]
     ELSE UNCHANGED <<kernelVars, fdlock, ctx, todo, pc>>
  /\ UNCHANGED <<ownerVars, tableVars, ctxVars, m_pendingEventCount, poolVars, running, arg,
                 budget, ghostVars, abort>>

WorkerExit(w) ==
  /\ AtLoop(w) /\ ~Busy(w) /\ m_stop
  /\ wpc' = [wpc EXCEPT ![w] = "exited"]
  /\ UNCHANGED <<poolVars, got, running, kernelVars, byWorker>>

-----------------------------------------------------------------------------
(* The alloc thread, and the owner: stop() and ~IOManager(). *)

Deal(t, w) ==
  /\ alloc /\ Pool!Deal(t, w)
  /\ UNCHANGED <<workerVars, kernelVars, byWorker>>

\* Mutated form of NothingPending: the spin is left out.
NoSpin == TRUE
NothingPending == m_pendingEventCount = 0

Dropped == {t \in Apps : status[t] \in {"waiting", "dealt"}}
             \cup {c \in Callbacks : /\ status[c] \notin {"done", "refused"}
                                     /\ \E x \in Ctxs, e \in Event :
                                          slot[x][e] = c /\ table[x[1]] = x[2]}

StopBegin == /\ ctl = "up" /\ \A p \in Clients : p = Owner => pc[p] = "none"
             /\ ctl' = "spin" /\ m_stopping' = TRUE
             /\ UNCHANGED <<m_stop, alloc, abort, byOwner>>

\* The busy loop over m_pendingEventCount ends.
StopSpun == /\ ctl = "spin" /\ NothingPending
            /\ ctl' = "joining" /\ m_stop' = TRUE
            /\ UNCHANGED <<m_stopping, alloc, abort, byOwner>>

\* AllocThread::run returns.
AllocExit == /\ alloc /\ m_stop /\ Pool!Waiting = {}
             /\ alloc' = FALSE
             /\ UNCHANGED <<ctl, m_stopping, m_stop, abort, byOwner>>

StopJoin == /\ ctl = "joining" /\ ~alloc /\ \A w \in Workers : wpc[w] = "exited"
            /\ ctl' = "joined"
            /\ UNCHANGED <<m_stopping, m_stop, alloc, abort, byOwner>>

\* The contexts in the table and the scheduler's queues go, with the fibers they hold.
Destruct == /\ ctl = "joined" /\ \A p \in Actors : pc[p] = "none"
            /\ IF Dropped = {} THEN ctl' = "destroyed" /\ UNCHANGED abort
                               ELSE abort' = "~Fiber" /\ UNCHANGED ctl
            /\ UNCHANGED <<m_stopping, m_stop, alloc, byOwner>>

OwnerStep == StopBegin \/ StopSpun \/ AllocExit \/ StopJoin \/ Destruct

CallStep(p) == /\ \/ Find(p) \/ Grow(p) \/ AddEnter(p) \/ AddOccupied(p)
                  \/ RemoveEnter(p) \/ DelCommit(p)
                  \/ \E c \in Callbacks : AddCommit(p, c)
                  \/ Fire(p) \/ FirePush(p) \/ FireDec(p)
               /\ UNCHANGED byCall
Begin(p) == \E op \in Calls, fd \in Fds, e \in Event : BeginCall(p, op, fd, e)
WorkerStep(w) ==
  \/ IdleWait(w) \/ IdleReturns(w) \/ WorkerExit(w)
  \/ \E r \in got[w] : IdleHandle(w, r)
  \/ \E t \in Tasks : SwitchIn(w, t)

Over == (ctl = "destroyed" \/ ~Alive) /\ UNCHANGED vars

Next == \/ /\ Alive /\ ctl # "destroyed"
           /\ \/ \E p \in Actors : Begin(p) \/ CallStep(p)
              \/ \E w \in Workers : \/ WorkerStep(w) \/ SwitchOut(w)
                                    \/ \E t \in Tasks : Deal(t, w)
              \/ OwnerStep \/ Kernel
        \/ Over

Spec == Init /\ [][Next]_vars

-----------------------------------------------------------------------------
(* Safety. *)

Armed == {y \in Ctxs \X Event : y[2] \in events[y[1]]}
Registered(c) == \E x \in Ctxs, e \in Event : slot[x][e] = c

\* m_pendingEventCount, read without a lock by stop(), counts the armed events and those
\* being fired whose fiber may not be submitted yet: it never reaches 0 before the last
\* submission is done (iomanager.cpp 150, 193, 231-232, 266-275, 289, 363-372).
PendingExact ==
  m_pendingEventCount = Cardinality(Armed) + Cardinality({p \in Actors : pc[p] \in {"push", "dec"}})

\* Whenever nobody holds a context's mutex, what the kernel watches for it is what is
\* armed in it, unless the program closed the fd (iomanager.cpp 137-151, 178-194, 350-372).
KernelAgrees ==
  \A x \in Ctxs : (Alive /\ fdlock[x] = Free) =>
    \/ epoll[x[1]] = [ctx |-> x, evs |-> events[x]] /\ events[x] # {}
    \/ epoll[x[1]].ctx # x /\ (events[x] = {} \/ closed[x[1]])

\* stop() loses no callback: once it lets the scheduler stop, every callback registered
\* before m_stopping was set has been submitted (iomanager.cpp 286-292, 39-47).
StopWaits == m_stop => \A c \in Callbacks :
               Registered(c) /\ c \notin late => status[c] # "new"

\* Every step is a step, or a stutter, of the contract in Reactor: above all, a callback is submitted
\* at most once, whoever fires it, be it a worker with stale results, another worker, or a caller
\* of cancelEvent (iomanager.cpp 39-47, 325-373).
InFlight(x, e) == \E p \in Actors : pc[p] = "push" /\ ctx[p] = x /\ Head(todo[p]) = e
Waits(y) == LET c == slot[y[1]][y[2]] IN
            /\ c # None /\ status[c] = "new"
            /\ y[2] \in events[y[1]] \/ InFlight(y[1], y[2])
Contract == INSTANCE Reactor WITH
  Places <- Ctxs \X Event, off <- m_stop,
  armed  <- {<<y, slot[y[1]][y[2]]>> : y \in {z \in Ctxs \X Event : Waits(z)}},
  handed <- {c \in Callbacks : status[c] # "new"}
KeepsContract == Contract!Spec

-----------------------------------------------------------------------------
(* Liveness. *)

\* The kernel runs every thread and lets epoll_wait return, the alloc thread deals, and a
\* fiber that is switched in again and again is over in the end.  Nobody owes a call, and
\* fds become ready only where a property assumes it.
Fairness ==
  /\ \A p \in Actors : WF_vars(CallStep(p))
  /\ \A w \in Workers : WF_vars(WorkerStep(w))
  /\ \A t \in Tasks :
       /\ WF_vars(\E w \in Workers : Deal(t, w))
       /\ SF_vars(\E w \in Workers : running[w] = t /\ SwitchOut(w) /\ status'[t] = "done")
  /\ WF_vars(StopSpun \/ AllocExit \/ StopJoin)
FairSpec == Spec /\ Fairness

Ready(fd, e) == {e, "ERR"} \cap ready[fd] # {}
ArmedAt(c, fd, e) == \E g \in 1 .. MaxGen : slot[<<fd, g>>][e] = c /\ e \in events[<<fd, g>>]

\* No readiness is lost: a callback armed for an event of an fd that stays ready runs to its end,
\* unless the queue is full when it fires, however its registration, the edges, other
\* registrations of the fd, the workers' polling and stop() fall (iomanager.cpp 102-160, 300-375).
CallbackRuns == \A c \in Callbacks, fd \in Fds, e \in Event :
  (ArmedAt(c, fd, e) /\ []Ready(fd, e)) ~> (status[c] \in {"done", "refused"} \/ m_stop \/ ~Alive)

\* stop() returns if every event it waits for happens in the end (iomanager.cpp 286-298).
EventsHappen == \A fd \in Fds, e \in Event :
  <>[]Ready(fd, e) \/ []<>(\A c \in Callbacks : ~ArmedAt(c, fd, e))
StopReturns == EventsHappen => (ctl = "spin") ~> (ctl \in {"joined", "destroyed"} \/ ~Alive)
=============================================================================
