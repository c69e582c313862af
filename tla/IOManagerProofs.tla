--------------------------- MODULE IOManagerProofs ---------------------------
(***************************************************************************)
(* IOManager's safety properties for any number of workers, clients, file  *)
(* descriptors, callbacks and calls.                                       *)
(***************************************************************************)
EXTENDS IOManager, FiniteSetTheorems, SequenceTheorems, TLAPS

(***************************************************************************)
(* The inductive invariant.                                                *)
(***************************************************************************)
\* Every entry of the table has a context; only watched descriptors have edges.
Tables ==
  /\ size >= 2 /\ \A f \in Fds : f < size => table[f] # 0
  /\ \A f \in Fds : edge[f] => Watched(f)

Locked(p) == pc[p] \in {"commit", "fire", "push", "dec"}

\* Where a call is, it has what the code there uses; who is past the lock of a context holds it.
CallOf(p) ==
  /\ pc[p] \in {"find", "grow", "enter", "commit"} => arg[p].op \in Calls /\ arg[p].fd \in Fds
  /\ pc[p] = "grow" => arg[p].fd >= 2
  /\ pc[p] = "enter" \/ Locked(p) => ctx[p] \in Ctxs
  /\ pc[p] \in {"enter", "commit"} => ctx[p][1] = arg[p].fd
  /\ Locked(p) => fdlock[ctx[p]] = p
  /\ pc[p] \in {"fire", "push", "dec"} => todo[p] # <<>>
  /\ pc[p] = "commit" /\ arg[p].op = "add" => arg[p].ev \notin events[ctx[p]]
InCall == \A p \in Actors : CallOf(p)

\* A lock is held by who is past it.
Holding == \A x \in Ctxs : fdlock[x] # Free => Locked(fdlock[x]) /\ ctx[fdlock[x]] = x

Elems(s) == {s[i] : i \in 1 .. Len(s)}

\* The kernel watches x for exactly the events F, or not at all.
Agree(x, F) ==
  \/ epoll[x[1]] = [ctx |-> x, evs |-> F] /\ F # {}
  \/ epoll[x[1]].ctx # x /\ (F = {} \/ closed[x[1]])

\* It watches what will be armed when the lock is free again.
WatchesFor(p) ==
  LET x == ctx[p] IN
  /\ pc[p] = "commit" => Agree(x, IF arg[p].op = "add" THEN events[x] \cup {arg[p].ev}
                                                       ELSE events[x] \ {arg[p].ev})
  /\ pc[p] = "fire" => Agree(x, events[x] \ Elems(todo[p]))
  /\ pc[p] \in {"push", "dec"} => Agree(x, events[x] \ Elems(Tail(todo[p])))
Watching == /\ \A x \in Ctxs : fdlock[x] = Free => Agree(x, events[x])
            /\ \A p \in Actors : WatchesFor(p)

\* What is armed, or being pushed, is the new fiber of one registration.
ArmedNew == \A x \in Ctxs, e \in Event :
              e \in events[x] => slot[x][e] \in Callbacks /\ status[slot[x][e]] = "new"
PushNew == \A p \in Actors : pc[p] = "push" =>
             LET c == slot[ctx[p]][Head(todo[p])] IN
             c \in Callbacks /\ status[c] = "new" /\ Head(todo[p]) \notin events[ctx[p]]
OneSlot == \A x, y \in Ctxs, e, f \in Event :
             slot[x][e] = slot[y][f] /\ slot[x][e] # None => x = y /\ e = f
UnusedNew == \A c \in Callbacks : Unused(c) => status[c] = "new" /\ c \notin late
Slots == ArmedNew /\ PushNew /\ OneSlot /\ UnusedNew

Firing == {p \in Actors : pc[p] \in {"push", "dec"}}

Pending == /\ IsFiniteSet(Armed) /\ IsFiniteSet(Firing)
           /\ m_pendingEventCount = Cardinality(Armed) + Cardinality(Firing)

\* Only a fiber registered after m_stopping was set can be left when the scheduler has been stopped.
Left(x, e) == slot[x][e] # None /\ status[slot[x][e]] = "new"
Stopping ==
  /\ m_stop \/ ctl # "up" => m_stopping
  /\ \A x \in Ctxs, e \in Event :
       Left(x, e) => IF m_stop THEN slot[x][e] \in late ELSE e \in events[x] \/ InFlight(x, e)

IInv == TypeOK /\ Tables /\ InCall /\ Holding /\ Watching /\ Slots /\ Pending /\ Stopping

(***************************************************************************)
(* The sequences of events to fire.                                        *)
(***************************************************************************)
\* The few sequences that are fired, their elements and their tails.
LEMMA FiresShape ==
  ASSUME NEW s \in Fires, s # <<>>
  PROVE  /\ Head(s) \in Event /\ Tail(s) \in Fires
         /\ Elems(s) = {Head(s)} \cup Elems(Tail(s)) /\ Head(s) \notin Elems(Tail(s))
         /\ Len(s) > 1 <=> Tail(s) # <<>>
  <1>1. CASE s = <<"READ">>
    <2>1. Head(s) = "READ" /\ Tail(s) = <<>> /\ Len(s) = 1
      BY <1>1
    <2>2. Elems(s) = {"READ"} /\ Elems(<<>>) = {}
      BY <1>1 DEF Elems
    <2>3. Head(s) \in Event /\ Tail(s) \in Fires
      BY <2>1 DEF Event, Fires
    <2>4. Len(s) > 1 <=> Tail(s) # <<>>
      BY <2>1
    <2>5. Elems(s) = {Head(s)} \cup Elems(Tail(s)) /\ Head(s) \notin Elems(Tail(s))
      BY <2>1, <2>2, Zenon
    <2> QED BY <2>3, <2>4, <2>5
  <1>2. CASE s = <<"WRITE">>
    <2>1. Head(s) = "WRITE" /\ Tail(s) = <<>> /\ Len(s) = 1
      BY <1>2
    <2>2. Elems(s) = {"WRITE"} /\ Elems(<<>>) = {}
      BY <1>2 DEF Elems
    <2>3. Head(s) \in Event /\ Tail(s) \in Fires
      BY <2>1 DEF Event, Fires
    <2>4. Len(s) > 1 <=> Tail(s) # <<>>
      BY <2>1
    <2>5. Elems(s) = {Head(s)} \cup Elems(Tail(s)) /\ Head(s) \notin Elems(Tail(s))
      BY <2>1, <2>2, Zenon
    <2> QED BY <2>3, <2>4, <2>5
  <1>3. CASE s = <<"READ", "WRITE">>
    <2>1. Head(s) = "READ" /\ Tail(s) = <<"WRITE">> /\ Len(s) = 2
      BY <1>3
    <2>2. Elems(s) = {"READ", "WRITE"} /\ Elems(<<"WRITE">>) = {"WRITE"}
      BY <1>3 DEF Elems
    <2>3. Head(s) \in Event /\ Tail(s) \in Fires
      BY <2>1 DEF Event, Fires
    <2>4. Len(s) > 1 <=> Tail(s) # <<>>
      BY <2>1
    <2>5. Elems(s) = {Head(s)} \cup Elems(Tail(s)) /\ Head(s) \notin Elems(Tail(s))
      BY <2>1, <2>2, Zenon
    <2> QED BY <2>3, <2>4, <2>5
  <1> QED BY <1>1, <1>2, <1>3 DEF Fires

\* InOrder lists a set of events.
LEMMA InOrderLists ==
  ASSUME NEW S \in SUBSET Event
  PROVE  InOrder(S) \in Fires /\ Elems(InOrder(S)) = S /\ (S # {} => InOrder(S) # <<>>)
  <1>1. CASE S = {}
    <2>1. InOrder(S) = <<>>
      BY <1>1 DEF InOrder
    <2> QED BY <2>1, <1>1 DEF Fires, Elems
  <1>2. CASE S = {"READ"}
    <2>1. InOrder(S) = <<"READ">>
      BY <1>2 DEF InOrder
    <2> QED BY <2>1, <1>2 DEF Fires, Elems
  <1>3. CASE S = {"WRITE"}
    <2>1. InOrder(S) = <<"WRITE">>
      BY <1>3 DEF InOrder
    <2> QED BY <2>1, <1>3 DEF Fires, Elems
  <1>4. CASE S = {"READ", "WRITE"}
    <2>1. InOrder(S) = <<"READ", "WRITE">>
      <3>1. <<"READ">> \o <<"WRITE">> = <<"READ", "WRITE">>
        <4> DEFINE r == <<"READ">>
                   w == <<"WRITE">>
        <4>1. r \in Seq(Event) /\ w \in Seq(Event) /\ Len(r) = 1 /\ Len(w) = 1
              /\ <<"READ", "WRITE">> \in Seq(Event) /\ Len(<<"READ", "WRITE">>) = 2
          BY DEF Event
        <4>2. r \o w \in Seq(Event) /\ Len(r \o w) = 2
              /\ (r \o w)[1] = r[1] /\ (r \o w)[2] = w[1]
          BY <4>1, ConcatProperties
        <4>3. \A i \in 1 .. 2 : (r \o w)[i] = <<"READ", "WRITE">>[i]
          BY <4>2
        <4> HIDE DEF r, w
        <4>4. r \o w = <<"READ", "WRITE">>
          BY <4>1, <4>2, <4>3, SeqEqual
        <4> QED BY <4>4 DEF r, w
      <3>2. "READ" \in S /\ "WRITE" \in S
        BY <1>4
      <3> QED BY <3>1, <3>2, Zenon DEF InOrder
    <2>2. Elems(InOrder(S)) = {"READ", "WRITE"}
      BY <2>1 DEF Elems
    <2>3. InOrder(S) \in Fires /\ InOrder(S) # <<>>
      BY <2>1 DEF Fires
    <2> QED BY <2>2, <2>3, <1>4
  <1>5. S = {} \/ S = {"READ"} \/ S = {"WRITE"} \/ S = {"READ", "WRITE"}
    <2>1. \A e \in S : e = "READ" \/ e = "WRITE"
      BY DEF Event
    <2>2. CASE "READ" \in S /\ "WRITE" \in S
      BY <2>1, <2>2
    <2>3. CASE "READ" \in S /\ "WRITE" \notin S
      <3>1. \A e : e \in S <=> e \in {"READ"}
        BY <2>1, <2>3
      <3> QED BY <3>1
    <2>4. CASE "READ" \notin S /\ "WRITE" \in S
      <3>1. \A e : e \in S <=> e \in {"WRITE"}
        BY <2>1, <2>4
      <3> QED BY <3>1
    <2>5. CASE "READ" \notin S /\ "WRITE" \notin S
      BY <2>1, <2>5
    <2> QED BY <2>2, <2>3, <2>4, <2>5
  <1> QED BY <1>1, <1>2, <1>3, <1>4, <1>5
(***************************************************************************)
(* What each step does, pointwise.                                         *)
(***************************************************************************)
Quiet == UNCHANGED <<ownerVars, byOwner>> /\ abort' \in Faults \cup {abort}
Others(p) ==
  /\ pc' = [pc EXCEPT ![p] = pc'[p]] /\ arg' = [arg EXCEPT ![p] = arg'[p]]
  /\ ctx' = [ctx EXCEPT ![p] = ctx'[p]] /\ todo' = [todo EXCEPT ![p] = todo'[p]]
  /\ \A q \in Actors \ {p} : /\ pc'[q] = pc[q] /\ arg'[q] = arg[q]
                             /\ ctx'[q] = ctx[q] /\ todo'[q] = todo[q]
Returns(p) == pc'[p] = "none" /\ arg'[p] = NoCall /\ ctx'[p] = None
Moves(p, here) == pc'[p] = here /\ arg'[p] = arg[p] /\ ctx'[p] = ctx[p]
LockedBy(x, p) == fdlock' = [fdlock EXCEPT ![x] = p]

\* A call begins.
LEMMA BeginFacts ==
  ASSUME CallTypeOK, NEW p \in Actors, NEW op \in Calls, NEW fd \in Fds, NEW e \in Event,
         BeginCall(p, op, fd, e)
  PROVE  /\ pc[p] = "none" /\ pc'[p] = "find" /\ ctx'[p] = ctx[p] /\ todo'[p] = todo[p]
         /\ arg'[p] = [op |-> op, fd |-> fd, ev |-> e] /\ Others(p)
         /\ UNCHANGED <<ownerVars, tableVars, ctxVars, fdlock, m_pendingEventCount, kernelVars, poolVars,
                        workerVars, ghostVars, abort>>
  BY DEF BeginCall, CallTypeOK, Others

\* The table is read.
LEMMA FindFacts ==
  ASSUME CallTypeOK, NEW p \in Actors, Find(p)
  PROVE  /\ pc[p] = "find" /\ todo'[p] = todo[p] /\ Others(p)
         /\ UNCHANGED <<tableVars, shared>>
         /\ \/ /\ arg[p].fd < size /\ pc'[p] = "enter" /\ arg'[p] = arg[p]
               /\ ctx'[p] = <<arg[p].fd, table[arg[p].fd]>>
            \/ arg[p].fd >= size /\ Moves(p, "grow")
            \/ Returns(p)
  BY DEF Find, Reach, Step, Return, CallTypeOK, Others, Returns, Moves

\* The table grows.
LEMMA GrowFacts ==
  ASSUME CallTypeOK, NEW p \in Actors, Grow(p)
  PROVE  /\ pc[p] = "grow" /\ todo'[p] = todo[p] /\ Others(p)
         /\ Resize((arg[p].fd * 3) \div 2)
         /\ pc'[p] = "enter" /\ arg'[p] = arg[p] /\ ctx'[p] = <<arg[p].fd, table'[arg[p].fd]>>
         /\ UNCHANGED shared
  BY DEF Grow, Reach, CallTypeOK, Others

\* addEvent dies, locks the context after epoll_ctl, or returns.
LEMMA AddEnterFacts ==
  ASSUME CallTypeOK, NEW p \in Actors, AddEnter(p)
  PROVE  \/ Quiet
         \/ /\ Entering(p, {"add"}) /\ todo'[p] = todo[p] /\ Others(p) /\ Moves(p, "commit")
            /\ arg[p].ev \notin events[ctx[p]] /\ AddAccepted(arg[p].fd, ctx[p])
            /\ Watch(arg[p].fd, ctx[p], events[ctx[p]] \cup {arg[p].ev}) /\ LockedBy(ctx[p], p)
            /\ UNCHANGED <<tableVars, ctxVars, m_pendingEventCount, poolVars, late, abort>>
         \/ /\ Entering(p, {"add"}) /\ todo'[p] = todo[p] /\ Others(p) /\ Returns(p)
            /\ UNCHANGED <<tableVars, shared>>
  BY DEF AddEnter, Step, Return, Dies, Faults, CallTypeOK, Others, Returns, Moves, Entering, Quiet,
         LockedBy, Wanted

\* addEvent arms the event and returns.
LEMMA AddCommitFacts ==
  ASSUME CallTypeOK, NEW p \in Actors, NEW c \in Callbacks, AddCommit(p, c)
  PROVE  /\ pc[p] = "commit" /\ arg[p].op = "add" /\ slot[ctx[p]][arg[p].ev] = None /\ Unused(c)
         /\ m_pendingEventCount' = m_pendingEventCount + 1
         /\ events' = [events EXCEPT ![ctx[p]] = @ \cup {arg[p].ev}]
         /\ slot' = [slot EXCEPT ![ctx[p]][arg[p].ev] = c]
         /\ late' = IF m_stopping THEN late \cup {c} ELSE late
         /\ LockedBy(ctx[p], Free) /\ Returns(p) /\ todo'[p] = todo[p] /\ Others(p)
         /\ UNCHANGED <<tableVars, kernelVars, poolVars, abort>>
  BY DEF AddCommit, Unlock, Return, CountAfterAdd, CallTypeOK, Others, Returns, LockedBy

\* A removal locks the context after epoll_ctl, or returns.
LEMMA RemoveEnterFacts ==
  ASSUME CallTypeOK, NEW p \in Actors, RemoveEnter(p)
  PROVE  /\ Entering(p, {"del", "cancel", "cancelAll"}) /\ Others(p)
         /\ UNCHANGED <<tableVars, ctxVars, m_pendingEventCount, poolVars, late, abort>>
         /\ \/ /\ Target(p) \cap events[ctx[p]] # {} /\ Watched(arg[p].fd)
               /\ Watch(arg[p].fd, ctx[p], events[ctx[p]] \ Target(p)) /\ LockedBy(ctx[p], p)
               /\ todo'[p] = InOrder(Target(p))
               /\ Moves(p, IF arg[p].op = "del" THEN "commit" ELSE "fire")
            \/ Returns(p) /\ todo'[p] = todo[p] /\ UNCHANGED <<kernelVars, fdlock>>
  <1> DEFINE found == Target(p) \cap events[ctx[p]] # {} /\ Watched(arg[p].fd)
  <1>1. CASE found
    BY <1>1 DEF RemoveEnter, Step, CallTypeOK, Others, Moves, LockedBy, Entering
  <1>2. CASE ~found
    BY <1>2 DEF RemoveEnter, Return, CallTypeOK, Others, Returns, Entering
  <1> QED BY <1>1, <1>2

\* triggerEvent dies, or disarms the next event.
LEMMA FireFacts ==
  ASSUME CallTypeOK, NEW p \in Actors, Fire(p)
  PROVE  \/ Quiet
         \/ /\ pc[p] = "fire" /\ Head(todo[p]) \in events[ctx[p]]
            /\ events' = [events EXCEPT ![ctx[p]] = @ \ {Head(todo[p])}]
            /\ Moves(p, IF m_stop THEN "dec" ELSE "push") /\ todo'[p] = todo[p] /\ Others(p)
            /\ UNCHANGED <<tableVars, slot, fdlock, m_pendingEventCount, kernelVars, poolVars, late, abort>>
  <1>1. CASE Head(todo[p]) \notin events[ctx[p]]
    BY <1>1 DEF Fire, Dies, Quiet, Faults
  <1>2. CASE Head(todo[p]) \in events[ctx[p]]
    BY <1>2 DEF Fire, Step, Disarmed, SubmitTakes, CallTypeOK, Others, Moves
  <1> QED BY <1>1, <1>2

\* The fiber is submitted, or the process dies.
LEMMA FirePushFacts ==
  ASSUME CallTypeOK, NEW p \in Actors, FirePush(p)
  PROVE  \/ Quiet
         \/ LET c == slot[ctx[p]][Head(todo[p])] IN
            /\ pc[p] = "push" /\ status[c] = "new" /\ worker' = worker
            /\ \/ status' = [status EXCEPT ![c] = "waiting"]
               \/ status' = [status EXCEPT ![c] = "refused"]
            /\ Moves(p, "dec") /\ todo'[p] = todo[p] /\ Others(p)
            /\ UNCHANGED <<tableVars, ctxVars, fdlock, m_pendingEventCount, kernelVars, late, abort>>
  BY DEF FirePush, Step, Dies, Quiet, Faults, Pool!Accept, Pool!Refuse, CallTypeOK, Others, Moves

\* The event that was fired is no longer counted.
LEMMA FireDecFacts ==
  ASSUME CallTypeOK, NEW p \in Actors, FireDec(p)
  PROVE  /\ pc[p] = "dec" /\ m_pendingEventCount' = m_pendingEventCount - 1
         /\ todo'[p] = Tail(todo[p]) /\ Others(p)
         /\ UNCHANGED <<tableVars, ctxVars, kernelVars, poolVars, late, abort>>
         /\ \/ Len(todo[p]) > 1 /\ Moves(p, "fire") /\ UNCHANGED fdlock
            \/ ~(Len(todo[p]) > 1) /\ Returns(p) /\ LockedBy(ctx[p], Free)
  <1>1. CASE Len(todo[p]) > 1
    BY <1>1 DEF FireDec, Step, CountAfterFire, CallTypeOK, Others, Moves
  <1>2. CASE ~(Len(todo[p]) > 1)
    BY <1>2 DEF FireDec, Unlock, Return, CountAfterFire, CallTypeOK, Others, Returns, LockedBy
  <1> QED BY <1>1, <1>2

\* A worker that handles a result fires its events, or drops it.
LEMMA HandleFacts ==
  ASSUME CallTypeOK, NEW w \in Workers, NEW r \in got[w], IdleHandle(w, r)
  PROVE  /\ pc[w] = "none" /\ fdlock[r.ctx] = Free /\ Others(w) /\ arg'[w] = arg[w]
         /\ UNCHANGED <<ownerVars, closed>>
         /\ UNCHANGED <<tableVars, ctxVars, m_pendingEventCount, poolVars, late, abort>>
         /\ \/ /\ events[r.ctx] \cap RealEvents(r.ctx, r.evs) # {} /\ Watched(r.ctx[1])
               /\ Watch(r.ctx[1], r.ctx, events[r.ctx] \ RealEvents(r.ctx, r.evs))
               /\ LockedBy(r.ctx, w)
               /\ ctx'[w] = r.ctx /\ todo'[w] = InOrder(RealEvents(r.ctx, r.evs)) /\ pc'[w] = "fire"
            \/ /\ UNCHANGED <<kernelVars, fdlock>>
               /\ ctx'[w] = ctx[w] /\ todo'[w] = todo[w] /\ pc'[w] = pc[w]
  <1> DEFINE x == r.ctx
             fired == events[x] \cap RealEvents(x, r.evs) # {} /\ Watched(x[1])
  <1>1. w \in Actors
    BY DEF Actors
  <1>2. CASE fired
    BY <1>1, <1>2 DEF IdleHandle, CallTypeOK, Others, LockedBy, ghostVars
  <1>3. CASE ~fired
    BY <1>1, <1>3 DEF IdleHandle, CallTypeOK, Others, ghostVars
  <1> QED BY <1>2, <1>3

(***************************************************************************)
(* The cases of a step: what a call does, what a worker does besides the   *)
(* results of epoll_wait, the owner, the kernel, and what changes nothing. *)
(***************************************************************************)
CallAct(p) == /\ \/ Find(p) \/ Grow(p) \/ AddEnter(p) \/ RemoveEnter(p)
                 \/ \E c \in Callbacks : AddCommit(p, c)
                 \/ Fire(p) \/ FirePush(p) \/ FireDec(p)
              /\ UNCHANGED byCall
PoolAct(w) == \/ IdleWait(w) \/ IdleReturns(w) \/ WorkerExit(w) \/ SwitchOut(w)
              \/ \E t \in Tasks : SwitchIn(w, t) \/ Deal(t, w)

\* Every step is one of these.
LEMMA Cases ==
  ASSUME [Next]_vars
  PROVE  \/ Quiet
         \/ \E p \in Actors, op \in Calls, fd \in Fds, e \in Event : BeginCall(p, op, fd, e)
         \/ \E p \in Actors : CallAct(p)
         \/ \E w \in Workers : \E r \in got[w] : IdleHandle(w, r)
         \/ \E w \in Workers : PoolAct(w)
         \/ OwnerStep
         \/ Kernel
  <1>1. ASSUME UNCHANGED vars PROVE Quiet
    BY <1>1 DEF vars, Quiet, byOwner
  <1>2. ASSUME NEW p \in Actors, Begin(p) \/ CallStep(p)
        PROVE  \/ Quiet \/ CallAct(p)
               \/ \E op \in Calls, fd \in Fds, e \in Event : BeginCall(p, op, fd, e)
    <2>1. CASE Begin(p)
      BY <2>1 DEF Begin
    <2>2. CASE AddOccupied(p)
      BY <2>2 DEF AddOccupied, Dies, Quiet, Faults
    <2>3. CASE DelCommit(p)
      BY <2>3 DEF DelCommit, Dies, Quiet, Faults
    <2> QED BY <1>2, <2>1, <2>2, <2>3 DEF CallStep, CallAct
  <1>3. ASSUME NEW w \in Workers, WorkerStep(w) \/ SwitchOut(w) \/ \E t \in Tasks : Deal(t, w)
        PROVE  PoolAct(w) \/ \E r \in got[w] : IdleHandle(w, r)
    BY <1>3 DEF WorkerStep, PoolAct
  <1>4. CASE Next
    BY <1>1, <1>2, <1>3, <1>4 DEF Next, Over
  <1> QED BY <1>1, <1>4

\* A worker's own steps touch only the pool, its control and, when epoll_wait returns, the edges.
LEMMA PoolActFacts ==
  ASSUME NEW w \in Workers, PoolAct(w)
  PROVE  /\ UNCHANGED byWorker
         /\ UNCHANGED <<ready, epoll>> /\ (UNCHANGED edge \/ edge' = [fd \in Fds |-> FALSE])
  <1>1. CASE IdleWait(w)
    BY <1>1 DEF IdleWait, kernelVars
  <1>2. CASE IdleReturns(w)
    BY <1>2 DEF IdleReturns
  <1>3. CASE WorkerExit(w)
    BY <1>3 DEF WorkerExit, kernelVars
  <1>4. CASE SwitchOut(w)
    BY <1>4 DEF SwitchOut, kernelVars
  <1>5. ASSUME NEW t \in Tasks, SwitchIn(w, t) PROVE UNCHANGED <<byWorker, kernelVars>>
    BY <1>5 DEF SwitchIn
  <1>6. ASSUME NEW t \in Tasks, Deal(t, w) PROVE UNCHANGED <<byWorker, kernelVars>>
    BY <1>6 DEF Deal
  <1> QED BY <1>1, <1>2, <1>3, <1>4, <1>5, <1>6 DEF PoolAct, kernelVars

\* The owner touches nothing of the calls.
LEMMA OwnerFacts ==
  ASSUME OwnerStep PROVE UNCHANGED byOwner
  BY DEF OwnerStep, StopBegin, StopSpun, AllocExit, StopJoin, Destruct

\* The kernel and the program that closes an fd touch nothing of the calls.
LEMMA KernelFacts ==
  ASSUME Kernel
  PROVE  /\ UNCHANGED <<ownerVars, tableVars, ctxVars, fdlock, m_pendingEventCount, poolVars,
                        workerVars, callVars, budget, late, abort>>
         /\ \/ UNCHANGED <<epoll, closed>>
            \/ \E fd \in Fds : Close(fd)
  BY DEF Kernel, BecomeReady, Unready, ghostVars

(***************************************************************************)
(* Types.                                                                  *)
(***************************************************************************)
\* The switches and the owner's control.
LEMMA OwnerTypes ==
  ASSUME CallTypeOK, OwnerTypeOK, [Next]_vars PROVE OwnerTypeOK'
  <1> USE DEF OwnerTypeOK, ownerVars
  <1>1. CASE Quiet
    BY <1>1 DEF Quiet, Faults
  <1>2. ASSUME NEW p \in Actors, NEW op \in Calls, NEW fd \in Fds, NEW e \in Event,
               BeginCall(p, op, fd, e)
        PROVE  OwnerTypeOK'
    BY <1>2, BeginFacts
  <1>3. ASSUME NEW p \in Actors, CallAct(p) PROVE OwnerTypeOK'
    <2>1. UNCHANGED ownerVars
      BY <1>3 DEF CallAct, byCall
    <2>2. Quiet \/ UNCHANGED abort
      BY <1>3, FindFacts, GrowFacts, AddEnterFacts, RemoveEnterFacts, AddCommitFacts, FireFacts,
         FirePushFacts, FireDecFacts DEF CallAct, shared
    <2> QED BY <2>1, <2>2, <1>1
  <1>4. ASSUME NEW w \in Workers, NEW r \in got[w], IdleHandle(w, r) PROVE OwnerTypeOK'
    BY <1>4, HandleFacts
  <1>5. ASSUME NEW w \in Workers, PoolAct(w) PROVE OwnerTypeOK'
    BY <1>5, PoolActFacts DEF byWorker
  <1>6. CASE OwnerStep
    BY <1>6 DEF OwnerStep, StopBegin, StopSpun, AllocExit, StopJoin, Destruct, Faults
  <1>7. CASE Kernel
    BY <1>7, KernelFacts
  <1> QED BY <1>1, <1>2, <1>3, <1>4, <1>5, <1>6, <1>7, Cases

\* The table keeps its form, and a context is never missing below its size.
LEMMA TableTypes ==
  ASSUME CallTypeOK, TableTypeOK, Tables, InCall, [Next]_vars
  PROVE  /\ TableTypeOK' /\ size' >= 2 /\ \A f \in Fds : f < size' => table'[f] # 0
         /\ UNCHANGED tableVars \/ \E p \in Actors : Grow(p)
  <1> DEFINE Goal == TableTypeOK' /\ size' >= 2 /\ \A f \in Fds : f < size' => table'[f] # 0
  <1>1. CASE UNCHANGED tableVars
    BY <1>1 DEF Tables, TableTypeOK, tableVars
  <1>2. ASSUME NEW p \in Actors, Grow(p) PROVE Goal
    <2> DEFINE n == (arg[p].fd * 3) \div 2
    <2>1. arg[p].fd \in Nat /\ arg[p].fd >= 2
      BY <1>2, GrowFacts, IOManagerAssumption DEF InCall, CallOf
    <2>2. n \in Nat /\ n >= 2
      BY <2>1
    <2>3. Resize(n)
      BY <1>2, GrowFacts
    <2> HIDE DEF n
    <2> QED BY <2>2, <2>3, IOManagerAssumption DEF Resize, TableTypeOK
  <1>3. UNCHANGED tableVars \/ \E p \in Actors : Grow(p)
    <2> USE DEF tableVars
    <2>1. ASSUME Quiet PROVE UNCHANGED tableVars
      BY <2>1 DEF Quiet, byOwner
    <2>2. ASSUME NEW p \in Actors, NEW op \in Calls, NEW fd \in Fds, NEW e \in Event,
                 BeginCall(p, op, fd, e)
          PROVE  UNCHANGED tableVars
      BY <2>2, BeginFacts
    <2>3. ASSUME NEW p \in Actors, CallAct(p), ~Grow(p) PROVE UNCHANGED tableVars
      BY <2>1, <2>3, FindFacts, AddEnterFacts, RemoveEnterFacts, AddCommitFacts, FireFacts,
         FirePushFacts, FireDecFacts DEF CallAct
    <2>4. ASSUME NEW w \in Workers, NEW r \in got[w], IdleHandle(w, r) PROVE UNCHANGED tableVars
      BY <2>4, HandleFacts
    <2>5. ASSUME NEW w \in Workers, PoolAct(w) PROVE UNCHANGED tableVars
      BY <2>5, PoolActFacts DEF byWorker
    <2>6. CASE OwnerStep
      BY <2>6, OwnerFacts DEF byOwner
    <2>7. CASE Kernel
      BY <2>7, KernelFacts
    <2> QED BY <2>1, <2>2, <2>3, <2>4, <2>5, <2>6, <2>7, Cases
  <1> QED BY <1>1, <1>2, <1>3

\* A context is a pair of a descriptor and the number of its allocation.
LEMMA CtxShape ==
  ASSUME NEW x \in Ctxs
  PROVE  x[1] \in Fds /\ x = <<x[1], x[2]>> /\ x[2] \in 1 .. MaxGen
  BY DEF Ctxs

\* Who reaches a context reaches one that has been allocated.
LEMMA Reached ==
  ASSUME TableTypeOK, Tables, CallTypeOK, InCall, NEW p \in Actors
  PROVE  /\ Find(p) /\ pc'[p] = "enter" => ctx'[p] \in Ctxs /\ ctx'[p][1] = arg[p].fd
         /\ Grow(p) => ctx'[p] \in Ctxs /\ ctx'[p][1] = arg[p].fd
  <1>1. ASSUME Find(p), pc'[p] = "enter" PROVE ctx'[p] \in Ctxs /\ ctx'[p][1] = arg[p].fd
    <2>1. arg[p].fd \in Fds
      BY <1>1, FindFacts DEF InCall, CallOf
    <2>2. ctx'[p] = <<arg[p].fd, table[arg[p].fd]>> /\ arg[p].fd < size
      BY <1>1, FindFacts DEF Moves, Returns
    <2>3. table[arg[p].fd] \in 1 .. MaxGen
      <3>1. table[arg[p].fd] \in 0 .. MaxGen /\ table[arg[p].fd] # 0
        BY <2>1, <2>2 DEF TableTypeOK, Tables
      <3> QED BY <3>1, IOManagerAssumption
    <2> QED BY <2>1, <2>2, <2>3 DEF Ctxs
  <1>2. ASSUME Grow(p) PROVE ctx'[p] \in Ctxs /\ ctx'[p][1] = arg[p].fd
    <2> DEFINE fd == arg[p].fd
               n == (fd * 3) \div 2
    <2>1. fd \in Fds /\ fd \in Nat /\ fd >= 2
      BY <1>2, GrowFacts, IOManagerAssumption DEF InCall, CallOf
    <2>2. n \in Nat /\ fd < n
      BY <2>1
    <2>3. Resize(n) /\ ctx'[p] = <<fd, table'[fd]>>
      BY <1>2, GrowFacts
    <2> HIDE DEF n
    <2>4. table'[fd] \in 1 .. MaxGen
      BY <2>1, <2>2, <2>3, IOManagerAssumption DEF Resize, TableTypeOK
    <2> QED BY <2>1, <2>3, <2>4 DEF Ctxs
  <1> QED BY <1>1, <1>2

\* The events of a call and of a result, in the order in which they are fired.
LEMMA WhatIsFired ==
  ASSUME CallTypeOK, CtxTypeOK, WorkerTypeOK
  PROVE  /\ \A p \in Actors : pc[p] = "enter" /\ ctx[p] \in Ctxs =>
              Target(p) \in SUBSET Event /\ InOrder(Target(p)) \in Fires
         /\ \A x \in Ctxs, E \in SUBSET Bits :
              RealEvents(x, E) \in SUBSET Event /\ InOrder(RealEvents(x, E)) \in Fires
         /\ \A w \in Workers : \A r \in got[w] : r.ctx \in Ctxs /\ r.evs \in SUBSET Bits
  <1>1. ASSUME NEW p \in Actors, ctx[p] \in Ctxs PROVE Target(p) \in SUBSET Event
    BY <1>1 DEF Target, CallTypeOK, CtxTypeOK
  <1>2. ASSUME NEW x \in Ctxs, NEW E \in SUBSET Bits PROVE RealEvents(x, E) \in SUBSET Event
    BY DEF RealEvents, CtxTypeOK
  <1>3. \A w \in Workers : \A r \in got[w] : r.ctx \in Ctxs /\ r.evs \in SUBSET Bits
    BY DEF WorkerTypeOK
  <1> QED BY <1>1, <1>2, <1>3, InOrderLists

\* The calls.
LEMMA CallTypes ==
  ASSUME TypeOK, Tables, InCall, [Next]_vars PROVE CallTypeOK'
  <1> USE DEF CallTypeOK, callVars
  <1>0. CallTypeOK /\ TableTypeOK /\ CtxTypeOK /\ WorkerTypeOK
    BY DEF TypeOK
  <1> DEFINE Fits(p) ==
        /\ pc'[p] \in {"none", "find", "grow", "enter", "commit", "fire", "push", "dec"}
        /\ arg'[p] \in [op : Calls \cup {"none"}, fd : Fds \cup {0}, ev : Event]
        /\ ctx'[p] \in Ctxs \cup {None} /\ todo'[p] \in Fires
  <1>a. ASSUME NEW p \in Actors, Others(p), Fits(p) PROVE CallTypeOK'
    BY <1>0, <1>a DEF Others
  <1>b. NoCall \in [op : Calls \cup {"none"}, fd : Fds \cup {0}, ev : Event]
    BY DEF NoCall, Event
  <1>1. CASE Quiet
    BY <1>0, <1>1 DEF Quiet, byOwner
  <1>2. ASSUME NEW p \in Actors, NEW op \in Calls, NEW fd \in Fds, NEW e \in Event,
               BeginCall(p, op, fd, e)
        PROVE  CallTypeOK'
    <2>1. Others(p) /\ pc'[p] = "find" /\ ctx'[p] = ctx[p] /\ todo'[p] = todo[p]
          /\ arg'[p] = [op |-> op, fd |-> fd, ev |-> e]
      BY <1>0, <1>2, BeginFacts
    <2>2. [op |-> op, fd |-> fd, ev |-> e] \in [op : Calls \cup {"none"}, fd : Fds \cup {0}, ev : Event]
      OBVIOUS
    <2>3. Fits(p)
      BY <1>0, <2>1, <2>2
    <2> QED BY <2>1, <2>3, <1>a
  <1>3. ASSUME NEW p \in Actors, CallAct(p) PROVE CallTypeOK'
    <2>1. CASE Find(p)
      <3>1. Others(p) /\ Fits(p)
        BY <1>0, <1>b, <2>1, FindFacts, Reached DEF Moves, Returns
      <3> QED BY <3>1, <1>a
    <2>2. CASE Grow(p)
      <3>1. Others(p) /\ Fits(p)
        BY <1>0, <2>2, GrowFacts, Reached
      <3> QED BY <3>1, <1>a
    <2>3. CASE AddEnter(p)
      <3>1. Quiet \/ (Others(p) /\ Fits(p))
        BY <1>0, <1>b, <2>3, AddEnterFacts DEF Moves, Returns
      <3> QED BY <3>1, <1>1, <1>a
    <2>4. CASE RemoveEnter(p)
      <3>1. Others(p) /\ pc[p] = "enter" /\ ctx[p] \in Ctxs
        BY <1>0, <2>4, RemoveEnterFacts DEF Entering, InCall, CallOf
      <3>2. Fits(p)
        BY <1>0, <1>b, <2>4, <3>1, RemoveEnterFacts, WhatIsFired DEF Moves, Returns
      <3> QED BY <3>1, <3>2, <1>a
    <2>5. ASSUME NEW c \in Callbacks, AddCommit(p, c) PROVE CallTypeOK'
      <3>1. Others(p) /\ Fits(p)
        BY <1>0, <1>b, <2>5, AddCommitFacts DEF Moves, Returns
      <3> QED BY <3>1, <1>a
    <2>6. CASE Fire(p)
      <3>1. Quiet \/ (Others(p) /\ Fits(p))
        BY <1>0, <2>6, FireFacts DEF Moves
      <3> QED BY <3>1, <1>1, <1>a
    <2>7. CASE FirePush(p)
      <3>1. Quiet \/ (Others(p) /\ Fits(p))
        BY <1>0, <2>7, FirePushFacts DEF Moves
      <3> QED BY <3>1, <1>1, <1>a
    <2>8. CASE FireDec(p)
      <3>1. todo[p] \in Fires /\ todo[p] # <<>>
        BY <1>0, <2>8, FireDecFacts DEF InCall, CallOf
      <3>2. Tail(todo[p]) \in Fires
        BY <3>1, FiresShape
      <3>3. Others(p) /\ Fits(p)
        BY <1>0, <1>b, <2>8, <3>2, FireDecFacts DEF Moves, Returns
      <3> QED BY <3>3, <1>a
    <2> QED BY <1>3, <2>1, <2>2, <2>3, <2>4, <2>5, <2>6, <2>7, <2>8 DEF CallAct
  <1>4. ASSUME NEW w \in Workers, NEW r \in got[w], IdleHandle(w, r) PROVE CallTypeOK'
    <2>1. w \in Actors
      BY DEF Actors
    <2>2. r.ctx \in Ctxs /\ InOrder(RealEvents(r.ctx, r.evs)) \in Fires
      BY <1>0, WhatIsFired
    <2>3. /\ Others(w) /\ arg'[w] = arg[w]
          /\ \/ ctx'[w] = r.ctx /\ todo'[w] = InOrder(RealEvents(r.ctx, r.evs)) /\ pc'[w] = "fire"
             \/ ctx'[w] = ctx[w] /\ todo'[w] = todo[w] /\ pc'[w] = pc[w]
      BY <1>0, <1>4, <2>1, HandleFacts
    <2>4. Fits(w)
      BY <1>0, <2>1, <2>2, <2>3
    <2> QED BY <2>1, <2>3, <2>4, <1>a
  <1>5. ASSUME NEW w \in Workers, PoolAct(w) PROVE CallTypeOK'
    BY <1>0, <1>5, PoolActFacts DEF byWorker
  <1>6. CASE OwnerStep
    BY <1>0, <1>6, OwnerFacts DEF byOwner
  <1>7. CASE Kernel
    BY <1>0, <1>7, KernelFacts
  <1> QED BY <1>1, <1>2, <1>3, <1>4, <1>5, <1>6, <1>7, Cases

\* The contexts.
LEMMA CtxTypes ==
  ASSUME TypeOK, InCall, [Next]_vars PROVE CtxTypeOK'
  <1> USE DEF CtxTypeOK, ctxVars
  <1>0. CtxTypeOK /\ CallTypeOK /\ WorkerTypeOK
    BY DEF TypeOK
  <1>a. ASSUME UNCHANGED ctxVars, NEW x \in Ctxs, NEW p \in Actors \cup {Free}, LockedBy(x, p)
        PROVE  CtxTypeOK'
    BY <1>0, <1>a DEF LockedBy
  <1>b. ASSUME UNCHANGED <<ctxVars, fdlock>> PROVE CtxTypeOK'
    BY <1>0, <1>b
  <1>c. ASSUME NEW p \in Actors, pc[p] = "enter" \/ Locked(p) PROVE ctx[p] \in Ctxs
    BY <1>c DEF InCall, CallOf
  <1>1. CASE Quiet
    BY <1>b, <1>1 DEF Quiet, byOwner
  <1>2. ASSUME NEW p \in Actors, NEW op \in Calls, NEW fd \in Fds, NEW e \in Event,
               BeginCall(p, op, fd, e)
        PROVE  CtxTypeOK'
    BY <1>0, <1>b, <1>2, BeginFacts
  <1>3. ASSUME NEW p \in Actors, CallAct(p) PROVE CtxTypeOK'
    <2>1. CASE Find(p) \/ Grow(p)
      BY <1>0, <1>b, <2>1, FindFacts, GrowFacts DEF shared
    <2>2. CASE AddEnter(p)
      BY <1>0, <1>a, <1>b, <1>c, <1>1, <2>2, AddEnterFacts DEF shared, Entering
    <2>3. CASE RemoveEnter(p)
      BY <1>0, <1>a, <1>b, <1>c, <2>3, RemoveEnterFacts DEF Entering
    <2>4. ASSUME NEW c \in Callbacks, AddCommit(p, c) PROVE CtxTypeOK'
      <3>1. ctx[p] \in Ctxs /\ arg[p].ev \in Event
        BY <1>0, <1>c, <2>4, AddCommitFacts DEF Locked, CallTypeOK
      <3>2. events' \in [Ctxs -> SUBSET Event]
        <4>1. events' = [events EXCEPT ![ctx[p]] = @ \cup {arg[p].ev}]
          BY <1>0, <2>4, AddCommitFacts
        <4> QED BY <1>0, <3>1, <4>1
      <3>3. slot' \in [Ctxs -> [Event -> Callbacks \cup {None}]]
        <4>1. slot' = [slot EXCEPT ![ctx[p]][arg[p].ev] = c]
          BY <1>0, <2>4, AddCommitFacts
        <4> QED BY <1>0, <3>1, <4>1
      <3>4. fdlock' \in [Ctxs -> Actors \cup {Free}]
        BY <1>0, <2>4, <3>1, AddCommitFacts DEF LockedBy
      <3> QED BY <3>2, <3>3, <3>4
    <2>5. CASE Fire(p)
      <3>1. CASE Quiet
        BY <1>1, <3>1
      <3>2. CASE ~Quiet
        <4>1. ctx[p] \in Ctxs
          BY <1>0, <1>c, <2>5, <3>2, FireFacts DEF Locked
        <4> QED BY <1>0, <2>5, <3>2, <4>1, FireFacts
      <3> QED BY <3>1, <3>2
    <2>6. CASE FirePush(p)
      BY <1>0, <1>b, <1>1, <2>6, FirePushFacts
    <2>7. CASE FireDec(p)
      BY <1>0, <1>a, <1>b, <1>c, <2>7, FireDecFacts DEF Locked
    <2> QED BY <1>3, <2>1, <2>2, <2>3, <2>4, <2>5, <2>6, <2>7 DEF CallAct
  <1>4. ASSUME NEW w \in Workers, NEW r \in got[w], IdleHandle(w, r) PROVE CtxTypeOK'
    <2>1. w \in Actors /\ r.ctx \in Ctxs
      BY <1>0, WhatIsFired DEF Actors
    <2> QED BY <1>0, <1>a, <1>b, <1>4, <2>1, HandleFacts
  <1>5. ASSUME NEW w \in Workers, PoolAct(w) PROVE CtxTypeOK'
    BY <1>b, <1>5, PoolActFacts DEF byWorker
  <1>6. CASE OwnerStep
    BY <1>b, <1>6, OwnerFacts DEF byOwner
  <1>7. CASE Kernel
    BY <1>b, <1>7, KernelFacts
  <1> QED BY <1>1, <1>2, <1>3, <1>4, <1>5, <1>6, <1>7, Cases

\* Only a watched descriptor has an edge.
EdgesWatched == \A f \in Fds : edge[f] => Watched(f)

\* epoll's interest and edges.
LEMMA KernelTypes ==
  ASSUME TypeOK, EdgesWatched, InCall, [Next]_vars PROVE KernelTypeOK' /\ EdgesWatched'
  <1> USE DEF KernelTypeOK, EdgesWatched, kernelVars, Watched
  <1>0. CtxTypeOK /\ CallTypeOK /\ WorkerTypeOK /\ KernelTypeOK
    BY DEF TypeOK
  <1> DEFINE Goal == KernelTypeOK' /\ EdgesWatched'
  <1>a. ASSUME NEW fd \in Fds, NEW x \in Ctxs, NEW E \in SUBSET Event, Watch(fd, x, E) PROVE Goal
    <2>1. None # x
      BY IOManagerAssumption
    <2>2. epoll' \in [Fds -> [ctx : Ctxs \cup {None}, evs : SUBSET Event]]
      BY <1>0, <1>a DEF Watch, NoInterest
    <2>3. ready' \in [Fds -> SUBSET Bits] /\ edge' \in [Fds -> BOOLEAN]
      BY <1>0, <1>a DEF Watch
    <2>4. ASSUME NEW f \in Fds, edge'[f] PROVE epoll'[f].ctx # None
      <3>1. CASE f = fd
        <4>1. E # {}
          BY <1>0, <1>a, <2>4, <3>1 DEF Watch
        <4> QED BY <1>0, <1>a, <2>1, <3>1, <4>1 DEF Watch
      <3>2. CASE f # fd
        BY <1>0, <1>a, <2>4, <3>2 DEF Watch
      <3> QED BY <3>1, <3>2
    <2> QED BY <2>2, <2>3, <2>4
  <1>b. ASSUME UNCHANGED kernelVars PROVE Goal
    BY <1>0, <1>b
  <1>c. ASSUME NEW p \in Actors, pc[p] = "enter"
        PROVE  ctx[p] \in Ctxs /\ arg[p].fd \in Fds /\ arg[p].ev \in Event /\ events[ctx[p]] \in SUBSET Event
    BY <1>0, <1>c DEF InCall, CallOf, CallTypeOK, CtxTypeOK
  <1>1. CASE Quiet
    BY <1>b, <1>1 DEF Quiet, byOwner
  <1>2. ASSUME NEW p \in Actors, NEW op \in Calls, NEW fd \in Fds, NEW e \in Event,
               BeginCall(p, op, fd, e)
        PROVE  Goal
    BY <1>0, <1>b, <1>2, BeginFacts
  <1>3. ASSUME NEW p \in Actors, CallAct(p) PROVE Goal
    <2>1. CASE Find(p) \/ Grow(p)
      BY <1>0, <1>b, <2>1, FindFacts, GrowFacts DEF shared
    <2>2. CASE AddEnter(p)
      <3>1. CASE Quiet \/ UNCHANGED kernelVars
        BY <3>1, <1>1, <1>b
      <3>2. CASE ~Quiet /\ ~UNCHANGED kernelVars
        <4>1. pc[p] = "enter" /\ Watch(arg[p].fd, ctx[p], events[ctx[p]] \cup {arg[p].ev})
          BY <1>0, <2>2, <3>2, AddEnterFacts DEF shared, Entering
        <4> QED BY <1>a, <1>c, <4>1
      <3> QED BY <3>1, <3>2
    <2>3. CASE RemoveEnter(p)
      <3>1. CASE UNCHANGED kernelVars
        BY <3>1, <1>b
      <3>2. CASE ~UNCHANGED kernelVars
        <4>1. pc[p] = "enter" /\ Watch(arg[p].fd, ctx[p], events[ctx[p]] \ Target(p))
          BY <1>0, <2>3, <3>2, RemoveEnterFacts DEF Entering
        <4> QED BY <1>a, <1>c, <4>1
      <3> QED BY <3>1, <3>2
    <2>4. ASSUME NEW c \in Callbacks, AddCommit(p, c) PROVE Goal
      BY <1>0, <1>b, <2>4, AddCommitFacts
    <2>5. CASE Fire(p) \/ FirePush(p) \/ FireDec(p)
      BY <1>0, <1>b, <1>1, <2>5, FireFacts, FirePushFacts, FireDecFacts
    <2> QED BY <1>3, <2>1, <2>2, <2>3, <2>4, <2>5 DEF CallAct
  <1>4. ASSUME NEW w \in Workers, NEW r \in got[w], IdleHandle(w, r) PROVE Goal
    <2>1. w \in Actors /\ r.ctx \in Ctxs /\ events[r.ctx] \in SUBSET Event /\ r.ctx[1] \in Fds
      BY <1>0, WhatIsFired, CtxShape DEF Actors, CtxTypeOK
    <2>2. UNCHANGED kernelVars \/ Watch(r.ctx[1], r.ctx, events[r.ctx] \ RealEvents(r.ctx, r.evs))
      BY <1>0, <1>4, HandleFacts
    <2> QED BY <1>a, <1>b, <2>1, <2>2
  <1>5. ASSUME NEW w \in Workers, PoolAct(w) PROVE Goal
    BY <1>0, <1>5, PoolActFacts
  <1>6. CASE OwnerStep
    BY <1>b, <1>6, OwnerFacts DEF byOwner
  <1>7. CASE Kernel
    <2>1. ASSUME NEW fd \in Fds, NEW b \in Signals, BecomeReady(fd, b) PROVE Goal
      <3>1. b \in Bits
        BY IOManagerAssumption
      <3>2. KernelTypeOK'
        BY <1>0, <2>1, <3>1 DEF BecomeReady
      <3> QED BY <1>0, <2>1, <3>2 DEF BecomeReady
    <2>2. ASSUME NEW fd \in Fds, NEW b \in Signals, Unready(fd, b) PROVE Goal
      BY <1>0, <2>2 DEF Unready
    <2>3. ASSUME NEW fd \in Fds, Close(fd) PROVE Goal
      <3>1. KernelTypeOK'
        BY <1>0, <2>3 DEF Close, NoInterest
      <3> QED BY <1>0, <2>3, <3>1 DEF Close
    <2> QED BY <1>7, <2>1, <2>2, <2>3 DEF Kernel
  <1> QED BY <1>1, <1>2, <1>3, <1>4, <1>5, <1>6, <1>7, Cases

\* The pool of tasks.
LEMMA PoolTypes ==
  ASSUME TypeOK, [Next]_vars PROVE PoolTypeOK'
  <1> USE DEF PoolTypeOK, poolVars
  <1>0. PoolTypeOK /\ CallTypeOK
    BY DEF TypeOK
  <1>b. ASSUME UNCHANGED poolVars PROVE PoolTypeOK'
    BY <1>0, <1>b
  <1>1. CASE Quiet
    BY <1>b, <1>1 DEF Quiet, byOwner
  <1>2. ASSUME NEW p \in Actors, NEW op \in Calls, NEW fd \in Fds, NEW e \in Event,
               BeginCall(p, op, fd, e)
        PROVE  PoolTypeOK'
    BY <1>0, <1>b, <1>2, BeginFacts
  <1>3. ASSUME NEW p \in Actors, CallAct(p) PROVE PoolTypeOK'
    <2>1. CASE FirePush(p)
      BY <1>0, <1>1, <2>1, FirePushFacts
    <2>2. CASE ~FirePush(p)
      BY <1>0, <1>b, <1>1, <1>3, <2>2, FindFacts, GrowFacts, AddEnterFacts, RemoveEnterFacts,
         AddCommitFacts, FireFacts, FireDecFacts DEF CallAct, shared
    <2> QED BY <2>1, <2>2
  <1>4. ASSUME NEW w \in Workers, NEW r \in got[w], IdleHandle(w, r) PROVE PoolTypeOK'
    BY <1>0, <1>b, <1>4, HandleFacts
  <1>5. ASSUME NEW w \in Workers, PoolAct(w) PROVE PoolTypeOK'
    <2>1. CASE IdleWait(w) \/ IdleReturns(w) \/ WorkerExit(w) \/ \E t \in Tasks : SwitchIn(w, t)
      BY <1>b, <2>1 DEF IdleWait, IdleReturns, WorkerExit, SwitchIn
    <2>2. CASE SwitchOut(w)
      BY <1>0, <1>b, <2>2 DEF SwitchOut, Pool!Finish
    <2>3. ASSUME NEW t \in Tasks, Deal(t, w) PROVE PoolTypeOK'
      BY <1>0, <2>3 DEF Deal, Pool!Deal
    <2> QED BY <1>5, <2>1, <2>2, <2>3 DEF PoolAct
  <1>6. CASE OwnerStep
    BY <1>b, <1>6, OwnerFacts DEF byOwner
  <1>7. CASE Kernel
    BY <1>b, <1>7, KernelFacts
  <1> QED BY <1>1, <1>2, <1>3, <1>4, <1>5, <1>6, <1>7, Cases

\* The workers; what epoll_wait reports are contexts.
LEMMA WorkerTypes ==
  ASSUME TypeOK, EdgesWatched, [Next]_vars PROVE WorkerTypeOK'
  <1> USE DEF WorkerTypeOK, workerVars
  <1>0. WorkerTypeOK /\ KernelTypeOK /\ CallTypeOK
    BY DEF TypeOK
  <1>b. ASSUME UNCHANGED workerVars PROVE WorkerTypeOK'
    BY <1>0, <1>b
  <1>1. CASE Quiet
    BY <1>b, <1>1 DEF Quiet, byOwner
  <1>2. ASSUME NEW p \in Actors, NEW op \in Calls, NEW fd \in Fds, NEW e \in Event,
               BeginCall(p, op, fd, e)
        PROVE  WorkerTypeOK'
    BY <1>0, <1>b, <1>2, BeginFacts
  <1>3. ASSUME NEW p \in Actors, CallAct(p) PROVE WorkerTypeOK'
    BY <1>b, <1>3 DEF CallAct, byCall
  <1>4. ASSUME NEW w \in Workers, NEW r \in got[w], IdleHandle(w, r) PROVE WorkerTypeOK'
    <2>1. running' = running
      BY <1>4 DEF IdleHandle
    <2>2. got' \in [Workers -> SUBSET [ctx : Ctxs, evs : SUBSET Bits]]
      BY <1>0, <1>4 DEF IdleHandle
    <2>3. wpc' \in [Workers -> {"loop", "wait", "events", "exited"}]
      BY <1>0, <1>4 DEF IdleHandle
    <2> QED BY <1>0, <2>1, <2>2, <2>3
  <1>5. ASSUME NEW w \in Workers, PoolAct(w) PROVE WorkerTypeOK'
    <2>1. CASE IdleWait(w) \/ WorkerExit(w)
      BY <1>0, <2>1 DEF IdleWait, WorkerExit
    <2>2. CASE IdleReturns(w)
      <3> DEFINE reports(fd) == Reported(fd, ready[fd], epoll[fd].evs)
                 told == {fd \in Fds : edge[fd] /\ reports(fd) # {}}
                 results == {[ctx |-> epoll[fd].ctx, evs |-> reports(fd)] : fd \in told}
      <3>1. ASSUME NEW fd \in told
            PROVE  [ctx |-> epoll[fd].ctx, evs |-> reports(fd)] \in [ctx : Ctxs, evs : SUBSET Bits]
        <4>1. epoll[fd].ctx \in Ctxs
          BY <1>0 DEF EdgesWatched, Watched, KernelTypeOK
        <4>2. reports(fd) \in SUBSET Bits
          BY <1>0 DEF Reported, KernelTypeOK
        <4> QED BY <4>1, <4>2
      <3>2. results \in SUBSET [ctx : Ctxs, evs : SUBSET Bits]
        BY <3>1
      <3>3. /\ got' = [got EXCEPT ![w] = results] /\ running' = running
            /\ wpc' = [wpc EXCEPT ![w] = IF told = {} THEN "loop" ELSE "events"]
        BY <2>2 DEF IdleReturns
      <3> HIDE DEF results, told
      <3> QED BY <1>0, <3>2, <3>3
    <2>3. CASE SwitchOut(w)
      BY <1>0, <2>3 DEF SwitchOut
    <2>4. ASSUME NEW t \in Tasks, SwitchIn(w, t) PROVE WorkerTypeOK'
      BY <1>0, <2>4 DEF SwitchIn
    <2>5. ASSUME NEW t \in Tasks, Deal(t, w) PROVE WorkerTypeOK'
      BY <1>b, <2>5 DEF Deal
    <2> QED BY <1>5, <2>1, <2>2, <2>3, <2>4, <2>5 DEF PoolAct
  <1>6. CASE OwnerStep
    BY <1>b, <1>6, OwnerFacts DEF byOwner
  <1>7. CASE Kernel
    BY <1>b, <1>7, KernelFacts
  <1> QED BY <1>1, <1>2, <1>3, <1>4, <1>5, <1>6, <1>7, Cases

\* The budgets and what is kept of the history.
LEMMA RestTypes ==
  ASSUME TypeOK, [Next]_vars PROVE RestTypeOK'
  <1> USE DEF RestTypeOK, ghostVars
  <1>0. RestTypeOK /\ CallTypeOK /\ WorkerTypeOK
    BY DEF TypeOK
  <1>b. ASSUME UNCHANGED <<budget, ghostVars>> PROVE RestTypeOK'
    BY <1>0, <1>b
  <1>1. CASE Quiet
    BY <1>b, <1>1 DEF Quiet, byOwner
  <1>2. ASSUME NEW p \in Actors, NEW op \in Calls, NEW fd \in Fds, NEW e \in Event,
               BeginCall(p, op, fd, e)
        PROVE  RestTypeOK'
    <2>1. Caller(p) \in Tasks \cup Clients /\ budget[Caller(p)] > 0
      BY <1>0, <1>2 DEF BeginCall, Caller, Idling, Actors, WorkerTypeOK
    <2>2. budget' = [budget EXCEPT ![Caller(p)] = @ - 1]
      BY <1>2 DEF BeginCall
    <2>3. budget' \in [Tasks \cup Clients -> Nat]
      BY <1>0, <2>1, <2>2
    <2> QED BY <1>0, <1>2, <2>3, BeginFacts
  <1>3. ASSUME NEW p \in Actors, CallAct(p) PROVE RestTypeOK'
    <2>1. UNCHANGED <<budget, closed>>
      BY <1>3 DEF CallAct, byCall
    <2>2. late' = late \/ \E c \in Callbacks : late' = late \cup {c}
      BY <1>0, <1>1, <1>3, FindFacts, GrowFacts, AddEnterFacts, RemoveEnterFacts,
         AddCommitFacts, FireFacts, FirePushFacts, FireDecFacts DEF CallAct, shared, Quiet, byOwner
    <2> QED BY <1>0, <2>1, <2>2
  <1>4. ASSUME NEW w \in Workers, NEW r \in got[w], IdleHandle(w, r) PROVE RestTypeOK'
    BY <1>b, <1>4 DEF IdleHandle
  <1>5. ASSUME NEW w \in Workers, PoolAct(w) PROVE RestTypeOK'
    BY <1>b, <1>5, PoolActFacts DEF byWorker
  <1>6. CASE OwnerStep
    BY <1>b, <1>6, OwnerFacts DEF byOwner
  <1>7. CASE Kernel
    <2>1. closed' = closed \/ \E fd \in Fds : closed' = [closed EXCEPT ![fd] = @ \/ Watched(fd)]
      BY <1>7, KernelFacts DEF Close
    <2>2. closed' \in [Fds -> BOOLEAN]
      BY <1>0, <2>1 DEF Watched
    <2> QED BY <1>0, <1>7, <2>2, KernelFacts
  <1> QED BY <1>1, <1>2, <1>3, <1>4, <1>5, <1>6, <1>7, Cases

(***************************************************************************)
(* The calls and the locks.                                                *)
(***************************************************************************)
OnlyAt(x) == \A y \in Ctxs \ {x} : events'[y] = events[y] /\ slot'[y] = slot[y] /\ fdlock'[y] = fdlock[y]

\* A step of p at a context that is free or its own disturbs no other call.
LEMMA Apart ==
  ASSUME InCall, NEW p \in Actors, Others(p), NEW x \in Ctxs, fdlock[x] \in {Free, p}, OnlyAt(x)
  PROVE  \A q \in Actors \ {p} : CallOf(q)' /\ (Locked(q) => ctx[q] \in Ctxs \ {x})
  <1> SUFFICES ASSUME NEW q \in Actors \ {p} PROVE CallOf(q)' /\ (Locked(q) => ctx[q] \in Ctxs \ {x})
    OBVIOUS
  <1>1. CallOf(q) /\ q # Free
    BY IOManagerAssumption DEF InCall
  <1>2. Locked(q) => ctx[q] \in Ctxs \ {x}
    BY <1>1 DEF CallOf
  <1>3. pc'[q] = pc[q] /\ arg'[q] = arg[q] /\ ctx'[q] = ctx[q] /\ todo'[q] = todo[q]
    BY DEF Others
  <1>4. Locked(q) => events'[ctx[q]] = events[ctx[q]] /\ fdlock'[ctx[q]] = fdlock[ctx[q]]
    BY <1>2 DEF OnlyAt
  <1> QED BY <1>1, <1>2, <1>3, <1>4 DEF CallOf, Locked

\* The owners of the other locks stay where they are.
LEMMA HoldingApart ==
  ASSUME TypeOK, InCall, Holding, NEW p \in Actors, Others(p), NEW x \in Ctxs,
         fdlock[x] \in {Free, p}, OnlyAt(x), Locked(p) => ctx[p] = x,
         fdlock'[x] # Free => Locked(p)' /\ ctx'[p] = x /\ fdlock'[x] = p
  PROVE  Holding'
  <1> SUFFICES ASSUME NEW y \in Ctxs, fdlock'[y] # Free
               PROVE  Locked(fdlock[y])' /\ ctx'[fdlock'[y]] = y
    BY DEF Holding, Locked
  <1>1. CASE y = x
    BY <1>1 DEF Locked
  <1>2. CASE y # x
    <2>1. fdlock'[y] = fdlock[y] /\ Locked(fdlock[y]) /\ ctx[fdlock[y]] = y
      BY <1>2 DEF OnlyAt, Holding
    <2>2. fdlock[y] \in Actors \ {p}
      BY <1>2, <2>1 DEF TypeOK, CtxTypeOK
    <2> QED BY <2>1, <2>2 DEF Others, Locked
  <1> QED BY <1>1, <1>2

\* A step of p that takes or gives no lock and changes no context.
LEMMA Outside ==
  ASSUME CtxTypeOK, InCall, Holding, NEW p \in Actors, Others(p), UNCHANGED <<events, fdlock>>,
         ~Locked(p), ~Locked(p)'
  PROVE  Holding' /\ \A q \in Actors \ {p} : CallOf(q)'
  <1>1. ASSUME NEW q \in Actors \ {p} PROVE CallOf(q)' /\ (Locked(q) <=> Locked(q)')
    BY DEF InCall, CallOf, Others, Locked
  <1>2. ASSUME NEW y \in Ctxs, fdlock'[y] # Free PROVE Locked(fdlock[y])' /\ ctx'[fdlock'[y]] = y
    <2>1. Locked(fdlock[y]) /\ ctx[fdlock[y]] = y
      BY <1>2 DEF Holding
    <2>2. fdlock[y] \in Actors \ {p}
      BY <1>2, <2>1 DEF CtxTypeOK
    <2> QED BY <2>1, <2>2 DEF Others, Locked
  <1> QED BY <1>1, <1>2 DEF Holding, Locked

\* Where each call of p goes, when p is past the lock of its context.
LEMMA CallsAndLocks ==
  ASSUME TypeOK, Tables, InCall, Holding, [Next]_vars
  PROVE  InCall' /\ Holding'
  <1>0. CallTypeOK /\ CtxTypeOK /\ TableTypeOK /\ WorkerTypeOK
    BY DEF TypeOK
  <1> DEFINE Goal == InCall' /\ Holding'
  <1>a. ASSUME UNCHANGED <<callVars, fdlock, events>> PROVE Goal
    <2>1. Holding'
      BY <1>a DEF callVars, Holding, Locked
    <2>2. \A p \in Actors : CallOf(p)'
      BY <1>a DEF callVars, InCall, CallOf, Locked
    <2> QED BY <2>1, <2>2 DEF InCall
  <1>b. ASSUME NEW p \in Actors, Others(p), UNCHANGED <<events, fdlock>>, ~Locked(p), ~Locked(p)', CallOf(p)'
        PROVE  Goal
    BY <1>0, <1>b, Outside DEF InCall
  <1>c. ASSUME NEW p \in Actors, Others(p), NEW x \in Ctxs, fdlock[x] \in {Free, p}, OnlyAt(x),
               Locked(p) => ctx[p] = x,
               fdlock'[x] # Free => Locked(p)' /\ ctx'[p] = x /\ fdlock'[x] = p, CallOf(p)'
        PROVE  Goal
    BY <1>c, Apart, HoldingApart DEF InCall
  <1>d. ASSUME NEW p \in Actors, Returns(p) PROVE ~Locked(p)' /\ CallOf(p)'
    BY <1>d DEF Returns, Locked, CallOf
  <1>1. CASE Quiet
    BY <1>a, <1>1 DEF Quiet, byOwner, ctxVars
  <1>2. ASSUME NEW p \in Actors, NEW op \in Calls, NEW fd \in Fds, NEW e \in Event,
               BeginCall(p, op, fd, e)
        PROVE  Goal
    <2>1. /\ Others(p) /\ pc[p] = "none" /\ pc'[p] = "find" /\ arg'[p] = [op |-> op, fd |-> fd, ev |-> e]
          /\ UNCHANGED <<events, fdlock>>
      BY <1>0, <1>2, BeginFacts DEF ctxVars
    <2>2. ~Locked(p) /\ ~Locked(p)' /\ CallOf(p)'
      BY <2>1 DEF Locked, CallOf
    <2> QED BY <2>1, <2>2, <1>b
  <1>3. ASSUME NEW p \in Actors, CallAct(p) PROVE Goal
    <2>0. CallOf(p)
      BY DEF InCall
    <2>1. CASE Find(p)
      <3>1. Others(p) /\ UNCHANGED <<events, fdlock>> /\ pc[p] = "find"
        BY <1>0, <2>1, FindFacts DEF shared, ctxVars
      <3>2. CASE pc'[p] = "enter"
        <4>1. arg'[p] = arg[p] /\ ctx'[p] \in Ctxs /\ ctx'[p][1] = arg[p].fd
          BY <1>0, <2>1, <3>2, FindFacts, Reached DEF Moves, Returns
        <4>2. ~Locked(p) /\ ~Locked(p)' /\ CallOf(p)'
          BY <2>0, <3>1, <3>2, <4>1 DEF Locked, CallOf
        <4> QED BY <3>1, <4>2, <1>b
      <3>3. CASE pc'[p] # "enter"
        <4>1. (Moves(p, "grow") /\ arg[p].fd >= size) \/ Returns(p)
          BY <1>0, <2>1, <3>3, FindFacts
        <4>2. ~Locked(p)
          BY <3>1 DEF Locked
        <4>3. arg[p].fd >= size => arg[p].fd >= 2
          <5>1. arg[p].fd \in Nat
            BY <2>0, <3>1, IOManagerAssumption DEF CallOf
          <5>2. size \in Nat /\ size >= 2
            BY <1>0 DEF Tables, TableTypeOK
          <5> QED BY <5>1, <5>2
        <4>4. Moves(p, "grow") /\ arg[p].fd >= 2 => ~Locked(p)' /\ CallOf(p)'
          BY <2>0, <3>1 DEF Moves, Locked, CallOf
        <4> QED BY <1>b, <1>d, <3>1, <4>1, <4>2, <4>3, <4>4
      <3> QED BY <3>2, <3>3
    <2>2. CASE Grow(p)
      <3>1. /\ Others(p) /\ UNCHANGED <<events, fdlock>> /\ pc[p] = "grow" /\ pc'[p] = "enter"
            /\ arg'[p] = arg[p] /\ ctx'[p] \in Ctxs /\ ctx'[p][1] = arg[p].fd
        BY <1>0, <2>2, GrowFacts, Reached DEF shared, ctxVars
      <3>2. ~Locked(p) /\ ~Locked(p)' /\ CallOf(p)'
        BY <2>0, <3>1 DEF Locked, CallOf
      <3> QED BY <3>1, <3>2, <1>b
    <2>3. CASE AddEnter(p) /\ ~Quiet
      <3>1. pc[p] = "enter" /\ ctx[p] \in Ctxs /\ ~Locked(p) /\ fdlock[ctx[p]] = Free /\ arg[p].op = "add"
        BY <1>0, <2>0, <2>3, AddEnterFacts DEF Entering, CallOf, Locked
      <3>2. CASE Returns(p)
        <4>1. Others(p) /\ UNCHANGED <<events, fdlock>>
          BY <1>0, <2>3, <3>2, AddEnterFacts DEF Returns, Moves, shared, ctxVars
        <4> QED BY <1>b, <1>d, <3>1, <3>2, <4>1
      <3>3. CASE ~Returns(p)
        <4>1. /\ Others(p) /\ Moves(p, "commit") /\ UNCHANGED <<events, slot>> /\ LockedBy(ctx[p], p)
              /\ arg[p].ev \notin events[ctx[p]]
          BY <1>0, <2>3, <3>3, AddEnterFacts DEF ctxVars
        <4>2. OnlyAt(ctx[p]) /\ fdlock'[ctx[p]] = p
          BY <1>0, <3>1, <4>1 DEF OnlyAt, LockedBy, CtxTypeOK
        <4>3. Locked(p)' /\ CallOf(p)'
          BY <2>0, <3>1, <4>1, <4>2 DEF CallOf, Locked, Moves
        <4> QED BY <1>c, <3>1, <4>1, <4>2, <4>3 DEF Moves
      <3> QED BY <3>2, <3>3
    <2>4. CASE RemoveEnter(p)
      <3>1. /\ pc[p] = "enter" /\ ctx[p] \in Ctxs /\ ~Locked(p) /\ fdlock[ctx[p]] = Free
            /\ Others(p) /\ UNCHANGED <<events, slot>>
        BY <1>0, <2>0, <2>4, RemoveEnterFacts DEF Entering, CallOf, Locked, ctxVars
      <3>2. CASE Returns(p)
        <4>1. UNCHANGED <<events, fdlock>>
          BY <1>0, <2>4, <3>2, RemoveEnterFacts DEF Returns, Moves, ctxVars
        <4> QED BY <1>b, <1>d, <3>1, <3>2, <4>1
      <3>3. CASE ~Returns(p)
        <4>1. /\ LockedBy(ctx[p], p) /\ Target(p) \cap events[ctx[p]] # {}
              /\ todo'[p] = InOrder(Target(p))
              /\ Moves(p, IF arg[p].op = "del" THEN "commit" ELSE "fire")
          BY <1>0, <2>4, <3>3, RemoveEnterFacts
        <4>2. OnlyAt(ctx[p]) /\ fdlock'[ctx[p]] = p
          BY <1>0, <3>1, <4>1 DEF OnlyAt, LockedBy, CtxTypeOK
        <4>3. todo'[p] # <<>>
          BY <1>0, <3>1, <4>1, WhatIsFired, InOrderLists
        <4>4. Locked(p)' /\ CallOf(p)'
          BY <2>0, <3>1, <4>1, <4>2, <4>3 DEF CallOf, Locked, Moves
        <4> QED BY <1>c, <3>1, <4>1, <4>2, <4>4 DEF Moves
      <3> QED BY <3>2, <3>3
    <2>5. ASSUME NEW c \in Callbacks, AddCommit(p, c) PROVE Goal
      <3>1. /\ pc[p] = "commit" /\ Others(p) /\ Returns(p) /\ LockedBy(ctx[p], Free)
            /\ events' = [events EXCEPT ![ctx[p]] = @ \cup {arg[p].ev}]
            /\ slot' = [slot EXCEPT ![ctx[p]][arg[p].ev] = c]
        BY <1>0, <2>5, AddCommitFacts
      <3>2. ctx[p] \in Ctxs /\ fdlock[ctx[p]] = p /\ Locked(p)
        BY <2>0, <3>1 DEF CallOf, Locked
      <3>3. OnlyAt(ctx[p]) /\ fdlock'[ctx[p]] = Free
        BY <1>0, <3>1, <3>2 DEF OnlyAt, LockedBy, CtxTypeOK
      <3> QED BY <1>c, <1>d, <3>1, <3>2, <3>3
    <2>6. CASE Fire(p) /\ ~Quiet
      <3>1. /\ pc[p] = "fire" /\ Others(p) /\ Moves(p, IF m_stop THEN "dec" ELSE "push")
            /\ events' = [events EXCEPT ![ctx[p]] = @ \ {Head(todo[p])}] /\ UNCHANGED <<slot, fdlock>>
            /\ todo'[p] = todo[p]
        BY <1>0, <2>6, FireFacts
      <3>2. ctx[p] \in Ctxs /\ fdlock[ctx[p]] = p /\ Locked(p)
        BY <2>0, <3>1 DEF CallOf, Locked
      <3>3. OnlyAt(ctx[p])
        BY <1>0, <3>1, <3>2 DEF OnlyAt, CtxTypeOK
      <3>4. Locked(p)' /\ CallOf(p)'
        BY <2>0, <3>1, <3>2 DEF CallOf, Locked, Moves
      <3> QED BY <1>c, <3>1, <3>2, <3>3, <3>4 DEF Moves
    <2>7. CASE FirePush(p) /\ ~Quiet
      <3>1. /\ pc[p] = "push" /\ Others(p) /\ Moves(p, "dec") /\ UNCHANGED <<events, slot, fdlock>>
            /\ todo'[p] = todo[p]
        BY <1>0, <2>7, FirePushFacts DEF ctxVars
      <3>2. ctx[p] \in Ctxs /\ fdlock[ctx[p]] = p /\ Locked(p)
        BY <2>0, <3>1 DEF CallOf, Locked
      <3>3. OnlyAt(ctx[p])
        BY <3>1 DEF OnlyAt
      <3>4. Locked(p)' /\ CallOf(p)'
        BY <2>0, <3>1, <3>2 DEF CallOf, Locked, Moves
      <3> QED BY <1>c, <3>1, <3>2, <3>3, <3>4 DEF Moves
    <2>8. CASE FireDec(p)
      <3>1. /\ pc[p] = "dec" /\ Others(p) /\ todo'[p] = Tail(todo[p]) /\ UNCHANGED <<events, slot>>
            /\ \/ Len(todo[p]) > 1 /\ Moves(p, "fire") /\ UNCHANGED fdlock
               \/ Returns(p) /\ LockedBy(ctx[p], Free)
        BY <1>0, <2>8, FireDecFacts DEF ctxVars
      <3>2. ctx[p] \in Ctxs /\ fdlock[ctx[p]] = p /\ Locked(p) /\ todo[p] \in Fires /\ todo[p] # <<>>
        BY <1>0, <2>0, <3>1 DEF CallOf, Locked, CallTypeOK
      <3>3. OnlyAt(ctx[p])
        BY <1>0, <3>1, <3>2 DEF OnlyAt, LockedBy, CtxTypeOK
      <3>4. CASE Returns(p)
        <4>1. fdlock'[ctx[p]] = Free
          BY <1>0, <3>1, <3>2, <3>4 DEF LockedBy, CtxTypeOK, Returns, Moves
        <4> QED BY <1>c, <1>d, <3>1, <3>2, <3>3, <3>4, <4>1
      <3>5. CASE ~Returns(p)
        <4>1. todo'[p] # <<>>
          BY <3>1, <3>2, <3>5, FiresShape
        <4>2. Locked(p)' /\ CallOf(p)'
          BY <2>0, <3>1, <3>2, <3>5, <4>1 DEF CallOf, Locked, Moves
        <4> QED BY <1>c, <3>1, <3>2, <3>3, <3>5, <4>2 DEF Moves
      <3> QED BY <3>4, <3>5
    <2> QED BY <1>3, <1>1, <2>1, <2>2, <2>3, <2>4, <2>5, <2>6, <2>7, <2>8 DEF CallAct
  <1>4. ASSUME NEW w \in Workers, NEW r \in got[w], IdleHandle(w, r) PROVE Goal
    <2> DEFINE x == r.ctx
               real == RealEvents(x, r.evs)
    <2>1. w \in Actors /\ x \in Ctxs /\ real \in SUBSET Event
      BY <1>0, WhatIsFired DEF Actors
    <2>2. /\ pc[w] = "none" /\ fdlock[x] = Free /\ Others(w) /\ arg'[w] = arg[w]
          /\ UNCHANGED <<events, slot>>
          /\ \/ /\ events[x] \cap real # {} /\ LockedBy(x, w)
                /\ ctx'[w] = x /\ todo'[w] = InOrder(real) /\ pc'[w] = "fire"
             \/ UNCHANGED fdlock /\ ctx'[w] = ctx[w] /\ todo'[w] = todo[w] /\ pc'[w] = pc[w]
      BY <1>0, <1>4, <2>1, HandleFacts DEF ctxVars
    <2> HIDE DEF x, real
    <2>3. CASE LockedBy(x, w) /\ ctx'[w] = x /\ todo'[w] = InOrder(real) /\ pc'[w] = "fire" /\ real # {}
      <3>1. OnlyAt(x) /\ fdlock'[x] = w
        BY <1>0, <2>1, <2>2, <2>3 DEF OnlyAt, LockedBy, CtxTypeOK
      <3>2. todo'[w] # <<>>
        BY <2>1, <2>3, InOrderLists
      <3>3. ~Locked(w) /\ Locked(w)' /\ CallOf(w)'
        BY <2>1, <2>2, <2>3, <3>1, <3>2 DEF CallOf, Locked
      <3> QED BY <1>c, <2>1, <2>2, <2>3, <3>1, <3>3
    <2>4. CASE UNCHANGED fdlock /\ ctx'[w] = ctx[w] /\ todo'[w] = todo[w] /\ pc'[w] = pc[w]
      <3>1. ~Locked(w) /\ ~Locked(w)' /\ CallOf(w)'
        BY <2>1, <2>2, <2>4 DEF Locked, CallOf
      <3> QED BY <1>b, <2>1, <2>2, <2>4, <3>1
    <2> QED BY <2>2, <2>3, <2>4
  <1>5. ASSUME NEW w \in Workers, PoolAct(w) PROVE Goal
    BY <1>a, <1>5, PoolActFacts DEF byWorker, ctxVars
  <1>6. CASE OwnerStep
    BY <1>a, <1>6, OwnerFacts DEF byOwner, ctxVars
  <1>7. CASE Kernel
    BY <1>a, <1>7, KernelFacts DEF ctxVars
  <1> QED BY <1>1, <1>2, <1>3, <1>4, <1>5, <1>6, <1>7, Cases

(***************************************************************************)
(* The kernel's interest.                                                  *)
(***************************************************************************)
AgreeNext(x, F) ==
  \/ epoll'[x[1]] = [ctx |-> x, evs |-> F] /\ F # {}
  \/ epoll'[x[1]].ctx # x /\ (F = {} \/ closed'[x[1]])
Agreeing(x) == \A F : Agree(x, F) => AgreeNext(x, F)

\* epoll_ctl for x takes the interest in its descriptor from another context only if it was closed.
LEMMA WatchAgrees ==
  ASSUME KernelTypeOK, NEW x \in Ctxs, NEW E \in SUBSET Event, Agree(x, events[x]),
         Watched(x[1]) => events[x] # {}, Watch(x[1], x, E), UNCHANGED closed
  PROVE  AgreeNext(x, E) /\ \A y \in Ctxs \ {x} : Agreeing(y)
  <1>0. x[1] \in Fds /\ None # x
    BY CtxShape, IOManagerAssumption
  <1>1. epoll' = [epoll EXCEPT ![x[1]] = IF E = {} THEN NoInterest ELSE [ctx |-> x, evs |-> E]]
    BY DEF Watch
  <1>2. epoll'[x[1]] = IF E = {} THEN NoInterest ELSE [ctx |-> x, evs |-> E]
    BY <1>0, <1>1 DEF KernelTypeOK
  <1>3. AgreeNext(x, E)
    BY <1>0, <1>2 DEF AgreeNext, NoInterest
  <1>4. ASSUME NEW y \in Ctxs \ {x}, NEW F, Agree(y, F) PROVE AgreeNext(y, F)
    <2>0. y[1] \in Fds /\ None # y
      BY CtxShape, IOManagerAssumption
    <2>1. CASE y[1] # x[1]
      BY <1>0, <1>1, <1>4, <2>0, <2>1 DEF KernelTypeOK, Agree, AgreeNext
    <2>2. CASE y[1] = x[1]
      <3>1. epoll'[y[1]].ctx # y
        BY <1>2, <2>0, <2>2 DEF NoInterest
      <3>2. F = {} \/ closed[y[1]]
        BY <1>4, <2>0, <2>2 DEF Agree, Watched
      <3> QED BY <3>1, <3>2 DEF AgreeNext
    <2> QED BY <2>1, <2>2
  <1> QED BY <1>3, <1>4 DEF Agreeing

\* Nothing else, but closing a descriptor, which is recorded, changes the interest.
LEMMA KernelAgreeing ==
  ASSUME KernelTypeOK, RestTypeOK, Kernel \/ UNCHANGED <<epoll, closed>>, NEW x \in Ctxs
  PROVE  Agreeing(x)
  <1>0. x[1] \in Fds /\ None # x
    BY CtxShape, IOManagerAssumption
  <1>1. CASE UNCHANGED <<epoll, closed>>
    BY <1>1 DEF Agreeing, Agree, AgreeNext
  <1>2. ASSUME NEW fd \in Fds, Close(fd) PROVE Agreeing(x)
    <2>1. /\ epoll' = [epoll EXCEPT ![fd] = NoInterest]
          /\ closed' = [closed EXCEPT ![fd] = @ \/ Watched(fd)]
      BY <1>2 DEF Close
    <2>2. CASE x[1] # fd
      BY <1>0, <2>1, <2>2 DEF KernelTypeOK, RestTypeOK, Agreeing, Agree, AgreeNext
    <2>3. CASE x[1] = fd
      <3>1. epoll'[fd].ctx # x
        BY <1>0, <2>1, <2>3 DEF KernelTypeOK, NoInterest
      <3>2. closed'[fd] <=> closed[fd] \/ Watched(fd)
        BY <1>0, <2>1, <2>3 DEF RestTypeOK
      <3>3. epoll[fd].ctx = x => Watched(fd)
        BY <1>0 DEF Watched
      <3> QED BY <2>3, <3>1, <3>2, <3>3 DEF Agreeing, Agree, AgreeNext
    <2> QED BY <2>2, <2>3
  <1> QED BY <1>1, <1>2, KernelFacts

\* The step of p at x concerns only x.
LEMMA WatchingApart ==
  ASSUME InCall, Watching, NEW p \in Actors, Others(p), NEW x \in Ctxs, fdlock[x] \in {Free, p}, OnlyAt(x),
         \A y \in Ctxs \ {x} : Agreeing(y), fdlock'[x] = Free => AgreeNext(x, events'[x]), WatchesFor(p)'
  PROVE  Watching'
  <1>1. ASSUME NEW y \in Ctxs, fdlock'[y] = Free PROVE AgreeNext(y, events'[y])
    BY <1>1 DEF OnlyAt, Watching, Agreeing
  <1>2. ASSUME NEW q \in Actors \ {p} PROVE WatchesFor(q)'
    <2>1. Locked(q) => ctx[q] \in Ctxs \ {x}
      BY Apart
    <2>2. Locked(q) => events'[ctx[q]] = events[ctx[q]] /\ Agreeing(ctx[q])
      BY <2>1 DEF OnlyAt
    <2>3. WatchesFor(q) /\ pc'[q] = pc[q] /\ arg'[q] = arg[q] /\ ctx'[q] = ctx[q] /\ todo'[q] = todo[q]
      BY DEF Others, Watching
    <2>4. CASE pc[q] = "commit"
      <3> DEFINE F == IF arg[q].op = "add" THEN events[ctx[q]] \cup {arg[q].ev}
                                           ELSE events[ctx[q]] \ {arg[q].ev}
      <3>1. Agree(ctx[q], F) /\ Agreeing(ctx[q])
        BY <2>2, <2>3, <2>4 DEF WatchesFor, Locked
      <3>2. AgreeNext(ctx[q], F)
        BY <3>1 DEF Agreeing
      <3> QED BY <2>2, <2>3, <2>4, <3>2 DEF WatchesFor, Agree, AgreeNext, Locked
    <2>5. CASE pc[q] = "fire"
      <3>1. Agree(ctx[q], events[ctx[q]] \ Elems(todo[q])) /\ Agreeing(ctx[q])
        BY <2>2, <2>3, <2>5 DEF WatchesFor, Locked
      <3>2. AgreeNext(ctx[q], events[ctx[q]] \ Elems(todo[q]))
        BY <3>1 DEF Agreeing
      <3> QED BY <2>2, <2>3, <2>5, <3>2 DEF WatchesFor, Agree, AgreeNext, Locked
    <2>6. CASE pc[q] \in {"push", "dec"}
      <3>1. Agree(ctx[q], events[ctx[q]] \ Elems(Tail(todo[q]))) /\ Agreeing(ctx[q])
        BY <2>2, <2>3, <2>6 DEF WatchesFor, Locked
      <3>2. AgreeNext(ctx[q], events[ctx[q]] \ Elems(Tail(todo[q])))
        BY <3>1 DEF Agreeing
      <3> QED BY <2>2, <2>3, <2>6, <3>2 DEF WatchesFor, Agree, AgreeNext, Locked
    <2> QED BY <2>3, <2>4, <2>5, <2>6 DEF WatchesFor
  <1> QED BY <1>1, <1>2 DEF Watching, Agree, AgreeNext

\* A step that changes no context.
LEMMA WatchingOutside ==
  ASSUME InCall, Watching, UNCHANGED <<events, fdlock>>, \A x \in Ctxs : Agreeing(x),
         \A q \in Actors : (pc'[q] = pc[q] /\ arg'[q] = arg[q] /\ ctx'[q] = ctx[q] /\ todo'[q] = todo[q])
                           \/ ~Locked(q)'
  PROVE  Watching'
  <1>1. ASSUME NEW y \in Ctxs, fdlock'[y] = Free PROVE AgreeNext(y, events'[y])
    BY <1>1 DEF Watching, Agreeing
  <1>2. ASSUME NEW q \in Actors PROVE WatchesFor(q)'
    <2>1. CASE ~Locked(q)'
      BY <2>1 DEF WatchesFor, Locked
    <2>2. CASE pc'[q] = pc[q] /\ arg'[q] = arg[q] /\ ctx'[q] = ctx[q] /\ todo'[q] = todo[q]
      <3>1. Locked(q) => ctx[q] \in Ctxs
        BY DEF InCall, CallOf
      <3>2. Locked(q) => Agreeing(ctx[q])
        BY <3>1
      <3>3. WatchesFor(q)
        BY DEF Watching
      <3> QED BY <2>2, <3>2, <3>3 DEF WatchesFor, Agreeing, Agree, AgreeNext, Locked
    <2> QED BY <2>1, <2>2
  <1> QED BY <1>1, <1>2 DEF Watching, Agree, AgreeNext

\* What the kernel watches is what will be armed when the lock is free again.
LEMMA WatchingKept ==
  ASSUME TypeOK, InCall, Holding, Watching, [Next]_vars
  PROVE  Watching'
  <1>0. CallTypeOK /\ CtxTypeOK /\ KernelTypeOK /\ WorkerTypeOK /\ RestTypeOK
    BY DEF TypeOK
  <1>a. ASSUME UNCHANGED <<callVars, fdlock, events>>, Kernel \/ UNCHANGED <<epoll, closed>>
        PROVE  Watching'
    <2>1. \A x \in Ctxs : Agreeing(x)
      BY <1>0, <1>a, KernelAgreeing
    <2> QED BY <1>a, <2>1, WatchingOutside DEF callVars
  <1>b. ASSUME NEW p \in Actors, Others(p), UNCHANGED <<events, fdlock, epoll, closed>>, ~Locked(p)'
        PROVE  Watching'
    <2>1. \A x \in Ctxs : Agreeing(x)
      BY <1>0, <1>b, KernelAgreeing
    <2>2. \A q \in Actors : (pc'[q] = pc[q] /\ arg'[q] = arg[q] /\ ctx'[q] = ctx[q] /\ todo'[q] = todo[q])
                            \/ ~Locked(q)'
      BY <1>b DEF Others
    <2> QED BY <1>b, <2>1, <2>2, WatchingOutside
  <1>c. ASSUME NEW p \in Actors, Others(p), NEW x \in Ctxs, fdlock[x] \in {Free, p}, OnlyAt(x),
               UNCHANGED <<epoll, closed>>, fdlock'[x] = Free => AgreeNext(x, events'[x]), WatchesFor(p)'
        PROVE  Watching'
    <2>1. \A y \in Ctxs \ {x} : Agreeing(y)
      BY <1>0, <1>c, KernelAgreeing
    <2> QED BY <1>c, <2>1, WatchingApart
  <1>d. ASSUME NEW p \in Actors, Returns(p) PROVE ~Locked(p)' /\ WatchesFor(p)'
    BY <1>d DEF Returns, Locked, WatchesFor
  <1>1. CASE Quiet
    BY <1>a, <1>1 DEF Quiet, byOwner, ctxVars, kernelVars, ghostVars
  <1>2. ASSUME NEW p \in Actors, NEW op \in Calls, NEW fd \in Fds, NEW e \in Event,
               BeginCall(p, op, fd, e)
        PROVE  Watching'
    <2>1. Others(p) /\ pc'[p] = "find" /\ UNCHANGED <<events, fdlock, epoll, closed>>
      BY <1>0, <1>2, BeginFacts DEF ctxVars, kernelVars, ghostVars
    <2> QED BY <2>1, <1>b DEF Locked
  <1>3. ASSUME NEW p \in Actors, CallAct(p) PROVE Watching'
    <2>0. CallOf(p) /\ WatchesFor(p) /\ UNCHANGED closed
      BY <1>3 DEF InCall, Watching, CallAct, byCall
    <2>1. CASE Find(p)
      <3>1. Others(p) /\ UNCHANGED <<events, fdlock, epoll>>
        BY <1>0, <2>1, FindFacts DEF shared, ctxVars, kernelVars
      <3>2. ~Locked(p)'
        BY <1>0, <2>1, FindFacts DEF Moves, Returns, Locked
      <3> QED BY <1>b, <2>0, <3>1, <3>2
    <2>2. CASE Grow(p)
      <3>1. Others(p) /\ UNCHANGED <<events, fdlock, epoll>> /\ pc'[p] = "enter"
        BY <1>0, <2>2, GrowFacts DEF shared, ctxVars, kernelVars
      <3> QED BY <1>b, <2>0, <3>1 DEF Locked
    <2>3. CASE AddEnter(p) /\ ~Quiet
      <3>1. /\ pc[p] = "enter" /\ ctx[p] \in Ctxs /\ fdlock[ctx[p]] = Free /\ arg[p].op = "add"
            /\ ctx[p][1] = arg[p].fd /\ arg[p].ev \in Event
        BY <1>0, <2>0, <2>3, AddEnterFacts DEF Entering, CallOf, CallTypeOK
      <3>2. CASE Returns(p)
        <4>1. Others(p) /\ UNCHANGED <<events, fdlock, epoll>>
          BY <1>0, <2>3, <3>2, AddEnterFacts DEF Returns, Moves, shared, ctxVars, kernelVars
        <4> QED BY <1>b, <1>d, <2>0, <3>2, <4>1
      <3>3. CASE ~Returns(p)
        <4> DEFINE E == events[ctx[p]] \cup {arg[p].ev}
        <4>1. /\ Others(p) /\ Moves(p, "commit") /\ UNCHANGED <<events, slot>> /\ LockedBy(ctx[p], p)
              /\ AddAccepted(arg[p].fd, ctx[p]) /\ Watch(ctx[p][1], ctx[p], E)
          BY <1>0, <2>3, <3>1, <3>3, AddEnterFacts DEF ctxVars
        <4>2. OnlyAt(ctx[p]) /\ fdlock'[ctx[p]] = p /\ p # Free
          BY <1>0, <3>1, <4>1, IOManagerAssumption DEF OnlyAt, LockedBy, CtxTypeOK
        <4>3. Watched(ctx[p][1]) => events[ctx[p]] # {}
          BY <3>1, <4>1 DEF AddAccepted
        <4>4. E \in SUBSET Event /\ Agree(ctx[p], events[ctx[p]])
          BY <1>0, <3>1 DEF CtxTypeOK, Watching
        <4>5. AgreeNext(ctx[p], E) /\ \A y \in Ctxs \ {ctx[p]} : Agreeing(y)
          BY <1>0, <2>0, <3>1, <4>1, <4>3, <4>4, WatchAgrees
        <4>6. WatchesFor(p)'
          BY <3>1, <4>1, <4>5 DEF WatchesFor, Moves, Agree, AgreeNext
        <4> QED BY <3>1, <4>1, <4>2, <4>5, <4>6, WatchingApart
      <3> QED BY <3>2, <3>3
    <2>4. CASE RemoveEnter(p)
      <3>1. /\ pc[p] = "enter" /\ ctx[p] \in Ctxs /\ fdlock[ctx[p]] = Free
            /\ arg[p].op \in {"del", "cancel", "cancelAll"} /\ ctx[p][1] = arg[p].fd
            /\ Others(p) /\ UNCHANGED <<events, slot>>
        BY <1>0, <2>0, <2>4, RemoveEnterFacts DEF Entering, CallOf, ctxVars
      <3>2. CASE Returns(p)
        <4>1. UNCHANGED <<fdlock, epoll>>
          BY <1>0, <2>4, <3>2, RemoveEnterFacts DEF Returns, Moves, kernelVars
        <4> QED BY <1>b, <1>d, <2>0, <3>1, <3>2, <4>1
      <3>3. CASE ~Returns(p)
        <4> DEFINE E == events[ctx[p]] \ Target(p)
        <4>1. /\ LockedBy(ctx[p], p) /\ events[ctx[p]] # {}
              /\ Watch(ctx[p][1], ctx[p], E) /\ todo'[p] = InOrder(Target(p))
              /\ Moves(p, IF arg[p].op = "del" THEN "commit" ELSE "fire")
          BY <1>0, <2>4, <3>1, <3>3, RemoveEnterFacts
        <4>2. OnlyAt(ctx[p]) /\ fdlock'[ctx[p]] = p /\ p # Free
          BY <1>0, <3>1, <4>1, IOManagerAssumption DEF OnlyAt, LockedBy, CtxTypeOK
        <4>3. Target(p) \in SUBSET Event /\ Elems(todo'[p]) = Target(p)
          BY <1>0, <3>1, <4>1, WhatIsFired, InOrderLists
        <4>4. E \in SUBSET Event /\ Agree(ctx[p], events[ctx[p]])
          BY <1>0, <3>1 DEF CtxTypeOK, Watching
        <4>5. AgreeNext(ctx[p], E) /\ \A y \in Ctxs \ {ctx[p]} : Agreeing(y)
          BY <1>0, <2>0, <3>1, <4>1, <4>4, WatchAgrees
        <4>6. WatchesFor(p)'
          <5>1. CASE arg[p].op = "del"
            <6>1. Target(p) = {arg[p].ev}
              BY <5>1 DEF Target
            <6> QED BY <3>1, <4>1, <4>5, <5>1, <6>1 DEF WatchesFor, Moves, Agree, AgreeNext
          <5>2. CASE arg[p].op # "del"
            BY <3>1, <4>1, <4>3, <4>5, <5>2 DEF WatchesFor, Moves, Agree, AgreeNext
          <5> QED BY <5>1, <5>2
        <4> QED BY <3>1, <4>1, <4>2, <4>5, <4>6, WatchingApart
      <3> QED BY <3>2, <3>3
    <2>5. ASSUME NEW c \in Callbacks, AddCommit(p, c) PROVE Watching'
      <3>1. /\ pc[p] = "commit" /\ arg[p].op = "add" /\ Others(p) /\ Returns(p) /\ LockedBy(ctx[p], Free)
            /\ events' = [events EXCEPT ![ctx[p]] = @ \cup {arg[p].ev}]
            /\ slot' = [slot EXCEPT ![ctx[p]][arg[p].ev] = c]
            /\ UNCHANGED epoll
        BY <1>0, <2>5, AddCommitFacts DEF kernelVars
      <3>2. ctx[p] \in Ctxs /\ fdlock[ctx[p]] = p
        BY <2>0, <3>1 DEF CallOf, Locked
      <3>3. OnlyAt(ctx[p]) /\ events'[ctx[p]] = events[ctx[p]] \cup {arg[p].ev}
        BY <1>0, <3>1, <3>2 DEF OnlyAt, LockedBy, CtxTypeOK
      <3>4. Agree(ctx[p], events[ctx[p]] \cup {arg[p].ev})
        BY <2>0, <3>1 DEF WatchesFor
      <3>5. AgreeNext(ctx[p], events'[ctx[p]])
        BY <2>0, <3>1, <3>3, <3>4 DEF Agree, AgreeNext
      <3> QED BY <1>c, <1>d, <2>0, <3>1, <3>2, <3>3, <3>5
    <2>6. CASE Fire(p) /\ ~Quiet
      <3>1. /\ pc[p] = "fire" /\ Others(p) /\ Moves(p, IF m_stop THEN "dec" ELSE "push")
            /\ events' = [events EXCEPT ![ctx[p]] = @ \ {Head(todo[p])}]
            /\ UNCHANGED <<slot, fdlock, epoll>> /\ todo'[p] = todo[p]
        BY <1>0, <2>6, FireFacts DEF kernelVars
      <3>2. /\ ctx[p] \in Ctxs /\ fdlock[ctx[p]] = p /\ p # Free
            /\ todo[p] \in Fires /\ todo[p] # <<>>
        BY <1>0, <2>0, <3>1, IOManagerAssumption DEF CallOf, Locked, CallTypeOK
      <3>3. OnlyAt(ctx[p]) /\ events'[ctx[p]] = events[ctx[p]] \ {Head(todo[p])}
        BY <1>0, <3>1, <3>2 DEF OnlyAt, CtxTypeOK
      <3>4. Agree(ctx[p], events[ctx[p]] \ Elems(todo[p]))
        BY <2>0, <3>1 DEF WatchesFor
      <3>5. events[ctx[p]] \ Elems(todo[p]) = events'[ctx[p]] \ Elems(Tail(todo[p]))
        <4>1. Elems(todo[p]) = {Head(todo[p])} \cup Elems(Tail(todo[p]))
          BY <3>2, FiresShape
        <4> QED BY <3>3, <4>1
      <3>6. WatchesFor(p)'
        BY <2>0, <3>1, <3>4, <3>5 DEF WatchesFor, Moves, Agree
      <3> QED BY <1>c, <2>0, <3>1, <3>2, <3>3, <3>6
    <2>7. CASE FirePush(p) /\ ~Quiet
      <3>1. /\ pc[p] = "push" /\ Others(p) /\ Moves(p, "dec") /\ UNCHANGED <<events, slot, fdlock, epoll>>
            /\ todo'[p] = todo[p]
        BY <1>0, <2>7, FirePushFacts DEF ctxVars, kernelVars
      <3>2. ctx[p] \in Ctxs /\ fdlock[ctx[p]] = p /\ p # Free
        BY <2>0, <3>1, IOManagerAssumption DEF CallOf, Locked
      <3>3. OnlyAt(ctx[p])
        BY <3>1 DEF OnlyAt
      <3>4. WatchesFor(p)'
        BY <2>0, <3>1 DEF WatchesFor, Moves, Agree
      <3> QED BY <1>c, <2>0, <3>1, <3>2, <3>3, <3>4
    <2>8. CASE FireDec(p)
      <3>1. /\ pc[p] = "dec" /\ Others(p) /\ todo'[p] = Tail(todo[p]) /\ UNCHANGED <<events, slot, epoll>>
            /\ \/ Len(todo[p]) > 1 /\ Moves(p, "fire") /\ UNCHANGED fdlock
               \/ ~(Len(todo[p]) > 1) /\ Returns(p) /\ LockedBy(ctx[p], Free)
        BY <1>0, <2>8, FireDecFacts DEF ctxVars, kernelVars
      <3>2. /\ ctx[p] \in Ctxs /\ fdlock[ctx[p]] = p /\ p # Free
            /\ todo[p] \in Fires /\ todo[p] # <<>>
        BY <1>0, <2>0, <3>1, IOManagerAssumption DEF CallOf, Locked, CallTypeOK
      <3>3. OnlyAt(ctx[p])
        BY <1>0, <3>1, <3>2 DEF OnlyAt, LockedBy, CtxTypeOK
      <3>4. Agree(ctx[p], events[ctx[p]] \ Elems(Tail(todo[p])))
        BY <2>0, <3>1 DEF WatchesFor
      <3>5. CASE Returns(p)
        <4>1. Tail(todo[p]) = <<>>
          BY <3>1, <3>2, <3>5, FiresShape DEF Returns, Moves
        <4>2. Elems(Tail(todo[p])) = {}
          <5>1. Elems(<<>>) = {}
            BY DEF Elems
          <5> QED BY <4>1, <5>1
        <4>3. AgreeNext(ctx[p], events'[ctx[p]])
          BY <2>0, <3>1, <3>4, <4>2 DEF Agree, AgreeNext
        <4> QED BY <1>c, <1>d, <2>0, <3>1, <3>2, <3>3, <3>5, <4>3
      <3>6. CASE ~Returns(p)
        <4>1. WatchesFor(p)'
          <5>1. /\ pc'[p] = "fire" /\ ctx'[p] = ctx[p] /\ todo'[p] = Tail(todo[p])
                /\ events'[ctx[p]] = events[ctx[p]]
            BY <3>1, <3>6 DEF Moves
          <5>2. AgreeNext(ctx[p], events[ctx[p]] \ Elems(Tail(todo[p])))
            BY <2>0, <3>1, <3>4 DEF Agree, AgreeNext
          <5> QED BY <5>1, <5>2 DEF WatchesFor, Agree, AgreeNext
        <4> QED BY <1>c, <2>0, <3>1, <3>2, <3>3, <3>6, <4>1
      <3> QED BY <3>5, <3>6
    <2> QED BY <1>3, <1>1, <2>1, <2>2, <2>3, <2>4, <2>5, <2>6, <2>7, <2>8 DEF CallAct
  <1>4. ASSUME NEW w \in Workers, NEW r \in got[w], IdleHandle(w, r) PROVE Watching'
    <2> DEFINE x == r.ctx
               real == RealEvents(x, r.evs)
    <2>1. w \in Actors /\ w # Free /\ x \in Ctxs /\ real \in SUBSET Event
      BY <1>0, WhatIsFired, IOManagerAssumption DEF Actors
    <2>2. /\ pc[w] = "none" /\ fdlock[x] = Free /\ Others(w) /\ arg'[w] = arg[w]
          /\ UNCHANGED <<events, slot, closed>>
          /\ \/ /\ events[x] \cap real # {} /\ LockedBy(x, w) /\ Watch(x[1], x, events[x] \ real)
                /\ ctx'[w] = x /\ todo'[w] = InOrder(real) /\ pc'[w] = "fire"
             \/ UNCHANGED <<fdlock, epoll>> /\ pc'[w] = pc[w]
      BY <1>0, <1>4, <2>1, HandleFacts DEF ctxVars, kernelVars
    <2> HIDE DEF x, real
    <2>3. CASE /\ events[x] \cap real # {} /\ LockedBy(x, w) /\ Watch(x[1], x, events[x] \ real)
               /\ ctx'[w] = x /\ todo'[w] = InOrder(real) /\ pc'[w] = "fire"
      <3>1. OnlyAt(x) /\ fdlock'[x] = w
        BY <1>0, <2>1, <2>2, <2>3 DEF OnlyAt, LockedBy, CtxTypeOK
      <3>2. Elems(todo'[w]) = real
        BY <2>1, <2>3, InOrderLists
      <3>3. events[x] \ real \in SUBSET Event /\ Agree(x, events[x]) /\ events[x] # {}
        BY <1>0, <2>1, <2>2, <2>3 DEF CtxTypeOK, Watching
      <3>4. AgreeNext(x, events[x] \ real) /\ \A y \in Ctxs \ {x} : Agreeing(y)
        BY <1>0, <2>1, <2>2, <2>3, <3>3, WatchAgrees
      <3>5. WatchesFor(w)'
        BY <2>2, <2>3, <3>2, <3>4 DEF WatchesFor, Agree, AgreeNext
      <3> QED BY <2>1, <2>2, <3>1, <3>4, <3>5, WatchingApart
    <2>4. CASE UNCHANGED <<fdlock, epoll>> /\ pc'[w] = pc[w]
      BY <1>b, <2>1, <2>2, <2>4 DEF Locked
    <2> QED BY <2>2, <2>3, <2>4
  <1>5. ASSUME NEW w \in Workers, PoolAct(w) PROVE Watching'
    BY <1>a, <1>5, PoolActFacts DEF byWorker, ctxVars, ghostVars
  <1>6. CASE OwnerStep
    BY <1>a, <1>6, OwnerFacts DEF byOwner, ctxVars, kernelVars, ghostVars
  <1>7. CASE Kernel
    BY <1>a, <1>7, KernelFacts DEF ctxVars
  <1> QED BY <1>1, <1>2, <1>3, <1>4, <1>5, <1>6, <1>7, Cases

(***************************************************************************)
(* The fibers of the registrations, and the counter.                       *)
(***************************************************************************)
\* A step that registers nothing, fires nothing and submits nothing.
Undisturbed ==
  /\ UNCHANGED <<events, slot, late, m_pendingEventCount>>
  /\ \A q \in Actors : pc[q] \in {"push", "dec"} \/ pc'[q] \in {"push", "dec"} =>
       pc'[q] = pc[q] /\ ctx'[q] = ctx[q] /\ todo'[q] = todo[q]
  /\ \A c \in Callbacks : status'[c] = "new" <=> status[c] = "new"

\* Only the steps of a registration and of its firing disturb them.
LEMMA WhoDisturbs ==
  ASSUME TypeOK, [Next]_vars
  PROVE  \/ Undisturbed /\ (UNCHANGED ownerVars \/ OwnerStep)
         \/ /\ UNCHANGED ownerVars
            /\ \E p \in Actors : /\ ~Quiet
                                 /\ \/ \E c \in Callbacks : AddCommit(p, c)
                                    \/ Fire(p) \/ FirePush(p) \/ FireDec(p)
  <1>0. CallTypeOK /\ PoolTypeOK /\ WorkerTypeOK
    BY DEF TypeOK
  <1>a. ASSUME UNCHANGED <<ctxVars, late, m_pendingEventCount, callVars, poolVars>> PROVE Undisturbed
    BY <1>a DEF Undisturbed, ctxVars, callVars, poolVars
  <1>b. ASSUME NEW p \in Actors, Others(p), UNCHANGED <<events, slot, late, m_pendingEventCount, status>>,
               pc[p] \notin {"push", "dec"}, pc'[p] \notin {"push", "dec"}
        PROVE  Undisturbed
    BY <1>b DEF Undisturbed, Others
  <1>1. ASSUME Quiet PROVE Undisturbed /\ UNCHANGED ownerVars
    BY <1>a, <1>1 DEF Quiet, byOwner, ghostVars
  <1>2. ASSUME NEW p \in Actors, NEW op \in Calls, NEW fd \in Fds, NEW e \in Event,
               BeginCall(p, op, fd, e)
        PROVE  Undisturbed /\ UNCHANGED ownerVars
    BY <1>0, <1>b, <1>2, BeginFacts DEF ctxVars, poolVars, ghostVars
  <1>3. ASSUME NEW p \in Actors, CallAct(p), ~Quiet
        PROVE  /\ UNCHANGED ownerVars
               /\ \/ Undisturbed
                  \/ \E c \in Callbacks : AddCommit(p, c)
                  \/ Fire(p) \/ FirePush(p) \/ FireDec(p)
    <2>0. UNCHANGED ownerVars
      BY <1>3 DEF CallAct, byCall
    <2>1. CASE Find(p)
      BY <1>0, <1>b, <2>0, <2>1, FindFacts DEF shared, ctxVars, poolVars, Moves, Returns
    <2>2. CASE Grow(p)
      BY <1>0, <1>b, <2>0, <2>2, GrowFacts DEF shared, ctxVars, poolVars
    <2>3. CASE AddEnter(p)
      BY <1>0, <1>b, <1>3, <2>0, <2>3, AddEnterFacts
      DEF shared, ctxVars, poolVars, Moves, Returns, Entering
    <2>4. CASE RemoveEnter(p)
      <3>1. /\ Others(p) /\ UNCHANGED <<events, slot, late, m_pendingEventCount, status>>
            /\ pc[p] = "enter" /\ pc'[p] \in {"commit", "fire", "none"}
        BY <1>0, <2>4, RemoveEnterFacts DEF ctxVars, poolVars, Moves, Returns, Entering
      <3> QED BY <1>b, <2>0, <3>1
    <2> QED BY <1>3, <2>0, <2>1, <2>2, <2>3, <2>4 DEF CallAct
  <1>4. ASSUME NEW w \in Workers, NEW r \in got[w], IdleHandle(w, r) PROVE Undisturbed /\ UNCHANGED ownerVars
    <2>1. w \in Actors
      BY DEF Actors
    <2>2. /\ Others(w) /\ UNCHANGED <<events, slot, late, m_pendingEventCount, status, ownerVars>>
          /\ pc[w] = "none" /\ pc'[w] \in {"none", "fire"}
      BY <1>0, <1>4, HandleFacts DEF ctxVars, poolVars
    <2> QED BY <1>b, <2>1, <2>2
  <1>5. ASSUME NEW w \in Workers, PoolAct(w) PROVE Undisturbed /\ UNCHANGED ownerVars
    <2>1. UNCHANGED <<ctxVars, late, m_pendingEventCount, callVars, ownerVars>>
      BY <1>5, PoolActFacts DEF byWorker, ghostVars
    <2>2. ASSUME NEW c \in Callbacks PROVE status'[c] = "new" <=> status[c] = "new"
      <3>0. c \in Tasks
        BY DEF Tasks
      <3>1. CASE UNCHANGED poolVars
        BY <3>1 DEF poolVars
      <3>2. ASSUME NEW t \in Tasks, Pool!Finish(t) PROVE status'[c] = "new" <=> status[c] = "new"
        BY <1>0, <3>0, <3>2 DEF Pool!Finish, PoolTypeOK
      <3>3. ASSUME NEW t \in Tasks, Pool!Deal(t, w) PROVE status'[c] = "new" <=> status[c] = "new"
        BY <1>0, <3>0, <3>3 DEF Pool!Deal, PoolTypeOK
      <3>4. SwitchOut(w) => running[w] \in Tasks
        BY <1>0 DEF SwitchOut, InFiber, WorkerTypeOK
      <3>5. UNCHANGED poolVars \/ (Pool!Finish(running[w]) /\ SwitchOut(w)) \/ \E t \in Tasks : Pool!Deal(t, w)
        BY <1>5 DEF PoolAct, IdleWait, IdleReturns, WorkerExit, SwitchOut, SwitchIn, Deal
      <3> QED BY <3>1, <3>2, <3>3, <3>4, <3>5
    <2> QED BY <2>1, <2>2 DEF Undisturbed, ctxVars, callVars
  <1>6. ASSUME OwnerStep PROVE Undisturbed
    BY <1>a, <1>6, OwnerFacts DEF byOwner, ghostVars
  <1>7. ASSUME Kernel PROVE Undisturbed /\ UNCHANGED ownerVars
    BY <1>a, <1>7, KernelFacts
  <1> QED BY <1>1, <1>2, <1>3, <1>4, <1>5, <1>6, <1>7, Cases

\* Who fires has the lock of a context and an event of it to fire.
LEMMA AtLock ==
  ASSUME CallTypeOK, InCall, NEW p \in Actors
  PROVE  /\ Locked(p) => ctx[p] \in Ctxs /\ fdlock[ctx[p]] = p
         /\ pc[p] \in {"fire", "push", "dec"} => Head(todo[p]) \in Event
         /\ pc[p] = "commit" => arg[p].ev \in Event
         /\ \A q \in Actors : Locked(p) /\ Locked(q) /\ ctx[p] = ctx[q] => p = q
  <1>1. CallOf(p) /\ \A q \in Actors : CallOf(q)
    BY DEF InCall
  <1>2. pc[p] \in {"fire", "push", "dec"} => todo[p] \in Fires /\ todo[p] # <<>>
    BY <1>1 DEF CallOf, CallTypeOK
  <1>3. pc[p] \in {"fire", "push", "dec"} => Head(todo[p]) \in Event
    BY <1>2, FiresShape
  <1> QED BY <1>1, <1>3 DEF CallOf, CallTypeOK, Locked

\* Nothing but a registration's own fiber is armed or pushed, and it is new.
LEMMA SlotsKept ==
  ASSUME TypeOK, InCall, Slots, [Next]_vars
  PROVE  Slots'
  <1>0. CallTypeOK /\ CtxTypeOK /\ PoolTypeOK
    BY DEF TypeOK
  <1>a. ASSUME NEW x \in Ctxs, NEW e \in Event, slot[x][e] # None
        PROVE  slot[x][e] \in Callbacks /\ slot[x][e] \in Tasks
    BY <1>0, <1>a DEF CtxTypeOK, Tasks
  <1>1. CASE Undisturbed
    <2>1. ArmedNew'
      BY <1>1 DEF Undisturbed, Slots, ArmedNew
    <2>2. PushNew'
      BY <1>1 DEF Undisturbed, Slots, PushNew
    <2>3. OneSlot'
      BY <1>1 DEF Undisturbed, Slots, OneSlot
    <2>4. UnusedNew'
      BY <1>1 DEF Undisturbed, Slots, UnusedNew, Unused
    <2> QED BY <2>1, <2>2, <2>3, <2>4 DEF Slots
  <1>2. ASSUME NEW p \in Actors, NEW c \in Callbacks, AddCommit(p, c) PROVE Slots'
    <2> DEFINE x == ctx[p]
               e == arg[p].ev
    <2>1. x \in Ctxs /\ e \in Event /\ pc[p] = "commit" /\ Locked(p)
      BY <1>0, <1>2, AddCommitFacts, AtLock DEF Locked
    <2>2. /\ slot[x][e] = None /\ Unused(c)
          /\ events' = [events EXCEPT ![x] = @ \cup {e}] /\ slot' = [slot EXCEPT ![x][e] = c]
          /\ late' = (IF m_stopping THEN late \cup {c} ELSE late)
          /\ status' = status /\ Others(p) /\ pc'[p] = "none"
      BY <1>0, <1>2, AddCommitFacts DEF poolVars, Returns
    <2> HIDE DEF x, e
    <2>3. /\ \A y \in Ctxs, f \in Event : slot'[y][f] = IF y = x /\ f = e THEN c ELSE slot[y][f]
          /\ \A y \in Ctxs, f \in Event : f \in events'[y] <=> f \in events[y] \/ (y = x /\ f = e)
          /\ c # None /\ status[c] = "new"
      <3>1. \A y \in Ctxs, f \in Event : slot'[y][f] = IF y = x /\ f = e THEN c ELSE slot[y][f]
        BY <1>0, <2>1, <2>2 DEF CtxTypeOK
      <3>2. \A y \in Ctxs, f \in Event : f \in events'[y] <=> f \in events[y] \/ (y = x /\ f = e)
        BY <1>0, <2>1, <2>2 DEF CtxTypeOK
      <3>3. c # None
        BY IOManagerAssumption DEF Tasks
      <3>4. status[c] = "new"
        BY <2>2 DEF Slots, UnusedNew
      <3> QED BY <3>1, <3>2, <3>3, <3>4
    <2>4. ArmedNew'
      BY <2>2, <2>3 DEF Slots, ArmedNew
    <2>5. PushNew'
      <3> SUFFICES ASSUME NEW q \in Actors, pc'[q] = "push"
                   PROVE  LET d == slot'[ctx'[q]][Head(todo'[q])] IN
                          d \in Callbacks /\ status'[d] = "new" /\ Head(todo'[q]) \notin events'[ctx'[q]]
        BY DEF PushNew
      <3>1. q # p /\ pc[q] = "push" /\ ctx'[q] = ctx[q] /\ todo'[q] = todo[q]
        BY <2>2 DEF Others
      <3>2. ctx[q] \in Ctxs /\ ctx[q] # x /\ Head(todo[q]) \in Event
        BY <1>0, <2>1, <3>1, AtLock DEF Locked, x
      <3> QED BY <2>2, <2>3, <3>1, <3>2 DEF Slots, PushNew
    <2>6. OneSlot'
      <3> SUFFICES ASSUME NEW y \in Ctxs, NEW z \in Ctxs, NEW f \in Event, NEW g \in Event,
                          slot'[y][f] = slot'[z][g], slot'[y][f] # None
                   PROVE  y = z /\ f = g
        BY DEF OneSlot
      <3>1. slot[y][f] # c /\ slot[z][g] # c
        BY <2>2 DEF Unused
      <3>2. slot[y][f] = slot[z][g] /\ slot[y][f] # None => y = z /\ f = g
        BY DEF Slots, OneSlot
      <3> QED BY <2>3, <3>1, <3>2
    <2>7. UnusedNew'
      <3> SUFFICES ASSUME NEW d \in Callbacks, \A y \in Ctxs, f \in Event : slot'[y][f] # d
                   PROVE  status'[d] = "new" /\ d \notin late'
        BY DEF UnusedNew, Unused
      <3>1. d # c /\ d # None
        BY <2>1, <2>3, IOManagerAssumption DEF Tasks
      <3>2. Unused(d)
        BY <2>2, <2>3, <3>1 DEF Unused
      <3> QED BY <2>2, <3>1, <3>2 DEF Slots, UnusedNew
    <2> QED BY <2>4, <2>5, <2>6, <2>7 DEF Slots
  <1>3. ASSUME NEW p \in Actors, Fire(p), ~Quiet PROVE Slots'
    <2> DEFINE x == ctx[p]
               e == Head(todo[p])
    <2>1. /\ pc[p] = "fire" /\ e \in events[x] /\ events' = [events EXCEPT ![x] = @ \ {e}]
          /\ Moves(p, IF m_stop THEN "dec" ELSE "push") /\ todo'[p] = todo[p] /\ Others(p)
          /\ UNCHANGED <<slot, status, late>>
      BY <1>0, <1>3, FireFacts DEF poolVars
    <2>2. x \in Ctxs /\ e \in Event
      BY <1>0, <2>1, AtLock DEF Locked
    <2>3. /\ \A y \in Ctxs : events'[y] \subseteq events[y]
          /\ e \notin events'[x] /\ slot[x][e] \in Callbacks /\ status[slot[x][e]] = "new"
      BY <1>0, <2>1, <2>2 DEF CtxTypeOK, Slots, ArmedNew
    <2>4. ArmedNew'
      BY <2>1, <2>3 DEF Slots, ArmedNew
    <2>5. PushNew'
      <3> SUFFICES ASSUME NEW q \in Actors, pc'[q] = "push"
                   PROVE  LET d == slot'[ctx'[q]][Head(todo'[q])] IN
                          d \in Callbacks /\ status'[d] = "new" /\ Head(todo'[q]) \notin events'[ctx'[q]]
        BY DEF PushNew
      <3>1. CASE q = p
        BY <2>1, <2>3, <3>1 DEF Moves
      <3>2. CASE q # p
        <4>1. pc[q] = "push" /\ ctx'[q] = ctx[q] /\ todo'[q] = todo[q]
          BY <2>1, <3>2 DEF Others
        <4>2. ctx[q] \in Ctxs
          BY <1>0, <4>1, AtLock DEF Locked
        <4> QED BY <2>1, <2>3, <4>1, <4>2 DEF Slots, PushNew
      <3> QED BY <3>1, <3>2
    <2>6. OneSlot' /\ UnusedNew'
      BY <2>1 DEF Slots, OneSlot, UnusedNew, Unused
    <2> QED BY <2>4, <2>5, <2>6 DEF Slots
  <1>4. ASSUME NEW p \in Actors, FirePush(p), ~Quiet PROVE Slots'
    <2> DEFINE x == ctx[p]
               e == Head(todo[p])
               c == slot[x][e]
    <2>1. /\ pc[p] = "push" /\ Moves(p, "dec") /\ todo'[p] = todo[p] /\ Others(p)
          /\ UNCHANGED <<events, slot, late>>
          /\ status' = [status EXCEPT ![c] = "waiting"] \/ status' = [status EXCEPT ![c] = "refused"]
      BY <1>0, <1>4, FirePushFacts DEF ctxVars
    <2>2. x \in Ctxs /\ e \in Event /\ Locked(p)
      BY <1>0, <2>1, AtLock DEF Locked
    <2>3. c \in Callbacks /\ e \notin events[x] /\ c # None
      BY <2>1, IOManagerAssumption DEF Slots, PushNew, Tasks
    <2>4. \A d \in Callbacks \ {c} : status'[d] = status[d]
      BY <1>0, <2>1 DEF PoolTypeOK, Tasks
    <2>5. \A y \in Ctxs, f \in Event : slot[y][f] = c => y = x /\ f = e
      BY <2>2, <2>3 DEF Slots, OneSlot
    <2> HIDE DEF c, x, e
    <2>6. ArmedNew'
      BY <2>1, <2>3, <2>4, <2>5 DEF Slots, ArmedNew
    <2>7. PushNew'
      <3> SUFFICES ASSUME NEW q \in Actors, pc'[q] = "push"
                   PROVE  LET d == slot'[ctx'[q]][Head(todo'[q])] IN
                          d \in Callbacks /\ status'[d] = "new" /\ Head(todo'[q]) \notin events'[ctx'[q]]
        BY DEF PushNew
      <3>1. q # p /\ pc[q] = "push" /\ ctx'[q] = ctx[q] /\ todo'[q] = todo[q]
        BY <2>1 DEF Others, Moves
      <3>2. ctx[q] \in Ctxs /\ ctx[q] # x /\ Head(todo[q]) \in Event
        BY <1>0, <2>2, <3>1, AtLock DEF Locked, x
      <3>3. slot[ctx[q]][Head(todo[q])] # c
        BY <2>5, <3>2
      <3> QED BY <2>1, <2>4, <3>1, <3>2, <3>3 DEF Slots, PushNew
    <2>8. OneSlot' /\ UnusedNew'
      <3>1. ~Unused(c)
        BY <2>2 DEF Unused, c
      <3> QED BY <2>1, <2>4, <3>1 DEF Slots, OneSlot, UnusedNew, Unused
    <2> QED BY <2>6, <2>7, <2>8 DEF Slots
  <1>5. ASSUME NEW p \in Actors, FireDec(p) PROVE Slots'
    <2>1. /\ pc'[p] \in {"fire", "none"} /\ Others(p) /\ UNCHANGED <<events, slot, status, late>>
      BY <1>0, <1>5, FireDecFacts DEF ctxVars, poolVars, Moves, Returns
    <2>2. ArmedNew' /\ OneSlot' /\ UnusedNew'
      BY <2>1 DEF Slots, ArmedNew, OneSlot, UnusedNew, Unused
    <2>3. PushNew'
      BY <2>1 DEF Slots, PushNew, Others
    <2> QED BY <2>2, <2>3 DEF Slots
  <1> QED BY <1>1, <1>2, <1>3, <1>4, <1>5, WhoDisturbs

\* The counter counts what is armed and what is being fired.
LEMMA PendingKept ==
  ASSUME TypeOK, InCall, Pending, [Next]_vars
  PROVE  Pending' /\ m_pendingEventCount' \in Nat
  <1>0. CallTypeOK /\ CtxTypeOK
    BY DEF TypeOK
  <1>a. /\ IsFiniteSet(Armed) /\ IsFiniteSet(Firing)
        /\ Cardinality(Armed) \in Nat /\ Cardinality(Firing) \in Nat
        /\ m_pendingEventCount = Cardinality(Armed) + Cardinality(Firing)
    BY FS_CardinalityType DEF Pending
  <1>1. CASE Undisturbed
    <2>1. Armed' = Armed
      BY <1>1 DEF Undisturbed, Armed
    <2>2. Firing' = Firing
      BY <1>1 DEF Undisturbed, Firing
    <2> QED BY <1>1, <1>a, <2>1, <2>2 DEF Undisturbed, Pending
  <1>2. ASSUME NEW p \in Actors, NEW c \in Callbacks, AddCommit(p, c)
        PROVE  Pending' /\ m_pendingEventCount' \in Nat
    <2> DEFINE x == ctx[p]
               e == arg[p].ev
    <2>1. x \in Ctxs /\ e \in Event /\ pc[p] = "commit" /\ e \notin events[x]
      BY <1>0, <1>2, AddCommitFacts, AtLock DEF Locked, InCall, CallOf
    <2>2. /\ events' = [events EXCEPT ![x] = @ \cup {e}] /\ m_pendingEventCount' = m_pendingEventCount + 1
          /\ Others(p) /\ pc'[p] = "none"
      BY <1>0, <1>2, AddCommitFacts DEF Returns
    <2> HIDE DEF x, e
    <2>3. \A y \in Ctxs, f \in Event : f \in events'[y] <=> f \in events[y] \/ (y = x /\ f = e)
      BY <1>0, <2>1, <2>2 DEF CtxTypeOK
    <2>4. Armed' = Armed \cup {<<x, e>>} /\ <<x, e>> \notin Armed
      BY <2>1, <2>3 DEF Armed
    <2>5. Firing' = Firing
      BY <2>1, <2>2 DEF Firing, Others
    <2>6. IsFiniteSet(Armed') /\ Cardinality(Armed') = Cardinality(Armed) + 1
      BY <1>a, <2>4, FS_AddElement
    <2> QED BY <1>a, <2>2, <2>5, <2>6 DEF Pending
  <1>3. ASSUME NEW p \in Actors, Fire(p), ~Quiet PROVE Pending' /\ m_pendingEventCount' \in Nat
    <2> DEFINE x == ctx[p]
               e == Head(todo[p])
    <2>1. /\ pc[p] = "fire" /\ e \in events[x] /\ events' = [events EXCEPT ![x] = @ \ {e}]
          /\ pc'[p] \in {"push", "dec"} /\ Others(p) /\ UNCHANGED m_pendingEventCount
      BY <1>0, <1>3, FireFacts DEF Moves
    <2>2. x \in Ctxs /\ e \in Event
      BY <1>0, <2>1, AtLock DEF Locked
    <2> HIDE DEF x, e
    <2>3. \A y \in Ctxs, f \in Event : f \in events'[y] <=> f \in events[y] /\ ~(y = x /\ f = e)
      BY <1>0, <2>1, <2>2 DEF CtxTypeOK
    <2>4. Armed' = Armed \ {<<x, e>>} /\ <<x, e>> \in Armed
      BY <2>1, <2>2, <2>3 DEF Armed
    <2>5. Firing' = Firing \cup {p} /\ p \notin Firing
      BY <2>1 DEF Firing, Others
    <2>6. IsFiniteSet(Armed') /\ Cardinality(Armed') = Cardinality(Armed) - 1
      BY <1>a, <2>4, FS_RemoveElement
    <2>7. IsFiniteSet(Firing') /\ Cardinality(Firing') = Cardinality(Firing) + 1
      BY <1>a, <2>5, FS_AddElement
    <2> QED BY <1>a, <2>1, <2>6, <2>7 DEF Pending
  <1>4. ASSUME NEW p \in Actors, FirePush(p), ~Quiet PROVE Pending' /\ m_pendingEventCount' \in Nat
    <2>1. /\ pc[p] = "push" /\ pc'[p] = "dec" /\ Others(p) /\ UNCHANGED <<events, m_pendingEventCount>>
      BY <1>0, <1>4, FirePushFacts DEF ctxVars, Moves
    <2>2. Armed' = Armed
      BY <2>1 DEF Armed
    <2>3. Firing' = Firing
      BY <2>1 DEF Firing, Others
    <2> QED BY <1>a, <2>1, <2>2, <2>3 DEF Pending
  <1>5. ASSUME NEW p \in Actors, FireDec(p) PROVE Pending' /\ m_pendingEventCount' \in Nat
    <2>1. /\ pc[p] = "dec" /\ pc'[p] \in {"fire", "none"} /\ Others(p) /\ UNCHANGED events
          /\ m_pendingEventCount' = m_pendingEventCount - 1
      BY <1>0, <1>5, FireDecFacts DEF ctxVars, Moves, Returns
    <2>2. Armed' = Armed
      BY <2>1 DEF Armed
    <2>3. Firing' = Firing \ {p} /\ p \in Firing
      BY <2>1 DEF Firing, Others
    <2>4. IsFiniteSet(Firing') /\ Cardinality(Firing') = Cardinality(Firing) - 1 /\ Cardinality(Firing') \in Nat
      BY <1>a, <2>3, FS_RemoveElement, FS_CardinalityType
    <2> QED BY <1>a, <2>1, <2>2, <2>4 DEF Pending
  <1> QED BY <1>1, <1>2, <1>3, <1>4, <1>5, WhoDisturbs

\* A fiber registered before stop() is submitted before the scheduler is stopped.
LEMMA StoppingKept ==
  ASSUME TypeOK, InCall, Slots, Pending, Stopping, [Next]_vars
  PROVE  Stopping'
  <1>0. CallTypeOK /\ CtxTypeOK /\ PoolTypeOK /\ OwnerTypeOK
    BY DEF TypeOK
  <1>a. ASSUME NEW x \in Ctxs, NEW e \in Event, slot[x][e] # None
        PROVE  slot[x][e] \in Callbacks
    BY <1>0, <1>a DEF CtxTypeOK
  <1> DEFINE Ordered == m_stop' \/ ctl' # "up" => m_stopping'
             Rest  == \A x \in Ctxs, e \in Event :
                        slot'[x][e] # None /\ status'[slot'[x][e]] = "new" =>
                          IF m_stop' THEN slot'[x][e] \in late' ELSE e \in events'[x] \/ InFlight(x, e)'
  <1>b. ASSUME UNCHANGED ownerVars PROVE Ordered
    BY <1>b DEF ownerVars, Stopping
  <1>c. ASSUME Ordered, Rest PROVE Stopping'
    BY <1>c DEF Stopping, Left
  <1>d. ASSUME Undisturbed PROVE \A x \in Ctxs, e \in Event : InFlight(x, e) => InFlight(x, e)'
    BY <1>d DEF Undisturbed, InFlight
  <1>1. CASE Undisturbed /\ m_stop' = m_stop
    <2>1. Ordered
      <3>1. CASE UNCHANGED ownerVars
        BY <1>b, <3>1
      <3>2. CASE OwnerStep
        BY <1>1, <3>2 DEF OwnerStep, StopBegin, StopSpun, AllocExit, StopJoin, Destruct, Stopping
      <3>3. CASE ~UNCHANGED ownerVars /\ ~OwnerStep
        <4>1. \E p \in Actors : /\ ~Quiet
                                /\ \/ \E c \in Callbacks : AddCommit(p, c)
                                   \/ Fire(p) \/ FirePush(p) \/ FireDec(p)
          BY <3>3, WhoDisturbs
        <4> QED BY <3>3, WhoDisturbs
      <3> QED BY <3>1, <3>2, <3>3
    <2>2. Rest
      BY <1>1, <1>a, <1>d DEF Undisturbed, Stopping, Left
    <2> QED BY <1>c, <2>1, <2>2
  <1>2. CASE OwnerStep /\ m_stop' # m_stop
    <2>1. UNCHANGED <<events, slot, late, status, pc>> /\ ctl = "spin" /\ m_stopping' = m_stopping
          /\ m_pendingEventCount = 0 /\ m_stop'
      BY <1>0, <1>2, OwnerFacts DEF OwnerStep, StopBegin, StopSpun, NothingPending, AllocExit, StopJoin,
         Destruct, byOwner, ctxVars, poolVars, callVars, ghostVars, OwnerTypeOK
    <2>2. Armed = {} /\ Firing = {}
      <3>1. Cardinality(Armed) \in Nat /\ Cardinality(Firing) \in Nat
        BY FS_CardinalityType DEF Pending
      <3>2. Cardinality(Armed) = 0 /\ Cardinality(Firing) = 0
        BY <2>1, <3>1 DEF Pending
      <3> QED BY <3>2, FS_EmptySet DEF Pending
    <2>3. ASSUME NEW x \in Ctxs, NEW e \in Event PROVE e \notin events[x] /\ ~InFlight(x, e)
      <3>1. e \notin events[x]
        <4>1. e \in events[x] => <<x, e>> \in Armed
          BY DEF Armed
        <4> QED BY <2>2, <4>1
      <3>2. ~InFlight(x, e)
        BY <2>2 DEF Firing, InFlight
      <3> QED BY <3>1, <3>2
    <2>4. Ordered
      BY <2>1 DEF Stopping
    <2>5. m_stop = FALSE
      BY <1>0, <1>2, <2>1 DEF OwnerTypeOK
    <2>6. Rest
      BY <2>1, <2>3, <2>5 DEF Stopping, Left
    <2> QED BY <1>c, <2>4, <2>6
  <1>3. ASSUME NEW p \in Actors, NEW c \in Callbacks, AddCommit(p, c), UNCHANGED ownerVars PROVE Stopping'
    <2> DEFINE x == ctx[p]
               e == arg[p].ev
    <2>1. x \in Ctxs /\ e \in Event /\ pc[p] = "commit"
      BY <1>0, <1>3, AddCommitFacts, AtLock DEF Locked
    <2>2. /\ slot[x][e] = None /\ Unused(c)
          /\ events' = [events EXCEPT ![x] = @ \cup {e}] /\ slot' = [slot EXCEPT ![x][e] = c]
          /\ late' = (IF m_stopping THEN late \cup {c} ELSE late)
          /\ status' = status /\ Others(p)
      BY <1>0, <1>3, AddCommitFacts DEF poolVars
    <2>3. m_stop' = m_stop /\ (m_stop => m_stopping)
      BY <1>3 DEF ownerVars, Stopping
    <2> HIDE DEF x, e
    <2>4. \A y \in Ctxs, f \in Event : slot'[y][f] = IF y = x /\ f = e THEN c ELSE slot[y][f]
      BY <1>0, <2>1, <2>2 DEF CtxTypeOK
    <2>5. \A y \in Ctxs, f \in Event : f \in events'[y] <=> f \in events[y] \/ (y = x /\ f = e)
      BY <1>0, <2>1, <2>2 DEF CtxTypeOK
    <2>6. \A y \in Ctxs, f \in Event : InFlight(y, f) => InFlight(y, f)'
      BY <2>1, <2>2 DEF InFlight, Others
    <2>7. Rest
      <3> SUFFICES ASSUME NEW y \in Ctxs, NEW f \in Event, slot'[y][f] # None, status'[slot'[y][f]] = "new"
                   PROVE  IF m_stop' THEN slot'[y][f] \in late' ELSE f \in events'[y] \/ InFlight(y, f)'
        OBVIOUS
      <3>1. CASE y = x /\ f = e
        BY <2>2, <2>3, <2>4, <2>5, <3>1
      <3>2. CASE ~(y = x /\ f = e)
        <4>1. slot'[y][f] = slot[y][f] /\ Left(y, f)
          BY <2>2, <2>4, <3>2 DEF Left
        <4>2. IF m_stop THEN slot[y][f] \in late ELSE f \in events[y] \/ InFlight(y, f)
          BY <4>1 DEF Stopping
        <4> QED BY <2>2, <2>3, <2>5, <2>6, <4>1, <4>2
      <3> QED BY <3>1, <3>2
    <2> QED BY <1>b, <1>c, <1>3, <2>7
  <1>4. ASSUME NEW p \in Actors, Fire(p), ~Quiet, UNCHANGED ownerVars PROVE Stopping'
    <2> DEFINE x == ctx[p]
               e == Head(todo[p])
    <2>1. /\ pc[p] = "fire" /\ e \in events[x] /\ events' = [events EXCEPT ![x] = @ \ {e}]
          /\ Moves(p, IF m_stop THEN "dec" ELSE "push") /\ todo'[p] = todo[p] /\ Others(p)
          /\ UNCHANGED <<slot, status, late>>
      BY <1>0, <1>4, FireFacts DEF poolVars
    <2>2. x \in Ctxs /\ e \in Event /\ m_stop' = m_stop
      BY <1>0, <1>4, <2>1, AtLock DEF Locked, ownerVars
    <2>3. \A y \in Ctxs, f \in Event : f \in events[y] => f \in events'[y] \/ (y = x /\ f = e)
      BY <1>0, <2>1, <2>2 DEF CtxTypeOK
    <2>4. \A y \in Ctxs, f \in Event : ~m_stop /\ y = x /\ f = e => InFlight(y, f)'
      BY <2>1 DEF InFlight, Moves
    <2>5. \A y \in Ctxs, f \in Event : InFlight(y, f) => InFlight(y, f)'
      BY <2>1 DEF InFlight, Others
    <2> HIDE DEF x, e
    <2>6. Rest
      <3> SUFFICES ASSUME NEW y \in Ctxs, NEW f \in Event, slot'[y][f] # None, status'[slot'[y][f]] = "new"
                   PROVE  IF m_stop' THEN slot'[y][f] \in late' ELSE f \in events'[y] \/ InFlight(y, f)'
        OBVIOUS
      <3>1. IF m_stop THEN slot[y][f] \in late ELSE f \in events[y] \/ InFlight(y, f)
        BY <2>1 DEF Stopping, Left
      <3>2. CASE m_stop
        BY <2>1, <2>2, <3>1, <3>2
      <3>3. CASE ~m_stop /\ y = x /\ f = e
        BY <2>2, <2>4, <3>3
      <3>4. CASE ~m_stop /\ ~(y = x /\ f = e)
        BY <2>2, <2>3, <2>5, <3>1, <3>4
      <3> QED BY <3>2, <3>3, <3>4
    <2> QED BY <1>b, <1>c, <1>4, <2>6
  <1>5. ASSUME NEW p \in Actors, FirePush(p), ~Quiet, UNCHANGED ownerVars PROVE Stopping'
    <2> DEFINE x == ctx[p]
               e == Head(todo[p])
               c == slot[x][e]
    <2>1. /\ pc[p] = "push" /\ Others(p) /\ UNCHANGED <<events, slot, late>>
          /\ status' = [status EXCEPT ![c] = "waiting"] \/ status' = [status EXCEPT ![c] = "refused"]
      BY <1>0, <1>5, FirePushFacts DEF ctxVars
    <2>2. x \in Ctxs /\ e \in Event /\ m_stop' = m_stop /\ c \in Callbacks
      BY <1>0, <1>5, <2>1, AtLock DEF Locked, ownerVars, Slots, PushNew
    <2>3. status'[c] # "new" /\ \A d \in Callbacks \ {c} : status'[d] = status[d]
      BY <1>0, <2>1, <2>2 DEF PoolTypeOK, Tasks
    <2>4. \A y \in Ctxs, f \in Event : slot[y][f] # c /\ InFlight(y, f) => InFlight(y, f)'
      BY <2>1 DEF InFlight, Others
    <2> HIDE DEF c
    <2>5. Rest
      <3> SUFFICES ASSUME NEW y \in Ctxs, NEW f \in Event, slot'[y][f] # None, status'[slot'[y][f]] = "new"
                   PROVE  IF m_stop' THEN slot'[y][f] \in late' ELSE f \in events'[y] \/ InFlight(y, f)'
        OBVIOUS
      <3>1. slot'[y][f] = slot[y][f] /\ slot[y][f] # c /\ Left(y, f)
        BY <1>a, <2>1, <2>3 DEF Left
      <3>2. IF m_stop THEN slot[y][f] \in late ELSE f \in events[y] \/ InFlight(y, f)
        BY <3>1 DEF Stopping
      <3> QED BY <2>1, <2>2, <2>4, <3>1, <3>2
    <2> QED BY <1>b, <1>c, <1>5, <2>5
  <1>6. ASSUME NEW p \in Actors, FireDec(p), UNCHANGED ownerVars PROVE Stopping'
    <2>1. /\ pc[p] = "dec" /\ Others(p) /\ UNCHANGED <<events, slot, status, late>>
      BY <1>0, <1>6, FireDecFacts DEF ctxVars, poolVars
    <2>2. \A y \in Ctxs, f \in Event : InFlight(y, f) => InFlight(y, f)'
      BY <2>1 DEF InFlight, Others
    <2>3. Rest
      BY <1>6, <2>1, <2>2 DEF Stopping, Left, ownerVars
    <2> QED BY <1>b, <1>c, <1>6, <2>3
  <1> QED BY <1>1, <1>2, <1>3, <1>4, <1>5, <1>6, WhoDisturbs DEF ownerVars

(***************************************************************************)
(* The invariant and the properties of the runs.                           *)
(***************************************************************************)
\* The constructed manager satisfies the invariant.
LEMMA InvInit == Init => IInv
  <1> SUFFICES ASSUME Init PROVE IInv
    OBVIOUS
  <1>1. TypeOK
    <2> USE IOManagerAssumption DEF Init
    <2>1. OwnerTypeOK
      BY DEF OwnerTypeOK
    <2>2. TableTypeOK
      BY DEF TableTypeOK
    <2>3. CtxTypeOK
      BY DEF CtxTypeOK
    <2>4. KernelTypeOK
      BY DEF KernelTypeOK, NoInterest
    <2>5. PoolTypeOK
      BY DEF PoolTypeOK
    <2>6. WorkerTypeOK
      BY DEF WorkerTypeOK
    <2>7. CallTypeOK
      <3>1. NoCall \in [op : Calls \cup {"none"}, fd : Fds \cup {0}, ev : Event]
        BY DEF NoCall, Event
      <3>2. <<>> \in Fires
        BY DEF Fires
      <3> QED BY <3>1, <3>2 DEF CallTypeOK
    <2>8. RestTypeOK
      BY DEF RestTypeOK
    <2> QED BY <2>1, <2>2, <2>3, <2>4, <2>5, <2>6, <2>7, <2>8 DEF TypeOK
  <1>2. Tables
    BY IOManagerAssumption DEF Init, Tables
  <1>3. InCall /\ Holding
    BY DEF Init, InCall, CallOf, Holding, Locked
  <1>4. Watching
    <2>1. \A x \in Ctxs : Agree(x, {})
      BY CtxShape, IOManagerAssumption DEF Init, Agree, NoInterest
    <2> QED BY <2>1 DEF Init, Watching, WatchesFor
  <1>5. Slots
    <2>1. ArmedNew /\ PushNew /\ OneSlot
      BY DEF Init, ArmedNew, PushNew, OneSlot
    <2>2. UnusedNew
      BY IOManagerAssumption DEF Init, UnusedNew, Tasks
    <2> QED BY <2>1, <2>2 DEF Slots
  <1>6. Pending
    <2>1. Armed = {} /\ Firing = {}
      BY DEF Init, Armed, Firing
    <2> QED BY <2>1, FS_EmptySet DEF Init, Pending
  <1>7. Stopping
    BY DEF Init, Stopping, Left
  <1> QED BY <1>1, <1>2, <1>3, <1>4, <1>5, <1>6, <1>7 DEF IInv

\* Every step keeps it.
LEMMA InvNext == IInv /\ [Next]_vars => IInv'
  <1> SUFFICES ASSUME IInv, [Next]_vars PROVE IInv'
    OBVIOUS
  <1>0. TypeOK /\ Tables /\ InCall /\ Holding /\ Watching /\ Slots /\ Pending /\ Stopping /\ EdgesWatched
    BY DEF IInv, Tables, EdgesWatched
  <1>1. OwnerTypeOK' /\ TableTypeOK' /\ CtxTypeOK' /\ KernelTypeOK' /\ PoolTypeOK' /\ WorkerTypeOK'
        /\ CallTypeOK' /\ RestTypeOK' /\ EdgesWatched'
    BY <1>0, OwnerTypes, TableTypes, CtxTypes, KernelTypes, PoolTypes, WorkerTypes, CallTypes, RestTypes
    DEF TypeOK
  <1>2. Pending' /\ m_pendingEventCount' \in Nat
    BY <1>0, PendingKept
  <1>3. TypeOK'
    BY <1>1, <1>2 DEF TypeOK
  <1>4. Tables'
    BY <1>0, <1>1, TableTypes DEF Tables, EdgesWatched, TypeOK
  <1>5. InCall' /\ Holding'
    BY <1>0, CallsAndLocks
  <1>6. Watching'
    BY <1>0, WatchingKept
  <1>7. Slots'
    BY <1>0, SlotsKept
  <1>8. Stopping'
    BY <1>0, StoppingKept
  <1> QED BY <1>2, <1>3, <1>4, <1>5, <1>6, <1>7, <1>8 DEF IInv

\* The invariant holds in every state that the manager reaches.
THEOREM Invariant == Spec => []IInv
  BY InvInit, InvNext, PTL DEF Spec

\* Every variable keeps its type; above all the counter, which is decremented without a test, never
\* goes below zero (iomanager.cpp 191, 229, 266, 366).
THEOREM TypeCorrect == Spec => []TypeOK
  <1>1. IInv => TypeOK
    BY DEF IInv
  <1> QED BY <1>1, Invariant, PTL

\* m_pendingEventCount, which stop() reads without a lock, counts the armed events and those being
\* fired (iomanager.cpp 150, 193, 231-232, 266-275, 289, 363-372).
THEOREM PendingIsExact == Spec => []PendingExact
  <1>1. IInv => PendingExact
    BY DEF IInv, Pending, PendingExact, Firing
  <1> QED BY <1>1, Invariant, PTL

\* While nobody holds a context's mutex, the kernel watches for it what is armed in it, unless the
\* program closed the descriptor (iomanager.cpp 137-151, 178-194, 350-372).
THEOREM KernelAlwaysAgrees == Spec => []KernelAgrees
  <1>1. IInv => KernelAgrees
    BY DEF IInv, Watching, Agree, KernelAgrees
  <1> QED BY <1>1, Invariant, PTL

\* stop() loses no callback that was registered before it: when it lets the scheduler stop, every one
\* has been submitted (iomanager.cpp 286-292, 39-47).
THEOREM StopAlwaysWaits == Spec => []StopWaits
  <1>1. IInv => StopWaits
    <2> SUFFICES ASSUME IInv, m_stop, NEW c \in Callbacks, NEW x \in Ctxs, NEW e \in Event,
                        slot[x][e] = c, c \notin late
                 PROVE  status[c] # "new"
      BY DEF StopWaits, Registered
    <2>1. c # None
      BY IOManagerAssumption DEF Tasks
    <2> QED BY <2>1 DEF IInv, Stopping, Left
  <1> QED BY <1>1, Invariant, PTL

(***************************************************************************)
(* The contract of Reactor.                                                *)
(***************************************************************************)
Places == Ctxs \X Event
At(y) == slot[y[1]][y[2]]
Waiting == {z \in Places : Waits(z)}
Registrations == {<<y, At(y)>> : y \in Waiting}
Handed == {c \in Callbacks : status[c] # "new"}

\* The registrations are the same when the same places wait, with the same fibers.
LEMMA SameRegistrations ==
  ASSUME \A y \in Places : Waits(y)' <=> Waits(y), \A y \in Places : Waits(y) => At(y)' = At(y)
  PROVE  Registrations' = Registrations
  <1>1. Waiting' = Waiting
    BY DEF Waiting
  <1> QED BY <1>1 DEF Registrations, Waiting

\* The fiber of a place.
LEMMA PlaceShape ==
  ASSUME NEW x \in Ctxs, NEW e \in Event
  PROVE  /\ <<x, e>> \in Places /\ At(<<x, e>>) = slot[x][e]
         /\ Waits(<<x, e>>) <=> /\ slot[x][e] # None /\ status[slot[x][e]] = "new"
                                /\ e \in events[x] \/ InFlight(x, e)
  BY DEF Places, At, Waits

\* Every step is a step of the contract.
LEMMA ContractNext ==
  ASSUME IInv, [Next]_vars
  PROVE  [Contract!Next]_(Contract!reactorVars)
  <1>0. CallTypeOK /\ CtxTypeOK /\ PoolTypeOK /\ OwnerTypeOK /\ InCall /\ Slots /\ Stopping /\ TypeOK
    BY DEF IInv, TypeOK
  <1> DEFINE Goal == Contract!Next \/ UNCHANGED Contract!reactorVars
  <1>a. ASSUME Registrations' = Registrations, Handed' = Handed, m_stop' = m_stop PROVE Goal
    BY <1>a DEF Contract!reactorVars, Registrations, Waiting, At, Places, Handed
  <1>b. ASSUME NEW y \in Registrations, Registrations' = Registrations \ {y}, m_stop' = m_stop,
               \/ Handed' = Handed \cup {y[2]}
               \/ m_stop /\ Handed' = Handed
        PROVE  Goal
    <2>1. Contract!Hand(y) \/ Contract!Drop(y)
      BY <1>b DEF Contract!Hand, Contract!Drop, Registrations, Waiting, At, Places, Handed
    <2>2. \E z \in {<<v, slot[v[1]][v[2]]>> : v \in {z \in Ctxs \X Event : Waits(z)}} :
             Contract!Hand(z) \/ Contract!Drop(z)
      BY <2>1 DEF Registrations, Waiting, At, Places
    <2> QED BY <2>2 DEF Contract!Next
  <1>c. ASSUME Registrations' = Registrations, Handed' = Handed, m_stop' PROVE Goal
    <2>1. Contract!SwitchOff
      BY <1>0, <1>c DEF Contract!SwitchOff, Registrations, Waiting, At, Places, Handed, OwnerTypeOK
    <2> QED BY <2>1 DEF Contract!Next
  <1>d. ASSUME NEW y \in Places, NEW c \in Callbacks, Registrations' = Registrations \cup {<<y, c>>},
               Handed' = Handed, c \notin Handed, m_stop' = m_stop,
               \A z \in Registrations : z[1] # y /\ z[2] # c
        PROVE  Goal
    <2>1. Contract!Arm(y, c)
      BY <1>d DEF Contract!Arm, Registrations, Waiting, At, Places, Handed
    <2> QED BY <2>1 DEF Contract!Next, Places
  <1>1. CASE Undisturbed
    <2>1. \A x \in Ctxs, e \in Event : InFlight(x, e)' <=> InFlight(x, e)
      BY <1>1 DEF Undisturbed, InFlight
    <2>2. ASSUME NEW y \in Places PROVE (Waits(y)' <=> Waits(y)) /\ At(y)' = At(y)
      <3>1. y[1] \in Ctxs /\ y[2] \in Event
        BY DEF Places
      <3>2. At(y)' = At(y) /\ At(y) \in Callbacks \cup {None}
        BY <1>0, <1>1, <3>1 DEF At, Undisturbed, CtxTypeOK
      <3> QED BY <1>1, <2>1, <3>1, <3>2 DEF Waits, At, Undisturbed
    <2>3. Registrations' = Registrations
      BY <2>2, SameRegistrations
    <2>4. Handed' = Handed
      BY <1>1 DEF Undisturbed, Handed
    <2>5. m_stop' = m_stop \/ m_stop'
      <3>1. m_stop' \in BOOLEAN
        BY <1>0, OwnerTypes DEF OwnerTypeOK
      <3>2. UNCHANGED ownerVars \/ OwnerStep
        BY <1>0, WhoDisturbs
      <3> QED BY <1>0, <3>1, <3>2 DEF OwnerStep, StopBegin, StopSpun, AllocExit, StopJoin, Destruct, ownerVars
    <2> QED BY <1>a, <1>c, <2>3, <2>4, <2>5
  <1>2. ASSUME NEW p \in Actors, NEW c \in Callbacks, AddCommit(p, c), UNCHANGED ownerVars PROVE Goal
    <2> DEFINE x == ctx[p]
               e == arg[p].ev
    <2>1. x \in Ctxs /\ e \in Event /\ pc[p] = "commit"
      BY <1>0, <1>2, AddCommitFacts, AtLock DEF Locked
    <2>2. /\ slot[x][e] = None /\ Unused(c)
          /\ events' = [events EXCEPT ![x] = @ \cup {e}] /\ slot' = [slot EXCEPT ![x][e] = c]
          /\ status' = status /\ Others(p) /\ pc'[p] = "none"
      BY <1>0, <1>2, AddCommitFacts DEF poolVars, Returns
    <2> HIDE DEF x, e
    <2>3. c # None /\ status[c] = "new"
      BY <1>0, <2>2, IOManagerAssumption DEF Slots, UnusedNew, Tasks
    <2>4. \A y \in Ctxs, f \in Event :
             /\ slot'[y][f] = IF y = x /\ f = e THEN c ELSE slot[y][f]
             /\ f \in events'[y] <=> f \in events[y] \/ (y = x /\ f = e)
             /\ InFlight(y, f)' <=> InFlight(y, f)
      <3>1. \A y \in Ctxs, f \in Event : slot'[y][f] = IF y = x /\ f = e THEN c ELSE slot[y][f]
        BY <1>0, <2>1, <2>2 DEF CtxTypeOK
      <3>2. \A y \in Ctxs, f \in Event : f \in events'[y] <=> f \in events[y] \/ (y = x /\ f = e)
        BY <1>0, <2>1, <2>2 DEF CtxTypeOK
      <3>3. \A y \in Ctxs, f \in Event : InFlight(y, f)' <=> InFlight(y, f)
        BY <2>1, <2>2 DEF InFlight, Others
      <3> QED BY <3>1, <3>2, <3>3
    <2>5. ASSUME NEW y \in Places
          PROVE  /\ y = <<x, e>> => ~Waits(y) /\ Waits(y)' /\ At(y)' = c
                 /\ y # <<x, e>> => (Waits(y)' <=> Waits(y)) /\ At(y)' = At(y)
                 /\ At(y) # c
      <3>1. y[1] \in Ctxs /\ y[2] \in Event /\ y = <<y[1], y[2]>>
        BY DEF Places
      <3>2. At(y) # c
        BY <2>2, <3>1 DEF Unused, At
      <3>3. CASE y = <<x, e>>
        <4>1. y[1] = x /\ y[2] = e
          BY <3>3
        <4> QED BY <2>1, <2>2, <2>3, <2>4, <3>2, <3>3, <4>1 DEF Waits, At
      <3>4. CASE y # <<x, e>>
        <4>1. ~(y[1] = x /\ y[2] = e)
          BY <3>1, <3>4
        <4> QED BY <2>2, <2>4, <3>1, <3>2, <3>4, <4>1 DEF Waits, At
      <3> QED BY <3>3, <3>4
    <2> DEFINE y0 == <<x, e>>
    <2>6. y0 \in Places
      BY <2>1 DEF Places
    <2>7. Registrations' = Registrations \cup {<<y0, c>>}
      <3>1. Waiting' = Waiting \cup {y0}
        BY <2>5, <2>6 DEF Waiting
      <3> QED BY <2>5, <2>6, <3>1 DEF Registrations, Waiting
    <2>8. Handed' = Handed /\ c \notin Handed /\ m_stop' = m_stop
      BY <1>2, <2>2, <2>3 DEF Handed, ownerVars
    <2>9. \A z \in Registrations : z[1] # y0 /\ z[2] # c
      BY <2>5 DEF Registrations, Waiting
    <2> HIDE DEF y0
    <2> QED BY <1>d, <2>6, <2>7, <2>8, <2>9
  <1>3. ASSUME NEW p \in Actors, Fire(p), ~Quiet, UNCHANGED ownerVars PROVE Goal
    <2> DEFINE x == ctx[p]
               e == Head(todo[p])
    <2>1. /\ pc[p] = "fire" /\ e \in events[x] /\ events' = [events EXCEPT ![x] = @ \ {e}]
          /\ Moves(p, IF m_stop THEN "dec" ELSE "push") /\ todo'[p] = todo[p] /\ Others(p)
          /\ UNCHANGED <<slot, status>>
      BY <1>0, <1>3, FireFacts DEF poolVars
    <2>2. /\ x \in Ctxs /\ e \in Event /\ m_stop' = m_stop
          /\ slot[x][e] \in Callbacks /\ slot[x][e] # None /\ status[slot[x][e]] = "new"
      BY <1>0, <1>3, <2>1, AtLock, IOManagerAssumption DEF Locked, ownerVars, Slots, ArmedNew, Tasks
    <2>3. \A y \in Ctxs, f \in Event : f \in events'[y] <=> f \in events[y] /\ ~(y = x /\ f = e)
      BY <1>0, <2>1, <2>2 DEF CtxTypeOK
    <2>4. \A y \in Ctxs, f \in Event : ~(y = x /\ f = e) => (InFlight(y, f)' <=> InFlight(y, f))
      <3> SUFFICES ASSUME NEW y \in Ctxs, NEW f \in Event, ~(y = x /\ f = e)
                   PROVE  InFlight(y, f)' <=> InFlight(y, f)
        OBVIOUS
      <3>1. ~(pc'[p] = "push" /\ ctx'[p] = y /\ Head(todo'[p]) = f) /\ pc[p] # "push"
        BY <2>1 DEF Moves
      <3> QED BY <2>1, <3>1 DEF InFlight, Others
    <2>5. \A y \in Ctxs, f \in Event : y = x /\ f = e => (InFlight(y, f)' <=> ~m_stop)
      <3> SUFFICES ASSUME NEW y \in Ctxs, NEW f \in Event, y = x, f = e
                   PROVE  InFlight(y, f)' <=> ~m_stop
        OBVIOUS
      <3>1. ASSUME NEW q \in Actors, q # p PROVE ~(pc'[q] = "push" /\ ctx'[q] = y)
        BY <1>0, <2>1, <3>1, AtLock DEF Others, Locked
      <3>2. pc'[p] = "push" <=> ~m_stop
        BY <2>1 DEF Moves
      <3> QED BY <2>1, <3>1, <3>2 DEF InFlight, Moves
    <2> HIDE DEF x, e
    <2>6. ASSUME NEW y \in Places
          PROVE  /\ At(y)' = At(y)
                 /\ y = <<x, e>> => Waits(y) /\ (Waits(y)' <=> ~m_stop)
                 /\ y # <<x, e>> => (Waits(y)' <=> Waits(y))
      <3>1. y[1] \in Ctxs /\ y[2] \in Event /\ y = <<y[1], y[2]>>
        BY DEF Places
      <3>2. CASE y = <<x, e>>
        <4>1. y[1] = x /\ y[2] = e
          BY <3>2
        <4> QED BY <2>1, <2>2, <2>3, <2>5, <3>1, <3>2, <4>1 DEF Waits, At, x, e
      <3>3. CASE y # <<x, e>>
        <4>1. ~(y[1] = x /\ y[2] = e)
          BY <3>1, <3>3
        <4> QED BY <2>1, <2>3, <2>4, <3>1, <3>3, <4>1 DEF Waits, At
      <3> QED BY <3>2, <3>3
    <2>7. Handed' = Handed
      BY <2>1 DEF Handed
    <2>8. CASE ~m_stop
      <3>1. Registrations' = Registrations
        BY <2>6, <2>8, SameRegistrations
      <3> QED BY <1>a, <2>2, <2>7, <3>1
    <2>9. CASE m_stop
      <3> DEFINE y0 == <<x, e>>
      <3>1. y0 \in Places
        BY <2>2 DEF Places
      <3>2. Waiting' = Waiting \ {y0} /\ y0 \in Waiting
        BY <2>6, <2>9, <3>1 DEF Waiting
      <3>3. Registrations' = Registrations \ {<<y0, At(y0)>>} /\ <<y0, At(y0)>> \in Registrations
        BY <2>6, <3>2 DEF Registrations, Waiting
      <3> HIDE DEF y0
      <3> QED BY <1>b, <2>2, <2>7, <2>9, <3>3
    <2> QED BY <2>8, <2>9
  <1>4. ASSUME NEW p \in Actors, FirePush(p), ~Quiet, UNCHANGED ownerVars PROVE Goal
    <2> DEFINE x == ctx[p]
               e == Head(todo[p])
               c == slot[x][e]
    <2>1. /\ pc[p] = "push" /\ Moves(p, "dec") /\ todo'[p] = todo[p] /\ Others(p)
          /\ UNCHANGED <<events, slot>>
          /\ status' = [status EXCEPT ![c] = "waiting"] \/ status' = [status EXCEPT ![c] = "refused"]
      BY <1>0, <1>4, FirePushFacts DEF ctxVars
    <2>2. /\ x \in Ctxs /\ e \in Event /\ m_stop' = m_stop /\ c \in Callbacks /\ c # None
          /\ status[c] = "new" /\ InFlight(x, e)
      BY <1>0, <1>4, <2>1, AtLock, IOManagerAssumption DEF Locked, ownerVars, Slots, PushNew, Tasks, InFlight
    <2>3. status'[c] # "new" /\ \A d \in Callbacks \ {c} : status'[d] = status[d]
      BY <1>0, <2>1, <2>2 DEF PoolTypeOK, Tasks
    <2>4. \A y \in Ctxs, f \in Event : ~(y = x /\ f = e) => (InFlight(y, f)' <=> InFlight(y, f))
      <3> SUFFICES ASSUME NEW y \in Ctxs, NEW f \in Event, ~(y = x /\ f = e)
                   PROVE  InFlight(y, f)' <=> InFlight(y, f)
        OBVIOUS
      <3>1. ~(pc[p] = "push" /\ ctx[p] = y /\ Head(todo[p]) = f) /\ pc'[p] # "push"
        BY <2>1 DEF Moves
      <3> QED BY <2>1, <3>1 DEF InFlight, Others
    <2>5. \A y \in Ctxs, f \in Event : slot[y][f] = c => y = x /\ f = e
      BY <1>0, <2>2 DEF Slots, OneSlot
    <2>c. c = slot[x][e]
      OBVIOUS
    <2> HIDE DEF x, e, c
    <2>6. ASSUME NEW y \in Places
          PROVE  /\ At(y)' = At(y)
                 /\ y = <<x, e>> => Waits(y) /\ ~Waits(y)' /\ At(y) = c
                 /\ y # <<x, e>> => (Waits(y)' <=> Waits(y))
      <3>1. y[1] \in Ctxs /\ y[2] \in Event /\ y = <<y[1], y[2]>>
        BY DEF Places
      <3>2. CASE y = <<x, e>>
        <4>1. y[1] = x /\ y[2] = e
          BY <3>2
        <4>2. At(y) = c /\ At(y)' = At(y)
          BY <2>1, <2>c, <4>1 DEF At
        <4>3. Waits(y) /\ ~Waits(y)'
          BY <2>1, <2>2, <2>3, <4>1, <4>2 DEF Waits, At
        <4> QED BY <3>2, <4>2, <4>3
      <3>3. CASE y # <<x, e>>
        <4>1. ~(y[1] = x /\ y[2] = e)
          BY <3>1, <3>3
        <4>2. At(y)' = At(y) /\ At(y) # c /\ At(y) \in Callbacks \cup {None}
          BY <1>0, <2>1, <2>5, <3>1, <4>1 DEF At, CtxTypeOK
        <4>3. At(y) # None => status'[At(y)] = status[At(y)]
          BY <2>3, <4>2
        <4> QED BY <2>1, <2>4, <3>1, <3>3, <4>1, <4>2, <4>3 DEF Waits, At
      <3> QED BY <3>2, <3>3
    <2> DEFINE y0 == <<x, e>>
    <2>7. y0 \in Places
      BY <2>2 DEF Places
    <2>8. Waiting' = Waiting \ {y0} /\ y0 \in Waiting
      BY <2>6, <2>7 DEF Waiting
    <2>9. Registrations' = Registrations \ {<<y0, c>>} /\ <<y0, c>> \in Registrations
      BY <2>6, <2>8 DEF Registrations, Waiting
    <2>10. Handed' = Handed \cup {c}
      BY <2>2, <2>3 DEF Handed
    <2> HIDE DEF y0
    <2> QED BY <1>b, <2>2, <2>9, <2>10
  <1>5. ASSUME NEW p \in Actors, FireDec(p), UNCHANGED ownerVars PROVE Goal
    <2>1. /\ pc[p] = "dec" /\ pc'[p] \in {"fire", "none"} /\ Others(p) /\ UNCHANGED <<events, slot, status>>
      BY <1>0, <1>5, FireDecFacts DEF ctxVars, poolVars, Moves, Returns
    <2>2. \A x \in Ctxs, e \in Event : InFlight(x, e)' <=> InFlight(x, e)
      BY <2>1 DEF InFlight, Others
    <2>3. ASSUME NEW y \in Places PROVE (Waits(y)' <=> Waits(y)) /\ At(y)' = At(y)
      BY <2>1, <2>2 DEF Waits, At, Places
    <2>4. Registrations' = Registrations /\ Handed' = Handed
      BY <2>1, <2>3, SameRegistrations DEF Handed
    <2> QED BY <1>a, <1>5, <2>4 DEF ownerVars
  <1> QED BY <1>0, <1>1, <1>2, <1>3, <1>4, <1>5, WhoDisturbs

\* The manager keeps the contract of Reactor: whoever fires an event, its callback is submitted once,
\* and is dropped only after the scheduler was stopped (iomanager.cpp 39-47, 325-373).
THEOREM ContractKept == Spec => KeepsContract
  <1>1. Init => Contract!Init
    <2> SUFFICES ASSUME Init PROVE Contract!Init
      OBVIOUS
    <2>1. \A z \in Ctxs \X Event : ~Waits(z)
      BY DEF Init, Waits
    <2>2. \A c \in Callbacks : status[c] = "new"
      BY IOManagerAssumption DEF Init, Tasks
    <2> QED BY <2>1, <2>2 DEF Contract!Init, Init
  <1>2. IInv /\ [Next]_vars => [Contract!Next]_(Contract!reactorVars)
    BY ContractNext
  <1> QED BY <1>1, <1>2, Invariant, PTL DEF Spec, KeepsContract, Contract!Spec

=============================================================================
