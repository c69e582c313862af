------------------------------- MODULE EnvProofs -------------------------------
(***************************************************************************)
(* Proofs about the guards of Locks and the threads of Thread, as Env uses *)
(* them: for any threads and mutexes, and any number of calls and signals. *)
(***************************************************************************)
EXTENDS Env, ListFacts, FiniteSetTheorems

USE EnvAssumption

-----------------------------------------------------------------------------
(* Guards. *)

\* What a guard says is what its thread has.
Mine(t, l) ==
  /\ m_locked[t][l] => guard[t][l] # "none"
  /\ (m_locked[t][l] /\ guard[t][l] = "write") <=> writer[l] = t
  /\ (m_locked[t][l] /\ guard[t][l] = "read")  <=> t \in readers[l]

\* The inductive invariant: nobody reads what somebody writes.
LocksInv ==
  /\ LocksTypeOK
  /\ \A l \in Mutexes : writer[l] # None => readers[l] = {}
  /\ \A t \in Threads, l \in Mutexes : Mine(t, l)

\* The invariant gives the exclusion of guards (mutex.h:22-160).
LEMMA Excludes == LocksInv => GuardsExclude
  BY DEF LocksInv, LocksTypeOK, Mine, GuardsExclude

\* Initially no lock is held and no guard exists.
LEMMA LocksStart == LocksInit => LocksInv
  BY DEF LocksInit, LocksInv, LocksTypeOK, Mine

\* Setting m_locked keeps its type.
LEMMA FlagType ==
  ASSUME NEW t \in Threads, NEW l \in Mutexes, NEW b \in BOOLEAN, LocksTypeOK, Flag(t, l, b)
  PROVE  m_locked' \in [Threads -> [Mutexes -> BOOLEAN]]
<1>1. [m_locked[t] EXCEPT ![l] = b] \in [Mutexes -> BOOLEAN] BY DEF LocksTypeOK
<1> QED BY <1>1 DEF LocksTypeOK, Flag

\* A guard that begins, ends or stays as it is keeps the type of guards.
LEMMA GuardType ==
  ASSUME NEW t \in Threads, NEW l \in Mutexes, NEW mode \in {"none", "read", "write"}, LocksTypeOK,
         guard' = guard \/ guard' = [guard EXCEPT ![t][l] = mode]
  PROVE  guard' \in [Threads -> [Mutexes -> {"none", "read", "write"}]]
<1>1. [guard[t] EXCEPT ![l] = mode] \in [Mutexes -> {"none", "read", "write"}]
  BY DEF LocksTypeOK
<1> QED BY <1>1 DEF LocksTypeOK

\* Taking a lock in a mode and marking the guard as locked (mutex.h:84-94, 134-148).
LEMMA Acquiring ==
  ASSUME NEW t \in Threads, NEW l \in Mutexes, NEW mode \in {"read", "write"},
         LocksInv, ~m_locked[t][l], Acquire(t, l, mode), Flag(t, l, TRUE),
         guard' = [guard EXCEPT ![t][l] = mode]
  PROVE  LocksInv'
<1>1. LocksTypeOK'
  <2>0. LocksTypeOK BY DEF LocksInv
  <2>1. readers' \in [Mutexes -> SUBSET Threads] /\ writer' \in [Mutexes -> Threads \cup {None}]
    <3>1. CASE mode = "read" /\ rdlock(t, l) BY <2>0, <3>1 DEF LocksTypeOK, rdlock
    <3>2. CASE mode = "write" /\ wrlock(t, l) BY <2>0, <3>2 DEF LocksTypeOK, wrlock
    <3> QED BY <3>1, <3>2 DEF Acquire
  <2>2. guard' \in [Threads -> [Mutexes -> {"none", "read", "write"}]]
    BY <2>0, GuardType
  <2>3. m_locked' \in [Threads -> [Mutexes -> BOOLEAN]]
    BY <2>0, FlagType
  <2> QED BY <2>1, <2>2, <2>3 DEF LocksTypeOK
<1>2. ASSUME NEW k \in Mutexes, writer'[k] # None PROVE readers'[k] = {}
  BY <1>2 DEF LocksInv, LocksTypeOK, Acquire, rdlock, wrlock
<1>3. ASSUME NEW u \in Threads, NEW k \in Mutexes PROVE Mine(u, k)'
  <2>0. Mine(u, k) BY DEF LocksInv
  <2>1. CASE k # l
    BY <2>0, <2>1 DEF LocksInv, LocksTypeOK, Acquire, rdlock, wrlock, Flag, Mine
  <2>2. CASE k = l /\ u # t
    BY <2>0, <2>2 DEF LocksInv, LocksTypeOK, Acquire, rdlock, wrlock, Flag, Mine
  <2>3. CASE k = l /\ u = t
    BY <2>0, <2>3 DEF LocksInv, LocksTypeOK, Acquire, rdlock, wrlock, Flag, Mine
  <2> QED BY <2>1, <2>2, <2>3
<1> QED BY <1>1, <1>2, <1>3 DEF LocksInv

\* Release of a guard, locked or not, keeps what is true of all others (mutex.h:99-106).
LEMMA Releasing ==
  ASSUME NEW t \in Threads, NEW l \in Mutexes, LocksInv, Release(t, l),
         guard' = guard \/ guard' = [guard EXCEPT ![t][l] = "none"]
  PROVE  LocksInv'
<1>1. CASE ~m_locked[t][l]
  <2>1. UNCHANGED <<readers, writer, m_locked>> BY <1>1 DEF Release
  <2>2. LocksTypeOK' BY <2>1, GuardType DEF LocksInv, LocksTypeOK
  <2>3. ASSUME NEW u \in Threads, NEW k \in Mutexes PROVE Mine(u, k)'
    BY <1>1, <2>1 DEF LocksInv, LocksTypeOK, Mine
  <2> QED BY <2>1, <2>2, <2>3 DEF LocksInv
<1>2. CASE m_locked[t][l]
  <2>1. unlock(t, l) /\ Flag(t, l, FALSE) BY <1>2 DEF Release
  <2>2. LocksTypeOK'
    <3>1. readers' \in [Mutexes -> SUBSET Threads] /\ writer' \in [Mutexes -> Threads \cup {None}]
      BY <2>1 DEF LocksInv, LocksTypeOK, unlock
    <3>2. m_locked' \in [Threads -> [Mutexes -> BOOLEAN]] BY <2>1, FlagType DEF LocksInv
    <3> QED BY <3>1, <3>2, GuardType DEF LocksInv, LocksTypeOK
  <2>3. ASSUME NEW k \in Mutexes, writer'[k] # None PROVE readers'[k] = {}
    BY <2>1, <2>3 DEF LocksInv, LocksTypeOK, unlock
  <2>4. ASSUME NEW u \in Threads, NEW k \in Mutexes PROVE Mine(u, k)'
    <3>0. Mine(u, k) /\ Mine(t, l) /\ Mine(u, l) BY DEF LocksInv
    <3>1. CASE k # l
      BY <2>1, <3>0, <3>1 DEF LocksInv, LocksTypeOK, unlock, Flag, Mine
    <3>2. CASE k = l /\ u # t
      BY <2>1, <1>2, <3>0, <3>2 DEF LocksInv, LocksTypeOK, unlock, Flag, Mine
    <3>3. CASE k = l /\ u = t
      BY <2>1, <1>2, <3>0, <3>3 DEF LocksInv, LocksTypeOK, unlock, Flag, Mine
    <3> QED BY <3>1, <3>2, <3>3
  <2> QED BY <2>2, <2>3, <2>4 DEF LocksInv
<1>3. m_locked[t][l] \in BOOLEAN BY DEF LocksInv, LocksTypeOK
<1> QED BY <1>1, <1>2, <1>3

\* The four operations of a guard keep the invariant.
LEMMA GuardSteps ==
  ASSUME NEW t \in Threads, NEW l \in Mutexes, LocksInv,
         \/ \E mode \in {"read", "write"} : Construct(t, l, mode)
         \/ GuardLock(t, l) \/ GuardUnlock(t, l) \/ Destruct(t, l)
  PROVE  LocksInv'
<1>0. Mine(t, l) /\ m_locked[t][l] \in BOOLEAN /\ guard[t][l] \in {"none", "read", "write"}
  BY DEF LocksInv, LocksTypeOK
<1>1. ASSUME NEW mode \in {"read", "write"}, Construct(t, l, mode) PROVE LocksInv'
  <2>1. ~m_locked[t][l] BY <1>0, <1>1 DEF Construct, Mine
  <2> QED BY <1>1, <2>1, Acquiring DEF Construct
<1>2. CASE GuardLock(t, l) /\ m_locked[t][l]
  BY <1>2 DEF GuardLock, LocksInv, LocksTypeOK, Mine
<1>3. CASE GuardLock(t, l) /\ ~m_locked[t][l]
  <2>1. guard[t][l] \in {"read", "write"} BY <1>0, <1>3 DEF GuardLock
  <2>2. guard' = [guard EXCEPT ![t][l] = guard[t][l]]
    BY <1>3 DEF GuardLock, LocksInv, LocksTypeOK
  <2> QED BY <1>3, <2>1, <2>2, Acquiring DEF GuardLock
<1>4. CASE GuardUnlock(t, l)
  BY <1>4, Releasing DEF GuardUnlock
<1>5. CASE Destruct(t, l)
  BY <1>5, Releasing DEF Destruct
<1> QED BY <1>0, <1>1, <1>2, <1>3, <1>4, <1>5

\* Steps that leave locks alone keep the invariant.
LEMMA LocksAlone == LocksInv /\ UNCHANGED lockVars => LocksInv'
  BY DEF LocksInv, LocksTypeOK, Mine, lockVars

\* LocksInv is an invariant of the program.
LEMMA LocksKept == Spec => []LocksInv
<1>1. Init => LocksInv BY LocksStart DEF Init
<1>2. LocksInv /\ [Next]_vars => LocksInv'
  <2> SUFFICES ASSUME LocksInv, [Next]_vars PROVE LocksInv' OBVIOUS
  <2>1. CASE UNCHANGED vars BY <2>1, LocksAlone DEF vars
  <2>2. ASSUME NEW t \in Threads, Owner(t) PROVE LocksInv'
    BY <2>2, LocksAlone DEF Owner
  <2>3. ASSUME NEW t \in Threads, Run(t) PROVE LocksInv'
    <3>1. CASE Enter(t) BY <3>1, GuardSteps DEF Enter
    <3>2. CASE Leave(t) BY <3>2, GuardSteps DEF Leave
    <3>3. CASE UseGuard(t) BY <3>3, GuardSteps DEF UseGuard
    <3>4. CASE Call(t) BY <3>4, LocksAlone DEF Call
    <3>5. CASE UNCHANGED lockVars BY <3>5, LocksAlone
    <3> QED BY <2>3, <3>1, <3>2, <3>3, <3>4, <3>5 DEF Run
  <2> QED BY <2>1, <2>2, <2>3 DEF Next
<1> QED BY <1>1, <1>2, PTL DEF Spec

\* A guard is locked exactly while its thread has the lock, and two locked guards of one lock are
\* both of readers, for any threads and locks (mutex.h:22-160).
THEOREM GuardsExcludeHolds == Spec => []GuardsExclude
  BY LocksKept, Excludes, PTL

-----------------------------------------------------------------------------
(* Threads. *)

\* Where the pthread is, and what it has done to its object.
Begun(t) ==
  /\ pc[t] = "init" => m_semaphore[t] = 0 /\ m_cb[t]
  /\ pc[t] = "notify" => m_semaphore[t] = 0 /\ m_id[t] /\ ~m_cb[t]
  /\ pc[t] \in {"cb", "over"} => m_id[t] /\ ~m_cb[t]

\* What goes with each state of an object: its owner passes the semaphore once, after run() has done
\* with the object, and a pthread is reaped when m_thread no longer names it, or the object is gone.
Stage(t) ==
  /\ object[t] = "none" => pc[t] = "none" /\ m_semaphore[t] = 0 /\ reaped[t] = 0
  /\ object[t] # "none" => pc[t] # "none"
  /\ object[t] = "constructing" =>
       /\ reaped[t] = 0 /\ m_thread[t]
       /\ pc[t] \in {"cb", "over"} => m_semaphore[t] = 1
  /\ object[t] = "alive" =>
       /\ pc[t] \in {"cb", "over"} /\ m_semaphore[t] = 0
       /\ reaped[t] = IF m_thread[t] THEN 0 ELSE 1
  /\ object[t] = "dead" =>
       IF t \in thrown THEN reaped[t] = 0
       ELSE reaped[t] = 1 /\ pc[t] \in {"cb", "over"}
  /\ t \in thrown => object[t] = "dead"

ThreadsInv == ThreadTypeOK /\ \A t \in Threads : Begun(t) /\ Stage(t)

\* The order of run().
LEMMA Order ==
  /\ RunOrder[1] = "init"
  /\ After("init") = "notify" /\ After("notify") = "cb" /\ After("cb") = "over"
<1>1. DOMAIN RunOrder = 1 .. 4 /\ RunOrder[1] = "init" /\ RunOrder[2] = "notify"
      /\ RunOrder[3] = "cb" /\ RunOrder[4] = "over"
  BY DEF RunOrder
<1>2. (CHOOSE i \in DOMAIN RunOrder : RunOrder[i] = "init") = 1
  BY <1>1
<1>3. (CHOOSE i \in DOMAIN RunOrder : RunOrder[i] = "notify") = 2
  BY <1>1
<1>4. (CHOOSE i \in DOMAIN RunOrder : RunOrder[i] = "cb") = 3
  BY <1>1
<1> QED BY <1>1, <1>2, <1>3, <1>4 DEF After

\* The invariant gives what Thread promises (thread.cpp:28-90).
LEMMA ThreadsPromise == ThreadsInv => ThreadsHold
<1> SUFFICES ASSUME ThreadsInv PROVE ThreadsHold OBVIOUS
<1>1. ThreadTypeOK BY DEF ThreadsInv
<1>2. StartHandshake
  <2> SUFFICES ASSUME NEW t \in Threads \ thrown
               PROVE  /\ pc[t] \in {"init", "notify"} => object[t] \in {"constructing", "alive"}
                      /\ object[t] = "alive" => m_id[t] /\ ~m_cb[t]
    BY DEF StartHandshake
  <2>1. Begun(t) /\ Stage(t) BY DEF ThreadsInv
  <2>2. object[t] \in {"none", "constructing", "alive", "dead"} BY <1>1 DEF ThreadTypeOK
  <2> QED BY <2>1, <2>2 DEF Begun, Stage
<1>3. ReapedOnce
  <2> SUFFICES ASSUME NEW t \in Threads
               PROVE  reaped[t] <= 1 /\ (object[t] = "dead" /\ t \notin thrown => reaped[t] = 1)
    BY DEF ReapedOnce
  <2>1. Stage(t) BY DEF ThreadsInv
  <2>2. object[t] \in {"none", "constructing", "alive", "dead"} BY <1>1 DEF ThreadTypeOK
  <2>3. reaped[t] \in {0, 1} BY <2>1, <2>2 DEF Stage
  <2> QED BY <2>1, <2>3 DEF Stage
<1> QED BY <1>1, <1>2, <1>3 DEF ThreadsHold

\* Initially there is no object.
LEMMA ThreadsStart == ThreadInit => ThreadsInv
  BY DEF ThreadInit, ThreadsInv, ThreadTypeOK, Begun, Stage

\* Steps that leave threads alone keep the invariant.
LEMMA ThreadsAlone == ThreadsInv /\ UNCHANGED threadVars => ThreadsInv'
  BY DEF ThreadsInv, ThreadTypeOK, Begun, Stage, threadVars

\* Each step of run() keeps the invariant (thread.cpp:78-89).
LEMMA RunSteps ==
  ASSUME NEW t \in Threads, ThreadsInv, RunInit(t) \/ RunNotify(t) \/ RunEnd(t)
  PROVE  ThreadsInv'
<1>0. ThreadTypeOK /\ Begun(t) /\ Stage(t) BY DEF ThreadsInv
<1>1. CASE RunInit(t)
  <2>1. pc[t] = "init" /\ pc' = [pc EXCEPT ![t] = "notify"] BY <1>1, Order DEF RunInit, Goes
  <2>2. ThreadTypeOK' BY <1>0, <1>1, <2>1 DEF RunInit, ThreadTypeOK
  <2>3. ASSUME NEW u \in Threads PROVE (Begun(u) /\ Stage(u))'
    <3>0. Begun(u) /\ Stage(u) BY DEF ThreadsInv
    <3>1. CASE u # t BY <1>0, <1>1, <2>1, <3>0, <3>1 DEF RunInit, ThreadTypeOK, Begun, Stage
    <3>2. CASE u = t BY <1>0, <1>1, <2>1, <3>2 DEF RunInit, ThreadTypeOK, Begun, Stage
    <3> QED BY <3>1, <3>2
  <2> QED BY <2>2, <2>3 DEF ThreadsInv
<1>2. CASE RunNotify(t)
  <2>1. pc[t] = "notify" /\ pc' = [pc EXCEPT ![t] = "cb"] BY <1>2, Order DEF RunNotify, Goes
  <2>2. ThreadTypeOK' BY <1>0, <1>2, <2>1 DEF RunNotify, ThreadTypeOK, Begun
  <2>3. ASSUME NEW u \in Threads PROVE (Begun(u) /\ Stage(u))'
    <3>0. Begun(u) /\ Stage(u) BY DEF ThreadsInv
    <3>1. CASE u # t BY <1>0, <1>2, <2>1, <3>0, <3>1 DEF RunNotify, ThreadTypeOK, Begun, Stage
    <3>2. CASE u = t BY <1>0, <1>2, <2>1, <3>2 DEF RunNotify, ThreadTypeOK, Begun, Stage
    <3> QED BY <3>1, <3>2
  <2> QED BY <2>2, <2>3 DEF ThreadsInv
<1>3. CASE RunEnd(t)
  <2>1. pc[t] = "cb" /\ pc' = [pc EXCEPT ![t] = "over"] BY <1>3, Order DEF RunEnd, Goes
  <2>2. ThreadTypeOK' BY <1>0, <1>3, <2>1 DEF RunEnd, ThreadTypeOK
  <2>3. ASSUME NEW u \in Threads PROVE (Begun(u) /\ Stage(u))'
    <3>0. Begun(u) /\ Stage(u) BY DEF ThreadsInv
    <3>1. CASE u # t BY <1>0, <1>3, <2>1, <3>0, <3>1 DEF RunEnd, ThreadTypeOK, Begun, Stage
    <3>2. CASE u = t BY <1>0, <1>3, <2>1, <3>2 DEF RunEnd, ThreadTypeOK, Begun, Stage
    <3> QED BY <3>1, <3>2
  <2> QED BY <2>2, <2>3 DEF ThreadsInv
<1> QED BY <1>1, <1>2, <1>3

\* Each step of the owner keeps the invariant (thread.cpp:28-75, mutex.cpp:17-23).
LEMMA OwnerSteps ==
  ASSUME NEW t \in Threads, ThreadsInv,
         Create(t) \/ Constructed(t) \/ Interrupted(t) \/ Join(t) \/ Destroy(t)
  PROVE  ThreadsInv'
<1>0. ThreadTypeOK /\ Begun(t) /\ Stage(t) BY DEF ThreadsInv
<1>1. ThreadTypeOK'
  <2>1. CASE Create(t) BY <1>0, <2>1, Order DEF Create, ThreadTypeOK
  <2>2. CASE Constructed(t) BY <1>0, <2>2 DEF Constructed, ThreadTypeOK
  <2>3. CASE Interrupted(t) BY <1>0, <2>3 DEF Interrupted, ThreadTypeOK
  <2>4. CASE Join(t) BY <1>0, <2>4 DEF Join, AfterJoin, ThreadTypeOK
  <2>5. CASE Destroy(t) BY <1>0, <2>5 DEF Destroy, ThreadTypeOK
  <2> QED BY <2>1, <2>2, <2>3, <2>4, <2>5
<1>2. ASSUME NEW u \in Threads PROVE (Begun(u) /\ Stage(u))'
  <2>0. Begun(u) /\ Stage(u) BY DEF ThreadsInv
  <2>1. CASE u # t
    BY <1>0, <2>0, <2>1 DEF Create, Constructed, Interrupted, Join, Destroy, ThreadTypeOK, Begun, Stage
  <2>2. CASE u = t
    <3>1. CASE Create(t) BY <1>0, <2>2, <3>1, Order DEF Create, ThreadTypeOK, Begun, Stage
    <3>2. CASE Constructed(t)
      <4>1. pc[t] \in {"cb", "over"} /\ m_semaphore'[t] = 0
        BY <1>0, <3>2 DEF Constructed, ThreadTypeOK, Begun, Stage
      <4> QED BY <1>0, <2>2, <3>2, <4>1 DEF Constructed, ThreadTypeOK, Begun, Stage
    <3>3. CASE Interrupted(t) BY <1>0, <2>2, <3>3 DEF Interrupted, ThreadTypeOK, Begun, Stage
    <3>4. CASE Join(t) BY <1>0, <2>2, <3>4 DEF Join, AfterJoin, ThreadTypeOK, Begun, Stage
    <3>5. CASE Destroy(t) BY <1>0, <2>2, <3>5 DEF Destroy, ThreadTypeOK, Begun, Stage
    <3> QED BY <3>1, <3>2, <3>3, <3>4, <3>5
  <2> QED BY <2>1, <2>2
<1> QED BY <1>1, <1>2 DEF ThreadsInv

\* ThreadsInv is an invariant of the program.
LEMMA ThreadsKept == Spec => []ThreadsInv
<1>1. Init => ThreadsInv BY ThreadsStart DEF Init
<1>2. ThreadsInv /\ [Next]_vars => ThreadsInv'
  <2> SUFFICES ASSUME ThreadsInv, [Next]_vars PROVE ThreadsInv' OBVIOUS
  <2>1. CASE UNCHANGED vars BY <2>1, ThreadsAlone DEF vars
  <2>2. ASSUME NEW t \in Threads, Owner(t) PROVE ThreadsInv'
    BY <2>2, OwnerSteps DEF Owner
  <2>3. ASSUME NEW t \in Threads, Run(t) PROVE ThreadsInv'
    <3>1. CASE RunInit(t) \/ RunNotify(t) \/ RunEnd(t) BY <3>1, RunSteps
    <3>2. CASE Call(t) BY <3>2, ThreadsAlone DEF Call
    <3>3. CASE Enter(t) BY <3>3, ThreadsAlone DEF Enter
    <3>4. CASE Leave(t) BY <3>4, ThreadsAlone DEF Leave
    <3>5. CASE UseGuard(t) BY <3>5, ThreadsAlone DEF UseGuard
    <3> QED BY <2>3, <3>1, <3>2, <3>3, <3>4, <3>5 DEF Run
  <2> QED BY <2>1, <2>2, <2>3 DEF Next
<1> QED BY <1>1, <1>2, PTL DEF Spec

\* For any number of threads and signals: an object that was constructed may be destroyed at once, and its
\* pthread is joined or detached exactly once (thread.cpp:28-90).
THEOREM ThreadsHoldAlways == Spec => []ThreadsHold
  BY ThreadsKept, ThreadsPromise, PTL

-----------------------------------------------------------------------------
(* The command line. *)

Args == Keys \cup Values \cup {Dash}
Texts == Values \cup {NoText}
Maps == UNION {[D -> Texts] : D \in SUBSET Keys}
States == [args : Maps, now_key : Keys \cup {None}, ret : BOOLEAN]
Start == [args |-> <<>>, now_key |-> None, ret |-> TRUE]

\* Setting a key keeps a map one of keys to texts.
LEMMA PutType ==
  ASSUME NEW f \in Maps, NEW k \in Keys, NEW v \in Texts
  PROVE  Put(f, k, v) \in Maps
<1>1. PICK D \in SUBSET Keys : f \in [D -> Texts] BY DEF Maps
<1>2. Put(f, k, v) \in [D \cup {k} -> Texts] BY <1>1 DEF Put
<1>3. D \cup {k} \in SUBSET Keys OBVIOUS
<1> QED BY <1>2, <1>3 DEF Maps

\* So does a key that gets the empty text.
LEMMA FlushType == ASSUME NEW s \in States PROVE Flush(s) \in Maps
<1>1. s.args \in Maps /\ s.now_key \in Keys \cup {None} BY DEF States
<1>2. NoText \in Texts BY DEF Texts
<1> QED BY <1>1, <1>2, PutType DEF Flush

\* The state before the first argument.
LEMMA StartType == Start \in States
<1>1. <<>> \in Maps
  <2>1. <<>> \in [1 .. Len(<<>>) -> Texts] BY LenProperties
  <2>2. 1 .. Len(<<>>) = {} OBVIOUS
  <2> QED BY <2>1, <2>2 DEF Maps
<1> QED BY <1>1 DEF Start, States

\* Each argument leads from a state to a state.
LEMMA NextArgType ==
  ASSUME NEW s \in States, NEW arg \in Args
  PROVE  NextArg(s, arg) \in States
<1>1. /\ s.args \in Maps /\ s.now_key \in Keys \cup {None} /\ s.ret \in BOOLEAN
      /\ s = [args |-> s.args, now_key |-> s.now_key, ret |-> s.ret]
  BY DEF States
<1>2. CASE ~s.ret BY <1>2 DEF NextArg
<1>3. CASE s.ret /\ arg \in Keys
  <2>1. NextArg(s, arg) = [args |-> Flush(s), now_key |-> arg, ret |-> s.ret]
    BY <1>1, <1>3 DEF NextArg
  <2>2. Flush(s) \in Maps BY FlushType
  <2> QED BY <1>1, <1>3, <2>1, <2>2 DEF States
<1>4. CASE s.ret /\ arg \notin Keys /\ (arg = Dash \/ s.now_key = None)
  <2>1. NextArg(s, arg) = [args |-> s.args, now_key |-> s.now_key, ret |-> FALSE]
    BY <1>1, <1>4 DEF NextArg
  <2> QED BY <1>1, <2>1 DEF States
<1>5. CASE s.ret /\ arg \notin Keys /\ ~(arg = Dash \/ s.now_key = None)
  <2>1. NextArg(s, arg) = [args |-> Put(s.args, s.now_key, arg), now_key |-> None, ret |-> s.ret]
    BY <1>1, <1>5 DEF NextArg
  <2>2. s.now_key \in Keys /\ arg \in Texts BY <1>1, <1>5 DEF Args, Texts
  <2>3. Put(s.args, s.now_key, arg) \in Maps BY <1>1, <2>2, PutType
  <2> QED BY <1>1, <2>1, <2>3 DEF States
<1> QED BY <1>2, <1>3, <1>4, <1>5

\* The states of the loop of init().
ArgStates(argv) ==
  CHOOSE state : state = [i \in 0 .. Len(argv) |->
    IF i = 0 THEN [args |-> <<>>, now_key |-> None, ret |-> TRUE] ELSE NextArg(state[i - 1], argv[i])]

\* The loop runs: there are such states, one after the other (env.cpp:38-63).
LEMMA ArgLoop ==
  ASSUME NEW argv \in Seq(Args)
  PROVE  /\ ArgStates(argv) \in [0 .. Len(argv) -> States]
         /\ ArgStates(argv)[0] = Start
         /\ \A i \in 1 .. Len(argv) : ArgStates(argv)[i] = NextArg(ArgStates(argv)[i - 1], argv[i])
<1> DEFINE n == Len(argv)
           H(i) == [s \in States |-> NextArg(s, argv[i])]
           G == [i \in 1 .. n |-> H(i)]
           Body(f) == [i \in 0 .. Len(argv) |->
             IF i = 0 THEN [args |-> <<>>, now_key |-> None, ret |-> TRUE] ELSE NextArg(f[i - 1], argv[i])]
           Eq(f) == f = Body(f)
<1>1. n \in Nat /\ \A i \in 1 .. n : argv[i] \in Args OBVIOUS
<1>2. G \in [1 .. n -> [States -> States]]
  <2>1. ASSUME NEW i \in 1 .. n PROVE H(i) \in [States -> States]
    BY <1>1, NextArgType
  <2> QED BY <2>1
<1>3. LoopStates(n, States, Start, G) # {}
  <2> HIDE DEF n, G
  <2> QED BY <1>1, <1>2, StartType, Rounds
<1>4. PICK f \in [0 .. n -> States] : f[0] = Start /\ \A i \in 1 .. n : f[i] = G[i][f[i - 1]]
  <2> HIDE DEF n, G
  <2> QED BY <1>3 DEF LoopStates
<1>5. ASSUME NEW i \in 1 .. n PROVE f[i] = NextArg(f[i - 1], argv[i])
  <2>1. f[i - 1] \in States
    <3>1. i - 1 \in 0 .. n BY <1>1
    <3> HIDE DEF n
    <3> QED BY <3>1
  <2>2. f[i] = G[i][f[i - 1]] BY <1>4
  <2>3. G[i] = H(i) OBVIOUS
  <2>4. H(i)[f[i - 1]] = NextArg(f[i - 1], argv[i]) BY <2>1
  <2> HIDE DEF G, H
  <2> QED BY <2>2, <2>3, <2>4
<1>6. Eq(f)
  <2> DEFINE e == Body(f)
  <2>1. f = [i \in 0 .. n |-> f[i]] OBVIOUS
  <2>2. ASSUME NEW i \in 0 .. n PROVE f[i] = e[i]
    <3> HIDE DEF G, H
    <3>1. CASE i = 0 BY <3>1, <1>4 DEF Start
    <3>2. CASE i # 0
      <4>1. i \in 1 .. n BY <3>2, <1>1
      <4> QED BY <4>1, <1>5, <3>2
    <3> QED BY <3>1, <3>2
  <2>3. e = [i \in 0 .. n |-> e[i]] OBVIOUS
  <2>4. f = e
    <3> HIDE DEF e, n
    <3> QED BY <2>1, <2>2, <2>3
  <2> QED BY <2>4
<1> DEFINE g == ArgStates(argv)
<1>7. g = CHOOSE h : Eq(h) BY DEF ArgStates
<1>8. Eq(g)
  <2> HIDE DEF Eq
  <2> QED BY <1>6, <1>7
<1> HIDE DEF g
<1>9. g[0] = Start
  <2>1. 0 \in 0 .. Len(argv) BY <1>1
  <2> QED BY <1>8, <2>1 DEF Start
<1>10. ASSUME NEW i \in 1 .. n PROVE g[i] = NextArg(g[i - 1], argv[i])
  <2>1. i \in 0 .. Len(argv) /\ i # 0 BY <1>1
  <2> QED BY <1>8, <2>1
<1>11. \A i \in 0 .. n : g[i] \in States
  <2> DEFINE A == {i \in 0 .. n : g[i] \in States}
  <2>1. 0 \in A BY <1>1, <1>9, StartType
  <2>2. ASSUME NEW i \in 0 .. n - 1, i \in A PROVE i + 1 \in A
    <3>1. i + 1 \in 1 .. n /\ (i + 1) - 1 = i BY <1>1
    <3>2. g[i + 1] = NextArg(g[i], argv[i + 1])
      <4>1. g[i + 1] = NextArg(g[(i + 1) - 1], argv[i + 1]) BY <1>10, <3>1
      <4> QED BY <4>1, <3>1
    <3>3. g[i] \in States /\ argv[i + 1] \in Args BY <1>1, <2>2, <3>1
    <3>4. g[i + 1] \in States BY <3>2, <3>3, NextArgType
    <3> QED BY <3>1, <3>4
  <2>3. \A i \in 0 .. n : i \in A
    <3>1. \A i \in 0 .. n - 1 : i \in A => i + 1 \in A BY <2>2
    <3> HIDE DEF A, n
    <3> QED BY <1>1, <2>1, <3>1, Climb, Zenon
  <2> QED BY <2>3
<1>12. g \in [0 .. n -> States]
  <2>1. g = [i \in 0 .. n |-> g[i]]
    <3> DEFINE e == Body(g)
    <3>1. g = e BY <1>8
    <3>2. e = [i \in 0 .. n |-> e[i]] OBVIOUS
    <3> HIDE DEF e, n
    <3> QED BY <3>1, <3>2
  <2> HIDE DEF n
  <2> QED BY <1>11, <2>1
<1> HIDE DEF n
<1> QED BY <1>9, <1>10, <1>12 DEF g, n

\* What init() makes of the last state (env.cpp:64-69).
LEMMA InitLast ==
  ASSUME NEW argv
  PROVE  LET last == ArgStates(argv)[Len(argv)]
         IN init(argv) = [ret |-> last.ret, args |-> IF last.ret THEN Flush(last) ELSE last.args]
  BY DEF init, ArgStates

\* What the command line says of the key at place j.
ValueAt(argv, j) == IF j < Len(argv) /\ argv[j + 1] \in Values THEN argv[j + 1] ELSE NoText

\* The map is what the first m arguments say: the keys among them, each with the text of its last place.
Means(argv, m, f) ==
  /\ DOMAIN f = {k \in Keys : \E j \in 1 .. m : argv[j] = k}
  /\ \A k \in DOMAIN f : \E j \in 1 .. m :
       /\ argv[j] = k /\ f[k] = ValueAt(argv, j)
       /\ \A l \in 1 .. m : argv[l] = k => l <= j

\* A place without key changes nothing.
LEMMA MeansSkip ==
  ASSUME NEW argv \in Seq(Args), NEW i \in 0 .. Len(argv), NEW f, Means(argv, i - 1, f),
         i = 0 \/ argv[i] \notin Keys
  PROVE  Means(argv, i, f)
<1>1. ASSUME NEW k \in Keys, NEW j \in 1 .. i, argv[j] = k PROVE j \in 1 .. i - 1
  <2>1. j # i BY <1>1
  <2> QED BY <2>1
<1>2. 1 .. i - 1 \subseteq 1 .. i OBVIOUS
<1>3. DOMAIN f = {k \in Keys : \E j \in 1 .. i : argv[j] = k} BY <1>1, <1>2 DEF Means
<1>4. ASSUME NEW k \in DOMAIN f
      PROVE \E j \in 1 .. i : /\ argv[j] = k /\ f[k] = ValueAt(argv, j)
                              /\ \A l \in 1 .. i : argv[l] = k => l <= j
  <2>1. PICK j \in 1 .. i - 1 : /\ argv[j] = k /\ f[k] = ValueAt(argv, j)
                                /\ \A l \in 1 .. i - 1 : argv[l] = k => l <= j
    BY DEF Means
  <2>2. k \in Keys BY DEF Means
  <2>3. \A l \in 1 .. i : argv[l] = k => l <= j BY <1>1, <2>1, <2>2
  <2>4. j \in 1 .. i BY <1>2
  <2> QED BY <2>1, <2>3, <2>4
<1> QED BY <1>3, <1>4 DEF Means

\* A key at a place gets the text that the command line says, whatever it had.
LEMMA MeansPut ==
  ASSUME NEW argv \in Seq(Args), NEW i \in 1 .. Len(argv), NEW f, Means(argv, i - 1, f),
         argv[i] \in Keys
  PROVE  Means(argv, i, Put(f, argv[i], ValueAt(argv, i)))
<1> DEFINE g == Put(f, argv[i], ValueAt(argv, i))
<1>1. /\ DOMAIN g = DOMAIN f \cup {argv[i]} /\ g[argv[i]] = ValueAt(argv, i)
      /\ \A k \in DOMAIN f \ {argv[i]} : g[k] = f[k]
  BY DEF Put
<1>2. i \in Nat \ {0} /\ 1 .. i = 1 .. i - 1 \cup {i} OBVIOUS
<1> HIDE DEF g
<1>3. DOMAIN g = {k \in Keys : \E j \in 1 .. i : argv[j] = k} BY <1>1, <1>2 DEF Means
<1>4. ASSUME NEW k \in DOMAIN g
      PROVE \E j \in 1 .. i : /\ argv[j] = k /\ g[k] = ValueAt(argv, j)
                              /\ \A l \in 1 .. i : argv[l] = k => l <= j
  <2>1. CASE k = argv[i]
    <3>1. i \in 1 .. i /\ \A l \in 1 .. i : l <= i BY <1>2
    <3> QED BY <1>1, <2>1, <3>1
  <2>2. CASE k # argv[i]
    <3>1. k \in DOMAIN f BY <1>1, <2>2
    <3>2. PICK j \in 1 .. i - 1 : /\ argv[j] = k /\ f[k] = ValueAt(argv, j)
                                  /\ \A l \in 1 .. i - 1 : argv[l] = k => l <= j
      BY <3>1 DEF Means
    <3>3. \A l \in 1 .. i : argv[l] = k => l <= j BY <1>2, <2>2, <3>2
    <3>4. j \in 1 .. i BY <1>2
    <3> QED BY <1>1, <2>2, <3>1, <3>2, <3>3, <3>4
  <2> QED BY <2>1, <2>2
<1> QED BY <1>3, <1>4 DEF Means, g

\* An argument at place i that init() refuses (env.cpp:41-62).
WrongAt(argv, i) == argv[i] = Dash \/ (argv[i] \in Values /\ (i = 1 \/ argv[i - 1] \notin Keys))

\* After i arguments that it takes, the last key waits for its text, and the map has the others.
Taken(argv, i) ==
  LET s == ArgStates(argv)[i]
  IN /\ s.ret
     /\ s.now_key = IF i > 0 /\ argv[i] \in Keys THEN argv[i] ELSE None
     /\ Means(argv, i - 1, s.args)

\* The next argument, when it is not wrong, is taken too (env.cpp:38-63).
LEMMA TakesNext ==
  ASSUME NEW argv \in Seq(Args), NEW i \in 0 .. Len(argv) - 1, Taken(argv, i), ~WrongAt(argv, i + 1)
  PROVE  Taken(argv, i + 1)
<1> DEFINE s == ArgStates(argv)[i]
           r == ArgStates(argv)[i + 1]
           arg == argv[i + 1]
<1>1. i + 1 \in 1 .. Len(argv) /\ (i + 1) - 1 = i /\ i \in 0 .. Len(argv) /\ arg \in Args OBVIOUS
<1>2. s \in States /\ r \in States /\ r = NextArg(s, arg) BY <1>1, ArgLoop
<1>3. s.ret /\ s.now_key = (IF i > 0 /\ argv[i] \in Keys THEN argv[i] ELSE None) /\ Means(argv, i - 1, s.args)
  BY DEF Taken
<1> HIDE DEF s, r
<1>4. CASE arg \in Keys
  <2>1. r = [s EXCEPT !.args = Flush(s), !.now_key = arg] BY <1>2, <1>3, <1>4 DEF NextArg
  <2>2. r.ret /\ r.now_key = arg /\ r.args = Flush(s) BY <1>2, <1>3, <2>1 DEF States
  <2>3. Means(argv, i, Flush(s))
    <3>1. CASE i > 0 /\ argv[i] \in Keys
      <4>1. Flush(s) = Put(s.args, argv[i], NoText) BY <1>3, <3>1 DEF Flush
      <4>2. ValueAt(argv, i) = NoText BY <1>4 DEF ValueAt
      <4>3. i \in 1 .. Len(argv) BY <1>1, <3>1
      <4> QED BY <1>3, <3>1, <4>1, <4>2, <4>3, MeansPut
    <3>2. CASE ~(i > 0 /\ argv[i] \in Keys)
      <4>1. Flush(s) = s.args BY <1>3, <3>2 DEF Flush
      <4>2. i = 0 \/ argv[i] \notin Keys BY <1>1, <3>2
      <4> QED BY <1>1, <1>3, <4>1, <4>2, MeansSkip
    <3> QED BY <3>1, <3>2
  <2>4. i + 1 > 0 BY <1>1
  <2> QED BY <1>1, <1>4, <2>2, <2>3, <2>4 DEF Taken, r
<1>5. CASE arg \notin Keys
  <2>1. arg \in Values /\ arg # Dash /\ i # 0 /\ argv[i] \in Keys BY <1>1, <1>5 DEF WrongAt, Args
  <2>2. s.now_key = argv[i] /\ i \in 1 .. Len(argv) /\ s.now_key # None BY <1>1, <1>3, <2>1
  <2>3. r = [s EXCEPT !.args = Put(@, s.now_key, arg), !.now_key = None]
    BY <1>2, <1>3, <1>5, <2>1, <2>2 DEF NextArg
  <2>4. r.ret /\ r.now_key = None /\ r.args = Put(s.args, argv[i], arg) BY <1>2, <1>3, <2>2, <2>3 DEF States
  <2>5. ValueAt(argv, i) = arg BY <1>1, <2>1 DEF ValueAt
  <2>6. Means(argv, i, r.args) BY <1>3, <2>1, <2>2, <2>4, <2>5, MeansPut
  <2> QED BY <1>1, <1>5, <2>4, <2>6 DEF Taken, r
<1> QED BY <1>4, <1>5

\* An argument that is wrong is refused, and leaves the map as it is.
LEMMA RefusesWrong ==
  ASSUME NEW argv \in Seq(Args), NEW i \in 0 .. Len(argv) - 1, Taken(argv, i), WrongAt(argv, i + 1)
  PROVE  /\ ~ArgStates(argv)[i + 1].ret
         /\ ArgStates(argv)[i + 1].args = ArgStates(argv)[i].args
<1> DEFINE s == ArgStates(argv)[i]
           r == ArgStates(argv)[i + 1]
           arg == argv[i + 1]
<1>1. i + 1 \in 1 .. Len(argv) /\ (i + 1) - 1 = i /\ i \in 0 .. Len(argv) /\ arg \in Args OBVIOUS
<1>2. s \in States /\ r = NextArg(s, arg) BY <1>1, ArgLoop
<1>3. s.ret /\ s.now_key = (IF i > 0 /\ argv[i] \in Keys THEN argv[i] ELSE None) BY DEF Taken
<1> HIDE DEF s, r
<1>4. arg = Dash \/ (arg \in Values /\ s.now_key = None) BY <1>1, <1>3 DEF WrongAt
<1>5. arg \notin Keys BY <1>4
<1>6. r = [s EXCEPT !.ret = FALSE] BY <1>2, <1>3, <1>4, <1>5 DEF NextArg
<1>7. ~r.ret /\ r.args = s.args BY <1>2, <1>6 DEF States
<1> QED BY <1>7 DEF r, s

\* After that the rest is not looked at (env.cpp:38).
LEMMA LooksNoFurther ==
  ASSUME NEW argv \in Seq(Args), NEW m \in 1 .. Len(argv), ~ArgStates(argv)[m].ret
  PROVE  LET last == ArgStates(argv)[Len(argv)]
         IN ~last.ret /\ last.args = ArgStates(argv)[m].args
<1> DEFINE n == Len(argv) - m
           A == {d \in 0 .. n : ArgStates(argv)[m + d] = ArgStates(argv)[m]}
<1>1. n \in Nat /\ m + n = Len(argv) OBVIOUS
<1>2. 0 \in A BY <1>1
<1>3. ASSUME NEW d \in 0 .. n - 1, d \in A PROVE d + 1 \in A
  <2>1. m + (d + 1) \in 1 .. Len(argv) /\ (m + (d + 1)) - 1 = m + d /\ d + 1 \in 0 .. n BY <1>1
  <2>2. ArgStates(argv)[m + (d + 1)] = NextArg(ArgStates(argv)[m + d], argv[m + (d + 1)])
    <3>1. ArgStates(argv)[m + (d + 1)] = NextArg(ArgStates(argv)[(m + (d + 1)) - 1], argv[m + (d + 1)])
      BY <2>1, ArgLoop
    <3> QED BY <2>1, <3>1
  <2>3. ArgStates(argv)[m + (d + 1)] = ArgStates(argv)[m] BY <1>3, <2>2 DEF NextArg
  <2> QED BY <2>1, <2>3
<1>4. n \in A
  <2>1. \A d \in 0 .. n - 1 : d \in A => d + 1 \in A BY <1>3
  <2>2. \A d \in 0 .. n : d \in A
    <3> HIDE DEF A, n
    <3> QED BY <1>1, <1>2, <2>1, Climb, Zenon
  <2> QED BY <1>1, <2>2
<1> QED BY <1>1, <1>4

\* The arguments before the first wrong one.
GoodOf(argv) == {i \in DOMAIN argv : \A j \in 1 .. i : ~WrongAt(argv, j)}

\* They are the first n, all of them or up to one that is wrong.
LEMMA GoodFirst ==
  ASSUME NEW argv \in Seq(Args)
  PROVE  \E n \in 0 .. Len(argv) :
           /\ GoodOf(argv) = 1 .. n /\ Cardinality(GoodOf(argv)) = n
           /\ \A i \in 1 .. n : ~WrongAt(argv, i)
           /\ n < Len(argv) => WrongAt(argv, n + 1)
<1>0. Len(argv) \in Nat /\ DOMAIN argv = 1 .. Len(argv) OBVIOUS
<1> DEFINE W == {i \in 1 .. Len(argv) : WrongAt(argv, i)}
<1>1. \E n \in 0 .. Len(argv) : /\ \A i \in 1 .. n : ~WrongAt(argv, i)
                                /\ n < Len(argv) => WrongAt(argv, n + 1)
  <2>1. CASE W = {}
    <3>1. \A i \in 1 .. Len(argv) : ~WrongAt(argv, i) BY <2>1
    <3> QED BY <1>0, <3>1
  <2>2. CASE W # {}
    <3>1. W \in SUBSET Nat OBVIOUS
    <3>2. PICK w \in W : \A x \in W : w <= x BY <2>2, <3>1, LeastOf
    <3>3. w - 1 \in 0 .. Len(argv) /\ (w - 1) + 1 = w /\ WrongAt(argv, w) BY <1>0, <3>2
    <3>4. ASSUME NEW i \in 1 .. w - 1 PROVE ~WrongAt(argv, i)
      <4>1. i \in 1 .. Len(argv) /\ ~(w <= i) BY <1>0, <3>2
      <4> QED BY <3>2, <4>1
    <3> QED BY <3>3, <3>4
  <2> QED BY <2>1, <2>2
<1>2. PICK n \in 0 .. Len(argv) : /\ \A i \in 1 .. n : ~WrongAt(argv, i)
                                  /\ n < Len(argv) => WrongAt(argv, n + 1)
  BY <1>1
<1>3. ASSUME NEW i \in 1 .. n PROVE i \in GoodOf(argv)
  <2>1. i \in DOMAIN argv /\ \A j \in 1 .. i : j \in 1 .. n BY <1>0, <1>2
  <2> QED BY <1>2, <2>1 DEF GoodOf
<1>4. ASSUME NEW i \in GoodOf(argv) PROVE i \in 1 .. n
  <2>1. i \in 1 .. Len(argv) /\ \A j \in 1 .. i : ~WrongAt(argv, j) BY <1>0 DEF GoodOf
  <2>2. ASSUME i > n PROVE FALSE
    <3>1. n < Len(argv) /\ n + 1 \in 1 .. i BY <1>0, <2>1, <2>2
    <3> QED BY <1>2, <2>1, <3>1
  <2> QED BY <1>0, <2>1, <2>2
<1>5. GoodOf(argv) = 1 .. n BY <1>3, <1>4
<1>6. Cardinality(1 .. n) = n
  <2>1. 1 \in Int /\ n \in Int /\ n \in Nat BY <1>0
  <2>2. Cardinality(1 .. n) = IF 1 > n THEN 0 ELSE n - 1 + 1 BY <2>1, FS_Interval
  <2> QED BY <2>1, <2>2
<1> QED BY <1>2, <1>5, <1>6

\* All arguments before the first wrong one are taken.
LEMMA TakesGood ==
  ASSUME NEW argv \in Seq(Args), NEW n \in 0 .. Len(argv), \A i \in 1 .. n : ~WrongAt(argv, i)
  PROVE  Taken(argv, n)
<1> DEFINE A == {i \in 0 .. n : Taken(argv, i)}
<1>0. n \in Nat /\ Len(argv) \in Nat OBVIOUS
<1>1. 0 \in A
  <2>1. ArgStates(argv)[0] = Start BY ArgLoop
  <2>2. Means(argv, -1, <<>>) BY DEF Means
  <2>3. Means(argv, 0 - 1, <<>>) BY <2>2
  <2> QED BY <1>0, <2>1, <2>3 DEF Taken, Start
<1>2. ASSUME NEW i \in 0 .. n - 1, i \in A PROVE i + 1 \in A
  <2>1. i \in 0 .. Len(argv) - 1 /\ i + 1 \in 0 .. n /\ i + 1 \in 1 .. n BY <1>0
  <2>2. Taken(argv, i + 1) BY <1>2, <2>1, TakesNext
  <2> QED BY <2>1, <2>2
<1>3. n \in A
  <2>1. \A i \in 0 .. n - 1 : i \in A => i + 1 \in A BY <1>2
  <2>2. \A i \in 0 .. n : i \in A
    <3> HIDE DEF A
    <3> QED BY <1>0, <1>1, <2>1, Climb, Zenon
  <2> QED BY <1>0, <2>2
<1> QED BY <1>3

\* What init() makes of a command line, with n arguments before the first wrong one (env.cpp:28-69).
LEMMA InitMeans ==
  ASSUME NEW argv \in Seq(Args), NEW n \in 0 .. Len(argv), \A i \in 1 .. n : ~WrongAt(argv, i),
         n < Len(argv) => WrongAt(argv, n + 1)
  PROVE  /\ init(argv).ret = (n = Len(argv))
         /\ Means(argv, IF n = Len(argv) THEN n ELSE n - 1, init(argv).args)
<1>0. n \in Nat /\ Len(argv) \in Nat OBVIOUS
<1>1. Taken(argv, n) BY TakesGood
<1> DEFINE last == ArgStates(argv)[Len(argv)]
<1>2. /\ init(argv).ret = last.ret
      /\ init(argv).args = IF last.ret THEN Flush(last) ELSE last.args
  BY InitLast
<1>3. last \in States BY <1>0, ArgLoop
<1>4. CASE n = Len(argv)
  <2>1. /\ last.ret /\ last.now_key = (IF n > 0 /\ argv[n] \in Keys THEN argv[n] ELSE None)
        /\ Means(argv, n - 1, last.args)
    BY <1>1, <1>4 DEF Taken
  <2>2. last.ret = TRUE BY <1>3, <2>1 DEF States
  <2> HIDE DEF last
  <2>3. CASE n > 0 /\ argv[n] \in Keys
    <3>1. Flush(last) = Put(last.args, argv[n], NoText) BY <2>1, <2>3 DEF Flush
    <3>2. ValueAt(argv, n) = NoText BY <1>4 DEF ValueAt
    <3>3. n \in 1 .. Len(argv) BY <1>0, <2>3
    <3>4. Means(argv, n, Flush(last)) BY <2>1, <2>3, <3>1, <3>2, <3>3, MeansPut
    <3> QED BY <1>2, <1>4, <2>2, <3>4
  <2>4. CASE ~(n > 0 /\ argv[n] \in Keys)
    <3>1. Flush(last) = last.args BY <2>1, <2>4 DEF Flush
    <3>2. n = 0 \/ argv[n] \notin Keys BY <1>0, <2>4
    <3>3. Means(argv, n, Flush(last)) BY <2>1, <3>1, <3>2, MeansSkip
    <3> QED BY <1>2, <1>4, <2>2, <3>3
  <2> QED BY <2>3, <2>4
<1>5. CASE n # Len(argv)
  <2>1. n \in 0 .. Len(argv) - 1 /\ WrongAt(argv, n + 1) /\ n + 1 \in 1 .. Len(argv) BY <1>0, <1>5
  <2>2. ~ArgStates(argv)[n + 1].ret /\ ArgStates(argv)[n + 1].args = ArgStates(argv)[n].args
    BY <1>1, <2>1, RefusesWrong
  <2>3. ~last.ret /\ last.args = ArgStates(argv)[n].args BY <2>1, <2>2, LooksNoFurther
  <2>4. last.ret = FALSE BY <1>3, <2>3 DEF States
  <2>5. Means(argv, n - 1, ArgStates(argv)[n].args) BY <1>1 DEF Taken
  <2> QED BY <1>2, <1>5, <2>3, <2>4, <2>5
<1> QED BY <1>4, <1>5

\* init() accepts exactly the grammar's command lines, and its map is what they say, for command lines
\* of any length (env.cpp:28-69).
THEOREM AnyLineMeansGrammar == \A argv \in Seq(Args) : MeansGrammar(argv)
<1> SUFFICES ASSUME NEW argv \in Seq(Args) PROVE MeansGrammar(argv)
  OBVIOUS
<1> DEFINE Wrong(i) == argv[i] = Dash \/ (argv[i] \in Values /\ (i = 1 \/ argv[i - 1] \notin Keys))
           Good     == {i \in DOMAIN argv : \A j \in 1 .. i : ~Wrong(j)}
           n        == Cardinality(Good)
           ok       == n = Len(argv)
           Given(i) == argv[i] \in Keys /\ (ok \/ i < n)
           At(k)    == {i \in Good : argv[i] = k /\ Given(i)}
           Value(i) == IF i < n /\ argv[i + 1] \in Values THEN argv[i + 1] ELSE NoText
           top == IF n = Len(argv) THEN n ELSE n - 1
           f == init(argv).args
<1>1. Good = GoodOf(argv) BY DEF GoodOf, WrongAt
<1>2. /\ n \in 0 .. Len(argv) /\ Good = 1 .. n
      /\ \A i \in 1 .. n : ~WrongAt(argv, i)
      /\ n < Len(argv) => WrongAt(argv, n + 1)
  <2> HIDE DEF Good
  <2> QED BY <1>1, GoodFirst
<1>3. init(argv).ret = ok /\ Means(argv, top, f)
  <2> HIDE DEF n
  <2> QED BY <1>2, InitMeans
<1>4. n \in Nat /\ Len(argv) \in Nat /\ n <= Len(argv)
  <2> HIDE DEF n
  <2> QED BY <1>2
<1>5. ASSUME NEW k \in Keys PROVE At(k) = {i \in 1 .. top : argv[i] = k}
  <2> HIDE DEF n, Good
  <2>1. CASE ok BY <1>2, <2>1
  <2>2. CASE ~ok
    <3>1. {i \in 1 .. n : i < n} = 1 .. n - 1 BY <1>4
    <3> QED BY <1>2, <2>2, <3>1
  <2> QED BY <2>1, <2>2
<1>6. ASSUME NEW i \in 1 .. top PROVE Value(i) = ValueAt(argv, i)
  <2> HIDE DEF n
  <2>1. CASE ok BY <2>1 DEF ValueAt
  <2>2. CASE ~ok
    <3>1. i < n /\ i < Len(argv) BY <1>4, <2>2
    <3> QED BY <3>1 DEF ValueAt
  <2> QED BY <2>1, <2>2
<1>7. DOMAIN f = {k \in Keys : At(k) # {}}
  <2> HIDE DEF At, top, f
  <2>1. DOMAIN f = {k \in Keys : \E j \in 1 .. top : argv[j] = k} BY <1>3 DEF Means
  <2>2. \A k \in Keys : At(k) # {} <=> \E j \in 1 .. top : argv[j] = k BY <1>5
  <2> QED BY <2>1, <2>2
<1>8. ASSUME NEW k \in DOMAIN f
      PROVE  \E i \in At(k) : (\A j \in At(k) : j <= i) /\ f[k] = Value(i)
  <2> HIDE DEF At, Value, top, f
  <2>1. k \in Keys BY <1>3 DEF Means
  <2>2. PICK j \in 1 .. top : /\ argv[j] = k /\ f[k] = ValueAt(argv, j)
                              /\ \A l \in 1 .. top : argv[l] = k => l <= j
    BY <1>3 DEF Means
  <2>3. At(k) = {i \in 1 .. top : argv[i] = k} BY <1>5, <2>1
  <2>4. Value(j) = ValueAt(argv, j) BY <1>6
  <2> QED BY <2>2, <2>3, <2>4
<1>9. /\ init(argv).ret = ok
      /\ DOMAIN f = {k \in Keys : At(k) # {}}
      /\ \A k \in DOMAIN f : \E i \in At(k) : (\A j \in At(k) : j <= i) /\ f[k] = Value(i)
  <2> HIDE DEF At, Value, f, ok
  <2> QED BY <1>3, <1>7, <1>8
<1> QED BY <1>9 DEF MeansGrammar

\* So the property that runs check on short command lines holds.
LEMMA LinesMeanGrammar == InitMeansGrammar
<1> SUFFICES ASSUME NEW m \in 0 .. MaxArgs, NEW argv \in [1 .. m -> Keys \cup Values \cup {Dash}]
             PROVE MeansGrammar(argv)
  BY DEF InitMeansGrammar
<1>1. argv \in Seq(Args) BY DEF Args
<1> QED BY <1>1, AnyLineMeansGrammar

-----------------------------------------------------------------------------
(* The arguments and the help texts. *)

Entries(k) == {i \in DOMAIN m_helps : m_helps[i][1] = k}

\* The inductive invariant: of a key whose calls of addHelp did not overlap, at most one thread is in
\* addHelp, it pushes where there is no entry, and there is at most one entry.
HelpInv ==
  /\ TypeOK
  /\ \A k \in Keys \ met :
       /\ \A t, u \in Adding(k) : t = u
       /\ \A t \in Threads : call[t] = [op |-> "pushHelp", key |-> k] => Entries(k) = {}
       /\ \A i, j \in Entries(k) : i = j

\* The invariant gives one text for a key (env.cpp:97-119).
LEMMA OneText == HelpInv => HelpReplaced
<1> SUFFICES ASSUME HelpInv, NEW k \in Keys \ met PROVE Cardinality(Entries(k)) <= 1
  BY DEF HelpReplaced, Entries
<1>1. CASE Entries(k) = {} BY <1>1, FS_EmptySet
<1>2. CASE Entries(k) # {}
  <2>1. PICK i \in Entries(k) : TRUE BY <1>2
  <2>2. \A j \in Entries(k) : j = i BY <2>1 DEF HelpInv
  <2>3. Entries(k) = {i} BY <2>1, <2>2
  <2>4. Cardinality(Entries(k)) = 1 BY <2>3, FS_Singleton
  <2> QED BY <2>4
<1> QED BY <1>1, <1>2

\* Erasing the entries of a key leaves entries of the list, none of that key.
LEMMA Erased ==
  ASSUME NEW helps \in Seq(Keys \X Threads), NEW k
  PROVE  /\ EraseHelp(helps, k) \in Seq(Keys \X Threads)
         /\ \A i \in DOMAIN EraseHelp(helps, k) :
              EraseHelp(helps, k)[i][1] # k /\ \E j \in DOMAIN helps : helps[j] = EraseHelp(helps, k)[i]
<1> DEFINE ok == {i \in DOMAIN helps : helps[i][1] # k}
           p == Picked(helps, ok)
<1>0. EraseHelp(helps, k) = p BY DEF EraseHelp
<1> HIDE DEF p
<1>1. /\ p \in Seq(Keys \X Threads)
      /\ \E h \in [1 .. Len(p) -> {i \in 1 .. Len(helps) : i \in ok}] :
           /\ \A i \in 1 .. Len(p) : p[i] = helps[h[i]]
           /\ \A i, j \in 1 .. Len(p) : i < j => h[i] < h[j]
  <2> HIDE DEF ok
  <2> QED BY PickedFrom DEF p
<1>2. PICK h \in [1 .. Len(p) -> {i \in 1 .. Len(helps) : i \in ok}] :
        \A i \in 1 .. Len(p) : p[i] = helps[h[i]]
  BY <1>1
<1>3. DOMAIN p = 1 .. Len(p) BY <1>1
<1>4. \A i \in DOMAIN p : h[i] \in DOMAIN helps /\ helps[h[i]][1] # k /\ p[i] = helps[h[i]]
  BY <1>2, <1>3
<1>5. \A i \in DOMAIN p : p[i][1] # k /\ \E j \in DOMAIN helps : helps[j] = p[i]
  BY <1>4
<1> QED BY <1>0, <1>1, <1>5

\* Nor are there two entries of a key that had not two.
LEMMA ErasedOnce ==
  ASSUME NEW helps \in Seq(Keys \X Threads), NEW k, NEW x,
         \A i, j \in DOMAIN helps : helps[i][1] = x /\ helps[j][1] = x => i = j,
         NEW i \in DOMAIN EraseHelp(helps, k), NEW j \in DOMAIN EraseHelp(helps, k),
         EraseHelp(helps, k)[i][1] = x, EraseHelp(helps, k)[j][1] = x
  PROVE  i = j
<1> DEFINE ok == {n \in DOMAIN helps : helps[n][1] # k}
           p == Picked(helps, ok)
<1>0. EraseHelp(helps, k) = p BY DEF EraseHelp
<1> HIDE DEF p
<1>1. /\ p \in Seq(Keys \X Threads)
      /\ \E h \in [1 .. Len(p) -> {n \in 1 .. Len(helps) : n \in ok}] :
           /\ \A n \in 1 .. Len(p) : p[n] = helps[h[n]]
           /\ \A n, m \in 1 .. Len(p) : n < m => h[n] < h[m]
  <2> HIDE DEF ok
  <2> QED BY PickedFrom DEF p
<1>2. PICK h \in [1 .. Len(p) -> {n \in 1 .. Len(helps) : n \in ok}] :
           /\ \A n \in 1 .. Len(p) : p[n] = helps[h[n]]
           /\ \A n, m \in 1 .. Len(p) : n < m => h[n] < h[m]
  BY <1>1
<1>3. i \in 1 .. Len(p) /\ j \in 1 .. Len(p) BY <1>0, <1>1
<1>4. h[i] \in DOMAIN helps /\ h[j] \in DOMAIN helps /\ h[i] \in Int BY <1>2, <1>3
<1>5. helps[h[i]][1] = x /\ helps[h[j]][1] = x BY <1>0, <1>2, <1>3
<1>6. h[i] = h[j] BY <1>4, <1>5
<1>7. ~(i < j) /\ ~(j < i) BY <1>2, <1>3, <1>4, <1>6
<1> QED BY <1>3, <1>7

\* Initially there are the command line's arguments and no help texts.
LEMMA EnvStart == Init => HelpInv
<1> SUFFICES ASSUME Init PROVE HelpInv OBVIOUS
<1>1. init(Argv).args \in Maps
  <2>1. Argv \in Seq(Args) BY DEF Args
  <2>2. ArgStates(Argv)[Len(Argv)] \in States BY <2>1, ArgLoop
  <2>3. ArgStates(Argv)[Len(Argv)].args \in Maps BY <2>2 DEF States
  <2>4. Flush(ArgStates(Argv)[Len(Argv)]) \in Maps BY <2>2, FlushType
  <2> QED BY <2>3, <2>4, InitLast
<1>2. PICK D \in SUBSET Keys : m_args \in [D -> Texts] BY <1>1 DEF Maps, Init
<1>3. TypeOK
  <2>1. DOMAIN m_args \subseteq Keys /\ \A k \in DOMAIN m_args : m_args[k] \in Threads \cup Values \cup {NoText}
    BY <1>2 DEF Texts
  <2>2. call \in [Threads -> Calls] BY DEF Init, Calls
  <2> QED BY <2>1, <2>2 DEF Init, TypeOK
<1>4. ASSUME NEW k \in Keys PROVE Entries(k) = {} /\ Adding(k) = {}
  BY DEF Entries, Adding, Init, NoCall
<1>5. ASSUME NEW t \in Threads, NEW k \in Keys PROVE call[t] # [op |-> "pushHelp", key |-> k]
  BY DEF Init, NoCall
<1> QED BY <1>3, <1>4, <1>5 DEF HelpInv

\* A call that begins keeps the invariant: one of addHelp that meets another takes its key from those
\* of which the invariant speaks.
LEMMA CallStep ==
  ASSUME NEW t \in Threads, HelpInv, Call(t)
  PROVE  HelpInv'
<1>1. PICK op \in Methods, k \in Keys :
        /\ call' = [call EXCEPT ![t] = [op |-> op, key |-> k]]
        /\ met' = IF op = "addHelp" /\ Adding(k) # {} THEN met \cup {k} ELSE met
  BY DEF Call
<1>2. /\ TypeOK /\ calls < MaxCalls /\ calls' = calls + 1 /\ call[t] = NoCall
      /\ UNCHANGED <<m_args, m_helps>>
  BY DEF HelpInv, Call, InCallback
<1>3. TypeOK'
  <2>1. [op |-> op, key |-> k] \in Calls BY DEF Calls
  <2>2. call' \in [Threads -> Calls] BY <1>1, <1>2, <2>1 DEF TypeOK
  <2>3. calls' \in 0 .. MaxCalls BY <1>2 DEF TypeOK
  <2>4. met' \subseteq Keys BY <1>1, <1>2 DEF TypeOK
  <2> QED BY <1>2, <2>2, <2>3, <2>4 DEF TypeOK
<1>4. call'[t] = [op |-> op, key |-> k] /\ \A u \in Threads \ {t} : call'[u] = call[u]
  BY <1>1, <1>2 DEF TypeOK
<1>5. op # "pushHelp" /\ call'[t].op = op /\ call'[t].key = k BY <1>4 DEF Methods
<1>6. ASSUME NEW x \in Keys \ met'
      PROVE  /\ \A u, v \in Adding(x)' : u = v
             /\ \A u \in Threads : call'[u] = [op |-> "pushHelp", key |-> x] => Entries(x)' = {}
             /\ \A i, j \in Entries(x)' : i = j
  <2>1. x \in Keys \ met BY <1>1
  <2>2. Entries(x)' = Entries(x) BY <1>2 DEF Entries
  <2>3. \A u, v \in Adding(x)' : u = v
    <3>1. CASE op = "addHelp" /\ x = k
      <4>1. Adding(x) = {} BY <1>1, <3>1
      <4>2. Adding(x)' \subseteq {t} BY <1>4, <4>1 DEF Adding
      <4> QED BY <4>2
    <3>2. CASE ~(op = "addHelp" /\ x = k)
      <4>1. Adding(x)' \subseteq Adding(x) BY <1>4, <1>5, <3>2 DEF Adding
      <4> QED BY <2>1, <4>1 DEF HelpInv
    <3> QED BY <3>1, <3>2
  <2>4. ASSUME NEW u \in Threads, call'[u] = [op |-> "pushHelp", key |-> x] PROVE Entries(x)' = {}
    <3>1. call'[u].op = "pushHelp" BY <2>4
    <3>2. u # t BY <1>5, <3>1
    <3> QED BY <1>4, <2>1, <2>2, <2>4, <3>2 DEF HelpInv
  <2>5. \A i, j \in Entries(x)' : i = j BY <2>1, <2>2 DEF HelpInv
  <2> QED BY <2>3, <2>4, <2>5
<1> QED BY <1>3, <1>6 DEF HelpInv

\* What a method does keeps the types.
LEMMA LeaveType ==
  ASSUME NEW t \in Threads, TypeOK, Leave(t)
  PROVE  TypeOK'
<1>1. call[t] \in Calls /\ call[t] # NoCall BY DEF TypeOK, Leave
<1>2. call[t].op \in Methods \cup {"pushHelp"} /\ call[t].key \in Keys BY <1>1 DEF Calls
<1>3. DOMAIN m_args' \subseteq Keys /\ \A k \in DOMAIN m_args' : m_args'[k] \in Threads \cup Values \cup {NoText}
  <2>0. m_args' = CASE call[t].op = "add" -> Put(m_args, call[t].key, t)
                    [] call[t].op = "del" -> [x \in DOMAIN m_args \ {call[t].key} |-> m_args[x]]
                    [] OTHER      -> m_args
    BY DEF Leave
  <2>1. CASE call[t].op = "add" BY <1>2, <2>0, <2>1 DEF TypeOK, Put
  <2>2. CASE call[t].op = "del" BY <1>2, <2>0, <2>2 DEF TypeOK
  <2>3. CASE call[t].op \notin {"add", "del"} BY <2>0, <2>3 DEF TypeOK
  <2> QED BY <2>1, <2>2, <2>3
<1>4. m_helps' \in Seq(Keys \X Threads)
  <2>0. m_helps \in Seq(Keys \X Threads) BY DEF TypeOK
  <2>1. CASE call[t].op \in {"addHelp", "removeHelp"}
    <3>1. m_helps' = EraseHelp(m_helps, call[t].key) BY <2>1 DEF Leave
    <3> QED BY <2>0, <3>1, Erased
  <2>2. CASE call[t].op = "pushHelp"
    <3>1. m_helps' = Append(m_helps, <<call[t].key, t>>) BY <2>2 DEF Leave
    <3>2. <<call[t].key, t>> \in Keys \X Threads BY <1>2
    <3> QED BY <2>0, <3>1, <3>2
  <2>3. CASE call[t].op \notin {"addHelp", "removeHelp", "pushHelp"}
    <3>1. m_helps' = m_helps BY <2>3 DEF Leave
    <3> QED BY <2>0, <3>1
  <2> QED BY <2>1, <2>2, <2>3
<1>5. call' \in [Threads -> Calls]
  <2>1. (IF call[t].op = "addHelp" THEN [op |-> "pushHelp", key |-> call[t].key] ELSE NoCall) \in Calls
    BY <1>2 DEF Calls
  <2> QED BY <2>1 DEF TypeOK, Leave
<1>6. calls' \in 0 .. MaxCalls /\ met' \subseteq Keys BY DEF TypeOK, Leave
<1> QED BY <1>3, <1>4, <1>5, <1>6 DEF TypeOK

\* What a method does keeps the invariant (env.cpp:78-119).
LEMMA LeaveStep ==
  ASSUME NEW t \in Threads, HelpInv, Leave(t)
  PROVE  HelpInv'
<1> DEFINE op == call[t].op
           k == call[t].key
<1>1. TypeOK /\ TypeOK' BY LeaveType DEF HelpInv
<1>2. call[t] \in Calls /\ call[t] # NoCall BY <1>1 DEF TypeOK, Leave
<1>3. op \in Methods \cup {"pushHelp"} /\ k \in Keys /\ call[t] = [op |-> op, key |-> k] BY <1>2 DEF Calls
<1>4. /\ call'[t] = IF op = "addHelp" THEN [op |-> "pushHelp", key |-> k] ELSE NoCall
      /\ \A u \in Threads \ {t} : call'[u] = call[u]
  BY <1>1 DEF TypeOK, Leave
<1>5. /\ m_helps' = CASE op \in {"addHelp", "removeHelp"} -> EraseHelp(m_helps, k)
                      [] op = "pushHelp" -> Append(m_helps, <<k, t>>)
                      [] OTHER           -> m_helps
      /\ met' = IF op \in {"addHelp", "removeHelp"} /\ Adding(k) \subseteq {t} THEN met \ {k} ELSE met
  BY DEF Leave
<1>6. m_helps \in Seq(Keys \X Threads) /\ DOMAIN m_helps = 1 .. Len(m_helps) BY <1>1 DEF TypeOK
<1> HIDE DEF op, k
<1>7. ASSUME NEW x \in Keys PROVE Adding(x)' \subseteq Adding(x)
  <2>1. ASSUME NEW u \in Adding(x)' PROVE u \in Adding(x)
    <3>1. CASE u # t BY <1>4, <2>1, <3>1 DEF Adding
    <3>2. CASE u = t
      <4>1. call'[t].op \in {"addHelp", "pushHelp"} /\ call'[t].key = x BY <2>1, <3>2 DEF Adding
      <4>2. op = "addHelp" /\ k = x BY <1>4, <4>1 DEF NoCall
      <4> QED BY <3>2, <4>2 DEF Adding, op, k
    <3> QED BY <3>1, <3>2
  <2> QED BY <2>1
<1>8. ASSUME NEW x \in Keys \ met'
      PROVE  /\ \A u, v \in Adding(x)' : u = v
             /\ \A u \in Threads : call'[u] = [op |-> "pushHelp", key |-> x] => Entries(x)' = {}
             /\ \A i, j \in Entries(x)' : i = j
  <2>1. CASE op \in {"addHelp", "removeHelp"} /\ x = k
    <3>1. m_helps' = EraseHelp(m_helps, x) BY <1>5, <2>1
    <3>2. Entries(x)' = {} BY <1>6, <3>1, Erased DEF Entries
    <3>3. \A u, v \in Adding(x) : u = v
      <4>1. CASE x \in met
        <5>1. Adding(x) \subseteq {t} BY <1>5, <2>1, <4>1
        <5> QED BY <5>1
      <4>2. CASE x \notin met BY <4>2 DEF HelpInv
      <4> QED BY <4>1, <4>2
    <3> QED BY <1>7, <3>2, <3>3
  <2>2. CASE ~(op \in {"addHelp", "removeHelp"} /\ x = k)
    <3>1. x \in Keys \ met BY <1>5, <2>2
    <3>2. /\ \A u, v \in Adding(x) : u = v
          /\ \A u \in Threads : call[u] = [op |-> "pushHelp", key |-> x] => Entries(x) = {}
          /\ \A i, j \in Entries(x) : i = j
      BY <3>1 DEF HelpInv
    <3>3. \A u, v \in Adding(x)' : u = v BY <1>7, <3>2
    <3>4. CASE op = "pushHelp" /\ x = k
      <4>1. Entries(x) = {} BY <1>3, <3>2, <3>4
      <4>2. m_helps' = Append(m_helps, <<x, t>>) BY <1>5, <3>4
      <4>3. Entries(x)' \subseteq {Len(m_helps) + 1}
        <5>1. ASSUME NEW i \in DOMAIN m_helps', i # Len(m_helps) + 1, m_helps'[i][1] = x PROVE FALSE
          <6>1. i \in DOMAIN m_helps /\ m_helps'[i] = m_helps[i] BY <1>6, <4>2, <5>1
          <6> QED BY <4>1, <5>1, <6>1 DEF Entries
        <5> QED BY <5>1 DEF Entries
      <4>4. t \in Adding(x) BY <3>4, <1>3 DEF Adding, op, k
      <4>5. ASSUME NEW u \in Threads, call'[u] = [op |-> "pushHelp", key |-> x] PROVE FALSE
        <5>1. u \in Adding(x)' BY <4>5 DEF Adding
        <5>2. u = t BY <1>7, <3>2, <4>4, <5>1
        <5>3. call'[t] = NoCall BY <1>4, <3>4
        <5>4. call'[u].op = "pushHelp" BY <4>5
        <5> QED BY <5>2, <5>3, <5>4 DEF NoCall
      <4> QED BY <3>3, <4>3, <4>5
    <3>5. CASE ~(op = "pushHelp" /\ x = k)
      <4>1. /\ Entries(x)' # {} => Entries(x) # {}
            /\ \A i, j \in Entries(x)' : i = j
        <5>1. CASE op \in {"addHelp", "removeHelp"}
          <6>1. m_helps' = EraseHelp(m_helps, k) BY <1>5, <5>1
          <6>2. ASSUME NEW i \in Entries(x)' PROVE Entries(x) # {}
            <7>1. i \in DOMAIN EraseHelp(m_helps, k) /\ EraseHelp(m_helps, k)[i][1] = x
              BY <6>1 DEF Entries
            <7>2. \A n \in DOMAIN EraseHelp(m_helps, k) :
                    \E j \in DOMAIN m_helps : m_helps[j] = EraseHelp(m_helps, k)[n]
              <8>1. m_helps \in Seq(Keys \X Threads) BY <1>6
              <8>2. \A y : \A n \in DOMAIN EraseHelp(m_helps, y) :
                    \E j \in DOMAIN m_helps : m_helps[j] = EraseHelp(m_helps, y)[n]
                BY <8>1, Erased
              <8> QED BY <8>2
            <7>3. PICK j \in DOMAIN m_helps : m_helps[j] = EraseHelp(m_helps, k)[i] BY <7>1, <7>2
            <7> QED BY <7>1, <7>3 DEF Entries
          <6>3. Entries(x)' # {} => Entries(x) # {} BY <6>2
          <6>4. \A i, j \in DOMAIN m_helps : m_helps[i][1] = x /\ m_helps[j][1] = x => i = j
            BY <3>2 DEF Entries
          <6>5. \A i, j \in DOMAIN EraseHelp(m_helps, k) :
                  EraseHelp(m_helps, k)[i][1] = x /\ EraseHelp(m_helps, k)[j][1] = x => i = j
            BY <1>6, <6>4, ErasedOnce
          <6>6. \A i, j \in Entries(x)' : i = j BY <6>1, <6>5 DEF Entries
          <6> QED BY <6>3, <6>6
        <5>2. CASE op = "pushHelp"
          <6>1. m_helps' = Append(m_helps, <<k, t>>) /\ x # k BY <1>5, <3>5, <5>2
          <6>2. Entries(x)' \subseteq Entries(x)
            <7>1. ASSUME NEW i \in DOMAIN m_helps', m_helps'[i][1] = x
                  PROVE  i \in DOMAIN m_helps /\ m_helps[i][1] = x
              <8>1. i # Len(m_helps) + 1
                <9>1. m_helps'[Len(m_helps) + 1] = <<k, t>> BY <1>6, <6>1
                <9> QED BY <6>1, <7>1, <9>1
              <8> QED BY <1>6, <6>1, <7>1, <8>1
            <7> QED BY <7>1 DEF Entries
          <6> QED BY <3>2, <6>2
        <5>3. CASE op \notin {"addHelp", "removeHelp", "pushHelp"}
          <6>1. m_helps' = m_helps BY <1>5, <5>3
          <6>2. Entries(x)' = Entries(x) BY <6>1 DEF Entries
          <6> QED BY <3>2, <6>2
        <5> QED BY <5>1, <5>2, <5>3
      <4>2. ASSUME NEW u \in Threads, call'[u] = [op |-> "pushHelp", key |-> x] PROVE Entries(x)' = {}
        <5>1. u # t
          <6>1. SUFFICES ASSUME u = t PROVE FALSE OBVIOUS
          <6>2. call'[t].op = "pushHelp" /\ call'[t].key = x BY <4>2, <6>1
          <6>3. op = "addHelp" /\ k = x BY <1>4, <6>2 DEF NoCall
          <6> QED BY <2>2, <6>3
        <5> QED BY <1>4, <3>2, <4>1, <4>2, <5>1
      <4> QED BY <3>3, <4>1, <4>2
    <3> QED BY <3>4, <3>5
  <2> QED BY <2>1, <2>2
<1> QED BY <1>1, <1>8 DEF HelpInv

\* Steps that leave the environment alone, but for the count of calls, keep the invariant.
LEMMA EnvAlone ==
  ASSUME HelpInv, UNCHANGED <<m_args, m_helps, call, met>>, calls' \in 0 .. MaxCalls
  PROVE  HelpInv'
  BY DEF HelpInv, TypeOK, Entries, Adding

\* HelpInv is an invariant of the program.
LEMMA HelpKept == Spec => []HelpInv
<1>1. Init => HelpInv BY EnvStart
<1>2. HelpInv /\ [Next]_vars => HelpInv'
  <2> SUFFICES ASSUME HelpInv, [Next]_vars PROVE HelpInv' OBVIOUS
  <2>0. calls \in 0 .. MaxCalls BY DEF HelpInv, TypeOK
  <2>1. CASE UNCHANGED envVars BY <2>0, <2>1, EnvAlone DEF envVars
  <2>2. CASE UNCHANGED vars BY <2>1, <2>2 DEF vars
  <2>3. ASSUME NEW t \in Threads, Owner(t) PROVE HelpInv'
    BY <2>1, <2>3 DEF Owner
  <2>4. ASSUME NEW t \in Threads, Run(t) PROVE HelpInv'
    <3>1. CASE Call(t) BY <3>1, CallStep
    <3>2. CASE Enter(t) BY <2>1, <3>2 DEF Enter
    <3>3. CASE Leave(t) BY <3>3, LeaveStep
    <3>4. CASE UseGuard(t)
      <4>1. calls' \in 0 .. MaxCalls BY <2>0, <3>4 DEF UseGuard
      <4> QED BY <3>4, <4>1, EnvAlone DEF UseGuard
    <3>5. CASE UNCHANGED envVars BY <2>1, <3>5
    <3> QED BY <2>4, <3>1, <3>2, <3>3, <3>4, <3>5 DEF Run
  <2> QED BY <2>2, <2>3, <2>4 DEF Next
<1> QED BY <1>1, <1>2, PTL DEF Spec

\* For any number of threads, keys and calls: the types, what a command line means, and one help text
\* for a key unless calls of addHelp for it overlapped (env.cpp:28-119).
THEOREM EnvHoldsAlways == Spec => []EnvHolds
<1>1. HelpInv => EnvHolds BY OneText, LinesMeanGrammar DEF HelpInv, EnvHolds
<1> QED BY <1>1, HelpKept, PTL
=============================================================================
