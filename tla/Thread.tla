-------------------------------- MODULE Thread --------------------------------
(***************************************************************************)
(* Thread objects (sylar/thread.cpp) and the pthreads behind them. An      *)
(* owner constructs an object, which waits until the new thread has what   *)
(* it needs of it, and later joins it, destroys it, or both. The threads   *)
(* of the scheduler (scheduler.cpp:8-16, 109-116, 151-214) repeat the same *)
(* steps in classes of their own.                                          *)
(***************************************************************************)
EXTENDS Locks

CONSTANTS MaxSignals  \* bound: signals that interrupt sem_wait

VARIABLES
  object,       \* "none", "constructing", "alive", "dead"
  m_thread,     \* whether m_thread names a pthread
  m_semaphore,
  m_id, m_cb,   \* whether m_id is set, whether m_cb holds the callback
  pc,           \* of the pthread: "none", a step of RunOrder, "over"
  signals,
  reaped,       \* history: how often the pthread was joined or detached
  thrown        \* history: objects whose constructor was left by an exception

threadVars == <<object, m_thread, m_semaphore, m_id, m_cb, pc, signals, reaped, thrown>>

\* Mutated form of RunOrder: the owner is woken first.
RunOrderNotifyFirst == <<"notify", "init", "cb", "over">>
\* What run() does, in order.
RunOrder == <<"init", "notify", "cb", "over">>
After(step) == RunOrder[1 + CHOOSE i \in DOMAIN RunOrder : RunOrder[i] = step]

Goes(t, from) == pc[t] = from /\ pc' = [pc EXCEPT ![t] = After(from)]

-----------------------------------------------------------------------------
(* run(). *)

\* The thread reads m_name, sets this_thread and m_id, and takes the callback out of m_cb.
RunInit(t) ==
  /\ Goes(t, "init")
  /\ m_id' = [m_id EXCEPT ![t] = TRUE] /\ m_cb' = [m_cb EXCEPT ![t] = FALSE]
  /\ UNCHANGED <<object, m_thread, m_semaphore, signals, reaped, thrown>>

RunNotify(t) ==
  /\ Goes(t, "notify")
  /\ m_semaphore' = [m_semaphore EXCEPT ![t] = @ + 1]
  /\ UNCHANGED <<object, m_thread, m_id, m_cb, signals, reaped, thrown>>

\* The callback returns.
RunEnd(t) ==
  /\ Goes(t, "cb")
  /\ UNCHANGED <<object, m_thread, m_semaphore, m_id, m_cb, signals, reaped, thrown>>

-----------------------------------------------------------------------------
(* The owner. *)

Busy == \E t \in Threads : object[t] = "constructing"

Create(t) ==
  /\ object[t] = "none" /\ ~Busy
  /\ object' = [object EXCEPT ![t] = "constructing"]
  /\ m_cb' = [m_cb EXCEPT ![t] = TRUE] /\ m_thread' = [m_thread EXCEPT ![t] = TRUE]
  /\ pc' = [pc EXCEPT ![t] = RunOrder[1]]
  /\ UNCHANGED <<m_semaphore, m_id, signals, reaped, thrown>>

Constructed(t) ==
  /\ object[t] = "constructing" /\ m_semaphore[t] > 0
  /\ m_semaphore' = [m_semaphore EXCEPT ![t] = @ - 1]
  /\ object' = [object EXCEPT ![t] = "alive"]
  /\ UNCHANGED <<m_thread, m_id, m_cb, pc, signals, reaped, thrown>>

\* sem_wait returns EINTR and Semaphore::wait throws: there is no object, the thread goes on.
Interrupted(t) ==
  /\ object[t] = "constructing" /\ signals < MaxSignals
  /\ signals' = signals + 1 /\ thrown' = thrown \cup {t}
  /\ object' = [object EXCEPT ![t] = "dead"]
  /\ UNCHANGED <<m_thread, m_semaphore, m_id, m_cb, pc, reaped>>

AfterJoin(b) == FALSE

Join(t) ==
  /\ object[t] = "alive" /\ ~Busy
  /\ m_thread[t] /\ pc[t] = "over"
  /\ m_thread' = [m_thread EXCEPT ![t] = AfterJoin(@)]
  /\ reaped' = [reaped EXCEPT ![t] = @ + 1]
  /\ UNCHANGED <<object, m_semaphore, m_id, m_cb, pc, signals, thrown>>

\* ~Thread: a thread that was not joined is detached.
Destroy(t) ==
  /\ object[t] = "alive" /\ ~Busy
  /\ object' = [object EXCEPT ![t] = "dead"]
  /\ reaped' = [reaped EXCEPT ![t] = IF m_thread[t] THEN @ + 1 ELSE @]
  /\ UNCHANGED <<m_thread, m_semaphore, m_id, m_cb, pc, signals, thrown>>

ThreadInit ==
  /\ object = [t \in Threads |-> "none"] /\ m_thread = [t \in Threads |-> FALSE]
  /\ m_semaphore = [t \in Threads |-> 0]
  /\ m_id = [t \in Threads |-> FALSE] /\ m_cb = [t \in Threads |-> FALSE]
  /\ pc = [t \in Threads |-> "none"] /\ signals = 0
  /\ reaped = [t \in Threads |-> 0] /\ thrown = {}

ThreadTypeOK ==
  /\ object \in [Threads -> {"none", "constructing", "alive", "dead"}]
  /\ m_thread \in [Threads -> BOOLEAN] /\ m_semaphore \in [Threads -> 0 .. 1]
  /\ m_id \in [Threads -> BOOLEAN] /\ m_cb \in [Threads -> BOOLEAN]
  /\ pc \in [Threads -> {"none", "init", "notify", "cb", "over"}]
  /\ signals \in 0 .. MaxSignals /\ reaped \in [Threads -> Nat] /\ thrown \subseteq Threads

-----------------------------------------------------------------------------
(* Properties. *)

\* The new thread uses the object only while there is one, and an object whose constructor returned
\* has its id and no longer its callback, so that its owner may destroy it at once (thread.cpp:41
\* against thread.cpp:88-97). Not so when a signal interrupts sem_wait (mutex.cpp:19).
StartHandshake ==
  \A t \in Threads \ thrown :
    /\ pc[t] \in {"init", "notify"} => object[t] \in {"constructing", "alive"}
    /\ object[t] = "alive" => m_id[t] /\ ~m_cb[t]

\* A pthread is joined or detached at most once, and exactly once when its object is gone
\* (thread.cpp:59-78).
ReapedOnce ==
  \A t \in Threads :
    /\ reaped[t] <= 1
    /\ object[t] = "dead" /\ t \notin thrown => reaped[t] = 1

\* What the class promises its owner, with the types: an object that was constructed may be destroyed
\* at once, and leaves no pthread behind nor reaps one twice (thread.cpp:28-90).
ThreadsHold == ThreadTypeOK /\ StartHandshake /\ ReapedOnce
=============================================================================
