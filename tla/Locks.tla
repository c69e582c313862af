--------------------------------- MODULE Locks ---------------------------------
(***************************************************************************)
(* The locks of sylar/mutex.h and the guards that hold them for a scope.   *)
(* pthread's locks are external: here they are who reads and who writes.   *)
(* Mutex, Spinlock and CASLock are write locks that nobody reads.          *)
(*                                                                         *)
(* A guard is in the scope of one thread, which may unlock() and lock() it *)
(* again as often as it likes before the scope ends.                       *)
(***************************************************************************)
EXTENDS Naturals, Sequences

CONSTANTS Threads, Mutexes, None

VARIABLES
  readers, writer,  \* lock -> the threads that read, the thread that writes or None
  guard,            \* thread -> lock -> the guard in scope: "none", "read" or "write"
  m_locked          \* thread -> lock -> m_locked of that guard

lockVars == <<readers, writer, guard, m_locked>>

rdlock(t, l) == writer[l] = None /\ readers' = [readers EXCEPT ![l] = @ \cup {t}] /\ UNCHANGED writer
wrlock(t, l) == /\ writer[l] = None /\ readers[l] = {}
                /\ writer' = [writer EXCEPT ![l] = t] /\ UNCHANGED readers

\* pthread's unlock by a thread that does not hold the lock is undefined: it sets free whoever does.
unlock(t, l) ==
  /\ readers' = [readers EXCEPT ![l] = IF t \in @ THEN @ \ {t} ELSE {}]
  /\ writer'  = [writer EXCEPT ![l] = None]

Acquire(t, l, mode) == IF mode = "read" THEN rdlock(t, l) ELSE wrlock(t, l)

Flag(t, l, b) == m_locked' = [m_locked EXCEPT ![t][l] = b]

\* Mutated form of Release: m_locked is not looked at.
ReleaseAlways(t, l) == unlock(t, l) /\ Flag(t, l, FALSE)
Release(t, l) == IF m_locked[t][l] THEN unlock(t, l) /\ Flag(t, l, FALSE)
                 ELSE UNCHANGED <<readers, writer, m_locked>>

\* The constructor, lock(), unlock() and the destructor.
Construct(t, l, mode) ==
  /\ guard[t][l] = "none"
  /\ Acquire(t, l, mode) /\ Flag(t, l, TRUE)
  /\ guard' = [guard EXCEPT ![t][l] = mode]
GuardLock(t, l) ==
  /\ guard[t][l] # "none"
  /\ IF m_locked[t][l] THEN UNCHANGED <<readers, writer, m_locked>>
     ELSE Acquire(t, l, guard[t][l]) /\ Flag(t, l, TRUE)
  /\ UNCHANGED guard
GuardUnlock(t, l) == guard[t][l] # "none" /\ Release(t, l) /\ UNCHANGED guard
Destruct(t, l)    == /\ guard[t][l] # "none" /\ Release(t, l)
                     /\ guard' = [guard EXCEPT ![t][l] = "none"]

LocksInit ==
  /\ readers = [l \in Mutexes |-> {}] /\ writer = [l \in Mutexes |-> None]
  /\ guard = [t \in Threads |-> [l \in Mutexes |-> "none"]]
  /\ m_locked = [t \in Threads |-> [l \in Mutexes |-> FALSE]]

LocksTypeOK ==
  /\ readers \in [Mutexes -> SUBSET Threads] /\ writer \in [Mutexes -> Threads \cup {None}]
  /\ guard \in [Threads -> [Mutexes -> {"none", "read", "write"}]]
  /\ m_locked \in [Threads -> [Mutexes -> BOOLEAN]]
=============================================================================
