-------------------------------- MODULE Timer --------------------------------
(***************************************************************************)
(* The timers of sylar/timer.{h,cpp}: a set ordered by due time under one   *)
(* lock, timers that any thread may add, cancel, refresh or reset, and the *)
(* expired callbacks handed out by listExpiredCb.                          *)
(*                                                                         *)
(* TimerManager is an abstract class that nothing in the repository        *)
(* derives from.  Its user is modelled from what the class offers: pollers *)
(* that sleep for getNextTimer(), are woken by onTimerInsertedAtFront(),   *)
(* call listExpiredCb() and run what it gives them.  addConditionTimer is  *)
(* addTimer with a wrapped callback.                                       *)
(*                                                                         *)
(* A step is a critical section, a reading of the clock, or a callback.    *)
(***************************************************************************)
EXTENDS Integers

CONSTANTS Timers,    \* natural numbers, ordered like the addresses of the Timer objects
          Users,     \* threads that call addTimer, cancel, refresh, reset
          Pollers,   \* threads that run the timers
          Periods,   \* the values of ms
          Hour,      \* 60 * 60 * 1000 in detectClockRollover
          Start, MaxClock, \* bounds of the clock
          MaxCalls,  \* bound on the calls of the users
          MaxJumps,  \* bound: how often the clock is set back
          Earlier,   \* what it may be set back to
          Never, None

ASSUME TimerAssumption ==
  /\ Timers \subseteq Nat /\ Periods \subseteq Nat /\ Earlier \subseteq Nat
  /\ Hour \in Nat /\ Start \in Nat /\ MaxClock \in Nat
  /\ MaxCalls \in Nat /\ MaxJumps \in Nat
  /\ Never \notin Nat /\ None \notin Timers

VARIABLES
  clock, jumps,                       \* GetCurrentMS(); how often it was set back
  m_timers, m_tickled, m_previouseTime,   \* TimerManager
  made,                               \* the timers that exist
  m_next, m_ms, m_recurring, m_cb,    \* Timer; m_cb says whether there is a callback
  upc, subject, want, calls,          \* user: control, its timer and arguments, calls made
  token,                              \* the wake-up that onTimerInsertedAtFront sent
  ppc, until, now_ms,                 \* poller: control, end of its sleep, now_ms
  over, twice                         \* history: the one-shot timers handed out or cancelled,
                                      \* and those of them that were again

managerVars == <<m_timers, m_tickled, m_previouseTime>>
timerVars   == <<made, m_next, m_ms, m_recurring, m_cb>>
userVars    == <<upc, subject, want, calls>>
pollerVars  == <<ppc, until, now_ms>>
ghostVars   == <<over, twice>>
vars == <<clock, jumps, managerVars, timerVars, userVars, token, pollerVars, ghostVars>>

TypeOK ==
  /\ clock \in Nat /\ jumps \in 0 .. MaxJumps /\ token \in BOOLEAN
  /\ m_timers \subseteq Timers /\ m_tickled \in BOOLEAN /\ m_previouseTime \in Nat
  /\ made \subseteq Timers /\ m_next \in [Timers -> Nat] /\ m_ms \in [Timers -> Nat]
  /\ m_recurring \in [Timers -> BOOLEAN] /\ m_cb \in [Timers -> BOOLEAN]
  /\ upc \in [Users -> {"none", "insert", "reset", "tell"}]
  /\ subject \in [Users -> Timers \cup {None}] /\ want \in [Users -> (Periods \X BOOLEAN) \cup {None}]
  /\ calls \in 0 .. MaxCalls
  /\ ppc \in [Pollers -> {"awake", "asleep", "list"}]
  /\ until \in [Pollers -> Nat \cup {Never}]
  /\ now_ms \in [Pollers -> Nat]
  /\ twice \subseteq over /\ over \subseteq made

Init ==
  /\ clock = Start /\ jumps = 0 /\ token = FALSE
  /\ m_timers = {} /\ m_tickled = FALSE /\ m_previouseTime = Start
  /\ made = {} /\ m_next = [t \in Timers |-> 0] /\ m_ms = [t \in Timers |-> 0]
  /\ m_recurring = [t \in Timers |-> FALSE] /\ m_cb = [t \in Timers |-> FALSE]
  /\ upc = [u \in Users |-> "none"] /\ subject = [u \in Users |-> None]
  /\ want = [u \in Users |-> None] /\ calls = 0
  /\ ppc = [q \in Pollers |-> "awake"] /\ until = [q \in Pollers |-> Never]
  /\ now_ms = [q \in Pollers |-> 0]
  /\ over = {} /\ twice = {}

-----------------------------------------------------------------------------
(* The users.  A Timer::ptr is theirs once addTimer has returned it. *)

\* The addTimer that made it has returned.
Known(t) == t \in made /\ \A u \in Users : upc[u] \in {"insert", "tell"} => subject[u] # t

\* History: T are handed out or cancelled.
End(T) == LET once == {t \in T : ~m_recurring[t]} IN
          over' = over \cup once /\ twice' = twice \cup (over \cap once)

Idle(u) == upc[u] = "none" /\ calls < MaxCalls
Calling(u, here, t, args) == /\ upc' = [upc EXCEPT ![u] = here]
                           /\ subject' = [subject EXCEPT ![u] = t]
                           /\ want' = [want EXCEPT ![u] = args]

\* The constructor reads the clock before addTimer takes the lock.
Create(u, t, ms, recurring) ==
  /\ Idle(u) /\ t \notin made
  /\ made' = made \cup {t}
  /\ m_next' = [m_next EXCEPT ![t] = clock + ms]
  /\ m_ms' = [m_ms EXCEPT ![t] = ms]
  /\ m_recurring' = [m_recurring EXCEPT ![t] = recurring]
  /\ m_cb' = [m_cb EXCEPT ![t] = TRUE]
  /\ Calling(u, "insert", t, None) /\ calls' = calls + 1
  /\ UNCHANGED <<clock, jumps, managerVars, token, pollerVars, ghostVars>>

\* Comparator: by due time, then by address.
First(t, due) == \A s \in m_timers \ {t} : due < m_next[s] \/ (due = m_next[s] /\ t < s)

\* Mutated form of AtFront: only a timer that is alone counts as the first.
AtFrontAlone(t, due) == m_timers \ {t} = {} /\ ~m_tickled
AtFront(t, due) == First(t, due) /\ ~m_tickled

\* addTimer(val, lock): insert, unlock, and go on to onTimerInsertedAtFront() if the timer
\* came first and nobody was told since getNextTimer(); its caller may hold on to it.
InsertAndUnlock(u, t, due, held) ==
  /\ m_timers' = m_timers \cup {t}
  /\ m_tickled' = (m_tickled \/ AtFront(t, due))
  /\ Calling(u, IF AtFront(t, due) THEN "tell" ELSE "none",
                IF AtFront(t, due) THEN held ELSE None, None)
  /\ UNCHANGED m_previouseTime

Insert(u) ==
  /\ upc[u] = "insert"
  /\ InsertAndUnlock(u, subject[u], m_next[subject[u]], subject[u])
  /\ UNCHANGED <<clock, jumps, timerVars, calls, token, pollerVars, ghostVars>>

\* onTimerInsertedAtFront: the wake-up stays until a poller takes it.
Tell(u) ==
  /\ upc[u] = "tell"
  /\ token' = TRUE
  /\ Calling(u, "none", None, None)
  /\ UNCHANGED <<clock, jumps, managerVars, timerVars, calls, pollerVars, ghostVars>>

\* cancel() erases what find() returns: a timer with a callback must be in the set.
Cancel(u, t) ==
  /\ Idle(u) /\ Known(t) /\ m_cb[t]
  /\ m_cb' = [m_cb EXCEPT ![t] = FALSE]
  /\ m_timers' = m_timers \ {t}
  /\ End({t})
  /\ calls' = calls + 1
  /\ UNCHANGED <<clock, jumps, m_tickled, m_previouseTime, made, m_next, m_ms, m_recurring, upc,
                 subject, want, token, pollerVars>>

\* refresh() tells nobody: the timer moves back in the order.
Refresh(u, t) ==
  /\ Idle(u) /\ Known(t) /\ m_cb[t] /\ t \in m_timers
  /\ m_next' = [m_next EXCEPT ![t] = clock + m_ms[t]]
  /\ calls' = calls + 1
  /\ UNCHANGED <<clock, jumps, managerVars, made, m_ms, m_recurring, m_cb, upc, subject, want, token,
                 pollerVars, ghostVars>>

\* reset() compares m_ms before it takes the lock, and has nothing to do when it is the same.
ResetBegin(u, t, ms, fromNow) ==
  /\ Idle(u) /\ Known(t)
  /\ fromNow \/ ms # m_ms[t]
  /\ Calling(u, "reset", t, <<ms, fromNow>>) /\ calls' = calls + 1
  /\ UNCHANGED <<clock, jumps, managerVars, timerVars, token, pollerVars, ghostVars>>

\* Mutated form of LastStart: the operands are swapped.
LastStartSwapped(t) == m_ms[t] - m_next[t]
LastStart(t) == m_next[t] - m_ms[t]

Reset(u) ==
  LET t     == subject[u]
      ms    == want[u][1]
      start == IF want[u][2] THEN clock ELSE LastStart(t)
  IN
  /\ upc[u] = "reset"
  /\ IF m_cb[t] /\ t \in m_timers
     THEN /\ m_ms' = [m_ms EXCEPT ![t] = ms]
          /\ m_next' = [m_next EXCEPT ![t] = start + ms]
          /\ InsertAndUnlock(u, t, start + ms, None)
     ELSE Calling(u, "none", None, None) /\ UNCHANGED <<managerVars, m_ms, m_next>>
  /\ UNCHANGED <<clock, jumps, made, m_recurring, m_cb, calls, token, pollerVars, ghostVars>>

-----------------------------------------------------------------------------
(* The pollers. *)

\* The time left, as the moment it is over.
Earliest == CHOOSE n \in {m_next[t] : t \in m_timers} :
              \A t \in m_timers : n <= m_next[t]
SleepEnd == IF m_timers = {} THEN Never ELSE IF clock >= Earliest THEN clock ELSE Earliest

Untickled == FALSE

\* getNextTimer, under the read lock, and the sleep.
GetNextTimer(q) ==
  /\ ppc[q] = "awake"
  /\ m_tickled' = Untickled
  /\ until' = [until EXCEPT ![q] = SleepEnd]
  /\ ppc' = [ppc EXCEPT ![q] = "asleep"]
  /\ UNCHANGED <<clock, jumps, m_timers, m_previouseTime, timerVars, userVars, token, now_ms,
                 ghostVars>>

\* The sleep ends; listExpiredCb reads the clock before it takes the lock.
Wake(q) ==
  /\ ppc[q] = "asleep"
  /\ \/ until[q] # Never /\ until[q] <= clock /\ UNCHANGED token
     \/ token /\ token' = FALSE
  /\ now_ms' = [now_ms EXCEPT ![q] = clock]
  /\ until' = [until EXCEPT ![q] = Never]
  /\ ppc' = [ppc EXCEPT ![q] = "list"]
  /\ UNCHANGED <<clock, jumps, managerVars, timerVars, userVars, ghostVars>>

\* detectClockRollover; the difference is unsigned and wraps below Hour.
Rollover(now) == /\ now < m_previouseTime
                 /\ m_previouseTime >= Hour => now < m_previouseTime - Hour

Expired(now) == {t \in m_timers : Rollover(now) \/ m_next[t] <= now}
\* Mutated form of Over: the callback of a one-shot timer is not cleared.
OverNot(t, now) == m_cb[t]
Over(t, now) == m_cb[t] /\ (t \in Expired(now) => m_recurring[t])
\* Mutated form of Remaining: what is handed out is not erased.
RemainingAll(now) == m_timers
Remaining(now) == {t \in m_timers : t \in Expired(now) => m_recurring[t]}

\* What is handed out, the poller runs before it goes on; the callbacks are not modelled.
ListExpiredCb(q) ==
  LET now == now_ms[q] IN
  /\ ppc[q] = "list"
  /\ ppc' = [ppc EXCEPT ![q] = "awake"]
  /\ now_ms' = [now_ms EXCEPT ![q] = 0]
  /\ IF m_timers = {}
     THEN UNCHANGED <<managerVars, m_next, m_cb, ghostVars>>
     ELSE /\ m_previouseTime' = now
          /\ End(Expired(now))
          /\ m_timers' = Remaining(now)
          /\ m_next' = [t \in Timers |-> IF t \in Expired(now) /\ m_recurring[t]
                                         THEN now + m_ms[t] ELSE m_next[t]]
          /\ m_cb' = [t \in Timers |-> Over(t, now)]
          /\ UNCHANGED m_tickled
  /\ UNCHANGED <<clock, jumps, made, m_ms, m_recurring, userVars, token, until>>

-----------------------------------------------------------------------------
(* The clock of GetCurrentMS() is that of the wall: it can be set back.  What is left of a *)
(* sleep does not change with it. *)

Tick == /\ clock < MaxClock
        /\ clock' = clock + 1
        /\ UNCHANGED <<jumps, managerVars, timerVars, userVars, token, pollerVars, ghostVars>>

SetBack(now) ==
  /\ jumps < MaxJumps /\ now < clock
  /\ jumps' = jumps + 1 /\ clock' = now
  /\ until' = [q \in Pollers |-> IF until[q] = Never THEN Never
                                 ELSE IF until[q] <= clock THEN now
                                 ELSE until[q] - (clock - now)]
  /\ UNCHANGED <<managerVars, timerVars, userVars, token, ppc, now_ms, ghostVars>>

UserNext(u) ==
  \/ \E t \in Timers, ms \in Periods, again \in BOOLEAN : Create(u, t, ms, again)
  \/ Insert(u) \/ Tell(u) \/ Reset(u)
  \/ \E t \in Timers : Cancel(u, t) \/ Refresh(u, t)
  \/ \E t \in Timers, ms \in Periods, fromNow \in BOOLEAN : ResetBegin(u, t, ms, fromNow)

PollerNext(q) == GetNextTimer(q) \/ Wake(q) \/ ListExpiredCb(q)

Next == \/ \E u \in Users : UserNext(u)
        \/ \E q \in Pollers : PollerNext(q)
        \/ Tick
        \/ \E now \in Earlier : SetBack(now)

Spec == Init /\ [][Next]_vars

-----------------------------------------------------------------------------
(* Properties. *)

\* A timer that a caller can reach has a callback exactly while it is in the set: cancel()
\* (timer.cpp:42-45) erases what find() returned without comparing it with end(), which is
\* undefined behaviour for a timer that still has its callback but is not in the set.
QueuedIffCallback == \A t \in Timers : Known(t) => (m_cb[t] <=> t \in m_timers)

\* The callback of a one-shot timer is handed out at most once, and never if cancel() returned
\* true, whatever the order of pollers, cancel, refresh and reset, and also when the clock is set
\* back (timer.cpp:159-171 against 42-46).
OneShotOnce == twice = {}

\* While the clock only goes forward, pollers that all sleep with no wake-up sent or due have one
\* among them that wakes no later than the first timer is due: m_tickled (timer.cpp:122, 176-184)
\* suppresses no wake-up that is needed.  refresh(), which wakes nobody, is safe for this reason.
NoOversleep ==
  jumps = 0 /\ ~token /\ m_timers # {} /\ (\A u \in Users : upc[u] # "tell")
    /\ (\A q \in Pollers : ppc[q] = "asleep")
  => \E q \in Pollers : until[q] # Never /\ \A t \in m_timers : until[q] <= m_next[t] \/ until[q] <= clock
=============================================================================
