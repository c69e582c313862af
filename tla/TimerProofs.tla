----------------------------- MODULE TimerProofs -----------------------------
(***************************************************************************)
(* Timer's safety properties for every set of timers, users and pollers,   *)
(* every clock and every number of calls and set-backs.                    *)
(***************************************************************************)
EXTENDS Timer, ListFacts

(***************************************************************************)
(* The earliest due time.                                                  *)
(***************************************************************************)
\* The first timer of a queue that has one is due at the least of its times.
LEMMA EarliestLemma ==
  ASSUME TypeOK, m_timers # {}
  PROVE  /\ \E t \in m_timers : Earliest = m_next[t]
         /\ \A t \in m_timers : Earliest <= m_next[t]
         /\ Earliest \in Nat
<1> DEFINE Dues == {m_next[t] : t \in m_timers}
<1>1. Dues \in SUBSET Nat /\ Dues # {}
  BY DEF TypeOK
<1>2. \E n \in Dues : \A x \in Dues : n <= x
  BY <1>1, LeastOf
<1>3. \E n \in Dues : \A t \in m_timers : n <= m_next[t]
  BY <1>2
<1>4. Earliest \in Dues /\ \A t \in m_timers : Earliest <= m_next[t]
  BY <1>3 DEF Earliest
<1> QED BY <1>1, <1>4

\* When a timer is queued, the sleep of getNextTimer ends by its time, or at once.
LEMMA SleepLemma ==
  ASSUME TypeOK
  PROVE  /\ SleepEnd \in Nat \cup {Never}
         /\ \A t \in m_timers : /\ SleepEnd \in Nat
                                /\ SleepEnd <= m_next[t] \/ SleepEnd <= clock
<1>1. CASE m_timers = {}
  BY <1>1 DEF SleepEnd
<1>2. CASE m_timers # {}
  BY <1>2, EarliestLemma DEF SleepEnd, TypeOK
<1> QED BY <1>1, <1>2

(***************************************************************************)
(* The inductive invariant.                                                *)
(***************************************************************************)
Inserting(t) == \E u \in Users : upc[u] = "insert" /\ subject[u] = t

\* A timer has its callback while it is in the set, and before it is inserted.
Queue ==
  \A t \in Timers : /\ m_cb[t] <=> t \in m_timers \/ Inserting(t)
                    /\ t \in m_timers \/ Inserting(t) => t \in made
                    /\ ~(t \in m_timers /\ Inserting(t))

\* What callers hold: each inserts a timer of its own, and resets one that is known.
Callers ==
  \A u \in Users :
    /\ upc[u] = "insert" => subject[u] \in Timers
    /\ upc[u] = "insert" => \A v \in Users : upc[v] = "insert" /\ subject[v] = subject[u] => u = v
    /\ upc[u] = "reset" => /\ subject[u] \in made /\ ~Inserting(subject[u])
                           /\ want[u] \in Periods \X BOOLEAN

\* A one-shot timer that is over has no callback.
Finished == twice = {} /\ \A t \in over : ~m_cb[t]

\* A timer started m_ms before it is due; no earlier than now, if the clock only went forward.
Times ==
  /\ \A t \in Timers : m_ms[t] <= m_next[t]
  /\ jumps = 0 => /\ \A t \in Timers : m_next[t] <= clock + m_ms[t]
                  /\ \A q \in Pollers : now_ms[q] <= clock

\* Somebody will call getNextTimer before long.
Attended == \/ token
            \/ \E u \in Users : upc[u] = "tell"
            \/ \E q \in Pollers : ppc[q] # "asleep"

\* A poller sleeps no longer than until due.
Covered(due) == \E q \in Pollers : until[q] # Never /\ (until[q] <= due \/ until[q] <= clock)

Wakeups == /\ m_tickled => Attended
           /\ jumps = 0 => \A t \in m_timers : Attended \/ Covered(m_next[t])

IInv == TypeOK /\ Queue /\ Callers /\ Finished /\ Times /\ Wakeups

\* The constructor leaves a queue with nothing in it and nobody asleep.
LEMMA InitInv == Init => IInv
<1> SUFFICES ASSUME Init PROVE IInv
  OBVIOUS
<1>1. TypeOK
  <2>1. clock \in Nat /\ jumps \in 0 .. MaxJumps /\ m_previouseTime \in Nat /\ calls \in 0 .. MaxCalls
    BY TimerAssumption DEF Init
  <2>2. /\ m_timers \subseteq Timers /\ made \subseteq Timers /\ twice \subseteq over /\ over \subseteq made
        /\ token \in BOOLEAN /\ m_tickled \in BOOLEAN
    BY DEF Init
  <2>3. /\ m_next \in [Timers -> Nat] /\ m_ms \in [Timers -> Nat]
        /\ m_recurring \in [Timers -> BOOLEAN] /\ m_cb \in [Timers -> BOOLEAN]
    BY DEF Init
  <2>4. /\ upc \in [Users -> {"none", "insert", "reset", "tell"}]
        /\ subject \in [Users -> Timers \cup {None}]
        /\ want \in [Users -> (Periods \X BOOLEAN) \cup {None}]
    BY DEF Init
  <2>5. /\ ppc \in [Pollers -> {"awake", "asleep", "list"}]
        /\ until \in [Pollers -> Nat \cup {Never}] /\ now_ms \in [Pollers -> Nat]
    BY DEF Init
  <2> QED BY <2>1, <2>2, <2>3, <2>4, <2>5 DEF TypeOK
<1>2. Queue /\ Callers /\ Finished
  BY DEF Init, Queue, Callers, Finished, Inserting
<1>3. Times
  BY TimerAssumption DEF Init, Times
<1>4. Wakeups
  BY DEF Init, Wakeups
<1> QED BY <1>1, <1>2, <1>3, <1>4 DEF IInv

-----------------------------------------------------------------------------
(* The users. *)

\* A new timer is in the hands of its caller alone, with its callback, and due one period on.
LEMMA CreateInv ==
  ASSUME IInv, NEW u \in Users, NEW t \in Timers, NEW ms \in Periods, NEW again \in BOOLEAN,
         Create(u, t, ms, again)
  PROVE  IInv'
<1> USE TimerAssumption DEF IInv, Create, Idle, Calling, managerVars, pollerVars, ghostVars
<1>1. TypeOK'
  BY DEF TypeOK
<1>2. \A s \in Timers : Inserting(s)' <=> Inserting(s) \/ s = t
  BY DEF TypeOK, Inserting
<1>3. Queue'
  BY <1>2 DEF TypeOK, Queue
<1>4. Callers'
  BY <1>2 DEF TypeOK, Callers, Queue, Inserting
<1>5. Finished'
  BY DEF TypeOK, Finished
<1>6. Times'
  BY DEF TypeOK, Times
<1>7. Attended' <=> Attended
  BY DEF TypeOK, Attended
<1>8. Wakeups'
  BY <1>7 DEF TypeOK, Wakeups, Covered, Queue
<1> QED BY <1>1, <1>3, <1>4, <1>5, <1>6, <1>8

\* A timer that is inserted has somebody to wake up for it, or a poller that sleeps no longer.
LEMMA InsertLemma ==
  ASSUME IInv, NEW u \in Users, NEW t, NEW due \in Nat, NEW held, upc[u] # "tell",
         InsertAndUnlock(u, t, due, held), UNCHANGED <<clock, jumps, token, ppc, until>>
  PROVE  /\ Attended => Attended'
         /\ m_tickled' => Attended'
         /\ jumps = 0 => Attended' \/ Covered(due)
<1> USE DEF IInv, TypeOK, InsertAndUnlock, Calling
<1>1. Attended => Attended'
  BY DEF Attended
<1>2. AtFront(t, due) => Attended'
  BY DEF Attended
<1>3. m_tickled => Attended'
  BY <1>1 DEF Wakeups
<1>4. CASE First(t, due)
  BY <1>1, <1>2, <1>3, <1>4 DEF AtFront
<1>5. CASE ~First(t, due)
  <2>1. PICK s \in m_timers : m_next[s] <= due
    BY <1>5 DEF First
  <2>2. Covered(m_next[s]) => Covered(due)
    BY <2>1 DEF Covered
  <2>3. jumps = 0 => Attended' \/ Covered(due)
    BY <1>1, <2>2 DEF Wakeups
  <2> QED BY <1>1, <1>2, <1>3, <2>3
<1> QED BY <1>4, <1>5

\* A timer that becomes the first leaves its caller with the duty to tell, unless one is told.
LEMMA InsertInv ==
  ASSUME IInv, NEW u \in Users, Insert(u) PROVE IInv'
<1> DEFINE t == subject[u]
<1> USE TimerAssumption DEF IInv, Insert, timerVars, pollerVars, ghostVars
<1>1. t \in Timers /\ m_next[t] \in Nat
  BY DEF Callers, TypeOK
<1>2. TypeOK'
  BY <1>1 DEF TypeOK, InsertAndUnlock, Calling
<1>3. \A s \in Timers : Inserting(s)' <=> Inserting(s) /\ s # t
  BY DEF TypeOK, Inserting, Callers, InsertAndUnlock, Calling
<1>4. Queue'
  BY <1>1, <1>3 DEF Queue, InsertAndUnlock, Inserting
<1>5. Callers'
  BY <1>3 DEF TypeOK, Callers, InsertAndUnlock, Calling
<1>6. Finished' /\ Times'
  BY DEF Finished, Times
<1>7. /\ Attended => Attended'
      /\ m_tickled' => Attended'
      /\ jumps = 0 => Attended' \/ Covered(m_next[t])
  BY <1>1, InsertLemma
<1>8. m_timers' = m_timers \cup {t}
  BY DEF InsertAndUnlock
<1>9. jumps = 0 => \A s \in m_timers : Attended' \/ Covered(m_next[s])'
  BY <1>7 DEF Wakeups, Covered
<1>10. jumps = 0 => \A s \in Timers : s = t => Attended' \/ Covered(m_next[s])'
  <2> HIDE DEF t
  <2> QED BY <1>7 DEF Covered
<1>11. Wakeups'
  <2> HIDE DEF t
  <2> QED BY <1>7, <1>8, <1>9, <1>10 DEF Wakeups, Covered
<1> QED BY <1>2, <1>4, <1>5, <1>6, <1>11

\* The caller that found its timer at the front leaves a wake-up for the pollers.
LEMMA TellInv ==
  ASSUME IInv, NEW u \in Users, Tell(u) PROVE IInv'
<1> USE TimerAssumption DEF IInv, Tell, Calling, managerVars, timerVars, pollerVars, ghostVars
<1>1. TypeOK'
  BY DEF TypeOK
<1>2. \A s \in Timers : Inserting(s)' <=> Inserting(s)
  BY DEF TypeOK, Inserting
<1>3. Queue'
  BY <1>2 DEF Queue
<1>4. Callers'
  BY <1>2 DEF TypeOK, Callers
<1>5. Finished' /\ Times'
  BY DEF Finished, Times
<1>6. Wakeups'
  BY DEF Wakeups, Attended
<1> QED BY <1>1, <1>3, <1>4, <1>5, <1>6

\* cancel() takes the timer out and its callback away in one step.
LEMMA CancelInv ==
  ASSUME IInv, NEW u \in Users, NEW t \in Timers, Cancel(u, t) PROVE IInv'
<1> USE TimerAssumption DEF IInv, Cancel, Idle, End, pollerVars
<1>1. ~Inserting(t) /\ t \in made
  BY DEF Known, Inserting
<1>2. TypeOK'
  <2>1. m_cb' \in [Timers -> BOOLEAN] /\ m_timers' \subseteq Timers /\ calls' \in 0 .. MaxCalls
    BY DEF TypeOK
  <2>3. over' \subseteq made
    BY <1>1 DEF TypeOK
  <2>2. twice' \subseteq over'
    BY DEF TypeOK
  <2> QED BY <2>1, <2>2, <2>3 DEF TypeOK
<1>3. \A s \in Timers : Inserting(s)' <=> Inserting(s)
  BY DEF Inserting
<1>4. Queue'
  BY <1>1, <1>3 DEF TypeOK, Queue
<1>5. Callers'
  BY DEF Callers, Inserting
<1>6. Finished'
  BY DEF TypeOK, Finished
<1>7. Times' /\ Wakeups'
  BY DEF Times, Wakeups, Attended, Covered
<1> QED BY <1>2, <1>4, <1>5, <1>6, <1>7

\* refresh() moves a timer back only, so the sleep that covered it still does.
LEMMA RefreshInv ==
  ASSUME IInv, NEW u \in Users, NEW t \in Timers, Refresh(u, t) PROVE IInv'
<1> USE TimerAssumption DEF IInv, Refresh, Idle, managerVars, pollerVars, ghostVars
<1>1. TypeOK'
  BY DEF TypeOK
<1>2. Queue' /\ Callers' /\ Finished'
  BY DEF Queue, Callers, Finished, Inserting
<1>3. Times'
  <2>1. \A s \in Timers : m_ms[s] <= m_next'[s]
    BY DEF TypeOK, Times
  <2>2. jumps = 0 => \A s \in Timers : m_next'[s] <= clock + m_ms[s]
    BY DEF TypeOK, Times
  <2> QED BY <2>1, <2>2 DEF Times
<1>4. jumps = 0 => \A s \in Timers : Covered(m_next[s]) => Covered(m_next[s])'
  <2> SUFFICES ASSUME jumps = 0, NEW s \in Timers, Covered(m_next[s]) PROVE Covered(m_next[s])'
    OBVIOUS
  <2>1. m_next[s] <= m_next'[s] /\ m_next[s] \in Nat /\ m_next'[s] \in Nat
    BY DEF TypeOK, Times
  <2> QED BY <2>1 DEF TypeOK, Covered
<1>5. Attended' <=> Attended
  BY DEF Attended
<1>6. Wakeups'
  BY <1>4, <1>5 DEF TypeOK, Wakeups
<1> QED BY <1>1, <1>2, <1>3, <1>6

\* reset() reads the period without the lock: it only notes what the call is about.
LEMMA ResetBeginInv ==
  ASSUME IInv, NEW u \in Users, NEW t \in Timers, NEW ms \in Periods, NEW fromNow \in BOOLEAN,
         ResetBegin(u, t, ms, fromNow)
  PROVE  IInv'
<1> USE TimerAssumption DEF IInv, ResetBegin, Idle, Calling, managerVars, timerVars, pollerVars, ghostVars
<1>1. TypeOK'
  BY DEF TypeOK
<1>2. \A s \in Timers : Inserting(s)' <=> Inserting(s)
  BY DEF TypeOK, Inserting
<1>3. ~Inserting(t) /\ t \in made
  BY DEF Known, Inserting
<1>4. Queue'
  BY <1>2 DEF Queue
<1>5. Callers'
  BY <1>2, <1>3 DEF TypeOK, Callers
<1>6. Finished' /\ Times'
  BY DEF Finished, Times
<1>7. Attended' <=> Attended
  BY DEF TypeOK, Attended
<1>8. Wakeups'
  BY <1>7 DEF Wakeups, Covered
<1> QED BY <1>1, <1>4, <1>5, <1>6, <1>8

\* A caller that returns or goes on to tell leaves what the others hold as it was.
LEMMA CallersLemma ==
  ASSUME IInv, NEW u \in Users, upc'[u] \in {"none", "tell"}, made' = made,
         \A v \in Users : v # u => upc'[v] = upc[v] /\ subject'[v] = subject[v] /\ want'[v] = want[v],
         \A s \in Timers : Inserting(s)' <=> Inserting(s)
  PROVE  Callers'
<1> SUFFICES ASSUME NEW v \in Users, v # u
             PROVE  /\ upc'[v] = "insert" => subject'[v] \in Timers
                    /\ upc'[v] = "insert" =>
                         \A w \in Users : upc'[w] = "insert" /\ subject'[w] = subject'[v] => v = w
                    /\ upc'[v] = "reset" => /\ subject'[v] \in made' /\ ~Inserting(subject[v])'
                                            /\ want'[v] \in Periods \X BOOLEAN
  BY DEF Callers, Inserting
<1>1. upc'[v] = upc[v] /\ subject'[v] = subject[v] /\ want'[v] = want[v]
  OBVIOUS
<1>2. CASE upc[v] = "insert"
  BY <1>1, <1>2 DEF IInv, Callers
<1>3. CASE upc[v] = "reset"
  <2>1. subject[v] \in made /\ ~Inserting(subject[v]) /\ want[v] \in Periods \X BOOLEAN
    BY <1>3 DEF IInv, Callers
  <2>2. subject[v] \in Timers
    BY <2>1 DEF IInv, TypeOK
  <2>3. \A w \in Users : ~(upc'[w] = "insert" /\ subject'[w] = subject[v])
    BY <2>1, <2>2 DEF Inserting
  <2> QED BY <1>1, <1>3, <2>1, <2>3 DEF Inserting
<1> QED BY <1>1, <1>2, <1>3

\* reset() moves a queued timer, earlier or later; its caller tells when it becomes the first.
LEMMA ResetInv ==
  ASSUME IInv, NEW u \in Users, Reset(u) PROVE IInv'
<1> DEFINE t == subject[u]
           ms == want[u][1]
           start == IF want[u][2] THEN clock ELSE LastStart(t)
<1> USE TimerAssumption DEF IInv, Reset, pollerVars, ghostVars, managerVars
<1>1. t \in Timers /\ t \in made /\ ~Inserting(t) /\ ms \in Nat /\ m_ms[t] \in Nat /\ m_next[t] \in Nat
  BY DEF Callers, TypeOK
<1>2. LastStart(t) \in Nat /\ (jumps = 0 => LastStart(t) <= clock)
  <2>1. m_ms[t] <= m_next[t] /\ (jumps = 0 => m_next[t] <= clock + m_ms[t]) /\ clock \in Nat
    BY <1>1 DEF Times, TypeOK
  <2> HIDE DEF t
  <2> QED BY <1>1, <2>1 DEF LastStart
<1>3. start \in Nat /\ (jumps = 0 => start <= clock)
  <2>1. clock \in Nat
    BY DEF TypeOK
  <2> QED BY <1>2, <2>1
<1>4. \A s \in Timers : Inserting(s)' <=> Inserting(s)
  BY DEF TypeOK, Inserting, InsertAndUnlock, Calling
<1>5. Callers'
  <2>1. \A v \in Users : v # u => upc'[v] = upc[v] /\ subject'[v] = subject[v] /\ want'[v] = want[v]
    BY DEF TypeOK, InsertAndUnlock, Calling
  <2>2. upc'[u] \in {"none", "tell"}
    BY DEF TypeOK, InsertAndUnlock, Calling
  <2> QED BY <1>4, <2>1, <2>2, CallersLemma
<1>6. Finished'
  BY DEF Finished
<1>7. CASE m_cb[t] /\ t \in m_timers
  <2> HIDE DEF start, ms
  <2>1. /\ m_ms' = [m_ms EXCEPT ![t] = ms]
        /\ m_next' = [m_next EXCEPT ![t] = start + ms]
        /\ InsertAndUnlock(u, t, start + ms, None)
        /\ upc[u] = "reset" /\ UNCHANGED <<clock, jumps, token, ppc, until, now_ms>>
    BY <1>7 DEF start, ms
  <2>2. TypeOK'
    <3>1. m_ms' \in [Timers -> Nat] /\ m_next' \in [Timers -> Nat]
      BY <1>1, <1>3, <2>1 DEF TypeOK
    <3>2. m_timers' \subseteq Timers /\ m_tickled' \in BOOLEAN /\ m_previouseTime' \in Nat
      BY <1>1, <2>1 DEF TypeOK, InsertAndUnlock
    <3>3. /\ upc' \in [Users -> {"none", "insert", "reset", "tell"}]
          /\ subject' \in [Users -> Timers \cup {None}]
          /\ want' \in [Users -> (Periods \X BOOLEAN) \cup {None}]
      BY <2>1 DEF TypeOK, InsertAndUnlock, Calling
    <3> QED BY <2>1, <3>1, <3>2, <3>3 DEF TypeOK
  <2>3. Queue'
    BY <1>4, <1>7, <2>1 DEF Queue, InsertAndUnlock
  <2>4. Times'
    BY <1>1, <1>3, <2>1 DEF TypeOK, Times
  <2>5. /\ Attended => Attended'
        /\ m_tickled' => Attended'
        /\ jumps = 0 => Attended' \/ Covered(start + ms)
    <3>1. start + ms \in Nat
      BY <1>1, <1>3
    <3> QED BY <2>1, <3>1, InsertLemma
  <2>7. m_timers' = m_timers
    BY <1>7, <2>1 DEF InsertAndUnlock
  <2>8. /\ m_next'[t] = start + ms
        /\ \A s \in m_timers : s # t => m_next'[s] = m_next[s]
    BY <1>1, <2>1 DEF TypeOK
  <2>9. jumps = 0 => \A s \in m_timers : s # t => Attended' \/ Covered(m_next[s])'
    <3> HIDE DEF t
    <3> QED BY <2>1, <2>5, <2>8 DEF Wakeups, Covered
  <2>10. jumps = 0 => \A s \in Timers : s = t => Attended' \/ Covered(m_next[s])'
    <3> HIDE DEF t
    <3> QED BY <2>1, <2>5, <2>8 DEF Covered
  <2>11. Wakeups'
    <3> HIDE DEF t
    <3> QED BY <2>1, <2>5, <2>7, <2>9, <2>10 DEF Wakeups, Covered
  <2> QED BY <1>5, <1>6, <2>2, <2>3, <2>4, <2>11
<1>8. CASE ~(m_cb[t] /\ t \in m_timers)
  <2>1. Calling(u, "none", None, None) /\ UNCHANGED <<managerVars, m_ms, m_next>>
    BY <1>8
  <2>2. TypeOK'
    BY <2>1 DEF TypeOK, Calling
  <2>3. Queue' /\ Times'
    BY <1>4, <2>1 DEF Queue, Times
  <2>4. Attended' <=> Attended
    BY <2>1 DEF TypeOK, Attended, Calling
  <2>5. Wakeups'
    BY <2>1, <2>4 DEF Wakeups, Covered
  <2> QED BY <1>5, <1>6, <2>2, <2>3, <2>5
<1> QED BY <1>7, <1>8

-----------------------------------------------------------------------------
(* The pollers and the clock. *)

\* The sleep that a poller computes covers every timer of the queue.
LEMMA GetNextTimerInv ==
  ASSUME IInv, NEW q \in Pollers, GetNextTimer(q) PROVE IInv'
<1> USE TimerAssumption DEF IInv, GetNextTimer, timerVars, userVars, ghostVars, Untickled
<1>1. /\ SleepEnd \in Nat \cup {Never}
      /\ \A t \in m_timers : SleepEnd \in Nat /\ (SleepEnd <= m_next[t] \/ SleepEnd <= clock)
  BY SleepLemma
<1>2. TypeOK'
  BY <1>1 DEF TypeOK
<1>3. Queue' /\ Callers' /\ Finished' /\ Times'
  BY DEF Queue, Callers, Finished, Times, Inserting
<1>4. \A t \in m_timers : Covered(m_next[t])'
  BY <1>1 DEF TypeOK, Covered
<1>5. Wakeups'
  BY <1>4 DEF Wakeups
<1> QED BY <1>2, <1>3, <1>5

\* A poller that wakes is one that is going to ask for the next timer again.
LEMMA WakeInv ==
  ASSUME IInv, NEW q \in Pollers, Wake(q) PROVE IInv'
<1> USE TimerAssumption DEF IInv, Wake, managerVars, timerVars, userVars, ghostVars
<1>1. TypeOK'
  BY DEF TypeOK
<1>2. Queue' /\ Callers' /\ Finished'
  BY DEF Queue, Callers, Finished, Inserting
<1>3. Times'
  BY DEF TypeOK, Times
<1>4. Attended'
  BY DEF TypeOK, Attended
<1>5. Wakeups'
  BY <1>4 DEF Wakeups
<1> QED BY <1>1, <1>2, <1>3, <1>5

\* What has expired leaves the queue, and what recurs is put back a period later.
LEMMA ListExpiredCbInv ==
  ASSUME IInv, NEW q \in Pollers, ListExpiredCb(q) PROVE IInv'
<1> DEFINE now == now_ms[q]
<1> USE TimerAssumption DEF IInv, ListExpiredCb, userVars
<1>1. Attended'
  BY DEF TypeOK, Attended
<1>2. Wakeups'
  BY <1>1 DEF Wakeups
<1>3. Callers'
  BY DEF Callers, Inserting
<1>4. \A t \in Timers : Inserting(t)' <=> Inserting(t)
  BY DEF Inserting
<1>5. CASE m_timers = {}
  <2>1. TypeOK'
    BY <1>5 DEF TypeOK, managerVars, ghostVars
  <2>2. Queue' /\ Finished'
    BY <1>4, <1>5 DEF Queue, Finished, managerVars, ghostVars
  <2>3. Times'
    BY <1>5 DEF TypeOK, Times
  <2> QED BY <1>2, <1>3, <2>1, <2>2, <2>3
<1>6. CASE m_timers # {}
  <2>1. /\ m_previouseTime' = now /\ End(Expired(now)) /\ m_timers' = Remaining(now)
        /\ m_next' = [t \in Timers |-> IF t \in Expired(now) /\ m_recurring[t]
                                       THEN now + m_ms[t] ELSE m_next[t]]
        /\ m_cb' = [t \in Timers |-> Over(t, now)]
        /\ UNCHANGED <<m_tickled, clock, jumps, made, m_ms, m_recurring>>
    BY <1>6
  <2>2. Expired(now) \subseteq m_timers /\ now \in Nat
    BY DEF Expired, TypeOK
  <2>3. \A t \in Timers : m_cb'[t] <=> m_cb[t] /\ (t \in Expired(now) => m_recurring[t])
    BY <2>1 DEF Over
  <2>4. over' \subseteq made /\ twice' \subseteq over'
    BY <2>1, <2>2 DEF End, Queue, TypeOK
  <2>5. TypeOK'
    <3>1. m_next' \in [Timers -> Nat]
      BY <2>1, <2>2 DEF TypeOK
    <3>2. m_cb' \in [Timers -> BOOLEAN]
      BY <2>1 DEF TypeOK, Over
    <3>3. m_timers' \subseteq Timers /\ m_previouseTime' \in Nat
      BY <2>1, <2>2 DEF TypeOK, Remaining
    <3>4. /\ ppc' \in [Pollers -> {"awake", "asleep", "list"}]
          /\ now_ms' \in [Pollers -> Nat]
      BY DEF TypeOK
    <3> QED BY <2>1, <2>4, <3>1, <3>2, <3>3, <3>4 DEF TypeOK
  <2>6. Queue'
    <3> SUFFICES ASSUME NEW t \in Timers
                 PROVE  /\ m_cb'[t] <=> t \in m_timers' \/ Inserting(t)
                        /\ t \in m_timers' \/ Inserting(t) => t \in made
                        /\ ~(t \in m_timers' /\ Inserting(t))
      BY <1>4, <2>1 DEF Queue
    <3>1. t \in m_timers' <=> t \in m_timers /\ (t \in Expired(now) => m_recurring[t])
      BY <2>1 DEF Remaining
    <3> QED BY <2>2, <2>3, <3>1 DEF Queue
  <2>7. Finished'
    <3>1. over \cap Expired(now) = {}
      BY <2>2 DEF Finished, Queue, TypeOK
    <3>2. twice' = {}
      BY <2>1, <3>1 DEF End, Finished
    <3>3. \A t \in over' : ~m_cb'[t]
      BY <2>1, <2>2, <2>3, <2>5 DEF End, Finished, TypeOK
    <3> QED BY <3>2, <3>3 DEF Finished
  <2>8. Times'
    <3>1. \A t \in Timers : m_ms'[t] <= m_next'[t]
      BY <2>1, <2>2 DEF TypeOK, Times
    <3>2. jumps' = 0 => \A t \in Timers : m_next'[t] <= clock' + m_ms'[t]
      BY <2>1, <2>2 DEF TypeOK, Times
    <3>3. jumps' = 0 => \A p \in Pollers : now_ms'[p] <= clock'
      BY <2>1 DEF TypeOK, Times
    <3> QED BY <3>1, <3>2, <3>3 DEF Times
  <2> QED BY <1>2, <1>3, <2>5, <2>6, <2>7, <2>8
<1> QED BY <1>5, <1>6

\* Time passing ends sleeps and moves no timer.
LEMMA TickInv ==
  ASSUME IInv, Tick PROVE IInv'
<1> USE TimerAssumption DEF IInv, Tick, managerVars, timerVars, userVars, pollerVars, ghostVars
<1>1. TypeOK'
  BY DEF TypeOK
<1>2. Queue' /\ Callers' /\ Finished'
  BY DEF Queue, Callers, Finished, Inserting
<1>3. Times'
  BY DEF TypeOK, Times
<1>4. \A t \in Timers : Covered(m_next[t]) => Covered(m_next[t])'
  BY DEF TypeOK, Covered
<1>5. Attended' <=> Attended
  BY DEF Attended
<1>6. Wakeups'
  BY <1>4, <1>5 DEF Wakeups, TypeOK
<1> QED BY <1>1, <1>2, <1>3, <1>6

\* After a set-back of the clock the parts about times say nothing.
LEMMA SetBackInv ==
  ASSUME IInv, NEW now \in Earlier, SetBack(now) PROVE IInv'
<1> USE TimerAssumption DEF IInv, SetBack, managerVars, timerVars, userVars, ghostVars
<1>1. TypeOK'
  <2>1. until' \in [Pollers -> Nat \cup {Never}]
    BY DEF TypeOK
  <2>2. clock' \in Nat /\ jumps' \in 0 .. MaxJumps
    BY DEF TypeOK
  <2> QED BY <2>1, <2>2 DEF TypeOK
<1>2. Queue' /\ Callers' /\ Finished'
  BY DEF Queue, Callers, Finished, Inserting
<1>3. jumps' # 0
  BY DEF TypeOK
<1>4. Times'
  BY <1>3 DEF Times
<1>5. Wakeups'
  BY <1>3 DEF Wakeups, Attended
<1> QED BY <1>1, <1>2, <1>4, <1>5

-----------------------------------------------------------------------------
(* The theorems. *)

\* A step that changes nothing keeps the invariant.
LEMMA StutterInv == IInv /\ UNCHANGED vars => IInv'
BY DEF IInv, TypeOK, Queue, Callers, Finished, Times, Wakeups, Attended, Covered, Inserting, vars,
       managerVars, timerVars, userVars, pollerVars, ghostVars

\* Every step of a user, a poller or the clock keeps the invariant.
LEMMA NextInv == IInv /\ [Next]_vars => IInv'
<1> SUFFICES ASSUME IInv, [Next]_vars PROVE IInv'
  OBVIOUS
<1>1. ASSUME NEW u \in Users, UserNext(u) PROVE IInv'
  BY <1>1, CreateInv, InsertInv, TellInv, ResetInv, CancelInv, RefreshInv, ResetBeginInv DEF UserNext
<1>2. ASSUME NEW q \in Pollers, PollerNext(q) PROVE IInv'
  BY <1>2, GetNextTimerInv, WakeInv, ListExpiredCbInv DEF PollerNext
<1>3. CASE Tick
  BY <1>3, TickInv
<1>4. ASSUME NEW now \in Earlier, SetBack(now) PROVE IInv'
  BY <1>4, SetBackInv
<1>5. CASE UNCHANGED vars
  BY <1>5, StutterInv
<1> QED BY <1>1, <1>2, <1>3, <1>4, <1>5 DEF Next

\* The invariant holds always.
THEOREM Inductive == Spec => []IInv
BY InitInv, NextInv, PTL DEF Spec

\* Every variable keeps its type; in particular m_next - m_ms of reset() does not wrap (timer.cpp:83).
THEOREM TypeCorrect == Spec => []TypeOK
<1>1. IInv => TypeOK
  BY DEF IInv
<1> QED BY <1>1, Inductive, PTL

\* A timer that a caller can reach has its callback exactly while it is in the set, so that
\* cancel() never erases the end of the set (timer.cpp:45).
THEOREM QueuedIffCallbackHolds == Spec => []QueuedIffCallback
<1>1. IInv => QueuedIffCallback
  BY DEF IInv, Queue, QueuedIffCallback, Known, Inserting
<1> QED BY <1>1, Inductive, PTL

\* A one-shot timer is handed out or cancelled once (timer.cpp:42, 169).
THEOREM OneShotOnceHolds == Spec => []OneShotOnce
<1>1. IInv => OneShotOnce
  BY DEF IInv, Finished, OneShotOnce
<1> QED BY <1>1, Inductive, PTL

\* m_tickled suppresses no wake-up that is needed (timer.cpp:176).
THEOREM NoOversleepHolds == Spec => []NoOversleep
<1>1. IInv => NoOversleep
  <2> SUFFICES ASSUME IInv, jumps = 0, ~token, m_timers # {}, \A u \in Users : upc[u] # "tell",
                      \A q \in Pollers : ppc[q] = "asleep"
               PROVE  \E q \in Pollers : /\ until[q] # Never
                                         /\ \A t \in m_timers : until[q] <= m_next[t] \/ until[q] <= clock
    BY DEF NoOversleep
  <2>1. PICK t \in m_timers : Earliest = m_next[t]
    BY EarliestLemma DEF IInv
  <2>2. PICK q \in Pollers : until[q] # Never /\ (until[q] <= Earliest \/ until[q] <= clock)
    BY <2>1 DEF IInv, Wakeups, Attended, Covered
  <2>3. \A s \in m_timers : Earliest <= m_next[s] /\ Earliest \in Nat /\ m_next[s] \in Nat
    BY EarliestLemma DEF IInv, TypeOK
  <2> QED BY <2>2, <2>3 DEF IInv, TypeOK
<1> QED BY <1>1, Inductive, PTL
=============================================================================
