-------------------------------- MODULE Fiber --------------------------------
(***************************************************************************)
(* The stackful coroutine of sylar/fiber.{h,cpp}: its state, its wake-up   *)
(* time, and which coroutine each thread is executing.  Every operation is *)
(* an action fragment over the variables below, which Scheduler conjoins   *)
(* with what the caller does.  reset() is left out: nothing calls it.      *)
(*                                                                         *)
(* swapcontext is modelled by what it does to control: it makes another    *)
(* fiber the one that the thread executes (this_fiber), so the steps of a  *)
(* thread are steps of whatever this_fiber[thread] is.                     *)
(*                                                                         *)
(* SYLAR_ASSERT is active in every build of the repository (CMakeLists     *)
(* never defines NDEBUG): when the condition is false the process dies.    *)
(* `abort' records the function whose assertion (or null dereference)      *)
(* killed it, and no step is taken once it is set.                         *)
(***************************************************************************)
EXTENDS Naturals

CONSTANTS Fibers,     \* the coroutines made by CreatFiber
          Threads,    \* the threads that create, run or drop fibers
          MainFiber   \* stands for each thread's own main fiber

ASSUME FiberAssumption == MainFiber \notin Fibers

VARIABLES m_state,    \* [Fibers -> State], Fiber::m_state
          waketime,   \* [Fibers -> Nat], Fiber::waketime, meaningful in SLEEP
          this_fiber, \* [Threads -> Fibers or MainFiber], thread_local this_fiber
          now,        \* what GetCurrentMS() returns
          abort       \* "none", or the function in which the process died

fiberState == <<m_state, waketime, this_fiber>>
fiberVars  == <<m_state, waketime, this_fiber, now, abort>>

\* Fiber::State
State == {"INIT", "READY", "EXEC", "HOLD", "SLEEP", "DESTROY", "EXCEPT"}

\* The functions in which the process can die.
FiberFaults == {"start", "resume", "yield", "hold", "notify", "stop", "sleep",
                "awake", "destroy", "MainFunc", "~Fiber"}

Alive == abort = "none"

FiberTypeOK == /\ m_state \in [Fibers -> State]
               /\ waketime \in [Fibers -> Nat]
               /\ this_fiber \in [Threads -> Fibers \cup {MainFiber}]
               /\ now \in Nat
               /\ abort \in FiberFaults \cup {"none"}

\* Both constructors: a new fiber is INIT, a thread starts in its main fiber.
FiberInit == /\ m_state = [f \in Fibers |-> "INIT"]
             /\ waketime = [f \in Fibers |-> 0]
             /\ this_fiber = [th \in Threads |-> MainFiber]
             /\ now = 0
             /\ abort = "none"

-----------------------------------------------------------------------------
\* GetThis()->m_id == GetMainFiber()->m_id, on thread th.
InMain(th) == this_fiber[th] = MainFiber

\* SYLAR_ASSERT of `ok' in function `where': the effect happens, or the process dies.
Asserting(ok, where, effect) ==
  \/ ok /\ effect /\ UNCHANGED <<now, abort>>
  \/ ~ok /\ abort' = where /\ UNCHANGED <<m_state, waketime, this_fiber, now>>

\* m_state = s, without a context switch (the calls made from the main fiber).
Become(f, s) == /\ m_state' = [m_state EXCEPT ![f] = s]
                /\ UNCHANGED <<waketime, this_fiber>>

\* SetThis(this); m_state = EXEC; swapcontext(&main_fiber->m_ctx, &m_ctx).
SwitchIn(th, f) == /\ m_state' = [m_state EXCEPT ![f] = "EXEC"]
                   /\ this_fiber' = [this_fiber EXCEPT ![th] = f]
                   /\ UNCHANGED waketime


\* SetThis(main); m_state = s; swapcontext(&m_ctx, &main_fiber->m_ctx).
SwitchOut(th, s) == /\ m_state' = [m_state EXCEPT ![this_fiber[th]] = s]
                    /\ this_fiber' = [this_fiber EXCEPT ![th] = MainFiber]

\* Called from the main fiber of thread th, about fiber f.
FiberStart(th, f)  == Asserting(InMain(th) /\ m_state[f] = "INIT", "start", Become(f, "READY"))
FiberResume(th, f) == Asserting(InMain(th) /\ m_state[f] = "READY", "resume", SwitchIn(th, f))
FiberNotify(th, f) == Asserting(InMain(th) /\ m_state[f] = "HOLD", "notify", SwitchIn(th, f))
FiberDestroy(th, f) == Asserting(InMain(th), "destroy", Become(f, "DESTROY"))

\* Called by the fiber that thread th is executing.
Executing(th) == ~InMain(th) /\ m_state[this_fiber[th]] = "EXEC"

WakeAt(t) == now + t

FiberYield(th) == Asserting(Executing(th), "yield", SwitchOut(th, "READY") /\ UNCHANGED waketime)
FiberHold(th)  == Asserting(Executing(th), "hold", SwitchOut(th, "HOLD") /\ UNCHANGED waketime)
FiberSleep(th, t) ==
  Asserting(Executing(th), "sleep",
            /\ SwitchOut(th, "SLEEP")
            /\ waketime' = [waketime EXCEPT ![this_fiber[th]] = WakeAt(t)])
FiberStop(th) == Asserting(~InMain(th), "stop", SwitchOut(th, "DESTROY") /\ UNCHANGED waketime)

\* MainFunc when m_cb throws: the handler marks the fiber EXCEPT and then prints
\* cur->getId(), but cur was reset before the call: a null dereference.
FiberThrow(th) == /\ m_state' = [m_state EXCEPT ![this_fiber[th]] = "EXCEPT"]
                  /\ abort' = "MainFunc"
                  /\ UNCHANGED <<waketime, this_fiber, now>>

\* ~Fiber: the last reference to f is dropped on thread th.
Droppable(th, f) == InMain(th) /\ m_state[f] \in {"DESTROY", "EXCEPT"}
FiberDrop(th, f) == Asserting(Droppable(th, f), "~Fiber", UNCHANGED fiberState)
=============================================================================
