# A verification of prozac's `sylar` library

TLA+ models of this repository's library (`src/sylar`): coroutines, the scheduler that runs them, the
IO manager over epoll, timers, configuration with its conversions, logging with its patterns and
files, threads, locks and the arguments of the program. TLC checks them on small instances, TLAPS
proves the invariants that matter most for every instance. Line numbers refer to the files under
`src/sylar`.

    tlc -config SchedulerSafety.cfg MCScheduler      # one run; PROJECT.json lists all of them
    tlapm ListFacts.tla                              # loops, and what they pick from lists
    tlapm SchedulerProofs.tla                        # the scheduler: queues, states of fibers, refinement
    tlapm IOManagerProofs.tla                        # the IO manager, with its refinement
    tlapm TimerProofs.tla                            # timers
    tlapm ConfigProofs.tla                           # configuration variables
    tlapm LogProofs.tla                              # loggers, and the parser of patterns; takes minutes
    tlapm FileLogProofs.tla                          # the files of logs; Mkdir, Rm and Mv
    tlapm EnvProofs.tla                              # guards, threads, help texts, command lines

## 1. The system

| Part | State it keeps | Operations | Talks to | Model |
|---|---|---|---|---|
| Fiber (`fiber.cpp`) | `m_state`, `waketime`, a context; per thread `this_fiber`, `main_fiber` | `CreatFiber`, start, resume, yield, hold, notify, sleep, awake, stop, destroy, the body's end or exception (`MainFunc`), `~Fiber` | called by the scheduler loop and by the code of the fiber | `Fiber` |
| Scheduler (`scheduler.cpp`) | `m_tasks` with its lock and its count, `m_stop`; per worker four queues, a lock, a count; the round-robin index of the alloc thread | `submit`, `start`, `stop`, `~Scheduler`, the loop of the alloc thread, the loop of a worker | workers run fibers; fibers call `submit` | `TaskPool` (contract), `Scheduler` |
| IOManager (`iomanager.cpp`) | table of contexts under a read-write lock, a context per fd under a mutex, `m_pendingEventCount`, `m_stopping`, the interest in epoll | `addEvent`, `delEvent`, `cancelEvent`, `cancelAll`, `triggerEvent`, `contextResize`, `idle`, `stop`, `~IOManager` | inherits the scheduler, hands fibers back to it by `submit` | `Reactor` (contract), `IOManager` |
| Timer (`timer.cpp`) | set of timers ordered by due time, `m_tickled`, `m_previouseTime` | `addTimer`, `cancel`, `refresh`, `reset`, `getNextTimer`, `listExpiredCb` | a poller that nobody in the repository writes | `Timer` |
| Config (`config.h`, `config.cpp`) | registry of variables; per variable a value, listeners, a lock; the time of each loaded file | `Lookup`, `setValue`, `fromString`, `addListener`, `delListener`, `clearListener`, `LoadFromYaml`, `LoadFromConfDir` | listeners (Log registers one) | `Config`, `LexicalCast` |
| Log (`log.cpp`) | loggers with level, formatter, list of appenders; appenders with level and formatter; a spinlock each; the definitions in the variable `logs` | log, `addAppender`, `delAppender`, `clearAppenders`, `setFormatter`, `setLevel`, `toYamlString`, conversion of definitions, the listener that rebuilds loggers | a logger hands lines to its root; the listener is called by Config | `LogDefine`, `Log` |
| Patterns (`log.cpp:292-438`) | the items of a formatter, `m_error` | `LogFormatter::init` | the factory of items; a formatter in error is refused by `setFormatter` | `LogPattern` |
| Files of logs (`log.cpp:487-543`, `util.cpp`) | a stream, `m_lastTime`, the spinlock of the appender; the file system | `log`, `reopen`; `OpenForWrite`, `Mkdir`, `Rm`, `Mv` | several loggers may share an appender | `FSUtil`, `FileLogAppender` |
| Locks (`mutex.h`, `mutex.cpp`) | a pthread lock; per guard `m_locked` | guards: constructor, `lock`, `unlock`, destructor; `Semaphore::wait`, `notify` | used by all others | `Locks` |
| Thread (`thread.cpp`) | `m_thread`, `m_id`, `m_cb`, a semaphore | constructor, `run`, `join`, destructor | the owner and the new thread meet in the object | `Thread` |
| Env (`env.cpp`) | `m_args`, `m_helps` under a read-write lock | `init`, `add`, `has`, `del`, `get`, `addHelp`, `removeHelp`, `printHelp` | called by threads | `Env` |
| Backtraces, times, links, pid files; singletons; build, tests | - | - | - | not modelled, section 8 |

What is hard, part by part:

* **Fiber.** Every switch asserts the state it starts from; an assertion ends the process. The
  question is always whether another component can bring a fiber into a state its next operation
  refuses.
* **Scheduler.** Tasks cross three locks and two counters on the way to a worker; `stop()` may fall
  between any two of those steps; a worker leaves its loop by looking at its own count only; a fiber
  may change state in a slice that its caller did not expect. *Correct* means: a task is in one
  place, once; the counts are exact; limits hold; an accepted task is run to its end unless `stop()`
  intervenes; `stop()` returns.
* **IOManager.** Results of `epoll_wait` are used after other threads changed what they report; the
  kernel learns of an event before the context does; a counter that `stop()` spins on is kept next
  to the facts it counts. *Correct* means: a callback armed in time is submitted once and never
  dropped; what is armed is watched; the counter is exact.
* **Timer.** A flag suppresses wake-ups; the clock can be set back; a timer expires while somebody
  cancels or resets it. *Correct* means: a timer is in the set exactly while it has a callback,
  one-shot timers are over once, nobody oversleeps.
* **Config.** Listeners run under the read lock and the value is written under the write lock that
  is taken afterwards; the counter that numbers listeners is shared by variables whose locks
  are not; the time of a file is recorded before the file is read; and a nested container goes
  through a text at each level. *Correct* means: a deleted listener is not called, an unchanged file
  has set its variables, and what a variable says of itself gives the same value again.
* **Log.** A reload is a sequence of critical sections between which others log, add appenders and set
  formatters; an appender takes its formatter from the logger unless it has its own; a logger keeps
  its lock while appenders, or its root, write. *Correct* means: nobody's iteration is disturbed,
  formatters are the right ones in whatever order things happen, a finished reload has taken
  effect, locks nest in one order.
* **Patterns.** One loop with two indices and four ways to end. *Correct* means: what a pattern says and what
  its items say is the same.
* **Files.** A test and a store outside of the lock decide who reopens; files are moved, directories go and
  disks fail in between; helpers overwrite the answers of their parts. *Correct* means: a line is in one
  piece, a file that was moved away is soon left, a line is lost for a reason only, and callers are
  told what happened.
* **Threads, locks, Env.** A constructor hands its object to a thread that may outlive it; guards are unlocked
  and locked by hand within their scope; `addHelp` is two critical sections. *Correct* means: nobody
  touches an object that is gone, a pthread is reaped once, guards exclude, a key has one help text.

The full list, line by line, is under `hazards` in `PROJECT.json`, each with the properties that
would catch it or the reason why none does.

## 2. Modules

`Fiber` holds the state of coroutines and gives every operation as an action *fragment* over
`m_state`, `waketime`, `this_fiber`. `swapcontext` is modelled by what it does to control: it changes
which fiber a thread executes, so that a thread's next step is a step of that fiber. `abort` records
the function whose assertion (or null dereference) killed the process; `SYLAR_ASSERT` is active in
the repository's build.

`Scheduler` extends `Fiber`: clients and fibers submit, the alloc thread deals batches round robin,
workers drain, wake, notify, run. One action is one access to what threads share (a switch, a
count, a lock, a queue under its lock) or one context switch; what a worker does in between
touches its own queues only and belongs to the step. `stage` and `owner` are history variables:
how far a task got and with which worker. Controller actions are `StartBegin/StartWorker/StartAlloc`,
`StopBegin/StopJoin` and `Destruct`; `Slice` is what a fiber's code does in one turn.

`TaskPool` is what the scheduler promises, without queue, lock or thread: a task is refused only
when the pool is full, else dealt to one worker that keeps it until it is over. `Scheduler` implements
it (`KeepsContract`, through `stage` and `owner`).

`IOManager` uses `TaskPool` - not `Scheduler` - as the scheduler it inherits: its workers only need the
contract, and the state space stays within reach. epoll is external: interest per fd,
edge-triggered, an edge taken by one waiter, re-armed by ADD and MOD. `pc/arg/ctx/todo` are the
locals of the call an actor is in. Besides fibers, the thread that constructed the manager (`Owner`) may call
`addEvent`: the constructor leaves it a scheduler (`scheduler.cpp:220`). The tickle pipe is left out: nothing in the code writes it.

`Reactor` is what the IO manager promises about a registration: at most one callback armed for a context
and event, handed over at most once, dropped only when the scheduler is off. `IOManager` implements it
(`KeepsContract`). The contract is about contexts and not about descriptors because the code can keep no more:
when the table shrinks (7.11) a descriptor gets a second context, and a callback may be armed in each of
them. The proof of the refinement found this; one descriptor, as in the run, does not show it.

`Timer` has users and pollers around the set of timers. `TimerManager` is abstract and nothing derives
from it, so the pollers are written from what the class offers: sleep for `getNextTimer()`, wake
on `onTimerInsertedAtFront()`, call `listExpiredCb()`. A timer's address, which breaks ties in the
order, is its number.

`Config` has threads in any of the calls of a variable, a file that somebody edits, and the loads.
`addListener` is three steps because `++s_fun_id`, `m_cbs[s_fun_id]` and `return s_fun_id` are three
accesses in the repository's `-O0` build and the counter is not under the lock. `TypeOf` says which variables
share a counter. `raced` (types in whose `addListener` two threads were at once), `touched` (what the program
registered or set since a load) and `lapped` (another load was under way during the last one) are history.

`LogDefine` is the data of the configuration `logs`: the conversions between YAML and definitions (a YAML
map is a function from the keys that are defined) and the comparison of definitions, as the
code makes it. `Log` has threads that log, threads that change loggers, and loaders that run
`fromString`, `setValue` and the listener. The spinlock of a logger is a variable; that of an appender is
only ever held within one step. `addAppender` is two steps when the appender has no formatter
yet, because it asks for it in one critical section of the appender and sets it in another. What
`setValue` does around the listener is here as in `Config` (the variable is written once no other listener runs).
The appenders that a reload makes come from the finite set `Appenders`: `Make` waits when all are in use, which
is a bound and nothing the code does.

`Lists` has the loop that copies some of a list to another (`Picked`), which `Env` and `LogDefine` use. It is
`SelectSeq` of a test; the provers know nothing of `SelectSeq`.

`LogPattern` is the parser: one round of its loop is `Step`, and the factory is the set `Registered`. `Log`
extends it, so that whether a formatter is in error is what the parser says of its pattern.

`FSUtil` has the operations of `util.cpp` on a file system, which is a set of directories, one of files and
what the process may not do. `Rm` returns a *set* of answers, because which child comes last is
`readdir`'s choice. `FileLogAppender` extends it and has threads between `log()`'s test of
`m_lastTime` and the write, a disk that fails and somebody who moves files and removes directories.
`contents` is what was written to each inode; `retired` (when it lost its name), `lastFault` and
`broken` are history.

`LexicalCast` converts texts to values and back. A text is the node yaml-cpp reads it as and how it is
dressed (plainly, in quotes, or nothing at all), which is what the conversions tell apart; types are
tuples such as `<<"map", <<"vector", <<"int">>>>>>`. `ListAllMember` gives the members of a document
with the texts their variables are set from. It is pure and recursive, so no theorem uses it.

`Locks` has a guard for each thread and lock, any of whose operations its thread may call next. `Thread`
extends it with objects, their owner, and the pthreads behind them: `RunOrder` is what `run()` does,
step by step. `Env` extends `Thread`: threads call the methods of `Env` through guards of `m_mutex`, `addHelp`
in two scopes, and use guards of another lock besides. `init` is an operator on command lines. `thrown`
(objects whose constructor was left by an exception), `reaped` and `met` (keys whose `addHelp`
overlapped) are history.

`MC*.tla` give the constants values; `ListFacts`, `SchedulerProofs`, `IOManagerProofs`, `TimerProofs`, `ConfigProofs`,
`LogProofs`, `FileLogProofs` and `EnvProofs` hold the theorems.
Definitions named *Mutated form of X* are not part of any specification: they say what a plausible
mistake in `X` would be, and each property is known to notice the one listed with it in `PROJECT.json`.

## 3. Runs

| Run | Instance | Shows |
|---|---|---|
| `sched_safety` | 1 client and the fibers submit 3 tasks, queue of 2, 2 workers per start, 2 starts | `PlacedOnce`, `Accounting`, `Bounded`, `ExitedClean`, `StateMatchesQueue`, `AssertionsHold`; every step is a `TaskPool` step (`KeepsContract`) |
| `sched_liveness` | 1 worker, 2 fibers that do anything, queue of 1 | `Served`, `StopFinishesDealt`, `StopReturns` |
| `sched_notify_ends` | 1 worker, 1 fiber | *violated:* a notified fiber may not end (7.1) |
| `io_safety` | 2 workers, a fiber with 3 calls, the owner's thread with one to register or cancel all, an fd that is ready, fails, closes, queue of 1 | `PendingExact`, `KernelAgrees`, `StopWaits`; every step is a `Reactor` step |
| `io_liveness` | 2 workers, a fiber with 2 calls, an fd beyond the table | `CallbackRuns`, `StopReturns` |
| `io_stale_results` | 2 workers, READ and WRITE of one fd | *violated:* an event triggered is armed (7.2) |
| `io_register_again` | 1 worker, 2 fibers | *violated:* a fired context is empty (7.3) |
| `timer` | 2 users, 2 pollers, 2 timers, 3 calls, clock set back once | `QueuedIffCallback`, `OneShotOnce`, `NoOversleep` |
| `config` | a loader, a thread, 2 variables of one type, 2 listeners, 6 calls, 1 edit; documents and types two deep | `CalledIsRegistered`, `KeysHold`, `FileWins`, `CallsReturn`; `DocumentsHold` of every document and type |
| `log` | a loader, 2 threads, a logger and its root, 4 calls, 5 documents, with and without `-d` | `LockOrder`, `FormattersHold`, `LinesHold`, `ReloadApplies`, `ExportsItself`; `PatternsHold` of every pattern of 5 characters |
| `file_log` | 2 threads, 3 lines, 5 seconds, 2 moves or removals, 1 failure of the disk | `LinesWhole`, `MovedFileIsLeft`, `LossIsFault`; `AnswersHold` of every small file system |
| `env` | 2 threads, a signal, 4 calls or scopes of another lock | `ThreadsHold`, `GuardsExclude`, `EnvHolds`, which has every command line of 5 arguments |

Some of these are conjunctions of parts with names and comments of their own (`FormattersHold` is
`CanFormat /\ FormatterShared`, `AnswersHold` is `TypeOK /\ MkdirMakes /\ RmMeansGone /\ MvMovesOrKeeps`, and so on).
Parts about operators, such as `PatternKept`, do not depend on the state: TLC evaluates them once.

### Bounds, and why they are enough to be worth running

* *Scheduler.* Two workers of one start exercise every interleaving of round robin, `stop()` and
  exits; the second start adds workers 3 and 4 with 1 and 2 dead in the same vector, where the index
  wraps. Three tasks fill a queue of two and a worker. What follows for other sizes is what the
  proofs are for: the constants of `SchedulerProofs` are arbitrary.
* *IOManager.* One fd has every race of registration, event and cancellation; a second context of it
  (`MaxGen`) matters only when the table shrinks, which one fd cannot cause. Three calls of a fiber are
  register, cancel or be fired, register; the owner's `cancelAll` or registration runs against each.
  `io_liveness` puts the fd beyond the initial table, so that the calls go through the growth.
* *Timer.* Two timers are the least that have an order, two users the least where one cancels while
  the other is between the two halves of `reset`, two pollers the least that can take each other's
  wake-up. An "hour" is one tick; the clock runs from 1 to 3 and, set back to 1, lies within or beyond
  the hour before `m_previouseTime`. `Timer` is proved for all values.
* *Config.* Six calls are two look-ups, two listeners and two loads or sets; the two variables have one type,
  so that one counter numbers their listeners. One thread loads in the run, and any in the proof. Three contents of the file
  have two good members, one that does not convert, and a file that cannot be parsed.
* *Log.* A logger and its root are all the locks a line can meet; four calls are two loads of different
  documents with two calls of others in between. The documents define a logger, change its
  formatter, change only its appenders, drop it, define the root, and hold definitions that are
  not usable: an appender of no known type, a file without a name, a pattern that does not parse, a
  definition without a name. Patterns of five characters have an item with a format and something before or
  after it; all sequences of three items have an item between any two others.
* *Conversions.* The outer of two levels is the step from a node to its text and back; a third would repeat
  it. The words are one that is a number, one that is not, one that is no name and one that YAML would
  read as something else if it were not in quotes. A key may be there twice, and may be a number.
* *Files.* Two threads are the least that can reopen at once and store their times in the wrong order.
  The clock runs from 3 to 7, which holds an event before, at and after the period of 3 s. Two moves
  empty the name twice; one failure of the disk may fall before, between and after attempts to open.
  The threads are alike, so that the run uses their symmetry (it has no liveness property). The five
  paths for `Mkdir`, `Rm` and `Mv` are a directory with two children, one of which may have a child,
  next to another entry of the root; one directory may be read-only and one not openable.
* *Env.* Two threads overlap in `addHelp`; four calls are two that overlap, one that follows, and one more.
  Five arguments are a key with a value, twice, with a dash anywhere between.

Deadlock is not checked where calls are bounded or the scheduler may stop for good; the liveness
properties speak of what must not get stuck, and `LockOrder` of `Log` excludes that calls
wait for each other.

### Fairness, and why the code justifies it

Weak fairness of every thread's loop and of every call under way: the operating system
schedules threads, and no step of the loops waits for anything but a lock. Strong fairness
where a thread competes for a mutex again and again (`AllocLockWorker`, `SubmitPush`): pthread
mutexes are not fair, but a competitor that lets go infinitely often does not win every time.
Fibers are *assumed* to end after finitely many slices (`FiberFairness`): one that yields for ever
does starve younger ones (7.6). Nothing in the code makes a worker's `trylock` ever succeed
against the alloc thread, so the three liveness properties state `TrylockSometimesWins` as
their premise. For the IO manager a fiber that runs ends; events are *not* assumed to
happen: `CallbackRuns` speaks of an event that stays ready, and `StopReturns` has the premise
`EventsHappen`, because `stop()` does wait for ever for an event that never comes.
`Config` assumes only that threads run. `Timer` has no liveness property: its pollers are not code of
this repository. Nor have `Log`, `FileLogAppender` and `Env`, whose loops are straight-line code between
locks: what could make them wait for ever is the order of locks (`LockOrder`) and a lock that is not
released, which the invariants on owners exclude.

## 4. What is proved

`SchedulerProofs` (for any number of clients, workers, starts, tasks, any caps and any batch):
`TypeCorrect`, `PlacedOnceHolds`, `AccountingHolds`, `BoundedHolds`, `ExitedCleanHolds`.
`TypeOK` and the properties are not inductive by themselves: that a worker's count is the number
of tasks it holds survives a step only if one knows who is between popping a task and counting
it, and that is known from the control points and lock owners. `IInv` adds

* `Owner`: the alloc thread is off or has exited while the scheduler is stopped or being started;
* `Locks`: the alloc thread holds `m_mutex` exactly at `locked` and `move`, and a worker's lock is held by
  the one whose control point says so;
* `Control`: which control point each local of a worker belongs to (`task`, `visit`);
* `Submitting`: a task on its way through `submit` is in no queue, and one submitter has it;
* `Queue`: `m_tasks` holds each queued task once, `m_count` is its length, and that is within the cap;
* `Places`, `Load`: `stage` names the queue a task is in, and a worker's count is the cardinality of what
  it holds.

Each action has a lemma; `Inductive` puts them together, and the theorems follow from `IInv`.
Assumptions: `SchedulerAssumption` and `FiberAssumption` (types of the constants), which TLC evaluates on
each run.

Its second part goes on from there: `StateMatchesQueueHolds`, `AssertionsHoldAlways`, `ContractKept`. To `IInv`
`SInv` adds

* `InHand`: a thread whose stack is not its own is the worker that has the task of that fiber in its hands, just
  resumed or notified;
* `Agrees`: the state of a fiber for each place its task can be in; while it is in `t_hold` this depends on
  whether its worker is looking at it, and if so on whose stack that worker is;
* `Owned`, `Switch`, `Deaths`: who a task was dealt to, when `m_stop` is set, and which assertions can fail at all.
  `InHand` and `Agrees` hold only while the process is alive.

The first two theorems assume that what `notify()` switches in yields or holds (`NotifyOps`), because of 7.1: without
that they are false, which `sched_notify_ends` shows. `ContractKept` needs no such thing. Its proof maps each
action to one action of `TaskPool` or to a stutter; that a worker has room when it is dealt a batch and that
the queue has when a task is accepted follow from the counts being exact (`Load`, `Queue`). A batch is
dealt task by task in the contract and in the code.

`IOManagerProofs` (any workers, clients, descriptors, contexts, callbacks, calls, and any cap): `TypeCorrect`,
`PendingIsExact`, `KernelAlwaysAgrees`, `StopAlwaysWaits`, `ContractKept`. `IInv` adds to the types

* `Tables`, `InCall`, `Holding`: what a call has at each of its steps, and that the mutex of a context is held by
  exactly the actor that is past it, so that two calls meet in a context only when one of them is over;
* `Watching`: for a context that nobody holds, the kernel watches what is armed; for one that somebody holds, it
  watches what *will* be armed at the unlocking, which at `commit` is one event more or less and between
  `fire` and `dec` what is still to be fired less;
* `Slots`: a callback is in one slot, an armed one is new, one about to be pushed is new and no longer armed;
* `Pending`: the counter is the number of armed events and of actors between submission and decrement. An actor
  fires one event at a time, so that these can be counted as actors;
* `Stopping`: what is left when the scheduler was stopped was registered late (7.10).

That the counter never goes below zero, which `TypeCorrect` includes, needs `Pending`: an actor at the decrement
is itself one of those counted. Assumption: `IOManagerAssumption` only.

`TimerProofs` (any set of timers, users, pollers, any clock and period): `TypeCorrect`,
`QueuedIffCallbackHolds`, `OneShotOnceHolds`, `NoOversleepHolds`. `IInv` adds to `TypeOK`: a timer has its
callback while it is in the set or in the hands of the `addTimer` that makes it (`Queue`); callers
insert timers of their own and reset known ones (`Callers`); what is over has no callback
(`Finished`); `m_next - m_ms` is neither negative nor, while the clock goes forward, in the future
(`Times`); and, for the wake-ups, that `m_tickled` implies somebody is on the way to `getNextTimer`, and
every queued timer is either attended to so or covered by a sleep that ends in time
(`Wakeups`). The last is why `refresh()` need not tell anybody: it can only move a timer back, as
long as the clock does not. `ListFacts`' `LeastOf` (a set of naturals has a least element) is what makes
`getNextTimer`'s first timer exist.

`ConfigProofs` (any threads, variables, listeners, calls, edits and contents of the file): `TypeCorrect`,
`CalledIsRegisteredHolds`, `KeysHoldAlways`, `FileWinsHolds`. They rest on

* `Exclusion`: a writer of a variable is alone and in `addListener`; who notifies is a reader and calls what is
  registered. The first theorem needs no more;
* `Keys`: variables share counters as they like, and the keys of a type hold as long as no two threads were in
  `addListener` of it at once (`Orderly`). Then who counts has the counter to itself (`CountsAlone`), which is ahead of the
  keys of all variables of the type (`Ahead`), so that no two listeners of a variable have one key (`Distinct`); a listener
  is added once (`AddedOnce`), and `m_cbs` differs from what the owners know only by what `addListener` is about to
  return (`Kept`). Without the exception the property is false (7.14);
* `Loads`: what each load has recorded and has still to set, and whether another is under way; and `Loaded`: while the
  file is the one that was read and no other load overlapped (`Current`), each of its values is set, is being set or is
  still to be set, or the program has touched the variable. Any threads may load. The theorem assumes that a
  file names a variable once (`NamesOnce`).

`LogProofs` (any threads, loggers, appenders, formatters, levels, calls and documents): `TypeCorrect`,
`LockOrderHolds`, `LinesHoldAlways`, `FormattersHoldAlways`, `ReloadAppliesHolds`, `ExportsItselfAlways`,
`PatternsHoldAlways`. There are three invariants, each
resting on the ones before:

* `IInv`: the types; `Holding` (who has the lock of a logger, and at which step), `InLine` (the
  appenders still to be written are the last ones of the logger whose lock is held, and a line went on to the
  root because its logger had none), `InCall` (what a call has at each step). The orders of locks and lines follow;
* `Sharing`: an appender in a logger has a formatter, and, if it was added once and has none of its own, that
  of its logger. It is inductive because such an appender is with one logger only, so that
  `setFormatter` of another does not reach it;
* `Reloads`: how a reload that is under way looks from outside. Each logger is settled for its last definition, or
  already for the new one, or it is the one being rebuilt (`Settled`), and of that the first definitions of
  appenders have been made, in order, and the rest are still to be (`Making`, `UnderWay`); appenders
  of the program are not among those of the definitions (`Apart`). `Matches` says by a map that preserves
  order which appender stands for which definition, so that adding one extends the map by one place; which place
  comes next is the least of those left (`Least`).

`ReloadAppliesHolds` assumes, as the property does, that one thread loads. That `CastAll` gives definitions of the right
types is a lemma; of documents `LogAssumption` says only that they are what YAML gives (`IsDocument`: nodes of known
names whose appenders, if there are any, are a list) and that none converts to the sign `Free`.

`ExportsItselfAlways` needs no more than the types: of each logger, in whatever state, the YAML that `toYamlString`
writes is converted back by `Cast`, field by field and appender by appender. `TextAssumption` (the empty text names
no level and no kind of appender) is what makes a field that is left out come back as it was.

`PatternsHoldAlways` is about the parser and hence about data. It goes by rounds of the loop of `Parse`, whose states
are those of `LoopStates` below. `Kept` is the invariant of the loop: what the items of a state say, and the text it
is in, is the pattern up to the round's place, and texts are in one piece; or an item is an error, and a format
without end follows. `AnyPatternKept` says so of patterns of *any* length. The other way round, `TokensRead` says of *any*
number of tokens that what they are written as is read as them: `TokenStands` says where each token is in what is
written, and `ReadUpto` that the k-th round ends at the next token with the first k tokens as items. Assumption: `PatternAssumption`, which has
that no item is registered under the empty name.

`FileLogProofs` (any threads, lines, moves, failures of the disk, any clock of at least 3, where it starts):
`TypeCorrect`, `LinesWholeHolds`, `MovedFileIsLeftHolds`, `LossIsFaultHolds`, `AnswersHoldAlways`. `IInv` adds to the types

* `Held`: between the two attempts to open, the stream is closed; between the halves of a line, it is in
  order and the first half is the last thing in its file;
* `Cut`: a file whose last line is cut short is the one the stream is on, and either that stream is no longer
  in order or its writer is about to go on. So a stream is only closed, and a file only opened, when
  no file is cut short in a way that could still be continued;
* `InTime`: while the stream can be written, nobody past the test of `m_lastTime` has an event of three seconds or
  more after the file lost its name, and `m_lastTime` itself is not later than that. This is why a test and
  a store outside of the lock do no harm: a thread that stores an old time stores one that is too early, which
  makes the next reopening earlier and not later;
* `Names` (inodes are used in order, the one with the name is not retired) and `Times` (nothing is from the
  future).

`LossIsFault` is about steps and needs `Fit` besides: until a write fails, a stream that is not in order is one that
`reopen()` has closed, and then either somebody with the lock is about to open it and will succeed (`Trying`), or
the disk failed lately enough for every line that can still find it so (`Excused`): at or after `m_lastTime` and the
time of everybody who is reopening, and no more than two seconds before the time of everybody past the test.
It includes that `Mkdir` makes the directory of the appender on a disk that works (`MkdirMakesIt`).

`EnvProofs` (any threads, locks, keys, signals and calls, under `EnvAssumption`): `GuardsExcludeHolds`,
`ThreadsHoldAlways`, `AnyLineMeansGrammar`, `EnvHoldsAlways`. `LocksInv` is the types, that a lock somebody has for writing nobody has for reading, and
`Mine`: what a guard says of `m_locked` and its mode is what its thread has of the lock. The exclusion of guards
follows, since `unlock` by hand and the destructor both go by `m_locked`. `ThreadsInv` is the types,
`Begun` and `Stage`: how far the new thread and its owner are determines what the semaphore and the object may
be, so that the owner's constructor can return only after the new thread has notified it, unless it is left by
an exception, and that the pthread is reaped by the one of `join` and the destructor that comes first.

`HelpInv` is what `addHelp` in two scopes keeps for a key whose calls have not overlapped: at most one thread is in
`addHelp` of it, that thread finds no text of it when it adds its own, and there is at most one (`EnvHoldsAlways`). `AnyLineMeansGrammar` is
about command lines of *any* length: `Means` says what the state of the scan is after the first i arguments, in terms of
what the grammar says of them, and each kind of argument keeps that. Besides the types of its constants,
`EnvAssumption` has that `None` is neither a thread nor a key.

`FileLogProofs` has, in its second part, `AnswersHoldAlways`: what `Mkdir`, `Rm` and `Mv` tell their callers, over any finite set
of paths of any depth (`PathsAssumption`). For `Rm` that is an induction from the deepest paths up: `RmSays` is that a
call removes only within its path, that it says true exactly if the path is gone, and that what is gone is gone
with all below it. So the answers that are forgotten do not matter: a child that is left makes `rmdir` fail. `Mv` rests
on that and on paths within one path being on one line (`OneLine`), so that removing the target leaves the source alone.

### Induction

Theorems of induction that take an operator as a parameter cannot be instantiated by the provers here.
`ListFacts` does without: a set of numbers has a least element (`LeastOf`), so that a *set* that has 0 and with each number
the next has all (`Climb`); a loop of n rounds, given as a *function* from rounds to functions on states, has states
(`Rounds`), which a recursive function written with `CHOOSE` therefore has (`PickedLoop`, `RmAllIs`, and the loops of
`Parse` and `init`). From these follow what `Picked` gives (`PickedFrom`, `PickedAll`). What remains out of reach is
recursion by `RECURSIVE` operators.

Only model-checked:

* liveness: `Served`, `StopFinishesDealt`, `StopReturns`, `CallbackRuns`, `CallsReturn`. It rests on fairness, that is on
  `ENABLED`, which the provers do not handle;
* `DocumentsHold`, except for its `TypeOK`: the conversions of `LexicalCast` recurse over types and documents by
  `RECURSIVE` operators, which the provers do not handle, and which have no domain to make functions over.

## 5. Plan

1. Done: `Fiber`, `TaskPool`, `Scheduler` (safety, liveness, refinement, first proofs); `Reactor`,
   `IOManager`; `Timer` with its proofs; `Config`, `LexicalCast`; `LogDefine`, `LogPattern` and `Log`; `FSUtil`,
   `FileLogAppender`; `Locks`, `Thread`, `Env`; proofs about files, guards and threads; proofs about
   states of fibers, the IO manager, configuration variables, loggers and reloads, and both refinements.
2. Done: what is computed over data, by induction over rounds and depths: `ListFacts`, patterns and command lines of any
   length, exported loggers, `Mkdir`, `Rm` and `Mv` on any paths.
3. Done: variables that share a type (`KeysHold`), several loaders (`FileWins`), the owner's thread in the IO manager.
4. Possible: a listener that calls back into its variable.

## 6. What the models leave out

*Fiber:* the stack and its size, `reset()` (no caller). *Scheduler:* names of threads, `Task.thread`,
which the code ignores. *IOManager:* the tickle pipe, the contents of events other than READ, WRITE
and ERR (HUP behaves as ERR). *Timer:* what callbacks do; clock jumps forward, which are several
ticks. *Config:* which names `Lookup` refuses, two edits of a file within one second (the code compares
seconds and misses the second one), listeners that call back into their variable (they would wait
for their own read lock). The variables of the state machine have whole values; what their texts are
is `LexicalCast`'s subject. *LexicalCast:* `char`, `float` and user types (a user type converts through a specialization
of the program's own), the characters of texts, and what yaml-cpp does with aliases and tags. *Log:* what a
line looks like; the map of loggers (one that was not looked up is as constructed); a null formatter
given to `LogAppender::setFormatter`, after which the next line dereferences it; threads that spin for
a lock in a call that changes a logger in one step begin that call when the lock is free.
*Files:* what a write that fails half-way leaves of its item; other processes than those that move files and
remove directories; `Rm` and `Mv` while somebody else changes what they are at. *Thread:* names, and
`pthread_create` that fails (the constructor throws, there is no thread). *Env:* paths.

## 7. Where the code disagrees with itself

The first three have a run that exhibits them; the others were seen in the source.

1. *A notified fiber may not end* (`scheduler.cpp:67`). Only a READY fiber is taken out of `t_hold`, so
   one that ends or sleeps in the slice `notify()` gave it is notified again and `Fiber::notify` asserts.
   (`sched_notify_ends`)
2. *Stale results of `epoll_wait`* (`iomanager.cpp:363`). `idle` triggers all events it was told of although
   another worker may have disarmed one of them: the assertion at line 41 fails. (`io_stale_results`)
3. *An event cannot be registered twice* (`iomanager.cpp:45`). `triggerEvent` leaves `ctx.fiber`, and the next
   `addEvent` asserts at line 153. (`io_register_again`)
4. `LogDefine::operator==` compares `appenders` with itself (`log.cpp:744`): a change of appenders only is no
   change. `SameDefine` does the same, and `ReloadApplies` speaks of the last definition that differs in level
   or formatter.
5. A definition without a formatter leaves a logger the one it had from an earlier definition
   (`log.cpp:910`); a reload loses the lines of the root logger between clearing and adding
   (`log.cpp:914`); an appender moved to another logger keeps the formatter it inherited from the first
   (`log.cpp:570`); two reloads at once may leave a logger the appenders of both.
6. `Task::lasttime` ("when the task was last processed", `scheduler.h:24`) is set by the constructor only: a
   yielding fiber stays on top of younger ones of its priority for as long as it yields
   (`scheduler.h:59`).
7. `stop()` strands what is dealt late (`scheduler.cpp:18`): a worker leaves when its own count is 0, and the
   alloc thread may still deal to it. `submit` tests `m_stop` before it locks, and may queue a
   task when the alloc thread has left (line 258). Both are dropped in state INIT, where `~Fiber` asserts,
   as is a task submitted after `stop()`.
8. A fiber that throws is EXCEPT; the handler then prints `cur->getId()` although `cur` was reset
   (`fiber.cpp:59`). A full queue refuses a task by `Fiber::destroy` on the caller's thread, which
   asserts when the caller is a fiber (`scheduler.cpp:268`).
9. After a second `start()` the vector still holds the joined workers of the first, and tasks dealt to
   them never run (`scheduler.cpp:238`); `start()` also replaces the queue without its lock (line 240).
10. `addEvent` tests `m_stopping` once: an event armed after `stop()` saw the counter at 0 is dropped
    (`iomanager.cpp:104`). `StopWaits` excepts these (`late`).
11. Two fibers that both need the table to grow may shrink it: contexts beyond the new size are
    leaked and can no longer be found (`iomanager.cpp:122`).
12. A successful `delEvent` drops a fiber in INIT on the caller's thread, and `~Fiber` asserts (`iomanager.cpp:196`).
13. `stop()` spins for ever if an armed event never fires, or its fd was closed. Only a worker with no task
    at all polls.
14. Listener ids: the counter is per type, the lock per variable, so that the id `addListener` returns may be
    another listener's (`config.h:457`). It takes two threads that are in `addListener` of the type at
    once, and `KeysHold` excepts only types of which that was so (`raced`).
15. Between the notification and the write of `setValue` another `setValue` may notify and write, so the last
    value a listener heard need not be the value; a listener added in between hears of no change
    (`config.h:441`).
16. Two loads at once may set the older contents last, with the newer time recorded (`config.cpp:87`), which lasts
    until the file is saved again; `FileWins` excepts a load that another overlapped (`lapped`). A
    variable looked up after its file was loaded keeps its default until the file changes; the
    accepted letters of a name lack `9` and capitals (`config.h:545`), though the documentation allows `[0-9a-z_.]`.
17. A scalar given to a list converts to an empty list, and a map is indexed by numbers and gives empty texts where it
    has no such key, without an exception; a
    string that YAML must quote keeps its quotes inside a container and not outside of one; of a key
    that is there twice a `map` takes the first value and the variables take the last.
18. `%%` is a percent sign in the comment on patterns (`log.cpp:291`); the code writes one and goes on at the
    second (`log.cpp:307`), which then begins an item, or at the end of the pattern an unknown one.
    Text before an item whose format has no end comes out after the error.
19. A `FileLogAppender` whose write failed never writes again: `reopen()` closes only a stream that is in order,
    opening an open stream fails, and it returns true all the same (`log.cpp:534`). A clock that is set back
    stops reopening until it has caught up (`log.cpp:498`).
20. `Mv` onto the source itself, into it or over a directory that it is in destroys it (`util.cpp:290`).
21. A signal that interrupts `sem_wait` makes `Thread`'s constructor throw (`mutex.cpp:19`), and the thread it
    made goes on with an object that is gone. The objects behind `Thread::GetThis()` are not kept alive by
    a detached thread. `WokerThread::m_name` hides `Thread::m_name`.
22. Calls of `addHelp` for one key that overlap leave two texts (`env.cpp:97`). An option without a value has
    the value `""`, so that `-c` alone makes the path of the configuration `/`.
23. The variable `logs` and its listener rely on `log.cpp` being initialised before what logs at
    start-up, that is on the order of `LIB_SRC` in `CMakeLists.txt`.

## 8. Not modelled, and why

*Env:* `setEnv` and `getEnv` are one call each of the C library; paths are texts put together. *Util:*
backtraces, texts of times, ids of threads, symbolic links and pid files read or write the outside and
keep no state; `ListAllFile` is the set `Contents` of `Config`. The clock is in `Fiber`, `Timer` and
`FileLogAppender`, assertions are `abort`. *Locks:* the null locks do nothing; `trylock` is in `Scheduler`,
where it is used. *Templates:* a singleton is made at its first use; the factory is `Registered` of
`LogPattern`. *Build, examples, tests:* no behaviour of their own; the tests were read for how the parts are
used.
