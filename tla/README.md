# CPython 3.10: TLA+ models of its thread coordination

This directory models the parts of CPython 3.10 (the sources under `src/`) in
which threads, tasks, processes, signals and callbacks meet: the global
interpreter lock, signal delivery, pending calls, the synchronization objects of
`threading`, `queue.Queue`, the life of a thread, import locks, the locks and
queues of asyncio under cancellation, and `concurrent.futures` with its thread
pool and process pool.  TLC checks each of them on small instances, safety and
liveness.  TLAPS proves what they say about safety for every value of the constants.

## 1. Inventory

What the program is made of, as far as its own logic goes.  Vendored code
(`Modules/expat`, `Modules/_decimal/libmpdec`, the bundled wheels), generated
code (`Parser/parser.c`, the clinic files), documentation, IDLE, lib2to3 and
the tests are left aside.

| component | state | operations | hard behaviour | what makes it correct |
|---|---|---|---|---|
| GIL (`Python/ceval_gil.h`, `ceval.c`) | `locked`, `last_holder`, `switch_number`, two mutexes with a condition variable each, `gil_drop_request`, `eval_breaker` | `take_gil`, `drop_gil`, `PyEval_SaveThread`/`RestoreThread`, the eval loop's check | timed waits that race with signals, flags written outside the mutex, forced switching, threads that exit during finalization | one holder; who yields on request does not get it back at once; every wait ends; only the finalizing thread runs on |
| signal delivery (`Modules/signalmodule.c`, `ceval.c`) | `Handlers[i].tripped`, `is_tripped`, `signals_pending`, `eval_breaker`, the main thread's C stack | `trip_signal` in the C handler, `handle_signals`, `_PyErr_CheckSignalsTstate`, `PyErr_CheckSignals` | a C handler between any two accesses, nested and failing Python handlers | no tripped signal stays unannounced or unhandled |
| pending calls (`ceval.c`) | ring buffer, `calls_to_do`, `busy`, `eval_breaker` | `Py_AddPendingCall`, `make_pending_calls` | additions from threads without the GIL, recursion, failing callbacks, a full ring | each call is run once, in order, and is not forgotten |
| `Condition` (`Lib/threading.py`) | a deque of waiter locks | `wait`, `notify`, `notify_all` | timeouts that race with notifications, threads that barge in | no wake-up is lost |
| `queue.Queue` (`Lib/queue.py`) | the deque, `unfinished_tasks`, three conditions on one mutex | `put`, `get`, `task_done`, `join` | the same, and the last task done while items are put | FIFO, bound, `join()` ends |
| `Semaphore`, `Event`, `Barrier` (`Lib/threading.py`) | a counter, a flag, a state and a count under a `Condition` | acquire/release, set/clear/wait, wait/reset/abort | release of several permits, clear before the waiter runs, resets while threads leave | nobody sleeps without need; a barrier lets through those who came together |
| `Thread` (`threading.py`, `_threadmodule.c`) | `_tstate_lock`, `_is_stopped`, `_shutdown_locks` | start, bootstrap, join, `_stop`, `_shutdown` | several joiners, an exception of a signal handler in join, threads started during shutdown | who is called stopped has ended; shutdown waits for all and ends |
| import locks (`Lib/importlib/_bootstrap.py`, `Python/import.c`) | owner, count, waiters per module, `_blocking_on`, `sys.modules` | import statement, `_find_and_load`, `_ModuleLock.acquire`/`release`, `has_deadlock` | circular imports from several threads, modules that fail, looks at locks of others | a module is executed once, imports end |
| asyncio locks and queues (`Lib/asyncio/locks.py`, `queues.py`, `tasks.py`) | deques of futures, `_locked`, `_value`, the loop's `_ready` | acquire, release, wait, notify, get, put, `Task.cancel` | a task that was woken is cancelled before it runs | permits are accounted for, order is kept, no task waits in vain |
| `Future`, `wait()` (`Lib/concurrent/futures/_base.py`) | `_state`, `_condition`, `_waiters`, `_done_callbacks` | `set_result`, `cancel`, `result`, `add_done_callback`, `wait`, `as_completed` | completion and cancellation that race with waiters being installed | final states are final, waiters are told, callbacks are called once |
| `ThreadPoolExecutor` (`thread.py`) | `_work_queue`, `_idle_semaphore`, `_threads`, `_broken`, `_shutdown` | `submit`, `_worker`, `_initializer_failed`, `shutdown`, `_python_exit` | shutdown, exit, collection and a failing initializer at any time | no job lost or run twice, pool grows when it must, workers end |
| `ProcessPoolExecutor` (`process.py`) | pending work items, work ids, call queue, result queue, flags, processes | `submit`, the manager thread, the feeder thread, `terminate_broken`, `shutdown` | workers that die, calls that cannot be sent, cancellation while the pool breaks or is shut down | no call lost or doubled, every future answered, shutdown returns |
| cyclic GC (`Modules/gcmodule.c`) | reference counts in generation lists | `update_refs`, `subtract_refs`, `move_unreachable`, finalizers | resurrection, legacy finalizers | planned as an algorithm |
| interpreter life cycle, parser, compiler, object model, allocator, `multiprocessing`, the rest of the standard library | | | sequential or pure I/O, or not reached yet | not modelled |

How they interact.  Every thread of Python code holds the GIL while it runs
bytecode.  `eval_breaker` is the one flag the eval loop looks at: drop requests
(GIL), `signals_pending` (signals) and `calls_to_do` (pending calls) all end in
`COMPUTE_EVAL_BREAKER`, a load of the three and a store, which `take_gil()`
also runs.  A C signal handler writes the flags at any time; the eval loop then
runs Python handlers, which run bytecode, look at the flags again, and may raise
in the middle of `Thread.join()`.  `Condition` is built on locks; `Queue`,
`Semaphore`, `Event` and `Barrier` on `Condition`; a `Future` has a `Condition`
of its own.  The thread pool drives futures from its workers, from `shutdown()`
and from `_initializer_failed()`, the process pool from its manager and feeder
threads.

## 2. Modules

| module | models | extends |
|---|---|---|
| `GilAbstract` | what the GIL promises: a holder, and a thread that yielded | |
| `Gil` | `take_gil()` and `drop_gil()`, one step per critical section or store | refines `GilAbstract` |
| `GilProofs` | the theorems about `Gil` | `Gil`, TLAPS |
| `Signals` | the C handlers and the main thread's C stack as a sequence of frames | |
| `PendingCalls` | the ring buffer with its own simple GIL | |
| `Condition` | `threading.Condition`: waiters, timeouts, notifications | |
| `Queue` | `queue.Queue` with its three conditions | `Condition` |
| `Synchronization` | `Semaphore`, `BoundedSemaphore`, `Event`, `Barrier` | `Condition` |
| `ThreadLife` | `Thread.start()` to its end, `join()`, `_shutdown()` | |
| `ImportLocks` | the import statement, `_find_and_load()`, `_ModuleLock` | |
| `AsyncSync` | asyncio's `Lock`, `Semaphore`, `Condition`, `Queue` and the tasks that use them | |
| `Futures` | the operations on a future, `result()`, `wait()`, callbacks | |
| `ThreadPool` | the thread pool; its steps use the operators of `Futures` | `Futures` |
| `ProcessPool` | the process pool, its threads and processes | `Futures` |
| `SignalsProofs` | the theorems about `Signals` | `Signals`, TLAPS |
| `PendingCallsProofs` | the theorems about `PendingCalls`, with lemmas on the ring | `PendingCalls`, TLAPS |
| `ThreadingProofs` | the theorems about `Queue`, `Synchronization` and `ThreadLife`, with lemmas on the deques of `Condition` | `Queue`, `Synchronization`, `ThreadLife`, TLAPS |
| `ImportLocksProofs` | the theorems about `ImportLocks` | `ImportLocks`, TLAPS |
| `AsyncSyncProofs` | the theorems about `AsyncSync`, with lemmas on the deques and who is woken from them | `AsyncSync`, TLAPS |
| `ThreadPoolProofs` | the theorems about `ThreadPool` and its `Futures` | `ThreadPool`, TLAPS |
| `ProcessPoolProofs` | the theorems about `ProcessPool` | `ProcessPool`, TLAPS |
| `MCLibrary` | `Queue`, `Synchronization`, `ThreadLife`, `ImportLocks`, `AsyncSync`, one at a time | these five |
| other `MC*` | model values for TLC | the module they name |

**Gil.**  `pc[t]` names the place of thread `t`: `take`, `lock`, `cond_wait`,
`cond_timeout`, `set_breaker`, `ready`, `after_take`, ... for `take_gil()` and
`drop`, `drop_check`, `drop_switch`, `switch_wait`, ... for `drop_gil()`.  Code
inside `gil->mutex` is one step unless it writes a flag that others read
without the mutex: `SET_GIL_DROP_REQUEST` is two stores, `RESET_GIL_DROP_REQUEST`
a store, a load and a store.  A condition variable wakes one waiter if there is
one, a timed wait may time out at any moment (also when signalled at the same
time) and, with `Spurious`, may wake for nothing.  `SwitchModulo` bounds
`switch_number`, an `unsigned long`: only equality with a remembered value is
tested.  `cont[t]` is what follows `drop_gil()`.  `Finalizes` lets the main
thread set `_finalizing` whenever it runs bytecode.

**Signals.**  Every access to a flag is a step.  The main thread's stack holds
frames for the eval loop, `handle_signals()`, a direct `PyErr_CheckSignals()`
and `take_gil()`; `on_main` is the stack of C handlers that interrupt it, which
suspend it.  A C handler on another thread runs beside it.  A Python handler
returns or raises.  `eval_breaker` is restricted to its signals term.

**PendingCalls.**  The GIL is a variable here: its details are in `Gil`.  What
matters is when a thread recomputes `eval_breaker`, and that
`_Py_ThreadCanHandlePendingCalls()` is about the thread that does so.
`Foreign` threads call `Py_AddPendingCall()` without the GIL.  A callback may
add calls, lose the GIL, or fail.  `NPENDINGCALLS` is 3 instead of 32 so that
the ring fills and wraps.

**Condition, Queue, Synchronization.**  What a thread does between acquiring and
releasing the mutex is one step.  `wait()` is three: append a waiter and
release; be notified or time out; acquire again, leave the deque, test again.  A
notification can therefore reach a waiter that has already timed out, and a
thread that never waited can take the item, the slot or the permit.  `Listed(t)`
says that nobody has notified `t` yet, `waits[t]` whether it is inside
`waiter.acquire()`.  The producers, consumers and
joiners of a queue are disjoint sets: a thread that puts and gets by turns is one
of each, since it is in one call at a time.  `Synchronization` has one object in
each behaviour; anybody
may release, set, clear, reset or abort it at any time, and the last thread to
enter a barrier may run an action that fails.  `party` and `index` record who
entered a barrier together.

**ThreadLife.**  `life[c]` is how far a thread is between `start()` and the
deletion of its thread state, `holder[c]` who holds its `_tstate_lock`, `join[j]`
where a caller is in `join()`: acquire, release, the two assignments of
`_stop()`, the maintenance of `_shutdown_locks`, and the `except` clause.
`Interrupt` lets a signal handler raise in the main thread at any of them.

**ImportLocks.**  A module is a sequence of imports; `stack[t]` is what thread
`t` is executing.  The mutex of a module lock is a variable because
`has_deadlock()` runs under it in many steps while other threads go on: each
look at `_blocking_on` and at an owner is a step.  `modules[m]` is `absent`,
`initializing` or `ready`; a module in `Failing` may raise at any point.

**AsyncSync.**  What a task does between two awaits is one step, taken when its
`__step` is at the head of the loop's `ready`.  Each wait is for a future of its
own that nobody else awaits, so task and future share a name: `fut[t]` is
`pending`, `result` or `cancelled`.  `Cancel(t)` cancels the future `t` awaits,
or marks `t` in `must_cancel`.

**Futures, ThreadPool.**  What a method does under the condition of a future is
one step; callbacks are a step after it.  Worker `w` is at `at[w]`, with its
work item in `item[w]`; `_shutdown_lock` is the variable `lock` because it is
held over several steps of `submit()`, `_initializer_failed()` and
`shutdown()`; `SimpleQueue` is a FIFO sequence with atomic operations
(external: `_queuemodule.c` runs under the GIL).  `PutNone` stands for the None
items that `_python_exit()` and the weakref callbacks put one after the other.
`Next` combines the steps of the pool with those of the clients of the futures.

**ProcessPool.**  `manager` is the place of the manager thread: `add`, `watch`,
`wait`, `clear`, `process`, `flag`, `cancel`, `check`, `broken`, `fail`,
`terminate`, `stop`; each turn of a loop is a step.  The call queue is `buffer`, from
which the feeder thread takes, and `pipe`, from which the processes read.  `submit()`
is three steps: it takes `_shutdown_lock` and looks at the flags (`Submit`), enters
the item and wakes the manager (`Enter`), starts processes and the manager thread and
lets the lock go (`Launch`).  `terminate_broken()` does not take that lock, so it may
come between any two of them: the history variable `late` remembers the job that was
in `submit()` when it set the flags, and `Late(f)` says that its item was not in the
dict yet.  A loop over a dict remembers what it held at first (`listed`, `sentinels`)
and goes through it in order (`IsNext`); a turn that finds another size kills the
thread (`Changed`).  `flag_executor_shutting_down()` binds the manager's
`pending_work_items` to a new dict while the executor and `_SafeQueue` keep the old
one: `new_items` and `rebound`.  `Mishaps` names what may go wrong in a run, and each
behaviour picks one set: a process dies in its initializer or in a call (`crash`), a
result cannot be unpickled, so that `recv()` raises (`unpickle`), a call cannot be sent
(`pickle`), futures are cancelled (`cancel`), or `shutdown(cancel_futures=True)`
(`drain`).

**MCLibrary.**  The five modules share no state.  `active` picks one for each
behaviour and the others stay as they began, so one run checks all five, each
with the fairness of its own.

## 3. Runs

| run | instance | what it shows |
|---|---|---|
| `gil_safety` | 3 threads, two of which block, spurious wake-ups, finalization | mutual exclusion; at most one thread in the switch wait; before finalization a switch wait always has a taker; after it only the finalizing thread runs |
| `gil_fair` | 3 CPU-bound threads | refinement of `GilAbstract`, the holder yields to a waiter, the switch wait ends |
| `signals` | 2 signals, 3 arrivals on any thread, 5 frames, direct checks, a main thread that takes the GIL now and then | the flags never disagree for good, failing handlers reschedule, every signal is handled |
| `signals_directlost` | direct checks | a failing handler under `PyErr_CheckSignals()` leaves a signal to nobody (violation) |
| `pending` | 3 threads, one foreign, a ring for 2 calls, 3 calls | each call is run once, in order, and is never unannounced; calls added with the GIL are called |
| `pending_foreign` | a foreign thread | its call is not called while the main thread just runs bytecode (violation) |
| `library` | a queue with one slot, 2 producers, 3 consumers, 2 joiners; 4 threads on a semaphore, an event or a barrier for 3; a thread that starts another, 2 joiners, `_shutdown()`, an interrupt; 3 threads and 2 modules that import each other, one of which may fail; 4 tasks on a lock or semaphore with 2 cancellations, on a condition or queue with one | see below |
| `import_falsealarm` | 3 threads, 3 modules without a circle | `has_deadlock()` reports a deadlock (violation) |
| `processpool` | 3 jobs for one process or 2 jobs for two; crashes with results that cannot be unpickled, cancellation with draining, a call that cannot be sent with draining, or crashes with cancellation and such a call | no call lost or doubled; nothing left behind, futures answered and `shutdown()` returns, but for the cases the properties name |
| `processpool_broken` | the same with crashes and cancellation | futures are never answered after a cancelled one, though no `submit()` was under way (violation) |
| `pool` | 2 jobs; 2 workers, one with a failing initializer, shutdown with and without `cancel_futures`, exit, collection; or 1 worker, `shutdown()` and one client: a reader, a waiter with any `return_when`, or a callback | no job lost, doubled or kept waiting; jobs and workers end; no wake-up lost, each callback called once or owed |
| `pool_hang` | 2 workers, one with a failing initializer, `shutdown()` | `shutdown(wait=True)` hangs (violation) |

Properties of each run (stated and explained above their definitions):

* `gil_safety`: `OneHolder`, `OneSwitchWaiter`, `SwitchHasTaker`,
  `OnlyFinalizerRuns`.
* `gil_fair`: `ImplementsAbstractGil`, `HolderYields`, `SwitchWaitEnds`.
* `signals`: `NoTripForgotten`, `NoSignalForgotten`, `Rescheduled`,
  `EventuallyHandled`.
* `signals_directlost`: `AllRescheduled`.
* `pending`: `InOrder`, `NoCallForgotten`, `MainSeesCalls`, `CalledWithGil`.
* `pending_foreign`: `EventuallyCalled`.
* `library`, of the queue: `FifoOrder` (nothing lost, doubled or overtaken, and
  the bound kept), `NoLostWakeUp` (no more items or slots than threads woken
  for them while one sleeps), `JoinEnds`.
* `library`, of semaphore, event and barrier: `SleepersJustified` (no permit,
  no set flag, no open barrier for somebody asleep), `EventTold` (`True` without
  a timeout, even after a `clear()`), `BarrierTogether` (who gets an index came
  with the full party and nobody else).
* `library`, of threads: `StoppedIsDead`, `ShutdownWaits`, `ShutdownEnds`.
* `library`, of imports: `LoadedOnce` (one thread executes a module, never again
  once it is ready), `ImportsEnd`.
* `library`, of asyncio: `AsyncAccounted` (no permit lost or made, and no permit,
  lock, item or slot left free beside a task that sleeps for it while nobody was
  woken), `AsyncFair` (nobody overtakes), `AsyncServed` (no wait in vain).
* `import_falsealarm`: `NoFalseDeadlock`.
* `processpool`: `CallsAccounted`; `NothingLeft` (what is left when the manager
  thread ends, and of which errors it may die); `FuturesEnd` and `PoolShutdownEnds`,
  which except the futures and processes of a `submit()` that the breaking of the
  pool overtook, the death of the manager thread and an orphaned item (section 5).
  TLC finds a violation when any of these exceptions is dropped.
* `processpool_broken`: `FuturesAnswered`.
* `pool`: `OnePlace`, `GrowsWhenBusy`; `ClientsAnswered` (who sleeps in `result()` is
  woken; a callback is called at most once and not before the end, and one listed on
  a future that is done has been called or somebody is on the way to call it);
  `WaitCorrect` (`pending_calls` counts the futures that may still be notified,
  `return_when` is kept, and a cancelled future that `wait()` counts on will be
  notified, unless `shutdown(cancel_futures=True)` cancelled futures or the pool is
  broken); `DoneIsFinal`, `JobsEnd`, `WorkersEnd`.
* `pool_hang`: `ShutdownReturns`.

Each module also has a type invariant (`TypeOK`, `QueueTypeOK`, `LifeTypeOK`,
...), all of them proved.

*Bounds.*  Three threads are needed for the GIL: a holder, a thread that
yielded, and one that takes; the proofs cover every number.  Two signals show
each order of scanning, three arrivals let one arrive again while it is
handled, five frames hold a handler interrupted inside a handler.  A ring of two
calls fills, and three calls wrap it.  For the queue the interesting races are
between a thread that is woken, one that timed out and one that barges in, so
three consumers; three calls of `put()` fill one slot and make two producers
wait; two joiners tell `notify_all()` from `notify()`.  Four threads on a barrier
for three leave one that waits for the next round.  A semaphore is released by up
to two permits at once, of two.  Two children let one be started by the other
while `_shutdown()` waits.  Two modules that import each other from two sides and
a third thread that wants one of them give each role in a deadlock: who closes
the circle, who is in it, and who waits outside.  A task that holds, one that was
woken and is cancelled, one behind it and one that arrives make four; a second
cancellation may hit the task that the first one let through, which matters where
a permit is handed on.  The process pool's call queue holds `max_workers + 1`
calls, so three jobs fill it when there is one process (`MCInit`); two processes
show a crash of one beside another that works, for which two jobs are enough.  Two
workers and two jobs give an idle, a busy and a missing worker of the thread pool.  The clients of its futures see only their states, so
one client and one worker are enough for what they are told, and the proofs cover
all of them together.  `JoinEnds` and `AsyncServed` are stated of one thread
and one task: joiners and tasks are interchangeable in these modules (which task
is first in `ready` does not matter, since each may yield).
`CHECK_DEADLOCK FALSE` is said where all calls may have been made and everybody
waits for more or has ended.

*Fairness.*  `Gil`: a thread that can go on does (`WF` on its steps), and a
thread that wants to unlock gets `gil->mutex` although others come back to it
(`SF` on `DropUnlock`): the mutexes are held for a few instructions only.
`Signals`: C handlers and the main thread go on, Python handlers return, and
the main thread takes the GIL now and then (other threads exist when signals
are delivered to them).  `PendingCalls`: threads go on; the main thread, when it
waits, gets or requests the GIL (what `gil_fair` shows of `Gil`), and the callbacks
it runs return.  `Queue` (`QueueFair`): consumers and joiners that are notified get
the mutex, and consumers go on consuming; nobody is obliged to put.  `ThreadLife`
(`LifeFair`): threads run and end and a join that has begun goes on; nobody is
obliged to start or join.  `ImportLocks`: some thread that can run does
(`ImportNext`); `ImportsEnd` needs no fairness to each, since none goes on for ever.  `AsyncSync`: the loop runs what is ready (`RunOnce`); a task outside an
object just yields, and whoever holds a lock releases it.  `ThreadPool`: functions,
initializers and callbacks return (`WF` on `WorkerStep`), `submit()`, `shutdown()`
and whoever puts the None items go on, and a worker whose initializer has failed
gets `_shutdown_lock` in the end (`SF` on `InitializerFailed`).  `ProcessPool`: the
manager, the feeder and each process run, a caller inside `submit()` goes on, calls
return unless their process dies.  Nobody is obliged to submit, cancel, crash or
shut down.

## 4. Proofs

Each of the following modules shows `Init => Inv`, `Inv /\ [Next]_vars => Inv'` and
`Inv => P` for an inductive invariant `Inv`; the step has a lemma for each part of
the invariant or for each group of actions.  TLC had checked every `Inv` on the
instances above, and on others, before it was proved.

**Gil.**  `GilProofs` proves for every set of threads, with `GilAssumption` only (the
main thread is one of the threads, `NoThread` is not, `SwitchModulo` is
positive, `Blocking` is a set of threads, the switches are Boolean):

* `TypeCorrect`: the type invariant.
* `MutualExclusion`: one holder.  The inductive invariant is `LockInv`: who is
  inside each mutex, that `ready` means the GIL is still free (so the loop was
  left with the mutex held), and that `locked` with `last_holder = t` is exactly
  `t` being at a place where it holds the GIL.  `OneHolder` alone says nothing
  of the mutex and is not inductive.
* `SingleWaiter`: `SwitchInv`, whoever is in the switch code is `last_holder`,
  so no two are.
* `Switched` (assumes `Spurious = FALSE`): who leaves the switch wait is no
  longer `last_holder` (`ForcedSwitch`).
* `TakerExists`: `TakerInv`, a drop request is set only while some thread is on
  its way to the GIL, and the obligation is handed through `drop_gil()`.  It
  holds until finalization starts.
* `FinalizerAlone`: `FinalizerInv`.
* `Refinement` (assumes `Spurious = FALSE`): initial states map to initial
  states and each step of `Gil` to an abstract step or a stutter (`AbsStep`).

Assuming no spurious wake-up is what the code does: `drop_gil()` has no loop
around `COND_WAIT(gil->switch_cond, ...)`, so a spurious wake-up there ends
forced switching early.  Mutual exclusion does not need the assumption.

**Signals.**  `SignalsProofs`, for every `NSIG`, any number of arrivals and any
depth of nesting.  `StackInv` is the shape of the C stack: bytecode at the bottom,
and above a frame that calls a Python handler and nowhere else, so only the
innermost frame moves.  `TripInv` and `SignalInv` are `NoTripForgotten` and
`NoSignalForgotten` stated by positions of the stack: a frame that will look at a
signal may be anywhere in it.  A frame that raises takes only its own promises with
it and `resignal`s before.  `Rescheduled` follows from the shape: with only
bytecode on the stack nobody is left to look but the flags.

**PendingCalls.**  `PendingCallsProofs`, for any threads, foreign ones among them,
and any size of the ring.  `%` is taken apart once (`WrapIs`: below twice the size
of the ring it subtracts the size or nothing); `QueuedPush` and `QueuedPop` say
that `Push` and `Pop` are `Append` and `Tail` of the contents, from which `InOrder`
is inductive.  `LoopInv`: only the main thread is in `make_pending_calls()`, `busy`
says so, and a callback that adds calls or waits for the GIL comes back to it.
`AnnouncedInv`: without `calls_to_do` the loop has more turns left than there are
calls; this is where the bound `NPENDINGCALLS` of the loop and the capacity of the
ring, one less, matter.  `HoldInv` and `SeenInv` carry `MainSeesCalls`: only who has
the GIL computes `eval_breaker`, `drop_gil()` aside, and what the main thread has
loaded is as new as `calls_to_do`.

**Queue and Synchronization.**  `ThreadingProofs`, with the facts about `Condition`
that both need: `CondInv` (a thread is in one deque, once, and is in `wait()` as
long as it is), `NotifyIs` (`notify(n)` takes `n` threads off, or all), and
`Enough(S, n)` (if one of `S` sleeps, `n` of `S` have been woken), which is kept when
a woken thread uses what it was woken for, or when as many are woken as things
come.  A wake-up can reach a thread that has timed out, but that thread looks once
more before it gives up, so it counts as woken.  From them, with
`unfinished_tasks = Len(queue) + |working|`: `QueueTypes`, `QueueIsFifo`,
`NoWakeUpIsLost`; and `SyncTypes`, `SleepIsJustified`, `EventIsTold`.
`BarrierIsTogether` needs `BarrierInv`: `_count` is the number of threads inside, who
was notified inside finds the barrier open or broken, and while it fills or drains
each thread inside is in `party` at its index.  The assumptions are those of the
modules: the set of threads is finite, sizes are positive, producers, consumers and
joiners are disjoint.  `deque.remove()` is `RemoveFirst` of the community modules,
and `RemoveFirstIs` what it does to a deque without repetitions.

**ThreadLife.**  `ThreadingProofs`, for any threads and whoever starts them.
`SentinelInv`: a thread has its `_tstate_lock` while it lives, and who has passed
`acquire` in `join()` finds it dead; this holds until `interrupted`, as it must
(section 5).  `RegisteredInv`: `_shutdown()` has, or will take, the lock of every
non-daemon thread that runs; `StartInv` says that who starts a thread is alive, so
none begins after `_shutdown()` has seen `_shutdown_locks` empty.

**ImportLocks.**  `ImportLocksProofs`, for any graph of imports.  `OwnerInv`: who
executes a module owns its lock, with a count above the number of its own looks,
and the module is `initializing` until its code is over; so nobody else gets as far
as executing it, and `release()` of a look does not free it.  `has_deadlock()` may
lie (section 5), but who believes it goes on without the lock or raises, and
begins to execute nothing.  `WakeInv` relates `waiters`, `wakeup` and the thread that is awake and
gives `SleepersAreWoken`: no thread sleeps on a free lock with nobody to wake it.

**AsyncSync.**  `AsyncSyncProofs`, for any number of tasks, any limit and any number
of cancellations.  `AsyncInv` is the type invariant with `LoopInv` (a task is in
`ready`, once, unless its future is pending; it has a future while it is in a method
that waits), `DequeInv` (each deque holds, once, the futures of those that are in the
methods that wait in it), `LockInv` (who was woken for a lock finds it free and is
the first of the deque), `OrderInv` (nobody sleeps in front of those a semaphore has
woken, and they run in the order of the deque) and `PermitInv`.  `AsyncAccounted`
alone is not inductive: that a lock is free when a woken task takes it follows from
its being the first, and that from the order of both queues.  `Moved` says once what
a step does to the loop, `Without` and `AppendedIs` what it does to the deques, and
`FirstOfIs`, `AfterFirstIs`, `WakeFirstIs`, `FirstFewIs` whom it wakes.  `AwakeInv` is
the second half of `AsyncAccounted`, that no wakeup is lost: a free lock has no
pending future at the front of its deque; while a semaphore has a value above 0 and
a task asleep, one that was woken has not run yet; a queue has woken as many as there
are items or slots, and who sleeps there is still in the deque.  A cancellation keeps
it because who is cancelled no longer sleeps, and who was woken and is cancelled
passes it on before it leaves.  `AsyncTypeCorrect`, `PermitsAccounted`, and
`AcquiringIsFair`, the action property `AsyncFair`: each step satisfies `FairStep`,
by `OrderInv` and `LockInv`.

**Futures and ThreadPool.**  `ThreadPoolProofs`, for any jobs, workers and clients.
`WaiterInv` counts for each thread in `wait()` the futures that are not settled:
`pending_calls` is their number until its event is set, and when it is, what
`return_when` promises holds.  `PlaceInv`: a work item is in the queue, with one
worker, or with `shutdown()`, in one place at a time, and in one until its future
is done; the item of a cancelled future goes only with `cancel_futures` or in a broken
pool.  `DebtInv`: who ended a future owes its callbacks, one debtor, and a callback
listed on a future that is done was called once or has its debtor.
`GrowthInv`: while the pool may grow, the items in the queue, the permits of
`_idle_semaphore` and the workers about to release it add up to the workers on their
way to the queue, `submit()` included.  From them: `JobsHaveOnePlace`,
`PoolGrowsWhenBusy`, `ResultsAreFinal`, `WaitersAreTold`, `ReadersAreWoken`,
`ClientsGetAnswers`.

**ProcessPool.**  `ProcessPoolProofs`, for any jobs, processes and clients and every
set of mishaps.  `PoolInv` is the type invariant with `ClientsAway` (nobody is in
`result()` or `wait()`: what those do is in `ThreadPoolProofs`), `OrderInv` (which
futures there are: those of the calls of `submit()` so far), `AlwaysInv` (the place of
the manager thread against its flags) and `CallInv`: as long as the manager thread
works, `FlagInv`, and for each future where its call is (`CallOf`) and what is still
to be started (`WorkOf`).  `CallsAccounted` is not inductive without the flags: a call
is not lost between the two dicts because `submit()` enters nothing after
`shutdown`, and the work ids are gone when the manager's dict is another one; `Lost`
names the places of a manager that could not unpickle a result, which goes on to break
the pool.  This gives `ProcessPoolTypeCorrect` and `CallsCorrect`.  `NothingIsLeft`
holds of every set of mishaps too: its exceptions are in the property, not in an
assumption.  `EndInv` says what may be unfinished at each place where the manager
thread takes its leave.  Once the pool is shut down only `late` is entered and only
its `submit()` starts a process (`LateEnters`, `LateStarts`).  When all calls can be
sent, every item in the dict belongs to a future that was not finished
(`OpenItemsStep`), so `set_exception()` raises of a cancelled future only.  TLC had
checked these parts with the four sets of `MCProcessPool.cfg` and with all five
mishaps at once.

Only model-checked:

* everything temporal (`HolderYields`, `SwitchWaitEnds`, `EventuallyHandled`,
  `CalledWithGil`, `JoinEnds`, `ShutdownEnds`, `ImportsEnd`, `AsyncServed`,
  `FuturesEnd`, `PoolShutdownEnds`, `JobsEnd`, `WorkersEnd`): TLAPS does not reach
  liveness under fairness;
* the violations, which are about one behaviour each.

## 5. Where code and words disagree

* `signals_directlost`: `signalmodule.c:1858` says a failed check is
  re-scheduled; after a direct `PyErr_CheckSignals()` only `is_tripped` is set
  and the eval loop does not look at it.
* `pending_foreign`: `Doc/c-api/init.rst` says the call is eventually made; an
  addition without the GIL computes `eval_breaker` for the wrong thread.
* `pool_hang`: `thread.py:230` says the None prevents workers from blocking for
  ever; `_initializer_failed()` drains it.
* `import_falsealarm`: `Doc/library/imp.rst:266` excepts only circular imports
  from what import locks prevent.  `has_deadlock()` reads owners and
  `_blocking_on` of threads that go on meanwhile.  It can meet itself on a path
  that never existed at one time, and the thread then goes on with a partially
  initialized module although no modules import each other.
* `processpool_broken`: `Doc/library/concurrent.futures.rst:263` says that since
  3.3 a dead worker means `BrokenProcessPool` and no more freezes.
  `terminate_broken()` calls `set_exception()` on a cancelled future, which
  raises in the manager thread: the futures behind it stay pending for ever.

Met while modelling and not kept as runs:

* With `Finalizes`, `drop_gil()` of the finalizing thread can see the drop
  request of a thread between its unlock of `gil->mutex` and
  `RESET_GIL_DROP_REQUEST` (`ceval_gil.h:265`) and wait for a switch that nobody
  will make.
* In a program with a single thread a signal that interrupts it between load and
  store of `COMPUTE_EVAL_BREAKER` in `take_gil()` waits for the next
  `take_gil()` (`EventuallyHandled` needs the fairness of `CallCompute`).
* `shutdown(cancel_futures=True)` of the thread pool takes cancelled futures out
  of the queue without `set_running_or_notify_cancel()`, so a thread in `wait()`
  is never told of them, although `_base.py:276-281` says that it returns when all
  futures complete, cancelled ones included.  `CancelledIsNotified` says so of all
  other cancelled futures.  In a broken pool a cancelled item makes `set_exception()`
  raise and the items behind it stay pending.
* `JoinHarmless` of `ThreadLife` is not an invariant of the `library` instance:
  with two joiners one can be in `_stop()` while the other holds
  `_tstate_lock`, so the assertion fails and the `except` clause releases the
  lock of the other, against the comment at `threading.py:1036`.  An
  interrupted `join()` can release the lock of a thread that is alive
  (bpo-45274); `StoppedIsDead` and `ShutdownWaits` therefore exclude it.
* `ProcessPool`, a `submit()` under way when the pool breaks (`late`):
  `terminate_broken()` sets the flags and fails the items without `_shutdown_lock`
  (`process.py:446-468`).  An item entered after the loop is never failed and its
  future never answered (`FuturesEnd` with `Late`); one entered during the loop
  changes the size of the dict and ends the manager thread by a `RuntimeError`, by a
  crash of a worker alone (`NothingLeft`); and with processes started one by one
  (`dynamic`) the process it starts is told by nobody to stop, so that `p.join()` and
  with it `shutdown()` hang (`PoolShutdownEnds`).
* `ProcessPool` with unsendable calls and `cancel_futures`: after
  `flag_executor_shutting_down()` the feeder removes an unsendable call from the
  old dict, the manager keeps it in the new one, and `shutdown()` hangs
  (`Orphaned`).  With unsendable calls the dict can also change size while the manager
  iterates over it, which ends the manager thread.
* A task that `asyncio.Condition.notify()` has woken and that is cancelled
  before it runs swallows the notification.

## 6. Not modelled

Creation and destruction of the GIL and fork (`_PyEval_ReInitThreads`), the
wakeup fd and `signal.signal()`, sub-interpreters, `PyThreadState_SetAsyncExc`,
`KeyboardInterrupt` inside `Condition.wait()`, `RLock` (a lock with an owner and
a count), `LifoQueue` and `PriorityQueue` (the order of items only),
`as_completed()`, `Executor.map()`, callbacks that call the executor, fork
handlers, a thread that cannot be started, `_DummyThread` and `Timer`, finders
and loaders, parent packages, the weak references of `_module_locks`,
`asyncio.Event`, `Queue.join()`, `gather()`, `wait()`, `wait_for()`, timers,
transports and `call_soon_threadsafe()`, a worker process that dies while it
holds the lock of a queue, `shutdown(wait=False)` and `_python_exit()` of the
process pool.

Where a module is coarser than the code.  `Signals` lets one C handler of a signal
run at a time in the whole process, although the mask that defers it is that of its
thread: a second one stores the same values to the same flags in the same order.
`ImportLocks` takes `sys.modules.pop()` and the insertion that follows
(`_bootstrap.py:699-700`) as one step: who looks without the lock in between sees
no module, waits for the lock and looks again, which is what a look before the step
leads to as well.  `ShutdownWaits` is about a `_shutdown()`
that returns: one that ends by the `RuntimeError` of a release promises nothing.  In `ProcessPool` a process that is terminated is
dead at once, and the end of the loop in `terminate_broken()` with the `clear()` that
follows it is one step.  The feeder of a pool that breaks while it takes an item
which a dict bound anew still holds finds the future finished and stays where it is;
in the code the exception ends its thread.

The GIL is not composed with the modules above it: a step of
theirs is what runs between two points at which the eval loop may switch, or a
blocking call, as far as others can see it.  The parser, compiler, object model
and the rest of the standard library are most of the source; they are sequential
or I/O and stay outside, so the map covers a small share of the repository.  The
components without a module are listed in the inventory and in `PROJECT.json`
with the reason.

## 7. Plan

1. Done: `Gil` with its abstract lock and proofs, `Signals`, `PendingCalls`,
   `Condition` with `Queue` and `Synchronization`, `ThreadLife`, `ImportLocks`,
   `AsyncSync`, `Futures`, `ThreadPool`, `ProcessPool`.
2. Extend: the garbage collector's algorithm against reachability,
   `as_completed()` and callbacks that submit in `Futures`/`ThreadPool`,
   asyncio's `wait_for()`, `gather()` and `Event`, `multiprocessing.Pool`.
3. Prove: every safety property is proved.  What is left is an abstract bounded FIFO
   that `Queue` implements, with `FifoOrder` as the invariant of the mapping, and with
   each extension of 2 its invariants.
