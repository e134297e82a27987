----------------------------- MODULE ThreadPool ------------------------------
(***************************************************************************)
(* concurrent.futures.ThreadPoolExecutor (Lib/concurrent/futures/thread.py)*)
(* on the futures of module Futures.                                       *)
(*                                                                         *)
(* One thread submits, one calls shutdown(), one leaves the interpreter    *)
(* (_python_exit()), anybody cancels futures, and the executor may be      *)
(* garbage collected.  A step is what a thread does between two accesses   *)
(* to what others see: the work queue (a SimpleQueue, FIFO and atomic),    *)
(* the idle semaphore, the flags, a future under its condition.            *)
(* _shutdown_lock is held over several steps and is a variable.            *)
(***************************************************************************)
EXTENDS Futures, Sequences, SequencesExt

CONSTANTS Worker,       \* threads it may start
          NoOne,        \* _shutdown_lock is free
          BadStart,     \* workers whose initializer may raise
          MaxShutdowns, \* bound: calls of shutdown()
          CancelFutures,\* may shutdown() be called with cancel_futures=True?
          Cancels,      \* futures whose cancel() somebody may call
          Ends          \* ways in which a program may end the pool: a subset
                        \* of {"shutdown", "exit", "collected"}

ASSUME ThreadPoolAssumption ==
  /\ IsFiniteSet(Worker) /\ Worker # {} /\ BadStart \subseteq Worker
  /\ NoOne \notin Worker \cup {"submit", "shutdown"}
  /\ "submit" \notin Worker /\ "shutdown" \notin Worker
  /\ MaxShutdowns \in Nat /\ CancelFutures \in BOOLEAN
  /\ Cancels \subseteq Job /\ Ends \subseteq {"shutdown", "exit", "collected"}

VARIABLES max_workers,    \* _max_workers
          ends,           \* ways in which this program may end the pool
          work_queue,     \* _work_queue: <<f>> is a work item, <<>> is None
          idle_semaphore, \* value of _idle_semaphore
          threads,        \* _threads
          broken, shutdown, collected, \* flags of the executor; it is gone
          exiting,        \* the global _shutdown
          owed,           \* None items that _python_exit() and the weakref
                          \* callbacks have still to put
          lock,           \* who holds _shutdown_lock
          at,             \* where each worker is
          item,           \* its work item
          submitting,     \* submit() has put its item, the lock is held
          closer,         \* where the thread in shutdown() is
          closing,        \* its work item
          shutdowns,      \* calls of shutdown() so far
          cancel_futures, \* had one of them cancel_futures=True?
          cancelling      \* futures whose cancel() is about to call back

size    == <<max_workers, idle_semaphore, threads>>
flags   == <<broken, shutdown, collected, exiting>>
workers == <<at, item>>
ending  == <<closer, closing, shutdowns, cancel_futures>>
others  == <<ends, owed, cancelling>>
pool == <<work_queue, size, flags, lock, workers, submitting, ending, others>>
vars == <<futures, pool>>

None == <<>>
Locker == Worker \cup {NoOne, "submit", "shutdown"}
At == {"unborn", "init", "failed", "drain", "break", "told", "get", "got",
       "running", "called", "idle", "none", "dead", "lost"}
Ended == {"dead", "lost"}  \* by a None item; by a failed initializer
Closer == {"idle", "drain", "cancel", "told", "put", "join"}

Init == /\ FuturesInit
        /\ max_workers \in 1 .. Cardinality(Worker)
        /\ ends \in SUBSET Ends
        /\ work_queue = <<>> /\ idle_semaphore = 0 /\ threads = {}
        /\ broken = FALSE /\ shutdown = FALSE /\ collected = FALSE
        /\ exiting = FALSE /\ owed = 0 /\ lock = NoOne
        /\ at = [w \in Worker |-> "unborn"]
        /\ item = [w \in Worker |-> None]
        /\ submitting = FALSE
        /\ closer = "idle" /\ closing = None /\ shutdowns = 0
        /\ cancel_futures = FALSE
        /\ cancelling = {}

------------------------------------------------------------------------------
(* submit()                                                                *)

\* What submit() tests under the locks; the mutant forgets one flag.
OpenLate == ~broken /\ ~exiting
Open     == ~broken /\ ~shutdown /\ ~exiting

\* Under both locks: create the future and put the work item.
Submit(f) ==
  /\ lock = NoOne /\ ~collected
  /\ Open
  /\ state[f] = "none"
  /\ Create(f)
  /\ work_queue' = Append(work_queue, <<f>>)
  /\ submitting' = TRUE
  /\ lock' = "submit"
  /\ UNCHANGED <<size, flags, others, workers, ending>>

\* May a thread be started?  The mutant is content with one.
RoomForFirst == threads = {}
RoomForThread == Cardinality(threads) < max_workers

\* _adjust_thread_count(): take an idle worker, or start one if it may; then
\* the locks are released.
AdjustThreadCount ==
  /\ submitting
  /\ submitting' = FALSE /\ lock' = NoOne
  /\ \/ /\ idle_semaphore > 0
        /\ idle_semaphore' = idle_semaphore - 1
        /\ UNCHANGED <<threads, at>>
     \/ /\ idle_semaphore = 0 /\ RoomForThread
        /\ \E w \in Worker \ threads :
             /\ threads' = threads \cup {w}
             /\ at' = [at EXCEPT ![w] = "init"]
        /\ UNCHANGED idle_semaphore
     \/ /\ idle_semaphore = 0 /\ ~RoomForThread
        /\ UNCHANGED <<idle_semaphore, threads, at>>
  /\ UNCHANGED <<futures, max_workers, work_queue, flags, others, item, ending>>

------------------------------------------------------------------------------
(* _worker()                                                               *)

GoTo(w, l) == at' = [at EXCEPT ![w] = l]

\* initializer(*initargs): returns, or raises.
Initialize(w) ==
  /\ at[w] = "init"
  /\ GoTo(w, "get") \/ (w \in BadStart /\ GoTo(w, "failed"))
  /\ UNCHANGED <<futures, work_queue, size, flags, others, lock, item,
                 submitting, ending>>

\* work_queue.get(block=True)
Get(w) ==
  /\ at[w] = "get" /\ work_queue # <<>>
  /\ work_queue' = Tail(work_queue)
  /\ item' = [item EXCEPT ![w] = Head(work_queue)]
  /\ GoTo(w, IF Head(work_queue) = None THEN "none" ELSE "got")
  /\ UNCHANGED <<futures, size, flags, others, lock, submitting, ending>>

OnItem(w, Op(_)) == \E f \in Job : item[w] = <<f>> /\ Op(f)

\* Mutant: a cancelled item is run like any other.
StartAnyway(w) ==
  /\ at[w] = "got"
  /\ OnItem(w, LAMBDA f : /\ state' = [state EXCEPT ![f] = "RUNNING"]
                          /\ UNCHANGED <<failed, reader, waiter, callback>>)
  /\ GoTo(w, "running")
  /\ UNCHANGED <<work_queue, size, flags, others, lock, item, submitting,
                 ending>>

\* _WorkItem.run(): a cancelled item is skipped.
Start(w) ==
  /\ at[w] = "got"
  /\ \/ OnItem(w, SetRunning) /\ GoTo(w, "running")
     \/ OnItem(w, NotifyCancel) /\ GoTo(w, "idle")
  /\ UNCHANGED <<work_queue, size, flags, others, lock, item, submitting,
                 ending>>

\* fn returns or raises: set_result() or set_exception().
Run(w) ==
  /\ at[w] = "running"
  /\ OnItem(w, LAMBDA f : Finish(f, "result") \/ Finish(f, "exception"))
  /\ GoTo(w, "called")
  /\ UNCHANGED <<work_queue, size, flags, others, lock, item, submitting,
                 ending>>

\* The done callbacks of the item.
CallBack(w) ==
  /\ at[w] = "called"
  /\ OnItem(w, InvokeCallbacks)
  /\ GoTo(w, "idle")
  /\ UNCHANGED <<work_queue, size, flags, others, lock, item, submitting,
                 ending>>

\* _idle_semaphore.release(), if the executor is still there.
ReleaseIdle(w) ==
  /\ at[w] = "idle"
  /\ idle_semaphore' = idle_semaphore + (IF collected THEN 0 ELSE 1)
  /\ item' = [item EXCEPT ![w] = None]
  /\ GoTo(w, "get")
  /\ UNCHANGED <<futures, max_workers, work_queue, threads, flags, others, lock,
                 submitting, ending>>

\* The last act of a worker: put the None back for the next one; the mutant
\* does not.
KeepNone == UNCHANGED work_queue
PassNone == work_queue' = Append(work_queue, None)

\* A None item: end and pass it on when the pool is to end, else ignore it.
NoneItem(w) ==
  /\ at[w] = "none"
  /\ IF exiting \/ collected \/ shutdown
     THEN /\ shutdown' = (shutdown \/ ~collected)
          /\ PassNone
          /\ GoTo(w, "dead")
     ELSE /\ UNCHANGED <<shutdown, work_queue>>
          /\ GoTo(w, "get")
  /\ UNCHANGED <<futures, size, broken, collected, exiting, others, lock,
                 item, submitting, ending>>

------------------------------------------------------------------------------
(* _initializer_failed()                                                   *)

\* Take the lock and mark the pool broken; nothing when it was collected.
InitializerFailed(w) ==
  /\ at[w] = "failed"
  /\ \/ collected /\ GoTo(w, "lost") /\ UNCHANGED <<lock, broken>>
     \/ /\ ~collected /\ lock = NoOne
        /\ lock' = w
        /\ broken' = TRUE
        /\ GoTo(w, "drain")
  /\ UNCHANGED <<futures, work_queue, size, shutdown, collected, exiting,
                 others, item, submitting, ending>>

\* Mutant: the items are thrown away.
DrainDiscards(w) ==
  /\ at[w] = "drain"
  /\ IF work_queue = <<>>
     THEN /\ lock' = NoOne
          /\ GoTo(w, "lost")
          /\ UNCHANGED <<work_queue, item>>
     ELSE /\ work_queue' = Tail(work_queue)
          /\ UNCHANGED <<lock, workers>>
  /\ UNCHANGED <<futures, size, flags, submitting, ending, others>>

\* get_nowait(): an item, a None that is dropped, or Empty.
Drain(w) ==
  /\ at[w] = "drain"
  /\ IF work_queue = <<>>
     THEN /\ lock' = NoOne
          /\ GoTo(w, "lost")
          /\ UNCHANGED <<work_queue, item>>
     ELSE /\ work_queue' = Tail(work_queue)
          /\ item' = [item EXCEPT ![w] = Head(work_queue)]
          /\ GoTo(w, IF Head(work_queue) = None THEN "drain" ELSE "break")
          /\ UNCHANGED lock
  /\ UNCHANGED <<futures, size, flags, others, submitting, ending>>

\* set_exception(BrokenThreadPool(...)); on a cancelled future it raises
\* InvalidStateError, which leaves _initializer_failed() and the thread.
BreakItem(w) ==
  /\ at[w] = "break"
  /\ \/ /\ OnItem(w, LAMBDA f : Finish(f, "exception"))
        /\ GoTo(w, "told")
        /\ UNCHANGED lock
     \/ /\ OnItem(w, LAMBDA f : state[f] \in Done)
        /\ lock' = NoOne
        /\ GoTo(w, "lost")
        /\ UNCHANGED futures
  /\ UNCHANGED <<work_queue, size, flags, others, item, submitting, ending>>

BreakCallBack(w) ==
  /\ at[w] = "told"
  /\ OnItem(w, InvokeCallbacks)
  /\ GoTo(w, "drain")
  /\ UNCHANGED <<work_queue, size, flags, others, lock, item, submitting,
                 ending>>

------------------------------------------------------------------------------
(* shutdown(), cancel(), _python_exit() and garbage collection             *)

\* shutdown(): take the lock, set the flag, drain the queue or not.
Shutdown ==
  /\ "shutdown" \in ends
  /\ closer = "idle" /\ shutdowns < MaxShutdowns
  /\ lock = NoOne /\ ~collected
  /\ lock' = "shutdown"
  /\ shutdown' = TRUE
  /\ shutdowns' = shutdowns + 1
  /\ \/ closer' = "put" /\ UNCHANGED cancel_futures
     \/ CancelFutures /\ closer' = "drain" /\ cancel_futures' = TRUE
  /\ UNCHANGED <<futures, work_queue, size, broken, collected, exiting,
                 others, workers, submitting, closing>>

\* get_nowait() until Empty.
ShutdownDrain ==
  /\ closer = "drain"
  /\ IF work_queue = <<>>
     THEN closer' = "put" /\ UNCHANGED <<work_queue, closing>>
     ELSE /\ work_queue' = Tail(work_queue)
          /\ closing' = Head(work_queue)
          /\ closer' = IF Head(work_queue) = None THEN "drain" ELSE "cancel"
  /\ UNCHANGED <<futures, size, flags, others, lock, workers, submitting,
                 shutdowns, cancel_futures>>

\* work_item.future.cancel()
ShutdownCancel ==
  /\ \E f \in Job :
       /\ closing = <<f>>
       /\ \/ /\ closer = "cancel"
             /\ \/ CancelPending(f) /\ closer' = "told"
                \/ state[f] \in Cancelled /\ closer' = "drain" /\ UNCHANGED futures
          \/ /\ closer = "told"
             /\ InvokeCallbacks(f)
             /\ closer' = "drain"
  /\ UNCHANGED <<work_queue, size, flags, others, lock, workers, submitting,
                 closing, shutdowns, cancel_futures>>

\* Put the None item, release the lock; join the threads or not.
ShutdownPut ==
  /\ closer = "put"
  /\ work_queue' = Append(work_queue, None)
  /\ lock' = NoOne
  /\ closing' = None
  /\ closer' \in {"join", "idle"}
  /\ UNCHANGED <<futures, size, flags, others, workers, submitting,
                 shutdowns, cancel_futures>>

\* t.join() of every thread.
ShutdownJoin ==
  /\ closer = "join"
  /\ \A w \in threads : at[w] \in Ended
  /\ closer' = "idle"
  /\ UNCHANGED <<futures, work_queue, size, flags, others, lock, workers,
                 submitting, closing, shutdowns, cancel_futures>>

\* Future.cancel() by any thread, then the callbacks.
Cancel(f) ==
  /\ \/ /\ f \in Cancels
        /\ CancelPending(f)
        /\ cancelling' = cancelling \cup {f}
     \/ /\ f \in cancelling
        /\ InvokeCallbacks(f)
        /\ cancelling' = cancelling \ {f}
  /\ UNCHANGED <<work_queue, size, flags, ends, owed, lock, workers, submitting,
                 ending>>

\* _python_exit(): the flag, set when submit() is not inside; then a None for
\* each thread that was started.
PythonExit ==
  /\ "exit" \in ends /\ ~exiting /\ ~submitting
  /\ exiting' = TRUE
  /\ owed' = owed + Cardinality(threads)
  /\ UNCHANGED <<futures, work_queue, size, broken, shutdown, collected, lock,
                 workers, submitting, ending, ends, cancelling>>

\* The last reference to the executor goes: nobody is in one of its methods.
\* The weakref callback of each thread that lives puts a None.
Collect ==
  /\ "collected" \in ends /\ ~collected
  /\ ~submitting /\ closer = "idle" /\ \A w \in Worker : lock # w
  /\ collected' = TRUE
  /\ owed' = owed + Cardinality({w \in threads : at[w] \notin Ended})
  /\ UNCHANGED <<futures, work_queue, size, broken, shutdown, exiting, lock,
                 workers, submitting, ending, ends, cancelling>>

PutNone ==
  /\ owed > 0
  /\ owed' = owed - 1
  /\ work_queue' = Append(work_queue, None)
  /\ UNCHANGED <<futures, size, flags, lock, workers, submitting, ending,
                 ends, cancelling>>

------------------------------------------------------------------------------
WorkerStep(w) == \/ Initialize(w) \/ Get(w) \/ Start(w) \/ Run(w) \/ CallBack(w)
                 \/ ReleaseIdle(w) \/ NoneItem(w) \/ InitializerFailed(w)
                 \/ Drain(w) \/ BreakItem(w) \/ BreakCallBack(w)

CloserStep == ShutdownDrain \/ ShutdownCancel \/ ShutdownPut \/ ShutdownJoin

Next == \/ \E w \in Worker : WorkerStep(w)
        \/ \E f \in Job : Submit(f) \/ Cancel(f)
        \/ AdjustThreadCount \/ Shutdown \/ CloserStep
        \/ PythonExit \/ Collect \/ PutNone
        \/ (ClientStep /\ UNCHANGED pool)

Spec == Init /\ [][Next]_vars

\* Functions and initializers return; the threads of the pool and in shutdown()
\* run.
Fairness ==
  /\ \A w \in Worker : WF_vars(WorkerStep(w))
  /\ \A w \in BadStart : SF_vars(InitializerFailed(w))
  /\ WF_vars(AdjustThreadCount) /\ WF_vars(CloserStep) /\ WF_vars(PutNone)

FairSpec == Spec /\ Fairness

------------------------------------------------------------------------------
(* Properties                                                              *)

PoolTypeOK ==
  /\ FuturesTypeOK
  /\ work_queue \in Seq({None} \cup {<<f>> : f \in Job})
  /\ max_workers \in 1 .. Cardinality(Worker) /\ ends \subseteq Ends
  /\ idle_semaphore \in Nat /\ threads \subseteq Worker
  /\ {broken, shutdown, collected, exiting, submitting, cancel_futures}
       \subseteq BOOLEAN
  /\ owed \in Nat /\ lock \in Locker
  /\ at \in [Worker -> At]
  /\ item \in [Worker -> {None} \cup {<<f>> : f \in Job}]
  /\ closer \in Closer /\ closing \in {None} \cup {<<f>> : f \in Job}
  /\ shutdowns \in 0 .. MaxShutdowns /\ cancelling \subseteq Job

\* How many times f is in the queue or in the hands of somebody who has taken
\* it off and has not settled it.
Queued(f) == Cardinality({i \in DOMAIN work_queue : work_queue[i] = <<f>>})
Held(f, labels) == Cardinality({w \in Worker : item[w] = <<f>> /\ at[w] \in labels})
Places(f) == Queued(f) + Held(f, {"got", "running", "break"})
             + (IF closer = "cancel" /\ closing = <<f>> THEN 1 ELSE 0)

\* No job is lost and none is run twice: a pending future is in the queue or in
\* one pair of hands, a running one is run by one worker, a settled one is
\* nowhere, through shutdown, cancellation and a broken pool.
OnePlace == \A f \in Job :
  /\ state[f] = "PENDING" => Places(f) = 1
  /\ state[f] = "RUNNING" => Places(f) = 1 /\ Held(f, {"running"}) = 1
  /\ state[f] = "CANCELLED" => Places(f) <= 1 /\ Held(f, {"running"}) = 0
  /\ state[f] \in Settled => Places(f) = 0

\* While no call of shutdown() asked for cancel_futures and no initializer failed,
\* the work item of a cancelled future is still there for a worker, which tells
\* those who wait for the future.  (Those two throw the item away: wait() goes on.)
CancelledIsNotified == \A f \in Job :
  state[f] = "CANCELLED" /\ ~cancel_futures /\ ~broken => Places(f) = 1

\* A thread in wait() is not sent away too early, and not left behind: it has been
\* told once what it waits for is settled, and a future that was cancelled is still
\* in the hands of the pool, but for the two exceptions above.
WaitCorrect == PendingExact /\ WaitKeepsPromise /\ CancelledIsNotified

\* Who is about to call back for f: the worker that ran or broke its item, the
\* thread in shutdown() or one in cancel().
Debtors(f) == Held(f, {"called", "told"})
              + (IF closer = "told" /\ closing = <<f>> THEN 1 ELSE 0)
              + (IF f \in cancelling THEN 1 ELSE 0)

\* A callback added before its future was done has been called, once, or exactly
\* one thread is about to call it.
CallbackDue == \A f \in Job :
  callback[f].at = "listed" /\ state[f] \in Done => callback[f].calls + Debtors(f) = 1

\* Who asks a future for its end, by result() or by a callback, is told, once and
\* not before the end, whoever ends the future and however the pool ends.
ClientsAnswered == ResultAnswered /\ CallbackOnce /\ CallbackDue

\* cancel() that returned True stays true, and a result is never replaced.
DoneIsFinal == [][\A f \in Job :
  /\ state[f] \in Cancelled => state'[f] \in Cancelled
  /\ state[f] = "FINISHED" => state'[f] = "FINISHED"]_vars

\* "if idle threads are available, don't spin new threads": although the idle
\* semaphore is released after each item and a worker that takes the next one
\* does not acquire it, no item ever has to wait for a busy worker while the
\* pool may grow.
GrowsWhenBusy ==
  (/\ lock # "submit" /\ Cardinality(threads) < max_workers
   /\ ~shutdown /\ ~exiting /\ ~collected
   /\ \A w \in threads : at[w] \notin {"failed", "drain", "break", "told"} \cup Ended)
  => Len(work_queue) <= Cardinality({w \in threads : at[w] \in {"init", "get", "idle"}})

\* Some initializer has failed.
Failing == \E w \in Worker : at[w] = "lost"

\* Every job that was submitted is done in the end, whether the pool goes on or
\* is shut down, left or lost, unless an initializer failed.
JobsEnd == (\E f \in Job : state[f] = "PENDING")
             ~> (\A f \in Job : state[f] \in Done \cup {"none"}) \/ Failing

\* Every worker ends after shutdown(), at exit and when the executor is
\* collected: the None is passed on, unless an initializer failed.
WorkersEnd == shutdown \/ exiting \/ collected ~>
  (\A w \in threads : at[w] = "dead") \/ Failing

\* "Send a wake-up to prevent threads calling _work_queue.get(block=True) from
\* permanently blocking": shutdown(wait=True) returns.
ShutdownReturns == closer = "join" ~> closer = "idle"
==============================================================================
