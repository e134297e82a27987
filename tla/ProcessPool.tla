----------------------------- MODULE ProcessPool -----------------------------
(***************************************************************************)
(* concurrent.futures.ProcessPoolExecutor (Lib/concurrent/futures/         *)
(* process.py): submit() and shutdown(), the manager thread, the feeder    *)
(* thread of the call queue, and worker processes that may die.            *)
(*                                                                         *)
(* A step of the manager is one turn of a loop or one blocking call.       *)
(* _shutdown_lock is held from the first to the third step of submit();    *)
(* all other uses of it are one step.  The call queue is the buffer the    *)
(* feeder takes from and the pipe the workers read; a pipe is never full.  *)
(***************************************************************************)
EXTENDS Futures, Naturals, Sequences, SequencesExt

CONSTANTS Orders,     \* jobs that may be submitted, in this order
          Process,    \* worker processes that can be there
          Unpicklable,\* jobs whose call cannot be sent
          Mishaps     \* what may happen: sets of "crash" of a worker, "cancel"
                      \* of a future, "drain" at shutdown (cancel_futures),
                      \* "pickle": there are unpicklable jobs, and "unpickle":
                      \* a result cannot be unpickled

NoOne == "no_one"
Stop  == "None"   \* the None item that ends a worker
Idle  == {"none", "init", "idle", "dead"} \* what a process does, but for a job

ASSUME ProcessPoolAssumption ==
  /\ Unpicklable \subseteq Job /\ IsFiniteSet(Process)
  /\ \A order \in Orders : order \in Seq(Job) /\ IsInjective(order)
  /\ Job \cap ({NoOne, Stop} \cup Idle) = {}

VARIABLES
  max_workers, dynamic, \* _max_workers, _safe_to_dynamically_spawn_children
  mishaps, order,     \* those of this run
  pending_work_items, \* the dict of the executor and of _SafeQueue
  new_items, rebound, \* the manager's own, once it has made a new one
  work_ids,           \* _work_ids
  buffer, pipe,       \* _call_queue
  result_queue,
  process,            \* what each process does, or the job it runs
  idle_semaphore,
  broken, shutdown, cancel_pending, \* flags of the executor
  wakeup,             \* is there a byte in _ThreadWakeup?
  submitting, entered,\* the job in submit(), which holds _shutdown_lock; is its
                      \* item in the dict?
  late,               \* history: the job in submit() when the pool broke
  manager,            \* where the manager thread is
  result_item,        \* and what it has received
  sentinels,          \* the processes it watches
  listed, todo,       \* a loop over the dict: its items, those to come
  unsent,             \* None items that are still to be put
  feeder, feeding,    \* where the feeder thread is with a job it cannot send
  closer              \* where the caller of shutdown() is

queues   == <<work_ids, buffer, pipe, result_queue>>
items    == <<pending_work_items, new_items, rebound>>
flags    == <<broken, shutdown, cancel_pending>>
config   == <<max_workers, dynamic, mishaps, order>>
local    == <<result_item, sentinels, listed, todo, unsent>>
feed     == <<feeder, feeding>>
lock     == <<submitting, entered>>
vars == <<futures, config, items, queues, process, idle_semaphore, flags, wakeup,
          lock, late, manager, local, feed, closer>>

Init ==
  /\ FuturesInit
  /\ max_workers \in 1 .. Cardinality(Process) /\ dynamic \in BOOLEAN
  /\ mishaps \in Mishaps /\ order \in Orders
  /\ pending_work_items = {} /\ new_items = {} /\ rebound = FALSE
  /\ work_ids = <<>> /\ buffer = <<>> /\ pipe = <<>> /\ result_queue = <<>>
  /\ process = [p \in Process |-> "none"] /\ idle_semaphore = 0
  /\ broken = FALSE /\ shutdown = FALSE /\ cancel_pending = FALSE
  /\ wakeup = FALSE /\ submitting = NoOne /\ entered = FALSE /\ late = NoOne
  /\ manager = "none" /\ result_item = NoOne /\ sentinels = {}
  /\ listed = {} /\ todo = {} /\ unsent = 0
  /\ feeder = "idle" /\ feeding = NoOne /\ closer = "idle"

Processes == {p \in Process : process[p] # "none"}
Alive     == {p \in Processes : process[p] # "dead"}

\* The manager's pending_work_items: it is the executor's until it is bound anew.
Items == IF rebound THEN new_items ELSE pending_work_items
WithoutItem(f) == /\ pending_work_items' = IF rebound THEN pending_work_items
                                           ELSE pending_work_items \ {f}
                  /\ new_items' = new_items \ {f}
                  /\ UNCHANGED rebound

\* call_queue.full(): max_workers + EXTRA_QUEUED_CALLS items were put and not got.
Full == Len(buffer) + Len(pipe) >= max_workers + 1

------------------------------------------------------------------------------
(* submit(), shutdown() and Future.cancel()                                *)

\* Take the lock and look at the flags; _queue_count futures are there.
_queue_count == Cardinality({f \in Job : state[f] # "none"})

Submit(f) == /\ submitting = NoOne /\ closer = "idle"
             /\ _queue_count < Len(order) /\ f = order[_queue_count + 1]
             /\ ~broken /\ ~shutdown
             /\ submitting' = f
             /\ UNCHANGED <<futures, config, items, queues, process, idle_semaphore,
                            flags, wakeup, entered, late, manager, local, feed, closer>>

\* Start n more processes.
Spawn(n) == LET S == CHOOSE S \in SUBSET (Process \ Processes) : Cardinality(S) = n
            IN process' = [p \in Process |-> IF p \in S THEN "init" ELSE process[p]]

\* Which processes submit() starts: all with "fork", the first time; otherwise one,
\* unless one is idle or there are enough.
AdjustProcessCount ==
  \/ /\ dynamic /\ idle_semaphore > 0
     /\ idle_semaphore' = idle_semaphore - 1 /\ UNCHANGED process
  \/ /\ dynamic /\ idle_semaphore = 0 /\ UNCHANGED idle_semaphore
     /\ IF Cardinality(Processes) < max_workers
        THEN Spawn(1) ELSE UNCHANGED process
  \/ /\ ~dynamic /\ UNCHANGED idle_semaphore
     /\ IF manager = "none"
        THEN Spawn(max_workers) ELSE UNCHANGED process

\* Enter the work item and wake the manager.
Enter(f) == /\ submitting = f /\ ~entered /\ entered' = TRUE
            /\ Create(f)
            /\ pending_work_items' = pending_work_items \cup {f}
            /\ work_ids' = Append(work_ids, f)
            /\ wakeup' = TRUE
            /\ UNCHANGED <<config, new_items, rebound, buffer, pipe, result_queue,
                           process, idle_semaphore, flags, submitting, late, manager,
                           local, feed, closer>>

\* Start processes and the manager, let the lock go.
Launch == /\ entered /\ submitting' = NoOne /\ entered' = FALSE
          /\ AdjustProcessCount
          /\ manager' = IF manager = "none" THEN "add" ELSE manager
          /\ UNCHANGED <<futures, config, items, queues, flags, wakeup, late, local,
                         feed, closer>>

\* shutdown(wait=True), once.
Shutdown == /\ closer = "idle" /\ submitting = NoOne
            /\ closer' = "join" /\ shutdown' = TRUE /\ wakeup' = TRUE
            /\ cancel_pending' \in IF "drain" \in mishaps THEN BOOLEAN ELSE {FALSE}
            /\ UNCHANGED <<futures, config, items, queues, process, idle_semaphore,
                           broken, lock, late, manager, local, feed>>

Joined == /\ closer = "join" /\ manager \in {"none", "done", "dead"}
          /\ closer' = "returned"
          /\ UNCHANGED <<futures, config, items, queues, process, idle_semaphore,
                         flags, wakeup, lock, late, manager, local, feed>>

Cancel(f) == /\ "cancel" \in mishaps /\ CancelPending(f)
             /\ UNCHANGED <<config, items, queues, process, idle_semaphore, flags,
                            wakeup, lock, late, manager, local, feed, closer>>

------------------------------------------------------------------------------
(* The feeder thread and the workers                                       *)

outside == <<config, idle_semaphore, flags, lock, late, manager, local, closer>>

Sendable(f) == f \notin Unpicklable \/ "pickle" \notin mishaps

Feed == /\ feeder = "idle" /\ buffer # <<>> /\ Sendable(Head(buffer))
        /\ buffer' = Tail(buffer) /\ pipe' = Append(pipe, Head(buffer))
        /\ UNCHANGED <<outside, futures, items, work_ids, result_queue, process,
                       wakeup, feed>>

\* _on_queue_feeder_error(): take the item out of the executor's dict, wake the
\* manager, fail the future if there was an item.
FeederError ==
  /\ \/ /\ feeder = "idle" /\ buffer # <<>> /\ ~Sendable(Head(buffer))
        /\ buffer' = Tail(buffer)
        /\ feeding' = IF Head(buffer) \in pending_work_items THEN Head(buffer) ELSE NoOne
        /\ pending_work_items' = pending_work_items \ {Head(buffer)}
        /\ feeder' = "popped" /\ UNCHANGED <<futures, wakeup>>
     \/ /\ feeder = "popped" /\ submitting = NoOne
        /\ wakeup' = TRUE /\ feeder' = "failing"
        /\ UNCHANGED <<futures, pending_work_items, buffer, feeding>>
     \/ /\ feeder = "failing"
        /\ IF feeding = NoOne THEN UNCHANGED futures ELSE Finish(feeding, "exception")
        /\ feeder' = "idle" /\ feeding' = NoOne
        /\ UNCHANGED <<pending_work_items, buffer, wakeup>>
  /\ UNCHANGED <<outside, new_items, rebound, work_ids, pipe, result_queue, process>>

Becomes(p, s) == process' = [process EXCEPT ![p] = s]

\* A worker has started; gets a call, or None; has put its result.
Work(p) ==
  /\ \/ process[p] = "init" /\ Becomes(p, "idle") /\ UNCHANGED <<pipe, result_queue>>
     \/ /\ process[p] = "idle" /\ pipe # <<>> /\ pipe' = Tail(pipe)
        /\ Becomes(p, IF Head(pipe) = Stop THEN "dead" ELSE Head(pipe))
        /\ UNCHANGED result_queue
     \/ /\ process[p] \in Job /\ Becomes(p, "idle")
        /\ result_queue' = Append(result_queue, process[p])
        /\ UNCHANGED pipe
  /\ UNCHANGED <<outside, futures, items, work_ids, buffer, wakeup, feed>>

\* A worker dies in its initializer or in a call, where it holds no lock.
Crash(p) == /\ "crash" \in mishaps /\ process[p] \in Job \cup {"init"}
            /\ Becomes(p, "dead")
            /\ UNCHANGED <<outside, futures, items, queues, wakeup, feed>>

------------------------------------------------------------------------------
(* The manager thread                                                      *)

unmanaged == <<config, lock, late, feed, closer>>
To(l) == manager' = l

\* A turn of add_call_item_to_queue(): start a future and put its call, or drop it;
\* at the end go on at the place l.
AddCallItem(here, l) ==
  /\ manager = here
  /\ \/ /\ Full \/ work_ids = <<>>
        /\ To(l) /\ UNCHANGED <<futures, items, queues>>
     \/ /\ ~Full /\ work_ids # <<>> /\ work_ids' = Tail(work_ids)
        /\ \/ /\ SetRunning(Head(work_ids))
              /\ buffer' = Append(buffer, Head(work_ids)) /\ UNCHANGED items
           \/ /\ NotifyCancel(Head(work_ids))
              /\ WithoutItem(Head(work_ids)) /\ UNCHANGED buffer
        /\ UNCHANGED <<manager, pipe, result_queue>>
  /\ UNCHANGED <<unmanaged, process, idle_semaphore, flags, wakeup, local>>

\* wait_result_broken_or_wakeup(): whom it watches; the mutant watches nobody.
NoSentinels == {}
Sentinels == Processes

Watch == /\ manager = "watch" /\ To("wait") /\ sentinels' = Sentinels
         /\ UNCHANGED <<unmanaged, futures, items, queues, process, idle_semaphore,
                        flags, wakeup, result_item, listed, todo, unsent>>

\* Receive a result, which may fail, or be woken, or find that a worker died.
Wait_ ==
  /\ manager = "wait"
  /\ \/ /\ result_queue # <<>> /\ To("clear")
        /\ result_item' = Head(result_queue) /\ result_queue' = Tail(result_queue)
     \/ /\ result_queue # <<>> /\ "unpickle" \in mishaps /\ To("clear_broken")
        /\ result_queue' = Tail(result_queue) /\ UNCHANGED result_item
     \/ /\ result_queue = <<>> /\ wakeup
        /\ To("clear") /\ UNCHANGED <<result_item, result_queue>>
     \/ /\ result_queue = <<>> /\ ~wakeup /\ \E p \in sentinels : process[p] = "dead"
        /\ To("clear_broken") /\ UNCHANGED <<result_item, result_queue>>
  /\ UNCHANGED <<unmanaged, futures, items, work_ids, buffer, pipe, process,
                 idle_semaphore, flags, wakeup, sentinels, listed, todo, unsent>>

\* with self.shutdown_lock: self.thread_wakeup.clear(); then process_result_item()
Receive ==
  /\ \/ /\ manager \in {"clear", "clear_broken"} /\ submitting = NoOne
        /\ wakeup' = FALSE
        /\ To(IF manager = "clear" THEN "process" ELSE "broken")
        /\ UNCHANGED <<futures, items, idle_semaphore, result_item>>
     \/ /\ manager = "process" /\ To("flag")
        /\ IF result_item \in Job
           THEN /\ WithoutItem(result_item)
                /\ idle_semaphore' = idle_semaphore + 1
                /\ result_item' = NoOne
                /\ IF result_item \in Items THEN Finish(result_item, "result")
                   ELSE UNCHANGED futures
           ELSE UNCHANGED <<futures, items, idle_semaphore, result_item>>
        /\ UNCHANGED wakeup
  /\ UNCHANGED <<unmanaged, queues, process, flags, sentinels, listed, todo, unsent>>

\* flag_executor_shutting_down() is followed by add_call_item_to_queue(); the
\* mutant forgets it.
CheckAtOnce == "check"
AfterFlag == "add_again"

\* Begin a loop over the items of the dict, at the place l.
Loop(l) == To(l) /\ listed' = Items /\ todo' = Items

Flag == /\ manager = "flag"
        /\ \/ ~shutdown /\ To("add") /\ UNCHANGED <<listed, todo>>
           \/ shutdown /\ ~cancel_pending /\ To(AfterFlag) /\ UNCHANGED <<listed, todo>>
           \/ shutdown /\ cancel_pending /\ Loop("cancel")
        /\ UNCHANGED <<unmanaged, futures, items, queues, process, idle_semaphore,
                       flags, wakeup, result_item, sentinels, unsent>>

\* A loop takes the items in the order of the dict, which is that of submission.
IsNext(f) == f \in todo /\ \A i, j \in DOMAIN order :
                             order[i] \in todo /\ order[j] = f => j <= i

\* RuntimeError: dictionary changed size during iteration, that of the items or
\* that of the processes.  The thread dies.
Changed == /\ \/ manager \in {"cancel", "fail"} /\ Items # listed
              \/ manager = "terminate" /\ Processes # sentinels
           /\ To("dead")
           /\ UNCHANGED <<unmanaged, futures, items, queues, process,
                          idle_semaphore, flags, wakeup, local>>

\* The work ids are drained; the mutant leaves them.
NotDrained == work_ids
Drained == <<>>

\* A turn of the loop that cancels the futures, and what comes after it: keep the
\* items that run.
CancelItems ==
  /\ manager = "cancel" /\ Items = listed
  /\ \/ \E f \in todo :
          /\ IsNext(f) /\ todo' = todo \ {f}
          /\ \/ CancelPending(f)
             \/ state[f] # "PENDING" /\ UNCHANGED futures
          /\ UNCHANGED <<manager, items, work_ids, cancel_pending>>
     \/ /\ todo = {} /\ To(AfterFlag)
        /\ new_items' = {f \in listed : state[f] \notin Cancelled}
        /\ rebound' = TRUE /\ work_ids' = Drained /\ cancel_pending' = FALSE
        /\ UNCHANGED <<futures, pending_work_items, todo>>
  /\ UNCHANGED <<unmanaged, buffer, pipe, result_queue, process, idle_semaphore,
                 broken, shutdown, wakeup, result_item, sentinels, listed, unsent>>

\* "it is safe to shutdown this thread if there are no pending work items"; the
\* mutant looks at the work ids.
NoWorkIds == work_ids = <<>>
NothingPending == Items = {}

Check == /\ manager = "check"
         /\ IF NothingPending THEN To("stop") /\ unsent' = Cardinality(Alive)
                              ELSE To("add") /\ UNCHANGED unsent
         /\ UNCHANGED <<unmanaged, futures, items, queues, process, idle_semaphore,
                        flags, wakeup, result_item, sentinels, listed, todo>>

\* terminate_broken(): set the flags, without the lock, so that a submit() may be
\* under way; set_exception() for each item, which raises InvalidStateError if the
\* future was cancelled; forget the items.
Break ==
  /\ manager = "broken"
  /\ broken' = TRUE /\ shutdown' = TRUE /\ late' = submitting
  /\ Loop("fail")
  /\ UNCHANGED <<config, lock, feed, closer, futures, items, queues, process,
                 idle_semaphore, cancel_pending, wakeup, result_item, sentinels,
                 unsent>>

FailItems ==
  /\ manager = "fail" /\ Items = listed
  /\ \/ \E f \in todo : /\ IsNext(f) /\ Finish(f, "exception")
                        /\ todo' = todo \ {f}
                        /\ UNCHANGED <<manager, items, sentinels>>
     \/ \E f \in todo : /\ IsNext(f) /\ state[f] \in Done /\ To("dead")
                        /\ UNCHANGED <<futures, items, sentinels, todo>>
     \/ /\ todo = {} /\ To("terminate") /\ sentinels' = Processes
        /\ IF rebound THEN new_items' = {} /\ UNCHANGED pending_work_items
                      ELSE pending_work_items' = {} /\ UNCHANGED new_items
        /\ UNCHANGED <<futures, rebound, todo>>
  /\ UNCHANGED <<unmanaged, queues, process, idle_semaphore, flags, wakeup,
                 result_item, listed, unsent>>

\* Terminate the processes the dict had at first; then count those alive.
Terminate ==
  /\ manager = "terminate"
  /\ \/ /\ Processes = sentinels
        /\ \E p \in Alive : Becomes(p, "dead")
        /\ UNCHANGED <<manager, unsent>>
     \/ /\ Alive \cap sentinels = {}
        /\ To("stop") /\ unsent' = Cardinality(Alive)
        /\ UNCHANGED process
  /\ UNCHANGED <<unmanaged, futures, items, queues, idle_semaphore, flags,
                 wakeup, result_item, sentinels, listed, todo>>

\* join_executor_internals(): send None to each process while any is alive, then
\* join the feeder and the processes.
JoinExecutor ==
  /\ manager = "stop"
  /\ \/ /\ unsent > 0 /\ Alive # {} /\ ~Full
        /\ buffer' = Append(buffer, Stop) /\ unsent' = unsent - 1
        /\ UNCHANGED manager
     \/ /\ unsent = 0 \/ Alive = {}
        /\ buffer = <<>> /\ feeder = "idle" /\ submitting = NoOne /\ Alive = {}
        /\ To("done") /\ UNCHANGED <<buffer, unsent>>
  /\ UNCHANGED <<unmanaged, futures, items, work_ids, pipe, result_queue, process,
                 idle_semaphore, flags, wakeup, result_item, sentinels, listed, todo>>

Manager == \/ AddCallItem("add", "watch") \/ AddCallItem("add_again", "check")
           \/ Watch \/ Wait_ \/ Receive \/ Flag \/ Changed \/ CancelItems \/ Check
           \/ Break \/ FailItems \/ Terminate \/ JoinExecutor

------------------------------------------------------------------------------
Next == \/ \E f \in Job : Submit(f) \/ Enter(f) \/ Cancel(f)
        \/ Launch \/ Shutdown \/ Joined \/ Feed \/ FeederError \/ Manager
        \/ \E p \in Process : Work(p) \/ Crash(p)

\* Threads and processes run, calls return or their process dies.
Fairness == /\ WF_vars(Manager) /\ WF_vars(Feed \/ FeederError) /\ WF_vars(Joined)
            /\ \A f \in Job : WF_vars(Enter(f)) /\ WF_vars(Launch)
            /\ \A p \in Process : WF_vars(Work(p))

Spec == Init /\ [][Next]_vars /\ Fairness

------------------------------------------------------------------------------
(* Properties                                                              *)

\* Where the call of f is: as often as it is there.
Calls(f) == LET In(s) == Cardinality({i \in DOMAIN s : s[i] = f})
            IN In(buffer) + In(pipe) + In(result_queue)
               + Cardinality({p \in Process : process[p] = f})
               + (IF result_item = f THEN 1 ELSE 0)

ProcessPoolTypeOK ==
  /\ FuturesTypeOK
  /\ max_workers \in 1 .. Cardinality(Process) /\ dynamic \in BOOLEAN
  /\ order \in Orders
  /\ UNION {pending_work_items, new_items, listed, todo} \subseteq Job
  /\ work_ids \in Seq(Job) /\ result_queue \in Seq(Job)
  /\ buffer \in Seq(Job \cup {Stop}) /\ pipe \in Seq(Job \cup {Stop})
  /\ process \in [Process -> Job \cup Idle]
  /\ {idle_semaphore, unsent} \subseteq Nat
  /\ {rebound, broken, shutdown, cancel_pending, wakeup, entered} \subseteq BOOLEAN
  /\ {submitting, late, result_item, feeding} \subseteq Job \cup {NoOne}
  /\ sentinels \subseteq Process
  /\ manager \in {"none", "add", "watch", "wait", "clear", "clear_broken", "process",
                  "flag", "cancel", "add_again", "check", "broken", "fail",
                  "terminate", "stop", "done", "dead"}
  /\ feeder \in {"idle", "popped", "failing"}
  /\ closer \in {"idle", "join", "returned"}

\* While the pool works, a future that is not done has its item in the dict of the
\* manager; it is to be started once, or its call is in one place, unless the
\* feeder is about to fail it, a process died with it, or its result could not be
\* unpickled and the manager is about to break the pool.
CallsAccounted == manager \notin {"fail", "terminate", "stop", "done", "dead"} =>
  \A f \in Job :
    /\ state[f] = "PENDING" => f \in Items
    /\ state[f] = "RUNNING" => f \in Items \/ f = feeding
    /\ Calls(f) <= 1
    /\ Calls(f) = 0 /\ state[f] = "RUNNING" =>
         \/ f = feeding
         \/ \E p \in Processes : process[p] = "dead"
         \/ "unpickle" \in mishaps /\ manager \in {"clear_broken", "broken"}
    /\ state[f] \in Done => Calls(f) = 0
    /\ f \in ToSet(work_ids) => f \in Items /\ state[f] # "RUNNING"

\* The job that was in submit() when the pool broke, if terminate_broken() came too
\* early to see its item.
Late(f) == f = late /\ f \notin listed

\* When the manager thread has ended, no process is alive and no future is left but
\* the one of a submit() that the breaking of the pool overtook.  The thread dies of
\* an error only while it fails the items of a broken pool - because a future was
\* cancelled, or such a submit() or the feeder changed a dict under its loop - or
\* while it cancels the items and the feeder takes one.
NothingLeft ==
  /\ manager = "done" =>
       Alive = {} /\ \A f \in Job : state[f] \in Done \cup {"none"} \/ Late(f)
  /\ manager = "dead" =>
       \/ /\ broken
          /\ \/ \E f \in Job : state[f] \in Cancelled
             \/ late # NoOne \/ "pickle" \in mishaps
       \/ {"drain", "pickle"} \subseteq mishaps

\* A future is answered although workers die or results cannot be unpickled, unless
\* the manager thread dies or its submit() was overtaken by the breaking of the pool.
FuturesEnd == \A f \in Job :
  state[f] # "none" ~> state[f] \in Done \/ manager = "dead" \/ Late(f)

\* The dict that shutdown(cancel_futures=True) made keeps the item of a future that
\* the feeder failed: the manager waits for a result that never comes.
Orphaned == rebound /\ ~broken /\ \E f \in Items : state[f] = "FINISHED"

\* shutdown(wait=True) returns, but for two cases in which it hangs: a submit() that
\* the breaking of the pool overtook started a process which nobody tells to stop,
\* or an orphaned item.
PoolShutdownEnds == closer = "join" ~>
  closer = "returned" \/ (dynamic /\ late # NoOne) \/ Orphaned

\* "When one of the worker processes terminates abruptly, a BrokenProcessPool error
\* is now raised.  Previously ... operations on the executor or its futures would
\* often freeze or deadlock": every future is answered, even if only those runs
\* count in which no submit() is under way when the pool breaks.
FuturesAnswered == \A f \in Job :
  state[f] # "none" ~> state[f] \in Done \/ late # NoOne
==============================================================================
