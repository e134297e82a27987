------------------------------ MODULE Futures --------------------------------
(***************************************************************************)
(* concurrent.futures.Future and wait() of                                 *)
(* Lib/concurrent/futures/_base.py: the state of each future, the threads  *)
(* in result(), the threads in wait() and the done callbacks.              *)
(*                                                                         *)
(* Each method changes a future only while it holds the condition of that  *)
(* future, so what it does under "with self._condition" is one step.       *)
(* wait() holds the conditions of all its futures while it looks at them   *)
(* and installs its waiter: one step too.  The callbacks are invoked after *)
(* the condition was released: a step of whoever finished the future.      *)
(* A module that drives futures (ThreadPool) EXTENDS this one.             *)
(***************************************************************************)
EXTENDS Naturals, FiniteSets

CONSTANTS Job,             \* the futures
          Reader,          \* threads that call result()
          Waiter,          \* threads that call wait()
          Watched          \* futures that get a done callback

ASSUME FuturesAssumption ==
  IsFiniteSet(Job) /\ Watched \subseteq Job

VARIABLES state,    \* Future._state; "none" before it exists
          failed,   \* futures whose _exception is set
          reader,   \* result(): where each reader is, and its future
          waiter,   \* wait(): where each waiter is, and its _Waiter object
          callback  \* the callback of each future, how often it was called

futures == <<state, failed, reader, waiter, callback>>

Cancelled == {"CANCELLED", "CANCELLED_AND_NOTIFIED"}
Settled   == {"CANCELLED_AND_NOTIFIED", "FINISHED"}
Done      == Cancelled \cup Settled
State     == {"none", "PENDING", "RUNNING"} \cup Done
ReturnWhen == {"ALL_COMPLETED", "FIRST_COMPLETED", "FIRST_EXCEPTION"}

FuturesInit ==
  /\ state = [f \in Job |-> "none"]
  /\ failed = {}
  /\ reader \in [Reader -> [at : {"idle", "gone"}, of : {{}}]]
  /\ waiter \in [Waiter -> [at : {"idle", "gone"}, fs : {{}},
                            when : {"ALL_COMPLETED"}, pending : {0},
                            event : {FALSE}, finished : {{}}]]
  /\ callback \in [Job -> [at : {"idle", "gone"}, calls : {0}]]
  /\ \A f \in Job \ Watched : callback[f].at = "gone"

------------------------------------------------------------------------------
(* What changes the state of a future                                      *)

\* self._condition.notify_all(): the readers of f wake up.
NotifyAll(f) ==
  reader' = [r \in Reader |-> IF reader[r].at = "asleep" /\ f \in reader[r].of
                              THEN [reader[r] EXCEPT !.at = "awake"]
                              ELSE reader[r]]

\* stop_on_exception of a waiter.
StopsOnException(w) == waiter[w].when = "FIRST_EXCEPTION"

\* add_result(), add_exception() and add_cancelled() of a waiter that has f.
Told(w, f, how) ==
  LET first  == waiter[w].when = "FIRST_COMPLETED"
      stop   == StopsOnException(w) /\ how = "exception"
      counts == ~first /\ ~stop
      left   == IF counts THEN waiter[w].pending - 1 ELSE waiter[w].pending
  IN [waiter[w] EXCEPT
        !.finished = @ \cup {f},
        !.pending = left,
        !.event = @ \/ first \/ stop \/ (counts /\ left = 0)]

NotifyWaiters(f, how) ==
  waiter' = [w \in Waiter |->
    IF waiter[w].at = "waiting" /\ f \in waiter[w].fs
    THEN Told(w, f, how) ELSE waiter[w]]

\* submit() creates the future.
Create(f) == /\ state' = [state EXCEPT ![f] = "PENDING"]
             /\ UNCHANGED <<failed, reader, waiter, callback>>

\* set_result() or set_exception(), up to the release of the condition.
Finish(f, how) ==
  /\ state[f] \notin Done
  /\ state' = [state EXCEPT ![f] = "FINISHED"]
  /\ failed' = IF how = "exception" THEN failed \cup {f} ELSE failed
  /\ NotifyWaiters(f, how)
  /\ NotifyAll(f)
  /\ UNCHANGED callback

\* cancel() of a pending future, up to the release of the condition; of any
\* other future it changes nothing.
CancelPending(f) ==
  /\ state[f] = "PENDING"
  /\ state' = [state EXCEPT ![f] = "CANCELLED"]
  /\ NotifyAll(f)
  /\ UNCHANGED <<failed, waiter, callback>>

\* Mutant: the waiters of a cancelled future hear nothing.
SkipCancelled(f) ==
  /\ state[f] = "CANCELLED"
  /\ state' = [state EXCEPT ![f] = "CANCELLED_AND_NOTIFIED"]
  /\ UNCHANGED <<failed, reader, waiter, callback>>

\* set_running_or_notify_cancel() of a cancelled future: False.
NotifyCancel(f) ==
  /\ state[f] = "CANCELLED"
  /\ state' = [state EXCEPT ![f] = "CANCELLED_AND_NOTIFIED"]
  /\ NotifyWaiters(f, "cancelled")
  /\ UNCHANGED <<failed, reader, callback>>

\* set_running_or_notify_cancel() of a pending future: True.
SetRunning(f) ==
  /\ state[f] = "PENDING"
  /\ state' = [state EXCEPT ![f] = "RUNNING"]
  /\ UNCHANGED <<failed, reader, waiter, callback>>

\* Mutant: nobody hears of a cancelled future.
CallIfFinished(f) ==
  /\ callback' = [callback EXCEPT ![f].calls =
       IF callback[f].at = "listed" /\ state[f] = "FINISHED" THEN @ + 1 ELSE @]
  /\ UNCHANGED <<state, failed, reader, waiter>>

\* _invoke_callbacks().
InvokeCallbacks(f) ==
  /\ callback' = [callback EXCEPT ![f].calls =
                    IF callback[f].at = "listed" THEN @ + 1 ELSE @]
  /\ UNCHANGED <<state, failed, reader, waiter>>

------------------------------------------------------------------------------
(* The clients of a future                                                 *)

\* add_done_callback(), at most once for each watched future: listed, or called.
AddDoneCallback(f) ==
  /\ state[f] # "none" /\ callback[f].at = "idle"
  /\ callback' = [callback EXCEPT ![f] =
       IF state[f] \in Done THEN [at |-> "given", calls |-> 1]
                            ELSE [at |-> "listed", calls |-> 0]]
  /\ UNCHANGED <<state, failed, reader, waiter>>

\* result(): answered at once, or asleep on the condition.
Result(r, f) ==
  /\ reader[r].at = "idle" /\ state[f] # "none"
  /\ reader' = [reader EXCEPT ![r] =
       [at |-> IF state[f] \in Done THEN "answered" ELSE "asleep", of |-> {f}]]
  /\ UNCHANGED <<state, failed, waiter, callback>>

\* self._condition.wait(timeout) times out, if there is a timeout.
ResultTimeout(r) ==
  /\ reader[r].at = "asleep"
  /\ reader' = [reader EXCEPT ![r].at = "expired"]
  /\ UNCHANGED <<state, failed, waiter, callback>>

\* result() after the wait: one look at the state, no loop.
ResultAwake(r) ==
  /\ reader[r].at \in {"awake", "expired"}
  /\ reader' = [reader EXCEPT ![r].at =
       IF \E f \in reader[r].of : state[f] \in Done
       THEN "answered" ELSE "TimeoutError"]
  /\ UNCHANGED <<state, failed, waiter, callback>>

\* wait() returns without waiting.
NoNeedToWait(fs, done, when) ==
  \/ when = "FIRST_COMPLETED" /\ done # {}
  \/ when = "FIRST_EXCEPTION" /\ done \cap failed # {}
  \/ done = fs

\* wait(fs) with the conditions of all of fs: return, or install a waiter.
Wait(w, fs, when) ==
  LET done == {f \in fs : state[f] \in Settled}
  IN /\ waiter[w].at = "idle" /\ \A f \in fs : state[f] # "none"
     /\ waiter' = [waiter EXCEPT ![w] =
          [at |-> IF NoNeedToWait(fs, done, when) THEN "returned" ELSE "waiting",
           fs |-> fs, when |-> when, pending |-> Cardinality(fs \ done),
           event |-> FALSE, finished |-> done]]
     /\ UNCHANGED <<state, failed, reader, callback>>

\* wait() after waiter.event.wait(timeout): remove the waiter and return.  It
\* times out only if there is a timeout.
WaitReturns(w) ==
  /\ waiter[w].at = "waiting"
  /\ waiter' = [waiter EXCEPT ![w].at =
                   IF waiter[w].event THEN "returned" ELSE "timed_out"]
  /\ UNCHANGED <<state, failed, reader, callback>>

ClientStep ==
  \/ \E f \in Job : AddDoneCallback(f)
  \/ \E r \in Reader : ResultTimeout(r) \/ ResultAwake(r)
                       \/ \E f \in Job : Result(r, f)
  \/ \E w \in Waiter : WaitReturns(w)
                       \/ \E fs \in (SUBSET Job) \ {{}}, when \in ReturnWhen :
                            Wait(w, fs, when)

------------------------------------------------------------------------------
(* Properties                                                              *)

FuturesTypeOK ==
  /\ state \in [Job -> State]
  /\ failed \subseteq Job
  /\ reader \in [Reader -> [at : {"gone", "idle", "asleep", "awake", "expired",
                                  "answered", "TimeoutError"}, of : SUBSET Job]]
  /\ waiter \in [Waiter -> [at : {"gone", "idle", "waiting", "returned",
                                  "timed_out"},
                            fs : SUBSET Job, when : ReturnWhen,
                            pending : 0 .. Cardinality(Job), event : BOOLEAN,
                            finished : SUBSET Job]]
  /\ callback \in [Job -> [at : {"gone", "idle", "listed", "given"},
                         calls : Nat]]

\* Nobody sleeps in result() on a future that is done, and who is notified
\* finds it done, although result() looks only once after its wait: cancel()
\* and set_result() notify, set_running_or_notify_cancel() does not.
ResultAnswered == \A r \in Reader : \A f \in reader[r].of :
  /\ reader[r].at = "asleep" => state[f] \notin Done
  /\ reader[r].at = "awake" => state[f] \in Done

\* num_pending_calls of a thread in wait() is the number of its futures that are
\* not settled - a cancelled one is settled by set_running_or_notify_cancel(), not
\* by cancel() - and it is not left asleep when those it waits for are settled,
\* whichever of them finish, fail or are notified as cancelled in between.
PendingExact == \A w \in Waiter :
  waiter[w].at = "waiting" /\ ~waiter[w].event =>
    LET open == {f \in waiter[w].fs : state[f] \notin Settled}
    IN /\ open # {}
       /\ waiter[w].finished = waiter[w].fs \ open
       /\ CASE waiter[w].when = "FIRST_COMPLETED" -> waiter[w].finished = {}
            [] waiter[w].when = "FIRST_EXCEPTION" ->
                 /\ waiter[w].pending = Cardinality(open)
                 /\ waiter[w].finished \cap failed = {}
            [] OTHER -> waiter[w].pending = Cardinality(open)

\* When wait() returns before its timeout, what it returns as done is what
\* return_when says.
WaitKeepsPromise == \A w \in Waiter :
  waiter[w].at = "returned" =>
    /\ \A f \in waiter[w].finished : state[f] \in Settled
    /\ CASE waiter[w].when = "FIRST_COMPLETED" -> waiter[w].finished # {}
         [] waiter[w].when = "FIRST_EXCEPTION" ->
              \/ waiter[w].finished = waiter[w].fs
              \/ waiter[w].finished \cap failed # {}
         [] OTHER -> waiter[w].finished = waiter[w].fs

\* A callback is called once at most, and never before its future is done.
CallbackOnce == \A f \in Job :
  /\ callback[f].calls <= 1
  /\ callback[f].calls = 1 => state[f] \in Done
==============================================================================
