------------------------------- MODULE Queue ---------------------------------
(***************************************************************************)
(* queue.Queue: put(), get(), task_done() and join() of Lib/queue.py on    *)
(* the three conditions that share its mutex.                              *)
(***************************************************************************)
EXTENDS Condition

CONSTANTS Producer, Consumer, Joiner, \* threads by what they call: a thread that
                                      \* does several things by turns is several
          maxsize,                    \* Queue(maxsize); 0 is no limit
          MaxItems                    \* bound: calls of put() in all

ASSUME QueueAssumption ==
  /\ Producer \cup Consumer \cup Joiner \subseteq Thread
  /\ Producer \cap Consumer = {} /\ Producer \cap Joiner = {} /\ Consumer \cap Joiner = {}
  /\ {"not_empty", "not_full", "all_tasks_done"} \subseteq Conditions
  /\ maxsize \in Nat /\ MaxItems \in Nat

VARIABLES queue,            \* self.queue: items are numbered as they are put
          unfinished_tasks, \* self.unfinished_tasks
          working,          \* consumers with an item that is not done
          calls, puts, got  \* history: put() called, returned; items taken

history   == <<calls, puts, got>>
queueOwn  == <<queue, unfinished_tasks, working, history>>
queueVars == <<condition, queueOwn>>

QueueInit == /\ ConditionInit
             /\ queue = <<>> /\ unfinished_tasks = 0 /\ working = {}
             /\ calls = 0 /\ puts = 0 /\ got = <<>>

\* An exception after a timeout leaves the method.
GiveUp(t) == t \in Timed /\ Proceed(t, Left(t))

------------------------------------------------------------------------------
(* put()                                                                   *)

\* The loop of put() lets t through; the mutant tests only once.
RoomOnce(t) == maxsize = 0 \/ Len(queue) < maxsize \/ Notified(t)
Room(t)     == maxsize = 0 \/ Len(queue) < maxsize

\* self.not_empty.notify() of put().
NotifyGetter(w) == Notify(w, "not_empty", 1)

Put(t) ==
  /\ Runs(t) /\ (waits[t] = "no" => calls < MaxItems)
  /\ calls' = IF waits[t] = "no" THEN calls + 1 ELSE calls
  /\ \/ /\ ~Room(t)
        /\ Block(t, "not_full") \/ GiveUp(t)
        /\ UNCHANGED <<queue, puts, unfinished_tasks>>
     \/ /\ Room(t)
        /\ queue' = Append(queue, puts + 1)
        /\ puts' = puts + 1
        /\ unfinished_tasks' = unfinished_tasks + 1
        /\ Proceed(t, NotifyGetter(Left(t)))
  /\ UNCHANGED <<working, got>>

------------------------------------------------------------------------------
(* get(), task_done() and join()                                           *)

Get(t) ==
  /\ Runs(t) /\ t \notin working
  /\ \/ /\ queue = <<>>
        /\ Block(t, "not_empty") \/ GiveUp(t)
        /\ UNCHANGED <<queue, got, working>>
     \/ /\ queue # <<>>
        /\ got' = Append(got, Head(queue))
        /\ queue' = Tail(queue)
        /\ working' = working \cup {t}
        /\ Proceed(t, Notify(Left(t), "not_full", 1))
  /\ UNCHANGED <<unfinished_tasks, calls, puts>>

\* all_tasks_done.notify_all(); the mutant wakes one thread.
NotifyOneJoiner(w) == Notify(w, "all_tasks_done", 1)
NotifyJoiners(w)   == NotifyAll(w, "all_tasks_done")

\* task_done(), once for each item.
TaskDone(t) ==
  /\ t \in working
  /\ working' = working \ {t}
  /\ unfinished_tasks' = unfinished_tasks - 1
  /\ waiters' = IF unfinished_tasks = 1 THEN NotifyJoiners(waiters) ELSE waiters
  /\ UNCHANGED <<queue, waits, history>>

\* join(), which a thread may call again and again.
Join(t) ==
  /\ Runs(t)
  /\ \/ unfinished_tasks # 0 /\ Block(t, "all_tasks_done")
     \/ unfinished_tasks = 0 /\ Proceed(t, Left(t))
  /\ UNCHANGED <<queue, unfinished_tasks, working, history>>

------------------------------------------------------------------------------
QueueNext == \/ \E t \in Producer : Put(t)
             \/ \E t \in Consumer : Get(t) \/ TaskDone(t)
             \/ \E t \in Joiner : Join(t)
             \/ \E t \in Timed : Timeout(t) /\ UNCHANGED queueOwn

QueueSpec == QueueInit /\ [][QueueNext]_queueVars

\* Weakly fair: consumers go on consuming, and a joiner that is notified gets the
\* mutex.
QueueFair(t) == \/ t \in Consumer /\ (Get(t) \/ TaskDone(t))
                \/ t \in Joiner /\ Notified(t) /\ Join(t)

------------------------------------------------------------------------------
(* Properties                                                              *)

QueueTypeOK == /\ queue \in Seq(Nat) /\ unfinished_tasks \in Nat
               /\ working \subseteq Consumer
               /\ calls \in Nat /\ puts \in Nat /\ got \in Seq(Nat)

\* The queue never holds more than maxsize items, and every item that was put
\* is taken once, in the order of the calls of put().
FifoOrder == /\ maxsize > 0 => Len(queue) <= maxsize
             /\ got \o queue = [k \in 1 .. puts |-> k]

\* While a consumer sleeps in get() as many others have been woken as there are
\* items, and while a producer sleeps in put() as many as there are free slots:
\* no wake-up is lost, although notify() may reach a thread that has timed out.
NoLostWakeUp ==
  /\ Sleeps(Consumer) => Len(queue) <= Cardinality(Woken(Consumer))
  /\ maxsize > 0 /\ Sleeps(Producer) =>
       maxsize - Len(queue) <= Cardinality(Woken(Producer))

\* No thread stays in join() when no more items come: consumers take them all,
\* whichever of them time out or barge in.  Stated of one joiner for them all.
AnyJoiner == CHOOSE t \in Joiner : TRUE
JoinEnds == waits[AnyJoiner] = "waiting" ~> waits[AnyJoiner] = "no"
==============================================================================
