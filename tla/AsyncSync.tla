------------------------------ MODULE AsyncSync ------------------------------
(***************************************************************************)
(* asyncio.Lock, Semaphore, Condition (Lib/asyncio/locks.py) and Queue     *)
(* (Lib/asyncio/queues.py), used by tasks that may be cancelled at any     *)
(* time (Lib/asyncio/tasks.py, futures.py), on one event loop.             *)
(*                                                                         *)
(* What a task does between two awaits is one step.  Every wait is for a   *)
(* future of its own, which only its task awaits: a task and its future    *)
(* have one name.  Setting the result of a future, or cancelling it, puts  *)
(* the step of its task at the end of the ready queue.  An instance has    *)
(* one object; outside it tasks do what they like, or only sleep(0).       *)
(***************************************************************************)
EXTENDS Naturals, Sequences, FiniteSets, SequencesExt

CONSTANTS Task,
          Limit,     \* Semaphore(Limit), Queue(Limit)
          MaxCancels \* bound: calls of Task.cancel(), for each kind of object


VARIABLES object,      \* which object there is
          ready,       \* the loop's _ready: tasks whose __step is scheduled
          fut,         \* the future each task awaits, or "none"
          must_cancel, \* tasks with _must_cancel
          cancels,     \* calls of cancel()
          place,       \* the method each task is in; "in": it holds the object
          deque,       \* _waiters of Lock and Semaphore, and of Condition,
                       \* _getters and _putters
          value        \* Semaphore._value; items in the Queue; not _locked as 1

asyncVars == <<object, ready, fut, must_cancel, cancels, place, deque, value>>

Objects == {"Lock", "Semaphore", "Condition", "Queue"}
Deques == {"waiters", "cond", "getters", "putters"}

ASSUME AsyncAssumption == /\ IsFiniteSet(Task) /\ Limit \in Nat \ {0}
                          /\ MaxCancels \in [Objects -> Nat]

HasLock == object \in {"Lock", "Condition"}
InitialValue(o) == IF o = "Queue" THEN 0 ELSE IF o = "Semaphore" THEN Limit ELSE 1

AsyncInit == /\ object \in Objects
             /\ ready = SetToSeq(Task)
             /\ fut = [t \in Task |-> "none"]
             /\ must_cancel = {} /\ cancels = 0
             /\ place = [t \in Task |-> "out"]
             /\ deque = [d \in Deques |-> <<>>]
             /\ value = InitialValue(object)

------------------------------------------------------------------------------
(* Tasks and futures                                                       *)

\* The step of t is next, with CancelledError or without.
Cancelled(t) == t \in must_cancel \/ fut[t] = "cancelled"
Steps(t, exc) == /\ ready # <<>> /\ Head(ready) = t /\ Cancelled(t) = exc
                 /\ must_cancel' = must_cancel \ {t}
                 /\ UNCHANGED <<object, cancels>>

\* The step sets the results of the futures woken, in this order, and ends with
\* t in p: waiting for a new future, or to be continued.
StepEnds(t, woken, p, new) ==
  /\ place' = [place EXCEPT ![t] = p]
  /\ fut' = [u \in Task |-> IF u \in ToSet(woken) THEN "result"
                            ELSE IF u = t THEN new ELSE fut[u]]
  /\ ready' = Tail(ready) \o woken \o (IF new = "none" THEN <<t>> ELSE <<>>)

GoesOn(t, woken, p, dq) == StepEnds(t, woken, p, "none") /\ deque' = dq
Awaits(t, woken, p, dq, d) == /\ StepEnds(t, woken, p, "pending")
                              /\ deque' = [dq EXCEPT ![d] = Append(@, t)]

\* Task.cancel(): the future is cancelled, or else the next step.
Cancel(t) ==
  /\ cancels < MaxCancels[object] /\ cancels' = cancels + 1
  /\ \/ /\ fut[t] = "pending"
        /\ fut' = [fut EXCEPT ![t] = "cancelled"]
        /\ ready' = Append(ready, t)
        /\ UNCHANGED must_cancel
     \/ /\ fut[t] # "pending"
        /\ must_cancel' = must_cancel \cup {t}
        /\ UNCHANGED <<fut, ready>>
  /\ UNCHANGED <<object, place, deque, value>>

\* await sleep(0), cancelled or not
Yield(t) == /\ \E exc \in BOOLEAN : Steps(t, exc)
            /\ place[t] = "out" /\ GoesOn(t, <<>>, "out", deque)
            /\ UNCHANGED value

\* finally: remove(fut)
Removed(t, d) == [deque EXCEPT ![d] = RemoveFirst(@, t)]

\* Where the futures of a deque are that are not done; the first of them, if there
\* is one; the first n, or all.
NotDone(q) == {i \in DOMAIN q : fut[q[i]] = "pending"}
FirstOf(q) == IF NotDone(q) = {} THEN <<>> ELSE <<q[Min(NotDone(q))]>>
FirstFew(q, n) ==
  LET Nth(k) == CHOOSE i \in NotDone(q) : Cardinality({j \in NotDone(q) : j <= i}) = k
  IN [k \in 1 .. Min({n, Cardinality(NotDone(q))}) |-> q[Nth(k)]]

------------------------------------------------------------------------------
(* Lock and Condition                                                      *)

\* _wake_up_first(): the first future, if it is not done
WakeFirst(q) == IF 1 \in NotDone(q) THEN <<Head(q)>> ELSE <<>>

\* acquire() has not to wait; the mutant lets a task overtake those that wait.
FreeToAll(q) == value = 1
FreeLock(q) == value = 1 /\ \A u \in ToSet(q) : fut[u] = "cancelled"

\* acquire() up to its await, with the deques dq, when woken are woken already.
AcquireLock(t, woken, p, dq) ==
  IF FreeLock(dq.waiters)
  THEN GoesOn(t, woken, "in", dq) /\ value' = 0
  ELSE Awaits(t, woken, p, dq, "waiters") /\ UNCHANGED value

Lock(t) == HasLock /\ place[t] = "out" /\ Steps(t, FALSE)
           /\ AcquireLock(t, <<>>, "acquire", deque)

\* The waiter was woken: it takes the lock.
Locked(t) == /\ HasLock /\ place[t] \in {"acquire", "reacquire"} /\ Steps(t, FALSE)
             /\ GoesOn(t, <<>>, "in", Removed(t, "waiters"))
             /\ value' = 0

\* CancelledError: another waiter is woken if the lock is not taken; the mutant
\* forgets it.
PassNothing(q) == <<>>
PassOn(q) == IF value = 1 THEN WakeFirst(q) ELSE <<>>

LockCancelled(t) ==
  LET dq == Removed(t, "waiters")
      woken == PassOn(dq.waiters)
  IN /\ HasLock /\ Steps(t, TRUE)
     /\ \/ place[t] = "acquire" /\ GoesOn(t, woken, "out", dq) /\ UNCHANGED value
        \* Condition.wait() "must reacquire lock even if wait is cancelled"
        \/ place[t] = "reacquire" /\ AcquireLock(t, woken, "reacquire", dq)

\* release(), after notify(n) of a Condition
Unlock(t, n) ==
  /\ HasLock /\ place[t] = "in" /\ \E exc \in BOOLEAN : Steps(t, exc)
  /\ GoesOn(t, FirstFew(deque.cond, n) \o WakeFirst(deque.waiters), "out", deque)
  /\ value' = 1

\* Condition.wait(): release the lock, and wait; afterwards, notified or
\* cancelled, acquire it.
CondWait(t) ==
  /\ object = "Condition" /\ place[t] = "in" /\ Steps(t, FALSE)
  /\ Awaits(t, WakeFirst(deque.waiters), "wait", deque, "cond")
  /\ value' = 1

CondWoken(t) ==
  /\ place[t] = "wait" /\ \E exc \in BOOLEAN : Steps(t, exc)
  /\ AcquireLock(t, <<>>, "reacquire", Removed(t, "cond"))

LockStep(t) == \/ Lock(t) \/ Locked(t) \/ LockCancelled(t)
               \/ \E n \in 0 .. Cardinality(Task) : Unlock(t, n)
               \/ CondWait(t) \/ CondWoken(t)

------------------------------------------------------------------------------
(* Semaphore: release() takes the value back for the task it wakes         *)

\* _wake_up_next() takes from the value v for the future it wakes
WakeNext(q, v) == value' = v - Len(FirstOf(q))
SemaphoreLocked == value = 0 \/ \E u \in ToSet(deque.waiters) : fut[u] # "cancelled"

AcquireSemaphore(t) ==
  /\ place[t] = "out" /\ Steps(t, FALSE)
  /\ IF SemaphoreLocked
     THEN Awaits(t, <<>>, "acquire", deque, "waiters") /\ UNCHANGED value
     ELSE GoesOn(t, <<>>, "in", deque) /\ value' = value - 1

\* Woken: wake the next if there is more.
Acquired(t) ==
  LET dq == Removed(t, "waiters")
      q == IF value > 0 THEN dq.waiters ELSE <<>>
  IN /\ place[t] = "acquire" /\ Steps(t, FALSE)
     /\ GoesOn(t, FirstOf(q), "in", dq) /\ WakeNext(q, value)

\* CancelledError: what release() took for this task is given back if it was
\* woken; the mutant takes every one for woken.
AlwaysWoken(t) == TRUE
WasWoken(t) == fut[t] # "cancelled"

SemaphoreCancelled(t) ==
  LET dq == Removed(t, "waiters")
      q == IF WasWoken(t) THEN dq.waiters ELSE <<>>
  IN /\ place[t] = "acquire" /\ Steps(t, TRUE)
     /\ GoesOn(t, FirstOf(q), "out", dq)
     /\ WakeNext(q, IF WasWoken(t) THEN value + 1 ELSE value)

ReleaseSemaphore(t) ==
  /\ place[t] = "in" /\ \E exc \in BOOLEAN : Steps(t, exc)
  /\ GoesOn(t, FirstOf(deque.waiters), "out", deque)
  /\ WakeNext(deque.waiters, value + 1)

SemaphoreStep(t) == /\ object = "Semaphore"
                    /\ \/ AcquireSemaphore(t) \/ Acquired(t)
                       \/ SemaphoreCancelled(t) \/ ReleaseSemaphore(t)

------------------------------------------------------------------------------
(* Queue: get() and put() wait in a loop, whom they wake leaves the deque  *)

\* _wakeup_next(): the deque without the futures that were done, and the first
\* that was not.
AfterFirst(q) ==
  IF NotDone(q) = {} THEN <<>> ELSE SubSeq(q, Min(NotDone(q)) + 1, Len(q))
WakeupNext(dq, d) == [dq EXCEPT ![d] = AfterFirst(@)]

\* get() and put(): loop, take or add an item, wake who waits for it.
CallQueue(t, p, own, other, blocked, v) ==
  /\ place[t] \in {"out", p} /\ Steps(t, FALSE)
  /\ \/ blocked /\ Awaits(t, <<>>, p, deque, own) /\ UNCHANGED value
     \/ /\ ~blocked /\ value' = v
        /\ GoesOn(t, FirstOf(deque[other]), "out", WakeupNext(deque, other))

\* CancelledError: wake the next if it was this one's turn.
QueueCancelled(t, p, own, blocked) ==
  LET dq == Removed(t, own)
  IN /\ place[t] = p /\ Steps(t, TRUE)
     /\ IF ~blocked /\ WasWoken(t)
        THEN GoesOn(t, FirstOf(dq[own]), "out", WakeupNext(dq, own))
        ELSE GoesOn(t, <<>>, "out", dq)
     /\ UNCHANGED value

Empty == value = 0
Full == value = Limit

QueueStep(t) == /\ object = "Queue"
                /\ \/ CallQueue(t, "get", "getters", "putters", Empty, value - 1)
                   \/ CallQueue(t, "put", "putters", "getters", Full, value + 1)
                   \/ QueueCancelled(t, "get", "getters", Empty)
                   \/ QueueCancelled(t, "put", "putters", Full)

------------------------------------------------------------------------------
\* Weakly fair: the loop calls the callbacks that are ready.
RunOnce == \E t \in Task : Yield(t) \/ LockStep(t) \/ SemaphoreStep(t) \/ QueueStep(t)
AsyncNext == RunOnce \/ \E t \in Task : Cancel(t)
AsyncSpec == AsyncInit /\ [][AsyncNext]_asyncVars

------------------------------------------------------------------------------
(* Properties                                                              *)

AsyncTypeOK == /\ object \in Objects
               /\ ready \in Seq(Task) /\ IsInjective(ready)
               /\ fut \in [Task -> {"none", "pending", "result", "cancelled"}]
               /\ must_cancel \subseteq Task /\ cancels \in 0 .. MaxCancels[object]
               /\ place \in [Task -> {"out", "in", "acquire", "wait", "reacquire",
                                      "get", "put"}]
               /\ deque \in [Deques -> Seq(Task)]
               /\ value \in 0 .. Limit

\* Who sleeps in the method p, who was woken there and has not run yet, and that
\* for n things that are free n were woken if anybody sleeps.
Sleeping(p) == {t \in Task : place[t] = p /\ fut[t] = "pending"}
WokenIn(p)  == {t \in Task : place[t] = p /\ fut[t] = "result"}
Suffices(n, p) == Sleeping(p) # {} => n <= Cardinality(WokenIn(p))

\* The permits of a Semaphore are free, held, or on the way to a task that was
\* woken, and a Lock is unlocked or held by one task, whenever tasks are cancelled.
\* What is free is on its way to those that sleep: for a Semaphore some task was
\* woken, which wakes the next; the first waiter for a Lock is woken or cancelled,
\* and passes it on; for the items or slots of a Queue as many tasks were woken.
AsyncAccounted ==
  LET holders == Cardinality({t \in Task : place[t] = "in"})
  IN /\ object = "Semaphore" =>
          /\ value + holders + Cardinality(WokenIn("acquire")) = Limit
          /\ value > 0 /\ Sleeping("acquire") # {} => WokenIn("acquire") # {}
     /\ HasLock => /\ value + holders = 1
                   /\ value = 1 => 1 \notin NotDone(deque.waiters)
     /\ object = "Queue" => Suffices(value, "get") /\ Suffices(Limit - value, "put")

\* "Acquiring a lock is fair: the coroutine that proceeds will be the first coroutine
\* that started waiting on the lock", unless those before it were cancelled; so is
\* a Semaphore.
AsyncFair == [][\A t \in Task : place[t] # "in" /\ place'[t] = "in" =>
  LET q == deque.waiters
  IN \A i \in DOMAIN q : t \notin ToSet(SubSeq(q, 1, i)) => Cancelled(q[i])]_asyncVars

\* No task waits in vain, although a task that was woken may be cancelled before it
\* runs: for a lock or a semaphore while the holders release it, for an item or a
\* slot that is there although nobody else gets or puts.  Stated of one task: they
\* have the same code, and those that only yield let any of them be the first.
Waits(t) == fut[t] = "pending" /\
  \/ place[t] \in {"acquire", "reacquire"}
  \/ place[t] = "get" /\ ~Empty
  \/ place[t] = "put" /\ ~Full
AnyTask == CHOOSE t \in Task : TRUE
AsyncServed == Waits(AnyTask) ~> ~Waits(AnyTask)
==============================================================================
