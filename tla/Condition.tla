----------------------------- MODULE Condition -------------------------------
(***************************************************************************)
(* threading.Condition (Lib/threading.py): one mutex, the conditions that  *)
(* share it, and the threads in their wait().                              *)
(*                                                                         *)
(* What a thread does between acquiring and releasing the mutex is one     *)
(* step: it touches only what the mutex protects.  wait() is three steps:  *)
(* append a waiter and release the mutex; be notified or time out, outside *)
(* the mutex; acquire the mutex again, remove the waiter, go on.  The      *)
(* waiter lock of a thread is released when notify() takes it off the      *)
(* deque.  A module whose objects use conditions EXTENDS this one.         *)
(***************************************************************************)
EXTENDS Naturals, Sequences, FiniteSets, SequencesExt

CONSTANTS Thread,     \* threads that call the objects
          Timed,      \* those that pass a timeout
          Conditions  \* the conditions on the mutex

ASSUME ConditionAssumption == IsFiniteSet(Thread) /\ Timed \subseteq Thread

VARIABLES waiters, \* the deque _waiters of each condition
          waits    \* "no": not in wait(); "waiting": in waiter.acquire();
                   \* "timed_out": it returned False, the mutex is to come

condition == <<waiters, waits>>

ConditionInit == /\ waiters = [c \in Conditions |-> <<>>]
                 /\ waits = [t \in Thread |-> "no"]

\* The waiter of t is still in a deque: nobody has notified it.
Listed(t) == \E c \in Conditions : t \in ToSet(waiters[c])

\* notify() has released the waiter lock of t.
Notified(t) == waits[t] # "no" /\ ~Listed(t)

\* t can acquire the mutex: to begin a call, or at the end of wait().
Runs(t) == waits[t] # "waiting" \/ Notified(t)

\* The deques when t is back in wait() with the mutex: who timed out and was
\* not notified removes its waiter; the mutant leaves it.
LeftListed(t) == waiters
Left(t) == [c \in Conditions |-> RemoveFirst(waiters[c], t)]

\* notify(n): the first n waiters of condition c are released.
Notify(w, c, n) == [w EXCEPT ![c] = SubSeq(@, n + 1, Len(@))]
NotifyAll(w, c) == [w EXCEPT ![c] = <<>>]

\* wait(): append a waiter, release the mutex.
Block(t, c) == /\ waiters' = [Left(t) EXCEPT ![c] = Append(@, t)]
               /\ waits' = [waits EXCEPT ![t] = "waiting"]

\* t goes on after wait(), if it was there, and leaves the deques w.
Proceed(t, w) == /\ waiters' = w
                 /\ waits' = [waits EXCEPT ![t] = "no"]

\* waiter.acquire(True, timeout) returns False; notify() may still reach the
\* waiter before it is removed.
Timeout(t) == /\ t \in Timed
              /\ waits[t] = "waiting" /\ Listed(t)
              /\ waits' = [waits EXCEPT ![t] = "timed_out"]
              /\ UNCHANGED waiters

\* Threads of S that were notified, and whether one still sleeps.
Woken(S) == {t \in S : Notified(t)}
Sleeps(S) == \E t \in S : waits[t] = "waiting" /\ Listed(t)
==============================================================================
