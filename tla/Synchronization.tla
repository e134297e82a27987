--------------------------- MODULE Synchronization ---------------------------
(***************************************************************************)
(* threading.Semaphore, BoundedSemaphore, Event and Barrier                *)
(* (Lib/threading.py), each on a Condition of its own.  An instance has    *)
(* one object of one kind, which all threads use in any order: a Semaphore *)
(* is released by anybody, an Event set and cleared, a Barrier reset and   *)
(* aborted at any time.                                                    *)
(***************************************************************************)
EXTENDS Condition

CONSTANTS Client,   \* the threads that use the object
          MaxValue, \* initial value of a BoundedSemaphore; a Semaphore is not
                    \* released beyond it either: a bound
          parties   \* Barrier(parties)

ASSUME SynchronizationAssumption ==
  /\ Client \subseteq Thread /\ MaxValue \in Nat /\ parties \in Nat \ {0, 1}
  /\ "_cond" \in Conditions

VARIABLES kind,   \* the object
          _value, \* of the Semaphore
          _flag,  \* of the Event
          answer, \* what the last Event.wait() of a thread returned
          _state, \* of the Barrier
          _count,
          method,  \* the method each thread is in
          index,  \* the index of a thread inside the barrier
          party   \* history: threads that entered the barrier together, in order

barrier  == <<_state, _count, index, party>>
syncOwn  == <<kind, _value, _flag, answer, method, barrier>>
syncVars == <<condition, syncOwn>>

Filling == "filling"   \* the values 0, 1, -1 and -2 of Barrier._state
Draining == "draining"
Resetting == "resetting"
Broken == "broken"

SyncInit == /\ ConditionInit
            /\ kind \in {"Semaphore", "Event", "Barrier"}
            /\ _value \in 0 .. MaxValue /\ (kind # "Semaphore" => _value = 0)
            /\ _flag = FALSE /\ answer = [t \in Client |-> TRUE]
            /\ _state = Filling /\ _count = 0 /\ party = <<>>
            /\ method = [t \in Client |-> "out"]
            /\ index = [t \in Client |-> 0]

In(t, p) == method' = [method EXCEPT ![t] = p]
NotifyEverybody(w) == NotifyAll(w, "_cond")

------------------------------------------------------------------------------
(* Semaphore                                                               *)

\* acquire(): the loop around wait(); without blocking, or after a timeout, it
\* returns False.
AcquirePermit(t) ==
  /\ kind = "Semaphore" /\ Runs(t)
  /\ \/ _value = 0 /\ Block(t, "_cond") /\ In(t, "acquire") /\ UNCHANGED _value
     \/ /\ _value = 0 /\ t \in Timed
        /\ Proceed(t, Left(t)) /\ In(t, "out") /\ UNCHANGED _value
     \/ _value > 0 /\ _value' = _value - 1 /\ Proceed(t, Left(t)) /\ In(t, "out")
  /\ UNCHANGED <<kind, _flag, answer, barrier>>

\* n calls of notify(); the mutant makes one.
NotifyOnce(n) == Notify(waiters, "_cond", 1)
NotifyTimes(n) == Notify(waiters, "_cond", n)

\* release(n) by anybody; a BoundedSemaphore raises ValueError beyond MaxValue.
ReleasePermits(n) ==
  /\ kind = "Semaphore" /\ _value + n <= MaxValue
  /\ _value' = _value + n
  /\ waiters' = NotifyTimes(n)
  /\ UNCHANGED <<waits, kind, _flag, answer, method, barrier>>

------------------------------------------------------------------------------
(* Event                                                                   *)

\* What wait() returns: the flag, or whether Condition.wait() was notified; the
\* mutant looks at the flag again.
LooksAgain(t) == _flag
Signaled(t) == IF method[t] = "out" THEN _flag ELSE waits[t] = "waiting"

\* wait(): at most one Condition.wait().
EventWait(t) ==
  /\ kind = "Event" /\ Runs(t)
  /\ IF method[t] = "out" /\ ~_flag
     THEN Block(t, "_cond") /\ In(t, "event") /\ UNCHANGED answer
     ELSE /\ answer' = [answer EXCEPT ![t] = Signaled(t)]
          /\ Proceed(t, Left(t)) /\ In(t, "out")
  /\ UNCHANGED <<kind, _value, _flag, barrier>>

\* set() and clear()
SetEvent == /\ kind = "Event" /\ _flag' = TRUE
            /\ waiters' = NotifyEverybody(waiters)
            /\ UNCHANGED <<waits, kind, _value, answer, method, barrier>>

ClearEvent == /\ kind = "Event" /\ _flag' = FALSE
              /\ UNCHANGED <<condition, kind, _value, answer, method, barrier>>

------------------------------------------------------------------------------
(* Barrier                                                                 *)

\* _enter() has to wait; the mutant lets threads in while others leave.
ClosedOnReset == _state = Resetting
Closed == _state \in {Draining, Resetting}

\* wait(): _enter(), and what is done at once: wait inside for the others, or
\* as the last one release them, unless the action fails.
BarrierEnter(t) ==
  /\ kind = "Barrier" /\ Runs(t) /\ method[t] \in {"out", "enter"}
  /\ \/ Closed /\ Block(t, "_cond") /\ In(t, "enter") /\ UNCHANGED barrier
     \/ /\ _state = Broken
        /\ Proceed(t, Left(t)) /\ In(t, "out") /\ UNCHANGED barrier
     \/ /\ ~Closed /\ _state # Broken
        /\ party' = Append(IF _count = 0 THEN <<>> ELSE party, t)
        /\ index' = [index EXCEPT ![t] = _count]
        /\ \/ /\ _count + 1 < parties
              /\ _count' = _count + 1 /\ Block(t, "_cond") /\ In(t, "inside")
              /\ UNCHANGED _state
           \/ /\ _count + 1 = parties
              /\ _state' \in {Draining, Broken}
              /\ Proceed(t, NotifyEverybody(waiters)) /\ In(t, "out")
              /\ UNCHANGED _count
  /\ UNCHANGED <<kind, _value, _flag, answer>>

\* t leaves the barrier, which is in state s: count down, _exit().  The last
\* thread to leave makes the barrier ready.
LeaveBarrier(t, s) ==
  /\ _count' = _count - 1
  /\ IF _count = 1 /\ s \in {Draining, Resetting}
     THEN _state' = Filling /\ Proceed(t, NotifyEverybody(waiters))
     ELSE /\ _state' = s
          /\ Proceed(t, IF s = _state THEN Left(t) ELSE NotifyEverybody(waiters))
  /\ In(t, "out")

\* _wait(): wait_for() ends when the barrier is no longer filling, or times out
\* and breaks it.  It never has to wait again: see SleepersJustified.
BarrierLeave(t) ==
  /\ kind = "Barrier" /\ Runs(t) /\ method[t] = "inside"
  /\ \/ _state # Filling /\ LeaveBarrier(t, _state)
     \/ _state = Filling /\ waits[t] = "timed_out" /\ LeaveBarrier(t, Broken)
  /\ UNCHANGED <<kind, _value, _flag, answer, index, party>>

\* The state reset() leaves
ResetState == IF _count = 0 THEN Filling
              ELSE IF _state = Draining THEN Draining ELSE Resetting

\* reset() and abort()
ResetBarrier == /\ kind = "Barrier" /\ _state' \in {ResetState, Broken}
                /\ waiters' = NotifyEverybody(waiters)
                /\ UNCHANGED <<waits, kind, _value, _flag, answer, method,
                               _count, index, party>>

------------------------------------------------------------------------------
SyncTimeout(t) == Timeout(t) /\ method[t] # "enter"
                  /\ UNCHANGED <<kind, _value, _flag, answer, method, barrier>>

SyncNext ==
  \/ \E t \in Client : AcquirePermit(t) \/ EventWait(t) \/ BarrierEnter(t)
                       \/ BarrierLeave(t) \/ SyncTimeout(t)
  \/ \E n \in 1 .. MaxValue : ReleasePermits(n)
  \/ SetEvent \/ ClearEvent \/ ResetBarrier

SyncSpec == SyncInit /\ [][SyncNext]_syncVars

------------------------------------------------------------------------------
(* Properties                                                              *)

SyncTypeOK == /\ kind \in {"Semaphore", "Event", "Barrier"}
              /\ _value \in 0 .. MaxValue /\ _flag \in BOOLEAN
              /\ answer \in [Client -> BOOLEAN]
              /\ _state \in {Filling, Draining, Resetting, Broken}
              /\ _count \in 0 .. parties - 1
              /\ method \in [Client -> {"out", "acquire", "event", "enter", "inside"}]
              /\ index \in [Client -> 0 .. parties - 1] /\ party \in Seq(Client)

Inside == {t \in Client : method[t] = "inside"}
Entering == {t \in Client : method[t] = "enter"}

\* Nobody is left asleep: in acquire() there are at most as many permits as
\* threads woken, in Event.wait() the flag is false; inside a barrier it is
\* filling, before it somebody is inside to open it.  A notification inside the
\* barrier is never in vain.
SleepersJustified ==
  /\ kind = "Semaphore" /\ Sleeps(Client) => _value <= Cardinality(Woken(Client))
  /\ kind = "Event" /\ Sleeps(Client) => ~_flag
  /\ Sleeps(Inside) => _state = Filling
  /\ Sleeps(Entering) => Closed /\ Inside # {}
  /\ \A t \in Inside : waits[t] = "waiting" /\ Notified(t) => _state # Filling

\* A thread that gets an index from Barrier.wait() has been there with all the
\* parties, each with an index of its own, and with nobody of the next round,
\* whatever resets, timeouts and failures there were before.
Passes(t) == method[t] = "inside" /\ _state = Draining /\ method'[t] = "out"
BarrierTogether == [][\A t \in Client : Passes(t) =>
  Len(party) = parties /\ party[index[t] + 1] = t]_syncVars

\* Event.wait() "will always return True except if a timeout is given and the
\* operation times out": also when clear() comes before the thread wakes up.
EventTold == \A t \in Client \ Timed : answer[t]
==============================================================================
