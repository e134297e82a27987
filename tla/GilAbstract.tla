----------------------------- MODULE GilAbstract -----------------------------
(***************************************************************************)
(* What the Global Interpreter Lock promises to the rest of the            *)
(* interpreter, without mutexes, condition variables or timeouts: at most  *)
(* one thread state holds it, only its holder gives it up, and a thread    *)
(* that gave it up on request does not get it back before another thread   *)
(* had it ("forced switching", FORCE_SWITCHING in pycore_gil.h).           *)
(***************************************************************************)
CONSTANTS Thread,     \* thread states (PyThreadState)
          NoThread    \* NULL

VARIABLES holder,     \* the thread state that holds the GIL, or NoThread
          yielded     \* the thread that waits for someone else to take it

avars == <<holder, yielded>>

AbsTypeOK == /\ holder \in Thread \cup {NoThread}
             /\ yielded \in Thread \cup {NoThread}

AbsInit == /\ holder \in Thread
           /\ yielded = NoThread

\* take_gil(): the GIL is free and the taker is not the thread that yielded.
Acquire(t) == /\ holder = NoThread
              /\ yielded # t
              /\ holder' = t
              /\ yielded' = NoThread

\* drop_gil(), first half: the GIL becomes free.
Release(t) == /\ holder = t
              /\ holder' = NoThread
              /\ UNCHANGED yielded

\* drop_gil(), second half: the thread that released it starts to wait until
\* another thread has taken it.  Nobody has taken it since, so it is free.
Yield(t) == /\ holder = NoThread
            /\ yielded = NoThread
            /\ yielded' = t
            /\ UNCHANGED holder

AbsNext == \E t \in Thread : Acquire(t) \/ Release(t) \/ Yield(t)

AbsSpec == AbsInit /\ [][AbsNext]_avars
==============================================================================
