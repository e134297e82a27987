----------------------------- MODULE MCLibrary -------------------------------
(* Instances of the library modules for TLC.  They share no state: each        *)
(* behaviour is one of one of them, which `active` names, and leaves the       *)
(* others as they began.                                                       *)
EXTENDS Queue, Synchronization, ThreadLife, ImportLocks, AsyncSync, TLC

CONSTANTS p1, p2, c1, c2, c3, j1, j2,   \* threads that use a Queue
          s1, s2, s3, s4,               \* a Semaphore, an Event or a Barrier
          a, b, m0, k,                  \* Thread objects, who joins them
          A, B, C, t1, t2, t3,          \* modules and threads that import
          x1, x2, x3, x4                \* tasks

VARIABLE active

\* Of Condition and Queue
Threads == {p1, p2, c1, c2, c3, j1, j2, s1, s2, s3, s4}
AllConditions == {"not_empty", "not_full", "all_tasks_done", "_cond"}

\* Of ThreadLife: a starts b.
ParentOf == (a :> m0) @@ (b :> a)

\* Of ImportLocks: two modules import each other; a chain of three.
Cycle == (A :> <<B>>) @@ (B :> <<A>>)
         @@ (t1 :> <<A>>) @@ (t2 :> <<B>>) @@ (t3 :> <<A>>)
Chain == (A :> <<>>) @@ (B :> <<A>>) @@ (C :> <<B>>)
         @@ (t1 :> <<C>>) @@ (t2 :> <<B>>) @@ (t3 :> <<A, C>>)

\* Of AsyncSync: two calls of cancel(), one around a Condition or a Queue.
CancelsOf == [o \in Objects |-> IF o \in {"Condition", "Queue"} THEN 1 ELSE 2]

Init == /\ active \in {"queue", "sync", "threads", "imports", "asyncio"}
        /\ QueueInit /\ SyncInit /\ LifeInit /\ ImportInit /\ AsyncInit
        /\ active # "sync" => kind = "Event"
        /\ active # "asyncio" => object = "Lock"

Next ==
  /\ UNCHANGED active
  /\ \/ /\ active = "queue" /\ QueueNext
        /\ UNCHANGED <<syncOwn, lifeVars, importVars, asyncVars>>
     \/ /\ active = "sync" /\ SyncNext
        /\ UNCHANGED <<queueOwn, lifeVars, importVars, asyncVars>>
     \/ /\ active = "threads" /\ LifeNext
        /\ UNCHANGED <<queueVars, syncOwn, importVars, asyncVars>>
     \/ /\ active = "imports" /\ ImportNext
        /\ UNCHANGED <<queueVars, syncOwn, lifeVars, asyncVars>>
     \/ /\ active = "asyncio" /\ AsyncNext
        /\ UNCHANGED <<queueVars, syncOwn, lifeVars, importVars>>

vars == <<active, queueVars, syncOwn, lifeVars, importVars, asyncVars>>

\* Whatever the active component has to do is done at some time.
Spec ==
  /\ Init /\ [][Next]_vars
  /\ \A t \in Consumer \cup Joiner :
       WF_queueVars(active = "queue" /\ QueueFair(t))
  /\ \A t \in Child \cup Caller : WF_lifeVars(active = "threads" /\ LifeFair(t))
  /\ WF_importVars(active = "imports" /\ ImportNext)
  /\ WF_asyncVars(active = "asyncio" /\ RunOnce)

\* The imports alone.
ImportSpec == Init /\ active = "imports" /\ [][Next]_vars
==============================================================================
