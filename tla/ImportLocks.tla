----------------------------- MODULE ImportLocks -----------------------------
(***************************************************************************)
(* Imports by several threads: the import statement (Python/import.c),     *)
(* _find_and_load() and _ModuleLock with its deadlock detection            *)
(* (Lib/importlib/_bootstrap.py).                                          *)
(*                                                                         *)
(* Each module imports some others when it is executed, and so does the    *)
(* program of each thread.  A step is what a thread does between two looks *)
(* at what others change; self.lock of a module lock is held over several  *)
(* steps while has_deadlock() walks along other threads' locks, which it   *)
(* does not hold.  Finders and loaders are not modelled, nor is the death  *)
(* of unused locks in _module_locks.                                       *)
(***************************************************************************)
EXTENDS Naturals, Sequences, FiniteSets, SequencesExt

CONSTANTS Importer, \* threads
          Module,
          Imports,  \* the modules that a module or the program of a thread
                    \* imports, in order
          Failing   \* modules whose code may raise

Nobody == "nobody"

ASSUME ImportAssumption ==
  /\ Importer \cap Module = {} /\ Failing \subseteq Module
  /\ Imports \in [Importer \cup Module -> Seq(Module)]
  /\ Nobody \notin Importer \cup Module

VARIABLES modules,      \* sys.modules and __spec__._initializing
          owner, count, \* of each _ModuleLock
          lock_waiters,
          wakeup,       \* is its lock "wakeup" held?
          mutex,        \* who holds its "lock"
          blocking_on,  \* _blocking_on
          stack,        \* what each thread executes: <<what, next import>>
          at,           \* where it is in the import
          goal,         \* the module it imports, and how
          walk          \* has_deadlock(): tid, lock and seen

lockVars   == <<owner, count, lock_waiters, wakeup, mutex>>
threadVars == <<stack, at, goal, walk>>
importVars == <<modules, lockVars, blocking_on, threadVars>>

NoWalk == [tid |-> Nobody, lock |-> Nobody, seen |-> {}]

ImportInit ==
  /\ modules = [m \in Module |-> "absent"]
  /\ owner = [m \in Module |-> Nobody] /\ count = [m \in Module |-> 0]
  /\ lock_waiters = [m \in Module |-> 0] /\ wakeup = [m \in Module |-> FALSE]
  /\ mutex = [m \in Module |-> Nobody]
  /\ blocking_on = [t \in Importer \cup {Nobody} |-> Nobody]
  /\ stack = [t \in Importer |-> <<[of |-> t, next |-> 1]>>]
  /\ at = [t \in Importer |-> "run"]
  /\ goal = [t \in Importer |-> [mod |-> Nobody, how |-> "wait"]]
  /\ walk = [t \in Importer |-> NoWalk]

Top(t)  == Last(stack[t])
Code(t) == Imports[Top(t).of]
GoTo(t, l) == at' = [at EXCEPT ![t] = l]

\* The frame of t is at its next statement.
NextStatement(s) == [s EXCEPT ![Len(s)].next = @ + 1]

\* _blocking_on[tid] = self at the head of acquire(); the mutant comes too late
\* for has_deadlock().
AnnounceNot(t, m) == UNCHANGED blocking_on
Announce(t, m) == blocking_on' = [blocking_on EXCEPT ![t] = m]
Unannounced(t) == [blocking_on EXCEPT ![t] = Nobody]

\* t wants the lock of m: to load it, or to wait for who does.
WantLock(t, m, how) == /\ goal' = [goal EXCEPT ![t] = [mod |-> m, how |-> how]]
                       /\ Announce(t, m) /\ GoTo(t, "acquire")

\* An import statement: in sys.modules and ready; there and initializing; not
\* there.
Import(t) ==
  /\ at[t] = "run" /\ Top(t).next <= Len(Code(t))
  /\ LET m == Code(t)[Top(t).next]
     IN \/ /\ modules[m] = "ready"
           /\ stack' = [stack EXCEPT ![t] = NextStatement(@)]
           /\ UNCHANGED <<at, goal, blocking_on>>
        \/ modules[m] = "initializing" /\ WantLock(t, m, "wait") /\ UNCHANGED stack
        \/ modules[m] = "absent" /\ WantLock(t, m, "load") /\ UNCHANGED stack
  /\ UNCHANGED <<modules, lockVars, walk>>

------------------------------------------------------------------------------
(* _ModuleLock.acquire()                                                   *)

Mod(t) == goal[t].mod
UnlockMutex(m) == mutex' = [mutex EXCEPT ![m] = Nobody]

\* The lock is free, or recursively acquired.
Available(t, m) == count[m] = 0 \/ owner[m] = t

\* with self.lock: take it, or see who has it.
AcquireModule(t) ==
  LET m == Mod(t)
  IN /\ at[t] = "acquire" /\ mutex[m] = Nobody
     /\ \/ /\ Available(t, m)
           /\ owner' = [owner EXCEPT ![m] = t]
           /\ count' = [count EXCEPT ![m] = @ + 1]
           /\ blocking_on' = Unannounced(t)
           /\ GoTo(t, "locked") /\ UNCHANGED <<mutex, walk>>
        \/ /\ ~Available(t, m)
           /\ mutex' = [mutex EXCEPT ![m] = t]
           /\ walk' = [walk EXCEPT ![t] =
                [NoWalk EXCEPT !.tid = owner[m]]]
           /\ GoTo(t, "look") /\ UNCHANGED <<owner, count, blocking_on>>
     /\ UNCHANGED <<modules, lock_waiters, wakeup, stack, goal>>

\* has_deadlock(): lock = _blocking_on.get(tid)
Look(t) == LET lock == blocking_on[walk[t].tid]
           IN /\ at[t] = "look"
              /\ walk' = [walk EXCEPT ![t].lock = lock]
              /\ GoTo(t, IF lock = Nobody THEN "enlist" ELSE "follow")
              /\ UNCHANGED <<modules, lockVars, blocking_on, stack, goal>>

\* tid = lock.owner; True, False or around again.  _lock_unlock_module() takes
\* the module as it is, _find_and_load() lets _DeadlockError through.
Follow(t) ==
  LET tid == owner[walk[t].lock]
  IN /\ at[t] = "follow"
     /\ \/ /\ tid = t
           /\ UnlockMutex(Mod(t)) /\ blocking_on' = Unannounced(t)
           /\ \/ /\ goal[t].how = "wait" /\ GoTo(t, "run")
                 /\ stack' = [stack EXCEPT ![t] = NextStatement(@)]
              \/ goal[t].how = "load" /\ GoTo(t, "raise") /\ UNCHANGED stack
           /\ walk' = [walk EXCEPT ![t] = NoWalk]
        \/ /\ tid # t /\ tid \in walk[t].seen /\ GoTo(t, "enlist")
           /\ UNCHANGED <<mutex, blocking_on, stack, walk>>
        \/ /\ tid # t /\ tid \notin walk[t].seen /\ GoTo(t, "look")
           /\ walk' = [walk EXCEPT ![t].tid = tid, ![t].seen = @ \cup {tid}]
           /\ UNCHANGED <<mutex, blocking_on, stack>>
     /\ UNCHANGED <<modules, owner, count, lock_waiters, wakeup, goal>>

\* if self.wakeup.acquire(False): self.waiters += 1
Enlist(t) ==
  LET m == Mod(t)
  IN /\ at[t] = "enlist"
     /\ wakeup' = [wakeup EXCEPT ![m] = TRUE]
     /\ lock_waiters' = [lock_waiters EXCEPT ![m] = IF wakeup[m] THEN @ ELSE @ + 1]
     /\ walk' = [walk EXCEPT ![t] = NoWalk]
     /\ UnlockMutex(m) /\ GoTo(t, "sleep")
     /\ UNCHANGED <<modules, owner, count, blocking_on, stack, goal>>

\* self.wakeup.acquire(); self.wakeup.release()
Sleep(t) ==
  LET m == Mod(t)
  IN /\ \/ at[t] = "sleep" /\ ~wakeup[m] /\ GoTo(t, "awake")
        \/ at[t] = "awake" /\ GoTo(t, "acquire")
     /\ wakeup' = [wakeup EXCEPT ![m] = at[t] = "sleep"]
     /\ UNCHANGED <<modules, owner, count, lock_waiters, mutex, blocking_on, stack, goal,
                    walk>>

\* release(): wake one that waits.
WakeOne(m) == IF count[m] = 1 /\ lock_waiters[m] > 0
              THEN /\ lock_waiters' = [lock_waiters EXCEPT ![m] = @ - 1]
                   /\ wakeup' = [wakeup EXCEPT ![m] = FALSE]
              ELSE UNCHANGED <<lock_waiters, wakeup>>

ReleaseModule(m) ==
  /\ mutex[m] = Nobody
  /\ count' = [count EXCEPT ![m] = @ - 1]
  /\ owner' = [owner EXCEPT ![m] = IF count[m] = 1 THEN Nobody ELSE @]
  /\ WakeOne(m)
  /\ UNCHANGED mutex

------------------------------------------------------------------------------
(* _find_and_load() and _lock_unlock_module()                              *)

\* With the lock: load the module if nobody has done so meanwhile.  The mutant
\* does not look again.
NotLookedAgain(t) == goal[t].how = "load"
MustLoad(t) == goal[t].how = "load" /\ modules[Mod(t)] = "absent"

Load(t) == /\ at[t] = "locked" /\ MustLoad(t)
           /\ modules' = [modules EXCEPT ![Mod(t)] = "initializing"]
           /\ stack' = [stack EXCEPT ![t] = Append(@, [of |-> Mod(t), next |-> 1])]
           /\ GoTo(t, "run")
           /\ UNCHANGED <<lockVars, blocking_on, goal, walk>>

\* Nothing to load: let go; after _ModuleLockManager lock and unlock again.
LetGo(t) == /\ at[t] = "locked" /\ ~MustLoad(t)
            /\ ReleaseModule(Mod(t))
            /\ \/ goal[t].how = "load" /\ WantLock(t, Mod(t), "wait") /\ UNCHANGED stack
               \/ /\ goal[t].how = "wait" /\ GoTo(t, "run")
                  /\ stack' = [stack EXCEPT ![t] = NextStatement(@)]
                  /\ UNCHANGED <<goal, blocking_on>>
            /\ UNCHANGED <<modules, walk>>

\* The code of a module is over, or raises: _initializing = False.
Executed(t) ==
  LET m == Top(t).of
  IN /\ m \in Module
     /\ \/ /\ at[t] = "run" /\ Top(t).next > Len(Code(t)) /\ GoTo(t, "loaded")
           /\ modules' = [modules EXCEPT ![m] = "ready"]
        \/ /\ at[t] = "raise" \/ (at[t] = "run" /\ m \in Failing)
           /\ GoTo(t, "unloaded")
           /\ modules' = [modules EXCEPT ![m] = "absent"]
     /\ UNCHANGED <<lockVars, blocking_on, stack, goal, walk>>

\* _ModuleLockManager.__exit__(); go on in the importing code, or raise there.
Leave(t) == /\ at[t] \in {"loaded", "unloaded"}
            /\ ReleaseModule(Top(t).of)
            /\ stack' = [stack EXCEPT ![t] = NextStatement(Front(@))]
            /\ GoTo(t, IF at[t] = "loaded" THEN "run" ELSE "raise")
            /\ UNCHANGED <<modules, blocking_on, goal, walk>>

ImportStep(t) == \/ Import(t) \/ AcquireModule(t) \/ Look(t) \/ Follow(t) \/ Enlist(t)
                 \/ Sleep(t) \/ Load(t) \/ LetGo(t) \/ Executed(t) \/ Leave(t)

\* Weakly fair: some thread that can run does.
ImportNext == \E t \in Importer : ImportStep(t)

LocksSpec == ImportInit /\ [][ImportNext]_importVars

------------------------------------------------------------------------------
(* Properties                                                              *)

ImportTypeOK ==
  /\ modules \in [Module -> {"absent", "initializing", "ready"}]
  /\ owner \in [Module -> Importer \cup {Nobody}] /\ count \in [Module -> Nat]
  /\ lock_waiters \in [Module -> 0 .. 1] /\ wakeup \in [Module -> BOOLEAN]
  /\ mutex \in [Module -> Importer \cup {Nobody}]
  /\ blocking_on \in [Importer \cup {Nobody} -> Module \cup {Nobody}]
  /\ at \in [Importer -> {"run", "acquire", "look", "follow", "enlist", "sleep",
                          "awake", "locked", "loaded", "unloaded", "raise"}]

\* The threads that execute module m, each as often as it is on their stacks.
Frames(t, m)  == {i \in DOMAIN stack[t] : stack[t][i].of = m}
Executions(m) == UNION {{t} \X Frames(t, m) : t \in Importer}

\* Whoever executes a module is the only one and owns its lock.
OneLoader == \A m \in Module : \A e \in Executions(m) :
  /\ Executions(m) = {e} /\ owner[m] = e[1]
  /\ modules[m] = "initializing" \/ at[e[1]] \in {"loaded", "unloaded"}

\* A module is executed by one thread at a time, and never again once it is ready,
\* although threads look at sys.modules without its lock and modules fail or
\* import each other.
LoadedOnce == [][/\ OneLoader'
                 /\ \A m \in Module : modules[m] = "ready" => modules'[m] = "ready"
                ]_importVars

\* "Python ensures that circular imports work without any deadlocks": a thread
\* that wants the lock of a module comes to the end of its program.
Ended(t) == /\ Len(stack[t]) = 1
            /\ at[t] = "raise" \/ (at[t] = "run" /\ Top(t).next > Len(Code(t)))
ImportsEnd == (\E t \in Importer : at[t] = "acquire") ~> \A t \in Importer : Ended(t)

\* Import locks prevent "other threads from seeing incomplete module objects ... An
\* exception is made for circular imports": for modules that do not import each
\* other in a circle.
NoFalseDeadlock == \A t \in Importer :
  at[t] = "follow" => owner[walk[t].lock] # t
==============================================================================
