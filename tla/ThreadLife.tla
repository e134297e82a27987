----------------------------- MODULE ThreadLife ------------------------------
(***************************************************************************)
(* The life of threading.Thread objects (Lib/threading.py): start(), the   *)
(* bootstrap, the end of the thread state, join() and is_alive() by        *)
(* several threads, and _shutdown() in the main thread.                    *)
(*                                                                         *)
(* A thread holds its _tstate_lock from its bootstrap until the C code     *)
(* deletes its thread state.  join() acquires and releases that lock and   *)
(* calls _stop(); none of this is under another lock, and a signal handler *)
(* may raise an exception in the main thread at any point of it.           *)
(***************************************************************************)
EXTENDS Naturals, FiniteSets

CONSTANTS Child,     \* Thread objects
          Parent,    \* who starts each: the main thread or another child
          Daemon,    \* those with daemon=True
          Main,      \* the main thread
          Caller,    \* threads that call join() or is_alive()
          Interrupts \* may a signal handler raise in the main thread?  Once: a
                     \* bound

NoOne == "no one"

ASSUME ThreadLifeAssumption ==
  /\ Main \notin Child /\ Parent \in [Child -> Child \cup {Main}]
  /\ Daemon \subseteq Child /\ Interrupts \in BOOLEAN
  /\ Caller \cap Child = {} /\ NoOne \notin Child \cup Caller \cup {Main}

VARIABLES life,           \* how far each child is
          holder,          \* who holds its _tstate_lock
          bound,          \* children whose attribute _tstate_lock is not None
          stopped,        \* children whose _is_stopped is True
          shutdown_locks, \* _shutdown_locks: children whose lock is there
          join,           \* where each caller is in join(), and of which child
          main,           \* where _shutdown() is
          locks,          \* the locks it has still to wait for
          mine,           \* the one it has acquired
          interrupted     \* history: the main thread was interrupted in join()

lifeVars == <<life, holder, bound, stopped, shutdown_locks, join, main, locks,
              mine, interrupted>>
calling == <<join, interrupted>>
leaving == <<main, locks, mine>>

Life == {"new", "spawned", "locked", "registered", "running", "dead"}
JoinAt == {"idle", "acquire", "release", "stop", "unbind", "maintain", "except",
           "stop again"}
MainAt == {"work", "grab", "wait", "held", "done", "failed"}

LifeInit == /\ life = [c \in Child |-> "new"]
            /\ holder = [c \in Child |-> NoOne]
            /\ bound = {} /\ stopped = {} /\ shutdown_locks = {}
            /\ join = [j \in Caller |-> [at |-> "idle", of |-> NoOne]]
            /\ main = "work" /\ locks = {} /\ mine = NoOne
            /\ interrupted = FALSE

Held(c) == holder[c] # NoOne
Maintained(s) == {c \in s : Held(c)}   \* _maintain_shutdown_locks()

------------------------------------------------------------------------------
(* A thread from start() to its end                                        *)

Alive(p) == IF p = Main THEN main = "work" /\ (Main \in Caller => join[Main].at = "idle")
            ELSE life[p] = "running"

\* _started is set, after the lock was entered; the mutant sets it before.
StartedEarly(c) == life[c] \in {"locked", "registered", "running", "dead"}
Started(c) == life[c] \in {"running", "dead"}

\* The parent is in start(): it waits for _started.
Starting(p) == \E c \in Child : Parent[c] = p /\ life[c] # "new" /\ ~Started(c)

\* start(), up to _start_new_thread()
Start(c) == /\ life[c] = "new" /\ Alive(Parent[c]) /\ ~Starting(Parent[c])
            /\ life' = [life EXCEPT ![c] = "spawned"]
            /\ UNCHANGED <<holder, bound, stopped, shutdown_locks, calling, leaving>>

\* _set_tstate_lock(): the sentinel is made and acquired.
SetTstateLock(c) ==
  /\ life[c] = "spawned"
  /\ life' = [life EXCEPT ![c] = "locked"]
  /\ holder' = [holder EXCEPT ![c] = c]
  /\ bound' = bound \cup {c}
  /\ UNCHANGED <<stopped, shutdown_locks, calling, leaving>>

\* Enter the lock in _shutdown_locks; then _started.set().
Register(c) ==
  /\ life[c] = "locked"
  /\ shutdown_locks' = IF c \in Daemon THEN shutdown_locks
                       ELSE Maintained(shutdown_locks) \cup {c}
  /\ life' = [life EXCEPT ![c] = "registered"]
  /\ UNCHANGED <<holder, bound, stopped, calling, leaving>>

SetStarted(c) ==
  /\ life[c] = "registered"
  /\ life' = [life EXCEPT ![c] = "running"]
  /\ UNCHANGED <<holder, bound, stopped, shutdown_locks, calling, leaving>>

\* release_sentinel(); the mutant forgets it.
SentinelKept(c) == holder
SentinelReleased(c) == [holder EXCEPT ![c] = NoOne]

\* run() is over, the thread state is deleted.
End(c) ==
  /\ life[c] = "running" /\ ~Starting(c)
  /\ life' = [life EXCEPT ![c] = "dead"]
  /\ holder' = SentinelReleased(c)
  /\ UNCHANGED <<bound, stopped, shutdown_locks, calling, leaving>>

------------------------------------------------------------------------------
(* join(), is_alive() and _stop()                                          *)

At(j, l) == join[j].at = l
GoOn(j, l) == join' = [join EXCEPT ![j] =
                 [at |-> l, of |-> IF l = "idle" THEN NoOne ELSE @.of]]

\* _wait_for_tstate_lock(); it returns at once when the attribute is None.
JoinThread(j, c) ==
  /\ At(j, "idle") /\ Started(c) /\ c \in bound
  /\ j = Main => main = "work"
  /\ join' = [join EXCEPT ![j] = [at |-> "acquire", of |-> c]]
  /\ UNCHANGED <<life, holder, bound, stopped, shutdown_locks,
                 interrupted, leaving>>

\* Where join() goes when the time is over; the mutant goes on to _stop().
IgnoresTimeout == "stop"
NotAcquired == "idle"

\* lock.acquire(block, timeout): acquired, or not.
JoinAcquire(j) ==
  LET c == join[j].of
  IN /\ At(j, "acquire")
     /\ \/ ~Held(c) /\ holder' = [holder EXCEPT ![c] = j] /\ GoOn(j, "release")
        \/ UNCHANGED holder /\ GoOn(j, NotAcquired)
     /\ UNCHANGED <<life, bound, stopped, shutdown_locks, interrupted, leaving>>

\* lock.release(), which raises RuntimeError if somebody else has released it.
JoinRelease(j) ==
  LET c == join[j].of
  IN /\ At(j, "release")
     /\ \/ Held(c) /\ holder' = [holder EXCEPT ![c] = NoOne] /\ GoOn(j, "stop")
        \/ ~Held(c) /\ GoOn(j, "except") /\ UNCHANGED holder
     /\ UNCHANGED <<life, bound, stopped, shutdown_locks, interrupted, leaving>>

\* _stop(): assert not lock.locked(), then _is_stopped = True
Stop(j) ==
  LET c == join[j].of
  IN /\ join[j].at \in {"stop", "stop again"}
     /\ IF c \in bound /\ Held(c)
        THEN GoOn(j, IF At(j, "stop") THEN "except" ELSE "idle") /\ UNCHANGED stopped
        ELSE GoOn(j, "unbind") /\ stopped' = stopped \cup {c}
     /\ UNCHANGED <<life, holder, bound, shutdown_locks, interrupted, leaving>>

\* _tstate_lock = None
Unbind(j) == /\ At(j, "unbind")
             /\ bound' = bound \ {join[j].of}
             /\ GoOn(j, IF join[j].of \in Daemon THEN "idle" ELSE "maintain")
             /\ UNCHANGED <<life, holder, stopped, shutdown_locks, interrupted,
                            leaving>>

Maintain(j) == /\ At(j, "maintain")
               /\ shutdown_locks' = Maintained(shutdown_locks)
               /\ GoOn(j, "idle")
               /\ UNCHANGED <<life, holder, bound, stopped, interrupted, leaving>>

\* A signal handler raises in the main thread.
Interrupt ==
  /\ Interrupts /\ ~interrupted
  /\ \/ /\ Main \in Caller
        /\ join[Main].at \in {"acquire", "release", "stop", "unbind", "maintain"}
        /\ GoOn(Main, "except") /\ UNCHANGED main
     \/ main \in {"wait", "held"} /\ main' = "failed" /\ UNCHANGED join
  /\ interrupted' = TRUE
  /\ UNCHANGED <<life, holder, bound, stopped, shutdown_locks, locks, mine>>

\* except: a lock that is locked is taken for one's own.
Except(j) ==
  LET c == join[j].of
  IN /\ At(j, "except")
     /\ \/ Held(c) /\ holder' = [holder EXCEPT ![c] = NoOne] /\ GoOn(j, "stop again")
        \/ ~Held(c) /\ GoOn(j, "idle") /\ UNCHANGED holder
     /\ UNCHANGED <<life, bound, stopped, shutdown_locks, interrupted, leaving>>

JoinStep(j) == \/ JoinAcquire(j) \/ JoinRelease(j) \/ Stop(j) \/ Unbind(j)
               \/ Maintain(j) \/ Except(j)

------------------------------------------------------------------------------
(* _shutdown()                                                             *)

\* The main thread leaves its program and comes to the loop.
Shutdown == /\ main = "work" /\ ~Starting(Main)
            /\ Main \in Caller => At(Main, "idle")
            /\ main' = "grab"
            /\ UNCHANGED <<life, holder, bound, stopped, shutdown_locks, calling,
                           locks, mine>>

\* "new threads can be spawned while we were waiting": look again.
NextRound == main' = "grab"

\* locks = list(_shutdown_locks); _shutdown_locks.clear()
Grab == /\ main = "grab"
        /\ locks' = shutdown_locks /\ shutdown_locks' = {}
        /\ main' = IF shutdown_locks = {} THEN "done" ELSE "wait"
        /\ UNCHANGED <<life, holder, bound, stopped, calling, mine>>

\* lock.acquire(), in any order; the round is over.
ShutdownAcquire ==
  /\ main = "wait"
  /\ \/ \E c \in locks : /\ ~Held(c)
                         /\ holder' = [holder EXCEPT ![c] = Main]
                         /\ locks' = locks \ {c} /\ mine' = c /\ main' = "held"
     \/ locks = {} /\ NextRound /\ UNCHANGED <<holder, locks, mine>>
  /\ UNCHANGED <<life, bound, stopped, shutdown_locks, calling>>

\* lock.release(); if a join() has released it, the RuntimeError ends
\* _shutdown().
ShutdownRelease ==
  /\ main = "held"
  /\ main' = IF Held(mine) THEN "wait" ELSE "failed"
  /\ holder' = [holder EXCEPT ![mine] = NoOne]
  /\ mine' = NoOne
  /\ UNCHANGED <<life, bound, stopped, shutdown_locks, calling, locks>>

------------------------------------------------------------------------------
LifeStep(c) == SetTstateLock(c) \/ Register(c) \/ SetStarted(c) \/ End(c)
ShutdownStep == Grab \/ ShutdownAcquire \/ ShutdownRelease

LifeNext == \/ \E c \in Child : Start(c) \/ LifeStep(c)
            \/ \E j \in Caller : JoinStep(j) \/ \E c \in Child : JoinThread(j, c)
            \/ Interrupt \/ Shutdown \/ ShutdownStep

LifeSpec == LifeInit /\ [][LifeNext]_lifeVars

\* Weakly fair: threads run and end, but need not call anything.
LifeFair(t) == \/ t \in Child /\ LifeStep(t)
               \/ t \in Caller /\ JoinStep(t)
               \/ t = Main /\ ShutdownStep

------------------------------------------------------------------------------
(* Properties                                                              *)

LifeTypeOK == /\ life \in [Child -> Life]
              /\ holder \in [Child -> Child \cup Caller \cup {Main, NoOne}]
              /\ bound \subseteq Child /\ stopped \subseteq Child
              /\ shutdown_locks \subseteq Child /\ locks \subseteq Child
              /\ join \in [Caller -> [at : JoinAt, of : Child \cup {NoOne}]]
              /\ main \in MainAt /\ mine \in Child \cup {NoOne}
              /\ interrupted \in BOOLEAN

\* "After calling ._stop(), .is_alive() returns False": only of a thread that has
\* ended, however many threads join it, unless the main thread was interrupted
\* in join(); and "assert self._is_stopped" holds when the lock is gone.
StoppedIsDead == /\ ~interrupted => \A c \in stopped : life[c] = "dead"
                 /\ \A c \in Child : Started(c) /\ c \notin bound => c \in stopped

\* "_stop() ... they're not serialized. That's harmless": without signals join()
\* does not raise.
JoinHarmless == ~interrupted => \A j \in Caller : ~At(j, "except")

\* _shutdown() returns when all non-daemon threads have ended, those included
\* that were started meanwhile, unless a daemon thread, or a thread it started, did.
FromDaemon(c) == \A S \in SUBSET Child :
  Daemon \subseteq S /\ (\A d \in Child : Parent[d] \in S => d \in S) => c \in S
ShutdownWaits == main = "done" /\ ~interrupted =>
  \A c \in Child : life[c] \in {"new", "dead"} \/ FromDaemon(c)

\* Once the threads have ended, _shutdown() ends.
ShutdownEnds == main = "grab" ~> main \in {"done", "failed"}
==============================================================================
