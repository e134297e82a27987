--------------------------------- MODULE Gil ---------------------------------
(***************************************************************************)
(* The Global Interpreter Lock: take_gil() and drop_gil() of               *)
(* Python/ceval_gil.h with the two mutexes, the two condition variables    *)
(* and the flags they share with the eval loop of Python/ceval.c.          *)
(*                                                                         *)
(* A critical section that touches only what its mutex protects is one     *)
(* step.  gil_drop_request and eval_breaker are plain atomics that are     *)
(* also written without gil->mutex, so every access to them is a step of   *)
(* its own; COMPUTE_EVAL_BREAKER is a load step and a store step.          *)
(*                                                                         *)
(* eval_breaker is restricted here to its gil_drop_request term; the other *)
(* terms (signals, pending calls) are the subject of EvalBreaker.          *)
(***************************************************************************)
EXTENDS Naturals, FiniteSets

CONSTANTS Thread,       \* thread states (PyThreadState) of one interpreter
          Main,         \* the thread that calls Py_FinalizeEx()
          NoThread,     \* NULL
          SwitchModulo, \* gil->switch_number is an unsigned long: it wraps
          Blocking,     \* threads that run Py_BEGIN_ALLOW_THREADS sections
          Finalizes,    \* does Main call Py_FinalizeEx()?
          Spurious      \* may pthread_cond_wait() return spuriously?

ASSUME GilAssumption == /\ Main \in Thread
                        /\ NoThread \notin Thread
                        /\ SwitchModulo \in Nat \ {0}
                        /\ Blocking \subseteq Thread
                        /\ Finalizes \in BOOLEAN
                        /\ Spurious \in BOOLEAN

VARIABLES locked,           \* gil->locked
          last_holder,      \* gil->last_holder
          switch_number,    \* gil->switch_number
          mutex,            \* owner of gil->mutex
          switch_mutex,     \* owner of gil->switch_mutex
          gil_drop_request, \* ceval2->gil_drop_request
          eval_breaker,     \* ceval2->eval_breaker
          finalizing,       \* _PyRuntime._finalizing
          pc,               \* where each thread is, see below
          cont,             \* what a thread does when drop_gil() returns
          saved_switchnum,  \* local of take_gil()
          drop_requested,   \* local of take_gil()
          loaded            \* what COMPUTE_EVAL_BREAKER has loaded

gilvars == <<locked, last_holder, switch_number, mutex, switch_mutex>>
flags   == <<gil_drop_request, eval_breaker>>
locals  == <<saved_switchnum, drop_requested, loaded>>
vars    == <<gilvars, flags, finalizing, pc, cont, locals>>

------------------------------------------------------------------------------
(* Control points.                                                         *)
(*   outside       the thread runs C code without the GIL                  *)
(*   eval          it holds the GIL and runs bytecode                      *)
(*   handle        eval_frame_handle_pending() after eval_breaker was seen *)
(*   exited        PyThread_exit_thread(), or the thread function returned *)

\* The while loop of take_gil(), without gil->mutex unless it is "set_breaker".
WaitLoop == {"cond_wait", "cond_woken", "cond_timeout", "set_breaker"}

\* take_gil() before the GIL is taken and not on the way out.
Taking == {"take", "lock", "ready"} \cup WaitLoop

\* The GIL is held.
Holding == {"eval", "handle", "drop", "after_take", "take_reset",
            "take_compute", "take_store"}

\* drop_gil() after the GIL was released.
Dropping == {"drop_check", "drop_switch", "drop_compute", "drop_store",
             "switch_wait", "switch_woken"}

Exiting == {"exit_reset", "exit_compute", "exit_store", "exited"}

PC == {"outside"} \cup Taking \cup Holding \cup Dropping \cup Exiting

\* Who runs inside gil->mutex and gil->switch_mutex between two steps.
InMutex == {"set_breaker", "ready", "after_take", "take_reset",
            "take_compute", "take_store"}
InSwitchMutex == {"drop_compute", "drop_store"}

Goto(t, l) == pc' = [pc EXCEPT ![t] = l]

\* tstate_must_exit()
MustExit(t) == finalizing # NoThread /\ finalizing # t

Init == /\ locked = TRUE                 \* _PyEval_InitGIL() by Main
        /\ last_holder = Main
        /\ switch_number = 0
        /\ mutex = NoThread
        /\ switch_mutex = NoThread
        /\ gil_drop_request = FALSE
        /\ eval_breaker = FALSE
        /\ finalizing = NoThread
        /\ pc = [t \in Thread |-> IF t = Main THEN "eval" ELSE "outside"]
        /\ cont = [t \in Thread |-> "outside"]
        /\ saved_switchnum = [t \in Thread |-> 0]
        /\ drop_requested = [t \in Thread |-> FALSE]
        /\ loaded = [t \in Thread |-> FALSE]

------------------------------------------------------------------------------
(* COND_SIGNAL: wakes one of the threads at label "from", if there is one. *)
\* Signals gil->cond while thread t moves to label l.
SignalCond(t, l) ==
  IF \E u \in Thread : pc[u] = "cond_wait"
  THEN \E u \in Thread : /\ pc[u] = "cond_wait"
                         /\ pc' = [pc EXCEPT ![u] = "cond_woken", ![t] = l]
  ELSE Goto(t, l)

\* Signals gil->switch_cond while thread t moves to label l.
SignalSwitchCond(t, l) ==
  IF \E u \in Thread : pc[u] = "switch_wait"
  THEN \E u \in Thread : /\ pc[u] = "switch_wait"
                         /\ pc' = [pc EXCEPT ![u] = "switch_woken", ![t] = l]
  ELSE Goto(t, l)

------------------------------------------------------------------------------
(* The eval loop and the API calls around the GIL.                         *)

\* PyEval_RestoreThread(), PyEval_AcquireThread()
RestoreThread(t) ==
  /\ pc[t] = "outside"
  /\ Goto(t, "take")
  /\ UNCHANGED <<gilvars, flags, finalizing, cont, locals>>

\* PyEval_SaveThread(), and PyThreadState_DeleteCurrent() at the end of a
\* thread's life, which drops the GIL and never comes back.
SaveThread(t) ==
  /\ pc[t] = "eval"
  /\ \/ t \in Blocking /\ cont' = [cont EXCEPT ![t] = "outside"]
     \/ t \in Blocking \ {Main} /\ cont' = [cont EXCEPT ![t] = "exited"]
  /\ Goto(t, "drop")
  /\ UNCHANGED <<gilvars, flags, finalizing, locals>>

\* The check of eval_breaker at the top of the eval loop.
CheckBreaker(t) ==
  /\ pc[t] = "eval"
  /\ eval_breaker
  /\ Goto(t, "handle")
  /\ UNCHANGED <<gilvars, flags, finalizing, cont, locals>>

\* One instruction with eval_breaker clear: nothing the GIL can see happens.
RunBytecode(t) ==
  /\ pc[t] = "eval"
  /\ ~eval_breaker
  /\ UNCHANGED vars

\* eval_frame_handle_pending(): drop the GIL on request, then take it again.
HandlePending(t) ==
  /\ pc[t] = "handle"
  /\ IF gil_drop_request
     THEN /\ Goto(t, "drop")
          /\ cont' = [cont EXCEPT ![t] = "take"]
     ELSE /\ Goto(t, "eval")
          /\ UNCHANGED cont
  /\ UNCHANGED <<gilvars, flags, finalizing, locals>>

\* Py_FinalizeEx(): _PyRuntimeState_SetFinalizing() with the GIL held.
SetFinalizing(t) ==
  /\ Finalizes
  /\ t = Main
  /\ pc[t] = "eval"
  /\ finalizing = NoThread
  /\ finalizing' = t
  /\ UNCHANGED <<gilvars, flags, pc, cont, locals>>

------------------------------------------------------------------------------
(* take_gil()                                                              *)

\* Entry: exit at once when another thread is finalizing the interpreter.
TakeEntry(t) ==
  /\ pc[t] = "take"
  /\ Goto(t, IF MustExit(t) THEN "exited" ELSE "lock")
  /\ drop_requested' = [drop_requested EXCEPT ![t] = FALSE]
  /\ UNCHANGED <<gilvars, flags, finalizing, cont, saved_switchnum, loaded>>

\* MUTEX_LOCK(gil->mutex), the test of gil->locked and, while it is set, the
\* next turn of the loop: remember switch_number and start to wait.
TestLocked(t) ==
  IF locked
  THEN /\ Goto(t, "cond_wait")
       /\ saved_switchnum' = [saved_switchnum EXCEPT ![t] = switch_number]
       /\ mutex' = NoThread
  ELSE /\ Goto(t, "ready")
       /\ mutex' = t
       /\ UNCHANGED saved_switchnum

TakeLock(t) ==
  /\ pc[t] = "lock"
  /\ mutex = NoThread
  /\ TestLocked(t)
  /\ UNCHANGED <<locked, last_holder, switch_number, switch_mutex, flags,
                 finalizing, cont, drop_requested, loaded>>

\* COND_TIMED_WAIT stops waiting: the interval has passed.
CondTimeout(t) ==
  /\ pc[t] = "cond_wait"
  /\ Goto(t, "cond_timeout")
  /\ UNCHANGED <<gilvars, flags, finalizing, cont, locals>>

\* pthread_cond_timedwait() returns 0 without a signal.
SpuriousCond(t) ==
  /\ Spurious
  /\ pc[t] = "cond_wait"
  /\ Goto(t, "cond_woken")
  /\ UNCHANGED <<gilvars, flags, finalizing, cont, locals>>

\* Mutant: "if" for "while", the GIL is not tested again after a wake-up.
CondWokenNoRetest(t) ==
  /\ pc[t] = "cond_woken"
  /\ mutex = NoThread
  /\ Goto(t, "ready")
  /\ mutex' = t
  /\ UNCHANGED <<locked, last_holder, switch_number, switch_mutex, flags,
                 finalizing, cont, locals>>

\* Woken by a signal: timed_out is 0, test gil->locked again.
CondWoken(t) ==
  /\ pc[t] = "cond_woken"
  /\ mutex = NoThread
  /\ TestLocked(t)
  /\ UNCHANGED <<locked, last_holder, switch_number, switch_mutex, flags,
                 finalizing, cont, drop_requested, loaded>>

\* Timed out: if nothing was switched meanwhile ask for the GIL, or exit.
CondTimedOut(t) ==
  /\ pc[t] = "cond_timeout"
  /\ mutex = NoThread
  /\ \/ /\ ~(locked /\ switch_number = saved_switchnum[t])
        /\ TestLocked(t)
        /\ UNCHANGED gil_drop_request
     \/ /\ locked /\ switch_number = saved_switchnum[t]
        /\ IF MustExit(t)
           THEN /\ Goto(t, "exit_reset")     \* mutex is unlocked first
                /\ UNCHANGED <<mutex, gil_drop_request>>
           ELSE /\ Goto(t, "set_breaker")    \* SET_GIL_DROP_REQUEST
                /\ mutex' = t
                /\ gil_drop_request' = TRUE
        /\ UNCHANGED saved_switchnum
  /\ UNCHANGED <<locked, last_holder, switch_number, switch_mutex,
                 eval_breaker, finalizing, cont, drop_requested, loaded>>

\* Mutant: the request is made but eval_breaker is not raised.
SetBreakerSilent(t) ==
  /\ pc[t] = "set_breaker"
  /\ drop_requested' = [drop_requested EXCEPT ![t] = TRUE]
  /\ TestLocked(t)
  /\ UNCHANGED <<locked, last_holder, switch_number, switch_mutex, flags,
                 finalizing, cont, loaded>>

\* The second store of SET_GIL_DROP_REQUEST, then the next turn of the loop.
SetBreaker(t) ==
  /\ pc[t] = "set_breaker"
  /\ eval_breaker' = TRUE
  /\ drop_requested' = [drop_requested EXCEPT ![t] = TRUE]
  /\ TestLocked(t)
  /\ UNCHANGED <<locked, last_holder, switch_number, switch_mutex,
                 gil_drop_request, finalizing, cont, loaded>>

\* gh-96387: an exiting thread takes back the request it made before.
ExitReset(t) ==
  /\ pc[t] = "exit_reset"
  /\ IF drop_requested[t]
     THEN Goto(t, "exit_compute") /\ gil_drop_request' = FALSE
     ELSE Goto(t, "exited") /\ UNCHANGED gil_drop_request
  /\ UNCHANGED <<gilvars, eval_breaker, finalizing, cont, locals>>

\* Mutant of TakeReady: the last holder is not told.
TakeReadyNoSignal(t) ==
  /\ pc[t] = "ready"
  /\ switch_mutex = NoThread
  /\ locked' = TRUE
  /\ last_holder' = t
  /\ Goto(t, "after_take")
  /\ UNCHANGED <<switch_number, mutex, switch_mutex, flags, finalizing, cont,
                 locals>>

\* _ready: under switch_mutex take the GIL and tell the last holder.
TakeReady(t) ==
  /\ pc[t] = "ready"
  /\ switch_mutex = NoThread
  /\ locked' = TRUE
  /\ IF last_holder # t
     THEN /\ last_holder' = t
          /\ switch_number' = (switch_number + 1) % SwitchModulo
     ELSE UNCHANGED <<last_holder, switch_number>>
  /\ SignalSwitchCond(t, "after_take")
  /\ UNCHANGED <<mutex, switch_mutex, flags, finalizing, cont, locals>>

\* Mutant: the check of bpo-36475 is missing.
AfterTakeNoExit(t) ==
  /\ pc[t] = "after_take"
  /\ Goto(t, "take_reset")
  /\ UNCHANGED <<gilvars, flags, finalizing, cont, locals>>

\* The GIL is taken: give it back and exit, or go on.
AfterTake(t) ==
  /\ pc[t] = "after_take"
  /\ IF MustExit(t)
     THEN /\ Goto(t, "drop")
          /\ cont' = [cont EXCEPT ![t] = "exited"]
          /\ mutex' = NoThread
     ELSE /\ Goto(t, "take_reset")
          /\ UNCHANGED <<cont, mutex>>
  /\ UNCHANGED <<locked, last_holder, switch_number, switch_mutex, flags,
                 finalizing, locals>>

\* Mutant: the thread that takes the GIL leaves the request set.
TakeResetForgotten(t) ==
  /\ pc[t] = "take_reset"
  /\ Goto(t, "take_compute")
  /\ UNCHANGED <<gilvars, flags, finalizing, cont, locals>>

\* RESET_GIL_DROP_REQUEST if it is set; COMPUTE_EVAL_BREAKER in either case.
TakeReset(t) ==
  /\ pc[t] = "take_reset"
  /\ gil_drop_request' = FALSE
  /\ Goto(t, "take_compute")
  /\ UNCHANGED <<gilvars, eval_breaker, finalizing, cont, locals>>

------------------------------------------------------------------------------
(* drop_gil()                                                              *)

\* last_holder = tstate; under gil->mutex free the GIL and signal gil->cond.
DropUnlock(t) ==
  /\ pc[t] = "drop"
  /\ mutex = NoThread
  /\ last_holder' = t
  /\ locked' = FALSE
  /\ SignalCond(t, "drop_check")
  /\ UNCHANGED <<switch_number, mutex, switch_mutex, flags, finalizing, cont,
                 locals>>

\* Read gil_drop_request without a lock: was the GIL asked for?
DropCheck(t) ==
  /\ pc[t] = "drop_check"
  /\ Goto(t, IF gil_drop_request THEN "drop_switch" ELSE cont[t])
  /\ UNCHANGED <<gilvars, flags, finalizing, cont, locals>>

\* Mutant: wait for a switch without looking whether it has happened.
DropSwitchBlind(t) ==
  /\ pc[t] = "drop_switch"
  /\ switch_mutex = NoThread
  /\ switch_mutex' = t
  /\ gil_drop_request' = FALSE
  /\ Goto(t, "drop_compute")
  /\ UNCHANGED <<locked, last_holder, switch_number, mutex, eval_breaker,
                 finalizing, cont, locals>>

\* Under switch_mutex: not switched yet => reset the request and wait.
DropSwitch(t) ==
  /\ pc[t] = "drop_switch"
  /\ switch_mutex = NoThread
  /\ IF last_holder = t
     THEN /\ switch_mutex' = t
          /\ gil_drop_request' = FALSE
          /\ Goto(t, "drop_compute")
     ELSE /\ Goto(t, cont[t])
          /\ UNCHANGED <<switch_mutex, gil_drop_request>>
  /\ UNCHANGED <<locked, last_holder, switch_number, mutex, eval_breaker,
                 finalizing, cont, locals>>

\* COND_WAIT(switch_cond) returns: relock and unlock switch_mutex.
SwitchWoken(t) ==
  /\ pc[t] = "switch_woken"
  /\ switch_mutex = NoThread
  /\ Goto(t, cont[t])
  /\ UNCHANGED <<gilvars, flags, finalizing, cont, locals>>

\* pthread_cond_wait() returns without a signal.
SpuriousSwitch(t) ==
  /\ Spurious
  /\ pc[t] = "switch_wait"
  /\ Goto(t, "switch_woken")
  /\ UNCHANGED <<gilvars, flags, finalizing, cont, locals>>

------------------------------------------------------------------------------
(* COMPUTE_EVAL_BREAKER: load gil_drop_request, later store eval_breaker.  *)

BreakerLoad(t) ==
  /\ \/ pc[t] = "take_compute" /\ Goto(t, "take_store")
     \/ pc[t] = "drop_compute" /\ Goto(t, "drop_store")
     \/ pc[t] = "exit_compute" /\ Goto(t, "exit_store")
  /\ loaded' = [loaded EXCEPT ![t] = gil_drop_request]
  /\ UNCHANGED <<gilvars, flags, finalizing, cont, saved_switchnum,
                 drop_requested>>

\* The store, and what the caller does next: unlock gil->mutex and run
\* bytecode, wait on switch_cond, or exit.
BreakerStore(t) ==
  /\ \/ /\ pc[t] = "take_store"
        /\ Goto(t, "eval")
        /\ mutex' = NoThread
        /\ UNCHANGED switch_mutex
     \/ /\ pc[t] = "drop_store"
        /\ Goto(t, "switch_wait")
        /\ switch_mutex' = NoThread
        /\ UNCHANGED mutex
     \/ /\ pc[t] = "exit_store"
        /\ Goto(t, "exited")
        /\ UNCHANGED <<mutex, switch_mutex>>
  /\ eval_breaker' = loaded[t]
  /\ UNCHANGED <<locked, last_holder, switch_number, gil_drop_request,
                 finalizing, cont, locals>>

------------------------------------------------------------------------------
TakeGil(t) == \/ TakeEntry(t) \/ TakeLock(t) \/ CondTimeout(t) \/ CondWoken(t)
              \/ CondTimedOut(t) \/ SetBreaker(t) \/ ExitReset(t)
              \/ TakeReady(t) \/ AfterTake(t) \/ TakeReset(t)

DropGil(t) == DropUnlock(t) \/ DropCheck(t) \/ DropSwitch(t) \/ SwitchWoken(t)

Compute(t) == BreakerLoad(t) \/ BreakerStore(t)

EvalLoop(t) == CheckBreaker(t) \/ RunBytecode(t) \/ HandlePending(t)

\* What a thread does once it is inside the interpreter, and what it need
\* not do: start, block, finish, finalize, be woken for no reason.
Step(t) == TakeGil(t) \/ DropGil(t) \/ Compute(t) \/ EvalLoop(t)

Optional(t) == \/ RestoreThread(t) \/ SaveThread(t) \/ SetFinalizing(t)
               \/ SpuriousCond(t) \/ SpuriousSwitch(t)

Next == \E t \in Thread : Step(t) \/ Optional(t)

Spec == Init /\ [][Next]_vars

\* Every thread that can go on does so; timed waits do time out.  The holder
\* gets gil->mutex when it is free again and again: the waiting threads hold
\* it only for a moment once per interval ("mostly uncontended", lines 14-17).
FairSpec == Spec /\ \A t \in Thread : WF_vars(Step(t)) /\ SF_vars(DropUnlock(t))

------------------------------------------------------------------------------
(* Properties                                                              *)

TypeOK == /\ locked \in BOOLEAN
          /\ last_holder \in Thread
          /\ switch_number \in 0 .. SwitchModulo - 1
          /\ mutex \in Thread \cup {NoThread}
          /\ switch_mutex \in Thread \cup {NoThread}
          /\ gil_drop_request \in BOOLEAN
          /\ eval_breaker \in BOOLEAN
          /\ finalizing \in {Main, NoThread}
          /\ pc \in [Thread -> PC]
          /\ cont \in [Thread -> {"outside", "take", "exited"}]
          /\ saved_switchnum \in [Thread -> 0 .. SwitchModulo - 1]
          /\ drop_requested \in [Thread -> BOOLEAN]
          /\ loaded \in [Thread -> BOOLEAN]

\* Mutual exclusion: two threads are never both between taking the GIL and
\* releasing it, and gil->locked tells exactly whether one is, so drop_gil()
\* never meets its fatal error "GIL is not locked".
OneHolder == /\ \A t, u \in Thread :
                  pc[t] \in Holding /\ pc[u] \in Holding => t = u
             /\ locked <=> \E t \in Thread : pc[t] \in Holding

\* A single COND_SIGNAL(switch_cond) in take_gil() is enough: no two threads
\* ever wait on switch_cond, whatever the order of drops and takes.
OneSwitchWaiter == \A t, u \in Thread :
  pc[t] = "switch_wait" /\ pc[u] = "switch_wait" => t = u

\* Forced switching: a thread that waited in drop_gil() leaves the wait only
\* after another thread has taken the GIL ("until the value of last_holder is
\* changed to something else than its own thread state pointer").
ForcedSwitch == \A t \in Thread : pc[t] = "switch_woken" => last_holder # t

\* Before finalization starts drop_gil() waits for a switch only while some
\* other thread is still on its way to the GIL, so that the wait ends.
SwitchHasTaker == finalizing = NoThread => \A t \in Thread :
  pc[t] = "switch_wait" => \E u \in Thread \ {t} : pc[u] \in Taking

\* bpo-36475, bpo-39877: once Py_FinalizeEx() has set _finalizing, no other
\* thread runs bytecode, although it may have been waiting for the GIL then.
OnlyFinalizerRuns == finalizing # NoThread =>
  \A t \in Thread : pc[t] \in {"eval", "handle"} => t = finalizing

\* A CPU-bound thread does not keep the GIL from a waiting one: when u waits
\* in take_gil() the holder lets go, even though COMPUTE_EVAL_BREAKER may
\* clear eval_breaker after the request was made.
HolderYields == \A t \in Thread :
  (pc[t] \in Holding /\ \E u \in Thread : pc[u] \in WaitLoop)
     ~> (pc[t] \notin Holding \/ \A u \in Thread : pc[u] \notin WaitLoop)

\* A thread that waits in drop_gil() for a switch gets out of it.
SwitchWaitEnds == \A t \in Thread :
  pc[t] = "switch_wait" ~> pc[t] # "switch_wait"

\* The abstract lock: who holds it follows from locked and last_holder, who
\* yielded from the thread inside the forced switch.
Yielder == {t \in Thread : pc[t] \in {"drop_compute", "drop_store",
                                      "switch_wait"}}
Abs == INSTANCE GilAbstract
         WITH holder  <- IF locked THEN last_holder ELSE NoThread,
              yielded <- IF Yielder = {} THEN NoThread
                         ELSE CHOOSE t \in Yielder : TRUE

\* take_gil() and drop_gil() implement the abstract lock with forced switching.
ImplementsAbstractGil == Abs!AbsSpec
==============================================================================
