------------------------------ MODULE Signals --------------------------------
(***************************************************************************)
(* Signals: trip_signal() in the C signal handler, the flags               *)
(* Handlers[i].tripped, is_tripped, signals_pending and eval_breaker, and  *)
(* the main thread that turns them into calls of the Python handlers.      *)
(* Modules/signalmodule.c, Python/ceval.c.                                 *)
(*                                                                         *)
(* A C handler interrupts the main thread between any two accesses to the  *)
(* flags, or runs on another thread at the same time; every access is a    *)
(* step.  Python handlers run bytecode: the main thread's C stack is a     *)
(* sequence of frames, the innermost one last.  eval_breaker is restricted *)
(* to its signals_pending term: the others only ever add to it.            *)
(***************************************************************************)
EXTENDS Naturals, Sequences, SequencesExt

CONSTANTS NSIG,        \* signals 1 .. NSIG-1, in the order they are scanned
          MaxArrivals, \* bound: signals received in all
          MaxFrames,   \* bound: frames on the main thread's C stack
          Elsewhere,   \* may a signal be delivered to another thread?
          Direct,      \* does C code call PyErr_CheckSignals() itself?
          Recomputes   \* does the main thread release the GIL and take it again,
                       \* which runs COMPUTE_EVAL_BREAKER?

Sig == 1 .. NSIG - 1

ASSUME SignalsAssumption == /\ NSIG \in Nat \ {0}
                            /\ MaxArrivals \in Nat /\ MaxFrames \in Nat \ {0}
                            /\ {Elsewhere, Direct, Recomputes} \subseteq BOOLEAN

VARIABLES tripped,         \* Handlers[s].tripped
          is_tripped,
          signals_pending, \* ceval->signals_pending
          eval_breaker,    \* ceval2->eval_breaker, its signals term
          arrivals,        \* signals received so far
          chandler,        \* where the C handler of each signal is
          on_main,         \* signals whose C handler interrupts the main thread
          stack,           \* the C stack of the main thread
          direct_failed    \* history: a check that C code made has failed

flags == <<tripped, is_tripped, signals_pending, eval_breaker>>
hist  == <<arrivals, direct_failed>>
vars  == <<flags, hist, chandler, on_main, stack>>

------------------------------------------------------------------------------
(* Frames.  fn: "eval"     _PyEval_EvalFrameDefault()                      *)
(*              "pending"  eval_frame_handle_pending() -> handle_signals() *)
(*              "direct"   PyErr_CheckSignals() called by a C function     *)
(*              "compute"  take_gil(), which runs COMPUTE_EVAL_BREAKER()   *)
(* at: the next access to a flag; i: the loop variable of                  *)
(* _PyErr_CheckSignalsTstate(); loaded: what COMPUTE_EVAL_BREAKER loaded.  *)

CheckLabels   == {"test", "clear", "scan", "untrip", "call", "retrip"}
HandlerLabels == {"unsignal", "un_load", "un_store",
                  "resignal", "re_load", "re_store"}
FrameType == [fn : {"eval", "pending", "direct", "compute"},
              at : {"run", "pend"} \cup CheckLabels \cup HandlerLabels,
              i : 1 .. NSIG, loaded : BOOLEAN]

Frame(f, l) == [fn |-> f, at |-> l, i |-> 1, loaded |-> FALSE]

Top == stack[Len(stack)]
At(l) == Top.at = l /\ on_main = <<>>

\* The innermost frame goes on at l.
Goto(l) == stack' = [stack EXCEPT ![Len(stack)].at = l]
Push(fr) == /\ Len(stack) < MaxFrames
            /\ stack' = Append(stack, fr)

\* The innermost frame returns 0.
Return == stack' = Front(stack)

\* An exception leaves the innermost frame.  What it does in the frame below:
\* bytecode gets it from eval_frame_handle_pending() or from a C function; a
\* failed Python handler makes _PyErr_CheckSignalsTstate() reschedule itself.
Raise == LET rest == Front(stack) IN
  stack' = IF Last(rest).at = "call"
           THEN [rest EXCEPT ![Len(rest)].at = "retrip"]
           ELSE rest

Init == /\ tripped = [s \in Sig |-> FALSE]
        /\ is_tripped = FALSE
        /\ signals_pending = FALSE
        /\ eval_breaker = FALSE
        /\ arrivals = 0
        /\ chandler = [s \in Sig |-> "idle"]
        /\ on_main = <<>>
        /\ stack = <<Frame("eval", "run")>>
        /\ direct_failed = FALSE

------------------------------------------------------------------------------
(* The C handler: signal_handler() -> trip_signal().                       *)

\* The kernel delivers s: it interrupts the main thread, in a C handler or
\* not, or another thread.  s is blocked while its own handler runs.
Deliver(s) ==
  /\ arrivals < MaxArrivals
  /\ chandler[s] = "idle"
  /\ arrivals' = arrivals + 1
  /\ chandler' = [chandler EXCEPT ![s] = "trip"]
  /\ \/ on_main' = Append(on_main, s)
     \/ Elsewhere /\ UNCHANGED on_main
  /\ UNCHANGED <<flags, stack, direct_failed>>

OnMain(s) == s \in ToSet(on_main)

\* A C handler on the main thread is suspended while a later one runs there.
Runs(s, l) == /\ chandler[s] = l
              /\ OnMain(s) => Last(on_main) = s

\* The flags that trip_signal() and _PyEval_SignalReceived() set, in order, and
\* two mutants: another order.
StoresSwapped == [trip |-> "is_tripped", any |-> "tripped", signal |-> "pending"]
StoresLate    == [trip |-> "tripped", any |-> "pending", signal |-> "is_tripped"]
Stores        == [trip |-> "tripped", any |-> "is_tripped", signal |-> "pending"]
AfterStore    == [trip |-> "any", any |-> "signal", signal |-> "load"]

Trip(s) ==
  /\ chandler[s] \in DOMAIN Stores /\ Runs(s, chandler[s])
  /\ LET flag == Stores[chandler[s]]
     IN  /\ tripped' = [tripped EXCEPT ![s] = @ \/ flag = "tripped"]
         /\ is_tripped' = (is_tripped \/ flag = "is_tripped")
         /\ signals_pending' = (signals_pending \/ flag = "pending")
  /\ chandler' = [chandler EXCEPT ![s] = AfterStore[@]]
  /\ UNCHANGED <<eval_breaker, hist, on_main, stack>>

\* COMPUTE_EVAL_BREAKER in the C handler: _Py_ThreadCanHandleSignals() is
\* true on the main thread only.  Then the handler returns.
TripCompute(s) ==
  /\ \/ /\ Runs(s, "load")
        /\ chandler' = [chandler EXCEPT ![s] =
             IF signals_pending /\ OnMain(s) THEN "store1" ELSE "store0"]
        /\ UNCHANGED <<eval_breaker, on_main>>
     \/ /\ Runs(s, "store0") \/ Runs(s, "store1")
        /\ eval_breaker' = (chandler[s] = "store1")
        /\ chandler' = [chandler EXCEPT ![s] = "idle"]
        /\ on_main' = IF OnMain(s) THEN Front(on_main) ELSE on_main
  /\ UNCHANGED <<tripped, is_tripped, signals_pending, hist, stack>>

------------------------------------------------------------------------------
(* Bytecode on the main thread.                                            *)

\* eval_breaker is seen and eval_frame_handle_pending() looks at
\* signals_pending.
CheckBreaker ==
  /\ At("run") /\ eval_breaker
  /\ Push(Frame("pending", "pend"))
  /\ UNCHANGED <<flags, hist, chandler, on_main>>

TestPending ==
  /\ At("pend")
  /\ IF signals_pending THEN Goto("unsignal") ELSE Return
  /\ UNCHANGED <<flags, hist, chandler, on_main>>

\* A Python handler returns or raises.  At the bottom of the stack bytecode
\* goes on, whatever it does about an exception.
HandlerReturns ==
  /\ At("run") /\ Len(stack) > 1
  /\ LET caller == stack[Len(stack) - 1]
     IN  \/ stack' = [Front(stack) EXCEPT ![Len(stack) - 1] =
                        [caller EXCEPT !.at = "scan", !.i = @ + 1]]
         \/ Raise
  /\ UNCHANGED <<flags, hist, chandler, on_main>>

\* A C function (a blocking call that got EINTR, signal.pthread_sigmask())
\* calls PyErr_CheckSignals().
CallCheckSignals ==
  /\ Direct
  /\ At("run")
  /\ Push(Frame("direct", "test"))
  /\ UNCHANGED <<flags, hist, chandler, on_main>>

\* An instruction calls a C function that ends with take_gil().  Instructions
\* run only after eval_breaker was seen clear.
CallCompute ==
  /\ Recomputes
  /\ At("run") /\ ~eval_breaker
  /\ Push(Frame("compute", "un_load"))
  /\ UNCHANGED <<flags, hist, chandler, on_main>>

------------------------------------------------------------------------------
(* handle_signals()                                                        *)

\* UNSIGNAL_PENDING_SIGNALS: the store before the tests.
Unsignal ==
  /\ At("unsignal")
  /\ signals_pending' = FALSE
  /\ Goto("un_load")
  /\ UNCHANGED <<tripped, is_tripped, eval_breaker, hist, chandler, on_main>>

\* Mutant: the failure is returned without SIGNAL_PENDING_SIGNALS.
ResignalForgotten ==
  /\ At("resignal")
  /\ Raise
  /\ UNCHANGED <<flags, hist, chandler, on_main>>

\* SIGNAL_PENDING_SIGNALS(interp, 0) when _PyErr_CheckSignalsTstate() failed.
Resignal ==
  /\ At("resignal")
  /\ signals_pending' = TRUE
  /\ Goto("re_load")
  /\ UNCHANGED <<tripped, is_tripped, eval_breaker, hist, chandler, on_main>>

\* COMPUTE_EVAL_BREAKER, its load.
ComputeLoad ==
  /\ \/ At("un_load")
     \/ At("re_load")
  /\ stack' = [stack EXCEPT ![Len(stack)].loaded = signals_pending,
                 ![Len(stack)].at = IF @ = "un_load" THEN "un_store"
                                    ELSE "re_store"]
  /\ UNCHANGED <<flags, hist, chandler, on_main>>

\* COMPUTE_EVAL_BREAKER, its store, and where that leads.
ComputeStore ==
  /\ \/ /\ At("un_store")
        /\ IF Top.fn = "compute" THEN Return ELSE Goto("test")
     \/ /\ At("re_store")
        /\ Raise
  /\ eval_breaker' = Top.loaded
  /\ UNCHANGED <<tripped, is_tripped, signals_pending, hist, chandler,
                 on_main>>

------------------------------------------------------------------------------
(* _PyErr_CheckSignalsTstate()                                             *)

TestTripped ==
  /\ At("test")
  /\ IF is_tripped THEN Goto("clear") ELSE Return
  /\ UNCHANGED <<flags, hist, chandler, on_main>>

ClearTripped ==
  /\ At("clear")
  /\ is_tripped' = FALSE
  /\ Goto("scan")
  /\ UNCHANGED <<tripped, signals_pending, eval_breaker, hist, chandler,
                 on_main>>

\* One turn of the loop: the test of Handlers[i].tripped, or the end.
Scan ==
  /\ At("scan")
  /\ IF Top.i = NSIG THEN Return
     ELSE IF tripped[Top.i] THEN Goto("untrip")
     ELSE stack' = [stack EXCEPT ![Len(stack)].i = @ + 1]
  /\ UNCHANGED <<flags, hist, chandler, on_main>>

\* Handlers[i].tripped = 0, then the Python handler is called, unless it is
\* gone meanwhile and an error is written instead (bpo-43406).
Untrip ==
  /\ At("untrip")
  /\ tripped' = [tripped EXCEPT ![Top.i] = FALSE]
  /\ \/ stack' = [stack EXCEPT ![Len(stack)].at = "scan",
                               ![Len(stack)].i = @ + 1]
     \/ /\ Len(stack) < MaxFrames
        /\ stack' = Append([stack EXCEPT ![Len(stack)].at = "call"],
                           Frame("eval", "run"))
  /\ UNCHANGED <<is_tripped, signals_pending, eval_breaker, hist, chandler,
                 on_main>>

\* Mutant: the failure of a handler is reported without rescheduling.
RetripForgotten ==
  /\ At("retrip")
  /\ IF Top.fn = "pending" THEN Goto("resignal") ELSE Raise
  /\ UNCHANGED <<flags, hist, chandler, on_main>>

\* A handler failed: is_tripped = 1, return -1 to the caller.
Retrip ==
  /\ At("retrip")
  /\ is_tripped' = TRUE
  /\ IF Top.fn = "pending" THEN Goto("resignal") ELSE Raise
  /\ direct_failed' = (direct_failed \/ Top.fn = "direct")
  /\ UNCHANGED <<tripped, signals_pending, eval_breaker, arrivals, chandler,
                 on_main>>

------------------------------------------------------------------------------
CHandler(s) == Trip(s) \/ TripCompute(s)

\* What the main thread does by itself.
MainStep == \/ CheckBreaker \/ TestPending \/ HandlerReturns
            \/ Unsignal \/ Resignal \/ ComputeLoad \/ ComputeStore
            \/ TestTripped \/ ClearTripped \/ Scan \/ Untrip \/ Retrip

Next == \/ MainStep \/ CallCheckSignals \/ CallCompute
        \/ \E s \in Sig : Deliver(s) \/ CHandler(s)

Spec == Init /\ [][Next]_vars

\* C handlers and the main thread's bytecode go on, and a Python handler
\* returns however often it is interrupted; where the main thread takes the
\* GIL again at all, because there are other threads, it does so time after
\* time.
FairSpec == /\ Spec
            /\ WF_vars(MainStep) /\ WF_vars(CallCompute)
            /\ SF_vars(HandlerReturns)
            /\ \A s \in Sig : WF_vars(CHandler(s))

------------------------------------------------------------------------------
(* Properties                                                              *)

TypeOK == /\ tripped \in [Sig -> BOOLEAN]
          /\ is_tripped \in BOOLEAN
          /\ signals_pending \in BOOLEAN
          /\ eval_breaker \in BOOLEAN
          /\ arrivals \in 0 .. MaxArrivals
          /\ chandler \in [Sig -> {"idle", "trip", "any", "signal", "load",
                                   "store0", "store1"}]
          /\ on_main \in Seq(Sig)
          /\ stack \in Seq(FrameType) /\ Len(stack) \in 1 .. MaxFrames
          /\ direct_failed \in BOOLEAN

Frames == ToSet(stack)

\* _PyErr_CheckSignalsTstate() in frame f has s before it: it will look at
\* Handlers[s].tripped, or set is_tripped because a handler failed.
WillScan(f, s) == \/ f.at \in {"scan", "untrip"} /\ f.i <= s
                  \/ f.at = "call" /\ f.i < s
                  \/ f.at = "retrip"

\* is_tripped is cleared "before .tripped": a signal that has been received
\* and not been handled is announced by is_tripped, or somebody is about to
\* do that, or to look at it, in whatever nesting of Python handlers.
NoTripForgotten == \A s \in Sig : tripped[s] =>
  \/ is_tripped
  \/ chandler[s] = "any"
  \/ \E f \in Frames : WillScan(f, s)

\* When is_tripped announces signals the eval loop is told (signals_pending),
\* or trip_signal() is on the way to that, or handle_signals() is between
\* UNSIGNAL_PENDING_SIGNALS and its own look at is_tripped, or is about to
\* reschedule itself: until a check that C code made by itself has failed, which
\* sets is_tripped only.
NoSignalForgotten == is_tripped /\ ~direct_failed =>
  \/ signals_pending
  \/ \E s \in Sig : chandler[s] = "signal"
  \/ \E f \in Frames : /\ f.fn = "pending"
                       /\ f.at \in {"un_load", "un_store", "test", "clear",
                                    "resignal"}

\* When the main thread is back in its outermost bytecode and no C handler
\* runs, a signal not handled yet is one the eval loop knows about.
AllRescheduled == (Len(stack) = 1 /\ \A s \in Sig : chandler[s] = "idle") =>
  \A s \in Sig : tripped[s] => signals_pending

\* "On error, re-schedule a call to _PyErr_CheckSignalsTstate()", for errors
\* under handle_signals().
Rescheduled == ~direct_failed => AllRescheduled

\* "to execute the corresponding Python signal handler at a later point (for
\* example at the next bytecode instruction)": a tripped signal is taken up,
\* although a C handler on another thread, or one that interrupts the main
\* thread between load and store of COMPUTE_EVAL_BREAKER, leaves eval_breaker
\* clear: the next take_gil() of the main thread computes it again.
EventuallyHandled == \A s \in Sig : tripped[s] ~> ~tripped[s] \/ direct_failed
==============================================================================
