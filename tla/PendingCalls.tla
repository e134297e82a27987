---------------------------- MODULE PendingCalls -----------------------------
(***************************************************************************)
(* Pending calls: Py_AddPendingCall() from any thread, the ring buffer     *)
(* pending->calls, and make_pending_calls() which the main thread runs     *)
(* from its eval loop when calls_to_do has raised eval_breaker.            *)
(* Python/ceval.c.                                                         *)
(*                                                                         *)
(* A push or a pop under pending->lock is one step; every access to        *)
(* calls_to_do, gil_drop_request and eval_breaker is a step of its own.    *)
(* The GIL is the lock of Gil without its waits: gil is its holder, and    *)
(* "mutex" and "switch mutex" below are who would be inside them.          *)
(***************************************************************************)
EXTENDS Integers, Sequences

CONSTANTS Thread,        \* OS threads
          Main,          \* the main thread
          Foreign,       \* threads that never take the GIL
          NoThread,      \* NULL
          NPENDINGCALLS, \* size of the ring buffer
          MaxCalls       \* bound: calls added in all

ASSUME PendingAssumption == /\ Main \in Thread
                            /\ Foreign \subseteq Thread \ {Main}
                            /\ NoThread \notin Thread
                            /\ NPENDINGCALLS \in Nat \ {0}
                            /\ MaxCalls \in Nat

VARIABLES calls,            \* pending->calls, each call a number
          first, last,      \* pending->first, pending->last
          calls_to_do,      \* pending->calls_to_do
          gil_drop_request, \* ceval2->gil_drop_request
          eval_breaker,     \* ceval2->eval_breaker
          gil,              \* who holds the GIL
          last_holder,      \* gil->last_holder
          busy,             \* the static variable of make_pending_calls()
          iter,             \* its loop variable
          pc,               \* where each thread is
          back,             \* where it goes on after take_gil() or an addition
          loaded,           \* what COMPUTE_EVAL_BREAKER has loaded
          added, called,    \* history: calls queued, calls taken off the queue
          stray             \* history: a thread without the GIL has added

ring  == <<calls, first, last, added, called>>
flags == <<calls_to_do, gil_drop_request, eval_breaker>>
lock  == <<gil, last_holder>>
make  == <<busy, iter>>
local == <<loaded, stray>>
vars  == <<ring, flags, lock, make, pc, back, loaded, stray>>

------------------------------------------------------------------------------
(* outside: runs C code without the GIL; eval: runs bytecode; pop, call:    *)
(* make_pending_calls() takes a call off the queue, the callback runs.      *)

AddLabels  == {"add_push", "add_signal", "add_load", "add_store"}
MakeLabels == {"make", "mk_unsignal", "mk_load", "mk_store", "pop", "call",
               "err_signal", "err_load", "err_store"}
TakeLabels == {"tk_reset", "tk_load", "tk_store"}
DropLabels == {"dropped", "sw_test", "sw_load", "sw_store", "sw_wait"}

PC == {"outside", "eval", "handle", "handle_drop", "take", "req_store"}
        \cup AddLabels \cup MakeLabels \cup TakeLabels \cup DropLabels

Goto(t, l) == pc' = [pc EXCEPT ![t] = l]

\* gil->mutex is held by who takes the GIL and by who requests it,
\* gil->switch_mutex by who recomputes eval_breaker in drop_gil().
MutexFree       == \A u \in Thread : pc[u] \notin TakeLabels \cup {"req_store"}
SwitchMutexFree == \A u \in Thread : pc[u] \notin {"sw_load", "sw_store"}

Init == /\ calls = [i \in 0 .. NPENDINGCALLS - 1 |-> 0]
        /\ first = 0 /\ last = 0
        /\ calls_to_do = FALSE
        /\ gil_drop_request = FALSE
        /\ eval_breaker = FALSE
        /\ gil = Main /\ last_holder = Main
        /\ busy = FALSE /\ iter = 0
        /\ pc = [t \in Thread |-> IF t = Main THEN "eval" ELSE "outside"]
        /\ back = [t \in Thread |-> IF t \in Foreign THEN "outside" ELSE "eval"]
        /\ loaded = [t \in Thread |-> FALSE]
        /\ added = <<>> /\ called = <<>>
        /\ stray = FALSE

------------------------------------------------------------------------------
(* COMPUTE_EVAL_BREAKER                                                    *)

\* The load: calls_to_do counts on the main thread only.
ComputeLoad(t) ==
  /\ \/ pc[t] = "add_load" /\ Goto(t, "add_store")
     \/ pc[t] = "mk_load"  /\ Goto(t, "mk_store")
     \/ pc[t] = "err_load" /\ Goto(t, "err_store")
     \/ pc[t] = "tk_load"  /\ Goto(t, "tk_store")
     \/ pc[t] = "sw_load"  /\ Goto(t, "sw_store")
  /\ loaded' = [loaded EXCEPT ![t] =
                  gil_drop_request \/ (calls_to_do /\ t = Main)]
  /\ UNCHANGED <<ring, flags, lock, make, back, stray>>

\* The store, and what follows in the function that needed it.
ComputeStore(t) ==
  /\ \/ pc[t] \in {"add_store", "tk_store"} /\ Goto(t, back[t])
     \/ pc[t] = "mk_store"  /\ Goto(t, "pop")
     \/ pc[t] = "err_store" /\ Goto(t, "eval")
     \/ pc[t] = "sw_store"  /\ Goto(t, "sw_wait")
  /\ eval_breaker' = loaded[t]
  /\ UNCHANGED <<ring, calls_to_do, gil_drop_request, lock, make, back, local>>

------------------------------------------------------------------------------
(* _PyEval_AddPendingCall()                                                *)

\* From an instruction, which starts only after eval_breaker was seen clear,
\* from a callback, or without the GIL.
AddPendingCall(t) ==
  /\ \/ pc[t] = "eval" /\ ~eval_breaker
     \/ pc[t] = "call"
     \/ pc[t] = "outside" /\ t \in Foreign
  /\ Len(added) < MaxCalls
  /\ Goto(t, "add_push")
  /\ back' = [back EXCEPT ![t] = pc[t]]
  /\ stray' = (stray \/ pc[t] = "outside")
  /\ UNCHANGED <<ring, flags, lock, make, loaded>>

\* Mutant: a full queue is not noticed.
PushOverwrites(t) ==
  /\ pc[t] = "add_push"
  /\ Len(added) < MaxCalls
  /\ calls' = [calls EXCEPT ![last] = Len(added) + 1]
  /\ last' = (last + 1) % NPENDINGCALLS
  /\ added' = Append(added, Len(added) + 1)
  /\ Goto(t, "add_signal")
  /\ UNCHANGED <<first, called, flags, lock, make, back, local>>

\* _push_pending_call(): queue the call, or leave a full queue alone.
Push(t) ==
  /\ pc[t] = "add_push"
  /\ LET next == (last + 1) % NPENDINGCALLS
     IN  IF next = first \/ Len(added) = MaxCalls
         THEN UNCHANGED ring
         ELSE /\ calls' = [calls EXCEPT ![last] = Len(added) + 1]
              /\ last' = next
              /\ added' = Append(added, Len(added) + 1)
              /\ UNCHANGED <<first, called>>
  /\ Goto(t, "add_signal")
  /\ UNCHANGED <<flags, lock, make, back, local>>

\* SIGNAL_PENDING_CALLS, in _PyEval_AddPendingCall() even if the queue was
\* full, and when a callback failed: the store before the computation.
SignalCalls(t) ==
  /\ \/ pc[t] = "add_signal" /\ Goto(t, "add_load")
     \/ pc[t] = "err_signal" /\ Goto(t, "err_load")
  /\ calls_to_do' = TRUE
  /\ UNCHANGED <<ring, gil_drop_request, eval_breaker, lock, make, back, local>>

------------------------------------------------------------------------------
(* eval_frame_handle_pending() and make_pending_calls()                    *)

CheckBreaker(t) ==
  /\ pc[t] = "eval" /\ eval_breaker
  /\ Goto(t, "handle")
  /\ UNCHANGED <<ring, flags, lock, make, back, local>>

\* Is there something to do?
HandleCalls(t) ==
  /\ pc[t] = "handle"
  /\ Goto(t, IF calls_to_do THEN "make" ELSE "handle_drop")
  /\ UNCHANGED <<ring, flags, lock, make, back, local>>

\* Only the main thread runs the calls, and not recursively.
MakeEntry(t) ==
  /\ pc[t] = "make"
  /\ IF t = Main /\ ~busy
     THEN Goto(t, "mk_unsignal") /\ busy' = TRUE
     ELSE Goto(t, "handle_drop") /\ UNCHANGED busy
  /\ UNCHANGED <<ring, flags, lock, iter, back, local>>

\* UNSIGNAL_PENDING_CALLS, before the callbacks.
Unsignal(t) ==
  /\ pc[t] = "mk_unsignal"
  /\ calls_to_do' = FALSE
  /\ iter' = 0
  /\ Goto(t, "mk_load")
  /\ UNCHANGED <<ring, gil_drop_request, eval_breaker, lock, busy, back, local>>

\* Mutant: the loop is bounded by less than the queue can hold.
PopTooFew(t) ==
  /\ pc[t] = "pop"
  /\ IF iter = NPENDINGCALLS - 2 \/ first = last
     THEN /\ Goto(t, "handle_drop")
          /\ busy' = FALSE
          /\ UNCHANGED <<first, called>>
     ELSE /\ first' = (first + 1) % NPENDINGCALLS
          /\ called' = Append(called, calls[first])
          /\ Goto(t, "call")
          /\ UNCHANGED busy
  /\ UNCHANGED <<calls, last, added, flags, lock, iter, back, local>>

\* One turn of the loop: _pop_pending_call(), or the end of the loop.
Pop(t) ==
  /\ pc[t] = "pop"
  /\ IF iter = NPENDINGCALLS \/ first = last
     THEN /\ Goto(t, "handle_drop")
          /\ busy' = FALSE
          /\ UNCHANGED <<first, called>>
     ELSE /\ first' = (first + 1) % NPENDINGCALLS
          /\ called' = Append(called, calls[first])
          /\ Goto(t, "call")
          /\ UNCHANGED busy
  /\ UNCHANGED <<calls, last, added, flags, lock, iter, back, local>>

\* Mutant: a failed call ends the loop without signalling again.
CallbackReturnsQuietly(t) ==
  /\ pc[t] = "call"
  /\ \/ /\ Goto(t, "pop")
        /\ iter' = iter + 1
        /\ UNCHANGED busy
     \/ /\ Goto(t, "eval")
        /\ busy' = FALSE
        /\ UNCHANGED iter
  /\ UNCHANGED <<ring, flags, lock, back, local>>

\* The callback succeeds, or fails and ends the loop.
CallbackReturns(t) ==
  /\ pc[t] = "call"
  /\ \/ /\ Goto(t, "pop")
        /\ iter' = iter + 1
        /\ UNCHANGED busy
     \/ /\ Goto(t, "err_signal")
        /\ busy' = FALSE
        /\ UNCHANGED iter
  /\ UNCHANGED <<ring, flags, lock, back, local>>

------------------------------------------------------------------------------
(* The GIL, as far as it matters to the flags.                             *)

\* Release the GIL: on request, also from bytecode that a callback runs, or
\* to block.  Whoever drops it goes on at "dropped".
Release(t) == /\ MutexFree
              /\ gil' = NoThread
              /\ Goto(t, "dropped")
              /\ UNCHANGED <<ring, flags, last_holder, make, local>>

HandleDrop(t) ==
  /\ pc[t] = "handle_drop"
  /\ IF gil_drop_request
     THEN Release(t) /\ back' = [back EXCEPT ![t] = "eval"]
     ELSE /\ Goto(t, "eval")
          /\ UNCHANGED <<ring, flags, lock, make, back, local>>

CallbackDrops(t) ==
  /\ pc[t] = "call" /\ gil_drop_request
  /\ Release(t)
  /\ back' = [back EXCEPT ![t] = "call"]

\* A thread other than the main one blocks.
Block(t) ==
  /\ t # Main /\ pc[t] = "eval"
  /\ Release(t)
  /\ back' = [back EXCEPT ![t] = "outside"]

\* Where a thread goes from drop_gil().
AfterDrop(t) == IF back[t] = "outside" THEN "outside" ELSE "take"

\* drop_gil(): is a switch wanted, and has it not happened yet?
Dropped(t) ==
  /\ pc[t] = "dropped"
  /\ Goto(t, IF gil_drop_request THEN "sw_test" ELSE AfterDrop(t))
  /\ UNCHANGED <<ring, flags, lock, make, back, local>>

SwitchTest(t) ==
  /\ pc[t] = "sw_test" /\ SwitchMutexFree
  /\ IF last_holder = t
     THEN Goto(t, "sw_load") /\ gil_drop_request' = FALSE
     ELSE Goto(t, AfterDrop(t)) /\ UNCHANGED gil_drop_request
  /\ UNCHANGED <<ring, calls_to_do, eval_breaker, lock, make, back, local>>

Switched(t) ==
  /\ pc[t] = "sw_wait" /\ last_holder # t
  /\ Goto(t, AfterDrop(t))
  /\ UNCHANGED <<ring, flags, lock, make, back, local>>

\* A thread outside starts to want the GIL.
Restore(t) ==
  /\ pc[t] = "outside" /\ t \notin Foreign
  /\ Goto(t, "take")
  /\ back' = [back EXCEPT ![t] = "eval"]
  /\ UNCHANGED <<ring, flags, lock, make, local>>

\* take_gil(): the GIL is free, or the wait times out and asks for it.  To ask
\* again while both flags are still set would change nothing.
Take(t) ==
  /\ pc[t] = "take" /\ gil = NoThread
  /\ MutexFree /\ SwitchMutexFree
  /\ gil' = t /\ last_holder' = t
  /\ Goto(t, "tk_reset")
  /\ UNCHANGED <<ring, flags, make, back, local>>

Request(t) ==
  /\ pc[t] = "take" /\ gil # NoThread
  /\ ~(gil_drop_request /\ eval_breaker)
  /\ MutexFree
  /\ gil_drop_request' = TRUE
  /\ Goto(t, "req_store")
  /\ UNCHANGED <<ring, calls_to_do, eval_breaker, lock, make, back, local>>

RequestStore(t) ==
  /\ pc[t] = "req_store"
  /\ eval_breaker' = TRUE
  /\ Goto(t, "take")
  /\ UNCHANGED <<ring, calls_to_do, gil_drop_request, lock, make, back, local>>

\* Mutant: without bpo-40010 eval_breaker is recomputed only after a request.
TakeResetIfAsked(t) ==
  /\ pc[t] = "tk_reset"
  /\ gil_drop_request' = FALSE
  /\ Goto(t, IF gil_drop_request THEN "tk_load" ELSE back[t])
  /\ UNCHANGED <<ring, calls_to_do, eval_breaker, lock, make, back, local>>

\* RESET_GIL_DROP_REQUEST or COMPUTE_EVAL_BREAKER (bpo-40010) in take_gil().
TakeReset(t) ==
  /\ pc[t] = "tk_reset"
  /\ gil_drop_request' = FALSE
  /\ Goto(t, "tk_load")
  /\ UNCHANGED <<ring, calls_to_do, eval_breaker, lock, make, back, local>>

------------------------------------------------------------------------------
Compute(t) == ComputeLoad(t) \/ ComputeStore(t)

Adding(t) == Push(t) \/ SignalCalls(t)

Handling(t) == \/ CheckBreaker(t) \/ HandleCalls(t) \/ MakeEntry(t)
               \/ Unsignal(t) \/ Pop(t) \/ CallbackReturns(t) \/ HandleDrop(t)

Gil(t) == \/ Dropped(t) \/ SwitchTest(t) \/ Switched(t)
          \/ Take(t) \/ Request(t) \/ RequestStore(t) \/ TakeReset(t)

\* What a thread does by itself, and what it may do.
Step(t) == Compute(t) \/ Adding(t) \/ Handling(t) \/ Gil(t)

Optional(t) == \/ AddPendingCall(t) \/ CallbackDrops(t) \/ Block(t)
               \/ Restore(t)

Next == \E t \in Thread : Step(t) \/ Optional(t)

Spec == Init /\ [][Next]_vars

\* Every thread goes on with what it has begun; the main thread gets gil->mutex
\* in take_gil() if it is free again and again; the callbacks it runs return.
FairSpec == /\ Spec /\ \A t \in Thread : WF_vars(Step(t))
            /\ SF_vars(Take(Main) \/ Request(Main))
            /\ SF_vars(CallbackReturns(Main))

------------------------------------------------------------------------------
(* Properties                                                              *)

\* The calls in the queue, the next one to run first.
Size     == (last + NPENDINGCALLS - first) % NPENDINGCALLS
Contents == [k \in 1 .. Size |-> calls[(first + k - 1) % NPENDINGCALLS]]

TypeOK == /\ calls \in [0 .. NPENDINGCALLS - 1 -> Nat]
          /\ first \in 0 .. NPENDINGCALLS - 1
          /\ last \in 0 .. NPENDINGCALLS - 1
          /\ calls_to_do \in BOOLEAN
          /\ gil_drop_request \in BOOLEAN
          /\ eval_breaker \in BOOLEAN
          /\ gil \in Thread \cup {NoThread}
          /\ last_holder \in Thread
          /\ busy \in BOOLEAN
          /\ iter \in 0 .. NPENDINGCALLS
          /\ pc \in [Thread -> PC]
          /\ back \in [Thread -> {"outside", "eval", "call"}]
          /\ loaded \in [Thread -> BOOLEAN]
          /\ added \in Seq(Nat)
          /\ called \in Seq(Nat)
          /\ stray \in BOOLEAN

\* Every call that was queued is run once, in the order of the additions, from
\* whatever threads they came and however full the ring buffer was.
InOrder == added = called \o Contents

\* A call is never left in the queue unannounced: calls_to_do is set, or will
\* be by the thread that adds or by the failed callback, or the loop that is
\* running has as many turns left as there are calls.
NoCallForgotten == first # last =>
  \/ calls_to_do
  \/ \E t \in Thread : pc[t] \in {"add_signal", "err_signal"}
  \/ busy /\ Size <= NPENDINGCALLS - iter

\* While all additions are made by threads that hold the GIL, the main thread
\* does not run bytecode with a request that eval_breaker does not show:
\* every computation of another thread is followed by its own in take_gil().
MainSeesCalls == ~stray /\ pc[Main] = "eval" /\ calls_to_do => eval_breaker

\* "When successfully queued, func will be eventually called from the main
\* interpreter thread" (Doc/c-api/init.rst).
EventuallyCalled == \A k \in 1 .. MaxCalls :
  Len(added) >= k ~> Len(called) >= k

\* The same as long as only threads with the GIL have added: the queue is empty
\* again and again, so that by InOrder every call has been called.
CalledWithGil == []<>(first = last \/ stray)
==============================================================================
