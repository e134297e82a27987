--------------------------- MODULE ThreadPoolProofs ---------------------------
(***************************************************************************)
(* Theorems about ThreadPool and its Futures, for any jobs, workers and    *)
(* clients and any way of ending the pool.                                 *)
(***************************************************************************)
EXTENDS ThreadPool, FiniteSetTheorems, TLAPS

\* What the pool and the clients do to the futures in a step.
FuturesNext ==
  \/ \E f \in Job : \/ (state[f] = "none" /\ Create(f))
                    \/ Finish(f, "result") \/ Finish(f, "exception")
                    \/ CancelPending(f) \/ NotifyCancel(f) \/ SetRunning(f)
                    \/ InvokeCallbacks(f)
  \/ ClientStep

Open_(w) == {f \in waiter[w].fs : state[f] \notin Settled}

\* A reader waits for one future; an exception belongs to a finished one.
ClientInv == /\ \A r \in Reader : \A f, g \in reader[r].of : f = g
             /\ \A f \in failed : state[f] = "FINISHED"

\* What return_when asks of the futures that wait() returns as done.
Promise(w) ==
  /\ waiter[w].when = "FIRST_COMPLETED" => waiter[w].finished # {}
  /\ waiter[w].when = "FIRST_EXCEPTION" =>
       waiter[w].finished = waiter[w].fs \/ waiter[w].finished \cap failed # {}
  /\ waiter[w].when = "ALL_COMPLETED" => waiter[w].finished = waiter[w].fs

\* What a thread in wait() knows, and whether it has been told to return.
WaiterInv == \A w \in Waiter :
  /\ waiter[w].at = "waiting" =>
       /\ waiter[w].finished = waiter[w].fs \ Open_(w)
       /\ waiter[w].pending >= Cardinality(Open_(w))
       /\ waiter[w].event => Promise(w)
       /\ ~waiter[w].event =>
            /\ Open_(w) # {}
            /\ waiter[w].when = "FIRST_COMPLETED" => waiter[w].finished = {}
            /\ waiter[w].when # "FIRST_COMPLETED" =>
                 waiter[w].pending = Cardinality(Open_(w))
            /\ waiter[w].when = "FIRST_EXCEPTION" => waiter[w].finished \cap failed = {}
  /\ waiter[w].at = "returned" =>
       Promise(w) /\ \A f \in waiter[w].finished : state[f] \in Settled

\* Who has a work item, and who has still to call back for a future.
Holds(w, f)   == item[w] = <<f>> /\ at[w] \in {"got", "running", "break"}
Runs(w, f)    == item[w] = <<f>> /\ at[w] = "running"
Closing(f)    == closer = "cancel" /\ closing = <<f>>
InQueue(f)    == \E i \in DOMAIN work_queue : work_queue[i] = <<f>>
OnceInQueue(f) == \A i, j \in DOMAIN work_queue :
                    work_queue[i] = <<f>> /\ work_queue[j] = <<f>> => i = j
Owes(w, f)    == item[w] = <<f>> /\ at[w] \in {"called", "told"}
CloserOwes(f) == closer = "told" /\ closing = <<f>>

\* A work item is in one place only, and it is in one until the future is done, or
\* until it is thrown away.
PlaceOf(f) ==
  /\ OnceInQueue(f)
  /\ \A v, w \in Worker : Holds(v, f) /\ Holds(w, f) => v = w
  /\ \A w \in Worker : Holds(w, f) => ~InQueue(f) /\ ~Closing(f)
  /\ ~(InQueue(f) /\ Closing(f))
  /\ state[f] \in {"PENDING", "RUNNING"} =>
       InQueue(f) \/ Closing(f) \/ \E w \in Worker : Holds(w, f)
  /\ state[f] = "CANCELLED" /\ ~cancel_futures /\ ~broken =>
       InQueue(f) \/ Closing(f) \/ \E w \in Worker : Holds(w, f)
  /\ state[f] \in {"none"} \cup Settled =>
       ~InQueue(f) /\ ~Closing(f) /\ \A w \in Worker : ~Holds(w, f)
  /\ state[f] = "RUNNING" <=> \E w \in Worker : Runs(w, f)

PlaceInv == \A f \in Job : PlaceOf(f)

\* A worker is in _threads from its start on; the flags tell who drains the queue.
BornInv ==
  /\ \A w \in Worker : w \notin threads <=> at[w] = "unborn"
  /\ \A w \in Worker : at[w] \in {"drain", "break", "told"} => broken
  /\ closer \in {"drain", "cancel", "told"} => cancel_futures

\* The callbacks of a future are due once, after it is done, and someone owes them.
DebtOf(f) ==
  /\ \A w \in Worker : Owes(w, f) =>
       /\ state[f] \in Done /\ ~CloserOwes(f) /\ f \notin cancelling
       /\ \A v \in Worker : Owes(v, f) => v = w
  /\ CloserOwes(f) => state[f] \in Done /\ f \notin cancelling
  /\ f \in cancelling => state[f] \in Done
  /\ callback[f].at \in {"gone", "idle"} => callback[f].calls = 0
  /\ callback[f].at = "given" => callback[f].calls = 1 /\ state[f] \in Done
  /\ callback[f].at = "listed" => callback[f].calls \in {0, 1}
  /\ callback[f].at = "listed" /\ callback[f].calls = 1 =>
       /\ state[f] \in Done /\ ~CloserOwes(f) /\ f \notin cancelling
       /\ \A w \in Worker : ~Owes(w, f)
  /\ callback[f].at = "listed" /\ callback[f].calls = 0 /\ state[f] \in Done =>
       CloserOwes(f) \/ f \in cancelling \/ \E w \in Worker : Owes(w, f)

DebtInv == \A f \in Job : DebtOf(f)

\* Who holds _shutdown_lock.
LockInv ==
  /\ submitting <=> lock = "submit"
  /\ closer \in {"drain", "cancel", "told", "put"} => lock = "shutdown"
  /\ \A w \in Worker : at[w] \in {"drain", "break", "told"} => lock = w

\* While the pool may grow: every item in the queue has a worker that is about to
\* take one, those not counted that the semaphore offers or is about to offer.
ReadyAt == {"init", "get", "idle"}
IdleAt  == {"idle"}
EndingAt == {"failed", "drain", "break", "told"} \cup Ended
WorkersAt(L) == {w \in threads : at[w] \in L}
Counts(l, L) == IF l \in L THEN 1 ELSE 0
MayGrow == /\ ~shutdown /\ ~exiting /\ ~collected /\ Cardinality(threads) < max_workers
           /\ \A w \in threads : at[w] \notin EndingAt
GrowthInv ==
  /\ broken => \E w \in threads : at[w] \in EndingAt
  /\ closer # "idle" => shutdown
  /\ MayGrow =>
       /\ Len(work_queue) + idle_semaphore + Cardinality(WorkersAt(IdleAt))
            = Cardinality(WorkersAt(ReadyAt)) + (IF submitting THEN 1 ELSE 0)
       /\ \A i \in DOMAIN work_queue : work_queue[i] # None
       /\ owed = 0 /\ \A w \in threads : at[w] # "none"

------------------------------------------------------------------------------
(* Steps                                                                   *)

\* Whatever the pool does to a future, it does by one of the methods of Future.
LEMMA FuturesStep ==
  ASSUME [Next]_vars
  PROVE  FuturesNext \/ UNCHANGED futures
<1> USE DEF FuturesNext, OnItem
<1>1. ASSUME NEW w \in Worker, WorkerStep(w) PROVE FuturesNext \/ UNCHANGED futures
  <2>1. CASE Start(w)
    BY <2>1 DEF Start
  <2>2. CASE Run(w)
    BY <2>2 DEF Run
  <2>3. CASE CallBack(w)
    BY <2>3 DEF CallBack
  <2>4. CASE BreakItem(w)
    BY <2>4 DEF BreakItem
  <2>5. CASE BreakCallBack(w)
    BY <2>5 DEF BreakCallBack
  <2> QED
    BY <1>1, <2>1, <2>2, <2>3, <2>4, <2>5
       DEF WorkerStep, Initialize, Get, ReleaseIdle, NoneItem, InitializerFailed, Drain
<1>2. ASSUME NEW f \in Job, Submit(f) \/ Cancel(f) PROVE FuturesNext \/ UNCHANGED futures
  BY <1>2 DEF Submit, Cancel
<1>3. CASE CloserStep
  BY <1>3 DEF CloserStep, ShutdownDrain, ShutdownCancel, ShutdownPut, ShutdownJoin
<1>4. CASE AdjustThreadCount \/ Shutdown \/ PythonExit \/ Collect \/ PutNone
  BY <1>4 DEF AdjustThreadCount, Shutdown, PythonExit, Collect, PutNone
<1>5. CASE ClientStep /\ UNCHANGED pool
  BY <1>5
<1>6. CASE UNCHANGED vars
  BY <1>6 DEF vars
<1> QED BY <1>1, <1>2, <1>3, <1>4, <1>5, <1>6 DEF Next

\* A client reads the states of the futures and changes none.
LEMMA ClientsOnlyRead == ClientStep => UNCHANGED <<state, failed>>
BY DEF ClientStep, AddDoneCallback, ResultTimeout, ResultAwake, Result, WaitReturns, Wait

\* How the state of a future goes on.
LEMMA StateStep ==
  ASSUME FuturesTypeOK, FuturesNext \/ UNCHANGED futures
  PROVE  /\ state' \in [Job -> State]
         /\ \A f \in Job : /\ state[f] \in Cancelled => state'[f] \in Cancelled
                           /\ state[f] = "FINISHED" => state'[f] = "FINISHED"
<1>1. CASE ClientStep \/ UNCHANGED futures
  BY <1>1, ClientsOnlyRead DEF FuturesTypeOK, futures
<1>2. ASSUME NEW f \in Job, \/ (state[f] = "none" /\ Create(f))
                            \/ Finish(f, "result") \/ Finish(f, "exception")
                            \/ CancelPending(f) \/ NotifyCancel(f) \/ SetRunning(f)
                            \/ InvokeCallbacks(f)
      PROVE  /\ state' \in [Job -> State]
             /\ \A g \in Job : /\ state[g] \in Cancelled => state'[g] \in Cancelled
                               /\ state[g] = "FINISHED" => state'[g] = "FINISHED"
  BY <1>2 DEF FuturesTypeOK, State, Done, Cancelled, Settled, Create, Finish,
              CancelPending, NotifyCancel, SetRunning, InvokeCallbacks
<1> QED BY <1>1, <1>2 DEF FuturesNext

------------------------------------------------------------------------------
(* result()                                                                *)

ReaderInv == FuturesTypeOK /\ ClientInv /\ ResultAnswered

\* Whoever sleeps on f when f is done is woken.
LEMMA ReaderStep ==
  ASSUME ReaderInv, FuturesNext \/ UNCHANGED futures
  PROVE  ClientInv' /\ ResultAnswered'
<1> USE DEF ReaderInv, ClientInv, ResultAnswered, Done, Cancelled, Settled
<1>1. CASE UNCHANGED futures
  BY <1>1 DEF futures
<1>2. ASSUME NEW f \in Job, \/ (state[f] = "none" /\ Create(f)) \/ NotifyCancel(f)
                            \/ SetRunning(f) \/ InvokeCallbacks(f)
      PROVE  ClientInv' /\ ResultAnswered'
  BY <1>2 DEF FuturesTypeOK, Create, NotifyCancel, SetRunning, InvokeCallbacks
<1>3. ASSUME NEW f \in Job, NEW how, Finish(f, how) \/ CancelPending(f)
      PROVE  ClientInv' /\ ResultAnswered'
  <2>1. state' = [state EXCEPT ![f] = "FINISHED"] \/ state' = [state EXCEPT ![f] = "CANCELLED"]
    BY <1>3 DEF Finish, CancelPending
  <2>2. state'[f] \in Done /\ \A g \in Job \ {f} : state'[g] = state[g]
    BY <2>1 DEF FuturesTypeOK
  <2>3. \A g \in failed' : state'[g] = "FINISHED"
    BY <1>3, <2>2 DEF Finish, CancelPending, FuturesTypeOK
  <2>4. ASSUME NEW r \in Reader
        PROVE  /\ reader'[r].of = reader[r].of
               /\ reader'[r].at = IF reader[r].at = "asleep" /\ f \in reader[r].of
                                  THEN "awake" ELSE reader[r].at
    BY <1>3 DEF Finish, CancelPending, NotifyAll, FuturesTypeOK
  <2>5. ASSUME NEW r \in Reader PROVE reader[r].of \subseteq Job
    BY DEF FuturesTypeOK
  <2> QED BY <2>2, <2>3, <2>4, <2>5
<1>4. ASSUME NEW r \in Reader, NEW f \in Job, Result(r, f) PROVE ClientInv' /\ ResultAnswered'
  BY <1>4 DEF Result, FuturesTypeOK
<1>5. ASSUME NEW r \in Reader, ResultTimeout(r) \/ ResultAwake(r)
      PROVE  ClientInv' /\ ResultAnswered'
  <2>1. /\ reader'[r].of = reader[r].of /\ reader'[r].at \notin {"asleep", "awake"}
        /\ \A q \in Reader \ {r} : reader'[q] = reader[q]
        /\ UNCHANGED <<state, failed>>
    BY <1>5 DEF ResultTimeout, ResultAwake, FuturesTypeOK
  <2> QED BY <2>1
<1>6. CASE ClientStep /\ UNCHANGED reader
  BY <1>6, ClientsOnlyRead
<1>7. CASE ClientStep
  BY <1>4, <1>5, <1>6, <1>7 DEF ClientStep, AddDoneCallback, WaitReturns, Wait
<1> QED BY <1>1, <1>2, <1>3, <1>7 DEF FuturesNext

------------------------------------------------------------------------------
(* wait()                                                                  *)

\* What add_result() and its like do to a waiter, field by field.
LEMMA ToldFields ==
  ASSUME FuturesTypeOK, NEW w \in Waiter, NEW f \in Job, NEW how
  PROVE  LET W == waiter[w]
             V == Told(w, f, how)
             counts == /\ W.when # "FIRST_COMPLETED"
                       /\ ~(W.when = "FIRST_EXCEPTION" /\ how = "exception")
         IN /\ V.at = W.at /\ V.fs = W.fs /\ V.when = W.when
            /\ V.finished = W.finished \cup {f}
            /\ V.pending = IF counts THEN W.pending - 1 ELSE W.pending
            /\ V.event = (W.event \/ ~counts \/ W.pending - 1 = 0)
            /\ V \in [at : {"gone", "idle", "waiting", "returned", "timed_out"},
                      fs : SUBSET Job, when : ReturnWhen, pending : {V.pending},
                      event : BOOLEAN, finished : SUBSET Job]
<1>1. waiter[w] \in [at : {"gone", "idle", "waiting", "returned", "timed_out"},
                     fs : SUBSET Job, when : ReturnWhen, pending : 0 .. Cardinality(Job),
                     event : BOOLEAN, finished : SUBSET Job]
  BY DEF FuturesTypeOK
<1> QED BY <1>1 DEF Told, StopsOnException

\* The futures of a waiter that are to come are finitely many.
LEMMA OpenFinite ==
  ASSUME FuturesTypeOK, NEW w \in Waiter
  PROVE  /\ IsFiniteSet(Open_(w)) /\ Cardinality(Open_(w)) \in Nat
         /\ Cardinality(Open_(w)) = 0 <=> Open_(w) = {}
         /\ \A S \in SUBSET Job : /\ IsFiniteSet(S)
                                 /\ Cardinality(S) \in 0 .. Cardinality(Job)
<1>1. \A S \in SUBSET Job : IsFiniteSet(S) /\ Cardinality(S) \in 0 .. Cardinality(Job)
  BY FuturesAssumption, FS_Subset, FS_CardinalityType
<1>2. Open_(w) \in SUBSET Job
  BY DEF Open_, FuturesTypeOK
<1> QED BY <1>1, <1>2, FS_EmptySet

WaitInv == FuturesTypeOK /\ ClientInv /\ WaiterInv

WaiterType == [at : {"gone", "idle", "waiting", "returned", "timed_out"},
               fs : SUBSET Job, when : ReturnWhen, pending : 0 .. Cardinality(Job),
               event : BOOLEAN, finished : SUBSET Job]

\* A future is settled, and the waiters are told.
LEMMA SettleStep ==
  ASSUME WaitInv, NEW f \in Job, NEW x \in Settled,
         NEW how \in {"result", "exception", "cancelled"},
         how = "exception" => x = "FINISHED",
         state[f] \notin Settled,
         state' = [state EXCEPT ![f] = x],
         failed' = IF how = "exception" THEN failed \cup {f} ELSE failed,
         NotifyWaiters(f, how)
  PROVE  waiter' \in [Waiter -> WaiterType] /\ WaiterInv'
<1> USE DEF WaitInv
<1>1. /\ state'[f] \in Settled /\ \A g \in Job \ {f} : state'[g] = state[g]
      /\ f \notin failed
  BY DEF FuturesTypeOK, ClientInv, Settled
<1>2. waiter' = [w \in Waiter |-> waiter'[w]]
  BY DEF NotifyWaiters
<1> SUFFICES ASSUME NEW w \in Waiter
             PROVE  /\ waiter'[w] \in WaiterType
                    /\ waiter'[w].at = "waiting" =>
                         /\ waiter'[w].finished = waiter'[w].fs \ Open_(w)'
                         /\ waiter'[w].pending >= Cardinality(Open_(w)')
                         /\ waiter'[w].event => Promise(w)'
                         /\ ~waiter'[w].event =>
                              /\ Open_(w)' # {}
                              /\ waiter'[w].when = "FIRST_COMPLETED" =>
                                   waiter'[w].finished = {}
                              /\ waiter'[w].when # "FIRST_COMPLETED" =>
                                   waiter'[w].pending = Cardinality(Open_(w)')
                              /\ waiter'[w].when = "FIRST_EXCEPTION" =>
                                   waiter'[w].finished \cap failed' = {}
                    /\ waiter'[w].at = "returned" =>
                         /\ Promise(w)'
                         /\ \A g \in waiter'[w].finished : state'[g] \in Settled
  BY <1>2 DEF WaiterInv
<1>3. /\ waiter[w] \in WaiterType
      /\ waiter[w].fs \subseteq Job /\ waiter[w].finished \subseteq Job
  BY DEF FuturesTypeOK, WaiterType
<1>4. CASE waiter[w].at = "waiting" /\ f \in waiter[w].fs
  <2> DEFINE counts == /\ waiter[w].when # "FIRST_COMPLETED"
                       /\ ~(waiter[w].when = "FIRST_EXCEPTION" /\ how = "exception")
  <2>1. waiter'[w] = Told(w, f, how)
    BY <1>4 DEF NotifyWaiters
  <2>2. /\ waiter'[w].at = "waiting" /\ waiter'[w].fs = waiter[w].fs
        /\ waiter'[w].when = waiter[w].when
        /\ waiter'[w].finished = waiter[w].finished \cup {f}
        /\ waiter'[w].pending = IF counts THEN waiter[w].pending - 1 ELSE waiter[w].pending
        /\ waiter'[w].event = (waiter[w].event \/ ~counts \/ waiter[w].pending - 1 = 0)
    BY <1>4, <2>1, ToldFields
  <2>3. /\ Open_(w)' = Open_(w) \ {f} /\ f \in Open_(w)
    BY <1>1, <1>3, <1>4, <2>2 DEF Open_
  <2>4. /\ Cardinality(Open_(w)') = Cardinality(Open_(w)) - 1
        /\ Cardinality(Open_(w)) \in Nat /\ Cardinality(Open_(w)) # 0
        /\ Cardinality(Open_(w)') = 0 <=> Open_(w)' = {}
    <3>1. IsFiniteSet(Open_(w)) /\ Cardinality(Open_(w)) \in Nat
      BY OpenFinite
    <3>2. /\ IsFiniteSet(Open_(w) \ {f})
          /\ Cardinality(Open_(w) \ {f}) = Cardinality(Open_(w)) - 1
      BY <2>3, <3>1, FS_RemoveElement
    <3>3. /\ Cardinality(Open_(w)) = 0 <=> Open_(w) = {}
          /\ Cardinality(Open_(w) \ {f}) = 0 <=> Open_(w) \ {f} = {}
      BY <3>1, <3>2, FS_EmptySet
    <3> QED BY <2>3, <3>1, <3>2, <3>3
  <2>5. /\ waiter[w].pending \in 0 .. Cardinality(Job) /\ Cardinality(Job) \in Nat
        /\ waiter[w].pending >= Cardinality(Open_(w))
    BY <1>3, <1>4, OpenFinite DEF WaiterInv, WaiterType
  <2>6. waiter'[w].pending \in 0 .. Cardinality(Job)
    BY <2>2, <2>4, <2>5
  <2>7. waiter'[w] \in WaiterType
    BY <2>1, <2>6, ToldFields DEF WaiterType
  <2>8. waiter'[w].finished = waiter'[w].fs \ Open_(w)'
    <3>1. waiter[w].finished = waiter[w].fs \ Open_(w)
      BY <1>4 DEF WaiterInv
    <3> QED BY <1>4, <2>2, <2>3, <3>1
  <2>9. waiter'[w].pending >= Cardinality(Open_(w)')
    BY <2>2, <2>4, <2>5
  <2>10. waiter'[w].event => Promise(w)'
    <3>1. CASE waiter[w].event
      BY <1>3, <1>4, <2>2, <3>1 DEF WaiterInv, Promise, Open_
    <3>2. CASE ~counts
      BY <2>2, <3>2 DEF Promise
    <3>3. CASE ~waiter[w].event /\ counts /\ waiter[w].pending - 1 = 0
      <4>1. waiter[w].pending = Cardinality(Open_(w))
        BY <1>4, <3>3 DEF WaiterInv
      <4>2. waiter'[w].finished = waiter'[w].fs
        BY <2>4, <2>5, <2>8, <3>3, <4>1
      <4> QED BY <2>2, <3>3, <4>2 DEF Promise
    <3> QED BY <2>2, <3>1, <3>2, <3>3
  <2>11. ASSUME ~waiter'[w].event
         PROVE  /\ Open_(w)' # {}
                /\ waiter'[w].when = "FIRST_COMPLETED" => waiter'[w].finished = {}
                /\ waiter'[w].when # "FIRST_COMPLETED" =>
                      waiter'[w].pending = Cardinality(Open_(w)')
                /\ waiter'[w].when = "FIRST_EXCEPTION" =>
                      waiter'[w].finished \cap failed' = {}
    <3>1. ~waiter[w].event /\ counts /\ waiter[w].pending - 1 # 0
      BY <2>2, <2>11
    <3>2. waiter[w].pending = Cardinality(Open_(w))
      BY <1>4, <3>1 DEF WaiterInv
    <3>3. waiter'[w].when = "FIRST_EXCEPTION" => waiter'[w].finished \cap failed' = {}
      BY <1>1, <1>4, <2>2, <3>1 DEF WaiterInv
    <3> QED BY <2>2, <2>4, <2>5, <3>1, <3>2, <3>3
  <2> QED BY <2>2, <2>7, <2>8, <2>9, <2>10, <2>11
<1>5. CASE ~(waiter[w].at = "waiting" /\ f \in waiter[w].fs)
  <2>1. waiter'[w] = waiter[w]
    BY <1>5 DEF NotifyWaiters
  <2>2. waiter[w].at = "waiting" => Open_(w)' = Open_(w) /\ f \notin waiter[w].finished
    <3> SUFFICES ASSUME waiter[w].at = "waiting"
                 PROVE  Open_(w)' = Open_(w) /\ f \notin waiter[w].finished
      OBVIOUS
    <3>1. f \notin waiter[w].fs /\ waiter[w].finished = waiter[w].fs \ Open_(w)
      BY <1>5 DEF WaiterInv
    <3>2. \A g \in waiter[w].fs : state'[g] = state[g]
      BY <1>1, <1>3, <3>1
    <3> QED BY <2>1, <3>1, <3>2 DEF Open_
  <2>3. Promise(w) => Promise(w)'
    BY <2>1 DEF Promise
  <2>4. \A g \in Job : state[g] \in Settled => state'[g] \in Settled
    BY <1>1
  <2> QED BY <1>3, <2>1, <2>2, <2>3, <2>4 DEF WaiterInv
<1> QED BY <1>4, <1>5

\* wait() is called, or returns, or nothing happens that a waiter can see.
LEMMA WaitStep ==
  ASSUME WaitInv, FuturesNext \/ UNCHANGED futures
  PROVE  waiter' \in [Waiter -> WaiterType] /\ WaiterInv'
<1> USE DEF WaitInv
<1>0. waiter \in [Waiter -> WaiterType]
  BY DEF FuturesTypeOK, WaiterType
<1>1. ASSUME UNCHANGED <<failed, waiter>>,
             \A g \in Job : state'[g] \in Settled <=> state[g] \in Settled
      PROVE  waiter' \in [Waiter -> WaiterType] /\ WaiterInv'
  <2>1. ASSUME NEW w \in Waiter
        PROVE  /\ waiter[w].fs \subseteq Job /\ waiter[w].finished \subseteq Job
               /\ Open_(w)' = Open_(w) /\ Promise(w)' = Promise(w)
    BY <1>0, <1>1 DEF Open_, Promise, WaiterType
  <2> QED BY <1>0, <1>1, <2>1 DEF WaiterInv
<1>2. ASSUME NEW f \in Job, \/ (state[f] = "none" /\ Create(f))
                            \/ CancelPending(f) \/ SetRunning(f) \/ InvokeCallbacks(f)
      PROVE  waiter' \in [Waiter -> WaiterType] /\ WaiterInv'
  <2>1. UNCHANGED <<failed, waiter>>
    BY <1>2 DEF Create, CancelPending, SetRunning, InvokeCallbacks
  <2>2. \A g \in Job : state'[g] \in Settled <=> state[g] \in Settled
    BY <1>2 DEF Create, CancelPending, SetRunning, InvokeCallbacks, FuturesTypeOK, Settled
  <2> QED BY <1>1, <2>1, <2>2
<1>3. ASSUME NEW f \in Job, NEW how \in {"result", "exception"}, Finish(f, how)
      PROVE  waiter' \in [Waiter -> WaiterType] /\ WaiterInv'
  BY <1>3, SettleStep, "FINISHED" \in Settled DEF Finish, Done, Settled
<1>4. ASSUME NEW f \in Job, NotifyCancel(f)
      PROVE  waiter' \in [Waiter -> WaiterType] /\ WaiterInv'
  <2>1. state[f] \notin Settled /\ state' = [state EXCEPT ![f] = "CANCELLED_AND_NOTIFIED"]
    BY <1>4 DEF NotifyCancel, Settled
  <2>2. "CANCELLED_AND_NOTIFIED" \in Settled /\ failed' = failed
    BY <1>4 DEF NotifyCancel, Settled
  <2> QED BY <1>4, <2>1, <2>2, SettleStep DEF NotifyCancel
<1>5. ASSUME NEW w \in Waiter, NEW fs \in (SUBSET Job) \ {{}}, NEW when \in ReturnWhen,
             Wait(w, fs, when)
      PROVE  waiter' \in [Waiter -> WaiterType] /\ WaiterInv'
  <2> DEFINE done == {f \in fs : state[f] \in Settled}
  <2>1. /\ UNCHANGED <<state, failed>> /\ \A v \in Waiter \ {w} : waiter'[v] = waiter[v]
        /\ waiter'[w].at = IF NoNeedToWait(fs, done, when) THEN "returned" ELSE "waiting"
        /\ waiter'[w].fs = fs /\ waiter'[w].when = when
        /\ waiter'[w].pending = Cardinality(fs \ done)
        /\ waiter'[w].event = FALSE /\ waiter'[w].finished = done
    BY <1>0, <1>5 DEF Wait
  <2>2. waiter' \in [Waiter -> WaiterType]
    BY <1>0, <1>5, OpenFinite DEF Wait, WaiterType
  <2>3. Open_(w)' = fs \ done
    BY <2>1 DEF Open_
  <2>4. ASSUME NEW v \in Waiter \ {w}
        PROVE  Open_(v)' = Open_(v) /\ Promise(v)' = Promise(v)
    BY <2>1 DEF Open_, Promise
  <2>5. done # fs => fs \ done # {}
    OBVIOUS
  <2>6. NoNeedToWait(fs, done, when) => Promise(w)'
    <3>1. fs # {}
      BY <1>5
    <3>2. NoNeedToWait(fs, done, when) =>
            /\ when = "FIRST_COMPLETED" => done # {}
            /\ when = "FIRST_EXCEPTION" => done = fs \/ done \cap failed # {}
            /\ when = "ALL_COMPLETED" => done = fs
      BY <3>1 DEF NoNeedToWait
    <3> HIDE DEF done
    <3> QED BY <2>1, <3>2 DEF Promise
  <2>7. Cardinality(fs \ done) \in Nat
    BY OpenFinite, fs \ done \in SUBSET Job
  <2>8. ~NoNeedToWait(fs, done, when) =>
          /\ done # fs /\ (when = "FIRST_COMPLETED" => done = {})
          /\ when = "FIRST_EXCEPTION" => done \cap failed = {}
    BY DEF NoNeedToWait
  <2>9. \A f \in done : state[f] \in Settled
    OBVIOUS
  <2>10. done = fs \ (fs \ done)
    OBVIOUS
  <2> HIDE DEF done
  <2>11. /\ waiter'[w].at = "waiting" =>
              /\ waiter'[w].finished = waiter'[w].fs \ Open_(w)'
              /\ waiter'[w].pending >= Cardinality(Open_(w)')
              /\ waiter'[w].event => Promise(w)'
              /\ ~waiter'[w].event =>
                   /\ Open_(w)' # {}
                   /\ waiter'[w].when = "FIRST_COMPLETED" => waiter'[w].finished = {}
                   /\ waiter'[w].when # "FIRST_COMPLETED" =>
                        waiter'[w].pending = Cardinality(Open_(w)')
                   /\ waiter'[w].when = "FIRST_EXCEPTION" =>
                        waiter'[w].finished \cap failed' = {}
         /\ waiter'[w].at = "returned" =>
              /\ Promise(w)'
              /\ \A f \in waiter'[w].finished : state'[f] \in Settled
    BY <2>1, <2>3, <2>5, <2>6, <2>7, <2>8, <2>9, <2>10
  <2> QED BY <2>1, <2>2, <2>4, <2>11 DEF WaiterInv
<1>6. ASSUME NEW w \in Waiter, WaitReturns(w)
      PROVE  waiter' \in [Waiter -> WaiterType] /\ WaiterInv'
  <2>1. /\ UNCHANGED <<state, failed>> /\ \A v \in Waiter \ {w} : waiter'[v] = waiter[v]
        /\ waiter[w].at = "waiting" /\ waiter' \in [Waiter -> WaiterType]
        /\ waiter'[w].at = IF waiter[w].event THEN "returned" ELSE "timed_out"
        /\ waiter'[w].fs = waiter[w].fs /\ waiter'[w].when = waiter[w].when
        /\ waiter'[w].finished = waiter[w].finished
    BY <1>0, <1>6 DEF WaitReturns, WaiterType
  <2>2. ASSUME NEW v \in Waiter PROVE Promise(v)' = Promise(v) /\ Open_(v)' = Open_(v)
    BY <2>1 DEF Promise, Open_
  <2>3. \A f \in waiter[w].finished : state[f] \in Settled
    BY <2>1 DEF WaiterInv, Open_
  <2> QED BY <2>1, <2>2, <2>3 DEF WaiterInv
<1>7. CASE ClientStep
  <2>1. CASE UNCHANGED waiter
    BY <1>1, <1>7, <2>1, ClientsOnlyRead
  <2> QED
    BY <1>5, <1>6, <1>7, <2>1 DEF ClientStep, AddDoneCallback, ResultTimeout,
                                  ResultAwake, Result
<1>8. CASE UNCHANGED futures
  BY <1>1, <1>8 DEF futures
<1> QED BY <1>2, <1>3, <1>4, <1>7, <1>8 DEF FuturesNext

\* The readers and the callbacks keep their types.
LEMMA OtherTypes ==
  ASSUME FuturesTypeOK, FuturesNext \/ UNCHANGED futures
  PROVE  /\ failed' \subseteq Job
         /\ reader' \in [Reader -> [at : {"gone", "idle", "asleep", "awake", "expired",
                                          "answered", "TimeoutError"}, of : SUBSET Job]]
         /\ callback' \in [Job -> [at : {"gone", "idle", "listed", "given"},
                                   calls : Nat]]
<1> USE DEF FuturesTypeOK
<1>1. ASSUME NEW f \in Job, \/ (state[f] = "none" /\ Create(f)) \/ NotifyCancel(f)
                            \/ SetRunning(f) \/ CancelPending(f)
                            \/ Finish(f, "result") \/ Finish(f, "exception")
      PROVE  /\ failed' \subseteq Job /\ UNCHANGED callback
             /\ UNCHANGED reader \/ NotifyAll(f)
  BY <1>1 DEF Create, NotifyCancel, SetRunning, CancelPending, Finish
<1>2. ASSUME NEW f \in Job, NotifyAll(f)
      PROVE  reader' \in [Reader -> [at : {"gone", "idle", "asleep", "awake", "expired",
                                          "answered", "TimeoutError"}, of : SUBSET Job]]
  BY <1>2 DEF NotifyAll
<1>3. ASSUME NEW f \in Job, InvokeCallbacks(f) \/ AddDoneCallback(f)
      PROVE  /\ UNCHANGED <<failed, reader>>
             /\ callback' \in [Job -> [at : {"gone", "idle", "listed", "given"},
                                       calls : Nat]]
  BY <1>3 DEF InvokeCallbacks, AddDoneCallback
<1>4. ASSUME NEW r \in Reader, \/ ResultTimeout(r) \/ ResultAwake(r)
                               \/ \E f \in Job : Result(r, f)
      PROVE  /\ UNCHANGED <<failed, callback>>
             /\ reader' \in [Reader -> [at : {"gone", "idle", "asleep", "awake", "expired",
                                          "answered", "TimeoutError"}, of : SUBSET Job]]
  BY <1>4 DEF ResultTimeout, ResultAwake, Result
<1>5. CASE ClientStep
  BY <1>3, <1>4, <1>5 DEF ClientStep, WaitReturns, Wait
<1>6. CASE UNCHANGED futures
  BY <1>6 DEF futures
<1> QED BY <1>1, <1>2, <1>3, <1>5, <1>6 DEF FuturesNext

FuturesInv == FuturesTypeOK /\ ClientInv /\ ResultAnswered /\ WaiterInv

\* The futures start with nobody waiting.
LEMMA FuturesInit1 == FuturesInit => FuturesInv
<1> SUFFICES ASSUME FuturesInit PROVE FuturesInv
  OBVIOUS
<1>1. Cardinality(Job) \in Nat
  BY FuturesAssumption, FS_CardinalityType
<1>2. FuturesTypeOK
  <2>1. /\ reader \in [Reader -> [at : {"idle", "gone"}, of : {{}}]]
        /\ waiter \in [Waiter -> [at : {"idle", "gone"}, fs : {{}},
                                  when : {"ALL_COMPLETED"}, pending : {0},
                                  event : {FALSE}, finished : {{}}]]
        /\ callback \in [Job -> [at : {"idle", "gone"}, calls : {0}]]
    BY DEF FuturesInit
  <2>2. /\ {} \in SUBSET Job /\ "ALL_COMPLETED" \in ReturnWhen /\ FALSE \in BOOLEAN
        /\ 0 \in 0 .. Cardinality(Job)
    BY <1>1 DEF ReturnWhen
  <2>3. waiter \in [Waiter -> WaiterType]
    BY <2>1, <2>2 DEF WaiterType
  <2> QED BY <2>1, <2>3 DEF FuturesInit, FuturesTypeOK, WaiterType, State
<1> QED BY <1>2 DEF FuturesInit, FuturesInv, ClientInv, ResultAnswered, WaiterInv

\* The inductive invariant of the futures holds in every state.
LEMMA FuturesInvariant == Spec => []FuturesInv
<1>1. Init => FuturesInv
  BY FuturesInit1 DEF Init
<1>2. FuturesInv /\ [Next]_vars => FuturesInv'
  BY FuturesStep, StateStep, ReaderStep, WaitStep, OtherTypes
     DEF FuturesInv, FuturesTypeOK, ReaderInv, WaitInv, WaiterType
<1> QED BY <1>1, <1>2, PTL DEF Spec

\* A thread in wait() counts its futures exactly and returns with what it asked
\* for, whatever workers, cancel() and shutdown() do to them in between.
LEMMA WaitersCount == Spec => [](PendingExact /\ WaitKeepsPromise)
<1>1. FuturesInv => PendingExact /\ WaitKeepsPromise
  BY DEF FuturesInv, WaiterInv, PendingExact, WaitKeepsPromise,
         Open_, Promise, FuturesTypeOK, ReturnWhen
<1> QED BY <1>1, FuturesInvariant, PTL

\* Nobody sleeps in result() on a future that is done.
THEOREM ReadersAreWoken == Spec => []ResultAnswered
BY FuturesInvariant, PTL DEF FuturesInv

\* A result is never replaced and a cancellation never taken back.
THEOREM ResultsAreFinal == Spec => DoneIsFinal
<1>1. FuturesInv /\ [Next]_vars =>
        [\A f \in Job : /\ state[f] \in Cancelled => state'[f] \in Cancelled
                        /\ state[f] = "FINISHED" => state'[f] = "FINISHED"]_vars
  BY FuturesStep, StateStep DEF FuturesInv
<1> QED BY <1>1, FuturesInvariant, PTL DEF Spec, DoneIsFinal

------------------------------------------------------------------------------
(* The work queue and the workers                                          *)

WorkItem == {None} \cup {<<f>> : f \in Job}

\* The work queue is a sequence of work items and None.
LEMMA QueueTypes ==
  ASSUME PoolTypeOK
  PROVE  /\ None \in WorkItem /\ \A f \in Job : <<f>> \in WorkItem /\ <<f>> # None
         /\ work_queue \in Seq(WorkItem) /\ Len(work_queue) \in Nat
         /\ \A x \in WorkItem : Append(work_queue, x) \in Seq(WorkItem)
         /\ work_queue # <<>> => /\ Head(work_queue) \in WorkItem
                                 /\ Tail(work_queue) \in Seq(WorkItem)
<1>1. None \in WorkItem /\ \A f \in Job : <<f>> \in WorkItem /\ <<f>> # None
  BY DEF WorkItem, None
<1>2. work_queue \in Seq(WorkItem)
  BY DEF PoolTypeOK, WorkItem
<1> QED BY <1>1, <1>2

\* The futures and the pool keep their types.
LEMMA PoolTypes ==
  ASSUME PoolTypeOK, FuturesTypeOK', [Next]_vars
  PROVE  PoolTypeOK'
<1>0. /\ work_queue \in Seq(WorkItem) /\ item \in [Worker -> WorkItem]
      /\ closing \in WorkItem
      /\ at \in [Worker -> At] /\ lock \in Locker /\ closer \in Closer
      /\ threads \subseteq Worker /\ idle_semaphore \in Nat /\ owed \in Nat
      /\ max_workers \in 1 .. Cardinality(Worker) /\ ends \subseteq Ends
      /\ shutdowns \in 0 .. MaxShutdowns /\ cancelling \subseteq Job
      /\ {broken, shutdown, collected, exiting, submitting} \subseteq BOOLEAN
      /\ cancel_futures \in BOOLEAN
  BY DEF PoolTypeOK, WorkItem
<1> SUFFICES
      /\ work_queue' \in Seq(WorkItem) /\ item' \in [Worker -> WorkItem]
      /\ closing' \in WorkItem
      /\ at' \in [Worker -> At] /\ lock' \in Locker /\ closer' \in Closer
      /\ threads' \subseteq Worker /\ idle_semaphore' \in Nat /\ owed' \in Nat
      /\ max_workers' \in 1 .. Cardinality(Worker) /\ ends' \subseteq Ends
      /\ shutdowns' \in 0 .. MaxShutdowns /\ cancelling' \subseteq Job
      /\ {broken', shutdown', collected', exiting', submitting'} \subseteq BOOLEAN
      /\ cancel_futures' \in BOOLEAN
  BY DEF PoolTypeOK, WorkItem
<1>1. ASSUME NEW S \in SUBSET Worker PROVE Cardinality(S) \in Nat
  BY ThreadPoolAssumption, FS_Subset, FS_CardinalityType
<1>2. ASSUME NEW w \in Worker, WorkerStep(w)
      PROVE  /\ work_queue' \in Seq(WorkItem) /\ item' \in [Worker -> WorkItem]
             /\ at' \in [Worker -> At] /\ lock' \in Locker
             /\ idle_semaphore' \in Nat
             /\ {broken', shutdown', collected', exiting', submitting'} \subseteq BOOLEAN
             /\ UNCHANGED <<closing, closer, threads, max_workers, shutdowns,
                            cancel_futures, others>>
  <2> USE DEF size, flags, ending, workers, GoTo
  <2>1. CASE Initialize(w) \/ Start(w) \/ Run(w) \/ CallBack(w) \/ BreakCallBack(w)
    BY <1>0, <2>1 DEF Initialize, Start, Run, CallBack, BreakCallBack, At
  <2>3. CASE ReleaseIdle(w)
    BY <1>0, <2>3, QueueTypes DEF ReleaseIdle, At
  <2>4. CASE BreakItem(w) \/ InitializerFailed(w)
    BY <1>0, <2>4 DEF BreakItem, InitializerFailed, At, Locker
  <2>2. CASE Get(w) \/ Drain(w) \/ NoneItem(w)
    BY <1>0, <1>2, <2>2, QueueTypes DEF Get, Drain, NoneItem, PassNone, At, Locker
  <2> QED BY <1>2, <2>1, <2>2, <2>3, <2>4 DEF WorkerStep
<1>3. CASE \E w \in Worker : WorkerStep(w)
  BY <1>0, <1>2, <1>3 DEF others
<1>4. ASSUME NEW f \in Job, Submit(f) \/ Cancel(f)
      PROVE  /\ work_queue' \in Seq(WorkItem) /\ cancelling' \subseteq Job
             /\ lock' \in Locker /\ submitting' \in BOOLEAN
             /\ UNCHANGED <<size, flags, workers, ending, ends, owed>>
  BY <1>0, <1>4, QueueTypes DEF Submit, Cancel, others, Locker
<1>5. CASE AdjustThreadCount
  <2>1. /\ threads' \subseteq Worker /\ at' \in [Worker -> At]
        /\ idle_semaphore' \in Nat
    BY <1>0, <1>5 DEF AdjustThreadCount, At
  <2>2. submitting' = FALSE /\ lock' = NoOne
        /\ UNCHANGED <<max_workers, work_queue, flags, others, item, ending>>
    BY <1>5 DEF AdjustThreadCount
  <2> QED BY <1>0, <2>1, <2>2 DEF flags, others, ending, Locker
<1>6. CASE Shutdown \/ PythonExit \/ Collect \/ PutNone
  <2>1. {w \in threads : at[w] \notin Ended} \in SUBSET Worker
    BY <1>0
  <2>2. MaxShutdowns \in Nat
    BY ThreadPoolAssumption
  <2> USE DEF size, flags, others, ending, workers
  <2>3. CASE Shutdown
    <3>1. closer' \in Closer /\ cancel_futures' \in BOOLEAN
      BY <1>0, <2>3 DEF Shutdown, Closer
    <3>2. shutdowns' \in 0 .. MaxShutdowns
      BY <1>0, <2>2, <2>3 DEF Shutdown
    <3> QED BY <1>0, <2>3, <3>1, <3>2 DEF Shutdown, Locker
  <2>4. CASE PythonExit \/ Collect
    <3>1. Cardinality(threads) \in Nat /\ Cardinality({w \in threads : at[w] \notin Ended}) \in Nat
      BY <1>0, <1>1, <2>1
    <3>2. owed' \in Nat
      BY <1>0, <2>4, <3>1 DEF PythonExit, Collect
    <3> QED BY <1>0, <2>4, <3>2 DEF PythonExit, Collect
  <2>5. CASE PutNone
    BY <1>0, <2>5, QueueTypes DEF PutNone
  <2> QED BY <1>6, <2>3, <2>4, <2>5
<1>7. CASE CloserStep
  BY <1>0, <1>7, QueueTypes
     DEF CloserStep, ShutdownDrain, ShutdownCancel, ShutdownPut, ShutdownJoin, size,
         flags, others, ending, workers, Locker, Closer
<1>8. CASE UNCHANGED pool
  BY <1>0, <1>8 DEF pool, size, flags, others, ending, workers
<1> QED BY <1>0, <1>3, <1>4, <1>5, <1>6, <1>7, <1>8
        DEF Next, vars, size, flags, others, ending, workers

\* What a step leaves as it is for a work item.
Keeps(g) ==
  /\ state'[g] = state[g]
  /\ InQueue(g)' <=> InQueue(g)
  /\ OnceInQueue(g) => OnceInQueue(g)'
  /\ Closing(g)' <=> Closing(g)
  /\ \A w \in Worker : (Holds(w, g)' <=> Holds(w, g)) /\ (Runs(w, g)' <=> Runs(w, g))
  /\ (cancel_futures => cancel_futures') /\ (broken => broken')

\* Such a step leaves the place of the work item right.
LEMMA KeptPlace ==
  ASSUME NEW g \in Job, PlaceOf(g), Keeps(g)
  PROVE  PlaceOf(g)'
BY DEF PlaceOf, Keeps

\* None is put into the queue or taken off.
QueueOfSame(g) == (InQueue(g)' <=> InQueue(g)) /\ (OnceInQueue(g) => OnceInQueue(g)')

\* A None in the queue says nothing of the jobs.
LEMMA QueueNone ==
  ASSUME PoolTypeOK, \/ UNCHANGED work_queue
                     \/ work_queue' = Append(work_queue, None)
                     \/ /\ work_queue # <<>> /\ Head(work_queue) = None
                        /\ work_queue' = Tail(work_queue)
  PROVE  \A g \in Job : QueueOfSame(g)
<1>1. CASE UNCHANGED work_queue
  BY <1>1 DEF QueueOfSame, InQueue, OnceInQueue
<1>2. CASE work_queue' = Append(work_queue, None)
  <2>1. /\ Len(work_queue') = Len(work_queue) + 1
        /\ \A i \in 1 .. Len(work_queue) : work_queue'[i] = work_queue[i]
        /\ work_queue'[Len(work_queue) + 1] = None
        /\ DOMAIN work_queue = 1 .. Len(work_queue)
        /\ DOMAIN work_queue' = 1 .. Len(work_queue')
    BY <1>2, QueueTypes
  <2>2. /\ \A i \in DOMAIN work_queue : /\ i \in DOMAIN work_queue'
                                       /\ work_queue'[i] = work_queue[i]
        /\ \A i \in DOMAIN work_queue' : i \in DOMAIN work_queue \/ work_queue'[i] = None
    <3>1. Len(work_queue) \in Nat
      BY QueueTypes
    <3>2. \A i \in 1 .. Len(work_queue) + 1 : i \in 1 .. Len(work_queue) \/ i = Len(work_queue) + 1
      BY <3>1
    <3>3. \A i \in 1 .. Len(work_queue) : i \in 1 .. Len(work_queue) + 1
      BY <3>1
    <3> QED BY <2>1, <3>2, <3>3
  <2>3. \A g \in Job : <<g>> # None
    BY QueueTypes
  <2> QED BY <2>2, <2>3 DEF QueueOfSame, InQueue, OnceInQueue
<1>3. CASE /\ work_queue # <<>> /\ Head(work_queue) = None
           /\ work_queue' = Tail(work_queue)
  <2>1. /\ Len(work_queue') = Len(work_queue) - 1
        /\ \A i \in 1 .. Len(work_queue') : work_queue'[i] = work_queue[i + 1]
        /\ work_queue[1] = None
        /\ DOMAIN work_queue = 1 .. Len(work_queue)
        /\ DOMAIN work_queue' = 1 .. Len(work_queue')
    BY <1>3, QueueTypes
  <2>2. /\ \A i \in DOMAIN work_queue :
             \/ work_queue[i] = None
             \/ i - 1 \in DOMAIN work_queue' /\ work_queue'[i - 1] = work_queue[i]
        /\ \A i \in DOMAIN work_queue' : /\ i + 1 \in DOMAIN work_queue
                                        /\ work_queue'[i] = work_queue[i + 1]
        /\ \A i, j \in DOMAIN work_queue' : i + 1 = j + 1 => i = j
    BY <2>1, QueueTypes
  <2>3. \A g \in Job : <<g>> # None
    BY QueueTypes
  <2>4. ASSUME NEW g \in Job PROVE InQueue(g)' <=> InQueue(g)
    BY <2>2, <2>3 DEF InQueue
  <2>5. ASSUME NEW g \in Job PROVE OnceInQueue(g) => OnceInQueue(g)'
    BY <2>2 DEF OnceInQueue
  <2> QED BY <2>4, <2>5 DEF QueueOfSame
<1> QED BY <1>1, <1>2, <1>3

\* A work item is put into the queue.
LEMMA QueuePut ==
  ASSUME PoolTypeOK, NEW f \in Job, work_queue' = Append(work_queue, <<f>>)
  PROVE  /\ InQueue(f)' /\ (~InQueue(f) => OnceInQueue(f)')
         /\ \A g \in Job \ {f} : QueueOfSame(g)
<1>1. /\ Len(work_queue') = Len(work_queue) + 1
      /\ \A i \in 1 .. Len(work_queue) : work_queue'[i] = work_queue[i]
      /\ work_queue'[Len(work_queue) + 1] = <<f>>
      /\ DOMAIN work_queue = 1 .. Len(work_queue)
      /\ DOMAIN work_queue' = 1 .. Len(work_queue')
  BY QueueTypes
<1>2. \A g \in Job \ {f} : <<f>> # <<g>>
  OBVIOUS
<1>3. Len(work_queue) \in Nat
  BY QueueTypes
<1>4. /\ \A i \in DOMAIN work_queue : i \in DOMAIN work_queue' /\ work_queue'[i] = work_queue[i]
      /\ \A i \in DOMAIN work_queue' : i \in DOMAIN work_queue \/ work_queue'[i] = <<f>>
      /\ \A i \in DOMAIN work_queue' \ DOMAIN work_queue : i = Len(work_queue) + 1
      /\ Len(work_queue) + 1 \in DOMAIN work_queue'
  BY <1>1, <1>3
<1>5. InQueue(f)' /\ (~InQueue(f) => OnceInQueue(f)')
  BY <1>1, <1>4 DEF InQueue, OnceInQueue
<1>6. ASSUME NEW g \in Job \ {f} PROVE QueueOfSame(g)
  BY <1>2, <1>4 DEF QueueOfSame, InQueue, OnceInQueue
<1> QED BY <1>5, <1>6

\* A work item is taken off the queue.
LEMMA QueueTake ==
  ASSUME PoolTypeOK, NEW f \in Job, work_queue # <<>>, Head(work_queue) = <<f>>,
         work_queue' = Tail(work_queue)
  PROVE  /\ InQueue(f) /\ (OnceInQueue(f) => ~InQueue(f)' /\ OnceInQueue(f)')
         /\ \A g \in Job \ {f} : QueueOfSame(g)
<1>1. /\ Len(work_queue') = Len(work_queue) - 1 /\ Len(work_queue) > 0
      /\ \A i \in 1 .. Len(work_queue') : work_queue'[i] = work_queue[i + 1]
      /\ work_queue[1] = <<f>>
      /\ DOMAIN work_queue = 1 .. Len(work_queue)
      /\ DOMAIN work_queue' = 1 .. Len(work_queue')
  BY QueueTypes
<1>2. \A i \in 2 .. Len(work_queue) : i - 1 \in DOMAIN work_queue' /\ work_queue'[i - 1] = work_queue[i]
  BY <1>1, QueueTypes
<1>3. \A i \in DOMAIN work_queue' : /\ i + 1 \in DOMAIN work_queue /\ i + 1 # 1
                                    /\ work_queue'[i] = work_queue[i + 1]
  BY <1>1, QueueTypes
<1>4. InQueue(f) /\ (OnceInQueue(f) => ~InQueue(f)' /\ OnceInQueue(f)')
  BY <1>1, <1>3, QueueTypes DEF InQueue, OnceInQueue
<1>5. ASSUME NEW g \in Job \ {f} PROVE QueueOfSame(g)
  <2>1. work_queue[1] # <<g>>
    BY <1>1
  <2>2. InQueue(g)' <=> InQueue(g)
    <3>1. \A i \in DOMAIN work_queue :
             \/ work_queue[i] # <<g>>
             \/ i - 1 \in DOMAIN work_queue' /\ work_queue'[i - 1] = work_queue[i]
      BY <1>1, <1>2, <2>1, QueueTypes
    <3> QED BY <1>3, <3>1 DEF InQueue
  <2>3. OnceInQueue(g) => OnceInQueue(g)'
    BY <1>1, <1>3, QueueTypes DEF OnceInQueue
  <2> QED BY <2>2, <2>3 DEF QueueOfSame
<1> QED BY <1>4, <1>5

------------------------------------------------------------------------------
(* No job is lost and none is run twice                                    *)

\* The places of a worker with an item that it has not settled.
InHand == {"got", "running", "break"}

QueueAlike == \/ UNCHANGED work_queue
              \/ work_queue' = Append(work_queue, None)
              \/ /\ work_queue # <<>> /\ Head(work_queue) = None
                 /\ work_queue' = Tail(work_queue)

\* What throws items away is not forgotten.
FlagsStay == (cancel_futures => cancel_futures') /\ (broken => broken')
LEMMA FlagsStep == PoolTypeOK /\ [Next]_vars => FlagsStay
<1> SUFFICES ASSUME PoolTypeOK, [Next]_vars PROVE FlagsStay
  OBVIOUS
<1> USE DEF FlagsStay, flags, ending
<1>1. ASSUME NEW w \in Worker, WorkerStep(w) PROVE FlagsStay
  BY <1>1 DEF WorkerStep, Initialize, Get, Start, Run, CallBack, ReleaseIdle,
      NoneItem, InitializerFailed, Drain, BreakItem, BreakCallBack
<1>2. CASE \/ AdjustThreadCount \/ Shutdown \/ CloserStep \/ PythonExit \/ Collect
           \/ PutNone \/ \E f \in Job : Submit(f) \/ Cancel(f)
  BY <1>2 DEF CloserStep, Submit, Cancel, Shutdown, PythonExit, Collect, PutNone,
      ShutdownDrain, ShutdownCancel, ShutdownPut, ShutdownJoin, AdjustThreadCount
<1>3. CASE UNCHANGED pool
  BY <1>3 DEF pool
<1> QED BY <1>1, <1>2, <1>3 DEF Next, vars

\* A step that moves no work item.
LEMMA QuietStep ==
  ASSUME PoolTypeOK, UNCHANGED state, QueueAlike, FlagsStay,
         \A g \in Job : Closing(g)' <=> Closing(g),
         \A w \in Worker : \/ at'[w] = at[w] /\ item'[w] = item[w]
                           \/ at[w] \notin InHand /\ at'[w] \notin InHand
  PROVE  \A g \in Job : Keeps(g)
BY QueueNone DEF QueueAlike, QueueOfSame, Keeps, Holds, Runs, InHand, FlagsStay

\* A worker takes an item off the queue.
LEMMA TakeStep ==
  ASSUME PoolTypeOK, PlaceInv, UNCHANGED <<state, closer, closing>>, FlagsStay,
         NEW w \in Worker, NEW f \in Job, NEW l \in {"got", "break"},
         at[w] \notin InHand,
         work_queue # <<>>, Head(work_queue) = <<f>>, work_queue' = Tail(work_queue),
         item' = [item EXCEPT ![w] = <<f>>], at' = [at EXCEPT ![w] = l]
  PROVE  PlaceInv'
<1>1. /\ at'[w] = l /\ item'[w] = <<f>>
      /\ \A v \in Worker \ {w} : at'[v] = at[v] /\ item'[v] = item[v]
  BY DEF PoolTypeOK
<1>2. ASSUME NEW g \in Job \ {f} PROVE Keeps(g)
  BY <1>1, <1>2, QueueTake
     DEF QueueOfSame, Keeps, Holds, Runs, Closing, InHand, FlagsStay
<1>3. PlaceOf(f)'
  <2>1. PlaceOf(f)
    BY DEF PlaceInv
  <2>2. /\ InQueue(f) /\ ~InQueue(f)' /\ OnceInQueue(f)' /\ ~Closing(f) /\ ~Closing(f)'
    BY <2>1, QueueTake DEF PlaceOf, Closing
  <2>3. \A v \in Worker : ~Holds(v, f) /\ ~Runs(v, f)
    BY <2>1, <2>2 DEF PlaceOf, Holds, Runs
  <2>4. /\ Holds(w, f)' /\ \A v \in Worker \ {w} : ~Holds(v, f)'
        /\ \A v \in Worker : ~Runs(v, f)'
    BY <1>1, <2>3 DEF Holds, Runs
  <2>5. state[f] # "RUNNING" /\ state[f] \notin {"none"} \cup Settled
    BY <2>1, <2>2, <2>3 DEF PlaceOf
  <2> QED BY <2>2, <2>4, <2>5 DEF PlaceOf
<1> QED BY <1>2, <1>3, KeptPlace DEF PlaceInv

\* A worker starts its item, settles it or drops it.
LEMMA PutDownStep ==
  ASSUME PoolTypeOK, PlaceInv, UNCHANGED <<item, work_queue, closer, closing>>,
         FlagsStay, NEW w \in Worker, NEW f \in Job, Holds(w, f),
         NEW l \in At, at' = [at EXCEPT ![w] = l],
         NEW x \in State, state' = [state EXCEPT ![f] = x],
         \/ l = "running" /\ x = "RUNNING"
         \/ l \notin InHand /\ x \in Settled
         \/ l \notin InHand /\ x = "CANCELLED" /\ x = state[f] /\ broken
  PROVE  PlaceInv'
<1>1. /\ at'[w] = l /\ item'[w] = <<f>> /\ state'[f] = x
      /\ \A v \in Worker \ {w} : at'[v] = at[v]
      /\ \A g \in Job \ {f} : state'[g] = state[g]
  BY DEF PoolTypeOK, FuturesTypeOK, Holds
<1>2. ASSUME NEW g \in Job \ {f} PROVE Keeps(g)
  BY <1>1, <1>2 DEF Keeps, Holds, Runs, Closing, InHand, InQueue, OnceInQueue, FlagsStay
<1>3. PlaceOf(f)'
  <2>1. PlaceOf(f)
    BY DEF PlaceInv
  <2>2. /\ ~InQueue(f)' /\ OnceInQueue(f)' /\ ~Closing(f)'
    BY <2>1 DEF PlaceOf, Closing, InQueue, OnceInQueue
  <2>3. \A v \in Worker \ {w} : ~Holds(v, f) /\ ~Runs(v, f)
    BY <2>1 DEF PlaceOf, Holds, Runs
  <2>4. /\ Holds(w, f)' <=> l \in InHand
        /\ Runs(w, f)' <=> l = "running"
        /\ \A v \in Worker \ {w} : ~Holds(v, f)' /\ ~Runs(v, f)'
    BY <1>1, <2>3 DEF Holds, Runs, InHand
  <2>5. l = "running" => l \in InHand
    BY DEF InHand
  <2> QED BY <1>1, <2>2, <2>4, <2>5 DEF PlaceOf, Settled, FlagsStay
<1> QED BY <1>2, <1>3, KeptPlace DEF PlaceInv

\* A pending future is cancelled, by shutdown() or by anybody.
LEMMA CancelStep ==
  ASSUME PoolTypeOK, PlaceInv, UNCHANGED <<at, item, work_queue>>, FlagsStay,
         NEW f \in Job, CancelPending(f),
         \A g \in Job \ {f} : Closing(g)' <=> Closing(g),
         Closing(f)' => Closing(f), cancel_futures \/ (Closing(f) => Closing(f)')
  PROVE  PlaceInv'
<1>1. /\ state[f] = "PENDING" /\ state'[f] = "CANCELLED"
      /\ \A g \in Job \ {f} : state'[g] = state[g]
  BY DEF CancelPending, PoolTypeOK, FuturesTypeOK
<1>2. ASSUME NEW g \in Job \ {f} PROVE Keeps(g)
  BY <1>1, <1>2 DEF Keeps, Holds, Runs, InQueue, OnceInQueue, FlagsStay
<1>3. PlaceOf(f)'
  <2>1. PlaceOf(f)
    BY DEF PlaceInv
  <2> QED BY <1>1, <2>1 DEF PlaceOf, Holds, Runs, InQueue, OnceInQueue, Settled, FlagsStay
<1> QED BY <1>2, <1>3, KeptPlace DEF PlaceInv

\* Only submit() starts workers: BornInv is kept.
LEMMA BornStep ==
  ASSUME PoolTypeOK, BornInv, [Next]_vars
  PROVE  BornInv'
<1>0. at \in [Worker -> At] /\ threads \subseteq Worker
  BY DEF PoolTypeOK
<1>f. FlagsStay
  BY FlagsStep
<1>1. ASSUME NEW w \in Worker, WorkerStep(w) PROVE BornInv'
  <2>1. /\ UNCHANGED <<threads, closer, cancel_futures>>
        /\ \A v \in Worker \ {w} : at'[v] = at[v]
    BY <1>0, <1>1 DEF WorkerStep, Initialize, Get, Start, Run, CallBack, ReleaseIdle,
        NoneItem, InitializerFailed, Drain, BreakItem, BreakCallBack, GoTo, size, ending
  <2>2. at[w] # "unborn" /\ at'[w] # "unborn"
    BY <1>0, <1>1 DEF WorkerStep, Initialize, Get, Start, Run, CallBack, ReleaseIdle,
        NoneItem, InitializerFailed, Drain, BreakItem, BreakCallBack, GoTo
  <2>3. at'[w] \in {"drain", "break", "told"} =>
          at[w] \in {"drain", "break", "told"} \/ broken'
    BY <1>0, <1>1 DEF WorkerStep, Initialize, Get, Start, Run, CallBack, ReleaseIdle,
        NoneItem, InitializerFailed, Drain, BreakItem, BreakCallBack, GoTo
  <2> QED BY <1>f, <2>1, <2>2, <2>3 DEF BornInv, FlagsStay
<1>2. CASE AdjustThreadCount
  <2>1. UNCHANGED <<closer, cancel_futures, broken>>
    BY <1>2 DEF AdjustThreadCount, flags, ending
  <2> QED BY <1>0, <1>2, <2>1 DEF AdjustThreadCount, BornInv
<1>3. CASE UNCHANGED <<at, threads, closer, cancel_futures>>
  BY <1>3, <1>f DEF BornInv, FlagsStay
<1>4. CASE Shutdown \/ CloserStep
  <2>1. /\ UNCHANGED <<at, threads>>
        /\ closer' \in {"drain", "cancel", "told"} =>
             closer \in {"drain", "cancel", "told"} \/ cancel_futures'
    BY <1>4 DEF Shutdown, CloserStep, ShutdownDrain, ShutdownCancel, ShutdownPut,
        ShutdownJoin, size, workers
  <2> QED BY <1>f, <2>1 DEF BornInv, FlagsStay
<1> QED
  BY <1>1, <1>2, <1>3, <1>4
     DEF Next, vars, pool, Submit, Cancel, PythonExit, Collect, PutNone, size, workers,
         ending

\* No step of the pool or its clients breaks PlaceInv.
LEMMA PlaceStep ==
  ASSUME PoolTypeOK, PlaceInv, BornInv, [Next]_vars
  PROVE  PlaceInv'
<1> USE DEF workers, ending
<1>0. /\ at \in [Worker -> At] /\ item \in [Worker -> WorkItem] /\ closing \in WorkItem
      /\ state \in [Job -> State]
  BY DEF PoolTypeOK, FuturesTypeOK, WorkItem
<1>f. FlagsStay
  BY FlagsStep
<1>1. ASSUME \A g \in Job : Keeps(g) PROVE PlaceInv'
  BY <1>1, KeptPlace DEF PlaceInv
<1>2. ASSUME NEW w \in Worker, WorkerStep(w) PROVE PlaceInv'
  <2>1. CASE Initialize(w) \/ CallBack(w) \/ ReleaseIdle(w) \/ NoneItem(w)
             \/ InitializerFailed(w) \/ BreakCallBack(w)
    <3>1. /\ UNCHANGED <<state, closer, closing>> /\ QueueAlike
          /\ at[w] \notin InHand /\ at'[w] \notin InHand
          /\ \A v \in Worker \ {w} : at'[v] = at[v] /\ item'[v] = item[v]
      BY <1>0, <2>1
         DEF Initialize, CallBack, ReleaseIdle, NoneItem, InitializerFailed,
             BreakCallBack, PassNone, QueueAlike, GoTo, InHand, futures, OnItem,
             InvokeCallbacks
    <3>2. \A g \in Job : Closing(g)' <=> Closing(g)
      BY <3>1 DEF Closing
    <3> QED BY <1>1, <3>1, <3>2, <1>f, QuietStep
  <2>2. CASE Get(w) \/ Drain(w)
    <3>1. UNCHANGED <<state, closer, closing>> /\ at[w] \in {"get", "drain"}
      BY <2>2 DEF Get, Drain, futures
    <3>2. CASE work_queue # <<>> /\ Head(work_queue) # None
      <4>1. PICK f \in Job : Head(work_queue) = <<f>>
        BY <3>2, QueueTypes DEF WorkItem
      <4>2. /\ work_queue' = Tail(work_queue) /\ item' = [item EXCEPT ![w] = <<f>>]
            /\ at' = [at EXCEPT ![w] = "got"] \/ at' = [at EXCEPT ![w] = "break"]
        BY <2>2, <3>2, <4>1 DEF Get, Drain, GoTo
      <4> QED BY <3>1, <3>2, <4>1, <4>2, <1>f, TakeStep DEF InHand
    <3>3. CASE work_queue = <<>> \/ Head(work_queue) = None
      <4>1. /\ QueueAlike /\ at'[w] \notin InHand
            /\ \A v \in Worker \ {w} : at'[v] = at[v] /\ item'[v] = item[v]
        BY <1>0, <2>2, <3>3 DEF Get, Drain, GoTo, QueueAlike, InHand
      <4>2. \A g \in Job : Closing(g)' <=> Closing(g)
        BY <3>1 DEF Closing
      <4> QED BY <1>1, <3>1, <4>1, <4>2, <1>f, QuietStep DEF InHand
    <3> QED BY <3>2, <3>3
  <2>3. CASE Start(w)
    <3>1. PICK f \in Job :
            /\ item[w] = <<f>> /\ at[w] = "got"
            /\ UNCHANGED <<item, work_queue, closer, closing>>
            /\ \/ state' = [state EXCEPT ![f] = "RUNNING"] /\ GoTo(w, "running")
               \/ state' = [state EXCEPT ![f] = "CANCELLED_AND_NOTIFIED"] /\ GoTo(w, "idle")
      BY <2>3 DEF Start, OnItem, SetRunning, NotifyCancel
    <3>2. Holds(w, f)
      BY <3>1 DEF Holds
    <3> QED BY <3>1, <3>2, <1>f, PutDownStep DEF GoTo, At, State, Done, Cancelled, Settled, InHand
  <2>4. CASE Run(w) \/ BreakItem(w)
    <3>1. PICK f \in Job :
            /\ item[w] = <<f>> /\ at[w] \in {"running", "break"}
            /\ UNCHANGED <<item, work_queue, closer, closing>>
            /\ \/ /\ state' = [state EXCEPT ![f] = "FINISHED"]
                  /\ GoTo(w, "called") \/ GoTo(w, "told")
               \/ /\ at[w] = "break" /\ state[f] \in Done /\ GoTo(w, "lost")
                  /\ UNCHANGED state
      BY <2>4 DEF Run, BreakItem, OnItem, Finish, futures
    <3>2. Holds(w, f) /\ PlaceOf(f)
      BY <3>1 DEF Holds, PlaceInv
    <3>3. state[f] \in Done => state[f] = "CANCELLED" /\ state = [state EXCEPT ![f] = "CANCELLED"]
                              /\ (at[w] = "break" => broken)
      BY <1>0, <3>2 DEF BornInv, PlaceOf, Done, Cancelled, Settled
    <3> QED
      BY <3>1, <3>2, <3>3, <1>f, PutDownStep DEF GoTo, At, State, Done, Cancelled, Settled, InHand
  <2> QED BY <1>2, <2>1, <2>2, <2>3, <2>4 DEF WorkerStep
<1>3. ASSUME NEW f \in Job, Submit(f) PROVE PlaceInv'
  <2>1. /\ state[f] = "none" /\ state'[f] = "PENDING"
        /\ \A g \in Job \ {f} : state'[g] = state[g]
        /\ work_queue' = Append(work_queue, <<f>>)
        /\ UNCHANGED <<at, item, closer, closing>>
    BY <1>0, <1>3 DEF Submit, Create
  <2>2. \A g \in Job \ {f} : Keeps(g)
    BY <2>1, <1>f, QueuePut DEF Keeps, QueueOfSame, Holds, Runs, Closing, FlagsStay
  <2>3. PlaceOf(f) /\ InQueue(f)' /\ (~InQueue(f) => OnceInQueue(f)')
    BY <2>1, QueuePut DEF PlaceInv
  <2>4. PlaceOf(f)'
    BY <2>1, <2>3 DEF PlaceOf, Holds, Runs, Closing, Settled
  <2> QED BY <2>2, <2>4, KeptPlace DEF PlaceInv
<1>4. ASSUME NEW f \in Job, Cancel(f) PROVE PlaceInv'
  <2>1. UNCHANGED <<at, item, closer, closing, work_queue>>
    BY <1>4 DEF Cancel
  <2>2. CASE CancelPending(f)
    BY <2>1, <2>2, <1>f, CancelStep DEF Closing
  <2>3. CASE InvokeCallbacks(f)
    BY <1>1, <2>1, <2>3, <1>f, QuietStep DEF InvokeCallbacks, QueueAlike, Closing
  <2> QED BY <1>4, <2>2, <2>3 DEF Cancel
<1>5. CASE AdjustThreadCount
  <2>1. /\ UNCHANGED <<state, item, closer, closing, work_queue>>
        /\ \A w \in Worker : \/ at'[w] = at[w]
                             \/ at'[w] = "init" /\ at[w] = "unborn"
    BY <1>0, <1>5 DEF AdjustThreadCount, futures, BornInv, PoolTypeOK
  <2> QED BY <1>1, <2>1, <1>f, QuietStep DEF QueueAlike, Closing, InHand
<1>6. CASE Shutdown \/ ShutdownPut \/ ShutdownJoin \/ PythonExit \/ Collect \/ PutNone
  <2>1. /\ UNCHANGED <<state, at, item>> /\ QueueAlike
        /\ \/ UNCHANGED <<closer, closing>>
           \/ closer # "cancel" /\ closer' # "cancel"
    <3>1. CASE Shutdown
      BY <3>1 DEF Shutdown, QueueAlike, futures
    <3>2. CASE ShutdownPut \/ ShutdownJoin
      BY <3>2 DEF ShutdownPut, ShutdownJoin, QueueAlike, futures
    <3>3. CASE PythonExit \/ Collect \/ PutNone
      BY <3>3 DEF PythonExit, Collect, PutNone, QueueAlike, futures
    <3> QED BY <1>6, <3>1, <3>2, <3>3
  <2> QED BY <1>1, <2>1, <1>f, QuietStep DEF Closing
<1>7. CASE ShutdownDrain
  <2>1. UNCHANGED <<state, at, item>> /\ closer = "drain"
    BY <1>7 DEF ShutdownDrain, futures
  <2>2. CASE work_queue # <<>> /\ Head(work_queue) # None
    <3>1. PICK f \in Job : Head(work_queue) = <<f>>
      BY <2>2, QueueTypes DEF WorkItem
    <3>2. work_queue' = Tail(work_queue) /\ closing' = <<f>> /\ closer' = "cancel"
      BY <1>7, <2>2, <3>1 DEF ShutdownDrain
    <3>3. \A g \in Job \ {f} : Keeps(g)
      BY <2>1, <2>2, <3>1, <3>2, <1>f, QueueTake DEF Keeps, QueueOfSame, Holds, Runs, Closing, FlagsStay
    <3>4. PlaceOf(f) /\ InQueue(f) /\ ~InQueue(f)' /\ OnceInQueue(f)' /\ Closing(f)'
      BY <2>2, <3>1, <3>2, QueueTake DEF PlaceInv, PlaceOf, Closing
    <3>5. PlaceOf(f)'
      BY <1>f, <2>1, <3>4 DEF PlaceOf, Holds, Runs, FlagsStay
    <3> QED BY <3>3, <3>5, KeptPlace DEF PlaceInv
  <2>3. CASE work_queue = <<>> \/ Head(work_queue) = None
    <3>1. QueueAlike /\ closer' # "cancel"
      BY <1>7, <2>3 DEF ShutdownDrain, QueueAlike
    <3> QED BY <1>1, <2>1, <3>1, <1>f, QuietStep DEF Closing
  <2> QED BY <2>2, <2>3
<1>8. CASE ShutdownCancel
  <2>1. /\ UNCHANGED <<at, item, work_queue, closing>> /\ closer' # "cancel"
        /\ closer \in {"cancel", "told"}
    BY <1>8 DEF ShutdownCancel
  <2>2. PICK f \in Job :
          /\ closing = <<f>>
          /\ \/ closer = "cancel" /\ CancelPending(f)
             \/ closer = "cancel" /\ state[f] \in Cancelled /\ UNCHANGED state
             \/ closer = "told" /\ UNCHANGED state
    BY <1>8 DEF ShutdownCancel, InvokeCallbacks, futures
  <2>3. CASE CancelPending(f)
    <3>1. closer = "cancel" => cancel_futures
      BY DEF BornInv
    <3> QED BY <2>1, <2>2, <2>3, <3>1, <1>f, CancelStep DEF Closing
  <2>4. CASE closer = "told" /\ UNCHANGED state
    BY <1>1, <2>1, <2>4, <1>f, QuietStep DEF Closing, QueueAlike
  <2>5. CASE closer = "cancel" /\ state[f] \in Cancelled /\ UNCHANGED state
    <3>1. \A g \in Job \ {f} : Keeps(g)
      BY <1>f, <2>1, <2>2, <2>5
         DEF Keeps, Holds, Runs, Closing, InQueue, OnceInQueue, FlagsStay
    <3>2. PlaceOf(f) /\ Closing(f) /\ ~Closing(f)'
      BY <2>1, <2>2, <2>5 DEF PlaceInv, Closing
    <3>3. PlaceOf(f)'
      BY <1>f, <2>1, <2>5, <3>2
         DEF PlaceOf, Holds, Runs, InQueue, OnceInQueue, Settled, Cancelled, BornInv, FlagsStay
    <3> QED BY <3>1, <3>3, KeptPlace DEF PlaceInv
  <2> QED BY <2>2, <2>3, <2>4, <2>5
<1>9. CASE (ClientStep /\ UNCHANGED pool) \/ UNCHANGED vars
  <2>1. UNCHANGED <<state, at, item, closer, closing, work_queue>>
    BY <1>9, ClientsOnlyRead DEF pool, vars, futures
  <2> QED BY <1>1, <2>1, <1>f, QuietStep DEF QueueAlike, Closing
<1> QED BY <1>2, <1>3, <1>4, <1>5, <1>6, <1>7, <1>8, <1>9 DEF Next, CloserStep

------------------------------------------------------------------------------
(* A callback is called once                                               *)

\* What a step leaves as it is for the callbacks of a future.
KeepsDebt(g) ==
  /\ state[g] \in Done <=> state'[g] \in Done
  /\ callback'[g] = callback[g]
  /\ g \in cancelling' <=> g \in cancelling
  /\ CloserOwes(g)' <=> CloserOwes(g)
  /\ \A w \in Worker : Owes(w, g)' <=> Owes(w, g)

\* Such a step leaves the debt of callbacks right.
LEMMA KeptDebt ==
  ASSUME NEW g \in Job, DebtOf(g), KeepsDebt(g)
  PROVE  DebtOf(g)'
BY DEF DebtOf, KeepsDebt

\* A future is done: somebody has to call back.
LEMMA NewDebt ==
  ASSUME NEW f \in Job, DebtOf(f), state[f] \notin Done, state'[f] \in Done,
         callback'[f] = callback[f],
         \/ /\ f \notin cancelling' /\ ~CloserOwes(f)' /\ \E w \in Worker : Owes(w, f)'
            /\ \A v, w \in Worker : Owes(v, f)' /\ Owes(w, f)' => v = w
         \/ /\ f \notin cancelling' /\ CloserOwes(f)'
            /\ \A w \in Worker : ~Owes(w, f)'
         \/ /\ ~CloserOwes(f)' /\ f \in cancelling'
            /\ \A w \in Worker : ~Owes(w, f)'
  PROVE  DebtOf(f)'
BY DEF DebtOf

\* Who owes the callbacks of a future invokes them.
LEMMA PaidDebt ==
  ASSUME NEW f \in Job, DebtOf(f), InvokeCallbacks(f), callback \in [Job -> [at : {"gone", "idle", "listed", "given"}, calls : Nat]],
         \/ CloserOwes(f) \/ f \in cancelling \/ \E w \in Worker : Owes(w, f),
         f \notin cancelling', ~CloserOwes(f)', \A w \in Worker : ~Owes(w, f)'
  PROVE  DebtOf(f)'
<1>1. state[f] \in Done /\ ~(callback[f].at = "listed" /\ callback[f].calls = 1)
  BY DEF DebtOf
<1>2. /\ callback'[f].at = callback[f].at
      /\ callback'[f].calls = IF callback[f].at = "listed" THEN callback[f].calls + 1
                                                           ELSE callback[f].calls
      /\ state'[f] = state[f]
  BY DEF InvokeCallbacks
<1> QED BY <1>1, <1>2 DEF DebtOf

\* No step of the pool or its clients breaks DebtInv.
LEMMA DebtStep ==
  ASSUME PoolTypeOK, DebtInv, BornInv, [Next]_vars, FuturesNext \/ UNCHANGED futures
  PROVE  DebtInv'
<1> USE DEF workers, ending
<1>0. /\ at \in [Worker -> At] /\ item \in [Worker -> WorkItem] /\ closing \in WorkItem
      /\ state \in [Job -> State]
      /\ callback \in [Job -> [at : {"gone", "idle", "listed", "given"}, calls : Nat]]
  BY DEF PoolTypeOK, FuturesTypeOK, WorkItem
<1>d. \A g \in Job : state[g] \in Done => state'[g] \in Done
  BY StateStep DEF PoolTypeOK, Done, Cancelled, Settled
<1>1. ASSUME \A g \in Job : callback'[g] = callback[g] /\ (g \in cancelling' <=> g \in cancelling),
             \A g \in Job : state'[g] \in Done => state[g] \in Done,
             \A g \in Job : CloserOwes(g)' <=> CloserOwes(g),
             \A w \in Worker : \/ at'[w] = at[w] /\ item'[w] = item[w]
                               \/ {at[w], at'[w]} \cap {"called", "told"} = {}
      PROVE  DebtInv'
  <2>1. ASSUME NEW g \in Job, NEW w \in Worker PROVE Owes(w, g)' <=> Owes(w, g)
    BY <1>1 DEF Owes
  <2> QED BY <1>1, <1>d, <2>1, KeptDebt DEF KeepsDebt, DebtInv
<1>2. ASSUME NEW w \in Worker, WorkerStep(w) PROVE DebtInv'
  <2>1. CASE \/ Initialize(w) \/ Get(w) \/ Start(w) \/ ReleaseIdle(w) \/ NoneItem(w)
             \/ InitializerFailed(w) \/ Drain(w) \/ (BreakItem(w) /\ at'[w] = "lost")
    <3>1. /\ UNCHANGED <<callback, cancelling, closer, closing>>
          /\ \A g \in Job : state'[g] \in Done => state[g] \in Done
          /\ at[w] \notin {"called", "told"} /\ at'[w] \notin {"called", "told"}
      <4>1. CASE Start(w)
        BY <1>0, <4>1 DEF Start, OnItem, SetRunning, NotifyCancel, GoTo, others,
                              Done, Cancelled, Settled
      <4>2. CASE BreakItem(w) /\ at'[w] = "lost"
        BY <1>0, <4>2 DEF BreakItem, OnItem, Finish, GoTo, others, futures
      <4> QED
        BY <1>0, <2>1, <4>1, <4>2
           DEF Initialize, Get, ReleaseIdle, NoneItem, InitializerFailed, Drain, GoTo,
               futures, others
    <3>2. \A v \in Worker \ {w} : at'[v] = at[v] /\ item'[v] = item[v]
      BY <1>0, <2>1 DEF Initialize, Get, Start, ReleaseIdle, NoneItem,
                        InitializerFailed, Drain, BreakItem, GoTo
    <3> QED BY <1>1, <3>1, <3>2 DEF CloserOwes
  <2>2. CASE Run(w) \/ (BreakItem(w) /\ at'[w] # "lost")
    <3>1. PICK f \in Job :
            /\ item[w] = <<f>> /\ item' = item
            /\ Finish(f, "result") \/ Finish(f, "exception")
            /\ at' = [at EXCEPT ![w] = "called"] \/ at' = [at EXCEPT ![w] = "told"]
            /\ at[w] \notin {"called", "told"}
            /\ UNCHANGED <<cancelling, closer, closing>>
      BY <1>0, <2>2 DEF Run, BreakItem, OnItem, GoTo, others
    <3>2. /\ state[f] \notin Done /\ state'[f] \in Done /\ UNCHANGED callback
          /\ \A g \in Job \ {f} : state'[g] = state[g]
      BY <1>0, <3>1 DEF Finish, Done, Settled
    <3>3. \A g \in Job \ {f} : KeepsDebt(g)
      BY <1>0, <1>d, <3>1, <3>2 DEF KeepsDebt, Owes, CloserOwes
    <3>4. DebtOf(f)
      BY DEF DebtInv
    <3>5. /\ f \notin cancelling' /\ ~CloserOwes(f)' /\ Owes(w, f)'
          /\ \A v \in Worker : Owes(v, f)' => v = w
      BY <1>0, <3>1, <3>2, <3>4 DEF DebtOf, Owes, CloserOwes
    <3>6. DebtOf(f)'
      BY <3>2, <3>4, <3>5, NewDebt
    <3> QED BY <3>3, <3>6, KeptDebt DEF DebtInv
  <2>3. CASE CallBack(w) \/ BreakCallBack(w)
    <3>1. PICK f \in Job :
            /\ item[w] = <<f>> /\ item' = item /\ InvokeCallbacks(f)
            /\ at' = [at EXCEPT ![w] = "idle"] \/ at' = [at EXCEPT ![w] = "drain"]
            /\ at[w] \in {"called", "told"}
            /\ UNCHANGED <<cancelling, closer, closing>>
      BY <2>3 DEF CallBack, BreakCallBack, OnItem, GoTo, others
    <3>2. \A g \in Job \ {f} : KeepsDebt(g)
      BY <1>0, <1>d, <3>1 DEF KeepsDebt, Owes, CloserOwes, InvokeCallbacks
    <3>3. DebtOf(f) /\ Owes(w, f)
      BY <3>1 DEF DebtInv, Owes
    <3>4. f \notin cancelling' /\ ~CloserOwes(f)' /\ \A v \in Worker : ~Owes(v, f)'
      BY <1>0, <3>1, <3>3 DEF DebtOf, Owes, CloserOwes
    <3>5. DebtOf(f)'
      BY <1>0, <3>1, <3>3, <3>4, PaidDebt
    <3> QED BY <3>2, <3>5, KeptDebt DEF DebtInv
  <2> QED BY <1>2, <2>1, <2>2, <2>3 DEF WorkerStep
<1>3. ASSUME NEW f \in Job, Cancel(f) PROVE DebtInv'
  <2>1. UNCHANGED <<at, item, closer, closing>>
    BY <1>3 DEF Cancel
  <2>2. DebtOf(f)
    BY DEF DebtInv
  <2>3. CASE CancelPending(f) /\ cancelling' = cancelling \cup {f}
    <3>1. /\ state[f] \notin Done /\ state'[f] \in Done /\ UNCHANGED callback
          /\ \A g \in Job \ {f} : state'[g] = state[g]
      BY <1>0, <2>3 DEF CancelPending, Done, Cancelled, Settled
    <3>2. ~CloserOwes(f)' /\ f \in cancelling' /\ \A w \in Worker : ~Owes(w, f)'
      BY <2>1, <2>2, <2>3, <3>1 DEF DebtOf, Owes, CloserOwes
    <3>3. \A g \in Job \ {f} : KeepsDebt(g)
      BY <1>d, <2>1, <2>3, <3>1 DEF KeepsDebt, Owes, CloserOwes
    <3>4. DebtOf(f)'
      BY <2>2, <3>1, <3>2, NewDebt
    <3> QED BY <3>3, <3>4, KeptDebt DEF DebtInv
  <2>4. CASE f \in cancelling /\ InvokeCallbacks(f) /\ cancelling' = cancelling \ {f}
    <3>1. ~CloserOwes(f)' /\ \A w \in Worker : ~Owes(w, f)'
      BY <2>1, <2>2, <2>4 DEF DebtOf, Owes, CloserOwes
    <3>2. \A g \in Job \ {f} : KeepsDebt(g)
      BY <1>0, <1>d, <2>1, <2>4 DEF KeepsDebt, Owes, CloserOwes, InvokeCallbacks
    <3>3. DebtOf(f)'
      BY <1>0, <2>2, <2>4, <3>1, PaidDebt
    <3> QED BY <3>2, <3>3, KeptDebt DEF DebtInv
  <2> QED BY <1>3, <2>3, <2>4 DEF Cancel
<1>4. CASE ShutdownCancel
  <2>1. UNCHANGED <<at, item, closing, cancelling>>
    BY <1>4 DEF ShutdownCancel, others
  <2>2. PICK f \in Job :
          /\ closing = <<f>>
          /\ \/ closer = "cancel" /\ closer' = "told" /\ CancelPending(f)
             \/ closer = "cancel" /\ closer' = "drain" /\ UNCHANGED futures
             \/ closer = "told" /\ closer' = "drain" /\ InvokeCallbacks(f)
    BY <1>4 DEF ShutdownCancel
  <2>3. DebtOf(f)
    BY DEF DebtInv
  <2>4. CASE closer = "cancel" /\ closer' = "told" /\ CancelPending(f)
    <3>1. /\ state[f] \notin Done /\ state'[f] \in Done /\ UNCHANGED callback
          /\ \A g \in Job \ {f} : state'[g] = state[g]
      BY <1>0, <2>4 DEF CancelPending, Done, Cancelled, Settled
    <3>2. f \notin cancelling' /\ CloserOwes(f)' /\ \A w \in Worker : ~Owes(w, f)'
      BY <2>1, <2>2, <2>3, <2>4, <3>1 DEF DebtOf, Owes, CloserOwes
    <3>3. \A g \in Job \ {f} : KeepsDebt(g)
      BY <1>d, <2>1, <2>2, <2>4, <3>1 DEF KeepsDebt, Owes, CloserOwes
    <3>4. DebtOf(f)'
      BY <2>3, <3>1, <3>2, NewDebt
    <3> QED BY <3>3, <3>4, KeptDebt DEF DebtInv
  <2>5. CASE closer = "told" /\ closer' = "drain" /\ InvokeCallbacks(f)
    <3>1. /\ f \notin cancelling' /\ ~CloserOwes(f)' /\ CloserOwes(f)
          /\ \A w \in Worker : ~Owes(w, f)'
      BY <2>1, <2>2, <2>3, <2>5 DEF DebtOf, Owes, CloserOwes
    <3>2. \A g \in Job \ {f} : KeepsDebt(g)
      BY <1>0, <1>d, <2>1, <2>2, <2>5 DEF KeepsDebt, Owes, CloserOwes, InvokeCallbacks
    <3>3. DebtOf(f)'
      BY <1>0, <2>3, <2>5, <3>1, PaidDebt
    <3> QED BY <3>2, <3>3, KeptDebt DEF DebtInv
  <2>6. CASE closer = "cancel" /\ closer' = "drain" /\ UNCHANGED futures
    BY <1>1, <2>1, <2>6 DEF CloserOwes, futures
  <2> QED BY <2>2, <2>4, <2>5, <2>6
<1>5. CASE AdjustThreadCount
  <2>1. /\ UNCHANGED <<state, callback, item, closer, closing, cancelling>>
        /\ \A w \in Worker : \/ at'[w] = at[w]
                             \/ at'[w] = "init" /\ at[w] = "unborn"
    BY <1>0, <1>5 DEF AdjustThreadCount, futures, BornInv, PoolTypeOK, others
  <2> QED BY <1>1, <2>1 DEF CloserOwes
<1>6. ASSUME NEW f \in Job, Submit(f) PROVE DebtInv'
  <2>1. \A g \in Job : state'[g] \in Done => state[g] \in Done
    BY <1>0, <1>6 DEF Submit, Create, Done, Cancelled, Settled
  <2> QED BY <1>1, <1>6, <2>1 DEF Submit, Create, others, CloserOwes
<1>7. CASE \/ Shutdown \/ ShutdownPut \/ ShutdownJoin \/ ShutdownDrain
           \/ PythonExit \/ Collect \/ PutNone
  <2>1. /\ UNCHANGED <<state, callback, at, item, cancelling>>
        /\ \/ UNCHANGED <<closer, closing>>
           \/ closer # "told" /\ closer' # "told"
    <3>1. CASE Shutdown \/ ShutdownDrain
      BY <3>1 DEF Shutdown, ShutdownDrain, futures, others
    <3>2. CASE ShutdownPut \/ ShutdownJoin
      BY <3>2 DEF ShutdownPut, ShutdownJoin, futures, others
    <3>3. CASE PythonExit \/ Collect \/ PutNone
      BY <3>3 DEF PythonExit, Collect, PutNone, futures, others
    <3> QED BY <1>7, <3>1, <3>2, <3>3
  <2> QED BY <1>1, <2>1 DEF CloserOwes
<1>8. CASE ClientStep /\ UNCHANGED pool
  <2>1. UNCHANGED <<state, at, item, closer, closing, cancelling>>
    BY <1>8, ClientsOnlyRead DEF pool, others
  <2>2. ASSUME NEW f \in Job, AddDoneCallback(f) PROVE DebtInv'
    <3>1. /\ callback[f].at = "idle" /\ UNCHANGED state
          /\ \/ state[f] \in Done /\ callback'[f] = [at |-> "given", calls |-> 1]
             \/ state[f] \notin Done /\ callback'[f] = [at |-> "listed", calls |-> 0]
          /\ \A g \in Job \ {f} : callback'[g] = callback[g]
      BY <1>0, <2>2 DEF AddDoneCallback
    <3>2. \A g \in Job \ {f} : KeepsDebt(g)
      BY <2>1, <3>1 DEF KeepsDebt, Owes, CloserOwes
    <3>3. DebtOf(f)
      BY DEF DebtInv
    <3>4. DebtOf(f)'
      BY <2>1, <3>1, <3>3 DEF DebtOf, Owes, CloserOwes
    <3> QED BY <3>2, <3>4, KeptDebt DEF DebtInv
  <2>3. CASE UNCHANGED callback
    BY <1>1, <2>1, <2>3 DEF CloserOwes
  <2> QED BY <1>8, <2>2, <2>3
          DEF ClientStep, ResultTimeout, ResultAwake, Result, WaitReturns, Wait
<1>9. CASE UNCHANGED vars
  BY <1>1, <1>9 DEF vars, pool, futures, others, CloserOwes
<1> QED BY <1>2, <1>3, <1>4, <1>5, <1>6, <1>7, <1>8, <1>9 DEF Next, CloserStep

------------------------------------------------------------------------------
(* No item waits for a busy worker while the pool may grow                 *)

\* _shutdown_lock keeps its holder.
LEMMA LockStep ==
  ASSUME PoolTypeOK, BornInv, LockInv, [Next]_vars
  PROVE  LockInv'
<1> USE DEF workers, ending
<1>0. /\ at \in [Worker -> At] /\ lock \in Locker /\ closer \in Closer
      /\ submitting \in BOOLEAN
  BY DEF PoolTypeOK
<1>a. /\ NoOne \notin Worker /\ NoOne # "submit" /\ NoOne # "shutdown"
      /\ "submit" \notin Worker /\ "shutdown" \notin Worker
  BY ThreadPoolAssumption
<1>1. ASSUME NEW w \in Worker, WorkerStep(w) PROVE LockInv'
  <2>1. /\ UNCHANGED <<submitting, closer>>
        /\ \A v \in Worker \ {w} : at'[v] = at[v]
    BY <1>0, <1>1 DEF WorkerStep, Initialize, Get, Start, Run, CallBack, ReleaseIdle,
        NoneItem, InitializerFailed, Drain, BreakItem, BreakCallBack, GoTo
  <2>2. \/ lock' = lock /\ (at'[w] \in {"drain", "break", "told"}
                              => at[w] \in {"drain", "break", "told"})
        \/ lock = NoOne /\ lock' = w
        \/ /\ at[w] \in {"drain", "break", "told"} /\ lock' = NoOne
           /\ at'[w] \notin {"drain", "break", "told"}
    <3>1. CASE Initialize(w) \/ Get(w) \/ Start(w) \/ Run(w) \/ CallBack(w)
               \/ ReleaseIdle(w) \/ NoneItem(w) \/ BreakCallBack(w)
      BY <1>0, <3>1 DEF Initialize, Get, Start, Run, CallBack, ReleaseIdle, NoneItem,
                        BreakCallBack, GoTo
    <3>2. CASE InitializerFailed(w) \/ Drain(w) \/ BreakItem(w)
      BY <1>0, <3>2 DEF InitializerFailed, Drain, BreakItem, GoTo
    <3> QED BY <1>1, <3>1, <3>2 DEF WorkerStep
  <2> QED BY <1>0, <1>a, <2>1, <2>2 DEF LockInv
<1>2. ASSUME NEW f \in Job, Submit(f) \/ Cancel(f) PROVE LockInv'
  BY <1>0, <1>a, <1>2 DEF Submit, Cancel, LockInv
<1>3. CASE AdjustThreadCount
  <2>1. \A w \in Worker : at'[w] = at[w] \/ at'[w] = "init"
    BY <1>0, <1>3 DEF AdjustThreadCount
  <2>2. /\ lock = "submit" /\ lock' = NoOne /\ ~submitting' /\ UNCHANGED closer
    BY <1>3 DEF AdjustThreadCount, LockInv
  <2> QED BY <1>a, <2>1, <2>2 DEF LockInv
<1>4. CASE Shutdown
  BY <1>0, <1>a, <1>4 DEF Shutdown, LockInv
<1>5. CASE ShutdownDrain \/ ShutdownCancel \/ ShutdownJoin
  BY <1>0, <1>a, <1>5 DEF ShutdownDrain, ShutdownCancel, ShutdownJoin, LockInv
<1>6. CASE ShutdownPut
  BY <1>0, <1>a, <1>6 DEF ShutdownPut, LockInv
<1>7. CASE \/ PythonExit \/ Collect \/ PutNone \/ UNCHANGED pool
  BY <1>7 DEF PythonExit, Collect, PutNone, pool, LockInv
<1> QED BY <1>1, <1>2, <1>3, <1>4, <1>5, <1>6, <1>7 DEF Next, CloserStep, vars

\* One worker moves on.
LEMMA CountMove ==
  ASSUME PoolTypeOK, UNCHANGED threads, NEW w \in threads, NEW l,
         at' = [at EXCEPT ![w] = l], NEW L
  PROVE  Cardinality(WorkersAt(L)') = Cardinality(WorkersAt(L))
           - Counts(at[w], L) + Counts(l, L)
<1>1. IsFiniteSet(threads) /\ threads \subseteq Worker /\ at \in [Worker -> At]
  BY ThreadPoolAssumption, FS_Subset DEF PoolTypeOK
<1> DEFINE rest == {v \in threads \ {w} : at[v] \in L}
<1>2. IsFiniteSet(rest) /\ w \notin rest /\ Cardinality(rest) \in Nat
  BY <1>1, FS_Subset, FS_CardinalityType
<1>3. /\ WorkersAt(L) = IF at[w] \in L THEN rest \cup {w} ELSE rest
      /\ WorkersAt(L)' = IF l \in L THEN rest \cup {w} ELSE rest
  BY <1>1 DEF WorkersAt
<1>4. Cardinality(rest \cup {w}) = Cardinality(rest) + 1
  BY <1>2, FS_AddElement
<1> HIDE DEF rest
<1> QED BY <1>2, <1>3, <1>4 DEF Counts

\* The counts of workers are numbers.
LEMMA CountType ==
  ASSUME PoolTypeOK, NEW L
  PROVE  Cardinality(WorkersAt(L)) \in Nat /\ Cardinality(threads) \in Nat
BY ThreadPoolAssumption, FS_Subset, FS_CardinalityType, WorkersAt(L) \subseteq Worker,
   threads \subseteq Worker DEF PoolTypeOK, WorkersAt

\* A pool that may grow could do so before.
LEMMA GrowBefore ==
  ASSUME PoolTypeOK, PoolTypeOK', BornInv, GrowthInv, [Next]_vars
  PROVE  /\ MayGrow' => MayGrow
         /\ broken' => \E w \in threads' : at'[w] \in EndingAt
         /\ closer' # "idle" => shutdown'
<1> USE DEF workers, ending, flags, size
<1>0. /\ at \in [Worker -> At] /\ threads \subseteq Worker
      /\ {shutdown, collected, exiting, broken} \subseteq BOOLEAN
      /\ max_workers \in Nat /\ IsFiniteSet(threads) /\ IsFiniteSet(threads')
  BY ThreadPoolAssumption, FS_Subset, FS_CardinalityType DEF PoolTypeOK
<1>1. ASSUME NEW w \in Worker, WorkerStep(w)
      PROVE  /\ threads' = threads /\ max_workers' = max_workers
             /\ \A v \in Worker \ {w} : at'[v] = at[v]
             /\ at[w] \in EndingAt => at'[w] \in EndingAt
             /\ shutdown => shutdown'
             /\ UNCHANGED <<exiting, collected, closer>>
             /\ broken' => broken \/ at'[w] \in EndingAt
             /\ w \in threads
  <2>1. w \in threads
    BY <1>0, <1>1 DEF BornInv, WorkerStep, Initialize, Get, Start, Run, CallBack, ReleaseIdle,
        NoneItem, InitializerFailed, Drain, BreakItem, BreakCallBack
  <2>2. CASE Initialize(w) \/ Get(w) \/ Start(w) \/ Run(w) \/ CallBack(w)
               \/ ReleaseIdle(w) \/ BreakCallBack(w)
    BY <1>0, <2>1, <2>2 DEF Initialize, Get, Start, Run, CallBack, ReleaseIdle,
                            BreakCallBack, GoTo, EndingAt, Ended
  <2>3. CASE NoneItem(w)
    BY <1>0, <2>1, <2>3 DEF NoneItem, GoTo, EndingAt, Ended
  <2>4. CASE InitializerFailed(w) \/ Drain(w) \/ BreakItem(w)
    BY <1>0, <2>1, <2>4 DEF InitializerFailed, Drain, BreakItem, GoTo, EndingAt, Ended
  <2> QED BY <1>1, <2>2, <2>3, <2>4 DEF WorkerStep
<1>2. CASE \E w \in Worker : WorkerStep(w)
  BY <1>0, <1>1, <1>2 DEF GrowthInv, MayGrow
<1>3. CASE AdjustThreadCount
  <2>1. /\ threads \subseteq threads' /\ \A w \in threads : at'[w] = at[w]
        /\ UNCHANGED <<max_workers, broken, shutdown, exiting, collected, closer>>
    BY <1>0, <1>3 DEF AdjustThreadCount, BornInv
  <2>2. Cardinality(threads) <= Cardinality(threads')
    BY <1>0, <2>1, FS_Subset
  <2>3. Cardinality(threads) \in Nat /\ Cardinality(threads') \in Nat
    BY <1>0, FS_CardinalityType
  <2> QED BY <1>0, <2>1, <2>2, <2>3 DEF GrowthInv, MayGrow
<1>4. CASE UNCHANGED <<at, threads, max_workers, broken>> /\ (shutdown => shutdown')
           /\ (exiting => exiting') /\ (collected => collected')
           /\ (closer' # "idle" => closer # "idle" \/ shutdown')
  BY <1>0, <1>4 DEF GrowthInv, MayGrow
<1>5. CASE \/ \E f \in Job : Submit(f) \/ Cancel(f)
           \/ Shutdown \/ CloserStep \/ PythonExit \/ Collect \/ PutNone \/ UNCHANGED pool
  <2>1. CASE \/ \E f \in Job : Submit(f) \/ Cancel(f)
             \/ UNCHANGED pool
    BY <1>4, <2>1 DEF Submit, Cancel, pool
  <2>2. CASE Shutdown \/ PythonExit \/ Collect \/ PutNone
    BY <1>4, <2>2 DEF Shutdown, PythonExit, Collect, PutNone
  <2>3. CASE CloserStep
    BY <1>4, <2>3 DEF CloserStep, ShutdownDrain, ShutdownCancel, ShutdownPut, ShutdownJoin
  <2> QED BY <1>5, <2>1, <2>2, <2>3
<1> QED BY <1>2, <1>3, <1>5 DEF Next, vars

\* While the pool may grow, the balance of items and workers is kept.
LEMMA GrowStep ==
  ASSUME PoolTypeOK, PoolTypeOK', BornInv, LockInv, GrowthInv, [Next]_vars
  PROVE  GrowthInv'
<1> USE DEF workers, ending, flags, size
<1>0. /\ at \in [Worker -> At] /\ threads \subseteq Worker
      /\ {shutdown, collected, exiting, broken, submitting} \subseteq BOOLEAN
      /\ idle_semaphore \in Nat /\ Len(work_queue) \in Nat
      /\ work_queue \in Seq(WorkItem)
  BY QueueTypes DEF PoolTypeOK
<1>q. /\ idle_semaphore' \in Nat /\ work_queue' \in Seq(WorkItem) /\ Len(work_queue') \in Nat
  BY DEF PoolTypeOK, WorkItem
<1> SUFFICES ASSUME MayGrow'
    PROVE  /\ Len(work_queue') + idle_semaphore' + Cardinality(WorkersAt(IdleAt)')
                = Cardinality(WorkersAt(ReadyAt)') + (IF submitting' THEN 1 ELSE 0)
           /\ \A i \in DOMAIN work_queue' : work_queue'[i] # None
           /\ owed' = 0 /\ \A w \in threads' : at'[w] # "none"
  BY GrowBefore DEF GrowthInv
<1>1. MayGrow /\ closer = "idle" /\ ~broken
  BY GrowBefore DEF GrowthInv, MayGrow
<1>2. /\ Len(work_queue) + idle_semaphore + Cardinality(WorkersAt(IdleAt))
           = Cardinality(WorkersAt(ReadyAt)) + (IF submitting THEN 1 ELSE 0)
      /\ \A i \in DOMAIN work_queue : work_queue[i] # None
      /\ owed = 0 /\ \A w \in threads : at[w] # "none"
  BY <1>1 DEF GrowthInv
<1>3. /\ Cardinality(WorkersAt(IdleAt)) \in Nat /\ Cardinality(WorkersAt(ReadyAt)) \in Nat
  BY CountType
<1>4. ASSUME NEW w \in Worker, WorkerStep(w)
      PROVE  /\ Len(work_queue') + idle_semaphore' + Cardinality(WorkersAt(IdleAt)')
                  = Cardinality(WorkersAt(ReadyAt)') + (IF submitting' THEN 1 ELSE 0)
             /\ \A i \in DOMAIN work_queue' : work_queue'[i] # None
             /\ owed' = 0 /\ \A v \in threads' : at'[v] # "none"
  <2>1. w \in threads /\ threads' = threads /\ at'[w] \notin EndingAt /\ at[w] \notin EndingAt
    <3>1. w \in threads
      BY <1>0, <1>4 DEF BornInv, WorkerStep, Initialize, Get, Start, Run, CallBack, ReleaseIdle,
          NoneItem, InitializerFailed, Drain, BreakItem, BreakCallBack
    <3>2. threads' = threads
      BY <1>4 DEF WorkerStep, Initialize, Get, Start, Run, CallBack, ReleaseIdle,
          NoneItem, InitializerFailed, Drain, BreakItem, BreakCallBack
    <3> QED BY <1>1, <3>1, <3>2 DEF MayGrow
  <2>2. ASSUME NEW l, at' = [at EXCEPT ![w] = l], l # "none",
               UNCHANGED <<owed, submitting>>,
               \A i \in DOMAIN work_queue' : work_queue'[i] # None,
               Len(work_queue') + idle_semaphore'
                  = Len(work_queue) + idle_semaphore
                    + Counts(at[w], IdleAt) - Counts(l, IdleAt)
                    - Counts(at[w], ReadyAt) + Counts(l, ReadyAt)
        PROVE  /\ Len(work_queue') + idle_semaphore' + Cardinality(WorkersAt(IdleAt)')
                    = Cardinality(WorkersAt(ReadyAt)') + (IF submitting' THEN 1 ELSE 0)
               /\ \A i \in DOMAIN work_queue' : work_queue'[i] # None
               /\ owed' = 0 /\ \A v \in threads' : at'[v] # "none"
    <3>1. /\ Cardinality(WorkersAt(IdleAt)') = Cardinality(WorkersAt(IdleAt))
               - Counts(at[w], IdleAt) + Counts(l, IdleAt)
          /\ Cardinality(WorkersAt(ReadyAt)') = Cardinality(WorkersAt(ReadyAt))
               - Counts(at[w], ReadyAt) + Counts(l, ReadyAt)
      BY <2>1, <2>2, CountMove
    <3>2. owed' = 0 /\ \A v \in threads' : at'[v] # "none"
      BY <1>0, <1>2, <2>1, <2>2
    <3>3. /\ Counts(at[w], IdleAt) \in Int /\ Counts(l, IdleAt) \in Int
          /\ Counts(at[w], ReadyAt) \in Int /\ Counts(l, ReadyAt) \in Int
      BY DEF Counts
    <3>4. /\ Len(work_queue) + idle_semaphore \in Int
          /\ Len(work_queue) + idle_semaphore + Cardinality(WorkersAt(IdleAt))
               = Cardinality(WorkersAt(ReadyAt)) + (IF submitting' THEN 1 ELSE 0)
          /\ (IF submitting' THEN 1 ELSE 0) \in Int
      BY <1>0, <1>2, <2>2
    <3>5. Len(work_queue') + idle_semaphore' + Cardinality(WorkersAt(IdleAt)')
            = Cardinality(WorkersAt(ReadyAt)') + (IF submitting' THEN 1 ELSE 0)
      <4>1. Len(work_queue') + idle_semaphore' = Len(work_queue) + idle_semaphore
                    + Counts(at[w], IdleAt) - Counts(l, IdleAt)
                    - Counts(at[w], ReadyAt) + Counts(l, ReadyAt)
        BY <2>2
      <4>2. /\ Len(work_queue') \in Int /\ idle_semaphore' \in Int
            /\ Len(work_queue) \in Int /\ idle_semaphore \in Int
            /\ Cardinality(WorkersAt(IdleAt)) \in Int /\ Cardinality(WorkersAt(ReadyAt)) \in Int
        BY <1>0, <1>3, <1>q
      <4>3. /\ Len(work_queue) + idle_semaphore + Cardinality(WorkersAt(IdleAt))
               = Cardinality(WorkersAt(ReadyAt)) + (IF submitting' THEN 1 ELSE 0)
            /\ (IF submitting' THEN 1 ELSE 0) \in Int
        BY <3>4
      <4> DEFINE a == Counts(at[w], IdleAt)
                 b == Counts(l, IdleAt)
                 c == Counts(at[w], ReadyAt)
                 d == Counts(l, ReadyAt)
                 i == Cardinality(WorkersAt(IdleAt))
                 r == Cardinality(WorkersAt(ReadyAt))
                 j == Cardinality(WorkersAt(IdleAt)')
                 q == Cardinality(WorkersAt(ReadyAt)')
                 s == (IF submitting' THEN 1 ELSE 0)
      <4>4. /\ a \in Int /\ b \in Int /\ c \in Int /\ d \in Int /\ s \in Int
            /\ i \in Int /\ r \in Int
        BY <4>2, <4>3, <3>3
      <4>5. j = i - a + b 
        BY <3>1
      <4>6. q = r - c + d
        BY <3>1
      <4>7. Len(work_queue) + idle_semaphore + i = r + s
        BY <4>3
      <4>8. Len(work_queue') + idle_semaphore' = Len(work_queue) + idle_semaphore + a - b - c + d
        BY <4>1
      <4> HIDE DEF a, b, c, d, i, r, j, q, s
      <4>9. Len(work_queue') + idle_semaphore' + j = q + s
        BY <4>2, <4>4, <4>5, <4>6, <4>7, <4>8
      <4> QED BY <4>9 DEF j, q, s
    <3> QED BY <2>2, <3>2, <3>5
  <2>3. CASE Initialize(w)
    <3>1. at[w] = "init" /\ at' = [at EXCEPT ![w] = "get"]
          /\ UNCHANGED <<owed, submitting, work_queue, idle_semaphore>>
      BY <1>0, <2>1, <2>3 DEF Initialize, GoTo, EndingAt, others
    <3>2. /\ Counts("init", IdleAt) = 0 /\ Counts("get", IdleAt) = 0
          /\ Counts("init", ReadyAt) = 1 /\ Counts("get", ReadyAt) = 1
      BY DEF Counts, IdleAt, ReadyAt
    <3>3. Len(work_queue') + idle_semaphore' = Len(work_queue) + idle_semaphore
              + Counts(at[w], IdleAt) - Counts("get", IdleAt)
              - Counts(at[w], ReadyAt) + Counts("get", ReadyAt)
      BY <1>0, <3>1, <3>2
    <3> QED BY <1>2, <2>2, <3>1, <3>3
  <2>4. CASE Get(w)
    <3>1. /\ at[w] = "get" /\ work_queue # <<>> /\ work_queue' = Tail(work_queue)
          /\ UNCHANGED <<owed, submitting, idle_semaphore>>
          /\ GoTo(w, IF Head(work_queue) = None THEN "none" ELSE "got")
      BY <2>4 DEF Get, others
    <3>2. /\ Len(work_queue') = Len(work_queue) - 1 /\ Head(work_queue) # None
          /\ \A i \in DOMAIN work_queue' : work_queue'[i] # None
      BY <1>0, <1>2, <3>1
    <3>3. at' = [at EXCEPT ![w] = "got"]
      BY <3>1, <3>2 DEF GoTo
    <3>4. /\ Counts("get", IdleAt) = 0 /\ Counts("got", IdleAt) = 0
          /\ Counts("get", ReadyAt) = 1 /\ Counts("got", ReadyAt) = 0
      BY DEF Counts, IdleAt, ReadyAt
    <3>5. Len(work_queue') + idle_semaphore' = Len(work_queue) + idle_semaphore
              + Counts(at[w], IdleAt) - Counts("got", IdleAt)
              - Counts(at[w], ReadyAt) + Counts("got", ReadyAt)
      BY <1>0, <3>1, <3>2, <3>4
    <3> QED BY <2>2, <3>1, <3>2, <3>3, <3>5
  <2>5. CASE Start(w)
    <3>1. at[w] = "got" /\ (at' = [at EXCEPT ![w] = "running"] \/ at' = [at EXCEPT ![w] = "idle"])
          /\ UNCHANGED <<owed, submitting, work_queue, idle_semaphore>>
      BY <2>5 DEF Start, GoTo, others
    <3>2. \A l \in {"got", "running", "idle"} : Counts(l, IdleAt) = Counts(l, ReadyAt)
                                               /\ Counts(l, IdleAt) \in Int
      BY DEF Counts, IdleAt, ReadyAt
    <3> QED BY <1>0, <1>2, <2>2, <3>1, <3>2
  <2>6. CASE Run(w) \/ CallBack(w)
    <3>1. /\ at[w] \in {"running", "called"}
          /\ at' = [at EXCEPT ![w] = "called"] \/ at' = [at EXCEPT ![w] = "idle"]
          /\ UNCHANGED <<owed, submitting, work_queue, idle_semaphore>>
      BY <2>6 DEF Run, CallBack, GoTo, others
    <3>2. \A l \in {"called", "running", "idle"} : Counts(l, IdleAt) = Counts(l, ReadyAt)
                                                  /\ Counts(l, IdleAt) \in Int
      BY DEF Counts, IdleAt, ReadyAt
    <3> QED BY <1>0, <1>2, <2>2, <3>1, <3>2
  <2>7. CASE ReleaseIdle(w)
    <3>1. /\ at[w] = "idle" /\ at' = [at EXCEPT ![w] = "get"] /\ ~collected
          /\ UNCHANGED <<owed, submitting, work_queue>>
          /\ idle_semaphore' = idle_semaphore + 1
      BY <1>1, <2>7 DEF ReleaseIdle, GoTo, others, MayGrow
    <3>2. /\ Counts("idle", IdleAt) = 1 /\ Counts("get", IdleAt) = 0
          /\ Counts("idle", ReadyAt) = 1 /\ Counts("get", ReadyAt) = 1
      BY DEF Counts, IdleAt, ReadyAt
    <3>3. Len(work_queue') + idle_semaphore' = Len(work_queue) + idle_semaphore
              + Counts(at[w], IdleAt) - Counts("get", IdleAt)
              - Counts(at[w], ReadyAt) + Counts("get", ReadyAt)
      BY <1>0, <3>1, <3>2
    <3> QED BY <1>2, <2>2, <3>1, <3>3
  <2>8. CASE NoneItem(w)
    BY <1>2, <2>1, <2>8 DEF NoneItem
  <2>9. CASE InitializerFailed(w) \/ Drain(w) \/ BreakItem(w) \/ BreakCallBack(w)
    BY <2>1, <2>9 DEF InitializerFailed, Drain, BreakItem, BreakCallBack, EndingAt
  <2> QED BY <1>4, <2>3, <2>4, <2>5, <2>6, <2>7, <2>8, <2>9 DEF WorkerStep
<1>5. CASE UNCHANGED <<at, threads, work_queue, idle_semaphore, submitting, owed>>
  BY <1>2, <1>5 DEF WorkersAt
<1>6. ASSUME NEW f \in Job, Submit(f)
      PROVE  /\ Len(work_queue') + idle_semaphore' + Cardinality(WorkersAt(IdleAt)')
                  = Cardinality(WorkersAt(ReadyAt)') + (IF submitting' THEN 1 ELSE 0)
             /\ \A i \in DOMAIN work_queue' : work_queue'[i] # None
             /\ owed' = 0 /\ \A v \in threads' : at'[v] # "none"
  <2>1. /\ UNCHANGED <<at, threads, idle_semaphore, owed>>
        /\ work_queue' = Append(work_queue, <<f>>) /\ submitting' = TRUE /\ lock = NoOne
    BY <1>6 DEF Submit, others
  <2>2. ~submitting
    BY <2>1, ThreadPoolAssumption DEF LockInv
  <2>3. /\ Len(work_queue') = Len(work_queue) + 1
        /\ \A i \in DOMAIN work_queue' : work_queue'[i] # None
    BY <1>0, <1>2, <2>1, QueueTypes
  <2>4. WorkersAt(IdleAt)' = WorkersAt(IdleAt) /\ WorkersAt(ReadyAt)' = WorkersAt(ReadyAt)
    BY <2>1 DEF WorkersAt
  <2> QED BY <1>0, <1>2, <1>3, <2>1, <2>2, <2>3, <2>4
<1>7. CASE AdjustThreadCount
  <2>1. /\ submitting /\ ~submitting' /\ UNCHANGED <<work_queue, owed, max_workers>>
    BY <1>7 DEF AdjustThreadCount, others
  <2>2. RoomForThread
    BY <1>1 DEF RoomForThread, MayGrow
  <2>3. CASE UNCHANGED <<at, threads>> /\ idle_semaphore > 0 /\ idle_semaphore' = idle_semaphore - 1
    <3>1. WorkersAt(IdleAt)' = WorkersAt(IdleAt) /\ WorkersAt(ReadyAt)' = WorkersAt(ReadyAt)
      BY <2>3 DEF WorkersAt
    <3> QED BY <1>0, <1>2, <1>3, <2>1, <2>3, <3>1
  <2>4. ASSUME NEW w \in Worker \ threads, threads' = threads \cup {w},
               at' = [at EXCEPT ![w] = "init"], idle_semaphore' = idle_semaphore
        PROVE  /\ Len(work_queue') + idle_semaphore' + Cardinality(WorkersAt(IdleAt)')
                    = Cardinality(WorkersAt(ReadyAt)') + (IF submitting' THEN 1 ELSE 0)
               /\ \A i \in DOMAIN work_queue' : work_queue'[i] # None
               /\ owed' = 0 /\ \A v \in threads' : at'[v] # "none"
    <3>1. WorkersAt(IdleAt)' = WorkersAt(IdleAt) /\ WorkersAt(ReadyAt)' = WorkersAt(ReadyAt) \cup {w}
      BY <1>0, <2>4 DEF WorkersAt, IdleAt, ReadyAt
    <3>2. IsFiniteSet(WorkersAt(ReadyAt)) /\ w \notin WorkersAt(ReadyAt)
      BY <1>0, ThreadPoolAssumption, FS_Subset, WorkersAt(ReadyAt) \subseteq Worker
         DEF WorkersAt
    <3>3. Cardinality(WorkersAt(ReadyAt)') = Cardinality(WorkersAt(ReadyAt)) + 1
      BY <3>1, <3>2, FS_AddElement
    <3>4. \A v \in threads' : at'[v] # "none"
      BY <1>0, <1>2, <2>4
    <3> QED BY <1>0, <1>2, <1>3, <2>1, <2>4, <3>1, <3>3, <3>4
  <2> QED BY <1>7, <2>2, <2>3, <2>4 DEF AdjustThreadCount
<1>8. CASE CloserStep
  BY <1>1, <1>8 DEF CloserStep, ShutdownDrain, ShutdownCancel, ShutdownPut, ShutdownJoin,
                    LockInv
<1>9. CASE Shutdown \/ PythonExit \/ Collect
  BY <1>9 DEF Shutdown, PythonExit, Collect, MayGrow
<1>10. CASE PutNone
  BY <1>2, <1>10 DEF PutNone
<1>11. CASE UNCHANGED pool \/ \E f \in Job : Cancel(f)
  BY <1>5, <1>11 DEF pool, Cancel, others
<1> QED BY <1>4, <1>6, <1>7, <1>8, <1>9, <1>10, <1>11 DEF Next, vars

------------------------------------------------------------------------------
(* Theorems                                                                *)

\* The inductive invariant of the pool.
PoolInv == /\ PoolTypeOK /\ FuturesInv /\ BornInv /\ PlaceInv /\ DebtInv
           /\ LockInv /\ GrowthInv

\* The pool starts empty.
LEMMA PoolInit == Init => PoolInv
<1> SUFFICES ASSUME Init PROVE PoolInv
  OBVIOUS
<1>1. FuturesInv
  BY FuturesInit1 DEF Init
<1>2. PoolTypeOK
  <2>1. /\ work_queue = <<>> /\ work_queue \in Seq({None} \cup {<<f>> : f \in Job})
        /\ at \in [Worker -> At] /\ lock \in Locker /\ closer \in Closer
        /\ item \in [Worker -> {None} \cup {<<f>> : f \in Job}]
        /\ closing \in {None} \cup {<<f>> : f \in Job}
    BY DEF Init, At, Locker, Closer
  <2>2. /\ max_workers \in 1 .. Cardinality(Worker) /\ ends \subseteq Ends
        /\ idle_semaphore \in Nat /\ threads \subseteq Worker /\ owed \in Nat
        /\ {broken, shutdown, collected, exiting, submitting, cancel_futures}
             \subseteq BOOLEAN
        /\ cancelling \subseteq Job
    BY DEF Init
  <2>3. shutdowns \in 0 .. MaxShutdowns
    BY ThreadPoolAssumption DEF Init
  <2> QED BY <1>1, <2>1, <2>2, <2>3 DEF FuturesInv, PoolTypeOK
<1>3. BornInv
  BY DEF Init, BornInv
<1>4. /\ \A f \in Job : state[f] = "none" /\ callback[f].at \in {"idle", "gone"}
                        /\ callback[f].calls = 0
      /\ work_queue = <<>> /\ cancelling = {} /\ closer = "idle"
      /\ \A w \in Worker : at[w] = "unborn"
  BY DEF Init, FuturesInit
<1>5. PlaceInv
  BY <1>4 DEF PlaceInv, PlaceOf, Holds, Runs, Closing, InQueue, OnceInQueue
<1>6. DebtInv
  BY <1>4 DEF DebtInv, DebtOf, Owes, CloserOwes
<1>7. LockInv
  BY ThreadPoolAssumption DEF Init, LockInv
<1>8. GrowthInv
  <2>1. WorkersAt(IdleAt) = {} /\ WorkersAt(ReadyAt) = {} /\ Cardinality({}) = 0
    BY FS_EmptySet DEF Init, WorkersAt
  <2> QED BY <2>1 DEF Init, GrowthInv
<1> QED BY <1>1, <1>2, <1>3, <1>5, <1>6, <1>7, <1>8 DEF PoolInv

\* PoolInv holds in every state.
LEMMA PoolInvariant == Spec => []PoolInv
<1>1. PoolInv /\ [Next]_vars => PoolInv'
  <2> SUFFICES ASSUME PoolInv, [Next]_vars PROVE PoolInv'
    OBVIOUS
  <2>1. FuturesInv' /\ FuturesTypeOK'
    BY FuturesStep, StateStep, ReaderStep, WaitStep, OtherTypes
       DEF PoolInv, FuturesInv, FuturesTypeOK, ReaderInv, WaitInv, WaiterType
  <2>2. PoolTypeOK'
    BY <2>1, PoolTypes DEF PoolInv
  <2> QED BY <2>1, <2>2, FuturesStep, BornStep, PlaceStep, DebtStep, LockStep, GrowStep
          DEF PoolInv
<1> QED BY <1>1, PoolInit, PTL DEF Spec

\* Every variable of the pool and of its futures keeps its type.
THEOREM PoolTypeCorrect == Spec => []PoolTypeOK
BY PoolInvariant, PTL DEF PoolInv

\* How many workers, or places in the queue, have an item.
LEMMA AtMostOne ==
  ASSUME NEW S, \A x, y \in S : x = y
  PROVE  Cardinality(S) = IF S = {} THEN 0 ELSE 1
<1>1. CASE S = {}
  BY <1>1, FS_EmptySet
<1>2. CASE S # {}
  <2>1. PICK x \in S : TRUE
    BY <1>2
  <2>2. S = {x}
    BY <2>1
  <2> QED BY <1>2, <2>2, FS_Singleton
<1> QED BY <1>1, <1>2

\* How often a work item is somewhere.
LEMMA PlacesOf ==
  ASSUME PlaceInv, PoolTypeOK, NEW f \in Job
  PROVE  /\ state[f] = "PENDING" => Places(f) = 1
         /\ state[f] = "RUNNING" => Places(f) = 1 /\ Held(f, {"running"}) = 1
         /\ state[f] = "CANCELLED" => Places(f) <= 1 /\ Held(f, {"running"}) = 0
         /\ state[f] \in Settled => Places(f) = 0
         /\ state[f] = "CANCELLED" /\ ~cancel_futures /\ ~broken => Places(f) = 1
<1> DEFINE q == {i \in DOMAIN work_queue : work_queue[i] = <<f>>}
           h == {w \in Worker : item[w] = <<f>> /\ at[w] \in InHand}
           r == {w \in Worker : item[w] = <<f>> /\ at[w] \in {"running"}}
<1>1. PlaceOf(f)
  BY DEF PlaceInv
<1>2. Queued(f) = IF InQueue(f) THEN 1 ELSE 0
  <2>1. (\A i, j \in q : i = j) /\ (q # {} <=> InQueue(f))
    BY <1>1 DEF PlaceOf, OnceInQueue, InQueue
  <2>2. Cardinality(q) = IF q = {} THEN 0 ELSE 1
    BY <2>1, AtMostOne
  <2> QED BY <2>1, <2>2 DEF Queued
<1>3. Held(f, InHand) = IF \E w \in Worker : Holds(w, f) THEN 1 ELSE 0
  <2>1. (\A v, w \in h : v = w) /\ (h # {} <=> \E w \in Worker : Holds(w, f))
    BY <1>1 DEF PlaceOf, Holds, InHand
  <2>2. Cardinality(h) = IF h = {} THEN 0 ELSE 1
    BY <2>1, AtMostOne
  <2> QED BY <2>1, <2>2 DEF Held
<1>4. Held(f, {"running"}) = IF \E w \in Worker : Runs(w, f) THEN 1 ELSE 0
  <2>1. (\A v, w \in r : v = w) /\ (r # {} <=> \E w \in Worker : Runs(w, f))
    BY <1>1 DEF PlaceOf, Holds, Runs
  <2>2. Cardinality(r) = IF r = {} THEN 0 ELSE 1
    BY <2>1, AtMostOne
  <2> QED BY <2>1, <2>2 DEF Held
<1>5. Places(f) = (IF InQueue(f) THEN 1 ELSE 0)
                  + (IF \E w \in Worker : Holds(w, f) THEN 1 ELSE 0)
                  + (IF Closing(f) THEN 1 ELSE 0)
  BY <1>2, <1>3 DEF Places, InHand, Closing
<1> QED BY <1>1, <1>4, <1>5 DEF PlaceOf, Settled

\* No job is lost and none is run twice, through shutdown, cancellation, exit,
\* garbage collection and broken initializers.
THEOREM JobsHaveOnePlace == Spec => []OnePlace
<1>1. PoolInv => OnePlace
  BY PlacesOf DEF PoolInv, OnePlace
<1> QED BY <1>1, PoolInvariant, PTL

\* A thread in wait() counts its unsettled futures exactly and returns with what it
\* asked for; what was cancelled stays with the pool until those who wait are told,
\* unless shutdown(cancel_futures=True) or a failed initializer throws it away.
THEOREM WaitersAreTold == Spec => []WaitCorrect
<1>1. PoolInv => CancelledIsNotified
  BY PlacesOf DEF PoolInv, CancelledIsNotified
<1> QED BY <1>1, PoolInvariant, WaitersCount, PTL DEF WaitCorrect

\* How many threads are about to call back for a future.
LEMMA DebtorsOf ==
  ASSUME NEW f \in Job, DebtOf(f), FuturesTypeOK
  PROVE  callback[f].at = "listed" /\ state[f] \in Done =>
           callback[f].calls + Debtors(f) = 1
<1> DEFINE o == {w \in Worker : item[w] = <<f>> /\ at[w] \in {"called", "told"}}
<1>1. (\A v, w \in o : v = w) /\ (o # {} <=> \E w \in Worker : Owes(w, f))
  BY DEF DebtOf, Owes
<1>2. Cardinality(o) = IF o = {} THEN 0 ELSE 1
  BY <1>1, AtMostOne
<1>3. Debtors(f) = (IF \E w \in Worker : Owes(w, f) THEN 1 ELSE 0)
                   + (IF CloserOwes(f) THEN 1 ELSE 0)
                   + (IF f \in cancelling THEN 1 ELSE 0)
  BY <1>1, <1>2 DEF Debtors, Held, CloserOwes
<1> QED BY <1>3 DEF DebtOf

\* Who asks a future for its end, by result() or by a callback, is told: nobody
\* sleeps on a done future, a callback is called once at most and after the end, and
\* a listed one has been called or is owed its call by exactly one thread.
THEOREM ClientsGetAnswers == Spec => []ClientsAnswered
<1>1. ASSUME DebtInv, FuturesTypeOK PROVE CallbackOnce
  BY <1>1 DEF DebtInv, DebtOf, CallbackOnce, FuturesTypeOK
<1>2. ASSUME DebtInv, FuturesTypeOK PROVE CallbackDue
  BY <1>2, DebtorsOf DEF DebtInv, CallbackDue
<1>3. PoolInv => ClientsAnswered
  BY <1>1, <1>2 DEF PoolInv, FuturesInv, ClientsAnswered
<1> QED BY <1>3, PoolInvariant, PTL

\* No item has to wait for a busy worker while the pool may start another one.
THEOREM PoolGrowsWhenBusy == Spec => []GrowsWhenBusy
<1>1. PoolInv => GrowsWhenBusy
  <2> SUFFICES ASSUME PoolInv, lock # "submit", MayGrow
               PROVE  Len(work_queue) <= Cardinality(WorkersAt(ReadyAt))
    BY DEF GrowsWhenBusy, MayGrow, WorkersAt, ReadyAt, EndingAt
  <2>1. /\ Len(work_queue) + idle_semaphore + Cardinality(WorkersAt(IdleAt))
             = Cardinality(WorkersAt(ReadyAt))
        /\ PoolTypeOK
    <3>1. ~submitting /\ PoolTypeOK
      BY DEF PoolInv, LockInv
    <3>2. Cardinality(WorkersAt(ReadyAt)) \in Nat
      BY <3>1, CountType
    <3> QED BY <3>1, <3>2 DEF PoolInv, GrowthInv
  <2>2. /\ Cardinality(WorkersAt(ReadyAt)) \in Nat /\ Cardinality(WorkersAt(IdleAt)) \in Nat
        /\ idle_semaphore \in Nat /\ Len(work_queue) \in Nat
    BY <2>1, CountType, QueueTypes DEF PoolTypeOK
  <2> QED BY <2>1, <2>2
<1> QED BY <1>1, PoolInvariant, PTL
==============================================================================
