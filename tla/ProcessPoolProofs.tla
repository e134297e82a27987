-------------------------- MODULE ProcessPoolProofs ---------------------------
(***************************************************************************)
(* Theorems about ProcessPool, for any jobs, any number of processes and   *)
(* any mishaps.                                                            *)
(***************************************************************************)
EXTENDS ProcessPool, FiniteSetTheorems, SequenceTheorems, TLAPS

\* A queue has f, and once at most.
In(f, s)   == \E i \in DOMAIN s : s[i] = f
Once(f, s) == \A i, j \in DOMAIN s : s[i] = f /\ s[j] = f => i = j

\* The places of a call, from the start of its future to its result.
InBuffer(f)  == In(f, buffer)
InPipe(f)    == In(f, pipe)
InProcess(f) == \E p \in Process : process[p] = f
InResults(f) == In(f, result_queue)
Received(f)  == result_item = f
Placed(f)    == InBuffer(f) \/ InPipe(f) \/ InProcess(f) \/ InResults(f) \/ Received(f)

OnlyInBuffer(f) ==
  InBuffer(f) => ~InPipe(f) /\ ~InProcess(f) /\ ~InResults(f) /\ ~Received(f)
OnlyInPipe(f) == InPipe(f) => ~InProcess(f) /\ ~InResults(f) /\ ~Received(f)
OnePlace(f) ==
  /\ Once(f, buffer) /\ Once(f, pipe) /\ Once(f, result_queue)
  /\ \A p, q \in Process : process[p] = f /\ process[q] = f => p = q
  /\ OnlyInBuffer(f) /\ OnlyInPipe(f)
  /\ InProcess(f) => ~InResults(f) /\ ~Received(f)
  /\ InResults(f) => ~Received(f)

SomeDead == \E p \in Process : process[p] = "dead"

\* The manager thread takes calls and results.
Works == manager \notin {"fail", "terminate", "stop", "done", "dead"}

\* A result could not be unpickled: the manager is about to break the pool.
Lost == "unpickle" \in mishaps /\ manager \in {"clear_broken", "broken"}

\* A call is in one place, its future is running and its item is in both dicts; a
\* future that runs without a call is about to fail, a process died with it, or its
\* result was lost.
CallOf(f) ==
  /\ OnePlace(f)
  /\ Placed(f) => /\ state[f] = "RUNNING" /\ f \in pending_work_items \cap Items
                  /\ f # feeding
  /\ state[f] = "PENDING" => f \in Items
  /\ state[f] = "RUNNING" => f = feeding \/ (f \in Items /\ (Placed(f) \/ SomeDead \/ Lost))
  /\ f = feeding => state[f] = "RUNNING"

\* What is still to be started is in the dict, once in the queue.
WorkOf(f) ==
  /\ Once(f, work_ids)
  /\ In(f, work_ids) => f \in Items /\ state[f] \in {"PENDING", "CANCELLED"}

\* What the flags say while the manager works.
FlagInv ==
  /\ ~broken /\ (shutdown => submitting = NoOne) /\ (rebound => work_ids = <<>>)
  /\ manager \in {"add_again", "check", "cancel"} => shutdown
  /\ manager \notin {"clear", "process"} => result_item = NoOne

CallInv == Works => FlagInv /\ \A f \in Job : CallOf(f) /\ WorkOf(f)

\* The clients of the futures are elsewhere.
ClientsAway == /\ \A r \in Reader : reader[r].at \in {"idle", "gone"}
               /\ \A w \in Waiter : waiter[w].at \in {"idle", "gone"}

\* The futures there are, in the order of the program, as those in the dicts are;
\* the next is not there before its item was entered.
Created == {f \in Job : state[f] # "none"}
OrderInv ==
  /\ pending_work_items \cup new_items \cup listed \cup todo \subseteq Created
  /\ feeding \in Created \cup {NoOne}
  /\ _queue_count \in 0 .. Len(order)
  /\ Created = {order[i] : i \in 1 .. _queue_count}
  /\ IF entered THEN submitting \in Created
     ELSE submitting # NoOne =>
            _queue_count < Len(order) /\ submitting = order[_queue_count + 1]

\* What holds wherever the manager is.
AlwaysInv ==
  /\ manager = "none" => Processes = {}
  /\ manager \in {"fail", "terminate", "stop", "done"} \/ rebound \/ cancel_pending
       \/ broken => shutdown
  /\ shutdown => submitting \in {NoOne, late}
  /\ ~broken => late = NoOne
  /\ cancel_pending \/ rebound \/ manager = "cancel" => "drain" \in mishaps
  /\ feeder = "idle" => feeding = NoOne

BaseInv == ProcessPoolTypeOK /\ ClientsAway /\ OrderInv /\ AlwaysInv

PoolInv == BaseInv /\ CallInv

\* The futures that are to be finished, and those that submit() entered too late.
Unfinished == {f \in Job : state[f] \in {"PENDING", "RUNNING"}}
Overtaken  == {f \in Job : Late(f)}
CancelledOnes == {f \in Job : state[f] \in Cancelled}
Open == {f \in Job : state[f] \notin {"none", "FINISHED"}}

\* The errors the manager thread may die of.
MayDie == \/ broken /\ (CancelledOnes # {} \/ late # NoOne \/ "pickle" \in mishaps)
          \/ {"drain", "pickle"} \subseteq mishaps

\* How the manager thread comes to its end.
EndInv ==
  /\ manager = "cancel" => Items = listed \/ "pickle" \in mishaps
  /\ manager = "fail" => broken /\ Unfinished \subseteq todo \cup {feeding} \cup Overtaken
  /\ manager = "terminate" => broken /\ (Processes = sentinels \/ late # NoOne)
  /\ manager \in {"terminate", "stop"} => Unfinished \subseteq {feeding} \cup Overtaken
  /\ manager = "done" =>
       Alive = {} /\ submitting = NoOne /\ Unfinished \subseteq Overtaken
  /\ manager = "dead" => MayDie
  /\ "pickle" \notin mishaps =>
       /\ feeder = "idle"
       /\ Works => Items \subseteq Open
       /\ manager = "fail" => (Items = listed \/ late # NoOne) /\ todo \subseteq Open

------------------------------------------------------------------------------
(* Queues                                                                  *)

\* Append() adds an element at the end.
LEMMA InAppend ==
  ASSUME NEW S, NEW s \in Seq(S), NEW x \in S, NEW f
  PROVE  /\ Append(s, x) \in Seq(S)
         /\ In(f, Append(s, x)) <=> In(f, s) \/ x = f
         /\ Once(f, s) /\ ~(In(f, s) /\ x = f) => Once(f, Append(s, x))
<1> DEFINE t == Append(s, x)
<1>1. /\ t \in Seq(S) /\ Len(s) \in Nat /\ DOMAIN s = 1 .. Len(s)
      /\ DOMAIN t = 1 .. (Len(s) + 1)
      /\ \A i \in 1 .. Len(s) : t[i] = s[i]
      /\ t[Len(s) + 1] = x
  OBVIOUS
<1> HIDE DEF t
<1>2. In(f, t) <=> In(f, s) \/ x = f
  BY <1>1 DEF In
<1>3. ASSUME Once(f, s), ~(In(f, s) /\ x = f) PROVE Once(f, t)
  <2> SUFFICES ASSUME NEW i \in DOMAIN t, NEW j \in DOMAIN t, t[i] = f, t[j] = f
               PROVE  i = j
    BY DEF Once
  <2>1. CASE x = f
    BY <1>1, <1>3, <2>1 DEF In
  <2>2. CASE x # f
    BY <1>1, <1>3, <2>2 DEF Once
  <2> QED BY <2>1, <2>2
<1> QED BY <1>1, <1>2, <1>3 DEF t

\* Head() and Tail() are what is in a queue.
LEMMA InTail ==
  ASSUME NEW S, NEW s \in Seq(S), s # <<>>, NEW f
  PROVE  /\ Head(s) \in S /\ Tail(s) \in Seq(S)
         /\ In(f, s) <=> In(f, Tail(s)) \/ Head(s) = f
         /\ Once(f, s) => Once(f, Tail(s)) /\ ~(In(f, Tail(s)) /\ Head(s) = f)
<1> DEFINE t == Tail(s)
<1>1. /\ t \in Seq(S) /\ Head(s) \in S /\ Len(s) \in Nat \ {0}
      /\ DOMAIN s = 1 .. Len(s) /\ DOMAIN t = 1 .. (Len(s) - 1)
      /\ \A i \in 1 .. (Len(s) - 1) : t[i] = s[i + 1]
      /\ s[1] = Head(s)
  OBVIOUS
<1> HIDE DEF t
<1>2. ASSUME In(f, t) PROVE In(f, s)
  <2>1. PICK i \in 1 .. (Len(s) - 1) : t[i] = f
    BY <1>1, <1>2 DEF In
  <2>2. i + 1 \in DOMAIN s /\ s[i + 1] = f
    BY <1>1, <2>1
  <2> QED BY <2>2 DEF In
<1>3. ASSUME In(f, s), Head(s) # f PROVE In(f, t)
  <2>1. PICK i \in 1 .. Len(s) : s[i] = f
    BY <1>1, <1>3 DEF In
  <2>2. i \in Nat /\ i # 1 /\ i >= 1 /\ i <= Len(s)
    BY <1>1, <1>3, <2>1
  <2>3. i - 1 \in 1 .. (Len(s) - 1) /\ (i - 1) + 1 = i
    BY <1>1, <2>2
  <2>4. t[i - 1] = s[(i - 1) + 1]
    BY <1>1, <2>3
  <2>5. t[i - 1] = f
    BY <2>1, <2>3, <2>4
  <2> QED BY <1>1, <2>3, <2>5 DEF In
<1>4. Head(s) = f => In(f, s)
  BY <1>1 DEF In
<1>5. ASSUME Once(f, s) PROVE Once(f, t) /\ ~(In(f, t) /\ Head(s) = f)
  <2>1. ASSUME NEW i \in DOMAIN t, NEW j \in DOMAIN t, t[i] = f, t[j] = f PROVE i = j
    <3>1. /\ i + 1 \in DOMAIN s /\ j + 1 \in DOMAIN s
          /\ s[i + 1] = f /\ s[j + 1] = f
      BY <1>1, <2>1
    <3>2. i + 1 = j + 1
      BY <1>5, <3>1 DEF Once
    <3> QED BY <1>1, <3>2
  <2>2. ASSUME In(f, t), Head(s) = f PROVE FALSE
    <3>1. PICK i \in DOMAIN t : t[i] = f
      BY <2>2 DEF In
    <3>2. i + 1 \in DOMAIN s /\ s[i + 1] = f /\ 1 \in DOMAIN s
      BY <1>1, <3>1
    <3>3. i + 1 = 1
      BY <1>1, <1>5, <2>2, <3>2 DEF Once
    <3> QED BY <1>1, <3>1, <3>3
  <2> QED BY <2>1, <2>2 DEF Once
<1> QED BY <1>1, <1>2, <1>3, <1>4, <1>5 DEF t

\* What is put into a queue, and what is taken from it, is of one type.
LEMMA QueueType ==
  ASSUME NEW S, NEW s \in Seq(S)
  PROVE  /\ \A x \in S : Append(s, x) \in Seq(S)
         /\ s # <<>> => Head(s) \in S /\ Tail(s) \in Seq(S)
OBVIOUS

\* Nothing is in an empty queue.
LEMMA InEmpty == \A f : ~In(f, <<>>) /\ Once(f, <<>>)
BY DEF In, Once

\* What is in a queue is one of its elements.
LEMMA InType ==
  ASSUME NEW S, NEW s \in Seq(S), NEW f, In(f, s)
  PROVE  f \in S
BY DEF In

\* A value that is once in a queue is there as often as In() says.
LEMMA CountOnce ==
  ASSUME NEW s, NEW f, Once(f, s)
  PROVE  Cardinality({i \in DOMAIN s : s[i] = f}) = IF In(f, s) THEN 1 ELSE 0
<1>1. CASE In(f, s)
  <2>1. PICK i \in DOMAIN s : s[i] = f
    BY <1>1 DEF In
  <2>2. {j \in DOMAIN s : s[j] = f} = {i}
    BY <2>1 DEF Once
  <2> QED BY <1>1, <2>2, FS_Singleton
<1>2. CASE ~In(f, s)
  <2>1. {j \in DOMAIN s : s[j] = f} = {}
    BY <1>2 DEF In
  <2> QED BY <1>2, <2>1, FS_EmptySet
<1> QED BY <1>1, <1>2

------------------------------------------------------------------------------
(* Processes                                                               *)

\* A finite set has subsets of every smaller size.
LEMMA SubsetOfSize ==
  ASSUME NEW S, IsFiniteSet(S), NEW n \in 0 .. Cardinality(S)
  PROVE  \E T \in SUBSET S : Cardinality(T) = n
<1> DEFINE m == Cardinality(S)
<1>1. m \in Nat
  BY FS_CardinalityType
<1>2. PICK b \in Bijection(1 .. m, S) : TRUE
  BY FS_CardinalityType DEF ExistsBijection
<1>3. /\ b \in [1 .. m -> S]
      /\ \A i, j \in 1 .. m : b[i] = b[j] => i = j
  BY <1>2 DEF Bijection, Injection, Surjection, IsInjective
<1> DEFINE T == {b[i] : i \in 1 .. n}
           c == [i \in 1 .. n |-> b[i]]
<1>4. T \subseteq S
  BY <1>1, <1>3
<1>5. c \in Bijection(1 .. n, T)
  BY <1>1, <1>3 DEF Bijection, Injection, Surjection, IsInjective
<1>6. n \in Nat /\ IsFiniteSet(1 .. n) /\ Cardinality(1 .. n) = n
  BY <1>1, FS_Interval
<1>7. Cardinality(T) = n
  BY <1>5, <1>6, FS_Bijection DEF ExistsBijection
<1> QED BY <1>4, <1>7

\* submit() starts processes that were not there, and changes no other.
LEMMA Started ==
  ASSUME ProcessPoolTypeOK, AlwaysInv, AdjustProcessCount
  PROVE  /\ process' \in [Process -> Job \cup Idle] /\ idle_semaphore' \in Nat
         /\ \A p \in Process : \/ process'[p] = process[p]
                               \/ process[p] = "none" /\ process'[p] = "init"
<1>0. /\ process \in [Process -> Job \cup Idle] /\ idle_semaphore \in Nat
      /\ max_workers \in 1 .. Cardinality(Process)
  BY DEF ProcessPoolTypeOK
<1>1. ASSUME NEW n \in 0 .. Cardinality(Process \ Processes), Spawn(n)
      PROVE  /\ process' \in [Process -> Job \cup Idle]
             /\ \A p \in Process : \/ process'[p] = process[p]
                                   \/ process[p] = "none" /\ process'[p] = "init"
  <2> DEFINE F == Process \ Processes
             T == CHOOSE S \in SUBSET F : Cardinality(S) = n
  <2>1. IsFiniteSet(F)
    BY ProcessPoolAssumption, FS_Subset
  <2>2. \E S \in SUBSET F : Cardinality(S) = n
    BY <2>1, SubsetOfSize
  <2>3. T \in SUBSET F
    BY <2>2
  <2>4. process' = [p \in Process |-> IF p \in T THEN "init" ELSE process[p]]
    BY <1>1 DEF Spawn
  <2> HIDE DEF T
  <2> QED BY <1>0, <2>3, <2>4 DEF Processes, Idle
<1>2. IsFiniteSet(Process) /\ IsFiniteSet(Processes)
      /\ Cardinality(Process \ Processes) = Cardinality(Process) - Cardinality(Processes)
      /\ Cardinality(Process) \in Nat /\ Cardinality(Processes) \in Nat
  <2>1. IsFiniteSet(Process) /\ Processes \subseteq Process
    BY ProcessPoolAssumption DEF Processes
  <2>2. Process \cap Processes = Processes
    BY <2>1
  <2>3. IsFiniteSet(Processes)
    BY <2>1, FS_Subset
  <2>4. Cardinality(Process) \in Nat /\ Cardinality(Processes) \in Nat
    BY <2>1, <2>3, FS_CardinalityType
  <2>5. Cardinality(Process \ Processes) = Cardinality(Process) - Cardinality(Processes)
    BY <2>1, <2>2, FS_Difference
  <2> QED BY <2>1, <2>3, <2>4, <2>5
<1>3. CASE dynamic /\ idle_semaphore > 0
           /\ idle_semaphore' = idle_semaphore - 1 /\ UNCHANGED process
  BY <1>0, <1>3
<1>4. CASE UNCHANGED <<idle_semaphore, process>>
  BY <1>0, <1>4
<1>5. CASE UNCHANGED idle_semaphore /\ Cardinality(Processes) < max_workers /\ Spawn(1)
  <2>1. 1 \in 0 .. Cardinality(Process \ Processes)
    BY <1>0, <1>2, <1>5
  <2> QED BY <1>0, <1>1, <1>5, <2>1
<1>6. CASE UNCHANGED idle_semaphore /\ manager = "none" /\ Spawn(max_workers)
  <2>1. Cardinality(Processes) = 0
    BY <1>6, FS_EmptySet DEF AlwaysInv
  <2>2. max_workers \in 0 .. Cardinality(Process \ Processes)
    BY <1>0, <1>2, <2>1
  <2> QED BY <1>0, <1>1, <1>6, <2>2
<1> QED BY <1>3, <1>4, <1>5, <1>6 DEF AdjustProcessCount

------------------------------------------------------------------------------
(* Where the calls are                                                     *)

\* No step changes what the pool was made with.
LEMMA ConfigStep == [Next]_vars => UNCHANGED config
BY DEF Next, vars, Submit, Enter, Launch, Cancel, Shutdown, Joined, Feed, FeederError,
       Manager, AddCallItem, Watch, Wait_, Receive, Flag, Changed, CancelItems, Check,
       Break, FailItems, Terminate, JoinExecutor, Work, Crash, outside, unmanaged, config

\* The manager does not come back from its end.
LEMMA WorksBefore == [Next]_vars /\ Works' => Works
BY DEF Works, Next, vars, Submit, Enter, Launch, Cancel, Shutdown, Joined, Feed,
       FeederError, Manager, AddCallItem, Watch, Wait_, Receive, Flag, Changed,
       CancelItems, Check, Break, FailItems, Terminate, JoinExecutor, Work, Crash,
       outside, To

\* A manager that lost a result goes on to break the pool.
LEMMA LostStep == [Next]_vars /\ Works' /\ Lost => Lost'
<1> SUFFICES ASSUME [Next]_vars, Works', Lost PROVE Lost'
  OBVIOUS
<1>1. UNCHANGED mishaps
  BY ConfigStep DEF config
<1>2. manager' \in {"clear_broken", "broken"}
  BY DEF Lost, Works, Next, vars, Submit, Enter, Launch, Cancel, Shutdown, Joined, Feed,
         FeederError, Manager, AddCallItem, Watch, Wait_, Receive, Flag, Changed,
         CancelItems, Check, Break, FailItems, Terminate, JoinExecutor, Work, Crash,
         outside, Loop, To
<1> QED BY <1>1, <1>2 DEF Lost

\* What a step does not touch.
LEMMA Untouched ==
  ASSUME CallInv, Works, Lost => Lost', NEW f \in Job,
         UNCHANGED <<state, items, queues, process, result_item, feeding>>
  PROVE  CallOf(f)' /\ WorkOf(f)'
BY DEF CallInv, CallOf, WorkOf, OnePlace, OnlyInBuffer, OnlyInPipe, Placed, InBuffer,
       InPipe, InProcess, InResults, Received, SomeDead, In, Once, Items, items, queues

\* The feeder thread moves a call on.
LEMMA FeedCalls ==
  ASSUME PoolInv, Works, Lost => Lost', Feed, NEW f \in Job
  PROVE  CallOf(f)' /\ WorkOf(f)'
<1>1. /\ buffer \in Seq(Job \cup {Stop}) /\ pipe \in Seq(Job \cup {Stop})
      /\ buffer # <<>> /\ buffer' = Tail(buffer) /\ pipe' = Append(pipe, Head(buffer))
  BY DEF Feed, PoolInv, BaseInv, ProcessPoolTypeOK
<1>2. /\ UNCHANGED <<state, pending_work_items, new_items, rebound, work_ids>>
      /\ UNCHANGED <<result_queue, process, result_item, feeding>>
  BY DEF Feed, futures, items, outside, local, feed
<1>3. CallOf(f) /\ WorkOf(f)
  BY DEF PoolInv, CallInv
<1>4. /\ InBuffer(f) <=> In(f, Tail(buffer)) \/ Head(buffer) = f
      /\ Once(f, buffer) => /\ Once(f, buffer')
                            /\ ~(In(f, Tail(buffer)) /\ Head(buffer) = f)
      /\ In(f, pipe') <=> InPipe(f) \/ Head(buffer) = f
      /\ Once(f, pipe) /\ ~(InPipe(f) /\ Head(buffer) = f) => Once(f, pipe')
  BY <1>1, InTail, InAppend DEF InBuffer, InPipe
<1> QED BY <1>1, <1>2, <1>3, <1>4
           DEF CallOf, WorkOf, OnePlace, OnlyInBuffer, OnlyInPipe, Placed, InBuffer,
               InPipe, InProcess, InResults, Received, SomeDead, Items

\* The feeder thread takes a call that cannot be sent, and fails its future.
LEMMA FeederErrorCalls ==
  ASSUME PoolInv, Works, Lost => Lost', FeederError, NEW f \in Job
  PROVE  CallOf(f)' /\ WorkOf(f)'
<1> USE DEF CallOf, WorkOf, OnePlace, OnlyInBuffer, OnlyInPipe, Placed, InBuffer,
            InPipe, InProcess, InResults, Received, SomeDead, Items
<1>1. CallOf(f) /\ WorkOf(f)
  BY DEF PoolInv, CallInv
<1>2. /\ UNCHANGED <<new_items, rebound, work_ids, pipe, result_queue, process>>
      /\ UNCHANGED result_item
  BY DEF FeederError, outside, local
<1>3. /\ buffer \in Seq(Job \cup {Stop}) /\ state \in [Job -> State]
      /\ feeding \in Job \cup {NoOne} /\ NoOne \notin Job
  BY ProcessPoolAssumption DEF PoolInv, BaseInv, ProcessPoolTypeOK, FuturesTypeOK
<1>4. CASE feeder = "idle"
  <2> DEFINE h == Head(buffer)
  <2>1. /\ buffer # <<>> /\ buffer' = Tail(buffer) /\ UNCHANGED state
        /\ feeding = NoOne /\ feeding' = IF h \in pending_work_items THEN h ELSE NoOne
        /\ pending_work_items' = pending_work_items \ {h}
    BY <1>4 DEF FeederError, futures, PoolInv, BaseInv, AlwaysInv
  <2>2. /\ In(f, buffer) <=> In(f, Tail(buffer)) \/ h = f
        /\ Once(f, buffer) => Once(f, buffer') /\ ~(In(f, Tail(buffer)) /\ h = f)
    BY <1>3, <2>1, InTail
  <2> QED BY <1>1, <1>2, <1>3, <2>1, <2>2
<1>5. CASE feeder = "popped"
  BY <1>1, <1>2, <1>5 DEF FeederError, futures
<1>6. CASE feeder = "failing"
  <2>1. /\ UNCHANGED <<pending_work_items, buffer>> /\ feeding' = NoOne
        /\ IF feeding = NoOne THEN UNCHANGED state
           ELSE state' = [state EXCEPT ![feeding] = "FINISHED"]
    BY <1>6 DEF FeederError, Finish, futures
  <2> QED BY <1>1, <1>2, <1>3, <2>1
<1> QED BY <1>4, <1>5, <1>6 DEF FeederError

\* A process takes a call and puts its result, or dies with it.
LEMMA WorkCalls ==
  ASSUME PoolInv, Works, Lost => Lost', NEW p \in Process, Work(p) \/ Crash(p),
         NEW f \in Job
  PROVE  CallOf(f)' /\ WorkOf(f)'
<1> USE DEF CallOf, WorkOf, OnePlace, OnlyInBuffer, OnlyInPipe, Placed, InBuffer,
            InPipe, InResults, Received, SomeDead, Items
<1>1. CallOf(f) /\ WorkOf(f)
  BY DEF PoolInv, CallInv
<1>2. /\ UNCHANGED <<state, pending_work_items, new_items, rebound, work_ids, buffer>>
      /\ UNCHANGED <<result_item, feeding>>
  BY DEF Work, Crash, outside, local, feed, futures, items, queues
<1>3. /\ pipe \in Seq(Job \cup {Stop}) /\ result_queue \in Seq(Job)
      /\ process \in [Process -> Job \cup Idle]
      /\ f \notin Idle /\ "dead" \in Idle /\ Stop \notin Job /\ Idle \cap Job = {}
  BY ProcessPoolAssumption DEF PoolInv, BaseInv, ProcessPoolTypeOK, Idle
<1>4. CASE process[p] = "init" /\ Becomes(p, "idle") /\ UNCHANGED <<pipe, result_queue>>
  BY <1>1, <1>2, <1>3, <1>4 DEF Becomes, InProcess, Idle
<1>5. CASE /\ process[p] = "idle" /\ pipe # <<>> /\ pipe' = Tail(pipe)
           /\ Becomes(p, IF Head(pipe) = Stop THEN "dead" ELSE Head(pipe))
           /\ UNCHANGED result_queue
  <2> DEFINE h == Head(pipe)
  <2>1. /\ h \in Job \cup {Stop}
        /\ In(f, pipe) <=> In(f, Tail(pipe)) \/ h = f
        /\ Once(f, pipe) => Once(f, pipe') /\ ~(In(f, Tail(pipe)) /\ h = f)
    BY <1>3, <1>5, InTail
  <2>2. /\ process'[p] = IF h = Stop THEN "dead" ELSE h
        /\ \A q \in Process \ {p} : process'[q] = process[q]
    BY <1>3, <1>5 DEF Becomes
  <2>3. /\ InProcess(f)' <=> InProcess(f) \/ h = f
        /\ h # f => \A q \in Process : process'[q] = f <=> process[q] = f
        /\ SomeDead => SomeDead'
    BY <1>3, <1>5, <2>2 DEF InProcess, Idle
  <2>4. h = f => \A q \in Process : process'[q] = f => q = p
    BY <1>1, <1>5, <2>1, <2>2 DEF InProcess
  <2>5. \A q, r \in Process : process'[q] = f /\ process'[r] = f => q = r
    BY <1>1, <2>3, <2>4
  <2> HIDE DEF SomeDead
  <2> QED BY <1>1, <1>2, <1>5, <2>1, <2>3, <2>5
<1>6. CASE /\ process[p] \in Job /\ Becomes(p, "idle") /\ UNCHANGED pipe
           /\ result_queue' = Append(result_queue, process[p])
  <2> DEFINE g == process[p]
  <2>1. /\ In(f, result_queue') <=> In(f, result_queue) \/ g = f
        /\ Once(f, result_queue) /\ ~(In(f, result_queue) /\ g = f)
             => Once(f, result_queue')
    BY <1>3, <1>6, InAppend
  <2>2. process'[p] = "idle" /\ \A q \in Process \ {p} : process'[q] = process[q]
    BY <1>3, <1>6 DEF Becomes
  <2>3. /\ InProcess(f) <=> InProcess(f)' \/ g = f
        /\ g = f => ~InProcess(f)'
        /\ SomeDead => SomeDead'
        /\ \A q, r \in Process : process'[q] = f /\ process'[r] = f => q = r
    BY <1>1, <1>3, <1>6, <2>2 DEF InProcess, Idle
  <2> HIDE DEF SomeDead
  <2> QED BY <1>1, <1>2, <1>6, <2>1, <2>3
<1>7. CASE Crash(p)
  <2>1. /\ process'[p] = "dead" /\ UNCHANGED <<pipe, result_queue>>
        /\ \A q \in Process \ {p} : process'[q] = process[q]
    BY <1>3, <1>7 DEF Crash, Becomes, queues
  <2>2. /\ SomeDead'
        /\ InProcess(f)' => InProcess(f)
        /\ \A q, r \in Process : process'[q] = f /\ process'[r] = f => q = r
    BY <1>1, <1>3, <2>1 DEF InProcess
  <2> HIDE DEF SomeDead
  <2> QED BY <1>1, <1>2, <2>1, <2>2
<1> QED BY <1>4, <1>5, <1>6, <1>7 DEF Work

\* The future of submit() is not there before its item is entered.
LEMMA NotYetCreated ==
  ASSUME BaseInv, NEW f \in Job, Enter(f)
  PROVE  f \notin Created
<1>1. submitting = f /\ f # NoOne /\ ~entered
  BY ProcessPoolAssumption DEF Enter
<1>2. /\ _queue_count \in 0 .. Len(order) /\ _queue_count < Len(order)
      /\ f = order[_queue_count + 1] /\ Created = {order[i] : i \in 1 .. _queue_count}
      /\ order \in Seq(Job) /\ IsInjective(order)
  BY <1>1, ProcessPoolAssumption DEF BaseInv, OrderInv, ProcessPoolTypeOK
<1> QED BY <1>2 DEF IsInjective

\* submit() enters an item for a future that was not there.
LEMMA EnterCalls ==
  ASSUME PoolInv, Works, Lost => Lost', NEW g \in Job, Enter(g), NEW f \in Job
  PROVE  CallOf(f)' /\ WorkOf(f)'
<1> USE DEF CallOf, WorkOf, OnePlace, OnlyInBuffer, OnlyInPipe, Placed, InBuffer,
            InPipe, InResults, Received, Items
<1>1. CallOf(f) /\ WorkOf(f)
  BY DEF PoolInv, CallInv
<1>2. /\ UNCHANGED <<new_items, rebound, buffer, pipe, result_queue>>
      /\ UNCHANGED <<result_item, feeding>>
      /\ state' = [state EXCEPT ![g] = "PENDING"] /\ state \in [Job -> State]
      /\ pending_work_items' = pending_work_items \cup {g} /\ UNCHANGED process
      /\ work_ids' = Append(work_ids, g) /\ work_ids \in Seq(Job)
  BY DEF Enter, Create, local, feed, PoolInv, BaseInv, ProcessPoolTypeOK, FuturesTypeOK
<1>3. state[g] = "none" /\ ~rebound
  <2>1. g \notin Created /\ submitting # NoOne
    BY NotYetCreated, ProcessPoolAssumption DEF PoolInv, Enter
  <2> QED BY <2>1 DEF Created, PoolInv, BaseInv, AlwaysInv, CallInv, FlagInv
<1>4. /\ In(f, work_ids') <=> In(f, work_ids) \/ g = f
      /\ Once(f, work_ids) /\ ~(In(f, work_ids) /\ g = f) => Once(f, work_ids')
  BY <1>2, InAppend
<1> HIDE DEF In, Once
<1> QED BY <1>1, <1>2, <1>3, <1>4 DEF InProcess, SomeDead

\* submit() starts processes.
LEMMA LaunchCalls ==
  ASSUME PoolInv, Works, Lost => Lost', Launch, NEW f \in Job
  PROVE  CallOf(f)' /\ WorkOf(f)'
<1>1. CallOf(f) /\ WorkOf(f)
  BY DEF PoolInv, CallInv
<1>2. UNCHANGED <<state, items, queues, result_item, feeding>>
  BY DEF Launch, futures, local, feed
<1>3. \A p \in Process : \/ process'[p] = process[p]
                         \/ process[p] = "none" /\ process'[p] = "init"
  BY Started DEF PoolInv, BaseInv, Launch
<1>4. f \notin Idle
  BY ProcessPoolAssumption
<1>5. /\ InProcess(f)' <=> InProcess(f)
      /\ SomeDead => SomeDead'
      /\ \A q, r \in Process : process'[q] = f /\ process'[r] = f => q = r
  BY <1>1, <1>3, <1>4 DEF CallOf, OnePlace, InProcess, SomeDead, Idle
<1> QED BY <1>1, <1>2, <1>5
           DEF CallOf, WorkOf, OnePlace, OnlyInBuffer, OnlyInPipe, Placed, InBuffer,
               InPipe, InResults, Received, In, Once, Items, items, queues

\* A pending future is cancelled; a reader or a waiter is not concerned.
LEMMA CancelCalls ==
  ASSUME PoolInv, Works, Lost => Lost', NEW g \in Job, NEW f \in Job,
         CancelPending(g), UNCHANGED <<items, queues, process, result_item, feeding>>
  PROVE  CallOf(f)' /\ WorkOf(f)'
<1>1. CallOf(f) /\ WorkOf(f)
  BY DEF PoolInv, CallInv
<1>2. /\ state[g] = "PENDING" /\ state' = [state EXCEPT ![g] = "CANCELLED"]
      /\ state \in [Job -> State]
  BY DEF CancelPending, PoolInv, BaseInv, ProcessPoolTypeOK, FuturesTypeOK
<1>3. \/ state'[f] = state[f]
      \/ state[f] = "PENDING" /\ state'[f] = "CANCELLED"
  BY <1>2
<1> QED BY <1>1, <1>3
           DEF CallOf, WorkOf, OnePlace, OnlyInBuffer, OnlyInPipe, Placed, InBuffer,
               InPipe, InProcess, InResults, Received, SomeDead, Items, items, queues

\* The manager puts a call into the queue, or drops one that was cancelled.
LEMMA AddCalls ==
  ASSUME PoolInv, Works, Lost => Lost', NEW here, NEW l, AddCallItem(here, l),
         NEW f \in Job
  PROVE  CallOf(f)' /\ WorkOf(f)'
<1> USE DEF CallOf, WorkOf, OnePlace, OnlyInBuffer, OnlyInPipe, Placed, InBuffer,
            InPipe, InProcess, InResults, Received, SomeDead, Items
<1> DEFINE h == Head(work_ids)
<1>1. CallOf(f) /\ WorkOf(f)
  BY DEF PoolInv, CallInv
<1>2. /\ UNCHANGED <<pipe, result_queue, process, result_item, feeding>>
      /\ work_ids \in Seq(Job) /\ buffer \in Seq(Job \cup {Stop})
      /\ state \in [Job -> State]
  BY DEF AddCallItem, queues, local, unmanaged, feed, PoolInv, BaseInv,
         ProcessPoolTypeOK, FuturesTypeOK
<1>3. CASE UNCHANGED <<state, items, queues>>
  BY <1>2, <1>3, Untouched DEF PoolInv
<1>4. CASE /\ work_ids # <<>> /\ work_ids' = Tail(work_ids) /\ SetRunning(h)
           /\ buffer' = Append(buffer, h) /\ UNCHANGED items
  <2>1. /\ h \in Job
        /\ In(f, work_ids) <=> In(f, Tail(work_ids)) \/ h = f
        /\ Once(f, work_ids) => /\ Once(f, work_ids')
                                /\ ~(In(f, Tail(work_ids)) /\ h = f)
    BY <1>2, <1>4, InTail
  <2>2. /\ In(f, buffer') <=> In(f, buffer) \/ h = f
        /\ Once(f, buffer) /\ ~(In(f, buffer) /\ h = f) => Once(f, buffer')
    BY <1>2, <1>4, <2>1, InAppend
  <2>3. state[h] = "PENDING" /\ state' = [state EXCEPT ![h] = "RUNNING"]
    BY <1>4 DEF SetRunning
  <2>4. \/ h # f /\ state'[f] = state[f]
        \/ h = f /\ state[f] = "PENDING" /\ state'[f] = "RUNNING"
    BY <1>2, <2>1, <2>3
  <2>5. ~rebound
    BY <1>4 DEF PoolInv, CallInv, FlagInv
  <2> QED BY <1>1, <1>2, <1>4, <2>1, <2>2, <2>4, <2>5 DEF items
<1>5. CASE /\ work_ids # <<>> /\ work_ids' = Tail(work_ids) /\ NotifyCancel(h)
           /\ WithoutItem(h) /\ UNCHANGED buffer
  <2>1. /\ h \in Job
        /\ In(f, work_ids) <=> In(f, Tail(work_ids)) \/ h = f
        /\ Once(f, work_ids) => /\ Once(f, work_ids')
                                /\ ~(In(f, Tail(work_ids)) /\ h = f)
    BY <1>2, <1>5, InTail
  <2>2. /\ state[h] = "CANCELLED"
        /\ state' = [state EXCEPT ![h] = "CANCELLED_AND_NOTIFIED"]
    BY <1>5 DEF NotifyCancel
  <2>3. \/ h # f /\ state'[f] = state[f]
        \/ h = f /\ state[f] = "CANCELLED" /\ state'[f] = "CANCELLED_AND_NOTIFIED"
    BY <1>2, <2>1, <2>2
  <2> QED BY <1>1, <1>2, <1>5, <2>1, <2>3 DEF WithoutItem
<1> QED BY <1>3, <1>4, <1>5 DEF AddCallItem, futures

\* The manager takes a result from the queue.
LEMMA WaitCalls ==
  ASSUME PoolInv, Works, Lost => Lost', Wait_, NEW f \in Job
  PROVE  CallOf(f)' /\ WorkOf(f)'
<1> USE DEF CallOf, WorkOf, OnePlace, OnlyInBuffer, OnlyInPipe, Placed, InBuffer,
            InPipe, InProcess, InResults, Received, SomeDead, Items
<1>1. CallOf(f) /\ WorkOf(f)
  BY DEF PoolInv, CallInv
<1>2. /\ UNCHANGED <<state, pending_work_items, new_items, rebound, work_ids>>
      /\ UNCHANGED <<buffer, pipe, process, feeding>>
      /\ result_queue \in Seq(Job) /\ result_item = NoOne /\ f # NoOne
  BY ProcessPoolAssumption DEF Wait_, items, unmanaged, feed, futures, PoolInv, BaseInv,
     ProcessPoolTypeOK, CallInv, FlagInv
<1>3. CASE UNCHANGED <<result_item, result_queue>>
  BY <1>1, <1>2, <1>3
<1>4. CASE /\ result_queue # <<>> /\ result_queue' = Tail(result_queue)
           /\ \/ result_item' = Head(result_queue)
              \/ UNCHANGED result_item /\ Lost'
  <2>1. /\ In(f, result_queue) <=> In(f, Tail(result_queue)) \/ Head(result_queue) = f
        /\ Once(f, result_queue) =>
             /\ Once(f, result_queue')
             /\ ~(In(f, Tail(result_queue)) /\ Head(result_queue) = f)
    BY <1>2, <1>4, InTail
  <2> QED BY <1>1, <1>2, <1>4, <2>1
<1>5. UNCHANGED mishaps
  BY DEF Wait_, unmanaged, config
<1> QED BY <1>3, <1>4, <1>5 DEF Wait_, Lost, To

\* The manager finishes the future of a result.
LEMMA ReceiveCalls ==
  ASSUME PoolInv, Works, Lost => Lost', Receive, NEW f \in Job
  PROVE  CallOf(f)' /\ WorkOf(f)'
<1> USE DEF CallOf, WorkOf, OnePlace, OnlyInBuffer, OnlyInPipe, Placed, InBuffer,
            InPipe, InProcess, InResults, Received, SomeDead, Items
<1> DEFINE g == result_item
<1>1. CallOf(f) /\ WorkOf(f)
  BY DEF PoolInv, CallInv
<1>2. /\ UNCHANGED <<work_ids, buffer, pipe, result_queue, process, feeding>>
      /\ state \in [Job -> State]
  BY DEF Receive, queues, unmanaged, feed, PoolInv, BaseInv, ProcessPoolTypeOK,
         FuturesTypeOK
<1>3. CASE UNCHANGED <<futures, items, result_item>>
  BY <1>1, <1>2, <1>3 DEF futures, items
<1>4. CASE /\ g \in Job /\ WithoutItem(g) /\ result_item' = NoOne
           /\ IF g \in Items THEN Finish(g, "result") ELSE UNCHANGED futures
  <2>1. CallOf(g) /\ WorkOf(g)
    BY <1>4 DEF PoolInv, CallInv
  <2>2. state' = [state EXCEPT ![g] = "FINISHED"] /\ state[g] = "RUNNING"
    BY <1>4, <2>1 DEF Finish
  <2>3. IF f = g THEN state'[f] = "FINISHED" ELSE state'[f] = state[f]
    BY <1>2, <2>2
  <2>4. NoOne \notin Job
    BY ProcessPoolAssumption
  <2> QED BY <1>1, <1>2, <1>4, <2>2, <2>3, <2>4 DEF WithoutItem
<1> QED BY <1>3, <1>4 DEF Receive

\* The manager cancels futures, and binds its dict anew.
LEMMA CancelItemsCalls ==
  ASSUME PoolInv, Works, Lost => Lost', CancelItems, NEW f \in Job
  PROVE  CallOf(f)' /\ WorkOf(f)'
<1>1. /\ UNCHANGED <<buffer, pipe, result_queue, process, result_item, feeding>>
  BY DEF CancelItems, unmanaged, feed
<1>2. CASE todo = {}
  <2>1. CallOf(f) /\ WorkOf(f)
    BY DEF PoolInv, CallInv
  <2>2. /\ state' = state /\ pending_work_items' = pending_work_items
        /\ work_ids' = <<>> /\ rebound' = TRUE
        /\ new_items' = {g \in Items : state[g] \notin Cancelled}
    BY <1>2 DEF CancelItems, Drained, futures
  <2>3. ~In(f, work_ids') /\ Once(f, work_ids')
    BY <2>2, InEmpty
  <2> QED BY <1>1, <2>1, <2>2, <2>3
             DEF CallOf, WorkOf, OnePlace, OnlyInBuffer, OnlyInPipe, Placed, InBuffer,
                 InPipe, InProcess, InResults, Received, SomeDead, Items, Cancelled
<1>3. ASSUME NEW g \in todo, CancelPending(g) \/ UNCHANGED futures,
             UNCHANGED <<manager, items, work_ids, cancel_pending>>
      PROVE  CallOf(f)' /\ WorkOf(f)'
  <2>1. todo \subseteq Job
    BY DEF PoolInv, BaseInv, ProcessPoolTypeOK
  <2>2. UNCHANGED <<items, queues, process, result_item, feeding>>
    BY <1>1, <1>3 DEF queues
  <2>3. CASE UNCHANGED futures
    BY <2>2, <2>3, Untouched DEF futures, PoolInv
  <2> QED BY <1>3, <2>1, <2>2, <2>3, CancelCalls
<1> QED BY <1>2, <1>3 DEF CancelItems

\* The places of the calls, after any step the manager goes on from.
LEMMA CallsStep ==
  ASSUME PoolInv, [Next]_vars, Works', NEW f \in Job
  PROVE  CallOf(f)' /\ WorkOf(f)'
<1>1. Works /\ (Lost => Lost')
  BY WorksBefore, LostStep
<1> USE <1>1
<1>2. ASSUME NEW g \in Job, Submit(g) \/ Enter(g) \/ Cancel(g)
      PROVE  CallOf(f)' /\ WorkOf(f)'
  BY <1>2, Untouched, EnterCalls, CancelCalls
     DEF PoolInv, Submit, Cancel, futures, local, feed
<1>3. CASE Launch \/ Feed \/ FeederError
  BY <1>3, LaunchCalls, FeedCalls, FeederErrorCalls
<1>4. ASSUME NEW p \in Process, Work(p) \/ Crash(p) PROVE CallOf(f)' /\ WorkOf(f)'
  BY <1>4, WorkCalls
<1>5. CASE AddCallItem("add", "watch") \/ AddCallItem("add_again", "check")
  BY <1>5, AddCalls
<1>6. CASE Wait_ \/ Receive \/ CancelItems
  BY <1>6, WaitCalls, ReceiveCalls, CancelItemsCalls
<1>7. CASE Shutdown \/ Joined \/ Watch \/ Flag \/ Check
  <2>1. UNCHANGED <<state, items, queues, process, result_item, feeding>>
    BY <1>7 DEF Shutdown, Joined, Watch, Flag, Check, futures, unmanaged, feed, local
  <2> QED BY <2>1, Untouched DEF PoolInv
<1>8. CASE Changed \/ Break \/ FailItems \/ Terminate \/ JoinExecutor
  BY <1>8 DEF Changed, Break, FailItems, Terminate, JoinExecutor, Loop, To, Works
<1>9. CASE UNCHANGED vars
  BY <1>9, Untouched DEF vars, futures, local, feed, PoolInv
<1> QED BY <1>2, <1>3, <1>4, <1>5, <1>6, <1>7, <1>8, <1>9 DEF Next, Manager

------------------------------------------------------------------------------
(* Types, the flags and the order of the futures                           *)

\* What the pool does to a future in a step concerns no other and no client.
LEMMA FuturesKept ==
  ASSUME FuturesTypeOK, ClientsAway, NEW f \in Job, NEW how,
         \/ Create(f) \/ Finish(f, how) \/ CancelPending(f) \/ NotifyCancel(f)
         \/ SetRunning(f)
  PROVE  /\ FuturesTypeOK' /\ ClientsAway'
         /\ \A g \in Job \ {f} : state'[g] = state[g]
         /\ state'[f] # "none"
<1>1. /\ reader \in [Reader -> [at : {"gone", "idle", "asleep", "awake", "expired",
                                      "answered", "TimeoutError"}, of : SUBSET Job]]
      /\ waiter = [w \in Waiter |-> waiter[w]]
      /\ state \in [Job -> State] /\ failed \subseteq Job
  BY DEF FuturesTypeOK
<1>2. reader' = reader
  <2>1. CASE NotifyAll(f)
    BY <1>1, <2>1 DEF NotifyAll, ClientsAway
  <2> QED BY <2>1 DEF Create, Finish, CancelPending, NotifyCancel, SetRunning
<1>3. waiter' = waiter
  <2>1. ASSUME NEW h, NotifyWaiters(f, h) PROVE waiter' = waiter
    <3>1. waiter' = [w \in Waiter |-> waiter[w]]
      BY <2>1 DEF NotifyWaiters, ClientsAway
    <3> QED BY <1>1, <3>1
  <2> QED BY <2>1 DEF Create, Finish, CancelPending, NotifyCancel, SetRunning
<1>4. callback' = callback /\ failed' \subseteq Job
  BY <1>1 DEF Create, Finish, CancelPending, NotifyCancel, SetRunning
<1>5. \E s \in State \ {"none"} :
        state' = [state EXCEPT ![f] = s]
  BY DEF Create, Finish, CancelPending, NotifyCancel, SetRunning, State, Done, Cancelled,
         Settled
<1> QED BY <1>1, <1>2, <1>3, <1>4, <1>5 DEF FuturesTypeOK, ClientsAway

\* A step that finishes, cancels or starts a future, or notes that it is cancelled.
Changes(f) == \/ Finish(f, "result") \/ Finish(f, "exception") \/ CancelPending(f)
              \/ NotifyCancel(f) \/ SetRunning(f)

\* Only submit() creates a future; whatever else is done is done to one there is.
LEMMA FuturesStep ==
  ASSUME BaseInv, [Next]_vars
  PROVE  \/ \E f \in Job : Enter(f)
         \/ \E f \in Created : Changes(f)
         \/ UNCHANGED futures
<1> USE DEF Changes, Created
<1>1. /\ work_ids \in Seq(Job) /\ feeding \in Created \cup {NoOne}
      /\ Items \cup todo \subseteq Created
  BY DEF BaseInv, OrderInv, ProcessPoolTypeOK, Items
<1>2. CASE FeederError
  BY <1>1, <1>2 DEF FeederError
<1>3. ASSUME NEW here, NEW l, AddCallItem(here, l)
      PROVE  (\E f \in Created : Changes(f)) \/ UNCHANGED futures
  <2>1. CASE work_ids # <<>> /\ (SetRunning(Head(work_ids)) \/ NotifyCancel(Head(work_ids)))
    <3>1. Head(work_ids) \in Job
      BY <1>1, <2>1, InTail
    <3> QED BY <2>1, <3>1 DEF SetRunning, NotifyCancel
  <2> QED BY <1>3, <2>1 DEF AddCallItem
<1>4. CASE Receive \/ CancelItems \/ FailItems
  BY <1>1, <1>4 DEF Receive, CancelItems, FailItems
<1>5. ASSUME NEW f \in Job, Submit(f) \/ Cancel(f)
      PROVE  (\E g \in Created : Changes(g)) \/ UNCHANGED futures
  BY <1>5 DEF Submit, Cancel, CancelPending
<1>6. ASSUME \/ Launch \/ Shutdown \/ Joined \/ Feed \/ Watch \/ Wait_ \/ Flag
             \/ Changed \/ Check \/ Break \/ Terminate \/ JoinExecutor \/ UNCHANGED vars
             \/ \E p \in Process : Work(p) \/ Crash(p)
      PROVE  UNCHANGED futures
  BY <1>6 DEF Launch, Shutdown, Joined, Feed, Watch, Wait_, Flag, Changed, Check, Break,
              Terminate, JoinExecutor, Work, Crash, vars
<1> QED BY <1>2, <1>3, <1>4, <1>5, <1>6 DEF Next, Manager

\* The futures keep their types, and those that are there stay there.
LEMMA FuturesInv ==
  ASSUME BaseInv, [Next]_vars
  PROVE  /\ FuturesTypeOK' /\ ClientsAway'
         /\ \A f \in Job : Enter(f) => Created' = Created \cup {f}
         /\ (\A f \in Job : ~Enter(f)) => Created' = Created
<1>1. FuturesTypeOK /\ ClientsAway /\ state \in [Job -> State]
  BY DEF BaseInv, ProcessPoolTypeOK, FuturesTypeOK
<1>2. ASSUME NEW f \in Job, Enter(f)
      PROVE  FuturesTypeOK' /\ ClientsAway' /\ Created' = Created \cup {f}
  <2>1. Create(f)
    BY <1>2 DEF Enter
  <2>2. FuturesTypeOK' /\ ClientsAway'
    BY <1>1, <2>1, FuturesKept
  <2>3. state' = [state EXCEPT ![f] = "PENDING"]
    BY <2>1 DEF Create
  <2> QED BY <1>1, <2>2, <2>3 DEF Created
<1>3. ASSUME NEW f \in Created, Changes(f)
      PROVE  FuturesTypeOK' /\ ClientsAway' /\ Created' = Created
  <2>1. f \in Job
    BY DEF Created
  <2>2. /\ FuturesTypeOK' /\ ClientsAway' /\ state'[f] # "none"
        /\ \A g \in Job \ {f} : state'[g] = state[g]
    BY <1>1, <1>3, <2>1, FuturesKept DEF Changes
  <2> QED BY <2>1, <2>2 DEF Created
<1>4. ASSUME UNCHANGED futures
      PROVE  FuturesTypeOK' /\ ClientsAway' /\ Created' = Created
  BY <1>1, <1>4 DEF futures, FuturesTypeOK, ClientsAway, Created
<1> QED BY <1>2, <1>3, <1>4, FuturesStep

\* The next future is the next of the program.
LEMMA OrderStep ==
  ASSUME BaseInv, [Next]_vars
  PROVE  OrderInv'
<1>1. /\ order \in Seq(Job) /\ IsInjective(order) /\ UNCHANGED order
      /\ IsFiniteSet(Created) /\ _queue_count = Cardinality(Created)
      /\ _queue_count' = Cardinality(Created')
  <2>1. order \in Seq(Job) /\ IsInjective(order)
    BY ProcessPoolAssumption DEF BaseInv, ProcessPoolTypeOK
  <2>2. UNCHANGED order
    BY ConfigStep DEF config
  <2>3. IsFiniteSet(Created)
    BY FuturesAssumption, FS_Subset DEF Created
  <2> QED BY <2>1, <2>2, <2>3 DEF _queue_count, Created
<1>2. /\ _queue_count \in 0 .. Len(order) /\ Len(order) \in Nat
      /\ Created = {order[i] : i \in 1 .. _queue_count}
      /\ IF entered THEN submitting \in Created
         ELSE submitting # NoOne =>
                _queue_count < Len(order) /\ submitting = order[_queue_count + 1]
      /\ NoOne \notin Created
  BY <1>1, ProcessPoolAssumption DEF BaseInv, OrderInv, Created
<1>3. ASSUME NEW f \in Job, Enter(f), Created' = Created \cup {f} PROVE OrderInv'
  <2>1. f # NoOne /\ submitting = f /\ submitting' = f /\ ~entered /\ entered'
    BY <1>3, ProcessPoolAssumption DEF Enter
  <2>2. _queue_count < Len(order) /\ f = order[_queue_count + 1]
    BY <1>2, <2>1
  <2>3. f \notin Created
    BY <1>3, NotYetCreated
  <2>4. _queue_count' = _queue_count + 1
    BY <1>1, <1>3, <2>3, FS_AddElement
  <2>5. Created' = {order[i] : i \in 1 .. _queue_count'}
    BY <1>2, <1>3, <2>2, <2>4
  <2>6. /\ pending_work_items' \cup new_items' \cup listed' \cup todo' \subseteq Created'
        /\ feeding' \in Created' \cup {NoOne}
    BY <1>3 DEF Enter, local, feed, BaseInv, OrderInv
  <2>7. _queue_count' \in 0 .. Len(order)
    BY <1>2, <2>2, <2>4
  <2>8. entered' /\ submitting' \in Created'
    BY <1>3, <2>1
  <2> QED BY <1>1, <2>5, <2>6, <2>7, <2>8 DEF OrderInv
<1>4. CASE Created' = Created /\ \A f \in Job : ~Enter(f)
  <2>1. _queue_count' = _queue_count
    BY <1>1, <1>4
  <2>2. IF entered' THEN submitting' \in Created
        ELSE submitting' # NoOne =>
               _queue_count < Len(order) /\ submitting' = order[_queue_count + 1]
    <3>1. ASSUME NEW f \in Job, Submit(f)
          PROVE  /\ ~entered /\ UNCHANGED entered
                 /\ _queue_count < Len(order) /\ submitting' = order[_queue_count + 1]
      BY <1>2, <3>1 DEF Submit
    <3>2. CASE Launch
      BY <3>2 DEF Launch
    <3>3. \/ \E f \in Job : Submit(f)
          \/ Launch \/ UNCHANGED <<submitting, entered>>
      BY <1>4
         DEF Next, vars, Cancel, Shutdown, Joined, Feed, FeederError, Manager,
             AddCallItem, Watch, Wait_, Receive, Flag, Changed, CancelItems, Check, Break,
             FailItems, Terminate, JoinExecutor, Work, Crash, outside, unmanaged, lock
    <3> QED BY <1>2, <3>1, <3>2, <3>3
  <2>3. /\ pending_work_items' \subseteq pending_work_items
        /\ new_items' \subseteq new_items \cup listed
        /\ listed' \cup todo' \subseteq listed \cup todo \cup Items
    BY <1>4
       DEF Next, vars, Submit, Launch, Cancel, Shutdown, Joined, Feed, FeederError, Manager,
           AddCallItem, Watch, Wait_, Receive, Flag, Changed, CancelItems, Check, Break,
           FailItems, Terminate, JoinExecutor, Work, Crash, outside, unmanaged, items,
           local, Loop, WithoutItem
  <2>4. feeding' \in {feeding, NoOne} \cup pending_work_items
    BY <1>4
       DEF Next, vars, Submit, Launch, Cancel, Shutdown, Joined, Feed, FeederError, Manager,
           AddCallItem, Watch, Wait_, Receive, Flag, Changed, CancelItems, Check, Break,
           FailItems, Terminate, JoinExecutor, Work, Crash, outside, unmanaged, feed
  <2>5. /\ pending_work_items \cup new_items \cup listed \cup todo \cup Items
             \subseteq Created
        /\ feeding \in Created \cup {NoOne}
    BY DEF BaseInv, OrderInv, Items
  <2>6. /\ pending_work_items' \cup new_items' \cup listed' \cup todo' \subseteq Created'
        /\ feeding' \in Created' \cup {NoOne}
    BY <1>4, <2>3, <2>4, <2>5
  <2>7. Created' = {order'[i] : i \in 1 .. _queue_count'}
    BY <1>1, <1>2, <1>4, <2>1
  <2> QED BY <1>1, <1>2, <2>1, <2>2, <2>6, <2>7 DEF OrderInv
<1> QED BY <1>3, <1>4, FuturesInv

\* The types of what is the pool's own.
QueueTypes ==
  /\ work_ids \in Seq(Job) /\ result_queue \in Seq(Job)
  /\ buffer \in Seq(Job \cup {Stop}) /\ pipe \in Seq(Job \cup {Stop})
  /\ process \in [Process -> Job \cup Idle] /\ sentinels \subseteq Process
  /\ idle_semaphore \in Nat /\ unsent \in Nat
FlagTypes ==
  /\ {rebound, broken, shutdown, cancel_pending, wakeup, entered} \subseteq BOOLEAN
  /\ {submitting, late, result_item} \subseteq Job \cup {NoOne}
  /\ manager \in {"none", "add", "watch", "wait", "clear", "clear_broken", "process",
                  "flag", "cancel", "add_again", "check", "broken", "fail",
                  "terminate", "stop", "done", "dead"}
  /\ feeder \in {"idle", "popped", "failing"}
  /\ closer \in {"idle", "join", "returned"}

\* The queues and the processes hold what they should.
LEMMA QueueTypesStep ==
  ASSUME BaseInv, [Next]_vars
  PROVE  QueueTypes'
<1>1. QueueTypes
  BY DEF BaseInv, ProcessPoolTypeOK, QueueTypes
<1> USE DEF QueueTypes
<1>2. ASSUME NEW f \in Job, Submit(f) \/ Cancel(f) PROVE QueueTypes'
  BY <1>1, <1>2 DEF Submit, Cancel, queues, local
<1>3. ASSUME NEW f \in Job, Enter(f) PROVE QueueTypes'
  BY <1>1, <1>3, QueueType DEF Enter, local
<1>3a. CASE Launch
  <2>1. process' \in [Process -> Job \cup Idle] /\ idle_semaphore' \in Nat
    BY <1>3a, Started DEF Launch, BaseInv
  <2> QED BY <1>1, <1>3a, <2>1 DEF Launch, local, queues
<1>4. CASE Feed
  BY <1>1, <1>4, QueueType DEF Feed, outside, local
<1>5. CASE FeederError
  <2>1. /\ UNCHANGED <<work_ids, result_queue, pipe, process, sentinels>>
        /\ UNCHANGED <<idle_semaphore, unsent>>
        /\ buffer' = buffer \/ (buffer # <<>> /\ buffer' = Tail(buffer))
    BY <1>5 DEF FeederError, outside, local
  <2>2. buffer # <<>> => Tail(buffer) \in Seq(Job \cup {Stop})
    BY <1>1, QueueType
  <2>3. buffer' \in Seq(Job \cup {Stop})
    BY <1>1, <2>1, <2>2
  <2> QED BY <1>1, <2>1, <2>3
<1>6. ASSUME NEW p \in Process, Work(p) \/ Crash(p) PROVE QueueTypes'
  <2>1. CASE Crash(p)
    BY <1>1, <2>1 DEF Crash, Becomes, Idle, outside, local, queues
  <2>2. CASE Work(p)
    <3>1. /\ UNCHANGED <<work_ids, buffer, sentinels, idle_semaphore, unsent>>
          /\ \/ result_queue' = result_queue
             \/ process[p] \in Job /\ result_queue' = Append(result_queue, process[p])
      BY <2>2 DEF Work, outside, local
    <3>4. result_queue' \in Seq(Job)
      BY <1>1, <3>1, QueueType
    <3>2. pipe # <<>> => Head(pipe) \in Job \cup {Stop} /\ Tail(pipe) \in Seq(Job \cup {Stop})
      BY <1>1, QueueType
    <3>3. pipe' \in Seq(Job \cup {Stop}) /\ process' \in [Process -> Job \cup Idle]
      BY <1>1, <2>2, <3>2 DEF Work, Becomes, Idle
    <3> QED BY <1>1, <3>1, <3>3, <3>4
  <2> QED BY <1>6, <2>1, <2>2
<1>7. ASSUME NEW here, NEW l, AddCallItem(here, l) PROVE QueueTypes'
  <2>1. work_ids # <<>> => Head(work_ids) \in Job /\ Tail(work_ids) \in Seq(Job)
    BY <1>1, QueueType
  <2>2. work_ids # <<>> => Append(buffer, Head(work_ids)) \in Seq(Job \cup {Stop})
    BY <1>1, <2>1, QueueType
  <2> QED BY <1>1, <1>7, <2>1, <2>2 DEF AddCallItem, local, queues
<1>8. CASE Watch
  BY <1>1, <1>8 DEF Watch, queues, Sentinels, Processes
<1>9. CASE Wait_
  <2>1. /\ UNCHANGED <<work_ids, buffer, pipe, process, sentinels, idle_semaphore, unsent>>
        /\ \/ result_queue' = result_queue
           \/ result_queue # <<>> /\ result_queue' = Tail(result_queue)
    BY <1>9 DEF Wait_
  <2>2. result_queue' \in Seq(Job)
    BY <1>1, <2>1, QueueType
  <2> QED BY <1>1, <2>1, <2>2
<1>10. CASE Receive
  BY <1>1, <1>10 DEF Receive, queues
<1>11. CASE Flag \/ Changed \/ Break \/ Shutdown \/ Joined \/ UNCHANGED vars
  BY <1>1, <1>11 DEF Flag, Changed, Break, Shutdown, Joined, vars, queues, local
<1>12. CASE CancelItems
  <2>1. /\ UNCHANGED <<result_queue, buffer, pipe, process, sentinels, idle_semaphore, unsent>>
        /\ work_ids' = work_ids \/ work_ids' = <<>>
    BY <1>12 DEF CancelItems, Drained
  <2>2. <<>> \in Seq(Job)
    OBVIOUS
  <2>3. work_ids' \in Seq(Job)
    BY <1>1, <2>1, <2>2
  <2> QED BY <1>1, <2>1, <2>3
<1>13. CASE Check \/ Terminate
  <2>1. Cardinality(Alive) \in Nat
    BY ProcessPoolAssumption, FS_Subset, FS_CardinalityType DEF Alive, Processes
  <2>2. CASE Check
    BY <1>1, <2>1, <2>2 DEF Check, queues
  <2>3. CASE Terminate
    <3>1. UNCHANGED <<queues, sentinels, idle_semaphore>> /\ unsent' \in {unsent, Cardinality(Alive)}
      BY <2>3 DEF Terminate
    <3>2. process' \in [Process -> Job \cup Idle]
      BY <1>1, <2>3 DEF Terminate, Becomes, Idle
    <3> QED BY <1>1, <2>1, <3>1, <3>2 DEF queues
  <2> QED BY <1>13, <2>2, <2>3
<1>14. CASE FailItems
  BY <1>1, <1>14 DEF FailItems, queues, Processes
<1>15. CASE JoinExecutor
  <2>1. /\ UNCHANGED <<work_ids, result_queue, pipe, process, sentinels, idle_semaphore>>
        /\ \/ UNCHANGED <<buffer, unsent>>
           \/ unsent > 0 /\ unsent' = unsent - 1 /\ buffer' = Append(buffer, Stop)
    BY <1>15 DEF JoinExecutor
  <2>2. Append(buffer, Stop) \in Seq(Job \cup {Stop})
    BY <1>1, QueueType
  <2>3. unsent' \in Nat
    BY <1>1, <2>1
  <2> QED BY <1>1, <2>1, <2>2, <2>3
<1> QED BY <1>2, <1>3, <1>3a, <1>4, <1>5, <1>6, <1>7, <1>8, <1>9, <1>10, <1>11, <1>12,
           <1>13, <1>14, <1>15 DEF Next, Manager

\* The flags and the places of the threads.
LEMMA FlagTypesStep ==
  ASSUME BaseInv, [Next]_vars
  PROVE  FlagTypes'
<1>1. FlagTypes /\ result_queue \in Seq(Job)
  BY DEF BaseInv, ProcessPoolTypeOK, FlagTypes
<1> USE DEF FlagTypes
<1>2. ASSUME NEW f \in Job, Submit(f) \/ Enter(f) \/ Cancel(f) PROVE FlagTypes'
  BY <1>1, <1>2 DEF Submit, Enter, Cancel, items, flags, lock, local, feed
<1>2a. CASE Launch
  BY <1>1, <1>2a DEF Launch, items, flags, local, feed
<1>3. ASSUME \/ Feed \/ FeederError \/ UNCHANGED vars
             \/ \E p \in Process : Work(p) \/ Crash(p)
      PROVE  FlagTypes'
  BY <1>1, <1>3 DEF Feed, FeederError, Work, Crash, vars, outside, items, flags, lock, local,
                    feed
<1>4. CASE Shutdown \/ Joined
  BY <1>1, <1>4 DEF Shutdown, Joined, items, flags, lock, local, feed
<1>5. CASE AddCallItem("add", "watch") \/ AddCallItem("add_again", "check")
  BY <1>1, <1>5 DEF AddCallItem, WithoutItem, To, items, flags, lock, local, unmanaged, feed
<1>6. CASE Wait_
  BY <1>1, <1>6, InTail DEF Wait_, To, items, flags, lock, unmanaged, feed
<1>7. CASE Receive
  BY <1>1, <1>7 DEF Receive, WithoutItem, To, items, flags, lock, unmanaged, feed
<1>8. CASE Watch \/ Flag \/ Changed \/ CancelItems \/ Check
  BY <1>1, <1>8 DEF Watch, Flag, Changed, CancelItems, Check, Loop, To, AfterFlag, items,
                    flags, lock, unmanaged, feed, local
<1>9. CASE Break \/ FailItems \/ Terminate \/ JoinExecutor
  BY <1>1, <1>9 DEF Break, FailItems, Terminate, JoinExecutor, Loop, To, items, flags, lock,
                    unmanaged, feed
<1> QED BY <1>2, <1>2a, <1>3, <1>4, <1>5, <1>6, <1>7, <1>8, <1>9 DEF Next, Manager

\* The types are kept.
LEMMA TypeStep ==
  ASSUME BaseInv, [Next]_vars
  PROVE  ProcessPoolTypeOK'
<1>1. max_workers \in 1 .. Cardinality(Process) /\ dynamic \in BOOLEAN /\ order \in Orders
  BY DEF BaseInv, ProcessPoolTypeOK
<1>2. UNCHANGED <<max_workers, dynamic, order>>
  BY ConfigStep DEF config
<1>3. /\ UNION {pending_work_items, new_items, listed, todo}' \subseteq Job
      /\ feeding' \in Job \cup {NoOne}
  BY OrderStep DEF OrderInv, Created
<1> QED BY <1>1, <1>2, <1>3, FuturesInv, QueueTypesStep, FlagTypesStep
           DEF ProcessPoolTypeOK, QueueTypes, FlagTypes

\* What holds wherever the manager is.
LEMMA AlwaysStep ==
  ASSUME BaseInv, CallInv, [Next]_vars
  PROVE  AlwaysInv'
<1> USE DEF AlwaysInv
<1>1. /\ AlwaysInv /\ {cancel_pending, shutdown, broken} \subseteq BOOLEAN
      /\ UNCHANGED mishaps /\ NoOne \notin Job
  BY ConfigStep, ProcessPoolAssumption DEF BaseInv, ProcessPoolTypeOK, config
<1>2. ASSUME NEW f \in Job, Submit(f) \/ Enter(f) \/ Cancel(f) PROVE AlwaysInv'
  BY <1>1, <1>2 DEF Submit, Enter, Cancel, Processes, items, flags, lock, local, feed
<1>3. CASE Launch
  BY <1>1, <1>3 DEF Launch, items, flags, local, feed
<1>4. ASSUME NEW p \in Process, Work(p) \/ Crash(p) PROVE AlwaysInv'
  <2>1. Processes = {} => FALSE
    BY <1>4, ProcessPoolAssumption DEF Work, Crash, Processes, Idle
  <2> QED BY <1>1, <1>4, <2>1 DEF Work, Crash, outside, items, flags, lock, local, feed
<1>5. CASE Feed \/ FeederError \/ UNCHANGED vars
  BY <1>1, <1>5 DEF Feed, FeederError, vars, Processes, outside, items, flags, lock, local,
                    feed
<1>6. CASE Shutdown \/ Joined
  <2>1. /\ UNCHANGED <<manager, process, rebound, feeder, feeding, broken, late, submitting>>
        /\ \/ UNCHANGED <<shutdown, cancel_pending>>
           \/ /\ shutdown' = TRUE /\ (cancel_pending' => "drain" \in mishaps)
              /\ submitting = NoOne
    BY <1>6 DEF Shutdown, Joined, items, flags, lock, feed
  <2> QED BY <1>1, <2>1 DEF Processes
<1>7. CASE AddCallItem("add", "watch") \/ AddCallItem("add_again", "check")
  BY <1>1, <1>7 DEF AddCallItem, WithoutItem, To, Processes, items, flags, lock, local,
                    unmanaged, feed
<1>8. CASE Watch \/ Wait_ \/ Receive
  BY <1>1, <1>8 DEF Watch, Wait_, Receive, WithoutItem, To, Processes, items, flags, lock,
                    local, unmanaged, feed
<1>9. CASE Flag \/ Changed
  BY <1>1, <1>9 DEF Flag, Changed, Loop, To, AfterFlag, Processes, items, flags, lock,
                    unmanaged, feed
<1>10. CASE CancelItems
  <2>1. /\ UNCHANGED <<process, feeder, feeding, shutdown, broken, submitting, late>>
        /\ manager = "cancel"
        /\ \/ UNCHANGED <<manager, rebound, cancel_pending>>
           \/ manager' = "add_again" /\ cancel_pending' = FALSE
    BY <1>10 DEF CancelItems, To, AfterFlag, items, unmanaged, lock, feed
  <2>2. shutdown
    BY <2>1 DEF CallInv, FlagInv, Works
  <2> QED BY <1>1, <2>1, <2>2 DEF Processes
<1>11. CASE Check
  BY <1>1, <1>11 DEF Check, To, Processes, items, flags, lock, unmanaged, feed, CallInv,
                     FlagInv, Works
<1>12. CASE Break
  <2>1. ~broken
    BY <1>12 DEF Break, CallInv, FlagInv, Works
  <2> QED BY <1>1, <1>12, <2>1 DEF Break, Loop, To, Processes, items, lock, feed
<1>13. CASE FailItems \/ Terminate \/ JoinExecutor
  <2>1. /\ UNCHANGED <<rebound, broken, shutdown, cancel_pending, submitting, late>>
        /\ UNCHANGED <<feeder, feeding>> /\ shutdown
        /\ manager' \notin {"none", "cancel"}
    BY <1>1, <1>13
       DEF FailItems, Terminate, JoinExecutor, To, items, flags, lock, unmanaged, feed
  <2> QED BY <1>1, <2>1
<1> QED BY <1>2, <1>3, <1>4, <1>5, <1>6, <1>7, <1>8, <1>9, <1>10, <1>11, <1>12, <1>13
           DEF Next, Manager

\* What the flags say while the manager works.
LEMMA FlagStep ==
  ASSUME PoolInv, [Next]_vars, Works, Works'
  PROVE  FlagInv'
<1> USE DEF FlagInv
<1>1. /\ FlagInv /\ AlwaysInv /\ NoOne \notin Job
      /\ shutdown \in BOOLEAN /\ broken \in BOOLEAN /\ rebound \in BOOLEAN
      /\ result_item \in Job \cup {NoOne} /\ submitting \in Job \cup {NoOne}
      /\ (entered => submitting # NoOne)
  BY ProcessPoolAssumption
     DEF PoolInv, BaseInv, CallInv, ProcessPoolTypeOK, OrderInv, Created
<1>2. ASSUME NEW f \in Job, Submit(f) \/ Cancel(f) PROVE FlagInv'
  BY <1>1, <1>2 DEF Submit, Cancel, items, queues, flags, lock, local
<1>3. ASSUME NEW f \in Job, Enter(f) PROVE FlagInv'
  BY <1>1, <1>3 DEF Enter, AlwaysInv, flags, local
<1>4. CASE Launch
  <2>1. ~shutdown
    BY <1>1, <1>4 DEF Launch
  <2>2. manager' \in {manager, "add"} /\ (manager' = "add" => manager \in {"none", "add"})
    BY <1>4 DEF Launch
  <2> QED BY <1>1, <1>4, <2>1, <2>2 DEF Launch, items, queues, flags, local
<1>5. ASSUME \/ Feed \/ FeederError \/ UNCHANGED vars
             \/ \E p \in Process : Work(p) \/ Crash(p)
      PROVE  FlagInv'
  BY <1>1, <1>5 DEF Feed, FeederError, Work, Crash, vars, outside, items, queues, flags,
                    lock, local
<1>6. CASE Shutdown \/ Joined
  <2>1. /\ UNCHANGED <<submitting, rebound, work_ids, manager, result_item, broken>>
        /\ shutdown' = shutdown \/ (shutdown' = TRUE /\ submitting = NoOne)
    BY <1>6 DEF Shutdown, Joined, items, queues, flags, lock, local
  <2> QED BY <1>1, <2>1
<1>7. CASE AddCallItem("add", "watch") \/ AddCallItem("add_again", "check")
  BY <1>1, <1>7 DEF AddCallItem, WithoutItem, To, items, queues, flags, lock, local,
                    unmanaged
<1>8. CASE Watch \/ Wait_ \/ Receive
  <2>1. /\ UNCHANGED <<submitting, rebound, work_ids, shutdown, broken>>
        /\ manager' \notin {"add_again", "check", "cancel"}
    BY <1>8 DEF Watch, Wait_, Receive, WithoutItem, To, items, queues, flags, lock, unmanaged
  <2>2. manager' \notin {"clear", "process"} => result_item' = NoOne
    BY <1>1, <1>8 DEF Watch, Wait_, Receive, To
  <2> QED BY <1>1, <2>1, <2>2
<1>9. CASE Flag \/ CancelItems \/ Check
  BY <1>1, <1>9 DEF Flag, CancelItems, Check, Loop, To, AfterFlag, Drained, items, queues,
                    flags, lock, local, unmanaged, AlwaysInv
<1>10. CASE Changed \/ Break \/ FailItems \/ Terminate \/ JoinExecutor
  BY <1>10 DEF Changed, Break, FailItems, Terminate, JoinExecutor, Loop, To, Works
<1> QED BY <1>2, <1>3, <1>4, <1>5, <1>6, <1>7, <1>8, <1>9, <1>10 DEF Next, Manager

------------------------------------------------------------------------------
(* The pool as a whole                                                     *)

LEMMA PoolInit == Init => PoolInv
<1> SUFFICES ASSUME Init PROVE PoolInv
  OBVIOUS
<1>1. FuturesTypeOK /\ ClientsAway /\ Created = {}
  <2> DEFINE WaiterType == [at : {"gone", "idle", "waiting", "returned", "timed_out"},
                            fs : SUBSET Job, when : ReturnWhen,
                            pending : 0 .. Cardinality(Job), event : BOOLEAN,
                            finished : SUBSET Job]
  <2>1. /\ reader \in [Reader -> [at : {"idle", "gone"}, of : {{}}]]
        /\ waiter \in [Waiter -> [at : {"idle", "gone"}, fs : {{}},
                                  when : {"ALL_COMPLETED"}, pending : {0},
                                  event : {FALSE}, finished : {{}}]]
        /\ callback \in [Job -> [at : {"idle", "gone"}, calls : {0}]]
        /\ state = [f \in Job |-> "none"] /\ failed = {}
    BY DEF Init, FuturesInit
  <2>2. /\ {} \in SUBSET Job /\ "ALL_COMPLETED" \in ReturnWhen /\ FALSE \in BOOLEAN
        /\ 0 \in 0 .. Cardinality(Job)
    BY FuturesAssumption, FS_CardinalityType DEF ReturnWhen
  <2>3. waiter \in [Waiter -> WaiterType]
    BY <2>1, <2>2
  <2>4. FuturesTypeOK
    BY <2>1, <2>3 DEF FuturesTypeOK, State
  <2> QED BY <2>1, <2>4 DEF ClientsAway, Created
<1>2. ProcessPoolTypeOK
  <2>1. <<>> \in Seq(Job) /\ <<>> \in Seq(Job \cup {Stop})
    OBVIOUS
  <2>2. /\ process \in [Process -> Job \cup Idle]
        /\ UNION {pending_work_items, new_items, listed, todo} \subseteq Job
    BY DEF Init, Idle
  <2>3. /\ max_workers \in 1 .. Cardinality(Process) /\ dynamic \in BOOLEAN
        /\ order \in Orders /\ sentinels \subseteq Process
    BY DEF Init
  <2>4. /\ {rebound, broken, shutdown, cancel_pending, wakeup, entered} \subseteq BOOLEAN
        /\ {submitting, late, result_item, feeding} \subseteq Job \cup {NoOne}
    BY DEF Init
  <2>5. {idle_semaphore, unsent} \subseteq Nat
    BY DEF Init
  <2>6. /\ work_ids \in Seq(Job) /\ result_queue \in Seq(Job)
        /\ buffer \in Seq(Job \cup {Stop}) /\ pipe \in Seq(Job \cup {Stop})
    BY <2>1 DEF Init
  <2> QED BY <1>1, <2>2, <2>3, <2>4, <2>5, <2>6 DEF Init, ProcessPoolTypeOK
<1>3. OrderInv
  <2>1. _queue_count = 0
    BY <1>1, FS_EmptySet DEF _queue_count, Created
  <2>2. order \in Seq(Job)
    BY <1>2, ProcessPoolAssumption DEF ProcessPoolTypeOK
  <2>3. Len(order) \in Nat
    BY <2>2
  <2> QED BY <1>1, <2>1, <2>3 DEF Init, OrderInv
<1>4. AlwaysInv
  BY DEF Init, AlwaysInv, Processes
<1>5. FlagInv /\ Works
  BY DEF Init, FlagInv, Works
<1>6. ASSUME NEW f \in Job PROVE CallOf(f) /\ WorkOf(f)
  <2>1. f # NoOne /\ f # "none" /\ state[f] = "none"
    BY ProcessPoolAssumption DEF Init, FuturesInit, Idle
  <2>2. /\ \A s \in {buffer, pipe, result_queue, work_ids} : ~In(f, s) /\ Once(f, s)
        /\ \A p \in Process : process[p] # f
    BY <2>1, InEmpty DEF Init
  <2> QED BY <2>1, <2>2
             DEF Init, CallOf, WorkOf, OnePlace, OnlyInBuffer, OnlyInPipe, Placed, InBuffer,
                 InPipe, InProcess, InResults, Received, SomeDead
<1> QED BY <1>1, <1>2, <1>3, <1>4, <1>5, <1>6 DEF PoolInv, BaseInv, CallInv

LEMMA PoolStep == PoolInv /\ [Next]_vars => PoolInv'
<1> SUFFICES ASSUME PoolInv, [Next]_vars PROVE PoolInv'
  OBVIOUS
<1>1. BaseInv /\ CallInv
  BY DEF PoolInv
<1>2. BaseInv'
  BY <1>1, TypeStep, FuturesInv, OrderStep, AlwaysStep DEF BaseInv
<1>3. ASSUME Works' PROVE FlagInv' /\ \A f \in Job : CallOf(f)' /\ WorkOf(f)'
  <2>1. \A f \in Job : CallOf(f)' /\ WorkOf(f)'
    BY <1>3, CallsStep
  <2>2. Works
    BY <1>3, WorksBefore
  <2> QED BY <1>3, <2>1, <2>2, FlagStep
<1>4. CallInv'
  BY <1>3 DEF CallInv
<1> QED BY <1>2, <1>4 DEF PoolInv

LEMMA PoolHolds == Spec => []PoolInv
<1> QED BY PoolInit, PoolStep, PTL DEF Spec

\* Every variable of the pool keeps its type: a wrong count of the futures, or more
\* processes than there may be, would show here.
THEOREM ProcessPoolTypeCorrect == Spec => []ProcessPoolTypeOK
<1>1. PoolInv => ProcessPoolTypeOK
  BY DEF PoolInv, BaseInv
<1> QED BY <1>1, PoolHolds, PTL

\* How often a call is there, from where it is.
LEMMA CallsCounted ==
  ASSUME PoolInv, NEW f \in Job, OnePlace(f)
  PROVE  Calls(f) = IF Placed(f) THEN 1 ELSE 0
<1>1. /\ Cardinality({i \in DOMAIN buffer : buffer[i] = f}) = IF InBuffer(f) THEN 1 ELSE 0
      /\ Cardinality({i \in DOMAIN pipe : pipe[i] = f}) = IF InPipe(f) THEN 1 ELSE 0
      /\ Cardinality({i \in DOMAIN result_queue : result_queue[i] = f})
           = IF InResults(f) THEN 1 ELSE 0
  BY CountOnce DEF OnePlace, InBuffer, InPipe, InResults
<1>2. Cardinality({p \in Process : process[p] = f}) = IF InProcess(f) THEN 1 ELSE 0
  <2>1. CASE InProcess(f)
    <3>1. PICK p \in Process : process[p] = f
      BY <2>1 DEF InProcess
    <3>2. {q \in Process : process[q] = f} = {p}
      BY <3>1 DEF OnePlace
    <3> QED BY <2>1, <3>2, FS_Singleton
  <2>2. CASE ~InProcess(f)
    <3>1. {q \in Process : process[q] = f} = {}
      BY <2>2 DEF InProcess
    <3> QED BY <2>2, <3>1, FS_EmptySet
  <2> QED BY <2>1, <2>2
<1>3. Calls(f) = (IF InBuffer(f) THEN 1 ELSE 0) + (IF InPipe(f) THEN 1 ELSE 0)
                 + (IF InResults(f) THEN 1 ELSE 0) + (IF InProcess(f) THEN 1 ELSE 0)
                 + (IF Received(f) THEN 1 ELSE 0)
  BY <1>1, <1>2 DEF Calls, Received
<1> QED BY <1>3 DEF OnePlace, OnlyInBuffer, OnlyInPipe, Placed

\* No call is lost or made twice: while the manager thread works, a future that is not
\* done has its item in the dict, and it waits to be started or its call is in one of
\* the queues, in one process or in the manager's hand; except that a process died
\* with it, the feeder thread took it out because it cannot be sent, or the manager
\* could not unpickle its result and is about to break the pool.
THEOREM CallsCorrect == Spec => []CallsAccounted
<1>1. PoolInv => CallsAccounted
  <2> SUFFICES ASSUME PoolInv, Works, NEW f \in Job
               PROVE  /\ state[f] = "PENDING" => f \in Items
                      /\ state[f] = "RUNNING" => f \in Items \/ f = feeding
                      /\ Calls(f) <= 1
                      /\ Calls(f) = 0 /\ state[f] = "RUNNING" =>
                           \/ f = feeding
                           \/ \E p \in Processes : process[p] = "dead"
                           \/ "unpickle" \in mishaps /\ manager \in {"clear_broken", "broken"}
                      /\ state[f] \in Done => Calls(f) = 0
                      /\ f \in ToSet(work_ids) => f \in Items /\ state[f] # "RUNNING"
    BY DEF CallsAccounted, Works
  <2>1. CallOf(f) /\ WorkOf(f)
    BY DEF PoolInv, CallInv
  <2>2. Calls(f) = IF Placed(f) THEN 1 ELSE 0
    BY <2>1, CallsCounted DEF CallOf
  <2>3. f \in ToSet(work_ids) => In(f, work_ids)
    BY DEF ToSet, In
  <2> QED BY <2>1, <2>2, <2>3
             DEF CallOf, WorkOf, SomeDead, Lost, Processes, Done, Cancelled, Settled
<1> QED BY <1>1, PoolHolds, PTL

------------------------------------------------------------------------------
(* The end of the manager thread                                           *)

\* What a step does to the futures: a new one is to be finished, a finished one is
\* not, and one that is cancelled stays so.
LEMMA StatesStep ==
  ASSUME PoolInv, [Next]_vars
  PROVE  /\ (\A f \in Job : ~Enter(f)) => Unfinished' \subseteq Unfinished
         /\ \A f \in Job : Enter(f) => Unfinished' \subseteq Unfinished \cup {f}
         /\ \A f \in Job : Finish(f, "result") \/ Finish(f, "exception") =>
              Unfinished' = Unfinished \ {f} /\ Open' = Open \ {f}
         /\ (\A f \in Job : ~Finish(f, "result") /\ ~Finish(f, "exception")) =>
              Open \subseteq Open'
         /\ CancelledOnes \subseteq CancelledOnes'
<1>1. state \in [Job -> State]
  BY DEF PoolInv, BaseInv, ProcessPoolTypeOK, FuturesTypeOK
<1> USE DEF Unfinished, Open, CancelledOnes
<1>2. ASSUME NEW f \in Job, Changes(f)
      PROVE  /\ Unfinished' \subseteq Unfinished
             /\ CancelledOnes \subseteq CancelledOnes'
             /\ ~Finish(f, "result") /\ ~Finish(f, "exception") => Open \subseteq Open'
  BY <1>1, <1>2
     DEF Changes, Finish, CancelPending, NotifyCancel, SetRunning, Done, Cancelled
<1>3. ASSUME NEW f \in Job, Finish(f, "result") \/ Finish(f, "exception")
      PROVE  Unfinished' = Unfinished \ {f} /\ Open' = Open \ {f}
  BY <1>1, <1>3 DEF Finish
<1>4. ASSUME NEW f \in Job, Enter(f)
      PROVE  /\ Unfinished' \subseteq Unfinished \cup {f} /\ Open \subseteq Open'
             /\ CancelledOnes \subseteq CancelledOnes'
  <2>1. state[f] = "none"
    BY <1>4, NotYetCreated DEF PoolInv, Created
  <2> QED BY <1>1, <1>4, <2>1 DEF Enter, Create, Cancelled
<1>5. UNCHANGED futures =>
        UNCHANGED <<Unfinished, Open, CancelledOnes>>
  BY DEF futures
<1>6. \/ \E f \in Job : Enter(f)
      \/ \E f \in Job : Changes(f)
      \/ UNCHANGED futures
  BY FuturesStep DEF PoolInv, Created
<1> HIDE DEF Unfinished, Open, CancelledOnes
<1>7. ASSUME NEW f \in Job, Enter(f) PROVE state'[f] = "PENDING"
  BY <1>1, <1>7 DEF Enter, Create
<1> QED BY <1>2, <1>3, <1>4, <1>5, <1>6

\* Once the pool is shut down only a submit() enters an item that the breaking of the
\* pool overtook.
LEMMA LateEnters ==
  ASSUME PoolInv, [Next]_vars, shutdown
  PROVE  /\ \A f \in Job : Enter(f) => f \in Overtaken
         /\ Unfinished' \subseteq Unfinished \cup Overtaken
<1>1. ASSUME NEW f \in Job, Enter(f) PROVE f \in Overtaken
  <2>1. f = late
    BY <1>1, ProcessPoolAssumption DEF PoolInv, BaseInv, AlwaysInv, Enter
  <2>2. f \notin listed
    BY <1>1, NotYetCreated DEF PoolInv, BaseInv, OrderInv
  <2> QED BY <2>1, <2>2 DEF Overtaken, Late
<1>2. CASE \E f \in Job : Enter(f)
  BY <1>1, <1>2, StatesStep
<1>3. CASE \A f \in Job : ~Enter(f)
  BY <1>3, StatesStep
<1> QED BY <1>1, <1>2, <1>3

\* A process starts in a pool that is shut down for such a submit() only.
LEMMA LateStarts ==
  ASSUME PoolInv, [Next]_vars, shutdown, late = NoOne
  PROVE  Processes' = Processes
<1>1. ~Launch
  BY ProcessPoolAssumption DEF PoolInv, BaseInv, AlwaysInv, OrderInv, Created, Launch
<1>2. ASSUME NEW p \in Process, NEW s, s # "none", process[p] # "none", Becomes(p, s)
      PROVE  Processes' = Processes
  BY <1>2 DEF Becomes, Processes, PoolInv, BaseInv, ProcessPoolTypeOK
<1>3. ASSUME NEW p \in Process, Work(p) \/ Crash(p) PROVE Processes' = Processes
  <2>1. pipe # <<>> => Head(pipe) \in Job \cup {Stop}
    BY QueueType DEF PoolInv, BaseInv, ProcessPoolTypeOK
  <2>2. "none" \notin Job \cup {Stop} /\ "none" \notin Job
    BY ProcessPoolAssumption DEF Idle, Stop
  <2> QED BY <1>2, <1>3, <2>1, <2>2 DEF Work, Crash
<1>4. CASE Terminate
  BY <1>2, <1>4 DEF Terminate, Alive, Processes
<1>5. CASE UNCHANGED process
  BY <1>5 DEF Processes
<1> QED BY <1>1, <1>3, <1>4, <1>5
        DEF Next, vars, Submit, Enter, Cancel, Shutdown, Joined, Feed, FeederError, Manager,
            AddCallItem, Watch, Wait_, Receive, Flag, Changed, CancelItems, Check, Break,
            FailItems, JoinExecutor

\* What does not change any more once the manager thread has begun to end.
LEMMA EndStays ==
  ASSUME [Next]_vars, ~Works
  PROVE  UNCHANGED <<late, listed, broken>> /\ UNCHANGED Overtaken
<1>1. UNCHANGED <<late, listed, broken>>
  BY DEF Works, Next, vars, Submit, Enter, Launch, Cancel, Shutdown, Joined, Feed,
         FeederError, Manager, AddCallItem, Watch, Wait_, Receive, Flag, Changed,
         CancelItems, Check, Break, FailItems, Terminate, JoinExecutor, Work, Crash,
         outside, unmanaged, local, flags
<1> QED BY <1>1 DEF Overtaken, Late

\* The steps that leave the manager thread where it is.
LEMMA ManagerStays ==
  ASSUME [Next]_vars, ~Manager
  PROVE  \/ \E f \in Job : Enter(f) \/ Cancel(f)
         \/ Launch \/ FeederError \/ UNCHANGED <<futures, manager, items, local, feed>>
<1>1. ASSUME NEW f \in Job, Submit(f) PROVE UNCHANGED <<futures, manager, items, local, feed>>
  BY <1>1 DEF Submit
<1>2. ASSUME \/ Shutdown \/ Joined \/ Feed \/ UNCHANGED vars
             \/ \E p \in Process : Work(p) \/ Crash(p)
      PROVE  UNCHANGED <<futures, manager, items, local, feed>>
  BY <1>2 DEF Shutdown, Joined, Feed, Work, Crash, vars, outside
<1> QED BY <1>1, <1>2 DEF Next

\* Where the manager is after a step of others, and its loop.
LEMMA ManagerWaits ==
  ASSUME [Next]_vars, ~Manager
  PROVE  /\ manager' = manager \/ (manager = "none" /\ manager' = "add")
         /\ UNCHANGED <<listed, todo, sentinels>>
<1>1. ASSUME NEW f \in Job, Enter(f) \/ Cancel(f)
      PROVE  UNCHANGED <<manager, listed, todo, sentinels>>
  BY <1>1 DEF Enter, Cancel, local
<1>2. CASE Launch
  BY <1>2 DEF Launch, local
<1>3. CASE FeederError
  BY <1>3 DEF FeederError, outside, local
<1> QED BY <1>1, <1>2, <1>3, ManagerStays DEF local

\* What the feeder thread does to the dict and to the futures.
LEMMA FeederStep ==
  ASSUME PoolInv, FeederError
  PROVE  /\ UNCHANGED <<new_items, rebound>>
         /\ \/ /\ feeding = NoOne /\ UNCHANGED futures /\ "pickle" \in mishaps
            \/ /\ feeder # "idle" /\ UNCHANGED <<futures, pending_work_items>>
               /\ (feeding' = feeding \/ feeding = NoOne)
            \/ /\ feeder # "idle" /\ UNCHANGED pending_work_items
               /\ feeding \in Job /\ Finish(feeding, "exception")
<1>1. /\ feeder = "idle" => feeding = NoOne
      /\ feeding \in Job \cup {NoOne}
  BY DEF PoolInv, BaseInv, AlwaysInv, ProcessPoolTypeOK
<1> QED BY <1>1 DEF FeederError, Sendable

\* While the manager thread cancels futures, the dict stays as it was.
LEMMA CancelLoopStep ==
  ASSUME PoolInv, EndInv, [Next]_vars, manager' = "cancel"
  PROVE  Items' = listed' \/ "pickle" \in mishaps'
<1>1. UNCHANGED mishaps
  BY ConfigStep DEF config
<1>2. CASE Manager
  <2>1. CASE Flag
    BY <2>1 DEF Flag, Loop, Items, items, To, AfterFlag
  <2>2. CASE CancelItems
    BY <2>2 DEF CancelItems, Items, items, To, AfterFlag
  <2> QED BY <1>2, <2>1, <2>2
             DEF Manager, AddCallItem, Watch, Wait_, Receive, Changed, Check, Break,
                 FailItems, Terminate, JoinExecutor, Loop, To
<1>3. CASE ~Manager
  <2>1. manager = "cancel" /\ UNCHANGED listed
    BY <1>3, ManagerWaits
  <2>2. (Items = listed \/ "pickle" \in mishaps) /\ submitting = NoOne
    BY <2>1 DEF EndInv, PoolInv, CallInv, FlagInv, Works
  <2>3. \A f \in Job : ~Enter(f)
    BY <2>2, ProcessPoolAssumption DEF Enter
  <2>4. CASE FeederError
    BY <1>1, <2>1, <2>2, <2>4, FeederStep DEF Items
  <2>5. CASE UNCHANGED items
    BY <1>1, <2>1, <2>2, <2>5 DEF items, Items
  <2> QED BY <1>3, <2>3, <2>4, <2>5, ManagerStays DEF Cancel, Launch
<1> QED BY <1>2, <1>3

\* What is to be finished, after a step of others in a pool that is shut down.
LEMMA UnfinishedInv ==
  ASSUME PoolInv, [Next]_vars, shutdown, ~Manager, NEW S, Overtaken \subseteq S,
         Unfinished \subseteq S \cup {feeding}
  PROVE  Unfinished' \subseteq S \cup {feeding'}
<1>1. Unfinished' \subseteq Unfinished \cup S
  BY LateEnters
<1>2. CASE FeederError
  <2>1. CASE feeding = NoOne
    <3>1. NoOne \notin Unfinished
      BY ProcessPoolAssumption DEF Unfinished
    <3> QED BY <1>1, <2>1, <3>1
  <2>2. CASE feeding' = feeding
    BY <1>1, <2>2
  <2>3. CASE feeding \in Job /\ Finish(feeding, "exception")
    <3>1. feeding \notin Unfinished'
      BY <2>3, StatesStep
    <3> QED BY <1>1, <3>1
  <2> QED BY <1>2, <2>1, <2>2, <2>3, FeederStep
<1>3. CASE UNCHANGED feeding
  BY <1>1, <1>3
<1>4. ASSUME NEW f \in Job, Enter(f) \/ Cancel(f) PROVE UNCHANGED feeding
  BY <1>4 DEF Enter, Cancel, feed
<1>5. Launch => UNCHANGED feeding
  BY DEF Launch, feed
<1> QED BY <1>2, <1>3, <1>4, <1>5, ManagerStays DEF feed

\* terminate_broken() goes on until every future has failed, but for one that the
\* feeder thread is about to fail and one that came too late.
LEMMA FailLoopStep ==
  ASSUME PoolInv, EndInv, [Next]_vars, manager' = "fail"
  PROVE  broken' /\ Unfinished' \subseteq todo' \cup {feeding'} \cup Overtaken'
<1>1. CASE Break
  <2>1. /\ broken' = TRUE /\ Unfinished' = Unfinished /\ todo' = Items /\ feeding' = feeding
        /\ manager = "broken"
    BY <1>1 DEF Break, Loop, feed, futures, Unfinished
  <2>2. \A f \in Job : CallOf(f)
    BY <2>1 DEF PoolInv, CallInv, Works
  <2> QED BY <2>1, <2>2 DEF Unfinished, CallOf
<1>2. CASE manager = "fail"
  <2>1. /\ broken /\ shutdown /\ Unfinished \subseteq todo \cup {feeding} \cup Overtaken
        /\ todo \subseteq Job
    BY <1>2 DEF PoolInv, BaseInv, AlwaysInv, EndInv, ProcessPoolTypeOK
  <2>2. broken' = broken /\ Overtaken' = Overtaken
    BY <1>2, EndStays DEF Works
  <2>3. CASE ~Manager
    <3>1. Unfinished' \subseteq (todo \cup Overtaken) \cup {feeding'}
      BY <2>1, <2>3, UnfinishedInv
    <3>2. todo' = todo
      BY <2>3, ManagerWaits
    <3> QED BY <2>1, <2>2, <3>1, <3>2
  <2>4. CASE FailItems
    <3>1. PICK f \in todo : Finish(f, "exception") /\ todo' = todo \ {f}
      BY <1>2, <2>4 DEF FailItems, To
    <3>2. Unfinished' = Unfinished \ {f} /\ feeding' = feeding
      BY <2>1, <2>4, <3>1, StatesStep DEF FailItems, unmanaged, feed
    <3> QED BY <2>1, <2>2, <3>1, <3>2
  <2> QED BY <1>2, <2>3, <2>4
             DEF Manager, AddCallItem, Watch, Wait_, Receive, Flag, Changed, CancelItems,
                 Check, Break, Terminate, JoinExecutor, Loop, To
<1>3. CASE manager # "fail" /\ ~Break
  <2>1. CASE Manager
    BY <1>3, <2>1
       DEF Manager, AddCallItem, Watch, Wait_, Receive, Flag, Changed, CancelItems,
           Check, FailItems, Terminate, JoinExecutor, Loop, To, AfterFlag
  <2> QED BY <1>3, <2>1, ManagerWaits
<1> QED BY <1>1, <1>2, <1>3

\* terminate_broken() goes on to the processes, join_executor_internals() is reached,
\* when nothing is left but what the feeder thread fails and what came too late.
LEMMA StopStep ==
  ASSUME PoolInv, EndInv, [Next]_vars, manager' \in {"terminate", "stop"}
  PROVE  Unfinished' \subseteq {feeding'} \cup Overtaken'
<1>1. CASE manager \in {"terminate", "stop"}
  <2>1. shutdown /\ Unfinished \subseteq Overtaken \cup {feeding}
    BY <1>1 DEF PoolInv, BaseInv, AlwaysInv, EndInv
  <2>2. Overtaken' = Overtaken
    BY <1>1, EndStays DEF Works
  <2>3. CASE ~Manager
    BY <2>1, <2>2, <2>3, UnfinishedInv
  <2>4. CASE Manager
    <3>1. UNCHANGED <<futures, feeding>>
      BY <1>1, <2>4
         DEF Manager, AddCallItem, Watch, Wait_, Receive, Flag, Changed, CancelItems,
             Check, Break, FailItems, Terminate, JoinExecutor, Loop, To, unmanaged, feed
    <3> QED BY <2>1, <2>2, <3>1 DEF futures, Unfinished
  <2> QED BY <2>3, <2>4
<1>2. CASE Check
  <2>1. Items = {} /\ Unfinished' = Unfinished /\ feeding' = feeding /\ Works
    BY <1>2 DEF Check, NothingPending, To, unmanaged, feed, futures, Unfinished, Works
  <2>2. \A f \in Job : CallOf(f)
    BY <2>1 DEF PoolInv, CallInv
  <2> QED BY <2>1, <2>2 DEF Unfinished, CallOf
<1>3. CASE FailItems
  <2>1. manager = "fail" /\ todo = {} /\ Unfinished' = Unfinished /\ feeding' = feeding
    BY <1>3 DEF FailItems, To, unmanaged, feed, futures, Unfinished
  <2>2. Overtaken' = Overtaken
    BY <2>1, EndStays DEF Works
  <2> QED BY <2>1, <2>2 DEF EndInv
<1>4. CASE manager \notin {"terminate", "stop"} /\ ~Check /\ ~FailItems
  <2>1. CASE Manager
    BY <1>4, <2>1
       DEF Manager, AddCallItem, Watch, Wait_, Receive, Flag, Changed, CancelItems,
           Break, Terminate, JoinExecutor, Loop, To, AfterFlag
  <2> QED BY <1>4, <2>1, ManagerWaits
<1> QED BY <1>1, <1>2, <1>3, <1>4

\* While it terminates them, the processes are those it began with, or submit()
\* started another too late.
LEMMA TerminateStep ==
  ASSUME PoolInv, EndInv, [Next]_vars, manager' = "terminate"
  PROVE  broken' /\ (Processes' = sentinels' \/ late' # NoOne)
<1>1. CASE manager = "terminate"
  <2>1. broken /\ shutdown /\ (Processes = sentinels \/ late # NoOne)
    BY <1>1 DEF PoolInv, BaseInv, AlwaysInv, EndInv
  <2>2. UNCHANGED <<broken, late>>
    BY <1>1, EndStays DEF Works
  <2>3. UNCHANGED sentinels
    <3>1. CASE Manager
      BY <1>1, <3>1
         DEF Manager, AddCallItem, Watch, Wait_, Receive, Flag, Changed, CancelItems,
             Check, Break, FailItems, Terminate, JoinExecutor, local
    <3> QED BY <3>1, ManagerWaits
  <2> QED BY <2>1, <2>2, <2>3, LateStarts
<1>2. CASE FailItems
  <2>1. /\ manager = "fail" /\ sentinels' = Processes /\ UNCHANGED process
    BY <1>2 DEF FailItems, To
  <2> QED BY <2>1, EndStays DEF EndInv, Works, Processes
<1>3. CASE manager # "terminate" /\ ~FailItems
  <2>1. CASE Manager
    BY <1>3, <2>1
       DEF Manager, AddCallItem, Watch, Wait_, Receive, Flag, Changed, CancelItems, Check,
           Break, Terminate, JoinExecutor, Loop, To, AfterFlag
  <2> QED BY <1>3, <2>1, ManagerWaits
<1> QED BY <1>1, <1>2, <1>3

\* When the thread has ended, every process has, and every future is finished but one
\* that came too late.
LEMMA DoneStep ==
  ASSUME PoolInv, EndInv, [Next]_vars, manager' = "done"
  PROVE  Alive' = {} /\ submitting' = NoOne /\ Unfinished' \subseteq Overtaken'
<1>1. CASE manager = "done"
  <2>1. shutdown /\ Alive = {} /\ submitting = NoOne /\ Unfinished \subseteq Overtaken
    BY <1>1 DEF PoolInv, BaseInv, AlwaysInv, EndInv
  <2>2. Overtaken' = Overtaken
    BY <1>1, EndStays DEF Works
  <2>3. \A f \in Job : ~Submit(f) /\ ~Enter(f)
    BY <2>1, ProcessPoolAssumption DEF Submit, Enter
  <2>4. ~Launch
    BY <2>1, ProcessPoolAssumption DEF Launch, PoolInv, BaseInv, OrderInv, Created
  <2>5. ASSUME NEW p \in Process PROVE ~Work(p) /\ ~Crash(p)
    BY <2>1, ProcessPoolAssumption DEF Work, Crash, Alive, Processes, Idle
  <2>6. ~Manager
    BY <1>1
       DEF Manager, AddCallItem, Watch, Wait_, Receive, Flag, Changed, CancelItems,
           Check, Break, FailItems, Terminate, JoinExecutor
  <2>7. UNCHANGED <<process, submitting>>
    BY <2>3, <2>4, <2>5, <2>6
       DEF Next, vars, Cancel, Shutdown, Joined, Feed, FeederError, outside, lock
  <2> QED BY <2>1, <2>2, <2>3, <2>7, StatesStep DEF Alive, Processes
<1>2. CASE JoinExecutor
  <2>1. /\ manager = "stop" /\ feeder = "idle" /\ Alive = {} /\ submitting = NoOne
        /\ UNCHANGED <<futures, process, submitting>>
    BY <1>2 DEF JoinExecutor, To, unmanaged, lock
  <2>2. NoOne \notin Unfinished
    BY ProcessPoolAssumption DEF Unfinished
  <2>3. Unfinished \subseteq {feeding} \cup Overtaken /\ feeding = NoOne
    BY <2>1 DEF EndInv, PoolInv, BaseInv, AlwaysInv
  <2>4. Overtaken' = Overtaken
    BY <2>1, EndStays DEF Works
  <2> QED BY <2>1, <2>2, <2>3, <2>4 DEF futures, Unfinished, Alive, Processes
<1>3. CASE manager # "done" /\ ~JoinExecutor
  <2>1. CASE Manager
    BY <1>3, <2>1
       DEF Manager, AddCallItem, Watch, Wait_, Receive, Flag, Changed, CancelItems,
           Check, Break, FailItems, Terminate, Loop, To, AfterFlag
  <2> QED BY <1>3, <2>1, ManagerWaits
<1> QED BY <1>1, <1>2, <1>3

\* The thread dies of no other error.
LEMMA DeadStep ==
  ASSUME PoolInv, EndInv, [Next]_vars, manager' = "dead"
  PROVE  MayDie'
<1>1. /\ UNCHANGED mishaps /\ CancelledOnes \subseteq CancelledOnes'
      /\ ~Works => UNCHANGED <<late, broken>>
  BY ConfigStep, StatesStep, EndStays DEF config
<1>2. CASE manager = "dead"
  BY <1>1, <1>2 DEF EndInv, MayDie, Works
<1>3. CASE Changed
  <2>1. CASE manager = "cancel"
    BY <1>1, <1>3, <2>1 DEF Changed, EndInv, PoolInv, BaseInv, AlwaysInv, MayDie
  <2>2. CASE manager \in {"fail", "terminate"}
    <3>1. broken /\ (late # NoOne \/ "pickle" \in mishaps)
      BY <1>3, <2>2 DEF Changed, EndInv
    <3> QED BY <1>1, <2>2, <3>1 DEF MayDie, Works
  <2> QED BY <1>3, <2>1, <2>2 DEF Changed
<1>4. CASE FailItems
  <2>1. /\ manager = "fail"
        /\ \E f \in todo : state[f] \in Done
    BY <1>4 DEF FailItems, To
  <2>2. broken /\ todo \subseteq Job /\ ("pickle" \notin mishaps => todo \subseteq Open)
    BY <2>1 DEF EndInv, PoolInv, BaseInv, ProcessPoolTypeOK
  <2>3. "pickle" \notin mishaps => CancelledOnes # {}
    BY <2>1, <2>2 DEF Open, CancelledOnes, Done, Cancelled, Settled
  <2> QED BY <1>1, <2>1, <2>2, <2>3 DEF MayDie, Works
<1>5. CASE manager # "dead" /\ ~Changed /\ ~FailItems
  <2>1. CASE Manager
    BY <1>5, <2>1
       DEF Manager, AddCallItem, Watch, Wait_, Receive, Flag, CancelItems,
           Check, Break, Terminate, JoinExecutor, Loop, To, AfterFlag
  <2> QED BY <1>5, <2>1, ManagerWaits
<1> QED BY <1>2, <1>3, <1>4, <1>5

\* When all calls can be sent, only the manager takes an item, after it finished the
\* future: an item in the dict has an open future.
LEMMA OpenItemsStep ==
  ASSUME PoolInv, EndInv, [Next]_vars, "pickle" \notin mishaps
  PROVE  /\ feeder' = "idle"
         /\ Works' => Items' \subseteq Open'
         /\ manager' = "fail" =>
              (Items' = listed' \/ late' # NoOne) /\ todo' \subseteq Open'
<1>1. /\ feeder = "idle" /\ feeding = NoOne
      /\ Works => Items \subseteq Open
      /\ manager = "fail" =>
           (Items = listed \/ late # NoOne) /\ todo \subseteq Open /\ shutdown
  BY DEF EndInv, PoolInv, BaseInv, AlwaysInv
<1>2. ~FeederError
  BY <1>1, FeederStep
<1>3. /\ Works' => Works
      /\ manager = "fail" => UNCHANGED <<late, listed>>
  BY WorksBefore, EndStays DEF Works
<1>4. feeder' = "idle"
  BY <1>1, <1>2
     DEF Next, vars, Submit, Enter, Launch, Cancel, Shutdown, Joined, Feed, Manager,
         AddCallItem, Watch, Wait_, Receive, Flag, Changed, CancelItems, Check, Break,
         FailItems, Terminate, JoinExecutor, Work, Crash, outside, unmanaged, feed
<1>5. ASSUME NEW f \in Job, Enter(f)
      PROVE  /\ Works' => Items' \subseteq Open'
             /\ manager' = "fail" => late' # NoOne /\ todo' \subseteq Open'
  <2>1. /\ Open \subseteq Open' /\ f \in Open' /\ Items' \subseteq Items \cup {f}
        /\ UNCHANGED <<manager, todo, late>> /\ f # NoOne
    BY <1>5, ProcessPoolAssumption
       DEF Enter, Create, Open, Items, local, PoolInv, BaseInv, ProcessPoolTypeOK,
           FuturesTypeOK
  <2>2. shutdown => f = late
    BY <1>5, LateEnters DEF Overtaken, Late
  <2> QED BY <1>1, <1>3, <2>1, <2>2
<1>6. ASSUME NEW f \in Job, Cancel(f) \/ CancelPending(f) PROVE Open \subseteq Open'
  BY <1>6 DEF Cancel, CancelPending, Open, PoolInv, BaseInv, ProcessPoolTypeOK,
              FuturesTypeOK
<1>7. UNCHANGED futures => Open' = Open
  BY DEF futures, Open
<1>8. CASE ~Manager /\ \A f \in Job : ~Enter(f)
  <2>1. UNCHANGED <<todo, listed>> /\ (manager' = manager \/ Works)
    BY <1>8, ManagerWaits DEF Works
  <2>2. Open \subseteq Open' /\ UNCHANGED items
    BY <1>2, <1>6, <1>7, <1>8, ManagerStays DEF Cancel, Launch
  <2>3. manager' = "fail" => manager = "fail"
    BY <1>8, ManagerWaits
  <2> QED BY <1>1, <1>3, <1>4, <2>1, <2>2, <2>3 DEF items, Items
<1>9. ASSUME NEW here, NEW l, AddCallItem(here, l), here \in {"add", "add_again"},
              l \in {"watch", "check"}
       PROVE  Items' \subseteq Open' /\ manager' # "fail"
  <2>1. Works /\ manager' # "fail"
    BY <1>9 DEF AddCallItem, Works, To
  <2>2. CASE UNCHANGED <<futures, items>>
    BY <1>1, <1>4, <1>7, <2>1, <2>2 DEF items, Items
  <2>3. CASE UNCHANGED items /\ SetRunning(Head(work_ids))
    <3>1. Open \subseteq Open'
      BY <2>3 DEF SetRunning, Open, PoolInv, BaseInv, ProcessPoolTypeOK, FuturesTypeOK
    <3> QED BY <1>1, <1>4, <2>1, <2>3, <3>1 DEF items, Items
  <2>4. CASE WithoutItem(Head(work_ids)) /\ NotifyCancel(Head(work_ids))
    <3>1. Open \subseteq Open' /\ Items' \subseteq Items
      BY <2>4 DEF NotifyCancel, WithoutItem, Items, Open, PoolInv, BaseInv,
                  ProcessPoolTypeOK, FuturesTypeOK
    <3> QED BY <1>1, <1>4, <2>1, <3>1
  <2> QED BY <1>9, <2>1, <2>2, <2>3, <2>4 DEF AddCallItem
<1>10. CASE Receive
  <2>1. Works /\ manager' # "fail"
    BY <1>10 DEF Receive, To, Works
  <2>2. CASE UNCHANGED <<futures, items>>
    BY <1>1, <1>4, <1>7, <2>1, <2>2 DEF items, Items
  <2>3. CASE WithoutItem(result_item) /\ result_item \in Job /\ Finish(result_item, "result")
    <3>1. Open' = Open \ {result_item}
      BY <2>3, StatesStep
    <3>2. Items' \subseteq Items \ {result_item}
      BY <2>3 DEF WithoutItem, Items
    <3> QED BY <1>1, <1>4, <2>1, <3>1, <3>2
  <2>4. CASE WithoutItem(result_item) /\ UNCHANGED futures
    BY <1>1, <1>4, <1>7, <2>1, <2>4 DEF WithoutItem, Items
  <2> QED BY <1>10, <2>1, <2>2, <2>3, <2>4 DEF Receive
<1>11. CASE CancelItems
  <2>1. Works /\ manager' # "fail" /\ todo \subseteq Job
    BY <1>11 DEF CancelItems, To, AfterFlag, Works, PoolInv, BaseInv, ProcessPoolTypeOK
  <2>2. Open \subseteq Open' /\ Items' \subseteq Items
    BY <1>6, <1>7, <1>11, <2>1 DEF CancelItems, items, Items
  <2> QED BY <1>1, <1>4, <2>1, <2>2
<1>12. CASE Break
  <2>1. manager = "broken" /\ manager' = "fail" /\ listed' = Items /\ todo' = Items
        /\ UNCHANGED <<futures, items>>
    BY <1>12 DEF Break, Loop, To
  <2> QED BY <1>1, <1>4, <1>7, <2>1 DEF items, Items, Works
<1>13. CASE FailItems
  <2>1. manager = "fail" /\ ~Works'
    BY <1>13 DEF FailItems, To, Works
  <2>2. ASSUME manager' = "fail"
        PROVE  (Items' = listed' \/ late' # NoOne) /\ todo' \subseteq Open'
    <3>1. PICK f \in todo : Finish(f, "exception") /\ todo' = todo \ {f} /\ UNCHANGED items
      BY <1>13, <2>2 DEF FailItems, To
    <3>2. f \in Job
      BY DEF PoolInv, BaseInv, ProcessPoolTypeOK
    <3>3. Open' = Open \ {f}
      BY <3>1, <3>2, StatesStep
    <3> QED BY <1>1, <1>3, <1>4, <2>1, <3>1, <3>3 DEF items, Items
  <2> QED BY <1>4, <2>1, <2>2
<1>14. CASE \/ Watch \/ Wait_ \/ Flag \/ Changed \/ Check \/ Terminate \/ JoinExecutor
  <2>1. UNCHANGED <<futures, items>> /\ manager' # "fail"
    BY <1>14
       DEF Watch, Wait_, Flag, Changed, Check, Terminate, JoinExecutor, Loop, To, AfterFlag
  <2> QED BY <1>1, <1>3, <1>4, <1>7, <2>1 DEF items, Items
<1>15. CASE Manager
  BY <1>4, <1>9, <1>10, <1>11, <1>12, <1>13, <1>14, <1>15 DEF Manager
<1> QED BY <1>4, <1>5, <1>8, <1>15

\* The inductive invariant of the end.
LEMMA EndStep ==
  ASSUME PoolInv, EndInv, [Next]_vars
  PROVE  EndInv'
<1>1. UNCHANGED mishaps
  BY ConfigStep DEF config
<1> QED BY <1>1, CancelLoopStep, FailLoopStep, StopStep, TerminateStep, DoneStep,
           DeadStep, OpenItemsStep DEF EndInv

\* When the manager thread has ended, every process has ended and every future is
\* answered, but for the one that was in submit() when the pool broke; and the thread
\* dies of an error of its own only in a broken pool - because a future is cancelled,
\* submit() is under way or the feeder takes an item out - or while it cancels the
\* items and the feeder takes one.  This holds of every combination of mishaps.
THEOREM NothingIsLeft == Spec => []NothingLeft
<1>1. Init => EndInv
  BY DEF Init, FuturesInit, EndInv, Works, Items
<1>2. PoolInv /\ EndInv /\ [Next]_vars => EndInv'
  BY EndStep
<1>3. PoolInv /\ EndInv => NothingLeft
  <2> SUFFICES ASSUME PoolInv, EndInv PROVE NothingLeft
    OBVIOUS
  <2>1. state \in [Job -> State]
    BY DEF PoolInv, BaseInv, ProcessPoolTypeOK, FuturesTypeOK
  <2>2. manager = "done" =>
          Alive = {} /\ \A f \in Job : state[f] \in Done \cup {"none"} \/ Late(f)
    BY <2>1 DEF EndInv, Unfinished, Overtaken, State
  <2> QED BY <2>2 DEF EndInv, NothingLeft, MayDie, CancelledOnes
<1> QED BY <1>1, <1>2, <1>3, PoolHolds, PTL DEF Spec

==============================================================================
