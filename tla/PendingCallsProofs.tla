------------------------- MODULE PendingCallsProofs --------------------------
(***************************************************************************)
(* What PendingCalls guarantees for any number of threads, with and        *)
(* without the GIL, any size of the ring buffer and any number of calls.   *)
(***************************************************************************)
EXTENDS PendingCalls, SequenceTheorems, TLAPS

N == NPENDINGCALLS

------------------------------------------------------------------------------
(* The inductive invariant                                                 *)

\* Where a thread is inside the GIL's functions or inside an addition, to go on
\* at back[t].
Detour == AddLabels \cup TakeLabels \cup DropLabels \cup {"take", "req_store"}

\* t is inside a callback, which may be adding a call or waiting for the GIL.
InCall(t) == pc[t] = "call" \/ (pc[t] \in Detour /\ back[t] = "call")

\* Only the main thread runs calls; busy says so, and there is a turn left for
\* the call that runs.
LoopInv ==
  /\ \A t \in Thread : InCall(t) \/ pc[t] \in MakeLabels \ {"make"} => t = Main
  /\ busy <=> InCall(Main) \/ pc[Main] \in {"mk_unsignal", "mk_load", "mk_store", "pop"}
  /\ InCall(Main) => iter < N

\* Who runs bytecode or computes with the GIL has it; who adds without it is
\* known; drop_gil() recomputes eval_breaker only while nobody has it.
Holds(t) ==
  /\ pc[t] \in {"eval", "handle", "handle_drop"} \cup MakeLabels \cup TakeLabels
       => gil = t
  /\ pc[t] \in AddLabels => IF back[t] = "outside" THEN stray /\ gil # t ELSE gil = t
  /\ pc[t] \in TakeLabels \cup {"take", "req_store"} => back[t] # "outside"
  /\ pc[t] \in {"sw_load", "sw_store"} => gil = NoThread

HoldInv ==
  /\ pc[Main] # "outside" /\ back[Main] # "outside"
  /\ gil # NoThread => /\ gil = last_holder
                       /\ pc[gil] \notin DropLabels \cup {"take", "req_store", "outside"}
  /\ \A t \in Thread : Holds(t)

\* A call in the queue is announced, or the loop has enough turns left, the one
\* of the callback that runs not counted.
AnnouncedInv == first # last =>
  \/ calls_to_do
  \/ \E t \in Thread : pc[t] \in {"add_signal", "err_signal"}
  \/ busy /\ Size + (IF InCall(Main) THEN 1 ELSE 0) <= N - iter

\* With the GIL the main thread has seen calls_to_do, or is about to compute
\* eval_breaker from it.
ComputeLabels == {"add_load", "mk_load", "err_load", "tk_load", "tk_reset"}
StoreLabels   == {"add_store", "mk_store", "err_store", "tk_store"}
SeenInv == ~stray /\ gil = Main /\ calls_to_do =>
  CASE pc[Main] \in ComputeLabels -> TRUE
    [] pc[Main] \in StoreLabels   -> loaded[Main]
    [] OTHER                      -> eval_breaker

PendingInv == TypeOK /\ LoopInv /\ HoldInv /\ AnnouncedInv /\ SeenInv /\ InOrder

------------------------------------------------------------------------------
(* The ring buffer                                                         *)

Wrap(a) == a % N

\* The size of the queue, and the place of its k-th call.
Span(f, l) == Wrap(l + N - f)
Slot(f, k) == Wrap(f + k - 1)

\* The remainder where it is used: below twice the size of the ring.
LEMMA WrapIs ==
  ASSUME NEW a \in 0 .. 2 * N - 1
  PROVE  Wrap(a) = (IF a < N THEN a ELSE a - N) /\ Wrap(a) \in 0 .. N - 1
<1>1. N \in Nat \ {0}
  BY PendingAssumption DEF N
<1> HIDE DEF N
<1>2. CASE a \in 0 .. N - 1
  BY <1>1, <1>2 DEF Wrap
<1>3. CASE a \in N .. 2 * N - 1
  BY <1>1, <1>3 DEF Wrap
<1> QED BY <1>1, <1>2, <1>3

\* One step further in the ring.
LEMMA WrapNext ==
  ASSUME NEW i \in 0 .. N - 1
  PROVE  Wrap(i + 1) = (IF i = N - 1 THEN 0 ELSE i + 1) /\ Wrap(i + 1) \in 0 .. N - 1
<1>1. N \in Nat \ {0}
  BY PendingAssumption DEF N
<1>2. i + 1 \in 0 .. 2 * N - 1
  BY <1>1
<1> QED BY <1>1, <1>2, WrapIs

\* The distance of two places in the ring.
LEMMA SpanIs ==
  ASSUME NEW f \in 0 .. N - 1, NEW l \in 0 .. N - 1
  PROVE  /\ Span(f, l) = (IF l >= f THEN l - f ELSE l + N - f)
         /\ Span(f, l) \in 0 .. N - 1
<1>1. N \in Nat \ {0}
  BY PendingAssumption DEF N
<1>2. l + N - f \in 0 .. 2 * N - 1
  BY <1>1
<1> DEFINE a == l + N - f
<1>3. a \in 0 .. 2 * N - 1 /\ Span(f, l) = Wrap(a)
  BY <1>2 DEF Span
<1> HIDE DEF a
<1>4. Span(f, l) = (IF a < N THEN a ELSE a - N)
  BY <1>3, WrapIs
<1> QED BY <1>1, <1>4 DEF a

\* The place of the k-th call.
LEMMA SlotIs ==
  ASSUME NEW f \in 0 .. N - 1, NEW k \in 1 .. N
  PROVE  /\ Slot(f, k) = (IF f + k - 1 < N THEN f + k - 1 ELSE f + k - 1 - N)
         /\ Slot(f, k) \in 0 .. N - 1
<1> DEFINE a == f + k - 1
<1>1. a \in 0 .. 2 * N - 1 /\ Slot(f, k) = Wrap(a)
  BY PendingAssumption DEF N, Slot
<1> HIDE DEF a
<1>2. Slot(f, k) = (IF a < N THEN a ELSE a - N) /\ Slot(f, k) \in 0 .. N - 1
  BY <1>1, WrapIs
<1> QED BY <1>2, PendingAssumption DEF a, N

\* A push makes the queue longer by one and takes the place behind the last call.
LEMMA SpanPush ==
  ASSUME NEW f \in 0 .. N - 1, NEW l \in 0 .. N - 1, Wrap(l + 1) # f
  PROVE  /\ Span(f, Wrap(l + 1)) = Span(f, l) + 1
         /\ Slot(f, Span(f, l) + 1) = l
         /\ \A k \in 1 .. Span(f, l) : Slot(f, k) # l
<1>1. N \in Nat \ {0}
  BY PendingAssumption DEF N
<1>2. /\ Wrap(l + 1) = (IF l = N - 1 THEN 0 ELSE l + 1)
      /\ Wrap(l + 1) \in 0 .. N - 1
  BY WrapNext
<1>3. Span(f, Wrap(l + 1)) = (IF Wrap(l + 1) >= f THEN Wrap(l + 1) - f
                                                  ELSE Wrap(l + 1) + N - f)
  BY <1>2, SpanIs
<1>4. /\ Span(f, l) = (IF l >= f THEN l - f ELSE l + N - f)
      /\ Span(f, l) \in 0 .. N - 1
  BY SpanIs
<1>5. Span(f, l) + 1 \in 1 .. N
  BY <1>1, <1>4
<1>6. Slot(f, Span(f, l) + 1) = (IF f + Span(f, l) < N THEN f + Span(f, l)
                                                       ELSE f + Span(f, l) - N)
  BY <1>1, <1>4, <1>5, SlotIs
<1>7. ASSUME NEW k \in 1 .. Span(f, l) PROVE Slot(f, k) # l
  <2>1. k \in 1 .. N
    BY <1>1, <1>4
  <2>2. Slot(f, k) = (IF f + k - 1 < N THEN f + k - 1 ELSE f + k - 1 - N)
    BY <2>1, SlotIs
  <2> QED BY <1>1, <1>4, <2>2
<1> QED BY <1>1, <1>2, <1>3, <1>4, <1>6, <1>7

\* A pop makes the queue shorter by one; the second call becomes the first.
LEMMA SpanPop ==
  ASSUME NEW f \in 0 .. N - 1, NEW l \in 0 .. N - 1, f # l
  PROVE  /\ Span(Wrap(f + 1), l) = Span(f, l) - 1
         /\ Span(f, l) \in 1 .. N - 1
         /\ Slot(f, 1) = f
         /\ \A k \in 1 .. Span(f, l) - 1 : Slot(Wrap(f + 1), k) = Slot(f, k + 1)
<1>1. N \in Nat \ {0}
  BY PendingAssumption DEF N
<1>2. /\ Wrap(f + 1) = (IF f = N - 1 THEN 0 ELSE f + 1)
      /\ Wrap(f + 1) \in 0 .. N - 1
  BY WrapNext
<1>3. Span(Wrap(f + 1), l) = (IF l >= Wrap(f + 1) THEN l - Wrap(f + 1)
                                                  ELSE l + N - Wrap(f + 1))
  BY <1>2, SpanIs
<1>4. /\ Span(f, l) = (IF l >= f THEN l - f ELSE l + N - f)
      /\ Span(f, l) \in 0 .. N - 1
  BY SpanIs
<1>5. Slot(f, 1) = f
  <2>1. 1 \in 1 .. N /\ f + 1 - 1 = f /\ f < N
    BY <1>1
  <2>2. Slot(f, 1) = (IF f + 1 - 1 < N THEN f + 1 - 1 ELSE f + 1 - 1 - N)
    BY <2>1, SlotIs
  <2> QED BY <2>1, <2>2
<1>6. ASSUME NEW k \in 1 .. Span(f, l) - 1 PROVE Slot(Wrap(f + 1), k) = Slot(f, k + 1)
  <2>1. k \in 1 .. N /\ k + 1 \in 1 .. N
    BY <1>1, <1>4
  <2>2. Slot(f, k + 1) = (IF f + k < N THEN f + k ELSE f + k - N)
    <3>1. f + (k + 1) - 1 = f + k
      BY <2>1
    <3> QED BY <2>1, <3>1, SlotIs
  <2>3. Slot(Wrap(f + 1), k) = (IF Wrap(f + 1) + k - 1 < N THEN Wrap(f + 1) + k - 1
                                                          ELSE Wrap(f + 1) + k - 1 - N)
    BY <1>2, <2>1, SlotIs
  <2> QED BY <1>1, <1>2, <2>1, <2>2, <2>3
<1> QED BY <1>1, <1>2, <1>3, <1>4, <1>5, <1>6

\* The queue as a sequence, from its first call on.
Queued(c, f, l) == [k \in 1 .. Span(f, l) |-> c[Slot(f, k)]]

\* It is a sequence of the calls in the places from first on.
LEMMA QueuedSeq ==
  ASSUME NEW c \in [0 .. N - 1 -> Nat], NEW f \in 0 .. N - 1, NEW l \in 0 .. N - 1
  PROVE  /\ Queued(c, f, l) \in Seq(Nat)
         /\ Len(Queued(c, f, l)) = Span(f, l)
         /\ \A k \in 1 .. Span(f, l) : Queued(c, f, l)[k] = c[Slot(f, k)]
<1>1. N \in Nat /\ Span(f, l) \in 0 .. N - 1
  BY PendingAssumption, SpanIs DEF N
<1>2. \A k \in 1 .. Span(f, l) : k \in 1 .. N
  BY <1>1
<1>3. \A k \in 1 .. Span(f, l) : c[Slot(f, k)] \in Nat
  BY <1>2, SlotIs
<1> QED BY <1>1, <1>3 DEF Queued

\* A push appends to it.
LEMMA QueuedPush ==
  ASSUME NEW c \in [0 .. N - 1 -> Nat], NEW f \in 0 .. N - 1, NEW l \in 0 .. N - 1,
         NEW x \in Nat, Wrap(l + 1) # f
  PROVE  Queued([c EXCEPT ![l] = x], f, Wrap(l + 1)) = Append(Queued(c, f, l), x)
<1> DEFINE d == [c EXCEPT ![l] = x]
           n == Span(f, l)
           s == Queued(c, f, l)
           m == Wrap(l + 1)
           u == Queued(d, f, m)
<1>1. d \in [0 .. N - 1 -> Nat] /\ m \in 0 .. N - 1 /\ n \in 0 .. N - 1
      /\ N \in Nat /\ d[l] = x
  BY WrapNext, SpanIs, PendingAssumption DEF N
<1>2. \A k \in 1 .. n : k \in 1 .. N
  BY <1>1
<1>3. \A k \in 1 .. n : d[Slot(f, k)] = c[Slot(f, k)]
  BY <1>2, SlotIs, SpanPush
<1>4. s \in Seq(Nat) /\ Len(s) = n /\ \A k \in 1 .. n : s[k] = c[Slot(f, k)]
  BY QueuedSeq
<1>5. Span(f, m) = n + 1 /\ Slot(f, n + 1) = l
  BY SpanPush
<1> HIDE DEF d, n, s, m
<1>6. u \in Seq(Nat) /\ Len(u) = n + 1 /\ \A k \in 1 .. n + 1 : u[k] = d[Slot(f, k)]
  <2>1. /\ u \in Seq(Nat) /\ Len(u) = Span(f, m)
        /\ \A k \in 1 .. Span(f, m) : u[k] = d[Slot(f, k)]
    BY <1>1, QueuedSeq
  <2> QED BY <1>5, <2>1
<1> HIDE DEF u
<1>7. Append(s, x) \in Seq(Nat) /\ Len(Append(s, x)) = n + 1 /\ Append(s, x)[n + 1] = x
      /\ \A k \in 1 .. n : Append(s, x)[k] = s[k]
  BY <1>4, AppendProperties
<1>8. \A k \in 1 .. n + 1 : k \in 1 .. n \/ k = n + 1
  BY <1>1
<1>9. \A k \in 1 .. n + 1 : u[k] = Append(s, x)[k]
  <2>1. ASSUME NEW k \in 1 .. n PROVE u[k] = Append(s, x)[k]
    <3>1. k \in 1 .. n + 1
      BY <1>1
    <3>2. u[k] = d[Slot(f, k)] /\ s[k] = c[Slot(f, k)]
      BY <1>4, <1>6, <3>1
    <3> QED BY <1>3, <1>7, <3>2
  <2>2. u[n + 1] = Append(s, x)[n + 1]
    <3>1. n + 1 \in 1 .. n + 1
      BY <1>1
    <3> QED BY <1>1, <1>5, <1>6, <1>7, <3>1
  <2> QED BY <1>8, <2>1, <2>2
<1>10. u = Append(s, x)
  BY <1>6, <1>7, <1>9, SeqEqual
<1> QED BY <1>10 DEF d, s, m, u

\* A pop takes its head.
LEMMA QueuedPop ==
  ASSUME NEW c \in [0 .. N - 1 -> Nat], NEW f \in 0 .. N - 1, NEW l \in 0 .. N - 1, f # l
  PROVE  Queued(c, f, l) = <<c[f]>> \o Queued(c, Wrap(f + 1), l)
<1> DEFINE n == Span(f, l)
           s == Queued(c, f, l)
           m == Wrap(f + 1)
           u == Queued(c, m, l)
<1>1. m \in 0 .. N - 1 /\ n \in 1 .. N - 1 /\ N \in Nat /\ c[f] \in Nat
  BY WrapNext, SpanPop, PendingAssumption DEF N
<1>2. s \in Seq(Nat) /\ Len(s) = n /\ \A k \in 1 .. n : s[k] = c[Slot(f, k)]
  BY QueuedSeq
<1>3. /\ Span(m, l) = n - 1 /\ Slot(f, 1) = f
      /\ \A k \in 1 .. n - 1 : Slot(m, k) = Slot(f, k + 1)
  BY SpanPop
<1> HIDE DEF n, m
<1>4. u \in Seq(Nat) /\ Len(u) = n - 1 /\ \A k \in 1 .. n - 1 : u[k] = c[Slot(f, k + 1)]
  <2>1. /\ u \in Seq(Nat) /\ Len(u) = Span(m, l)
        /\ \A k \in 1 .. Span(m, l) : u[k] = c[Slot(m, k)]
    BY <1>1, QueuedSeq
  <2> QED BY <1>3, <2>1
<1> DEFINE x == c[f]
<1> HIDE DEF s
<1>5. s[1] = x
  <2>1. 1 \in 1 .. n
    BY <1>1
  <2> QED BY <2>1, <1>2, <1>3
<1> HIDE DEF u, x
<1>6. /\ <<x>> \o u \in Seq(Nat) /\ Len(<<x>> \o u) = n /\ (<<x>> \o u)[1] = x
      /\ \A k \in 1 .. n - 1 : (<<x>> \o u)[k + 1] = u[k]
  <2>1. x \in Nat /\ <<x>> \in Seq(Nat) /\ Len(<<x>>) = 1 /\ <<x>>[1] = x
    BY <1>1 DEF x
  <2>2. /\ <<x>> \o u \in Seq(Nat) /\ Len(<<x>> \o u) = 1 + Len(u)
        /\ \A i \in 1 .. 1 + Len(u) :
             (<<x>> \o u)[i] = IF i <= 1 THEN <<x>>[i] ELSE u[i - 1]
    BY <1>4, <2>1, ConcatProperties
  <2>3. 1 + Len(u) = n /\ 1 \in 1 .. n
    BY <1>1, <1>4
  <2>4. ASSUME NEW k \in 1 .. n - 1 PROVE (<<x>> \o u)[k + 1] = u[k]
    <3>1. k + 1 \in 1 .. n /\ ~(k + 1 <= 1) /\ k + 1 - 1 = k
      BY <1>1
    <3> QED BY <2>2, <2>3, <3>1
  <2> QED BY <2>1, <2>2, <2>3, <2>4
<1>7. \A k \in 1 .. n - 1 : s[k + 1] = (<<x>> \o u)[k + 1]
  <2> TAKE k \in 1 .. n - 1
  <2>1. k + 1 \in 1 .. n
    BY <1>1
  <2> QED BY <2>1, <1>2, <1>4, <1>6
<1>8. \A k \in 1 .. n : k = 1 \/ (k - 1 \in 1 .. n - 1 /\ k = k - 1 + 1)
  BY <1>1
<1>9. \A k \in 1 .. n : s[k] = (<<x>> \o u)[k]
  BY <1>5, <1>6, <1>7, <1>8
<1>10. s = <<x>> \o u
  BY <1>2, <1>6, <1>9, SeqEqual
<1> QED BY <1>10 DEF s, u, x, m

\* Size and Contents are these.
LEMMA QueueIs ==
  /\ Size = Span(first, last) /\ Size' = Span(first', last')
  /\ Contents = Queued(calls, first, last)
  /\ Contents' = Queued(calls', first', last')
BY DEF Size, Contents, Queued, Span, Slot, Wrap, N


------------------------------------------------------------------------------
(* One step preserves each part                                            *)

\* Push leaves a full ring as it is, or writes behind the last call and moves the
\* end; the calls stay in order.
LEMMA PushRing ==
  ASSUME PendingInv, NEW t \in Thread, Push(t)
  PROVE  /\ \/ UNCHANGED ring
            \/ /\ Wrap(last + 1) # first /\ last' = Wrap(last + 1) /\ first' = first
               /\ calls' = [calls EXCEPT ![last] = Len(added) + 1]
               /\ added' = Append(added, Len(added) + 1) /\ called' = called
         /\ calls' \in [0 .. N - 1 -> Nat] /\ first' \in 0 .. N - 1 /\ last' \in 0 .. N - 1
         /\ added' \in Seq(Nat) /\ called' \in Seq(Nat)
         /\ InOrder'
<1>1. /\ calls \in [0 .. N - 1 -> Nat] /\ first \in 0 .. N - 1 /\ last \in 0 .. N - 1
      /\ added \in Seq(Nat) /\ called \in Seq(Nat)
      /\ added = called \o Queued(calls, first, last)
  BY QueueIs DEF PendingInv, TypeOK, InOrder, N
<1>2. CASE UNCHANGED ring
  <2>1. /\ calls' = calls /\ first' = first /\ last' = last
        /\ added' = added /\ called' = called
    BY <1>2 DEF ring
  <2> QED BY <1>1, <1>2, <2>1, QueueIs DEF InOrder
<1>3. CASE /\ Wrap(last + 1) # first /\ last' = Wrap(last + 1) /\ first' = first
           /\ calls' = [calls EXCEPT ![last] = Len(added) + 1]
           /\ added' = Append(added, Len(added) + 1) /\ called' = called
  <2> DEFINE c == Len(added) + 1
             q == Queued(calls, first, last)
  <2>1. c \in Nat
    BY <1>1, LenProperties
  <2> HIDE DEF c
  <2>2. last' \in 0 .. N - 1 /\ calls' \in [0 .. N - 1 -> Nat]
    BY <1>1, <1>3, <2>1, WrapNext DEF c
  <2>3. Queued(calls', first', last') = Append(q, c)
    BY <1>1, <1>3, <2>1, QueuedPush DEF c
  <2>4. q \in Seq(Nat) /\ added' = Append(called \o q, c)
    BY <1>1, <1>3, QueuedSeq DEF c
  <2> HIDE DEF q
  <2>5. Append(called \o q, c) = called \o Append(q, c)
    <3>1. <<c>> \in Seq(Nat) /\ called \in Seq(Nat) /\ q \in Seq(Nat)
      BY <1>1, <2>1, <2>4
    <3>2. (called \o q) \o <<c>> = called \o (q \o <<c>>) /\ called \o q \in Seq(Nat)
      BY <3>1, ConcatAssociative, ConcatProperties
    <3>3. /\ Append(called \o q, c) = (called \o q) \o <<c>>
          /\ Append(q, c) = q \o <<c>>
      BY <2>1, <3>1, <3>2, AppendIsConcat
    <3> QED BY <3>2, <3>3
  <2>6. added' \in Seq(Nat) /\ called' \in Seq(Nat)
    BY <1>1, <1>3, <2>1 DEF c
  <2>7. InOrder'
    BY <1>3, <2>3, <2>4, <2>5, QueueIs DEF InOrder
  <2> QED BY <1>1, <1>3, <2>2, <2>6, <2>7
<1>4. \/ UNCHANGED ring
      \/ /\ Wrap(last + 1) # first /\ last' = Wrap(last + 1) /\ first' = first
         /\ calls' = [calls EXCEPT ![last] = Len(added) + 1]
         /\ added' = Append(added, Len(added) + 1) /\ called' = called
  BY DEF Push, Wrap, N
<1> QED BY <1>2, <1>3, <1>4

\* The same for Pop, which leaves the ring alone when it ends the loop.
LEMMA PopRing ==
  ASSUME PendingInv, NEW t \in Thread, Pop(t)
  PROVE  /\ \/ UNCHANGED ring /\ (iter = N \/ first = last)
            \/ /\ first # last /\ first' = Wrap(first + 1) /\ iter # N
               /\ UNCHANGED <<calls, last, added>>
         /\ first' \in 0 .. N - 1 /\ called' \in Seq(Nat)
         /\ InOrder'
<1>1. /\ calls \in [0 .. N - 1 -> Nat] /\ first \in 0 .. N - 1 /\ last \in 0 .. N - 1
      /\ added \in Seq(Nat) /\ called \in Seq(Nat)
      /\ added = called \o Queued(calls, first, last)
  BY QueueIs DEF PendingInv, TypeOK, InOrder, N
<1>2. CASE iter = N \/ first = last
  <2>1. /\ calls' = calls /\ first' = first /\ last' = last
        /\ added' = added /\ called' = called
    BY <1>2 DEF Pop, N
  <2> QED BY <1>1, <1>2, <2>1, QueueIs DEF InOrder, ring
<1>3. CASE iter # N /\ first # last
  <2>1. /\ first' = Wrap(first + 1) /\ called' = Append(called, calls[first])
        /\ UNCHANGED <<calls, last, added>>
    BY <1>3 DEF Pop, Wrap, N
  <2> DEFINE x == calls[first]
             q == Queued(calls, first', last)
  <2>2. x \in Nat /\ first' \in 0 .. N - 1
    BY <1>1, <2>1, WrapNext
  <2>3. added = called \o (<<x>> \o q)
    BY <1>1, <1>3, <2>1, QueuedPop
  <2>4. q \in Seq(Nat)
    BY <1>1, <2>2, QueuedSeq
  <2> HIDE DEF x, q
  <2>5. called \o (<<x>> \o q) = Append(called, x) \o q
    <3>1. <<x>> \in Seq(Nat)
      BY <2>2
    <3>2. (called \o <<x>>) \o q = called \o (<<x>> \o q)
      BY <1>1, <2>4, <3>1, ConcatAssociative
    <3>3. called \o <<x>> = Append(called, x)
      BY <1>1, <2>2, AppendIsConcat
    <3> QED BY <3>2, <3>3
  <2>6. called' \in Seq(Nat)
    BY <1>1, <2>1, <2>2 DEF x
  <2>7. InOrder'
    BY <2>1, <2>3, <2>5, QueueIs DEF InOrder, q, x
  <2> QED BY <1>3, <2>1, <2>2, <2>6, <2>7
<1> QED BY <1>2, <1>3

\* Every step keeps the types; the loop variable stays in its bound.
LEMMA TypeStep ==
  ASSUME PendingInv, NEW t \in Thread, Step(t) \/ Optional(t)
  PROVE  TypeOK'
<1> USE PendingAssumption
    DEF PendingInv, Goto, TypeOK, ring, flags, lock, make, local, PC,
        AddLabels, MakeLabels, TakeLabels, DropLabels
<1>1. CASE ComputeLoad(t)
  <2>1. pc' \in [Thread -> PC] /\ loaded' \in [Thread -> BOOLEAN]
    BY <1>1 DEF ComputeLoad
  <2> QED BY <1>1, <2>1 DEF ComputeLoad
<1>2. CASE ComputeStore(t)
  <2>1. back[t] \in PC /\ loaded[t] \in BOOLEAN
    OBVIOUS
  <2>2. pc' \in [Thread -> PC] /\ eval_breaker' \in BOOLEAN
    BY <1>2, <2>1 DEF ComputeStore
  <2> QED BY <1>2, <2>2 DEF ComputeStore
<1>3. CASE AddPendingCall(t)
  BY <1>3 DEF AddPendingCall
<1>4. CASE Push(t)
  <2>1. /\ calls' \in [0 .. N - 1 -> Nat] /\ first' \in 0 .. N - 1 /\ last' \in 0 .. N - 1
        /\ added' \in Seq(Nat) /\ called' \in Seq(Nat)
    BY <1>4, PushRing
  <2> HIDE DEF PendingInv
  <2> QED BY <1>4, <2>1 DEF Push, PendingInv, N
<1>5. CASE SignalCalls(t)
  BY <1>5 DEF SignalCalls
<1>6. CASE CheckBreaker(t)
  BY <1>6 DEF CheckBreaker
<1>7. CASE HandleCalls(t)
  BY <1>7 DEF HandleCalls
<1>8. CASE MakeEntry(t)
  <2>1. pc' \in [Thread -> PC] /\ busy' \in BOOLEAN
    BY <1>8 DEF MakeEntry
  <2> QED BY <1>8, <2>1 DEF MakeEntry
<1>9. CASE Unsignal(t)
  <2>1. 0 \in 0 .. NPENDINGCALLS
    OBVIOUS
  <2> QED BY <1>9, <2>1 DEF Unsignal
<1>10. CASE Pop(t)
  <2>1. first' \in 0 .. N - 1 /\ called' \in Seq(Nat)
    BY <1>10, PopRing
  <2>2. pc' \in [Thread -> PC] /\ busy' \in BOOLEAN
    BY <1>10 DEF Pop
  <2>3. /\ last' = last /\ iter' = iter /\ calls' = calls /\ added' = added
        /\ UNCHANGED <<flags, lock, back, local>>
    BY <1>10 DEF Pop
  <2> QED BY <2>1, <2>2, <2>3 DEF N
<1>11. CASE CallbackReturns(t)
  <2>1. pc' = [pc EXCEPT ![t] = "pop"] => iter' \in 0 .. NPENDINGCALLS
    <3>1. t = Main /\ InCall(Main)
      BY <1>11 DEF CallbackReturns, LoopInv, InCall
    <3>2. iter < NPENDINGCALLS /\ iter \in 0 .. NPENDINGCALLS
      BY <3>1 DEF N, LoopInv
    <3>3. iter' = iter + 1 \/ iter' = iter
      BY <1>11 DEF CallbackReturns
    <3> QED BY <3>2, <3>3
  <2>2. iter' \in 0 .. NPENDINGCALLS
    <3>1. pc \in [Thread -> PC]
      OBVIOUS
    <3>2. pc' = [pc EXCEPT ![t] = "pop"] \/ iter' = iter
      BY <1>11 DEF CallbackReturns
    <3> QED BY <2>1, <3>2
  <2>3. pc' \in [Thread -> PC] /\ busy' \in BOOLEAN
    BY <1>11 DEF CallbackReturns
  <2>4. UNCHANGED <<ring, flags, lock, back, local>>
    BY <1>11 DEF CallbackReturns
  <2> QED BY <2>2, <2>3, <2>4
<1>12. CASE HandleDrop(t)
  <2>1. CASE gil_drop_request
    BY <1>12, <2>1 DEF HandleDrop, Release
  <2>2. CASE ~(gil_drop_request)
    BY <1>12, <2>2 DEF HandleDrop, Release
  <2> QED BY <2>1, <2>2
<1>13. CASE CallbackDrops(t)
  BY <1>13 DEF CallbackDrops, Release
<1>14. CASE Block(t)
  BY <1>14 DEF Block, Release
<1>15. CASE Dropped(t)
  BY <1>15 DEF Dropped, AfterDrop
<1>16. CASE SwitchTest(t)
  BY <1>16 DEF SwitchTest, AfterDrop
<1>17. CASE Switched(t)
  BY <1>17 DEF Switched, AfterDrop
<1>18. CASE Restore(t)
  BY <1>18 DEF Restore
<1>19. CASE Take(t)
  BY <1>19 DEF Take
<1>20. CASE Request(t)
  BY <1>20 DEF Request
<1>21. CASE RequestStore(t)
  BY <1>21 DEF RequestStore
<1>22. CASE TakeReset(t)
  BY <1>22 DEF TakeReset
<1> QED
  BY <1>1, <1>2, <1>3, <1>4, <1>5, <1>6, <1>7, <1>8, <1>9, <1>10, <1>11, <1>12, <1>13,
     <1>14, <1>15, <1>16, <1>17, <1>18, <1>19, <1>20, <1>21, <1>22
     DEF Step, Optional, Compute, Adding, Handling, Gil

\* make_pending_calls() is the main thread's, and busy while it runs.
LEMMA LoopStep ==
  ASSUME PendingInv, NEW t \in Thread, Step(t) \/ Optional(t)
  PROVE  LoopInv'
<1> USE PendingAssumption
    DEF PendingInv, Goto, TypeOK, ring, flags, lock, make, local, LoopInv, HoldInv,
        Holds, InCall, Detour, PC, AddLabels, MakeLabels, TakeLabels, DropLabels
<1>1. CASE ComputeLoad(t)
  BY <1>1 DEF ComputeLoad
<1>2. CASE ComputeStore(t)
  BY <1>2 DEF ComputeStore
<1>3. CASE AddPendingCall(t)
  BY <1>3 DEF AddPendingCall
<1>4. CASE Push(t)
  BY <1>4 DEF Push
<1>5. CASE SignalCalls(t)
  BY <1>5 DEF SignalCalls
<1>6. CASE CheckBreaker(t)
  BY <1>6 DEF CheckBreaker
<1>7. CASE HandleCalls(t)
  BY <1>7 DEF HandleCalls
<1>8. CASE MakeEntry(t)
  <2>1. CASE t = Main /\ ~busy
    BY <1>8, <2>1 DEF MakeEntry
  <2>2. CASE ~(t = Main /\ ~busy)
    BY <1>8, <2>2 DEF MakeEntry
  <2> QED BY <2>1, <2>2
<1>9. CASE Unsignal(t)
  BY <1>9 DEF Unsignal
<1>10. CASE Pop(t)
  <2>1. t = Main /\ busy /\ ~InCall(Main) /\ iter \in 0 .. N
    BY <1>10 DEF Pop, N
  <2>2. CASE iter = N \/ first = last
    <3>1. pc' = [pc EXCEPT ![Main] = "handle_drop"] /\ busy' = FALSE /\ back' = back
      BY <1>10, <2>1, <2>2 DEF Pop, N
    <3> QED BY <2>1, <3>1
  <2>3. CASE iter # N /\ first # last
    <3>1. iter < N
      BY <2>1, <2>3 DEF N
    <3>2. pc' = [pc EXCEPT ![Main] = "call"] /\ busy' = busy /\ iter' = iter /\ back' = back
      BY <1>10, <2>1, <2>3 DEF Pop, N
    <3> QED BY <2>1, <3>1, <3>2
  <2> QED BY <2>2, <2>3
<1>11. CASE CallbackReturns(t)
  BY <1>11 DEF CallbackReturns
<1>12. CASE HandleDrop(t)
  <2>1. /\ pc[t] = "handle_drop" /\ busy' = busy /\ iter' = iter
        /\ \/ pc' = [pc EXCEPT ![t] = "dropped"] /\ back' = [back EXCEPT ![t] = "eval"]
           \/ pc' = [pc EXCEPT ![t] = "eval"] /\ back' = back
    BY <1>12 DEF HandleDrop, Release
  <2>2. \A u \in Thread \ {t} : pc'[u] = pc[u] /\ back'[u] = back[u]
    BY <2>1
  <2>3. /\ pc'[t] = "eval" \/ (pc'[t] = "dropped" /\ back'[t] = "eval")
        /\ ~InCall(t)' /\ ~InCall(t)
    BY <2>1
  <2>4. \A u \in Thread \ {t} : InCall(u)' <=> InCall(u)
    BY <2>2
  <2> HIDE DEF InCall
  <2> QED BY <2>1, <2>2, <2>3, <2>4
<1>13. CASE CallbackDrops(t)
  BY <1>13 DEF CallbackDrops, Release
<1>14. CASE Block(t)
  BY <1>14 DEF Block, Release
<1>15. CASE Dropped(t)
  BY <1>15 DEF Dropped, AfterDrop
<1>16. CASE SwitchTest(t)
  BY <1>16 DEF SwitchTest, AfterDrop
<1>17. CASE Switched(t)
  BY <1>17 DEF Switched, AfterDrop
<1>18. CASE Restore(t)
  BY <1>18 DEF Restore
<1>19. CASE Take(t)
  BY <1>19 DEF Take
<1>20. CASE Request(t)
  BY <1>20 DEF Request
<1>21. CASE RequestStore(t)
  BY <1>21 DEF RequestStore
<1>22. CASE TakeReset(t)
  BY <1>22 DEF TakeReset
<1> QED
  BY <1>1, <1>2, <1>3, <1>4, <1>5, <1>6, <1>7, <1>8, <1>9, <1>10, <1>11, <1>12, <1>13,
     <1>14, <1>15, <1>16, <1>17, <1>18, <1>19, <1>20, <1>21, <1>22
     DEF Step, Optional, Compute, Adding, Handling, Gil

\* Who computes eval_breaker has the GIL, or nobody has.
LEMMA HoldStep ==
  ASSUME PendingInv, NEW t \in Thread, Step(t) \/ Optional(t)
  PROVE  HoldInv'
<1> USE PendingAssumption
    DEF PendingInv, Goto, TypeOK, ring, flags, lock, make, local, HoldInv, Holds, PC,
        AddLabels, MakeLabels, TakeLabels, DropLabels
<1>1. CASE ComputeLoad(t)
  BY <1>1 DEF ComputeLoad
<1>2. CASE ComputeStore(t)
  <2>1. \A u \in Thread \ {t} : Holds(u)'
    BY <1>2 DEF ComputeStore
  <2>2. pc'[t] \in {"eval", "call", "outside", "pop", "sw_wait"}
    BY <1>2 DEF ComputeStore
  <2>3. Holds(t)'
    BY <1>2, <2>2 DEF ComputeStore
  <2> QED BY <1>2, <2>1, <2>2, <2>3 DEF ComputeStore
<1>3. CASE AddPendingCall(t)
  <2>1. \A u \in Thread \ {t} : Holds(u)'
    BY <1>3 DEF AddPendingCall
  <2>2. /\ pc[t] \in {"eval", "call", "outside"} /\ pc'[t] = "add_push" /\ back'[t] = pc[t]
        /\ (pc[t] = "outside" => stray') /\ gil' = gil
    BY <1>3 DEF AddPendingCall
  <2>3. Holds(t)'
    BY <2>2
  <2> QED BY <1>3, <2>1, <2>2, <2>3 DEF AddPendingCall
<1>4. CASE Push(t)
  BY <1>4 DEF Push
<1>5. CASE SignalCalls(t)
  BY <1>5 DEF SignalCalls
<1>6. CASE CheckBreaker(t)
  BY <1>6 DEF CheckBreaker
<1>7. CASE HandleCalls(t)
  BY <1>7 DEF HandleCalls
<1>8. CASE MakeEntry(t)
  BY <1>8 DEF MakeEntry
<1>9. CASE Unsignal(t)
  BY <1>9 DEF Unsignal
<1>10. CASE Pop(t)
  BY <1>10 DEF Pop
<1>11. CASE CallbackReturns(t)
  BY <1>11 DEF CallbackReturns
<1>12. CASE HandleDrop(t)
  <2>1. CASE gil_drop_request
    <3>1. /\ gil = t /\ gil' = NoThread /\ back' = [back EXCEPT ![t] = "eval"]
          /\ pc' = [pc EXCEPT ![t] = "dropped"] /\ stray' = stray
      BY <1>12, <2>1 DEF HandleDrop, Release
    <3> QED BY <3>1
  <2>2. CASE ~gil_drop_request
    BY <1>12, <2>2 DEF HandleDrop
  <2> QED BY <2>1, <2>2
<1>13. CASE CallbackDrops(t)
  BY <1>13 DEF CallbackDrops, Release
<1>14. CASE Block(t)
  BY <1>14 DEF Block, Release
<1>15. CASE Dropped(t)
  BY <1>15 DEF Dropped, AfterDrop
<1>16. CASE SwitchTest(t)
  BY <1>16 DEF SwitchTest, AfterDrop
<1>17. CASE Switched(t)
  BY <1>17 DEF Switched, AfterDrop
<1>18. CASE Restore(t)
  BY <1>18 DEF Restore
<1>19. CASE Take(t)
  <2>1. /\ gil = NoThread /\ gil' = t /\ last_holder' = t /\ NoThread \notin Thread
        /\ pc[t] = "take" /\ pc' = [pc EXCEPT ![t] = "tk_reset"]
        /\ \A u \in Thread : pc[u] \notin {"sw_load", "sw_store"}
        /\ UNCHANGED <<back, stray>>
    BY <1>19 DEF Take, SwitchMutexFree
  <2>2. \A u \in Thread \ {t} : Holds(u)'
    BY <2>1
  <2>3. Holds(t)'
    BY <2>1
  <2> QED BY <2>1, <2>2, <2>3
<1>20. CASE Request(t)
  BY <1>20 DEF Request
<1>21. CASE RequestStore(t)
  BY <1>21 DEF RequestStore
<1>22. CASE TakeReset(t)
  BY <1>22 DEF TakeReset
<1> QED
  BY <1>1, <1>2, <1>3, <1>4, <1>5, <1>6, <1>7, <1>8, <1>9, <1>10, <1>11, <1>12, <1>13,
     <1>14, <1>15, <1>16, <1>17, <1>18, <1>19, <1>20, <1>21, <1>22
     DEF Step, Optional, Compute, Adding, Handling, Gil

\* calls_to_do is seen by the main thread when it has the GIL.
LEMMA SeenStep ==
  ASSUME PendingInv, NEW t \in Thread, Step(t) \/ Optional(t)
  PROVE  SeenInv'
<1> USE PendingAssumption
    DEF PendingInv, Goto, TypeOK, ring, flags, lock, make, local, HoldInv, Holds,
        SeenInv, ComputeLabels, StoreLabels, PC, AddLabels, MakeLabels, TakeLabels,
        DropLabels
<1>1. CASE ComputeLoad(t)
  BY <1>1 DEF ComputeLoad
<1>2. CASE ComputeStore(t)
  BY <1>2 DEF ComputeStore
<1>3. CASE AddPendingCall(t)
  BY <1>3 DEF AddPendingCall
<1>4. CASE Push(t)
  BY <1>4 DEF Push
<1>5. CASE SignalCalls(t)
  BY <1>5 DEF SignalCalls
<1>6. CASE CheckBreaker(t)
  BY <1>6 DEF CheckBreaker
<1>7. CASE HandleCalls(t)
  BY <1>7 DEF HandleCalls
<1>8. CASE MakeEntry(t)
  BY <1>8 DEF MakeEntry
<1>9. CASE Unsignal(t)
  BY <1>9 DEF Unsignal
<1>10. CASE Pop(t)
  BY <1>10 DEF Pop
<1>11. CASE CallbackReturns(t)
  BY <1>11 DEF CallbackReturns
<1>12. CASE HandleDrop(t)
  <2>1. CASE gil_drop_request
    BY <1>12, <2>1 DEF HandleDrop, Release
  <2>2. CASE ~(gil_drop_request)
    BY <1>12, <2>2 DEF HandleDrop, Release
  <2> QED BY <2>1, <2>2
<1>13. CASE CallbackDrops(t)
  BY <1>13 DEF CallbackDrops, Release
<1>14. CASE Block(t)
  BY <1>14 DEF Block, Release
<1>15. CASE Dropped(t)
  BY <1>15 DEF Dropped, AfterDrop
<1>16. CASE SwitchTest(t)
  BY <1>16 DEF SwitchTest, AfterDrop
<1>17. CASE Switched(t)
  BY <1>17 DEF Switched, AfterDrop
<1>18. CASE Restore(t)
  BY <1>18 DEF Restore
<1>19. CASE Take(t)
  BY <1>19 DEF Take
<1>20. CASE Request(t)
  BY <1>20 DEF Request
<1>21. CASE RequestStore(t)
  BY <1>21 DEF RequestStore
<1>22. CASE TakeReset(t)
  BY <1>22 DEF TakeReset
<1> QED
  BY <1>1, <1>2, <1>3, <1>4, <1>5, <1>6, <1>7, <1>8, <1>9, <1>10, <1>11, <1>12, <1>13,
     <1>14, <1>15, <1>16, <1>17, <1>18, <1>19, <1>20, <1>21, <1>22
     DEF Step, Optional, Compute, Adding, Handling, Gil

\* A step that changes no more than the pc of one thread, outside the loop and
\* not from where it announces calls, leaves what is announced alone.
LEMMA QuietAnnounced ==
  ASSUME PendingInv, LoopInv', NEW t \in Thread, UNCHANGED <<first, last, iter>>,
         calls_to_do => calls_to_do', busy => busy', InCall(Main)' => InCall(Main),
         NEW l, pc' = [pc EXCEPT ![t] = l],
         pc[t] \in {"add_signal", "err_signal"} => calls_to_do'
  PROVE  AnnouncedInv'
<1>1. pc \in [Thread -> PC] /\ Size \in 0 .. N - 1 /\ Size' = Size /\ iter \in 0 .. N
      /\ N \in Nat /\ iter' = iter
  BY QueueIs, SpanIs, PendingAssumption DEF PendingInv, TypeOK, N
<1> HIDE DEF Size
<1>2. CASE first = last
  BY <1>2 DEF AnnouncedInv
<1>3. CASE calls_to_do
  BY <1>3 DEF AnnouncedInv
<1>4. ASSUME NEW u \in Thread, pc[u] \in {"add_signal", "err_signal"}
      PROVE  AnnouncedInv'
  <2>1. CASE u = t
    BY <1>4, <2>1 DEF AnnouncedInv
  <2>2. CASE u # t
    <3>1. pc'[u] = pc[u]
      BY <1>1, <2>2
    <3> QED BY <1>4, <3>1 DEF AnnouncedInv
  <2> QED BY <2>1, <2>2
<1>5. CASE busy /\ Size + (IF InCall(Main) THEN 1 ELSE 0) <= N - iter
  BY <1>1, <1>5 DEF AnnouncedInv
<1> QED BY <1>2, <1>3, <1>4, <1>5 DEF PendingInv, AnnouncedInv

\* What is in the queue stays announced.
LEMMA AnnouncedStep ==
  ASSUME PendingInv, NEW t \in Thread, Step(t) \/ Optional(t)
  PROVE  AnnouncedInv'
<1> USE PendingAssumption DEF PendingInv, Goto
<1>1. CASE ComputeLoad(t)
  <2>1. /\ \E l : pc' = [pc EXCEPT ![t] = l]
        /\ pc[t] \in {"add_signal", "err_signal"} => calls_to_do'
        /\ UNCHANGED <<first, last, iter>> /\ (calls_to_do => calls_to_do')
        /\ (busy => busy')
    BY <1>1 DEF ComputeLoad, ring, flags, make
  <2>2. InCall(Main)' => InCall(Main)
    BY <1>1 DEF ComputeLoad, TypeOK, ring, InCall, Detour, PC, AddLabels, MakeLabels,
                TakeLabels, DropLabels
  <2> QED BY <2>1, <2>2, LoopStep, QuietAnnounced
<1>2. CASE ComputeStore(t)
  <2>1. /\ \E l : pc' = [pc EXCEPT ![t] = l]
        /\ pc[t] \in {"add_signal", "err_signal"} => calls_to_do'
        /\ UNCHANGED <<first, last, iter>> /\ (calls_to_do => calls_to_do')
        /\ (busy => busy')
    BY <1>2 DEF ComputeStore, ring, flags, make
  <2>2. InCall(Main)' => InCall(Main)
    BY <1>2 DEF ComputeStore, TypeOK, ring, InCall, Detour, PC, AddLabels, MakeLabels,
                TakeLabels, DropLabels
  <2> QED BY <2>1, <2>2, LoopStep, QuietAnnounced
<1>3. CASE AddPendingCall(t)
  <2>1. /\ \E l : pc' = [pc EXCEPT ![t] = l]
        /\ pc[t] \in {"add_signal", "err_signal"} => calls_to_do'
        /\ UNCHANGED <<first, last, iter>> /\ (calls_to_do => calls_to_do')
        /\ (busy => busy')
    BY <1>3 DEF AddPendingCall, ring, flags, make
  <2>2. InCall(Main)' => InCall(Main)
    BY <1>3 DEF AddPendingCall, TypeOK, ring, InCall, Detour, PC, AddLabels,
                MakeLabels, TakeLabels, DropLabels
  <2> QED BY <2>1, <2>2, LoopStep, QuietAnnounced
<1>4. CASE Push(t)
  <2>1. pc'[t] = "add_signal"
    BY <1>4 DEF Push, TypeOK
  <2> QED BY <2>1 DEF AnnouncedInv
<1>5. CASE SignalCalls(t)
  <2>1. /\ \E l : pc' = [pc EXCEPT ![t] = l]
        /\ pc[t] \in {"add_signal", "err_signal"} => calls_to_do'
        /\ UNCHANGED <<first, last, iter>> /\ (calls_to_do => calls_to_do')
        /\ (busy => busy')
    BY <1>5 DEF SignalCalls, ring, flags, make
  <2>2. InCall(Main)' => InCall(Main)
    BY <1>5 DEF SignalCalls, TypeOK, ring, InCall, Detour, PC, AddLabels, MakeLabels,
                TakeLabels, DropLabels
  <2> QED BY <2>1, <2>2, LoopStep, QuietAnnounced
<1>6. CASE CheckBreaker(t)
  <2>1. /\ \E l : pc' = [pc EXCEPT ![t] = l]
        /\ pc[t] \in {"add_signal", "err_signal"} => calls_to_do'
        /\ UNCHANGED <<first, last, iter>> /\ (calls_to_do => calls_to_do')
        /\ (busy => busy')
    BY <1>6 DEF CheckBreaker, ring, flags, make
  <2>2. InCall(Main)' => InCall(Main)
    BY <1>6 DEF CheckBreaker, TypeOK, ring, InCall, Detour, PC, AddLabels, MakeLabels,
                TakeLabels, DropLabels
  <2> QED BY <2>1, <2>2, LoopStep, QuietAnnounced
<1>7. CASE HandleCalls(t)
  <2>1. /\ \E l : pc' = [pc EXCEPT ![t] = l]
        /\ pc[t] \in {"add_signal", "err_signal"} => calls_to_do'
        /\ UNCHANGED <<first, last, iter>> /\ (calls_to_do => calls_to_do')
        /\ (busy => busy')
    BY <1>7 DEF HandleCalls, ring, flags, make
  <2>2. InCall(Main)' => InCall(Main)
    BY <1>7 DEF HandleCalls, TypeOK, ring, InCall, Detour, PC, AddLabels, MakeLabels,
                TakeLabels, DropLabels
  <2> QED BY <2>1, <2>2, LoopStep, QuietAnnounced
<1>8. CASE MakeEntry(t)
  <2>1. /\ \E l : pc' = [pc EXCEPT ![t] = l]
        /\ pc[t] \in {"add_signal", "err_signal"} => calls_to_do'
        /\ UNCHANGED <<first, last, iter>> /\ (calls_to_do => calls_to_do')
        /\ (busy => busy')
    BY <1>8 DEF MakeEntry, ring, flags, make
  <2>2. InCall(Main)' => InCall(Main)
    BY <1>8 DEF MakeEntry, TypeOK, ring, InCall, Detour, PC, AddLabels, MakeLabels,
                TakeLabels, DropLabels
  <2> QED BY <2>1, <2>2, LoopStep, QuietAnnounced
<1>9. CASE Unsignal(t)
  <2>1. t = Main /\ busy /\ ~InCall(Main)
    BY <1>9 DEF Unsignal, LoopInv, InCall, Detour, MakeLabels, AddLabels, TakeLabels,
                DropLabels
  <2>2. busy' /\ iter' = 0 /\ ~InCall(Main)' /\ first' = first /\ last' = last
    BY <1>9, <2>1 DEF Unsignal, make, ring, TypeOK, InCall, Detour, AddLabels,
                      TakeLabels, DropLabels
  <2>3. Size' \in 0 .. N - 1
    BY <2>2, QueueIs, SpanIs DEF TypeOK, N
  <2> HIDE DEF Size
  <2> QED BY <2>2, <2>3 DEF AnnouncedInv, N
<1>10. CASE Pop(t)
  <2>1. t = Main /\ busy /\ ~InCall(Main) /\ iter \in 0 .. N
    BY <1>10 DEF Pop, LoopInv, InCall, Detour, TypeOK, N, PC, AddLabels, MakeLabels,
                 TakeLabels, DropLabels
  <2>2. \A u \in Thread : pc[u] \in {"add_signal", "err_signal"} => pc'[u] = pc[u]
    BY <1>10 DEF Pop, TypeOK
  <2>3. Size \in 0 .. N - 1 /\ N \in Nat
    BY QueueIs, SpanIs, PendingAssumption DEF TypeOK, N
  <2>4. CASE iter = N \/ first = last
    <3>1. first' = first /\ last' = last /\ calls_to_do' = calls_to_do
      BY <1>10, <2>4 DEF Pop, flags, N
    <3>2. Size = 0 => first = last
      <4>1. first \in 0 .. N - 1 /\ last \in 0 .. N - 1 /\ Size = Span(first, last)
        BY QueueIs DEF TypeOK, N
      <4>2. Size = (IF last >= first THEN last - first ELSE last + N - first)
        BY <4>1, SpanIs
      <4> QED BY <2>3, <4>1, <4>2
    <3> HIDE DEF Size
    <3>3. Size <= N - iter => first = last
      BY <2>1, <2>3, <2>4, <3>2
    <3> QED BY <2>1, <2>2, <2>3, <3>1, <3>3 DEF AnnouncedInv
  <2>5. CASE iter # N /\ first # last
    <3>1. /\ busy' /\ iter' = iter /\ InCall(Main)' /\ calls_to_do' = calls_to_do
      BY <1>10, <2>1, <2>5 DEF Pop, TypeOK, InCall, flags, make, N
    <3>2. Size' = Size - 1
      BY <1>10, <2>5, PopRing, QueueIs, SpanPop DEF TypeOK, N, ring
    <3> HIDE DEF Size
    <3> QED BY <2>1, <2>2, <2>3, <2>5, <3>1, <3>2 DEF AnnouncedInv
  <2> QED BY <2>4, <2>5
<1>11. CASE CallbackReturns(t)
  <2>1. t = Main /\ busy /\ InCall(Main) /\ iter \in 0 .. N /\ pc[t] = "call"
    BY <1>11 DEF CallbackReturns, LoopInv, InCall, TypeOK, N
  <2>2. \A u \in Thread : pc[u] \in {"add_signal", "err_signal"} => pc'[u] = pc[u]
    BY <2>1, <1>11 DEF CallbackReturns, TypeOK
  <2>3. /\ first' = first /\ last' = last /\ calls_to_do' = calls_to_do
        /\ Size' = Size
    BY <1>11, QueueIs DEF CallbackReturns, ring, flags
  <2>4. CASE pc' = [pc EXCEPT ![t] = "err_signal"]
    <3>1. pc'[t] = "err_signal"
      BY <2>4 DEF TypeOK
    <3> QED BY <3>1 DEF AnnouncedInv
  <2>5. CASE pc' = [pc EXCEPT ![t] = "pop"] /\ iter' = iter + 1 /\ busy' = busy
    <3>1. ~InCall(Main)'
      BY <2>1, <2>5 DEF InCall, Detour, TypeOK, AddLabels, TakeLabels, DropLabels
    <3>2. Size \in 0 .. N - 1 /\ N \in Nat
      BY QueueIs, SpanIs, PendingAssumption DEF TypeOK, N
    <3> HIDE DEF Size
    <3> QED BY <2>1, <2>2, <2>3, <2>5, <3>1, <3>2 DEF AnnouncedInv
  <2> QED BY <1>11, <2>4, <2>5 DEF CallbackReturns
<1>12. CASE HandleDrop(t)
  <2>1. /\ \E l : pc' = [pc EXCEPT ![t] = l]
        /\ pc[t] \in {"add_signal", "err_signal"} => calls_to_do'
        /\ UNCHANGED <<first, last, iter>> /\ (calls_to_do => calls_to_do')
        /\ (busy => busy')
    BY <1>12 DEF HandleDrop, ring, flags, make, Release
  <2>2. InCall(Main)' => InCall(Main)
    BY <1>12 DEF HandleDrop, TypeOK, ring, InCall, Detour, Release, PC, AddLabels,
                 MakeLabels, TakeLabels, DropLabels
  <2> QED BY <2>1, <2>2, LoopStep, QuietAnnounced
<1>13. CASE CallbackDrops(t)
  <2>1. /\ \E l : pc' = [pc EXCEPT ![t] = l]
        /\ pc[t] \in {"add_signal", "err_signal"} => calls_to_do'
        /\ UNCHANGED <<first, last, iter>> /\ (calls_to_do => calls_to_do')
        /\ (busy => busy')
    BY <1>13 DEF CallbackDrops, ring, flags, make, Release
  <2>2. InCall(Main)' => InCall(Main)
    BY <1>13 DEF CallbackDrops, TypeOK, ring, InCall, Detour, Release, PC, AddLabels,
                 MakeLabels, TakeLabels, DropLabels
  <2> QED BY <2>1, <2>2, LoopStep, QuietAnnounced
<1>14. CASE Block(t)
  <2>1. /\ \E l : pc' = [pc EXCEPT ![t] = l]
        /\ pc[t] \in {"add_signal", "err_signal"} => calls_to_do'
        /\ UNCHANGED <<first, last, iter>> /\ (calls_to_do => calls_to_do')
        /\ (busy => busy')
    BY <1>14 DEF Block, ring, flags, make, Release
  <2>2. InCall(Main)' => InCall(Main)
    BY <1>14 DEF Block, TypeOK, ring, InCall, Detour, Release, PC, AddLabels,
                 MakeLabels, TakeLabels, DropLabels
  <2> QED BY <2>1, <2>2, LoopStep, QuietAnnounced
<1>15. CASE Dropped(t)
  <2>1. /\ \E l : pc' = [pc EXCEPT ![t] = l]
        /\ pc[t] \in {"add_signal", "err_signal"} => calls_to_do'
        /\ UNCHANGED <<first, last, iter>> /\ (calls_to_do => calls_to_do')
        /\ (busy => busy')
    BY <1>15 DEF Dropped, ring, flags, make, AfterDrop
  <2>2. InCall(Main)' => InCall(Main)
    BY <1>15 DEF Dropped, TypeOK, ring, InCall, Detour, AfterDrop, PC, AddLabels,
                 MakeLabels, TakeLabels, DropLabels
  <2> QED BY <2>1, <2>2, LoopStep, QuietAnnounced
<1>16. CASE SwitchTest(t)
  <2>1. /\ \E l : pc' = [pc EXCEPT ![t] = l]
        /\ pc[t] \in {"add_signal", "err_signal"} => calls_to_do'
        /\ UNCHANGED <<first, last, iter>> /\ (calls_to_do => calls_to_do')
        /\ (busy => busy')
    BY <1>16 DEF SwitchTest, ring, flags, make, AfterDrop
  <2>2. InCall(Main)' => InCall(Main)
    BY <1>16 DEF SwitchTest, TypeOK, ring, InCall, Detour, AfterDrop, PC, AddLabels,
                 MakeLabels, TakeLabels, DropLabels
  <2> QED BY <2>1, <2>2, LoopStep, QuietAnnounced
<1>17. CASE Switched(t)
  <2>1. /\ \E l : pc' = [pc EXCEPT ![t] = l]
        /\ pc[t] \in {"add_signal", "err_signal"} => calls_to_do'
        /\ UNCHANGED <<first, last, iter>> /\ (calls_to_do => calls_to_do')
        /\ (busy => busy')
    BY <1>17 DEF Switched, ring, flags, make, AfterDrop
  <2>2. InCall(Main)' => InCall(Main)
    BY <1>17 DEF Switched, TypeOK, ring, InCall, Detour, AfterDrop, PC, AddLabels,
                 MakeLabels, TakeLabels, DropLabels
  <2> QED BY <2>1, <2>2, LoopStep, QuietAnnounced
<1>18. CASE Restore(t)
  <2>1. /\ \E l : pc' = [pc EXCEPT ![t] = l]
        /\ pc[t] \in {"add_signal", "err_signal"} => calls_to_do'
        /\ UNCHANGED <<first, last, iter>> /\ (calls_to_do => calls_to_do')
        /\ (busy => busy')
    BY <1>18 DEF Restore, ring, flags, make
  <2>2. InCall(Main)' => InCall(Main)
    BY <1>18 DEF Restore, TypeOK, ring, InCall, Detour, PC, AddLabels, MakeLabels,
                 TakeLabels, DropLabels
  <2> QED BY <2>1, <2>2, LoopStep, QuietAnnounced
<1>19. CASE Take(t)
  <2>1. /\ \E l : pc' = [pc EXCEPT ![t] = l]
        /\ pc[t] \in {"add_signal", "err_signal"} => calls_to_do'
        /\ UNCHANGED <<first, last, iter>> /\ (calls_to_do => calls_to_do')
        /\ (busy => busy')
    BY <1>19 DEF Take, ring, flags, make
  <2>2. InCall(Main)' => InCall(Main)
    BY <1>19 DEF Take, TypeOK, ring, InCall, Detour, PC, AddLabels, MakeLabels,
                 TakeLabels, DropLabels
  <2> QED BY <2>1, <2>2, LoopStep, QuietAnnounced
<1>20. CASE Request(t)
  <2>1. /\ \E l : pc' = [pc EXCEPT ![t] = l]
        /\ pc[t] \in {"add_signal", "err_signal"} => calls_to_do'
        /\ UNCHANGED <<first, last, iter>> /\ (calls_to_do => calls_to_do')
        /\ (busy => busy')
    BY <1>20 DEF Request, ring, flags, make
  <2>2. InCall(Main)' => InCall(Main)
    BY <1>20 DEF Request, TypeOK, ring, InCall, Detour, PC, AddLabels, MakeLabels,
                 TakeLabels, DropLabels
  <2> QED BY <2>1, <2>2, LoopStep, QuietAnnounced
<1>21. CASE RequestStore(t)
  <2>1. /\ \E l : pc' = [pc EXCEPT ![t] = l]
        /\ pc[t] \in {"add_signal", "err_signal"} => calls_to_do'
        /\ UNCHANGED <<first, last, iter>> /\ (calls_to_do => calls_to_do')
        /\ (busy => busy')
    BY <1>21 DEF RequestStore, ring, flags, make
  <2>2. InCall(Main)' => InCall(Main)
    BY <1>21 DEF RequestStore, TypeOK, ring, InCall, Detour, PC, AddLabels, MakeLabels,
                 TakeLabels, DropLabels
  <2> QED BY <2>1, <2>2, LoopStep, QuietAnnounced
<1>22. CASE TakeReset(t)
  <2>1. /\ \E l : pc' = [pc EXCEPT ![t] = l]
        /\ pc[t] \in {"add_signal", "err_signal"} => calls_to_do'
        /\ UNCHANGED <<first, last, iter>> /\ (calls_to_do => calls_to_do')
        /\ (busy => busy')
    BY <1>22 DEF TakeReset, ring, flags, make
  <2>2. InCall(Main)' => InCall(Main)
    BY <1>22 DEF TakeReset, TypeOK, ring, InCall, Detour, PC, AddLabels, MakeLabels,
                 TakeLabels, DropLabels
  <2> QED BY <2>1, <2>2, LoopStep, QuietAnnounced
<1> QED
  BY <1>1, <1>2, <1>3, <1>4, <1>5, <1>6, <1>7, <1>8, <1>9, <1>10, <1>11, <1>12, <1>13,
     <1>14, <1>15, <1>16, <1>17, <1>18, <1>19, <1>20, <1>21, <1>22
     DEF Step, Optional, Compute, Adding, Handling, Gil

\* Only Push and Pop touch the ring; both keep the order of the calls.
LEMMA OrderStep ==
  ASSUME PendingInv, NEW t \in Thread, Step(t) \/ Optional(t)
  PROVE  InOrder'
<1>1. CASE Push(t)
  BY <1>1, PushRing
<1>2. CASE Pop(t)
  BY <1>2, PopRing
<1>3. CASE UNCHANGED ring
  BY <1>3, QueueIs DEF PendingInv, InOrder, ring
<1>4. Push(t) \/ Pop(t) \/ UNCHANGED ring
  BY DEF Step, Optional, Compute, Adding, Handling, Gil, ComputeLoad, ComputeStore,
         AddPendingCall, SignalCalls, CheckBreaker, HandleCalls, MakeEntry, Unsignal,
         CallbackReturns, HandleDrop, CallbackDrops, Block, Dropped, SwitchTest,
         Switched, Restore, Take, Request, RequestStore, TakeReset, Release
<1> QED BY <1>1, <1>2, <1>3, <1>4

------------------------------------------------------------------------------
(* Theorems                                                                *)

\* The main thread runs bytecode, the others wait outside, nothing is queued.
LEMMA PendingInit == Init => PendingInv
<1> SUFFICES ASSUME Init PROVE PendingInv
  OBVIOUS
<1> USE PendingAssumption
<1>1. N \in Nat \ {0} /\ 0 \in 0 .. N - 1 /\ 0 \in 0 .. N
  BY DEF N
<1>2. TypeOK
  <2>1. /\ calls \in [0 .. NPENDINGCALLS - 1 -> Nat] /\ added \in Seq(Nat)
        /\ called \in Seq(Nat) /\ pc \in [Thread -> PC]
        /\ back \in [Thread -> {"outside", "eval", "call"}]
        /\ loaded \in [Thread -> BOOLEAN]
    BY DEF Init, PC
  <2> QED BY <1>1, <2>1 DEF Init, TypeOK, N
<1>3. Span(first, last) = 0
  BY <1>1, SpanIs DEF Init
<1>4. InOrder
  BY <1>3, QueueIs DEF Init, InOrder, Queued
<1>5. LoopInv /\ HoldInv
  BY <1>1, <1>2 DEF Init, LoopInv, InCall, HoldInv, Holds, Detour, PC, AddLabels,
                    MakeLabels, TakeLabels, DropLabels
<1>6. AnnouncedInv /\ SeenInv
  BY DEF Init, AnnouncedInv, SeenInv
<1> QED BY <1>2, <1>4, <1>5, <1>6 DEF PendingInv

\* The inductive invariant of the pending calls.
LEMMA PendingInvariant == Spec => []PendingInv
<1>1. PendingInv /\ [Next]_vars => PendingInv'
  <2> SUFFICES ASSUME PendingInv, [Next]_vars PROVE PendingInv'
    OBVIOUS
  <2>1. CASE UNCHANGED vars
    <3>1. InOrder' /\ Size' = Size
      BY <2>1, QueueIs DEF vars, ring, PendingInv, InOrder
    <3> HIDE DEF Size
    <3> QED BY <2>1, <3>1 DEF vars, ring, flags, lock, make, PendingInv, TypeOK,
                              LoopInv,
                  InCall, HoldInv, Holds, AnnouncedInv, SeenInv
  <2>2. ASSUME NEW t \in Thread, Step(t) \/ Optional(t) PROVE PendingInv'
    BY <2>2, TypeStep, LoopStep, HoldStep, AnnouncedStep, SeenStep, OrderStep DEF PendingInv
  <2> QED BY <2>1, <2>2 DEF Next
<1> QED BY <1>1, PendingInit, PTL DEF Spec

\* Ring, flags, GIL and threads keep their types.
THEOREM PendingTypes == Spec => []TypeOK
BY PendingInvariant, PTL DEF PendingInv

\* Every call that _PyEval_AddPendingCall() queued is run once and in order,
\* whoever added it and however often the ring wrapped around.
THEOREM CallsAreInOrder == Spec => []InOrder
BY PendingInvariant, PTL DEF PendingInv

\* A queued call is announced by calls_to_do, or the running loop still reaches it.
THEOREM CallsAreAnnounced == Spec => []NoCallForgotten
<1>1. PendingInv => NoCallForgotten
  <2> SUFFICES ASSUME PendingInv PROVE NoCallForgotten
    OBVIOUS
  <2>1. Size \in 0 .. N - 1 /\ N \in Nat /\ iter \in 0 .. N
    BY QueueIs, SpanIs, PendingAssumption DEF PendingInv, TypeOK, N
  <2> HIDE DEF Size
  <2> QED BY <2>1 DEF PendingInv, AnnouncedInv, NoCallForgotten, N
<1> QED BY <1>1, PendingInvariant, PTL

\* Bytecode on the main thread does not miss a call that was added with the GIL.
THEOREM CallsAreSeen == Spec => []MainSeesCalls
<1>1. PendingInv => MainSeesCalls
  BY PendingAssumption
     DEF PendingInv, HoldInv, Holds, SeenInv, MainSeesCalls, ComputeLabels, StoreLabels
<1> QED BY <1>1, PendingInvariant, PTL
==============================================================================
