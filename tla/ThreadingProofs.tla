--------------------------- MODULE ThreadingProofs ----------------------------
(***************************************************************************)
(* Theorems about the modules of threading.py and queue.py: Condition,     *)
(* what Queue and Synchronization build on it, and ThreadLife; for any     *)
(* number of threads, timed or not, and any sizes.                         *)
(***************************************************************************)
EXTENDS Queue, Synchronization, ThreadLife, FiniteSetTheorems, SequenceTheorems, TLAPS

------------------------------------------------------------------------------
(* Deques of waiters                                                       *)

\* A thread is in a deque once.
Single(s) == \A i, j \in 1 .. Len(s) : s[i] = s[j] => i = j

\* deque.remove() of an element that is in the deque once, or not at all.
LEMMA RemoveFirstIs ==
  ASSUME NEW S, NEW s \in Seq(S), Single(s), NEW e
  PROVE  /\ RemoveFirst(s, e) \in Seq(S) /\ Single(RemoveFirst(s, e))
         /\ ToSet(RemoveFirst(s, e)) = ToSet(s) \ {e}
<1>1. CASE ~\E i \in 1 .. Len(s) : s[i] = e
  BY <1>1 DEF RemoveFirst, ToSet
<1>2. CASE \E i \in 1 .. Len(s) : s[i] = e
  <2> DEFINE n == Len(s)
  <2>1. PICK k \in 1 .. n : s[k] = e
    BY <1>2
  <2>2. {i \in 1 .. n : s[i] = e} = {k}
    BY <2>1 DEF Single
  <2>3. SelectInSeq(s, LAMBDA v : v = e) = k
    BY <2>2 DEF SelectInSeq, Min
  <2> DEFINE p == SubSeq(s, 1, k - 1)
             q == SubSeq(s, k + 1, n)
             r == RemoveFirst(s, e)
  <2>4. r = p \o q
    BY <1>2, <2>3 DEF RemoveFirst, RemoveAt
  <2>5. n \in Nat /\ \A i \in 1 .. n : s[i] \in S
    OBVIOUS
  <2>6. /\ p \in Seq(S) /\ Len(p) = k - 1 /\ \A i \in 1 .. k - 1 : p[i] = s[i]
        /\ q \in Seq(S) /\ Len(q) = n - k /\ \A i \in 1 .. n - k : q[i] = s[k + i]
    <3> HIDE DEF n
    <3>1. /\ \A i \in 1 .. k - 1 : s[i] \in S
          /\ \A i \in k + 1 .. n : s[i] \in S
      BY <2>5
    <3>2. /\ p \in Seq(S) /\ Len(p) = k - 1
          /\ \A i \in 1 .. k - 1 : p[i] = s[1 + i - 1]
      BY <3>1, <2>1, <2>5, SubSeqProperties
    <3>3. /\ q \in Seq(S) /\ Len(q) = n - k
          /\ \A i \in 1 .. n - k : q[i] = s[k + 1 + i - 1]
      <4>1. k + 1 \in Int /\ n \in Int /\ n - (k + 1) + 1 = n - k
            /\ (k + 1 > n => n - k = 0)
        BY <2>5
      <4> QED BY <4>1, <3>1, SubSeqProperties
    <3> QED BY <3>2, <3>3, <2>5
  <2> HIDE DEF n, p, q, r
  <2>7. /\ r \in Seq(S) /\ Len(r) = n - 1
        /\ \A i \in 1 .. n - 1 : r[i] = IF i < k THEN s[i] ELSE s[i + 1]
    <3>1. /\ r \in Seq(S) /\ Len(r) = Len(p) + Len(q)
          /\ \A i \in 1 .. Len(p) + Len(q) :
               r[i] = IF i <= Len(p) THEN p[i] ELSE q[i - Len(p)]
      BY <2>4, <2>6, ConcatProperties
    <3>2. Len(p) + Len(q) = n - 1
      BY <2>5, <2>6
    <3>3. ASSUME NEW i \in 1 .. n - 1, i < k PROVE r[i] = s[i]
      <4>1. i \in 1 .. k - 1 /\ i <= Len(p)
        BY <2>5, <2>6, <3>3
      <4> QED BY <4>1, <3>1, <3>2, <2>6
    <3>4. ASSUME NEW i \in 1 .. n - 1, ~(i < k) PROVE r[i] = s[i + 1]
      <4>1. i - Len(p) = i - k + 1 /\ i - k + 1 \in 1 .. n - k /\ ~(i <= Len(p))
            /\ k + (i - k + 1) = i + 1
        BY <2>5, <2>6, <3>4
      <4>2. q[i - k + 1] = s[i + 1]
        BY <4>1, <2>6
      <4> QED BY <4>1, <4>2, <3>1, <3>2
    <3> QED BY <3>1, <3>2, <3>3, <3>4
  <2>8. \A i, j \in 1 .. n : s[i] = s[j] => i = j
    BY DEF Single, n
  <2>9. Single(r)
    BY <2>7, <2>8, <2>5 DEF Single
  <2>10. ToSet(s) = {s[i] : i \in 1 .. n} /\ ToSet(r) = {r[i] : i \in 1 .. n - 1}
    BY <2>7 DEF ToSet, n
  <2>11. ASSUME NEW x \in {s[i] : i \in 1 .. n}, x # e PROVE x \in {r[i] : i \in 1 .. n - 1}
    <3>1. PICK i \in 1 .. n : x = s[i]
      OBVIOUS
    <3>2. i < k \/ i > k
      BY <3>1, <2>1, <2>11
    <3>3. CASE i < k
      <4>1. i \in 1 .. n - 1
        BY <3>3, <2>5
      <4>2. r[i] = s[i]
        BY <4>1, <3>3, <2>7
      <4> QED BY <3>1, <4>1, <4>2
    <3>4. CASE i > k
      <4>1. i - 1 \in 1 .. n - 1 /\ r[i - 1] = s[i]
        BY <3>4, <2>7, <2>5
      <4> QED BY <3>1, <4>1
    <3> QED BY <3>2, <3>3, <3>4
  <2>12. ASSUME NEW i \in 1 .. n - 1 PROVE r[i] \in {s[j] : j \in 1 .. n} /\ r[i] # e
    <3>1. CASE i < k
      <4>1. r[i] = s[i] /\ i \in 1 .. n /\ i # k
        BY <3>1, <2>7, <2>5
      <4> QED BY <4>1, <2>1, <2>8
    <3>2. CASE ~(i < k)
      <4>1. r[i] = s[i + 1] /\ i + 1 \in 1 .. n /\ i + 1 # k
        BY <3>2, <2>7, <2>5
      <4> QED BY <4>1, <2>1, <2>8
    <3> QED BY <3>1, <3>2
  <2> QED BY <2>7, <2>9, <2>10, <2>11, <2>12 DEF r
<1> QED BY <1>1, <1>2

\* deque.append() of an element that is not in the deque.
LEMMA AppendIs ==
  ASSUME NEW S, NEW s \in Seq(S), Single(s), NEW e \in S, e \notin ToSet(s)
  PROVE  /\ Append(s, e) \in Seq(S) /\ Single(Append(s, e))
         /\ ToSet(Append(s, e)) = ToSet(s) \cup {e}
<1> DEFINE n == Len(s)
           r == Append(s, e)
<1>1. /\ r \in Seq(S) /\ Len(r) = n + 1 /\ n \in Nat
      /\ \A i \in 1 .. n : r[i] = s[i]
      /\ r[n + 1] = e
  BY AppendProperties
<1>2. /\ ToSet(s) = {s[i] : i \in 1 .. n} /\ ToSet(r) = {r[i] : i \in 1 .. n + 1}
      /\ \A i, j \in 1 .. n : s[i] = s[j] => i = j
  BY <1>1 DEF ToSet, Single
<1> HIDE DEF n, r
<1>3. 1 .. n + 1 = (1 .. n) \cup {n + 1}
  BY <1>1
<1>4. Single(r)
  <2>1. \A i \in 1 .. n : r[i] # e
    BY <1>1, <1>2
  <2> QED BY <1>1, <1>2, <1>3, <2>1 DEF Single
<1>5. ToSet(r) = ToSet(s) \cup {e}
  BY <1>1, <1>2, <1>3
<1> QED BY <1>1, <1>4, <1>5 DEF r

\* notify(n): n threads, or all if there are fewer, are no longer in the deque.
LEMMA FirstRemoved ==
  ASSUME NEW S, NEW s \in Seq(S), Single(s), NEW n \in Nat
  PROVE  LET r == SubSeq(s, n + 1, Len(s))
             K == ToSet(s) \ ToSet(r)
         IN  /\ r \in Seq(S) /\ Single(r) /\ ToSet(r) \subseteq ToSet(s)
             /\ ToSet(r) = {} \/ (IsFiniteSet(K) /\ Cardinality(K) = n)
<1> DEFINE m == Len(s)
           r == SubSeq(s, n + 1, m)
           K == ToSet(s) \ ToSet(r)
<1>1. m \in Nat /\ \A i \in 1 .. m : s[i] \in S
  OBVIOUS
<1>2. /\ r \in Seq(S) /\ Len(r) = IF n + 1 <= m THEN m - n ELSE 0
      /\ \A i \in 1 .. m - n : r[i] = s[n + i]
  <2> HIDE DEF m
  <2>1. /\ r \in Seq(S) /\ Len(r) = (IF n + 1 <= m THEN m - (n + 1) + 1 ELSE 0)
        /\ \A i \in 1 .. m - (n + 1) + 1 : r[i] = s[n + 1 + i - 1]
    <3>1. n + 1 \in Int /\ m \in Int /\ \A i \in n + 1 .. m : s[i] \in S
      BY <1>1
    <3> HIDE DEF r
    <3> QED BY <3>1, SubSeqProperties DEF r
  <2> HIDE DEF r
  <2> QED BY <2>1, <1>1
<1>3. /\ ToSet(s) = {s[i] : i \in 1 .. m}
      /\ \A i, j \in 1 .. m : s[i] = s[j] => i = j
  BY DEF ToSet, Single
<1> HIDE DEF m, r
<1>4. Single(r)
  BY <1>1, <1>2, <1>3 DEF Single
<1>5. CASE m <= n
  <2>1. ToSet(r) = {}
    BY <1>1, <1>2, <1>5 DEF ToSet
  <2> QED BY <2>1, <1>2, <1>4 DEF r, m
<1>6. CASE n < m
  <2>1. ToSet(r) = {s[i] : i \in n + 1 .. m}
    <3>1. ToSet(r) = {r[i] : i \in 1 .. m - n}
      BY <1>1, <1>2, <1>6 DEF ToSet
    <3>2. \A i \in 1 .. m - n : n + i \in n + 1 .. m /\ r[i] = s[n + i]
      BY <1>1, <1>2
    <3>3. \A i \in n + 1 .. m : i - n \in 1 .. m - n /\ r[i - n] = s[i]
      BY <1>1, <1>2
    <3> QED BY <3>1, <3>2, <3>3
  <2>2. K = {s[i] : i \in 1 .. n}
    <3>1. \A i \in 1 .. n : i \in 1 .. m /\ s[i] \notin {s[j] : j \in n + 1 .. m}
      BY <1>1, <1>3, <1>6
    <3>2. \A i \in 1 .. m : i \in 1 .. n \/ i \in n + 1 .. m
      BY <1>1
    <3> QED BY <2>1, <1>3, <3>1, <3>2
  <2>3. [i \in 1 .. n |-> s[i]] \in Bijection(1 .. n, {s[i] : i \in 1 .. n})
    <3>1. \A i, j \in 1 .. n : s[i] = s[j] => i = j
      BY <1>1, <1>3, <1>6
    <3> QED BY <3>1 DEF Bijection, Injection, Surjection, IsInjective
  <2>4. IsFiniteSet(1 .. n) /\ Cardinality(1 .. n) = n
    BY FS_Interval
  <2>5. IsFiniteSet(K) /\ Cardinality(K) = n
    <3>1. ExistsBijection(1 .. n, K)
      BY <2>2, <2>3 DEF ExistsBijection
    <3> HIDE DEF K
    <3> QED BY <2>4, <3>1, FS_Bijection
  <2>6. ToSet(r) \subseteq ToSet(s)
    BY <2>1, <1>1, <1>3, <1>6
  <2> QED BY <2>5, <2>6, <1>2, <1>4 DEF r, m
<1> QED BY <1>1, <1>5, <1>6

------------------------------------------------------------------------------
(* Conditions whose threads are told apart: R[c] are those that wait for c *)

Apart(R) == /\ R \in [Conditions -> SUBSET Thread]
            /\ \A c, d \in Conditions : c # d => R[c] \cap R[d] = {}

\* The deques w hold each thread once, in the deque of a condition of its own.
Deques(w, R) == /\ w \in [Conditions -> Seq(Thread)]
                /\ \A c \in Conditions : Single(w[c]) /\ ToSet(w[c]) \subseteq R[c]

Has(w, t) == \E c \in Conditions : t \in ToSet(w[c])

\* Who is in a deque is in wait(), and only who passes a timeout times out.
CondInv(R) ==
  /\ Deques(waiters, R)
  /\ waits \in [Thread -> {"no", "waiting", "timed_out"}]
  /\ \A t \in Thread : Listed(t) => waits[t] # "no"
  /\ \A t \in Thread : waits[t] = "timed_out" => t \in Timed

\* The waiter of t is removed.
LEMMA LeftIs ==
  ASSUME NEW R, Deques(waiters, R), NEW t
  PROVE  /\ Deques(Left(t), R)
         /\ \A c \in Conditions : ToSet(Left(t)[c]) = ToSet(waiters[c]) \ {t}
<1>1. ASSUME NEW c \in Conditions
      PROVE  /\ Left(t)[c] \in Seq(Thread) /\ Single(Left(t)[c])
             /\ ToSet(Left(t)[c]) = ToSet(waiters[c]) \ {t}
  <2>1. waiters[c] \in Seq(Thread) /\ Single(waiters[c])
    BY DEF Deques
  <2>2. Left(t)[c] = RemoveFirst(waiters[c], t)
    BY DEF Left
  <2> QED BY <2>1, <2>2, RemoveFirstIs
<1>2. Left(t) \in [Conditions -> Seq(Thread)]
  <2>1. \A c \in Conditions : RemoveFirst(waiters[c], t) \in Seq(Thread)
    BY <1>1 DEF Left
  <2> QED BY <2>1 DEF Left
<1> QED BY <1>1, <1>2 DEF Deques

\* notify(n) takes n threads off the deque of c, or leaves none.
LEMMA NotifyIs ==
  ASSUME NEW R, Apart(R), NEW w, Deques(w, R), NEW c \in Conditions, NEW n \in Nat
  PROVE  /\ Deques(Notify(w, c, n), R)
         /\ \E K \in SUBSET R[c] :
              /\ \A u \in K : Has(w, u)
              /\ \A u : Has(Notify(w, c, n), u) <=> Has(w, u) /\ u \notin K
              /\ \/ \A u \in R[c] : ~Has(Notify(w, c, n), u)
                 \/ IsFiniteSet(K) /\ Cardinality(K) = n
<1> DEFINE v == Notify(w, c, n)
           K == ToSet(w[c]) \ ToSet(v[c])
<1>1. /\ v[c] = SubSeq(w[c], n + 1, Len(w[c])) /\ v = [w EXCEPT ![c] = v[c]]
      /\ \A d \in Conditions \ {c} : v[d] = w[d]
  BY DEF Notify, Deques
<1>2. /\ v[c] \in Seq(Thread) /\ Single(v[c]) /\ ToSet(v[c]) \subseteq ToSet(w[c])
      /\ ToSet(v[c]) = {} \/ (IsFiniteSet(K) /\ Cardinality(K) = n)
  <2>1. w[c] \in Seq(Thread) /\ Single(w[c])
    BY DEF Deques
  <2> DEFINE r == SubSeq(w[c], n + 1, Len(w[c]))
  <2>2. /\ r \in Seq(Thread) /\ Single(r) /\ ToSet(r) \subseteq ToSet(w[c])
        /\ \/ ToSet(r) = {}
           \/ /\ IsFiniteSet(ToSet(w[c]) \ ToSet(r))
              /\ Cardinality(ToSet(w[c]) \ ToSet(r)) = n
    BY <2>1, FirstRemoved
  <2>3. v[c] = r
    BY <1>1
  <2> HIDE DEF r
  <2> QED BY <2>2, <2>3
<1> HIDE DEF v
<1>3. Deques(v, R)
  BY <1>1, <1>2 DEF Deques
<1>4. ASSUME NEW d \in Conditions, d # c PROVE ToSet(w[d]) \cap R[c] = {}
  BY <1>4 DEF Deques, Apart
<1>5. K \in SUBSET R[c] /\ \A u \in K : Has(w, u)
  BY DEF Deques, Has
<1>6. ASSUME NEW u PROVE Has(v, u) <=> Has(w, u) /\ u \notin K
  <2>1. Has(v, u) => Has(w, u) /\ u \notin K
    BY <1>1, <1>2, <1>4, <1>5 DEF Has
  <2>2. Has(w, u) /\ u \notin K => Has(v, u)
    BY <1>1 DEF Has
  <2> QED BY <2>1, <2>2
<1>7. \/ \A u \in R[c] : ~Has(v, u)
      \/ IsFiniteSet(K) /\ Cardinality(K) = n
  BY <1>1, <1>2, <1>4 DEF Has
<1> QED BY <1>3, <1>5, <1>6, <1>7 DEF v

\* notify_all() leaves nobody in the deque of c.
LEMMA NotifyAllIs ==
  ASSUME NEW R, Apart(R), NEW w, Deques(w, R), NEW c \in Conditions
  PROVE  /\ Deques(NotifyAll(w, c), R)
         /\ \A u : Has(NotifyAll(w, c), u) <=> Has(w, u) /\ u \notin R[c]
<1> DEFINE v == NotifyAll(w, c)
<1>1. /\ v[c] = <<>> /\ v \in [Conditions -> Seq(Thread)]
      /\ \A d \in Conditions \ {c} : v[d] = w[d]
  BY DEF NotifyAll, Deques
<1>2. ToSet(v[c]) = {} /\ Single(v[c])
  BY <1>1 DEF ToSet, Single
<1> HIDE DEF v
<1>3. Deques(v, R)
  BY <1>1, <1>2 DEF Deques
<1>4. \A d \in Conditions : d # c => ToSet(w[d]) \cap R[c] = {}
  BY DEF Deques, Apart
<1>5. \A u : Has(v, u) <=> Has(w, u) /\ u \notin R[c]
  BY <1>1, <1>2, <1>4 DEF Has, Deques
<1> QED BY <1>3, <1>5 DEF v

\* wait() on c by one of its threads.
LEMMA BlockStep ==
  ASSUME NEW R, Apart(R), CondInv(R), NEW c \in Conditions, NEW t \in R[c], Block(t, c)
  PROVE  /\ CondInv(R)' /\ waits' = [waits EXCEPT ![t] = "waiting"]
         /\ \A u \in Thread : Listed(u)' <=> Listed(u) \/ u = t
<1>1. /\ Deques(Left(t), R) /\ t \in Thread
      /\ \A d \in Conditions : ToSet(Left(t)[d]) = ToSet(waiters[d]) \ {t}
  BY LeftIs DEF CondInv, Apart
<1>2. /\ waiters' = [Left(t) EXCEPT ![c] = Append(@, t)]
      /\ waits' = [waits EXCEPT ![t] = "waiting"]
  BY DEF Block
<1>3. /\ Append(Left(t)[c], t) \in Seq(Thread) /\ Single(Append(Left(t)[c], t))
      /\ ToSet(Append(Left(t)[c], t)) = ToSet(waiters[c]) \cup {t}
  <2>1. Left(t)[c] \in Seq(Thread) /\ Single(Left(t)[c]) /\ t \notin ToSet(Left(t)[c])
    BY <1>1 DEF Deques
  <2>2. /\ Append(Left(t)[c], t) \in Seq(Thread) /\ Single(Append(Left(t)[c], t))
        /\ ToSet(Append(Left(t)[c], t)) = ToSet(Left(t)[c]) \cup {t}
    BY <1>1, <2>1, AppendIs
  <2> QED BY <1>1, <2>2
<1>4. /\ waiters' \in [Conditions -> Seq(Thread)]
      /\ Single(waiters'[c]) /\ ToSet(waiters'[c]) = ToSet(waiters[c]) \cup {t}
      /\ \A d \in Conditions \ {c} :
           Single(waiters'[d]) /\ ToSet(waiters'[d]) = ToSet(waiters[d]) \ {t}
  BY <1>1, <1>2, <1>3 DEF Deques
<1>5. \A d \in Conditions \ {c} : t \notin ToSet(waiters[d])
  BY DEF CondInv, Deques, Apart
<1>6. Deques(waiters', R)
  BY <1>4 DEF CondInv, Deques
<1>7. \A u \in Thread : Listed(u)' <=> Listed(u) \/ u = t
  BY <1>4, <1>5 DEF Listed
<1>8. \A u \in Thread : /\ Listed(u)' => waits'[u] # "no"
                        /\ waits'[u] = "timed_out" => u \in Timed
  BY <1>1, <1>2, <1>7 DEF CondInv
<1>9. waits' \in [Thread -> {"no", "waiting", "timed_out"}]
  BY <1>2 DEF CondInv
<1> QED BY <1>2, <1>6, <1>7, <1>8, <1>9 DEF CondInv

\* t leaves wait(), and the deques w it leaves have no waiter but those there were.
LEMMA ProceedStep ==
  ASSUME NEW R, Apart(R), CondInv(R), NEW t \in Thread, NEW w, Deques(w, R),
         \A u : Has(w, u) => Listed(u) /\ u # t, Proceed(t, w)
  PROVE  /\ CondInv(R)' /\ waits' = [waits EXCEPT ![t] = "no"]
         /\ \A u : Listed(u)' <=> Has(w, u)
<1>1. waiters' = w /\ waits' = [waits EXCEPT ![t] = "no"]
  BY DEF Proceed
<1>2. \A u : Listed(u)' <=> Has(w, u)
  BY <1>1 DEF Listed, Has
<1>3. \A u \in Thread : /\ Listed(u)' => waits'[u] # "no"
                        /\ waits'[u] = "timed_out" => u \in Timed
  BY <1>1, <1>2 DEF CondInv
<1> QED BY <1>1, <1>2, <1>3 DEF CondInv

\* The deques that stay when t leaves wait().
LEMMA LeftHas ==
  ASSUME NEW R, CondInv(R), NEW t
  PROVE  Deques(Left(t), R) /\ \A u : Has(Left(t), u) <=> Listed(u) /\ u # t
<1>1. /\ Deques(Left(t), R)
      /\ \A c \in Conditions : ToSet(Left(t)[c]) = ToSet(waiters[c]) \ {t}
  BY LeftIs DEF CondInv
<1> QED BY <1>1 DEF Has, Listed

\* Threads are notified.
LEMMA NotifiedStep ==
  ASSUME NEW R, CondInv(R), NEW w, Deques(w, R), \A u : Has(w, u) => Listed(u),
         waiters' = w, waits' = waits
  PROVE  CondInv(R)' /\ \A u : Listed(u)' <=> Has(w, u)
<1>1. \A u : Listed(u)' <=> Has(w, u)
  BY DEF Listed, Has
<1> QED BY <1>1 DEF CondInv

\* A wait() times out.
LEMMA TimeoutStep ==
  ASSUME NEW R, CondInv(R), NEW t \in Thread, Timeout(t)
  PROVE  /\ CondInv(R)' /\ waits' = [waits EXCEPT ![t] = "timed_out"]
         /\ \A u : Listed(u)' <=> Listed(u)
<1>1. /\ waits' = [waits EXCEPT ![t] = "timed_out"] /\ waiters' = waiters
      /\ t \in Timed
  BY DEF Timeout
<1>2. \A u : Listed(u)' <=> Listed(u)
  BY <1>1 DEF Listed
<1> QED BY <1>1, <1>2 DEF CondInv

------------------------------------------------------------------------------
(* Enough threads are woken                                                *)

Enough(S, n) == Sleeps(S) => n <= Cardinality(Woken(S))

\* One thread of S, at most, goes on after it was woken.
LEMMA EnoughLeft ==
  ASSUME NEW S \in SUBSET Thread, IsFiniteSet(S), NEW n \in Nat, NEW m \in Int, m < n,
         Enough(S, n), Sleeps(S)' => Sleeps(S), NEW t, Woken(S)' = Woken(S) \ {t}
  PROVE  Sleeps(S)' => m <= Cardinality(Woken(S)')
<1>1. IsFiniteSet(Woken(S)) /\ Cardinality(Woken(S)) \in Nat
  <2>1. Woken(S) \in SUBSET S
    BY DEF Woken
  <2>2. IsFiniteSet(Woken(S))
    BY <2>1, FS_Subset
  <2> QED BY <2>2, FS_CardinalityType
<1> DEFINE k == Cardinality(Woken(S))
           l == Cardinality(Woken(S) \ {t})
<1>2. l = k - 1 \/ l = k
  BY <1>1, FS_RemoveElement
<1>3. Sleeps(S) => n <= k
  BY DEF Enough
<1>4. k \in Nat /\ l = Cardinality(Woken(S)')
  BY <1>1
<1> HIDE DEF k, l
<1>5. Sleeps(S)' => m <= l
  BY <1>2, <1>3, <1>4
<1> QED BY <1>4, <1>5

\* As many threads of S are woken as things come, or all of them.
LEMMA EnoughWoken ==
  ASSUME NEW S \in SUBSET Thread, IsFiniteSet(S), NEW n \in Int, NEW m \in Nat,
         Enough(S, n), Sleeps(S)' => Sleeps(S),
         NEW K \in SUBSET S, K \cap Woken(S) = {}, Woken(S)' = Woken(S) \cup K,
         ~Sleeps(S)' \/ (IsFiniteSet(K) /\ Cardinality(K) = m)
  PROVE  Sleeps(S)' => n + m <= Cardinality(Woken(S)')
<1> SUFFICES ASSUME Sleeps(S)' PROVE n + m <= Cardinality(Woken(S) \cup K)
  OBVIOUS
<1>1. IsFiniteSet(Woken(S)) /\ Cardinality(Woken(S)) \in Nat
  <2>1. Woken(S) \in SUBSET S
    BY DEF Woken
  <2>2. IsFiniteSet(Woken(S))
    BY <2>1, FS_Subset
  <2> QED BY <2>2, FS_CardinalityType
<1>2. IsFiniteSet(K) /\ Cardinality(K) = m
  OBVIOUS
<1>3. Cardinality(Woken(S) \cap K) = 0
  <2>1. Woken(S) \cap K = {}
    OBVIOUS
  <2> QED BY <2>1, FS_EmptySet
<1> DEFINE k == Cardinality(Woken(S))
           l == Cardinality(Woken(S) \cup K)
<1>4. l = k + m - Cardinality(Woken(S) \cap K)
  BY <1>1, <1>2, FS_Union
<1>5. n <= k
  BY DEF Enough
<1>6. k \in Nat
  BY <1>1
<1> HIDE DEF k, l
<1>7. n + m <= l
  BY <1>3, <1>4, <1>5, <1>6
<1> QED BY <1>7 DEF l

\* What a step does not touch it leaves asleep, or woken.
LEMMA Quiet ==
  ASSUME NEW S \in SUBSET Thread,
         \A u \in S : (Listed(u)' <=> Listed(u)) /\ waits'[u] = waits[u]
  PROVE  Woken(S)' = Woken(S) /\ (Sleeps(S)' <=> Sleeps(S))
BY DEF Woken, Sleeps, Notified

------------------------------------------------------------------------------
(* Queue: the inductive invariant                                          *)

QueueRole == [c \in Conditions |-> CASE c = "not_empty"      -> Consumer
                                     [] c = "not_full"       -> Producer
                                     [] c = "all_tasks_done" -> Joiner
                                     [] OTHER                -> {}]

\* The items are numbered through, from those taken to those in the queue.
Numbered(g, q, p) == /\ Len(g) + Len(q) = p
                     /\ \A i \in 1 .. Len(g) : g[i] = i
                     /\ \A i \in 1 .. Len(q) : q[i] = Len(g) + i

CountInv == unfinished_tasks = Len(queue) + Cardinality(working)

QueueInv == /\ QueueTypeOK /\ CondInv(QueueRole) /\ CountInv /\ FifoOrder
            /\ Enough(Consumer, Len(queue))
            /\ maxsize > 0 => Enough(Producer, maxsize - Len(queue))

\* Producers, consumers and joiners wait for different things.
LEMMA QueueRoles ==
  /\ Apart(QueueRole)
  /\ {"not_empty", "not_full", "all_tasks_done"} \subseteq Conditions
  /\ QueueRole["not_empty"] = Consumer /\ QueueRole["not_full"] = Producer
  /\ QueueRole["all_tasks_done"] = Joiner
  /\ Consumer \in SUBSET Thread /\ Producer \in SUBSET Thread /\ Joiner \in SUBSET Thread
  /\ IsFiniteSet(Consumer) /\ IsFiniteSet(Producer) /\ maxsize \in Nat
<1>1. {"not_empty", "not_full", "all_tasks_done"} \subseteq Conditions
  BY QueueAssumption
<1>2. /\ QueueRole["not_empty"] = Consumer /\ QueueRole["not_full"] = Producer
      /\ QueueRole["all_tasks_done"] = Joiner
  BY <1>1 DEF QueueRole
<1>3. Consumer \in SUBSET Thread /\ Producer \in SUBSET Thread /\ Joiner \in SUBSET Thread
  BY QueueAssumption
<1>4. \A c \in Conditions : QueueRole[c] \in SUBSET Thread
  BY <1>3 DEF QueueRole
<1>5. ASSUME NEW c \in Conditions, NEW d \in Conditions, c # d
      PROVE  QueueRole[c] \cap QueueRole[d] = {}
  <2>1. ASSUME NEW e \in Conditions
        PROVE  \/ e = "not_empty" /\ QueueRole[e] = Consumer
               \/ e = "not_full" /\ QueueRole[e] = Producer
               \/ e = "all_tasks_done" /\ QueueRole[e] = Joiner
               \/ QueueRole[e] = {}
    BY DEF QueueRole
  <2> HIDE DEF QueueRole
  <2>2. /\ Producer \cap Consumer = {} /\ Producer \cap Joiner = {}
        /\ Consumer \cap Joiner = {}
    BY QueueAssumption
  <2> QED BY <1>5, <2>1, <2>2
<1>6. QueueRole = [c \in Conditions |-> QueueRole[c]]
  BY DEF QueueRole
<1>7. IsFiniteSet(Consumer) /\ IsFiniteSet(Producer)
  BY <1>3, ConditionAssumption, FS_Subset
<1> HIDE DEF QueueRole
<1>8. QueueRole \in [Conditions -> SUBSET Thread]
  BY <1>4, <1>6
<1> QED BY <1>1, <1>2, <1>3, <1>5, <1>7, <1>8, QueueAssumption DEF Apart

\* FifoOrder, item by item.
LEMMA NumberedIs ==
  ASSUME NEW g \in Seq(Nat), NEW q \in Seq(Nat), NEW p \in Nat
  PROVE  g \o q = [k \in 1 .. p |-> k] <=> Numbered(g, q, p)
<1> DEFINE m == Len(g)
           n == Len(q)
           r == g \o q
           all == [k \in 1 .. p |-> k]
<1>1. /\ m \in Nat /\ n \in Nat /\ r \in Seq(Nat) /\ Len(r) = m + n
      /\ \A i \in 1 .. m + n : r[i] = IF i <= m THEN g[i] ELSE q[i - m]
  BY ConcatProperties
<1>2. all \in Seq(Nat) /\ Len(all) = p /\ \A i \in 1 .. p : all[i] = i
  OBVIOUS
<1> HIDE DEF m, n, r, all
<1>3. ASSUME r = all PROVE Numbered(g, q, p)
  <2>1. m + n = p
    BY <1>1, <1>2, <1>3
  <2>2. ASSUME NEW i \in 1 .. m PROVE g[i] = i
    <3>1. i \in 1 .. m + n /\ i \in 1 .. p /\ i <= m
      BY <1>1, <2>1
    <3> QED BY <3>1, <1>1, <1>2, <1>3
  <2>3. ASSUME NEW i \in 1 .. n PROVE q[i] = m + i
    <3>1. m + i \in 1 .. m + n /\ m + i \in 1 .. p /\ ~(m + i <= m) /\ m + i - m = i
      BY <1>1, <2>1
    <3>2. r[m + i] = q[i]
      BY <3>1, <1>1
    <3>3. all[m + i] = m + i
      BY <3>1, <1>2
    <3> QED BY <3>2, <3>3, <1>3
  <2> QED BY <2>1, <2>2, <2>3 DEF Numbered, m, n
<1>4. ASSUME Numbered(g, q, p) PROVE r = all
  <2>1. /\ m + n = p
        /\ \A i \in 1 .. m : g[i] = i
        /\ \A i \in 1 .. n : q[i] = m + i
    BY <1>4 DEF Numbered, m, n
  <2>2. ASSUME NEW i \in 1 .. p PROVE r[i] = i
    <3>1. CASE i <= m
      BY <3>1, <2>1, <1>1
    <3>2. CASE ~(i <= m)
      <4>1. i - m \in 1 .. n /\ i \in 1 .. m + n /\ m + (i - m) = i
        BY <3>2, <1>1, <2>1
      <4>2. r[i] = q[i - m]
        BY <4>1, <3>2, <1>1
      <4>3. q[i - m] = m + (i - m)
        BY <4>1, <2>1
      <4> QED BY <4>1, <4>2, <4>3
    <3> QED BY <3>1, <3>2
  <2>3. Len(r) = p /\ Len(all) = p /\ r \in Seq(Nat) /\ all \in Seq(Nat)
    BY <1>1, <1>2, <2>1
  <2>4. \A i \in 1 .. Len(r) : r[i] = all[i]
    BY <2>2, <2>3, <1>2
  <2> QED BY <2>3, <2>4, SeqEqual
<1> QED BY <1>3, <1>4 DEF r, all

\* put() numbers its item.
LEMMA NumberedPut ==
  ASSUME NEW g \in Seq(Nat), NEW q \in Seq(Nat), NEW p \in Nat, Numbered(g, q, p)
  PROVE  /\ Numbered(g, Append(q, p + 1), p + 1)
         /\ Append(q, p + 1) \in Seq(Nat) /\ Len(Append(q, p + 1)) = Len(q) + 1
<1> DEFINE m == Len(g)
           n == Len(q)
           r == Append(q, p + 1)
<1>1. /\ m \in Nat /\ n \in Nat /\ r \in Seq(Nat) /\ Len(r) = n + 1
      /\ \A i \in 1 .. n : r[i] = q[i]
      /\ r[n + 1] = p + 1
  BY AppendProperties
<1>2. /\ m + n = p
      /\ \A i \in 1 .. m : g[i] = i
      /\ \A i \in 1 .. n : q[i] = m + i
  BY DEF Numbered
<1> HIDE DEF m, n, r
<1>3. \A i \in 1 .. n + 1 : i \in 1 .. n \/ i = n + 1
  BY <1>1
<1>4. ASSUME NEW i \in 1 .. n + 1 PROVE r[i] = m + i
  <2>1. m + (n + 1) = p + 1
    BY <1>1, <1>2
  <2> QED BY <2>1, <1>1, <1>2, <1>3
<1>5. m + (n + 1) = p + 1
  BY <1>1, <1>2
<1> QED BY <1>1, <1>2, <1>4, <1>5 DEF Numbered, m, n, r

\* get() takes the item with the lowest number.
LEMMA NumberedGet ==
  ASSUME NEW g \in Seq(Nat), NEW q \in Seq(Nat), NEW p \in Nat, Numbered(g, q, p), q # <<>>
  PROVE  /\ Numbered(Append(g, Head(q)), Tail(q), p)
         /\ Append(g, Head(q)) \in Seq(Nat) /\ Tail(q) \in Seq(Nat)
         /\ Len(Tail(q)) = Len(q) - 1 /\ Len(q) \in Nat \ {0}
<1> DEFINE m == Len(g)
           n == Len(q)
           h == Append(g, Head(q))
           r == Tail(q)
<1>1. /\ m \in Nat /\ n \in Nat \ {0}
      /\ Head(q) = q[1] /\ q[1] \in Nat
      /\ r \in Seq(Nat) /\ Len(r) = n - 1 /\ \A i \in 1 .. n - 1 : r[i] = q[i + 1]
  BY HeadTailProperties
<1>2. /\ h \in Seq(Nat) /\ Len(h) = m + 1 /\ \A i \in 1 .. m : h[i] = g[i]
      /\ h[m + 1] = q[1]
  BY <1>1, AppendProperties
<1>3. /\ m + n = p
      /\ \A i \in 1 .. m : g[i] = i
      /\ \A i \in 1 .. n : q[i] = m + i
  BY DEF Numbered
<1> HIDE DEF m, n, h, r
<1>4. ASSUME NEW i \in 1 .. m + 1 PROVE h[i] = i
  <2>1. i \in 1 .. m \/ i = m + 1
    BY <1>1
  <2>2. 1 \in 1 .. n
    BY <1>1
  <2> QED BY <2>1, <2>2, <1>2, <1>3
<1>5. ASSUME NEW i \in 1 .. n - 1 PROVE r[i] = m + 1 + i
  <2>1. i + 1 \in 1 .. n /\ m + (i + 1) = m + 1 + i
    BY <1>1
  <2> QED BY <2>1, <1>1, <1>3
<1>6. m + 1 + (n - 1) = p
  BY <1>1, <1>3
<1>7. Numbered(h, r, p)
  BY <1>1, <1>2, <1>4, <1>5, <1>6 DEF Numbered
<1> QED BY <1>1, <1>2, <1>7 DEF h, r, n

------------------------------------------------------------------------------
(* Queue: one step                                                         *)

\* t goes on with the mutex and notifies n waiters of c.
LEMMA LeaveNotify ==
  ASSUME NEW R, Apart(R), CondInv(R), NEW t \in Thread, NEW c \in Conditions,
         NEW n \in Nat, Proceed(t, Notify(Left(t), c, n))
  PROVE  /\ CondInv(R)' /\ waits' = [waits EXCEPT ![t] = "no"]
         /\ \E K \in SUBSET R[c] :
              /\ \A u \in K : Listed(u)
              /\ \A u : Listed(u)' <=> Listed(u) /\ u # t /\ u \notin K
              /\ \/ \A u \in R[c] : ~Listed(u)'
                 \/ IsFiniteSet(K) /\ Cardinality(K) = n
<1> DEFINE w == Left(t)
           v == Notify(w, c, n)
<1>1. Deques(w, R) /\ \A u : Has(w, u) <=> Listed(u) /\ u # t
  BY LeftHas
<1> HIDE DEF w
<1>2. /\ Deques(v, R)
      /\ \E K \in SUBSET R[c] :
           /\ \A u \in K : Has(w, u)
           /\ \A u : Has(v, u) <=> Has(w, u) /\ u \notin K
           /\ \/ \A u \in R[c] : ~Has(v, u)
              \/ IsFiniteSet(K) /\ Cardinality(K) = n
  BY <1>1, NotifyIs
<1> HIDE DEF v
<1>3. /\ CondInv(R)' /\ waits' = [waits EXCEPT ![t] = "no"]
      /\ \A u : Listed(u)' <=> Has(v, u)
  <2>1. Proceed(t, v)
    BY DEF v, w
  <2>2. \A u : Has(v, u) => Listed(u) /\ u # t
    BY <1>1, <1>2
  <2> QED BY <1>2, <2>1, <2>2, ProceedStep
<1>4. PICK K \in SUBSET R[c] :
           /\ \A u \in K : Has(w, u)
           /\ \A u : Has(v, u) <=> Has(w, u) /\ u \notin K
           /\ \/ \A u \in R[c] : ~Has(v, u)
              \/ IsFiniteSet(K) /\ Cardinality(K) = n
  BY <1>2
<1>5. /\ \A u \in K : Listed(u)
      /\ \A u : Listed(u)' <=> Listed(u) /\ u # t /\ u \notin K
      /\ \/ \A u \in R[c] : ~Listed(u)'
         \/ IsFiniteSet(K) /\ Cardinality(K) = n
  BY <1>1, <1>3, <1>4
<1> QED BY <1>3, <1>5

\* t leaves wait(), if it was there.
LEMMA LeaveStep ==
  ASSUME NEW R, Apart(R), CondInv(R), NEW t \in Thread, Proceed(t, Left(t))
  PROVE  /\ CondInv(R)' /\ waits' = [waits EXCEPT ![t] = "no"]
         /\ \A u : Listed(u)' <=> Listed(u) /\ u # t
<1>1. Deques(Left(t), R) /\ \A u : Has(Left(t), u) <=> Listed(u) /\ u # t
  BY LeftHas
<1> QED BY <1>1, ProceedStep

\* The threads K of S are notified.
LEMMA WokenMore ==
  ASSUME NEW R, CondInv(R), NEW S \in SUBSET Thread, NEW K \in SUBSET S,
         \A u \in K : Listed(u),
         \A u \in S : Listed(u)' <=> Listed(u) /\ u \notin K,
         \A u \in S : waits'[u] = waits[u]
  PROVE  /\ Woken(S)' = Woken(S) \cup K /\ K \cap Woken(S) = {}
         /\ Sleeps(S)' => Sleeps(S)
<1>1. \A u \in K : waits[u] # "no"
  BY DEF CondInv
<1> QED BY <1>1 DEF Woken, Sleeps, Notified

\* t of S goes on.
LEMMA WokenLess ==
  ASSUME NEW S \in SUBSET Thread, NEW t \in S,
         \A u \in S : Listed(u)' <=> Listed(u) /\ u # t,
         \A u \in S \ {t} : waits'[u] = waits[u], waits'[t] = "no"
  PROVE  /\ Woken(S)' = Woken(S) \ {t} /\ (Sleeps(S)' => Sleeps(S))
BY DEF Woken, Sleeps, Notified

\* A thread that waits for room, or gives up, as long as the queue is full.
LEMMA PutBlocks ==
  ASSUME QueueInv, NEW t \in Producer, Put(t), ~Room(t)
  PROVE  QueueInv'
<1>1. /\ Block(t, "not_full") \/ Proceed(t, Left(t))
      /\ UNCHANGED <<queue, puts, unfinished_tasks, working, got>>
      /\ calls' \in Nat
  <2>1. ~Room(t) => /\ Block(t, "not_full") \/ GiveUp(t)
                    /\ UNCHANGED <<queue, puts, unfinished_tasks>>
    BY DEF Put
  <2>2. UNCHANGED <<working, got>> /\ (calls' = calls + 1 \/ calls' = calls)
    BY DEF Put
  <2> QED BY <2>1, <2>2 DEF GiveUp, QueueInv, QueueTypeOK
<1>2. /\ CondInv(QueueRole)'
      /\ \A u \in Thread \ {t} : (Listed(u)' <=> Listed(u)) /\ waits'[u] = waits[u]
  <2>1. /\ "not_full" \in Conditions /\ t \in QueueRole["not_full"] /\ t \in Thread
        /\ Apart(QueueRole) /\ CondInv(QueueRole)
    BY QueueRoles DEF QueueInv
  <2>2. CASE Block(t, "not_full")
    BY <2>1, <2>2, BlockStep DEF CondInv
  <2>3. CASE Proceed(t, Left(t))
    BY <2>1, <2>3, LeaveStep DEF CondInv
  <2> QED BY <1>1, <2>2, <2>3
<1>3. Enough(Consumer, Len(queue))'
  <2>1. \A u \in Consumer : (Listed(u)' <=> Listed(u)) /\ waits'[u] = waits[u]
    BY <1>2, QueueRoles, QueueAssumption
  <2>2. Woken(Consumer)' = Woken(Consumer) /\ (Sleeps(Consumer)' <=> Sleeps(Consumer))
    BY <2>1, QueueRoles, Quiet
  <2> QED BY <1>1, <2>2 DEF QueueInv, Enough
<1>4. maxsize > 0 => Enough(Producer, maxsize - Len(queue))'
  <2>1. Woken(Producer)' \in SUBSET Producer
    BY DEF Woken
  <2>2. Cardinality(Woken(Producer)') \in Nat
    BY <2>1, QueueRoles, FS_Subset, FS_CardinalityType
  <2>3. Len(queue) \in Nat /\ ~(Len(queue) < maxsize) /\ maxsize \in Nat
    BY QueueRoles DEF QueueInv, QueueTypeOK, Room
  <2>4. Len(queue)' = Len(queue)
    BY <1>1
  <2> DEFINE k == Cardinality(Woken(Producer)')
             n == Len(queue)
  <2>5. k \in Nat /\ n \in Nat
    BY <2>2, <2>3
  <2> HIDE DEF k
  <2>6. maxsize - n <= k
    BY <2>3, <2>5
  <2> QED BY <2>4, <2>6 DEF Enough, k
<1>5. QueueTypeOK' /\ CountInv' /\ FifoOrder'
  BY <1>1 DEF QueueInv, QueueTypeOK, CountInv, FifoOrder
<1> QED BY <1>2, <1>3, <1>4, <1>5 DEF QueueInv

\* put() with room for the item.
LEMMA PutPuts ==
  ASSUME QueueInv, NEW t \in Producer, Put(t), Room(t)
  PROVE  QueueInv'
<1>1. /\ queue' = Append(queue, puts + 1) /\ puts' = puts + 1
      /\ unfinished_tasks' = unfinished_tasks + 1
      /\ Proceed(t, Notify(Left(t), "not_empty", 1))
      /\ UNCHANGED <<working, got>>
      /\ calls' \in Nat
  <2>1. Room(t) => /\ queue' = Append(queue, puts + 1) /\ puts' = puts + 1
                   /\ unfinished_tasks' = unfinished_tasks + 1
                   /\ Proceed(t, Notify(Left(t), "not_empty", 1))
    BY DEF Put, NotifyGetter
  <2>2. UNCHANGED <<working, got>> /\ (calls' = calls + 1 \/ calls' = calls)
    BY DEF Put
  <2> QED BY <2>1, <2>2 DEF QueueInv, QueueTypeOK
<1>2. /\ queue \in Seq(Nat) /\ got \in Seq(Nat) /\ puts \in Nat
      /\ Len(queue) \in Nat /\ maxsize \in Nat /\ unfinished_tasks \in Nat
      /\ maxsize = 0 \/ Len(queue) < maxsize
  BY QueueRoles DEF QueueInv, QueueTypeOK, Room
<1>3. Numbered(got, queue, puts)
  BY <1>2, NumberedIs DEF QueueInv, FifoOrder
<1>4. /\ Numbered(got, queue', puts')
      /\ queue' \in Seq(Nat) /\ Len(queue') = Len(queue) + 1 /\ puts' \in Nat
  BY <1>1, <1>2, <1>3, NumberedPut
<1>5. FifoOrder'
  <2>1. got \o queue' = [i \in 1 .. puts' |-> i]
    BY <1>2, <1>4, NumberedIs
  <2>2. maxsize > 0 => Len(queue') <= maxsize
    BY <1>2, <1>4
  <2> QED BY <2>1, <2>2, <1>1 DEF FifoOrder
<1>6. CountInv'
  <2>1. unfinished_tasks = Len(queue) + Cardinality(working)
    BY DEF QueueInv, CountInv
  <2>2. IsFiniteSet(working)
    BY QueueRoles, FS_Subset DEF QueueInv, QueueTypeOK
  <2>3. Cardinality(working) \in Nat
    BY <2>2, FS_CardinalityType
  <2> DEFINE k == Cardinality(working)
             n == Len(queue)
  <2>4. unfinished_tasks + 1 = n + 1 + k
    <3>1. k \in Nat /\ n \in Nat /\ unfinished_tasks = n + k
      BY <2>1, <2>3, <1>2
    <3> HIDE DEF k, n
    <3> QED BY <3>1
  <2> QED BY <1>1, <1>4, <2>4 DEF CountInv
<1>7. QueueTypeOK'
  BY <1>1, <1>2, <1>4 DEF QueueInv, QueueTypeOK
<1>8. /\ "not_empty" \in Conditions /\ QueueRole["not_empty"] = Consumer
      /\ t \in Thread /\ t \notin Consumer
      /\ Apart(QueueRole) /\ CondInv(QueueRole)
  BY QueueRoles, QueueAssumption DEF QueueInv
<1>9. /\ CondInv(QueueRole)' /\ waits' = [waits EXCEPT ![t] = "no"]
      /\ \E K \in SUBSET Consumer :
           /\ \A u \in K : Listed(u)
           /\ \A u : Listed(u)' <=> Listed(u) /\ u # t /\ u \notin K
           /\ \/ \A u \in Consumer : ~Listed(u)'
              \/ IsFiniteSet(K) /\ Cardinality(K) = 1
  <2>1. 1 \in Nat
    OBVIOUS
  <2>2. /\ CondInv(QueueRole)' /\ waits' = [waits EXCEPT ![t] = "no"]
        /\ \E K \in SUBSET QueueRole["not_empty"] :
             /\ \A u \in K : Listed(u)
             /\ \A u : Listed(u)' <=> Listed(u) /\ u # t /\ u \notin K
             /\ \/ \A u \in QueueRole["not_empty"] : ~Listed(u)'
                \/ IsFiniteSet(K) /\ Cardinality(K) = 1
    BY ONLY <2>1, <1>1, <1>8, LeaveNotify
  <2> QED BY <2>2, <1>8
<1>10. PICK K \in SUBSET Consumer :
         /\ \A u \in K : Listed(u)
         /\ \A u : Listed(u)' <=> Listed(u) /\ u # t /\ u \notin K
         /\ \/ \A u \in Consumer : ~Listed(u)'
            \/ IsFiniteSet(K) /\ Cardinality(K) = 1
  BY <1>9
<1>11. \A u \in Thread \ {t} : waits'[u] = waits[u]
  BY <1>9 DEF QueueInv, CondInv
<1>12. Enough(Consumer, Len(queue))'
  <2>1. /\ Woken(Consumer)' = Woken(Consumer) \cup K /\ K \cap Woken(Consumer) = {}
        /\ Sleeps(Consumer)' => Sleeps(Consumer)
    BY <1>8, <1>10, <1>11, QueueRoles, WokenMore
  <2>2. ~Sleeps(Consumer)' \/ (IsFiniteSet(K) /\ Cardinality(K) = 1)
    BY <1>10 DEF Sleeps
  <2>3. Enough(Consumer, Len(queue)) /\ IsFiniteSet(Consumer) /\ Len(queue) \in Int
        /\ Consumer \in SUBSET Thread
    BY <1>2, QueueRoles DEF QueueInv
  <2>4. Sleeps(Consumer)' => Len(queue) + 1 <= Cardinality(Woken(Consumer)')
    BY <2>1, <2>2, <2>3, EnoughWoken
  <2> QED BY <2>4, <1>4 DEF Enough
<1>13. maxsize > 0 => Enough(Producer, maxsize - Len(queue))'
  <2>1. /\ Woken(Producer)' = Woken(Producer) \ {t}
        /\ Sleeps(Producer)' => Sleeps(Producer)
    <3>1. \A u \in Producer : Listed(u)' <=> Listed(u) /\ u # t
      BY <1>10, QueueAssumption
    <3>2. waits'[t] = "no"
      BY <1>8, <1>9 DEF CondInv
    <3> QED BY <1>11, <3>1, <3>2, QueueRoles, WokenLess
  <2>2. ASSUME maxsize > 0
        PROVE  Sleeps(Producer)' => maxsize - (Len(queue) + 1) <= Cardinality(Woken(Producer)')
    <3> DEFINE n == maxsize - Len(queue)
               m == maxsize - (Len(queue) + 1)
    <3>1. n \in Nat /\ m \in Int /\ m < n
      BY <1>2, <2>2
    <3>2. Enough(Producer, n) /\ IsFiniteSet(Producer) /\ Producer \in SUBSET Thread
      BY <2>2, QueueRoles DEF QueueInv
    <3> HIDE DEF n, m
    <3>3. Sleeps(Producer)' => m <= Cardinality(Woken(Producer)')
      BY <2>1, <3>1, <3>2, EnoughLeft
    <3> QED BY <3>3 DEF m
  <2> QED BY <2>2, <1>4 DEF Enough
<1> QED BY <1>5, <1>6, <1>7, <1>9, <1>12, <1>13 DEF QueueInv

\* A thread that waits for an item, or gives up, as long as the queue is empty.
LEMMA GetBlocks ==
  ASSUME QueueInv, NEW t \in Consumer, Get(t), queue = <<>>
  PROVE  QueueInv'
<1>1. /\ Block(t, "not_empty") \/ Proceed(t, Left(t))
      /\ UNCHANGED <<queue, puts, unfinished_tasks, working, got, calls>>
  BY DEF Get, GiveUp
<1>2. /\ CondInv(QueueRole)'
      /\ \A u \in Thread \ {t} : (Listed(u)' <=> Listed(u)) /\ waits'[u] = waits[u]
  <2>1. /\ "not_empty" \in Conditions /\ t \in QueueRole["not_empty"] /\ t \in Thread
        /\ Apart(QueueRole) /\ CondInv(QueueRole)
    BY QueueRoles DEF QueueInv
  <2>2. CASE Block(t, "not_empty")
    BY <2>1, <2>2, BlockStep DEF CondInv
  <2>3. CASE Proceed(t, Left(t))
    BY <2>1, <2>3, LeaveStep DEF CondInv
  <2> QED BY <1>1, <2>2, <2>3
<1>3. maxsize > 0 => Enough(Producer, maxsize - Len(queue))'
  <2>1. \A u \in Producer : (Listed(u)' <=> Listed(u)) /\ waits'[u] = waits[u]
    BY <1>2, QueueRoles, QueueAssumption
  <2>2. Woken(Producer)' = Woken(Producer) /\ (Sleeps(Producer)' <=> Sleeps(Producer))
    BY <2>1, QueueRoles, Quiet
  <2> QED BY <1>1, <2>2 DEF QueueInv, Enough
<1>4. Enough(Consumer, Len(queue))'
  <2>1. Woken(Consumer)' \in SUBSET Consumer
    BY DEF Woken
  <2>2. Cardinality(Woken(Consumer)') \in Nat
    BY <2>1, QueueRoles, FS_Subset, FS_CardinalityType
  <2>3. Len(queue)' = 0
    BY <1>1
  <2>4. 0 <= Cardinality(Woken(Consumer)')
    BY <2>2
  <2> QED BY <2>3, <2>4 DEF Enough
<1>5. QueueTypeOK' /\ CountInv' /\ FifoOrder'
  BY <1>1 DEF QueueInv, QueueTypeOK, CountInv, FifoOrder
<1> QED BY <1>2, <1>3, <1>4, <1>5 DEF QueueInv

\* get() with an item in the queue.
LEMMA GetTakes ==
  ASSUME QueueInv, NEW t \in Consumer, Get(t), queue # <<>>
  PROVE  QueueInv'
<1>1. /\ got' = Append(got, Head(queue)) /\ queue' = Tail(queue)
      /\ working' = working \cup {t} /\ t \notin working
      /\ Proceed(t, Notify(Left(t), "not_full", 1))
      /\ UNCHANGED <<unfinished_tasks, calls, puts>>
  BY DEF Get
<1>2. /\ queue \in Seq(Nat) /\ got \in Seq(Nat) /\ puts \in Nat
      /\ maxsize \in Nat /\ unfinished_tasks \in Nat
  BY QueueRoles DEF QueueInv, QueueTypeOK
<1>3. Numbered(got, queue, puts)
  BY <1>2, NumberedIs DEF QueueInv, FifoOrder
<1>4. /\ Numbered(got', queue', puts)
      /\ got' \in Seq(Nat) /\ queue' \in Seq(Nat)
      /\ Len(queue') = Len(queue) - 1 /\ Len(queue) \in Nat \ {0}
  BY <1>1, <1>2, <1>3, NumberedGet
<1>5. FifoOrder'
  <2>1. got' \o queue' = [i \in 1 .. puts |-> i]
    BY <1>2, <1>4, NumberedIs
  <2>2. maxsize > 0 => Len(queue') <= maxsize
    <3>1. maxsize > 0 => Len(queue) <= maxsize
      BY DEF QueueInv, FifoOrder
    <3> QED BY <1>2, <1>4, <3>1
  <2> QED BY <2>1, <2>2, <1>1 DEF FifoOrder
<1>6. CountInv'
  <2>1. unfinished_tasks = Len(queue) + Cardinality(working)
    BY DEF QueueInv, CountInv
  <2>2. IsFiniteSet(working)
    BY QueueRoles, FS_Subset DEF QueueInv, QueueTypeOK
  <2>3. Cardinality(working) \in Nat /\ Cardinality(working') = Cardinality(working) + 1
    BY <1>1, <2>2, FS_CardinalityType, FS_AddElement
  <2> DEFINE k == Cardinality(working)
             n == Len(queue)
  <2>4. unfinished_tasks = n - 1 + (k + 1)
    <3>1. k \in Nat /\ n \in Nat /\ unfinished_tasks = n + k
      BY <2>1, <2>3, <1>4
    <3> HIDE DEF k, n
    <3> QED BY <3>1
  <2> QED BY <1>1, <1>4, <2>3, <2>4 DEF CountInv
<1>7. QueueTypeOK'
  BY <1>1, <1>2, <1>4 DEF QueueInv, QueueTypeOK
<1>8. /\ "not_full" \in Conditions /\ QueueRole["not_full"] = Producer
      /\ t \in Thread /\ t \notin Producer
      /\ Apart(QueueRole) /\ CondInv(QueueRole)
  BY QueueRoles, QueueAssumption DEF QueueInv
<1>9. /\ CondInv(QueueRole)' /\ waits' = [waits EXCEPT ![t] = "no"]
      /\ \E K \in SUBSET Producer :
           /\ \A u \in K : Listed(u)
           /\ \A u : Listed(u)' <=> Listed(u) /\ u # t /\ u \notin K
           /\ \/ \A u \in Producer : ~Listed(u)'
              \/ IsFiniteSet(K) /\ Cardinality(K) = 1
  <2>1. 1 \in Nat /\ Proceed(t, Notify(Left(t), "not_full", 1))
    BY <1>1
  <2>2. /\ CondInv(QueueRole)' /\ waits' = [waits EXCEPT ![t] = "no"]
        /\ \E K \in SUBSET QueueRole["not_full"] :
             /\ \A u \in K : Listed(u)
             /\ \A u : Listed(u)' <=> Listed(u) /\ u # t /\ u \notin K
             /\ \/ \A u \in QueueRole["not_full"] : ~Listed(u)'
                \/ IsFiniteSet(K) /\ Cardinality(K) = 1
    BY ONLY <2>1, <1>8, LeaveNotify
  <2> QED BY <2>2, <1>8
<1>10. PICK K \in SUBSET Producer :
         /\ \A u \in K : Listed(u)
         /\ \A u : Listed(u)' <=> Listed(u) /\ u # t /\ u \notin K
         /\ \/ \A u \in Producer : ~Listed(u)'
            \/ IsFiniteSet(K) /\ Cardinality(K) = 1
  BY <1>9
<1>11. \A u \in Thread \ {t} : waits'[u] = waits[u]
  BY <1>9 DEF QueueInv, CondInv
<1>12. maxsize > 0 => Enough(Producer, maxsize - Len(queue))'
  <2>1. /\ Woken(Producer)' = Woken(Producer) \cup K /\ K \cap Woken(Producer) = {}
        /\ Sleeps(Producer)' => Sleeps(Producer)
    BY <1>8, <1>10, <1>11, QueueRoles, WokenMore
  <2>2. ~Sleeps(Producer)' \/ (IsFiniteSet(K) /\ Cardinality(K) = 1)
    BY <1>10 DEF Sleeps
  <2>3. ASSUME maxsize > 0
        PROVE  Sleeps(Producer)' => maxsize - (Len(queue) - 1) <= Cardinality(Woken(Producer)')
    <3> DEFINE n == maxsize - Len(queue)
               m == maxsize - (Len(queue) - 1)
    <3>1. n \in Int /\ m = n + 1
      BY <1>2, <1>4
    <3>2. Enough(Producer, n) /\ IsFiniteSet(Producer) /\ Producer \in SUBSET Thread
      BY <2>3, QueueRoles DEF QueueInv
    <3> HIDE DEF n, m
    <3>3. Sleeps(Producer)' => n + 1 <= Cardinality(Woken(Producer)')
      BY <2>1, <2>2, <3>1, <3>2, EnoughWoken
    <3>4. Sleeps(Producer)' => m <= Cardinality(Woken(Producer)')
      BY <3>1, <3>3
    <3> QED BY <3>4 DEF m
  <2> QED BY <2>3, <1>4 DEF Enough
<1>13. Enough(Consumer, Len(queue))'
  <2>1. /\ Woken(Consumer)' = Woken(Consumer) \ {t}
        /\ Sleeps(Consumer)' => Sleeps(Consumer)
    <3>1. \A u \in Consumer : Listed(u)' <=> Listed(u) /\ u # t
      BY <1>10, QueueAssumption
    <3>2. waits'[t] = "no"
      BY <1>8, <1>9 DEF CondInv
    <3> QED BY <1>11, <3>1, <3>2, QueueRoles, WokenLess
  <2> DEFINE n == Len(queue)
             m == Len(queue) - 1
  <2>2. n \in Nat /\ m \in Int /\ m < n
    BY <1>4
  <2>3. Enough(Consumer, n) /\ IsFiniteSet(Consumer) /\ Consumer \in SUBSET Thread
    BY QueueRoles DEF QueueInv
  <2> HIDE DEF n, m
  <2>4. Sleeps(Consumer)' => m <= Cardinality(Woken(Consumer)')
    BY <2>1, <2>2, <2>3, EnoughLeft
  <2> QED BY <2>4, <1>4 DEF Enough, m
<1> QED BY <1>5, <1>6, <1>7, <1>9, <1>12, <1>13 DEF QueueInv

\* A step of which consumers and producers see nothing.
LEMMA OthersQuiet ==
  ASSUME QueueInv, CondInv(QueueRole)', QueueTypeOK', CountInv',
         UNCHANGED <<queue, got, puts>>,
         \A S \in {Consumer, Producer} :
           Woken(S)' = Woken(S) /\ (Sleeps(S)' => Sleeps(S))
  PROVE  QueueInv'
<1>1. FifoOrder'
  BY DEF QueueInv, FifoOrder
<1>2. Enough(Consumer, Len(queue))'
  BY DEF QueueInv, Enough
<1>3. maxsize > 0 => Enough(Producer, maxsize - Len(queue))'
  BY DEF QueueInv, Enough
<1> QED BY <1>1, <1>2, <1>3 DEF QueueInv

\* task_done() takes its thread from those that work, and ends all joins at zero.
LEMMA TaskDoneStep ==
  ASSUME QueueInv, NEW t \in Consumer, TaskDone(t)
  PROVE  QueueInv'
<1>1. /\ t \in working /\ working' = working \ {t}
      /\ unfinished_tasks' = unfinished_tasks - 1
      /\ waiters' = NotifyAll(waiters, "all_tasks_done") \/ waiters' = waiters
      /\ UNCHANGED <<queue, waits, calls, puts, got>>
  BY DEF TaskDone, NotifyJoiners, history
<1>2. /\ CountInv' /\ unfinished_tasks' \in Nat
  <2>1. unfinished_tasks = Len(queue) + Cardinality(working) /\ Len(queue) \in Nat
    BY DEF QueueInv, CountInv, QueueTypeOK
  <2>2. IsFiniteSet(working)
    BY QueueRoles, FS_Subset DEF QueueInv, QueueTypeOK
  <2> DEFINE k == Cardinality(working)
             n == Len(queue)
  <2>3. k \in Nat /\ Cardinality(working \ {t}) = k - 1
    BY <1>1, <2>2, FS_CardinalityType, FS_RemoveElement
  <2>4. Cardinality(working \ {t}) \in Nat
    BY <2>2, FS_RemoveElement, FS_CardinalityType
  <2>5. unfinished_tasks - 1 = n + (k - 1) /\ unfinished_tasks - 1 \in Nat
    <3>1. k \in Nat /\ n \in Nat /\ unfinished_tasks = n + k /\ k - 1 \in Nat
      BY <2>1, <2>3, <2>4
    <3> HIDE DEF k, n
    <3> QED BY <3>1
  <2> QED BY <1>1, <2>3, <2>5 DEF CountInv
<1>3. QueueTypeOK'
  BY <1>1, <1>2 DEF QueueInv, QueueTypeOK
<1>4. /\ CondInv(QueueRole)'
      /\ \A u \in Consumer \cup Producer : Listed(u)' <=> Listed(u)
  <2>1. CASE waiters' = waiters
    BY <1>1, <2>1 DEF QueueInv, CondInv, Listed, Deques
  <2>2. CASE waiters' = NotifyAll(waiters, "all_tasks_done")
    <3> DEFINE w == NotifyAll(waiters, "all_tasks_done")
    <3>1. /\ "all_tasks_done" \in Conditions /\ QueueRole["all_tasks_done"] = Joiner
          /\ Apart(QueueRole) /\ CondInv(QueueRole) /\ Deques(waiters, QueueRole)
      BY QueueRoles DEF QueueInv, CondInv
    <3>2. Deques(w, QueueRole) /\ \A u : Has(w, u) <=> Has(waiters, u) /\ u \notin Joiner
      BY <3>1, NotifyAllIs
    <3> HIDE DEF w
    <3>3. \A u : Has(waiters, u) <=> Listed(u)
      BY DEF Has, Listed
    <3>4. CondInv(QueueRole)' /\ \A u : Listed(u)' <=> Has(w, u)
      BY <1>1, <2>2, <3>1, <3>2, <3>3, NotifiedStep DEF w
    <3> QED BY <3>2, <3>3, <3>4, QueueAssumption
  <2> QED BY <1>1, <2>1, <2>2
<1>5. \A S \in {Consumer, Producer} :
        Woken(S)' = Woken(S) /\ (Sleeps(S)' => Sleeps(S))
  BY <1>1, <1>4, QueueRoles, Quiet
<1> QED BY <1>1, <1>2, <1>3, <1>4, <1>5, OthersQuiet

\* join()
LEMMA QueueJoinStep ==
  ASSUME QueueInv, NEW t \in Joiner, Join(t)
  PROVE  QueueInv'
<1>1. /\ Block(t, "all_tasks_done") \/ Proceed(t, Left(t))
      /\ UNCHANGED <<queue, puts, unfinished_tasks, working, got, calls>>
  BY DEF Join, history
<1>2. /\ CondInv(QueueRole)'
      /\ \A u \in Thread \ {t} : (Listed(u)' <=> Listed(u)) /\ waits'[u] = waits[u]
  <2>1. /\ "all_tasks_done" \in Conditions /\ t \in QueueRole["all_tasks_done"]
        /\ t \in Thread /\ Apart(QueueRole) /\ CondInv(QueueRole)
    BY QueueRoles DEF QueueInv
  <2>2. CASE Block(t, "all_tasks_done")
    BY <2>1, <2>2, BlockStep DEF CondInv
  <2>3. CASE Proceed(t, Left(t))
    BY <2>1, <2>3, LeaveStep DEF CondInv
  <2> QED BY <1>1, <2>2, <2>3
<1>3. \A S \in {Consumer, Producer} :
        Woken(S)' = Woken(S) /\ (Sleeps(S)' => Sleeps(S))
  <2>1. \A u \in Consumer \cup Producer : (Listed(u)' <=> Listed(u)) /\ waits'[u] = waits[u]
    BY <1>2, QueueRoles, QueueAssumption
  <2> QED BY <2>1, QueueRoles, Quiet
<1>4. QueueTypeOK' /\ CountInv'
  BY <1>1 DEF QueueInv, QueueTypeOK, CountInv
<1> QED BY <1>1, <1>2, <1>3, <1>4, OthersQuiet

\* A timeout notifies nobody, and a thread that timed out does not sleep.
LEMMA QueueTimeout ==
  ASSUME QueueInv, NEW t \in Timed, Timeout(t), UNCHANGED queueOwn
  PROVE  QueueInv'
<1>1. UNCHANGED <<queue, puts, unfinished_tasks, working, got, calls>>
  BY DEF queueOwn, history
<1>2. t \in Thread /\ CondInv(QueueRole) /\ Listed(t) /\ waits[t] = "waiting"
  BY ConditionAssumption DEF QueueInv, Timeout
<1>3. /\ CondInv(QueueRole)' /\ waits' = [waits EXCEPT ![t] = "timed_out"]
      /\ \A u : Listed(u)' <=> Listed(u)
  BY <1>2, TimeoutStep
<1>4. /\ waits'[t] = "timed_out" /\ \A u \in Thread \ {t} : waits'[u] = waits[u]
  BY <1>2, <1>3 DEF CondInv
<1>5. \A S \in {Consumer, Producer} :
        Woken(S)' = Woken(S) /\ (Sleeps(S)' => Sleeps(S))
  <2>1. \A S \in SUBSET Thread : Woken(S)' = Woken(S) /\ (Sleeps(S)' => Sleeps(S))
    BY <1>2, <1>3, <1>4 DEF Woken, Sleeps, Notified
  <2> QED BY <2>1, QueueRoles
<1>6. QueueTypeOK' /\ CountInv'
  BY <1>1 DEF QueueInv, QueueTypeOK, CountInv
<1> QED BY <1>1, <1>3, <1>5, <1>6, OthersQuiet

------------------------------------------------------------------------------
(* Queue: theorems                                                         *)

\* Nobody is in wait() when the conditions are made.
LEMMA ConditionInitial ==
  ASSUME NEW R, Apart(R), ConditionInit
  PROVE  CondInv(R) /\ \A u : ~Listed(u)
<1>1. /\ waiters \in [Conditions -> Seq(Thread)] /\ waits = [t \in Thread |-> "no"]
      /\ \A c \in Conditions : waiters[c] = <<>>
  BY DEF ConditionInit
<1>2. \A c \in Conditions : ToSet(waiters[c]) = {} /\ Single(waiters[c])
  BY <1>1 DEF ToSet, Single
<1> QED BY <1>1, <1>2 DEF CondInv, Deques, Listed

\* The invariant holds of an empty queue.
LEMMA QueueInitial == QueueInit => QueueInv
<1> SUFFICES ASSUME QueueInit PROVE QueueInv
  OBVIOUS
<1>1. /\ queue = <<>> /\ unfinished_tasks = 0 /\ working = {} /\ calls = 0 /\ puts = 0
      /\ got = <<>> /\ ConditionInit
  BY DEF QueueInit
<1>2. CondInv(QueueRole) /\ \A u : ~Listed(u)
  BY <1>1, ConditionInitial, QueueRoles
<1>3. ~Sleeps(Consumer) /\ ~Sleeps(Producer)
  BY <1>2 DEF Sleeps
<1>4. QueueTypeOK
  BY <1>1 DEF QueueTypeOK
<1>5. FifoOrder
  <2>1. Numbered(got, queue, puts)
    BY <1>1 DEF Numbered
  <2>2. got \o queue = [i \in 1 .. puts |-> i]
    BY <2>1, <1>4, NumberedIs DEF QueueTypeOK
  <2>3. Len(queue) = 0 /\ maxsize \in Nat
    BY <1>1, QueueRoles
  <2> QED BY <2>2, <2>3 DEF FifoOrder
<1>6. CountInv
  BY <1>1, FS_EmptySet DEF CountInv
<1> QED BY <1>2, <1>3, <1>4, <1>5, <1>6 DEF QueueInv, Enough

\* Every step of a thread keeps the invariant.
LEMMA QueueInvariant == QueueSpec => []QueueInv
<1>1. QueueInv /\ [QueueNext]_queueVars => QueueInv'
  <2> SUFFICES ASSUME QueueInv, [QueueNext]_queueVars PROVE QueueInv'
    OBVIOUS
  <2>1. ASSUME NEW t \in Producer, Put(t) PROVE QueueInv'
    BY <2>1, PutBlocks, PutPuts
  <2>2. ASSUME NEW t \in Consumer, Get(t) PROVE QueueInv'
    BY <2>2, GetBlocks, GetTakes
  <2>3. ASSUME NEW t \in Consumer, TaskDone(t) PROVE QueueInv'
    BY <2>3, TaskDoneStep
  <2>4. ASSUME NEW t \in Joiner, Join(t) PROVE QueueInv'
    BY <2>4, QueueJoinStep
  <2>5. ASSUME NEW t \in Timed, Timeout(t), UNCHANGED queueOwn PROVE QueueInv'
    BY <2>5, QueueTimeout
  <2>6. CASE UNCHANGED queueVars
    <3>1. UNCHANGED <<waiters, waits, queue, unfinished_tasks, working, calls, puts, got>>
      BY <2>6 DEF queueVars, condition, queueOwn, history
    <3>2. CondInv(QueueRole)' /\ QueueTypeOK' /\ CountInv'
      BY <3>1 DEF QueueInv, CondInv, Deques, Listed, QueueTypeOK, CountInv
    <3>3. \A S \in {Consumer, Producer} :
            Woken(S)' = Woken(S) /\ (Sleeps(S)' => Sleeps(S))
      BY <3>1 DEF Woken, Sleeps, Notified, Listed
    <3> QED BY <3>1, <3>2, <3>3, OthersQuiet
  <2> QED BY <2>1, <2>2, <2>3, <2>4, <2>5, <2>6 DEF QueueNext
<1> QED BY <1>1, QueueInitial, PTL DEF QueueSpec

\* The variables of Queue keep their types: in particular task_done() never counts
\* below the tasks that are left.
THEOREM QueueTypes == QueueSpec => []QueueTypeOK
BY QueueInvariant, PTL DEF QueueInv

\* get() hands out every item that put() has entered, once and in order, and the
\* queue never holds more than maxsize, whoever times out or barges in.
THEOREM QueueIsFifo == QueueSpec => []FifoOrder
BY QueueInvariant, PTL DEF QueueInv

\* One notify() per item and per slot is enough: nobody sleeps in get() or put()
\* unless as many others have been woken as there is something for.
THEOREM NoWakeUpIsLost == QueueSpec => []NoLostWakeUp
<1>1. QueueInv => NoLostWakeUp
  BY DEF QueueInv, Enough, NoLostWakeUp
<1> QED BY <1>1, QueueInvariant, PTL

------------------------------------------------------------------------------
(* Synchronization: the inductive invariant                                *)

SyncRole == [c \in Conditions |-> IF c = "_cond" THEN Client ELSE {}]

Methods == {"out", "acquire", "event", "enter", "inside"}

\* A thread is in a method of the object, and in wait() as long as it is.
MethodOf(m) == CASE m = "acquire" -> kind = "Semaphore"
                 [] m = "event"   -> kind = "Event"
                 [] m = "out"     -> TRUE
                 [] OTHER         -> kind = "Barrier"
MethodInv == \A t \in Client : /\ method[t] = "out" <=> waits[t] = "no"
                               /\ MethodOf(method[t])

\* _count is the number of threads inside, and a closed barrier has some.
InsideInv == _count = Cardinality(Inside) /\ (Closed => Inside # {})

\* Who sleeps has reason to, and who was notified inside the barrier may leave it.
AsleepInv == /\ Sleeps(Inside) => _state = Filling
             /\ Sleeps(Entering) => Closed
             /\ \A t \in Inside : waits[t] = "waiting" /\ Notified(t) => _state # Filling

\* The party is complete when the barrier opens, and each thread has its place.
PartyInv == /\ _state = Filling /\ _count > 0 => Len(party) = _count
            /\ _state = Draining => Len(party) = parties
            /\ _state \in {Filling, Draining} => \A t \in Inside :
                 index[t] + 1 \in 1 .. Len(party) /\ party[index[t] + 1] = t

BarrierInv == kind = "Barrier" => InsideInv /\ AsleepInv /\ PartyInv

PermitInv == kind = "Semaphore" => Enough(Client, _value)
FlagInv   == kind = "Event" => (Sleeps(Client) => ~_flag)

SyncInv == /\ SyncTypeOK /\ CondInv(SyncRole) /\ MethodInv
           /\ PermitInv /\ FlagInv /\ EventTold /\ BarrierInv

\* All threads wait for the one condition of the object.
LEMMA SyncRoles ==
  /\ Apart(SyncRole) /\ "_cond" \in Conditions /\ SyncRole["_cond"] = Client
  /\ Client \in SUBSET Thread /\ IsFiniteSet(Client)
  /\ \A w, u : Deques(w, SyncRole) /\ Has(w, u) => u \in Client
<1>1. "_cond" \in Conditions /\ Client \in SUBSET Thread
  BY SynchronizationAssumption
<1>2. IsFiniteSet(Client)
  BY <1>1, ConditionAssumption, FS_Subset
<1>3. SyncRole \in [Conditions -> SUBSET Thread] /\ SyncRole["_cond"] = Client
      /\ \A c \in Conditions : c # "_cond" => SyncRole[c] = {}
  BY <1>1 DEF SyncRole
<1> HIDE DEF SyncRole
<1>4. Apart(SyncRole)
  BY <1>3 DEF Apart
<1>5. \A w, u : Deques(w, SyncRole) /\ Has(w, u) => u \in Client
  BY <1>3 DEF Deques, Has
<1> QED BY <1>1, <1>2, <1>3, <1>4, <1>5

\* wait() on the condition of the object.
LEMMA SyncBlocks ==
  ASSUME SyncInv, NEW t \in Client, Block(t, "_cond")
  PROVE  /\ CondInv(SyncRole)' /\ waits' = [waits EXCEPT ![t] = "waiting"]
         /\ \A u \in Thread : Listed(u)' <=> Listed(u) \/ u = t
<1>1. /\ Apart(SyncRole) /\ CondInv(SyncRole) /\ "_cond" \in Conditions
      /\ t \in SyncRole["_cond"]
  BY SyncRoles DEF SyncInv
<1> QED BY <1>1, BlockStep

\* A thread goes on and removes its waiter.
LEMMA SyncLeaves ==
  ASSUME SyncInv, NEW t \in Client, Proceed(t, Left(t))
  PROVE  /\ CondInv(SyncRole)' /\ waits' = [waits EXCEPT ![t] = "no"]
         /\ \A u : Listed(u)' <=> Listed(u) /\ u # t
<1>1. Apart(SyncRole) /\ CondInv(SyncRole) /\ t \in Thread
  BY SyncRoles DEF SyncInv
<1> QED BY <1>1, LeaveStep

\* notify_all() leaves no waiter at all.
LEMMA AllAreTold ==
  ASSUME SyncInv
  PROVE  LET w == NotifyEverybody(waiters)
         IN  Deques(w, SyncRole) /\ \A u : ~Has(w, u)
<1>1. /\ Apart(SyncRole) /\ "_cond" \in Conditions /\ SyncRole["_cond"] = Client
      /\ Deques(waiters, SyncRole)
  BY SyncRoles DEF SyncInv, CondInv
<1> DEFINE w == NotifyAll(waiters, "_cond")
<1>2. Deques(w, SyncRole) /\ \A u : Has(w, u) <=> Has(waiters, u) /\ u \notin Client
  BY <1>1, NotifyAllIs
<1> HIDE DEF w
<1>3. \A u : ~Has(w, u)
  BY <1>1, <1>2, SyncRoles
<1> QED BY <1>2, <1>3 DEF w, NotifyEverybody

\* A thread goes on and notifies all.
LEMMA SyncTellsAll ==
  ASSUME SyncInv, NEW t \in Client, Proceed(t, NotifyEverybody(waiters))
  PROVE  /\ CondInv(SyncRole)' /\ waits' = [waits EXCEPT ![t] = "no"]
         /\ \A u : ~Listed(u)'
<1> DEFINE w == NotifyEverybody(waiters)
<1>1. Deques(w, SyncRole) /\ \A u : ~Has(w, u)
  BY AllAreTold
<1>2. Apart(SyncRole) /\ CondInv(SyncRole) /\ t \in Thread /\ Proceed(t, w)
  BY SyncRoles DEF SyncInv
<1> HIDE DEF w
<1> QED BY <1>1, <1>2, ProceedStep

\* Somebody notifies all.
LEMMA SyncAllTold ==
  ASSUME SyncInv, waiters' = NotifyEverybody(waiters), waits' = waits
  PROVE  CondInv(SyncRole)' /\ \A u : ~Listed(u)'
<1> DEFINE w == NotifyEverybody(waiters)
<1>1. Deques(w, SyncRole) /\ \A u : ~Has(w, u)
  BY AllAreTold
<1>2. CondInv(SyncRole) /\ waiters' = w
  BY DEF SyncInv
<1> HIDE DEF w
<1> QED BY <1>1, <1>2, NotifiedStep

\* t is in method m from now on, or out.
LEMMA MethodMoves ==
  ASSUME SyncInv, NEW t \in Client, NEW m \in Methods, NEW x \in {"no", "waiting"},
         In(t, m), waits' = [waits EXCEPT ![t] = x], m = "out" <=> x = "no",
         MethodOf(m), kind' = kind
  PROVE  /\ method' \in [Client -> Methods] /\ MethodInv'
         /\ method' = [method EXCEPT ![t] = m]
         /\ method'[t] = m /\ \A u \in Client \ {t} : method'[u] = method[u]
<1>1. /\ method' = [method EXCEPT ![t] = m] /\ method \in [Client -> Methods]
      /\ waits \in [Thread -> {"no", "waiting", "timed_out"}] /\ Client \in SUBSET Thread
  BY SyncRoles DEF In, SyncInv, SyncTypeOK, Methods, CondInv
<1>2. /\ method' \in [Client -> Methods] /\ method'[t] = m
      /\ \A u \in Client \ {t} : method'[u] = method[u]
  BY <1>1
<1>3. /\ waits'[t] = x /\ \A u \in Client \ {t} : waits'[u] = waits[u]
  BY <1>1
<1>4. \A u \in Client : MethodOf(method[u])' <=> MethodOf(method'[u])
  BY DEF MethodOf
<1>5. MethodInv'
  <2>1. \A u \in Client : /\ method[u] = "out" <=> waits[u] = "no"
                          /\ MethodOf(method[u])
    BY DEF SyncInv, MethodInv
  <2>2. \A u \in Client : /\ method'[u] = "out" <=> waits'[u] = "no"
                          /\ MethodOf(method'[u])
    BY <2>1, <1>2, <1>3
  <2> QED BY <2>2, <1>4 DEF MethodInv
<1> QED BY <1>1, <1>2, <1>5

------------------------------------------------------------------------------
(* Semaphore and Event: one step                                           *)

\* acquire()
LEMMA AcquireStep ==
  ASSUME SyncInv, NEW t \in Client, AcquirePermit(t)
  PROVE  SyncInv'
<1>1. /\ kind = "Semaphore"
      /\ \/ _value = 0 /\ Block(t, "_cond") /\ In(t, "acquire") /\ _value' = 0
         \/ _value = 0 /\ Proceed(t, Left(t)) /\ In(t, "out") /\ _value' = 0
         \/ _value > 0 /\ _value' = _value - 1 /\ Proceed(t, Left(t)) /\ In(t, "out")
      /\ UNCHANGED <<kind, _flag, answer, _state, _count, index, party>>
  BY DEF AcquirePermit, barrier
<1>2. _value \in Nat /\ MaxValue \in Nat /\ _value \in 0 .. MaxValue
  BY SynchronizationAssumption DEF SyncInv, SyncTypeOK
<1>3. /\ _value' \in 0 .. MaxValue /\ CondInv(SyncRole)' /\ MethodInv'
      /\ method' \in [Client -> Methods]
  <2>1. CASE _value = 0 /\ Block(t, "_cond") /\ In(t, "acquire") /\ _value' = 0
    BY <1>1, <1>2, <2>1, SyncBlocks, MethodMoves DEF Methods, MethodOf
  <2>2. CASE Proceed(t, Left(t)) /\ In(t, "out") /\ (_value' = 0 \/ (_value > 0 /\ _value' = _value - 1))
    BY <1>1, <1>2, <2>2, SyncLeaves, MethodMoves DEF Methods, MethodOf
  <2> QED BY <1>1, <2>1, <2>2
<1>4. PermitInv'
  <2>1. CASE _value' = 0
    <3>1. Woken(Client)' \in SUBSET Client
      BY DEF Woken
    <3>2. Cardinality(Woken(Client)') \in Nat
      BY <3>1, SyncRoles, FS_Subset, FS_CardinalityType
    <3>3. 0 <= Cardinality(Woken(Client)')
      BY <3>2
    <3> QED BY <2>1, <3>3 DEF PermitInv, Enough
  <2>2. CASE _value > 0 /\ _value' = _value - 1 /\ Proceed(t, Left(t))
    <3>1. /\ waits' = [waits EXCEPT ![t] = "no"]
          /\ \A u : Listed(u)' <=> Listed(u) /\ u # t
      BY <2>2, SyncLeaves
    <3>2. waits'[t] = "no" /\ \A u \in Client \ {t} : waits'[u] = waits[u]
      BY <3>1, SyncRoles DEF SyncInv, CondInv
    <3>3. Woken(Client)' = Woken(Client) \ {t} /\ (Sleeps(Client)' => Sleeps(Client))
      BY <3>1, <3>2, SyncRoles, WokenLess
    <3>4. Enough(Client, _value) /\ _value - 1 < _value /\ _value - 1 \in Int
      BY <1>1, <1>2 DEF SyncInv, PermitInv
    <3>5. Sleeps(Client)' => _value - 1 <= Cardinality(Woken(Client)')
      BY <1>2, <3>3, <3>4, SyncRoles, EnoughLeft
    <3> QED BY <2>2, <3>5 DEF PermitInv, Enough
  <2> QED BY <1>1, <2>1, <2>2
<1>5. SyncTypeOK' /\ FlagInv' /\ EventTold' /\ BarrierInv'
  BY <1>1, <1>3 DEF SyncInv, SyncTypeOK, FlagInv, EventTold, BarrierInv, Methods
<1> QED BY <1>3, <1>4, <1>5 DEF SyncInv

\* release(n)
LEMMA ReleaseStep ==
  ASSUME SyncInv, NEW n \in 1 .. MaxValue, ReleasePermits(n)
  PROVE  SyncInv'
<1>1. /\ kind = "Semaphore" /\ _value + n <= MaxValue /\ _value' = _value + n
      /\ waiters' = Notify(waiters, "_cond", n)
      /\ UNCHANGED <<waits, kind, _flag, answer, method, _state, _count, index, party>>
  BY DEF ReleasePermits, NotifyTimes, barrier
<1>2. _value \in Nat /\ MaxValue \in Nat /\ n \in Nat
  BY SynchronizationAssumption DEF SyncInv, SyncTypeOK
<1> DEFINE w == Notify(waiters, "_cond", n)
<1>3. /\ Apart(SyncRole) /\ CondInv(SyncRole) /\ Deques(waiters, SyncRole)
      /\ "_cond" \in Conditions /\ SyncRole["_cond"] = Client /\ Client \in SUBSET Thread
  BY SyncRoles DEF SyncInv, CondInv
<1>4. /\ Deques(w, SyncRole)
      /\ \E K \in SUBSET SyncRole["_cond"] :
           /\ \A u \in K : Has(waiters, u)
           /\ \A u : Has(w, u) <=> Has(waiters, u) /\ u \notin K
           /\ \/ \A u \in SyncRole["_cond"] : ~Has(w, u)
              \/ IsFiniteSet(K) /\ Cardinality(K) = n
  BY <1>2, <1>3, NotifyIs
<1> HIDE DEF w
<1>5. PICK K \in SUBSET Client :
           /\ \A u \in K : Has(waiters, u)
           /\ \A u : Has(w, u) <=> Has(waiters, u) /\ u \notin K
           /\ \/ \A u \in Client : ~Has(w, u)
              \/ IsFiniteSet(K) /\ Cardinality(K) = n
  BY <1>3, <1>4
<1>6. \A u : Has(waiters, u) <=> Listed(u)
  BY DEF Has, Listed
<1>7. CondInv(SyncRole)' /\ \A u : Listed(u)' <=> Has(w, u)
  BY <1>1, <1>3, <1>4, <1>5, <1>6, NotifiedStep DEF w
<1>8. /\ Woken(Client)' = Woken(Client) \cup K /\ K \cap Woken(Client) = {}
      /\ Sleeps(Client)' => Sleeps(Client)
  BY <1>1, <1>3, <1>5, <1>6, <1>7, WokenMore
<1>9. ~Sleeps(Client)' \/ (IsFiniteSet(K) /\ Cardinality(K) = n)
  BY <1>5, <1>7 DEF Sleeps
<1>10. Enough(Client, _value) /\ _value \in Int
  BY <1>1, <1>2 DEF SyncInv, PermitInv
<1>11. Sleeps(Client)' => _value + n <= Cardinality(Woken(Client)')
  BY <1>2, <1>8, <1>9, <1>10, SyncRoles, EnoughWoken
<1>12. PermitInv'
  BY <1>1, <1>11 DEF PermitInv, Enough
<1>13. SyncTypeOK' /\ MethodInv' /\ FlagInv' /\ EventTold' /\ BarrierInv'
  <2>1. _value' \in 0 .. MaxValue
    BY <1>1, <1>2
  <2> QED BY <2>1, <1>1 DEF SyncInv, SyncTypeOK, MethodInv, MethodOf, FlagInv, EventTold, BarrierInv
<1> QED BY <1>7, <1>12, <1>13 DEF SyncInv

\* Event.wait()
LEMMA EventWaitStep ==
  ASSUME SyncInv, NEW t \in Client, EventWait(t)
  PROVE  SyncInv'
<1>1. /\ kind = "Event"
      /\ \/ method[t] = "out" /\ ~_flag /\ Block(t, "_cond") /\ In(t, "event") /\ answer' = answer
         \/ /\ ~(method[t] = "out" /\ ~_flag)
            /\ answer' = [answer EXCEPT ![t] = Signaled(t)]
            /\ Proceed(t, Left(t)) /\ In(t, "out")
      /\ UNCHANGED <<kind, _value, _flag, _state, _count, index, party>>
  BY DEF EventWait, barrier
<1>2. CondInv(SyncRole)' /\ MethodInv' /\ method' \in [Client -> Methods]
  <2>1. CASE Block(t, "_cond") /\ In(t, "event")
    BY <1>1, <2>1, SyncBlocks, MethodMoves DEF Methods, MethodOf
  <2>2. CASE Proceed(t, Left(t)) /\ In(t, "out")
    BY <1>1, <2>2, SyncLeaves, MethodMoves DEF Methods, MethodOf
  <2> QED BY <1>1, <2>1, <2>2
<1>3. FlagInv'
  <2>1. CASE ~_flag
    BY <1>1, <2>1 DEF FlagInv
  <2>2. CASE _flag /\ Proceed(t, Left(t))
    <3>1. /\ waits' = [waits EXCEPT ![t] = "no"]
          /\ \A u : Listed(u)' <=> Listed(u) /\ u # t
      BY <2>2, SyncLeaves
    <3>2. waits'[t] = "no" /\ \A u \in Client \ {t} : waits'[u] = waits[u]
      BY <3>1, SyncRoles DEF SyncInv, CondInv
    <3>3. Sleeps(Client)' => Sleeps(Client)
      BY <3>1, <3>2, SyncRoles, WokenLess
    <3> QED BY <1>1, <3>3 DEF FlagInv, SyncInv
  <2> QED BY <1>1, <2>1, <2>2
<1>4. EventTold' /\ answer' \in [Client -> BOOLEAN]
  <2>1. /\ answer \in [Client -> BOOLEAN] /\ _flag \in BOOLEAN
        /\ \A u \in Client \ Timed : answer[u]
    BY DEF SyncInv, SyncTypeOK, EventTold
  <2>2. CASE answer' = answer
    BY <2>1, <2>2 DEF EventTold
  <2>3. CASE ~(method[t] = "out" /\ ~_flag) /\ answer' = [answer EXCEPT ![t] = Signaled(t)]
    <3>1. Signaled(t) \in BOOLEAN
      BY <2>1 DEF Signaled
    <3>2. t \notin Timed => Signaled(t)
      <4>1. CASE method[t] = "out"
        BY <4>1, <2>3 DEF Signaled
      <4>2. CASE method[t] # "out"
        <5>1. waits[t] # "no" /\ waits[t] \in {"no", "waiting", "timed_out"}
              /\ (waits[t] = "timed_out" => t \in Timed)
          BY <4>2, SyncRoles DEF SyncInv, MethodInv, CondInv
        <5> QED BY <4>2, <5>1 DEF Signaled
      <4> QED BY <4>1, <4>2
    <3> QED BY <2>1, <2>3, <3>1, <3>2 DEF EventTold
  <2> QED BY <1>1, <2>2, <2>3
<1>5. SyncTypeOK' /\ PermitInv' /\ BarrierInv'
  BY <1>1, <1>2, <1>4 DEF SyncInv, SyncTypeOK, PermitInv, BarrierInv, Methods
<1> QED BY <1>2, <1>3, <1>4, <1>5 DEF SyncInv

\* set() and clear()
LEMMA EventSetStep ==
  ASSUME SyncInv, SetEvent \/ ClearEvent
  PROVE  SyncInv'
<1>1. /\ kind = "Event" /\ _flag' \in BOOLEAN
      /\ UNCHANGED <<waits, kind, _value, answer, method, _state, _count, index, party>>
  BY DEF SetEvent, ClearEvent, barrier, condition
<1>2. CondInv(SyncRole)' /\ FlagInv'
  <2>1. CASE SetEvent
    <3>1. CondInv(SyncRole)' /\ \A u : ~Listed(u)'
      BY <1>1, <2>1, SyncAllTold DEF SetEvent
    <3> QED BY <3>1 DEF FlagInv, Sleeps
  <2>2. CASE ClearEvent
    <3>1. UNCHANGED <<waiters, waits>> /\ _flag' = FALSE
      BY <2>2 DEF ClearEvent, condition
    <3> QED BY <3>1 DEF SyncInv, CondInv, Deques, Listed, FlagInv
  <2> QED BY <2>1, <2>2
<1>3. SyncTypeOK' /\ MethodInv' /\ PermitInv' /\ EventTold' /\ BarrierInv'
  BY <1>1 DEF SyncInv, SyncTypeOK, MethodInv, MethodOf, PermitInv, EventTold, BarrierInv
<1> QED BY <1>2, <1>3 DEF SyncInv

------------------------------------------------------------------------------
(* Barrier: one step                                                       *)

\* How many threads are inside, and what a step on the barrier leaves alone.
LEMMA BarrierFacts ==
  ASSUME SyncInv, kind = "Barrier"
  PROVE  /\ InsideInv /\ AsleepInv /\ PartyInv
         /\ IsFiniteSet(Inside) /\ Cardinality(Inside) = _count
         /\ Inside \in SUBSET Client /\ Entering \in SUBSET Client
         /\ _count \in Nat /\ _count \in 0 .. parties - 1 /\ parties \in Nat \ {0, 1}
         /\ party \in Seq(Client) /\ index \in [Client -> 0 .. parties - 1]
         /\ method \in [Client -> Methods]
         /\ _state \in {Filling, Draining, Resetting, Broken}
<1>1. Inside \in SUBSET Client /\ Entering \in SUBSET Client
  BY DEF Inside, Entering
<1>2. IsFiniteSet(Inside)
  BY <1>1, SyncRoles, FS_Subset
<1> QED BY <1>1, <1>2, SynchronizationAssumption
        DEF SyncInv, SyncTypeOK, BarrierInv, InsideInv, Methods

\* What has nothing to do with the barrier holds on.
LEMMA OnlyBarrier ==
  ASSUME SyncInv, kind = "Barrier", UNCHANGED <<kind, _value, _flag, answer>>,
         CondInv(SyncRole)', MethodInv', method' \in [Client -> Methods],
         _state' \in {Filling, Draining, Resetting, Broken},
         _count' \in 0 .. parties - 1, index' \in [Client -> 0 .. parties - 1],
         party' \in Seq(Client), InsideInv', AsleepInv', PartyInv'
  PROVE  SyncInv'
BY DEF SyncInv, SyncTypeOK, PermitInv, FlagInv, EventTold, BarrierInv, Methods

\* The barrier is closed: t waits before it.
LEMMA EnterWaits ==
  ASSUME SyncInv, NEW t \in Client, kind = "Barrier", method[t] \in {"out", "enter"},
         Closed, Block(t, "_cond"), In(t, "enter"),
         UNCHANGED <<kind, _value, _flag, answer, barrier>>
  PROVE  SyncInv'
<1>1. UNCHANGED <<_state, _count, index, party>>
  BY DEF barrier
<1>2. /\ CondInv(SyncRole)' /\ waits' = [waits EXCEPT ![t] = "waiting"]
      /\ \A u \in Thread : Listed(u)' <=> Listed(u) \/ u = t
  BY SyncBlocks
<1>3. /\ method' \in [Client -> Methods] /\ MethodInv'
      /\ method'[t] = "enter" /\ \A u \in Client \ {t} : method'[u] = method[u]
  BY <1>2, MethodMoves DEF Methods, MethodOf
<1>4. /\ InsideInv /\ AsleepInv /\ PartyInv /\ Inside \in SUBSET Client
      /\ Client \in SUBSET Thread
      /\ waits \in [Thread -> {"no", "waiting", "timed_out"}]
  BY BarrierFacts, SyncRoles DEF SyncInv, CondInv
<1>5. Inside' = Inside /\ t \notin Inside
  BY <1>3 DEF Inside
<1>6. InsideInv' /\ PartyInv'
  BY <1>1, <1>4, <1>5 DEF InsideInv, PartyInv, Closed
<1>7. \A u \in Inside : (Listed(u)' <=> Listed(u)) /\ waits'[u] = waits[u]
  BY <1>2, <1>4, <1>5
<1>8. AsleepInv'
  <2>1. Sleeps(Inside)' => _state' = Filling
    BY <1>1, <1>4, <1>5, <1>7 DEF AsleepInv, Sleeps
  <2>2. Closed'
    BY <1>1 DEF Closed
  <2>3. \A u \in Inside' : waits'[u] = "waiting" /\ Notified(u)' => _state' # Filling
    BY <1>1, <1>4, <1>5, <1>7 DEF AsleepInv, Notified
  <2> QED BY <2>1, <2>2, <2>3 DEF AsleepInv
<1> QED BY <1>1, <1>2, <1>3, <1>6, <1>8, BarrierFacts, OnlyBarrier

\* The barrier is broken: t goes away.
LEMMA EnterFails ==
  ASSUME SyncInv, NEW t \in Client, kind = "Barrier", method[t] \in {"out", "enter"},
         _state = Broken, Proceed(t, Left(t)), In(t, "out"),
         UNCHANGED <<kind, _value, _flag, answer, barrier>>
  PROVE  SyncInv'
<1>1. UNCHANGED <<_state, _count, index, party>>
  BY DEF barrier
<1>2. /\ CondInv(SyncRole)' /\ waits' = [waits EXCEPT ![t] = "no"]
      /\ \A u : Listed(u)' <=> Listed(u) /\ u # t
  BY SyncLeaves
<1>3. /\ method' \in [Client -> Methods] /\ MethodInv'
      /\ method'[t] = "out" /\ \A u \in Client \ {t} : method'[u] = method[u]
  BY <1>2, MethodMoves DEF Methods, MethodOf
<1>4. /\ InsideInv /\ AsleepInv /\ PartyInv /\ Client \in SUBSET Thread
      /\ waits \in [Thread -> {"no", "waiting", "timed_out"}]
  BY BarrierFacts, SyncRoles DEF SyncInv, CondInv
<1>5. Inside' = Inside /\ t \notin Inside /\ Entering' = Entering \ {t}
  BY <1>3 DEF Inside, Entering
<1>6. InsideInv' /\ PartyInv'
  BY <1>1, <1>4, <1>5 DEF InsideInv, PartyInv, Closed
<1>7. \A u \in Client \ {t} : (Listed(u)' <=> Listed(u)) /\ waits'[u] = waits[u]
  BY <1>2, <1>4
<1>8. AsleepInv'
  <2>1. Inside \subseteq Client \ {t} /\ Entering \ {t} \subseteq Client \ {t}
    BY <1>5 DEF Inside, Entering
  <2>2. (Sleeps(Inside)' => Sleeps(Inside)) /\ (Sleeps(Entering)' => Sleeps(Entering))
    BY <1>5, <1>7, <2>1 DEF Sleeps
  <2>3. _state' # Filling
    BY <1>1 DEF Filling, Broken
  <2>4. Closed' <=> Closed
    BY <1>1 DEF Closed
  <2> QED BY <1>1, <1>4, <2>2, <2>3, <2>4 DEF AsleepInv
<1> QED BY <1>1, <1>2, <1>3, <1>6, <1>8, BarrierFacts, OnlyBarrier

\* t enters and is not the last: it waits inside.
LEMMA EnterInside ==
  ASSUME SyncInv, NEW t \in Client, kind = "Barrier", method[t] \in {"out", "enter"},
         ~Closed, _state # Broken,
         party' = Append(IF _count = 0 THEN <<>> ELSE party, t),
         index' = [index EXCEPT ![t] = _count],
         _count + 1 < parties, _count' = _count + 1, Block(t, "_cond"), In(t, "inside"),
         UNCHANGED <<_state, kind, _value, _flag, answer>>
  PROVE  SyncInv'
<1>1. /\ CondInv(SyncRole)' /\ waits' = [waits EXCEPT ![t] = "waiting"]
      /\ \A u \in Thread : Listed(u)' <=> Listed(u) \/ u = t
  BY SyncBlocks
<1>2. /\ method' \in [Client -> Methods] /\ MethodInv'
      /\ method'[t] = "inside" /\ \A u \in Client \ {t} : method'[u] = method[u]
  BY <1>1, MethodMoves DEF Methods, MethodOf
<1>3. /\ InsideInv /\ AsleepInv /\ PartyInv /\ Client \in SUBSET Thread
      /\ waits \in [Thread -> {"no", "waiting", "timed_out"}]
      /\ IsFiniteSet(Inside) /\ Cardinality(Inside) = _count
      /\ _count \in Nat /\ parties \in Nat /\ party \in Seq(Client)
      /\ index \in [Client -> 0 .. parties - 1] /\ Inside \in SUBSET Client
  BY BarrierFacts, SyncRoles DEF SyncInv, CondInv
<1>4. Inside' = Inside \cup {t} /\ t \notin Inside /\ Entering' = Entering \ {t}
  BY <1>2 DEF Inside, Entering
<1>5. _state = Filling /\ _state' = Filling /\ ~Closed'
  BY BarrierFacts DEF Closed, Filling, Draining, Resetting
<1>6. InsideInv'
  <2>1. Cardinality(Inside') = _count + 1
    BY <1>3, <1>4, FS_AddElement
  <2> QED BY <2>1, <1>5 DEF InsideInv
<1>7. AsleepInv'
  <2>1. ~Sleeps(Entering)
    BY <1>3 DEF AsleepInv
  <2>2. \A u \in Client \ {t} : (Listed(u)' <=> Listed(u)) /\ waits'[u] = waits[u]
    BY <1>1, <1>3
  <2>3. ~Sleeps(Entering)'
    BY <1>4, <2>1, <2>2 DEF Sleeps, Entering
  <2>4. ~Notified(t)'
    BY <1>1, <1>3 DEF Notified
  <2>5. \A u \in Inside : waits'[u] = "waiting" /\ Notified(u)' => _state # Filling
    BY <1>3, <1>4, <2>2 DEF AsleepInv, Notified
  <2> QED BY <1>4, <1>5, <2>3, <2>4, <2>5 DEF AsleepInv
<1>8. PartyInv' /\ party' \in Seq(Client) /\ index' \in [Client -> 0 .. parties - 1]
  <2> DEFINE p == IF _count = 0 THEN <<>> ELSE party
  <2>1. p \in Seq(Client) /\ Len(p) = _count
    BY <1>3, <1>5 DEF PartyInv
  <2>2. \A u \in Inside : index[u] + 1 \in 1 .. Len(p) /\ p[index[u] + 1] = u
    <3>1. CASE _count = 0
      <4>1. Inside = {}
        BY <1>3, <3>1, FS_EmptySet
      <4> QED BY <4>1
    <3>2. CASE _count # 0
      BY <1>3, <1>5, <3>2 DEF PartyInv
    <3> QED BY <3>1, <3>2
  <2> HIDE DEF p
  <2>3. /\ party' = Append(p, t) /\ party' \in Seq(Client) /\ Len(party') = _count + 1
        /\ \A i \in 1 .. _count : party'[i] = p[i]
        /\ party'[_count + 1] = t
    <3>1. party' = Append(p, t)
      BY DEF p
    <3> DEFINE q == Append(p, t)
    <3>2. /\ q \in Seq(Client) /\ Len(q) = Len(p) + 1
          /\ \A i \in 1 .. Len(p) : q[i] = p[i]
          /\ q[Len(p) + 1] = t
      BY <2>1, AppendProperties
    <3> HIDE DEF q
    <3> QED BY <2>1, <3>1, <3>2 DEF q
  <2>4. index'[t] = _count /\ \A u \in Client \ {t} : index'[u] = index[u]
    BY <1>3
  <2>5. index' \in [Client -> 0 .. parties - 1]
    <3>1. _count \in 0 .. parties - 1
      BY <1>3
    <3> QED BY <1>3, <3>1
  <2>6. ASSUME NEW u \in Inside'
        PROVE  index'[u] + 1 \in 1 .. Len(party') /\ party'[index'[u] + 1] = u
    <3>1. CASE u = t
      <4>1. _count + 1 \in 1 .. _count + 1
        BY <1>3
      <4> QED BY <3>1, <4>1, <2>3, <2>4
    <3>2. CASE u \in Inside /\ u # t
      <4>1. index'[u] = index[u] /\ u \in Client
        BY <1>3, <3>2, <2>4
      <4>2. index[u] + 1 \in 1 .. _count /\ p[index[u] + 1] = u
        BY <3>2, <2>1, <2>2
      <4>3. index[u] + 1 \in 1 .. _count + 1
        BY <4>2, <1>3
      <4> QED BY <4>1, <4>2, <4>3, <2>3
    <3> QED BY <1>4, <3>1, <3>2
  <2> QED BY <1>5, <2>3, <2>5, <2>6 DEF PartyInv, Filling, Draining
<1>9. _count' \in 0 .. parties - 1
  BY <1>3
<1> QED BY <1>1, <1>2, <1>5, <1>6, <1>7, <1>8, <1>9, OnlyBarrier

\* Nobody is left in the deque: the sleepers are in order.
LEMMA NobodySleeps ==
  ASSUME \A u : ~Listed(u)', Inside' = {} \/ _state' # Filling
  PROVE  AsleepInv'
BY DEF AsleepInv, Sleeps

\* t is the last to enter: the barrier opens, or its action breaks it.
LEMMA EnterLast ==
  ASSUME SyncInv, NEW t \in Client, kind = "Barrier", method[t] \in {"out", "enter"},
         ~Closed, _state # Broken,
         party' = Append(IF _count = 0 THEN <<>> ELSE party, t),
         index' = [index EXCEPT ![t] = _count],
         _count + 1 = parties, _state' \in {Draining, Broken},
         Proceed(t, NotifyEverybody(waiters)), In(t, "out"),
         UNCHANGED <<_count, kind, _value, _flag, answer>>
  PROVE  SyncInv'
<1>1. /\ CondInv(SyncRole)' /\ waits' = [waits EXCEPT ![t] = "no"]
      /\ \A u : ~Listed(u)'
  BY SyncTellsAll
<1>2. /\ method' \in [Client -> Methods] /\ MethodInv'
      /\ method'[t] = "out" /\ \A u \in Client \ {t} : method'[u] = method[u]
  BY <1>1, MethodMoves DEF Methods, MethodOf
<1>3. /\ InsideInv /\ PartyInv
      /\ IsFiniteSet(Inside) /\ Cardinality(Inside) = _count
      /\ _count \in Nat /\ parties \in Nat \ {0, 1} /\ party \in Seq(Client)
      /\ _count \in 0 .. parties - 1
      /\ index \in [Client -> 0 .. parties - 1] /\ Inside \in SUBSET Client
  BY BarrierFacts
<1>4. Inside' = Inside /\ t \notin Inside
  BY <1>2 DEF Inside
<1>5. _state = Filling /\ _state' # Filling /\ _count > 0
  <2>1. _state = Filling
    BY BarrierFacts DEF Closed
  <2>2. _count > 0
    BY <1>3
  <2> QED BY <2>1, <2>2 DEF Filling, Draining, Broken
<1>6. InsideInv'
  <2>1. Inside # {}
    BY <1>3, <1>5, FS_EmptySet
  <2> QED BY <1>3, <1>4, <2>1 DEF InsideInv
<1>7. AsleepInv'
  BY <1>1, <1>5, NobodySleeps
<1>8. PartyInv' /\ party' \in Seq(Client) /\ index' \in [Client -> 0 .. parties - 1]
  <2>1. Len(party) = _count /\ party' = Append(party, t)
    BY <1>3, <1>5 DEF PartyInv
  <2>2. /\ party' \in Seq(Client) /\ Len(party') = _count + 1
        /\ \A i \in 1 .. _count : party'[i] = party[i]
    BY <1>3, <2>1, AppendProperties
  <2>3. \A u \in Client \ {t} : index'[u] = index[u]
    BY <1>3
  <2>4. index' \in [Client -> 0 .. parties - 1]
    BY <1>3
  <2>5. ASSUME NEW u \in Inside'
        PROVE  index'[u] + 1 \in 1 .. Len(party') /\ party'[index'[u] + 1] = u
    <3>1. index'[u] = index[u] /\ u \in Inside
      BY <1>3, <1>4, <2>3
    <3>2. index[u] + 1 \in 1 .. _count /\ party[index[u] + 1] = u
      BY <3>1, <1>3, <1>5, <2>1 DEF PartyInv
    <3>3. index[u] + 1 \in 1 .. _count + 1
      BY <3>2, <1>3
    <3> QED BY <3>1, <3>2, <3>3, <2>2
  <2> QED BY <1>5, <2>2, <2>4, <2>5 DEF PartyInv
<1>9. _state' \in {Filling, Draining, Resetting, Broken}
  OBVIOUS
<1> QED BY <1>1, <1>2, <1>3, <1>6, <1>7, <1>8, <1>9, OnlyBarrier

\* t leaves, and if it is the last the barrier is ready again.
LEMMA LeaveStepBarrier ==
  ASSUME SyncInv, NEW t \in Client, kind = "Barrier", method[t] = "inside",
         NEW s, LeaveBarrier(t, s), UNCHANGED <<kind, _value, _flag, answer, index, party>>,
         (s = _state /\ _state # Filling) \/ (s = Broken /\ _state = Filling)
  PROVE  SyncInv'
<1>1. /\ InsideInv /\ AsleepInv /\ PartyInv /\ Client \in SUBSET Thread
      /\ waits \in [Thread -> {"no", "waiting", "timed_out"}]
      /\ IsFiniteSet(Inside) /\ Cardinality(Inside) = _count
      /\ _count \in Nat /\ _count \in 0 .. parties - 1 /\ parties \in Nat
      /\ _state \in {Filling, Draining, Resetting, Broken}
  BY BarrierFacts, SyncRoles DEF SyncInv, CondInv
<1>2. t \in Inside
  BY DEF Inside
<1>3. _count # 0 /\ Cardinality(Inside \ {t}) = _count - 1 /\ IsFiniteSet(Inside \ {t})
  <2>1. _count # 0
    BY <1>1, <1>2, FS_EmptySet
  <2> QED BY <2>1, <1>1, <1>2, FS_RemoveElement
<1>4. _count' = _count - 1 /\ _count' \in 0 .. parties - 1 /\ In(t, "out")
  BY <1>1, <1>3 DEF LeaveBarrier
<1>5. /\ CondInv(SyncRole)' /\ waits' = [waits EXCEPT ![t] = "no"]
      /\ \/ /\ _count = 1 /\ _state' = Filling /\ \A u : ~Listed(u)'
         \/ /\ ~(_count = 1 /\ s \in {Draining, Resetting})
            /\ s = _state /\ _state' = s /\ \A u : Listed(u)' <=> Listed(u) /\ u # t
         \/ /\ s # _state /\ _state' = s /\ \A u : ~Listed(u)'
  <2>1. CASE _count = 1 /\ s \in {Draining, Resetting}
    <3>1. _state' = Filling /\ Proceed(t, NotifyEverybody(waiters))
      BY <2>1 DEF LeaveBarrier
    <3> QED BY <2>1, <3>1, SyncTellsAll
  <2>2. CASE ~(_count = 1 /\ s \in {Draining, Resetting}) /\ s = _state
    <3>1. _state' = s /\ Proceed(t, Left(t))
      BY <2>2 DEF LeaveBarrier
    <3> QED BY <2>2, <3>1, SyncLeaves
  <2>3. CASE ~(_count = 1 /\ s \in {Draining, Resetting}) /\ s # _state
    <3>1. _state' = s /\ Proceed(t, NotifyEverybody(waiters))
      BY <2>3 DEF LeaveBarrier
    <3> QED BY <2>3, <3>1, SyncTellsAll
  <2> QED BY <2>1, <2>2, <2>3
<1>6. /\ method' \in [Client -> Methods] /\ MethodInv'
      /\ method'[t] = "out" /\ \A u \in Client \ {t} : method'[u] = method[u]
  BY <1>4, <1>5, MethodMoves DEF Methods, MethodOf
<1>7. Inside' = Inside \ {t} /\ Entering' = Entering
  BY <1>6 DEF Inside, Entering
<1>8. /\ _state' \in {Filling, Draining, Resetting, Broken}
      /\ InsideInv' /\ AsleepInv' /\ PartyInv'
  <2>1. CASE _count = 1 /\ _state' = Filling /\ \A u : ~Listed(u)'
    <3>1. Inside' = {} /\ _count' = 0
      BY <1>3, <1>4, <1>7, <2>1, FS_EmptySet
    <3>2. InsideInv'
      BY <3>1, <2>1, FS_EmptySet DEF InsideInv, Closed, Filling, Draining, Resetting
    <3>3. AsleepInv'
      BY <3>1, <2>1, NobodySleeps
    <3>4. PartyInv'
      BY <3>1, <2>1 DEF PartyInv, Filling, Draining
    <3> QED BY <2>1, <3>2, <3>3, <3>4
  <2>2. CASE /\ ~(_count = 1 /\ s \in {Draining, Resetting})
             /\ s = _state /\ _state' = s /\ \A u : Listed(u)' <=> Listed(u) /\ u # t
    <3>1. _state # Filling /\ _state' = _state /\ (Closed' <=> Closed)
      BY <2>2 DEF Closed, Filling, Broken
    <3>2. InsideInv'
      <4>1. ASSUME Closed PROVE Inside \ {t} # {}
        <5>1. _count # 1
          BY <4>1, <2>2 DEF Closed
        <5>2. _count - 1 # 0
          BY <5>1, <1>1
        <5> QED BY <5>2, <1>3, FS_EmptySet
      <4> QED BY <4>1, <3>1, <1>3, <1>4, <1>7 DEF InsideInv
    <3>3. AsleepInv'
      <4>1. \A u \in Client \ {t} : (Listed(u)' <=> Listed(u)) /\ waits'[u] = waits[u]
        BY <1>1, <1>5, <2>2
      <4>2. Inside \ {t} \subseteq Client \ {t} /\ Entering \subseteq Client \ {t}
        BY DEF Inside, Entering
      <4>3. (Sleeps(Inside)' => Sleeps(Inside)) /\ (Sleeps(Entering)' => Sleeps(Entering))
        BY <1>7, <4>1, <4>2 DEF Sleeps
      <4> QED BY <1>1, <3>1, <4>3 DEF AsleepInv
    <3>4. PartyInv'
      BY <1>1, <1>7, <3>1 DEF PartyInv
    <3> QED BY <1>1, <3>1, <3>2, <3>3, <3>4
  <2>3. CASE s # _state /\ _state' = s /\ \A u : ~Listed(u)'
    <3>1. _state' = Broken /\ _state' # Filling /\ ~Closed' /\ _state' # Draining
      BY <2>3 DEF Closed, Filling, Draining, Resetting, Broken
    <3>2. InsideInv'
      BY <3>1, <1>3, <1>4, <1>7 DEF InsideInv
    <3>3. AsleepInv'
      BY <3>1, <2>3, NobodySleeps
    <3>4. PartyInv'
      BY <3>1 DEF PartyInv
    <3> QED BY <3>1, <3>2, <3>3, <3>4
  <2> QED BY <1>5, <2>1, <2>2, <2>3
<1>9. index' \in [Client -> 0 .. parties - 1] /\ party' \in Seq(Client)
  BY BarrierFacts
<1> QED BY <1>4, <1>5, <1>6, <1>8, <1>9, OnlyBarrier

\* reset() and abort()
LEMMA ResetStep ==
  ASSUME SyncInv, ResetBarrier
  PROVE  SyncInv'
<1>1. /\ kind = "Barrier" /\ _state' \in {ResetState, Broken}
      /\ waiters' = NotifyEverybody(waiters)
      /\ UNCHANGED <<waits, kind, _value, _flag, answer, method, _count, index, party>>
  BY DEF ResetBarrier
<1>2. CondInv(SyncRole)' /\ \A u : ~Listed(u)'
  BY <1>1, SyncAllTold
<1>3. /\ InsideInv /\ PartyInv /\ IsFiniteSet(Inside) /\ Cardinality(Inside) = _count
      /\ _count \in Nat
  BY <1>1, BarrierFacts
<1>4. Inside' = Inside
  BY <1>1 DEF Inside
<1>5. Inside = {} <=> _count = 0
  BY <1>3, FS_EmptySet
<1>6. /\ _state' \in {Filling, Draining, Resetting, Broken}
      /\ _state' = Filling => Inside = {}
      /\ Closed' => Inside # {}
      /\ _state' = Draining => _state = Draining
  <2>1. CASE _count = 0
    BY <1>1, <1>5, <2>1 DEF ResetState, Closed, Filling, Draining, Resetting, Broken
  <2>2. CASE _count # 0
    BY <1>1, <1>5, <2>2 DEF ResetState, Closed, Filling, Draining, Resetting, Broken
  <2> QED BY <2>1, <2>2
<1>7. InsideInv'
  BY <1>1, <1>3, <1>4, <1>6 DEF InsideInv
<1>8. AsleepInv'
  BY <1>2, <1>4, <1>6, NobodySleeps
<1>9. PartyInv'
  <2>1. _state' = Filling => _count' = 0
    BY <1>1, <1>5, <1>6
  <2> QED BY <1>1, <1>3, <1>4, <1>6, <2>1 DEF PartyInv
<1>10. MethodInv' /\ method' \in [Client -> Methods]
  BY <1>1, BarrierFacts DEF SyncInv, MethodInv, MethodOf
<1> QED BY <1>1, <1>2, <1>6, <1>7, <1>8, <1>9, <1>10, BarrierFacts, OnlyBarrier

\* A wait() times out, in whatever object.
LEMMA SyncTimeoutStep ==
  ASSUME SyncInv, NEW t \in Client, SyncTimeout(t)
  PROVE  SyncInv'
<1>1. /\ Timeout(t)
      /\ UNCHANGED <<kind, _value, _flag, answer, method, _state, _count, index, party>>
  BY DEF SyncTimeout, barrier
<1>2. /\ t \in Thread /\ CondInv(SyncRole) /\ Client \in SUBSET Thread
      /\ waits[t] = "waiting" /\ Listed(t)
      /\ waits \in [Thread -> {"no", "waiting", "timed_out"}]
  BY <1>1, SyncRoles DEF SyncInv, Timeout, CondInv
<1>3. /\ CondInv(SyncRole)' /\ waits' = [waits EXCEPT ![t] = "timed_out"]
      /\ \A u : Listed(u)' <=> Listed(u)
  BY <1>1, <1>2, TimeoutStep
<1>4. waits'[t] = "timed_out" /\ \A u \in Thread \ {t} : waits'[u] = waits[u]
  BY <1>2, <1>3
<1>5. \A S \in SUBSET Thread : Woken(S)' = Woken(S) /\ (Sleeps(S)' => Sleeps(S))
  BY <1>2, <1>3, <1>4 DEF Woken, Sleeps, Notified
<1>6. PermitInv' /\ FlagInv'
  BY <1>1, <1>2, <1>5 DEF SyncInv, PermitInv, Enough, FlagInv
<1>7. MethodInv'
  <2>1. \A u \in Client : waits'[u] = "no" <=> waits[u] = "no"
    BY <1>2, <1>4
  <2> QED BY <1>1, <2>1 DEF SyncInv, MethodInv, MethodOf
<1>8. BarrierInv'
  <2> SUFFICES ASSUME kind = "Barrier" PROVE InsideInv' /\ AsleepInv' /\ PartyInv'
    BY <1>1 DEF BarrierInv
  <2>1. /\ InsideInv /\ AsleepInv /\ PartyInv
        /\ Inside \in SUBSET Thread /\ Entering \in SUBSET Thread
    BY <1>2, BarrierFacts
  <2>2. Inside' = Inside /\ Entering' = Entering /\ (Closed' <=> Closed)
    BY <1>1 DEF Inside, Entering, Closed
  <2>3. InsideInv' /\ PartyInv'
    BY <1>1, <2>1, <2>2 DEF InsideInv, PartyInv
  <2>4. (Sleeps(Inside)' => Sleeps(Inside)) /\ (Sleeps(Entering)' => Sleeps(Entering))
    <3>1. Sleeps(Inside)' => Sleeps(Inside)
      BY <1>3, <1>4, <2>1, <2>2 DEF Sleeps
    <3>2. Sleeps(Entering)' => Sleeps(Entering)
      BY <1>3, <1>4, <2>1, <2>2 DEF Sleeps
    <3> QED BY <3>1, <3>2
  <2>5. \A u \in Inside : waits'[u] = "waiting" /\ Notified(u)' =>
                            waits[u] = "waiting" /\ Notified(u)
    BY <1>3, <1>4, <2>1 DEF Notified
  <2>6. AsleepInv'
    BY <1>1, <2>1, <2>2, <2>4, <2>5 DEF AsleepInv
  <2> QED BY <2>3, <2>6
<1>9. SyncTypeOK' /\ EventTold'
  BY <1>1 DEF SyncInv, SyncTypeOK, EventTold
<1> QED BY <1>3, <1>6, <1>7, <1>8, <1>9 DEF SyncInv

------------------------------------------------------------------------------
(* Synchronization: theorems                                               *)

\* The invariant holds of a new object.
LEMMA SyncInitial == SyncInit => SyncInv
<1> SUFFICES ASSUME SyncInit PROVE SyncInv
  OBVIOUS
<1>1. /\ ConditionInit /\ kind \in {"Semaphore", "Event", "Barrier"}
      /\ _value \in 0 .. MaxValue /\ _flag = FALSE
      /\ answer = [t \in Client |-> TRUE] /\ _state = Filling /\ _count = 0
      /\ party = <<>> /\ method = [t \in Client |-> "out"]
      /\ index = [t \in Client |-> 0]
  BY DEF SyncInit
<1>2. CondInv(SyncRole) /\ \A u : ~Listed(u)
  BY <1>1, ConditionInitial, SyncRoles
<1>3. Inside = {} /\ \A S : ~Sleeps(S)
  BY <1>1, <1>2 DEF Inside, Sleeps
<1>4. SyncTypeOK
  <2>1. 0 \in 0 .. parties - 1 /\ <<>> \in Seq(Client)
    BY SynchronizationAssumption
  <2>2. index \in [Client -> 0 .. parties - 1] /\ method \in [Client -> Methods]
    BY <1>1, <2>1 DEF Methods
  <2> QED BY <1>1, <2>1, <2>2 DEF SyncTypeOK, Methods
<1>5. MethodInv
  <2>1. \A t \in Client : waits[t] = "no"
    BY <1>1, SyncRoles DEF ConditionInit
  <2> QED BY <1>1, <2>1 DEF MethodInv, MethodOf
<1>6. InsideInv /\ AsleepInv /\ PartyInv
  BY <1>1, <1>3, FS_EmptySet
     DEF InsideInv, AsleepInv, PartyInv, Closed, Filling, Draining, Resetting
<1>7. PermitInv /\ FlagInv /\ EventTold
  BY <1>1, <1>3 DEF PermitInv, Enough, FlagInv, EventTold
<1> QED BY <1>2, <1>4, <1>5, <1>6, <1>7 DEF SyncInv, BarrierInv

\* Every step of a thread keeps the invariant.
LEMMA SyncInvariant == SyncSpec => []SyncInv
<1>1. SyncInv /\ [SyncNext]_syncVars => SyncInv'
  <2> SUFFICES ASSUME SyncInv, [SyncNext]_syncVars PROVE SyncInv'
    OBVIOUS
  <2>1. ASSUME NEW t \in Client, AcquirePermit(t) PROVE SyncInv'
    BY <2>1, AcquireStep
  <2>2. ASSUME NEW t \in Client, EventWait(t) PROVE SyncInv'
    BY <2>2, EventWaitStep
  <2>3. ASSUME NEW t \in Client, BarrierEnter(t) PROVE SyncInv'
    <3>1. /\ kind = "Barrier" /\ method[t] \in {"out", "enter"}
          /\ UNCHANGED <<kind, _value, _flag, answer>>
      BY <2>3 DEF BarrierEnter
    <3>2. CASE Closed /\ Block(t, "_cond") /\ In(t, "enter") /\ UNCHANGED barrier
      BY <3>1, <3>2, EnterWaits
    <3>3. CASE _state = Broken /\ Proceed(t, Left(t)) /\ In(t, "out") /\ UNCHANGED barrier
      BY <3>1, <3>3, EnterFails
    <3>4. CASE /\ ~Closed /\ _state # Broken
               /\ party' = Append(IF _count = 0 THEN <<>> ELSE party, t)
               /\ index' = [index EXCEPT ![t] = _count]
               /\ _count + 1 < parties /\ _count' = _count + 1
               /\ Block(t, "_cond") /\ In(t, "inside") /\ UNCHANGED _state
      BY <3>1, <3>4, EnterInside
    <3>5. CASE /\ ~Closed /\ _state # Broken
               /\ party' = Append(IF _count = 0 THEN <<>> ELSE party, t)
               /\ index' = [index EXCEPT ![t] = _count]
               /\ _count + 1 = parties /\ _state' \in {Draining, Broken}
               /\ Proceed(t, NotifyEverybody(waiters)) /\ In(t, "out") /\ UNCHANGED _count
      BY <3>1, <3>5, EnterLast
    <3> QED BY <2>3, <3>2, <3>3, <3>4, <3>5 DEF BarrierEnter
  <2>4. ASSUME NEW t \in Client, BarrierLeave(t) PROVE SyncInv'
    <3>1. /\ kind = "Barrier" /\ method[t] = "inside"
          /\ UNCHANGED <<kind, _value, _flag, answer, index, party>>
          /\ \/ _state # Filling /\ LeaveBarrier(t, _state)
             \/ _state = Filling /\ LeaveBarrier(t, Broken)
      BY <2>4 DEF BarrierLeave
    <3> QED BY <3>1, LeaveStepBarrier
  <2>5. ASSUME NEW n \in 1 .. MaxValue, ReleasePermits(n) PROVE SyncInv'
    BY <2>5, ReleaseStep
  <2>6. CASE UNCHANGED syncVars
    <3>1. UNCHANGED <<waiters, waits, kind, _value, _flag, answer, method,
                      _state, _count, index, party>>
      BY <2>6 DEF syncVars, condition, syncOwn, barrier
    <3>2. /\ CondInv(SyncRole)' /\ MethodInv' /\ SyncTypeOK' /\ EventTold'
      BY <3>1 DEF SyncInv, CondInv, Deques, Listed, MethodInv, MethodOf, SyncTypeOK, EventTold
    <3>3. \A S : (Sleeps(S)' <=> Sleeps(S)) /\ Woken(S)' = Woken(S)
      BY <3>1 DEF Sleeps, Woken, Notified, Listed
    <3>4. Inside' = Inside /\ Entering' = Entering /\ (Closed' <=> Closed)
          /\ \A u : Notified(u)' <=> Notified(u)
      BY <3>1 DEF Inside, Entering, Closed, Notified, Listed
    <3>5. PermitInv' /\ FlagInv'
      BY <3>1, <3>3 DEF SyncInv, PermitInv, FlagInv, Enough
    <3>6. BarrierInv'
      BY <3>1, <3>3, <3>4
         DEF SyncInv, BarrierInv, InsideInv, AsleepInv, PartyInv, Sleeps, Notified, Listed
    <3> QED BY <3>2, <3>5, <3>6 DEF SyncInv
  <2>7. ASSUME NEW t \in Client, SyncTimeout(t) PROVE SyncInv'
    BY <2>7, SyncTimeoutStep
  <2> QED BY <2>1, <2>2, <2>3, <2>4, <2>5, <2>6, <2>7, EventSetStep, ResetStep DEF SyncNext
<1> QED BY <1>1, SyncInitial, PTL DEF SyncSpec

\* Semaphore, Event and Barrier keep the types of their variables: the value of a
\* semaphore never falls below 0, a barrier never has all its parties inside.
THEOREM SyncTypes == SyncSpec => []SyncTypeOK
BY SyncInvariant, PTL DEF SyncInv

\* Nobody sleeps in acquire() while there is a permit nobody was woken for, nor in
\* Event.wait() while the flag is set, nor at a barrier that is open.
THEOREM SleepIsJustified == SyncSpec => []SleepersJustified
<1>1. SyncInv => SleepersJustified
  <2> SUFFICES ASSUME SyncInv PROVE SleepersJustified
    OBVIOUS
  <2>1. CASE kind = "Barrier"
    BY <2>1 DEF SyncInv, BarrierInv, InsideInv, AsleepInv, SleepersJustified
  <2>2. CASE kind # "Barrier"
    <3>1. Inside = {} /\ Entering = {}
      BY <2>2 DEF SyncInv, MethodInv, MethodOf, Inside, Entering
    <3> QED BY <3>1 DEF SyncInv, PermitInv, FlagInv, Enough, SleepersJustified, Sleeps
  <2> QED BY <2>1, <2>2
<1> QED BY <1>1, SyncInvariant, PTL

\* Event.wait() without a timeout returns True, also when the flag is cleared again
\* before the thread runs.
THEOREM EventIsTold == SyncSpec => []EventTold
BY SyncInvariant, PTL DEF SyncInv

\* Who passes a barrier has been there with all the parties, each with an index of
\* its own, whatever timeouts, resets and aborts there were before.
THEOREM BarrierIsTogether == SyncSpec => BarrierTogether
<1>1. SyncInv /\ [SyncNext]_syncVars =>
        [\A t \in Client : Passes(t) =>
           Len(party) = parties /\ party[index[t] + 1] = t]_syncVars
  <2> SUFFICES ASSUME SyncInv, NEW t \in Client, Passes(t)
               PROVE  Len(party) = parties /\ party[index[t] + 1] = t
    OBVIOUS
  <2>1. t \in Inside /\ _state = Draining /\ kind = "Barrier"
    BY DEF Passes, Inside, SyncInv, MethodInv, MethodOf
  <2> QED BY <2>1 DEF SyncInv, BarrierInv, PartyInv
<1> QED BY <1>1, SyncInvariant, PTL DEF SyncSpec, BarrierTogether

------------------------------------------------------------------------------
(* ThreadLife: the inductive invariant                                     *)

\* Lives with its lock held, once it has one and until it ends.
Living == {"locked", "registered", "running"}
\* Points of join() that a thread comes to with the lock in its hands, or later.
WithLock == JoinAt \ {"idle", "acquire"}

\* A child is joined when it has started, and unbound after it was stopped.
JoinInv == \A j \in Caller :
  /\ join[j].at # "idle" => join[j].of \in Child /\ Started(join[j].of)
  /\ join[j].at = "unbind" => join[j].of \in stopped

BoundInv == \A c \in Child :
  /\ life[c] \in {"locked", "registered"} => c \in bound
  /\ Started(c) /\ c \notin bound => c \in stopped

\* Who starts a thread is there until the thread runs.
StartInv == \A c \in Child : life[c] # "new" /\ ~Started(c) =>
  \/ Parent[c] = Main /\ main = "work"
  \/ Parent[c] \in Child /\ life[Parent[c]] = "running"

\* Where the locks in _shutdown() come from.
LocksInv ==
  /\ \A c \in shutdown_locks \cup locks : life[c] \in {"registered", "running", "dead"}
  /\ main \in {"work", "grab", "done"} => locks = {}
  /\ main = "held" => mine \in Child

\* Until the main thread is interrupted: a thread has its lock while it lives,
\* and who has acquired the lock of a thread, or is done with it, finds it dead.
SentinelInv == ~interrupted =>
  /\ \A c \in Child : life[c] \in Living => holder[c] = c
  /\ \A j \in Caller : join[j].at \in WithLock => life[join[j].of] = "dead"
  /\ main = "held" => life[mine] = "dead"
  /\ \A c \in stopped : life[c] = "dead"

\* _shutdown() has the lock of every non-daemon thread that runs.
RegisteredInv == ~interrupted =>
  /\ \A c \in Child \ Daemon : life[c] \in {"registered", "running"} =>
       c \in shutdown_locks \cup locks
  /\ main = "done" => \A c \in Child : life[c] \in {"new", "dead"} \/ FromDaemon(c)

LifeInv == /\ LifeTypeOK /\ JoinInv /\ BoundInv /\ StartInv /\ LocksInv
           /\ SentinelInv /\ RegisteredInv

------------------------------------------------------------------------------
(* ThreadLife: lemmas about the operators                                  *)

\* Every action, for the case splits below.
LEMMA LifeCases ==
  ASSUME LifeNext
  PROVE  \/ \E c \in Child : \/ Start(c) \/ SetTstateLock(c) \/ Register(c)
                             \/ SetStarted(c) \/ End(c)
         \/ \E j \in Caller : \/ JoinAcquire(j) \/ JoinRelease(j) \/ Stop(j)
                              \/ Unbind(j) \/ Maintain(j) \/ Except(j)
                              \/ \E c \in Child : JoinThread(j, c)
         \/ Interrupt \/ Shutdown \/ Grab \/ ShutdownAcquire \/ ShutdownRelease
  BY DEF LifeNext, LifeStep, JoinStep, ShutdownStep

\* GoOn() moves one caller, which keeps its thread in mind until it is idle.
LEMMA GoOnEffect ==
  ASSUME LifeTypeOK, NEW j \in Caller, NEW l \in JoinAt, GoOn(j, l)
  PROVE  /\ join' \in [Caller -> [at : JoinAt, of : Child \cup {NoOne}]]
         /\ join'[j].at = l
         /\ l # "idle" => join'[j].of = join[j].of
         /\ \A k \in Caller \ {j} : join'[k] = join[k]
  BY DEF LifeTypeOK, GoOn

------------------------------------------------------------------------------
(* ThreadLife: one step                                                    *)

\* No thread has been started: the invariant holds.
LEMMA LifeInit1 == LifeInit => LifeInv
<1> SUFFICES ASSUME LifeInit PROVE LifeInv
  OBVIOUS
<1> USE ThreadLifeAssumption DEF LifeInit
<1>1. LifeTypeOK
  BY DEF LifeTypeOK, Life, JoinAt, MainAt
<1>2. JoinInv /\ BoundInv /\ StartInv /\ LocksInv
  BY DEF JoinInv, BoundInv, StartInv, LocksInv, Started
<1>3. SentinelInv /\ RegisteredInv
  BY DEF SentinelInv, RegisteredInv, Living, WithLock, JoinAt
<1> QED BY <1>1, <1>2, <1>3 DEF LifeInv

\* A step of a child: start(), the bootstrap, the end of the thread.
LEMMA ChildStep ==
  ASSUME LifeInv, NEW c \in Child,
         Start(c) \/ SetTstateLock(c) \/ Register(c) \/ SetStarted(c) \/ End(c)
  PROVE  LifeInv'
<1> USE ThreadLifeAssumption DEF LifeInv, calling, leaving
<1>1. CASE Start(c)
  <2> USE <1>1 DEF Start, Alive
  <2>1. LifeTypeOK'
    BY DEF LifeTypeOK, Life
  <2>2. JoinInv' /\ BoundInv' /\ StartInv' /\ LocksInv'
    BY DEF LifeTypeOK, JoinInv, BoundInv, StartInv, LocksInv, Started
  <2>3. SentinelInv'
    BY DEF LifeTypeOK, JoinInv, LocksInv, SentinelInv, Living, WithLock, Started
  <2>4. RegisteredInv'
    BY DEF LifeTypeOK, RegisteredInv, FromDaemon
  <2> QED BY <2>1, <2>2, <2>3, <2>4
<1>2. CASE SetTstateLock(c)
  <2> USE <1>2 DEF SetTstateLock
  <2>1. LifeTypeOK'
    BY DEF LifeTypeOK, Life
  <2>2. JoinInv' /\ BoundInv' /\ StartInv' /\ LocksInv'
    BY DEF LifeTypeOK, JoinInv, BoundInv, StartInv, LocksInv, Started
  <2>3. SentinelInv'
    BY DEF LifeTypeOK, JoinInv, LocksInv, SentinelInv, Living, WithLock, Started
  <2>4. RegisteredInv'
    BY DEF LifeTypeOK, RegisteredInv, FromDaemon
  <2> QED BY <2>1, <2>2, <2>3, <2>4
<1>3. CASE Register(c)
  <2> USE <1>3 DEF Register
  <2>0. \A d \in shutdown_locks : d \in shutdown_locks' \/ ~Held(d)
    BY DEF LifeTypeOK, LocksInv, Maintained
  <2>1. LifeTypeOK'
    BY DEF LifeTypeOK, Life, Maintained
  <2>2. JoinInv' /\ BoundInv' /\ StartInv' /\ LocksInv'
    BY DEF LifeTypeOK, JoinInv, BoundInv, StartInv, LocksInv, Started, Maintained
  <2>3. SentinelInv'
    BY DEF LifeTypeOK, JoinInv, LocksInv, SentinelInv, Living, WithLock, Started
  <2>4. RegisteredInv'
    BY <2>0 DEF LifeTypeOK, RegisteredInv, SentinelInv, Living, Held, FromDaemon
  <2> QED BY <2>1, <2>2, <2>3, <2>4
<1>4. CASE SetStarted(c)
  <2> USE <1>4 DEF SetStarted
  <2>1. LifeTypeOK'
    BY DEF LifeTypeOK, Life
  <2>2. JoinInv' /\ BoundInv' /\ StartInv' /\ LocksInv'
    BY DEF LifeTypeOK, JoinInv, BoundInv, StartInv, LocksInv, Started
  <2>3. SentinelInv'
    BY DEF LifeTypeOK, JoinInv, LocksInv, SentinelInv, Living, WithLock, Started
  <2>4. RegisteredInv'
    BY DEF LifeTypeOK, RegisteredInv, FromDaemon
  <2> QED BY <2>1, <2>2, <2>3, <2>4
<1>5. CASE End(c)
  <2> USE <1>5 DEF End, SentinelReleased, Starting
  <2>1. LifeTypeOK'
    BY DEF LifeTypeOK, Life
  <2>2. JoinInv' /\ BoundInv' /\ StartInv' /\ LocksInv'
    BY DEF LifeTypeOK, JoinInv, BoundInv, StartInv, LocksInv, Started
  <2>3. SentinelInv'
    BY DEF LifeTypeOK, JoinInv, LocksInv, SentinelInv, Living, WithLock, Started
  <2>4. RegisteredInv'
    BY DEF LifeTypeOK, RegisteredInv, FromDaemon
  <2> QED BY <2>1, <2>2, <2>3, <2>4
<1> QED BY <1>1, <1>2, <1>3, <1>4, <1>5

\* A step of join().
LEMMA JoinerStep ==
  ASSUME LifeInv, NEW j \in Caller,
         \/ JoinAcquire(j) \/ JoinRelease(j) \/ Stop(j) \/ Unbind(j)
         \/ Maintain(j) \/ Except(j) \/ \E c \in Child : JoinThread(j, c)
  PROVE  LifeInv'
<1> USE ThreadLifeAssumption DEF LifeInv, leaving, At
<1>1. CASE JoinAcquire(j)
  <2> USE <1>1 DEF JoinAcquire, NotAcquired
  <2>1. PICK l \in JoinAt : GoOn(j, l)
    BY DEF JoinAt
  <2>2. /\ join'[j].at = l /\ (l # "idle" => join'[j].of = join[j].of)
        /\ \A k \in Caller \ {j} : join'[k] = join[k]
    BY <2>1, GoOnEffect
  <2>3. LifeTypeOK'
    BY <2>1, GoOnEffect DEF LifeTypeOK, JoinInv
  <2>4. JoinInv' /\ BoundInv' /\ StartInv' /\ LocksInv'
    <3>1. JoinInv' /\ BoundInv'
      BY <2>1, <2>2 DEF GoOn, LifeTypeOK, JoinInv, BoundInv, Started
    <3>2. StartInv' /\ LocksInv'
      BY DEF LifeTypeOK, StartInv, LocksInv, Started
    <3> QED BY <3>1, <3>2
  <2>5. SentinelInv'
    BY <2>1, <2>2 DEF GoOn, LifeTypeOK, JoinInv, LocksInv, SentinelInv, Living,
                      WithLock, Started, Held
  <2>6. RegisteredInv'
    BY DEF LifeTypeOK, RegisteredInv, SentinelInv, Living, FromDaemon, Held
  <2> QED BY <2>3, <2>4, <2>5, <2>6
<1>2. CASE JoinRelease(j)
  <2> USE <1>2 DEF JoinRelease
  <2>1. PICK l \in JoinAt : GoOn(j, l)
    BY DEF JoinAt
  <2>2. /\ join'[j].at = l /\ (l # "idle" => join'[j].of = join[j].of)
        /\ \A k \in Caller \ {j} : join'[k] = join[k]
    BY <2>1, GoOnEffect
  <2>3. LifeTypeOK'
    BY <2>1, GoOnEffect DEF LifeTypeOK, JoinInv
  <2>4. JoinInv' /\ BoundInv' /\ StartInv' /\ LocksInv'
    <3>1. JoinInv' /\ BoundInv'
      BY <2>1, <2>2 DEF GoOn, LifeTypeOK, JoinInv, BoundInv, Started
    <3>2. StartInv' /\ LocksInv'
      BY DEF LifeTypeOK, StartInv, LocksInv, Started
    <3> QED BY <3>1, <3>2
  <2>5. SentinelInv'
    BY <2>1, <2>2 DEF GoOn, LifeTypeOK, JoinInv, LocksInv, SentinelInv, Living,
                      WithLock, Started, Held
  <2>6. RegisteredInv'
    BY DEF LifeTypeOK, RegisteredInv, SentinelInv, Living, FromDaemon, Held
  <2> QED BY <2>3, <2>4, <2>5, <2>6
<1>3. CASE Stop(j)
  <2> USE <1>3 DEF Stop
  <2>1. PICK l \in JoinAt : GoOn(j, l)
    BY DEF JoinAt
  <2>2. /\ join'[j].at = l /\ (l # "idle" => join'[j].of = join[j].of)
        /\ \A k \in Caller \ {j} : join'[k] = join[k]
    BY <2>1, GoOnEffect
  <2>3. join[j].of \in Child /\ stopped' \subseteq stopped \cup {join[j].of}
    BY DEF JoinInv
  <2>4. ~interrupted => life[join[j].of] = "dead"
    BY DEF SentinelInv, WithLock, JoinAt
  <2>5. LifeTypeOK'
    BY <2>1, <2>3, GoOnEffect DEF LifeTypeOK
  <2>6. JoinInv' /\ BoundInv' /\ StartInv' /\ LocksInv'
    <3>1. JoinInv'
      <4>1. life' = life /\ stopped \subseteq stopped'
        OBVIOUS
      <4>2. join'[j].at = "unbind" => join[j].of \in stopped'
        <5>1. CASE join[j].of \in bound /\ Held(join[j].of)
          <6>1. PICK x \in {"except", "idle"} : GoOn(j, x)
            BY <5>1
          <6>2. x \in JoinAt
            BY DEF JoinAt
          <6> QED BY <6>1, <6>2, GoOnEffect
        <5>2. CASE ~(join[j].of \in bound /\ Held(join[j].of))
          BY <5>2
        <5> QED BY <5>1, <5>2
      <4>3. Started(join[j].of)
        BY DEF JoinInv
      <4> HIDE DEF Stop
      <4>4. ASSUME NEW k \in Caller, k # j
            PROVE  /\ (join[k].at # "idle" => join[k].of \in Child /\ Started(join[k].of))'
                   /\ (join[k].at = "unbind" => join[k].of \in stopped)'
        BY <2>2, <4>1, <4>4 DEF JoinInv, Started
      <4> QED BY <2>2, <2>3, <4>1, <4>2, <4>3, <4>4 DEF JoinInv, Started
    <3>2. BoundInv'
      BY DEF BoundInv, Started
    <3>3. StartInv' /\ LocksInv'
      BY DEF LifeTypeOK, StartInv, LocksInv, Started
    <3> QED BY <3>1, <3>2, <3>3
  <2>7. SentinelInv'
    BY <2>1, <2>2, <2>3, <2>4 DEF GoOn, LifeTypeOK, JoinInv, LocksInv, SentinelInv, WithLock
  <2>8. RegisteredInv'
    BY DEF LifeTypeOK, RegisteredInv, SentinelInv, Living, FromDaemon, Held
  <2> QED BY <2>5, <2>6, <2>7, <2>8
<1>4. CASE Unbind(j)
  <2> USE <1>4 DEF Unbind
  <2>1. PICK l \in JoinAt : GoOn(j, l)
    BY DEF JoinAt
  <2>2. /\ join'[j].at = l /\ (l # "idle" => join'[j].of = join[j].of)
        /\ \A k \in Caller \ {j} : join'[k] = join[k]
    BY <2>1, GoOnEffect
  <2>3. LifeTypeOK'
    BY <2>1, GoOnEffect DEF LifeTypeOK, JoinInv
  <2>4. JoinInv' /\ BoundInv' /\ StartInv' /\ LocksInv'
    <3>1. JoinInv' /\ BoundInv'
      BY <2>1, <2>2 DEF GoOn, LifeTypeOK, JoinInv, BoundInv, Started
    <3>2. StartInv' /\ LocksInv'
      BY DEF LifeTypeOK, StartInv, LocksInv, Started
    <3> QED BY <3>1, <3>2
  <2>5. SentinelInv'
    BY <2>1, <2>2 DEF GoOn, LifeTypeOK, JoinInv, LocksInv, SentinelInv, Living,
                      WithLock, Started, Held
  <2>6. RegisteredInv'
    BY DEF LifeTypeOK, RegisteredInv, SentinelInv, Living, FromDaemon, Held
  <2> QED BY <2>3, <2>4, <2>5, <2>6
<1>5. CASE Maintain(j)
  <2> USE <1>5 DEF Maintain, Maintained
  <2>1. PICK l \in JoinAt : GoOn(j, l)
    BY DEF JoinAt
  <2>2. /\ join'[j].at = l /\ (l # "idle" => join'[j].of = join[j].of)
        /\ \A k \in Caller \ {j} : join'[k] = join[k]
    BY <2>1, GoOnEffect
  <2>3. LifeTypeOK'
    BY <2>1, GoOnEffect DEF LifeTypeOK, JoinInv
  <2>4. JoinInv' /\ BoundInv' /\ StartInv' /\ LocksInv'
    <3>1. JoinInv' /\ BoundInv'
      BY <2>1, <2>2 DEF GoOn, LifeTypeOK, JoinInv, BoundInv, Started
    <3>2. StartInv' /\ LocksInv'
      BY DEF LifeTypeOK, StartInv, LocksInv, Started
    <3> QED BY <3>1, <3>2
  <2>5. SentinelInv'
    BY <2>1, <2>2 DEF GoOn, LifeTypeOK, JoinInv, LocksInv, SentinelInv, Living,
                      WithLock, Started, Held
  <2>6. RegisteredInv'
    BY DEF LifeTypeOK, RegisteredInv, SentinelInv, Living, FromDaemon, Held
  <2> QED BY <2>3, <2>4, <2>5, <2>6
<1>6. CASE Except(j)
  <2> USE <1>6 DEF Except
  <2>1. PICK l \in JoinAt : GoOn(j, l)
    BY DEF JoinAt
  <2>2. /\ join'[j].at = l /\ (l # "idle" => join'[j].of = join[j].of)
        /\ \A k \in Caller \ {j} : join'[k] = join[k]
    BY <2>1, GoOnEffect
  <2>3. LifeTypeOK'
    <3>1. join' \in [Caller -> [at : JoinAt, of : Child \cup {NoOne}]]
      BY <2>1, GoOnEffect
    <3>2. holder' \in [Child -> Child \cup Caller \cup {Main, NoOne}]
      BY DEF LifeTypeOK
    <3> QED BY <3>1, <3>2 DEF LifeTypeOK
  <2>4. JoinInv' /\ BoundInv' /\ StartInv' /\ LocksInv'
    <3>1. JoinInv' /\ BoundInv'
      BY <2>1, <2>2 DEF GoOn, LifeTypeOK, JoinInv, BoundInv, Started
    <3>2. StartInv' /\ LocksInv'
      BY DEF LifeTypeOK, StartInv, LocksInv, Started
    <3> QED BY <3>1, <3>2
  <2>5. SentinelInv'
    BY <2>1, <2>2 DEF GoOn, LifeTypeOK, JoinInv, LocksInv, SentinelInv, Living,
                      WithLock, Started, Held
  <2>6. RegisteredInv'
    BY DEF LifeTypeOK, RegisteredInv, SentinelInv, Living, FromDaemon, Held
  <2> QED BY <2>3, <2>4, <2>5, <2>6
<1>7. ASSUME NEW c \in Child, JoinThread(j, c) PROVE LifeInv'
  <2> USE <1>7 DEF JoinThread
  <2>1. LifeTypeOK'
    BY DEF LifeTypeOK, JoinAt
  <2>2. JoinInv' /\ BoundInv' /\ StartInv' /\ LocksInv'
    BY DEF LifeTypeOK, JoinInv, BoundInv, StartInv, LocksInv, Started
  <2>3. SentinelInv'
    BY DEF LifeTypeOK, JoinInv, LocksInv, SentinelInv, Living, WithLock, Started
  <2>4. RegisteredInv'
    BY DEF LifeTypeOK, RegisteredInv, FromDaemon
  <2> QED BY <2>1, <2>2, <2>3, <2>4
<1> QED BY <1>1, <1>2, <1>3, <1>4, <1>5, <1>6, <1>7

\* A step of the main thread in _shutdown(), or an interrupt.
LEMMA MainStep ==
  ASSUME LifeInv,
         Interrupt \/ Shutdown \/ Grab \/ ShutdownAcquire \/ ShutdownRelease
  PROVE  LifeInv'
<1> USE ThreadLifeAssumption DEF LifeInv, calling
<1>1. CASE Interrupt
  <2> USE <1>1 DEF Interrupt
  <2>1. LifeTypeOK'
    <3>1. CASE Main \in Caller /\ GoOn(Main, "except") /\ UNCHANGED main
      BY <3>1, GoOnEffect DEF LifeTypeOK, JoinAt
    <3>2. CASE main' = "failed" /\ UNCHANGED join
      BY <3>2 DEF LifeTypeOK, MainAt
    <3> QED BY <3>1, <3>2
  <2>2. JoinInv' /\ BoundInv' /\ StartInv' /\ LocksInv'
    BY DEF LifeTypeOK, JoinInv, BoundInv, StartInv, LocksInv, Started, GoOn
  <2>3. SentinelInv'
    BY DEF LifeTypeOK, JoinInv, LocksInv, SentinelInv, Living, WithLock,
           Started, Held
  <2>4. RegisteredInv'
    BY DEF LifeTypeOK, RegisteredInv, SentinelInv, LocksInv, Living, Held, FromDaemon
  <2> QED BY <2>1, <2>2, <2>3, <2>4
<1>2. CASE Shutdown
  <2> USE <1>2 DEF Shutdown
  <2>1. LifeTypeOK'
    BY DEF LifeTypeOK, MainAt
  <2>2. JoinInv' /\ BoundInv' /\ StartInv' /\ LocksInv'
    BY DEF LifeTypeOK, JoinInv, BoundInv, StartInv, LocksInv, Started, Starting
  <2>3. SentinelInv'
    BY DEF LifeTypeOK, JoinInv, LocksInv, SentinelInv, Living, WithLock,
           Started, Held
  <2>4. RegisteredInv'
    BY DEF LifeTypeOK, RegisteredInv, SentinelInv, LocksInv, Living, Held, FromDaemon
  <2> QED BY <2>1, <2>2, <2>3, <2>4
<1>3. CASE Grab
  <2> USE <1>3 DEF Grab
  <2>1. LifeTypeOK'
    BY DEF LifeTypeOK, MainAt
  <2>2. JoinInv' /\ BoundInv' /\ StartInv' /\ LocksInv'
    BY DEF LifeTypeOK, JoinInv, BoundInv, StartInv, LocksInv, Started
  <2>3. SentinelInv'
    BY DEF LifeTypeOK, JoinInv, LocksInv, SentinelInv, Living, WithLock,
           Started, Held
  <2>4. RegisteredInv'
    BY DEF LifeTypeOK, RegisteredInv, StartInv, LocksInv, FromDaemon,
           Life, Started
  <2> QED BY <2>1, <2>2, <2>3, <2>4
<1>4. CASE ShutdownAcquire
  <2> USE <1>4 DEF ShutdownAcquire
  <2>1. LifeTypeOK'
    BY DEF LifeTypeOK, MainAt, NextRound
  <2>2. JoinInv' /\ BoundInv' /\ StartInv' /\ LocksInv'
    BY DEF LifeTypeOK, JoinInv, BoundInv, StartInv, LocksInv, Started, NextRound
  <2>3. SentinelInv'
    BY DEF LifeTypeOK, JoinInv, LocksInv, SentinelInv, Living, WithLock,
           Started, Held, NextRound
  <2>4. RegisteredInv'
    BY DEF LifeTypeOK, RegisteredInv, SentinelInv, LocksInv, Living, Held, FromDaemon, NextRound
  <2> QED BY <2>1, <2>2, <2>3, <2>4
<1>5. CASE ShutdownRelease
  <2> USE <1>5 DEF ShutdownRelease
  <2>1. LifeTypeOK'
    BY DEF LifeTypeOK, MainAt
  <2>2. JoinInv' /\ BoundInv' /\ StartInv' /\ LocksInv'
    BY DEF LifeTypeOK, JoinInv, BoundInv, StartInv, LocksInv, Started
  <2>3. SentinelInv'
    BY DEF LifeTypeOK, JoinInv, LocksInv, SentinelInv, Living, WithLock,
           Started, Held
  <2>4. RegisteredInv'
    BY DEF LifeTypeOK, RegisteredInv, SentinelInv, LocksInv, Living, Held, FromDaemon
  <2> QED BY <2>1, <2>2, <2>3, <2>4
<1> QED BY <1>1, <1>2, <1>3, <1>4, <1>5

\* The invariant holds in every behaviour.
LEMMA LifeInvariant == LifeSpec => []LifeInv
<1>1. LifeInv /\ [LifeNext]_lifeVars => LifeInv'
  <2> SUFFICES ASSUME LifeInv, [LifeNext]_lifeVars PROVE LifeInv'
    OBVIOUS
  <2>1. CASE LifeNext
    BY <2>1, LifeCases, ChildStep, JoinerStep, MainStep
  <2>2. CASE UNCHANGED lifeVars
    BY <2>2 DEF lifeVars, LifeInv, LifeTypeOK, JoinInv, BoundInv, StartInv, LocksInv,
                SentinelInv, RegisteredInv, Started, FromDaemon
  <2> QED BY <2>1, <2>2
<1> QED BY LifeInit1, <1>1, PTL DEF LifeSpec

------------------------------------------------------------------------------
(* ThreadLife: theorems                                                    *)

\* The types of all the variables hold throughout: join() never touches the lock
\* of something that is not a Thread object.
THEOREM LifeTypeCorrect == LifeSpec => []LifeTypeOK
BY LifeInvariant, PTL DEF LifeInv

\* _is_stopped is set only of threads that have ended, however many threads join
\* them at the same time, as long as the main thread is not interrupted in
\* join(); and a thread whose _tstate_lock was taken away has it set.
THEOREM StoppedThreadsAreDead == LifeSpec => []StoppedIsDead
<1>1. LifeInv => StoppedIsDead
  BY DEF LifeInv, StoppedIsDead, SentinelInv, BoundInv
<1> QED BY LifeInvariant, <1>1, PTL

\* _shutdown() comes to its end only when every non-daemon thread has ended,
\* those included that other threads start while it waits.
THEOREM ShutdownWaitsForThreads == LifeSpec => []ShutdownWaits
<1>1. LifeInv => ShutdownWaits
  BY DEF LifeInv, ShutdownWaits, RegisteredInv
<1> QED BY LifeInvariant, <1>1, PTL
==============================================================================
