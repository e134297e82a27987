--------------------------- MODULE AsyncSyncProofs ---------------------------
(***************************************************************************)
(* Theorems about AsyncSync: for any number of tasks, any limit and any    *)
(* number of cancellations.                                                *)
(***************************************************************************)
EXTENDS AsyncSync, FiniteSetTheorems, WellFoundedInduction, SequenceTheorems, TLAPS

------------------------------------------------------------------------------
(* Sequences of tasks                                                      *)

\* A task is in a sequence once.
Single(s) == \A i, j \in 1 .. Len(s) : s[i] = s[j] => i = j

\* x is in front of y.
Before(s, x, y) == \E i, j \in 1 .. Len(s) : i < j /\ s[i] = x /\ s[j] = y

\* deque.remove() of an element that is in the deque once, or not at all.
LEMMA RemoveFirstIs ==
  ASSUME NEW S, NEW s \in Seq(S), Single(s), NEW e
  PROVE  /\ RemoveFirst(s, e) \in Seq(S) /\ Single(RemoveFirst(s, e))
         /\ ToSet(RemoveFirst(s, e)) = ToSet(s) \ {e}
         /\ \A x, y : Before(RemoveFirst(s, e), x, y) => Before(s, x, y)
<1>1. CASE ~\E i \in 1 .. Len(s) : s[i] = e
  BY <1>1 DEF RemoveFirst, ToSet, Before
<1>2. CASE \E i \in 1 .. Len(s) : s[i] = e
  <2> DEFINE n == Len(s)
  <2>1. PICK k \in 1 .. n : s[k] = e
    BY <1>2
  <2>2. {i \in 1 .. n : s[i] = e} = {k}
    BY <2>1 DEF Single
  <2>3. SelectInSeq(s, LAMBDA v : v = e) = k
    BY <2>2 DEF SelectInSeq, Min
  <2> DEFINE p == SubSeq(s, 1, k - 1)
             q == SubSeq(s, k + 1, n)
             r == RemoveFirst(s, e)
  <2>4. r = p \o q
    BY <1>2, <2>3 DEF RemoveFirst, RemoveAt
  <2>5. n \in Nat /\ \A i \in 1 .. n : s[i] \in S
    OBVIOUS
  <2>6. /\ p \in Seq(S) /\ Len(p) = k - 1 /\ \A i \in 1 .. k - 1 : p[i] = s[i]
        /\ q \in Seq(S) /\ Len(q) = n - k /\ \A i \in 1 .. n - k : q[i] = s[k + i]
    <3> HIDE DEF n
    <3>1. /\ \A i \in 1 .. k - 1 : s[i] \in S
          /\ \A i \in k + 1 .. n : s[i] \in S
      BY <2>5
    <3>2. /\ p \in Seq(S) /\ Len(p) = k - 1
          /\ \A i \in 1 .. k - 1 : p[i] = s[1 + i - 1]
      BY <3>1, <2>1, <2>5, SubSeqProperties
    <3>3. /\ q \in Seq(S) /\ Len(q) = n - k
          /\ \A i \in 1 .. n - k : q[i] = s[k + 1 + i - 1]
      <4>1. k + 1 \in Int /\ n \in Int /\ n - (k + 1) + 1 = n - k
            /\ (k + 1 > n => n - k = 0)
        BY <2>5
      <4> QED BY <4>1, <3>1, SubSeqProperties
    <3> QED BY <3>2, <3>3, <2>5
  <2> HIDE DEF n, p, q, r
  <2>7. /\ r \in Seq(S) /\ Len(r) = n - 1
        /\ \A i \in 1 .. n - 1 : r[i] = IF i < k THEN s[i] ELSE s[i + 1]
    <3>1. /\ r \in Seq(S) /\ Len(r) = Len(p) + Len(q)
          /\ \A i \in 1 .. Len(p) + Len(q) :
               r[i] = IF i <= Len(p) THEN p[i] ELSE q[i - Len(p)]
      BY <2>4, <2>6, ConcatProperties
    <3>2. Len(p) + Len(q) = n - 1
      BY <2>5, <2>6
    <3>3. ASSUME NEW i \in 1 .. n - 1, i < k PROVE r[i] = s[i]
      <4>1. i \in 1 .. k - 1 /\ i <= Len(p)
        BY <2>5, <2>6, <3>3
      <4> QED BY <4>1, <3>1, <3>2, <2>6
    <3>4. ASSUME NEW i \in 1 .. n - 1, ~(i < k) PROVE r[i] = s[i + 1]
      <4>1. i - Len(p) = i - k + 1 /\ i - k + 1 \in 1 .. n - k /\ ~(i <= Len(p))
            /\ k + (i - k + 1) = i + 1
        BY <2>5, <2>6, <3>4
      <4>2. q[i - k + 1] = s[i + 1]
        BY <4>1, <2>6
      <4> QED BY <4>1, <4>2, <3>1, <3>2
    <3> QED BY <3>1, <3>2, <3>3, <3>4
  <2>8. \A i, j \in 1 .. n : s[i] = s[j] => i = j
    BY DEF Single, n
  <2>9. Single(r)
    BY <2>7, <2>8, <2>5 DEF Single
  <2>10. ToSet(s) = {s[i] : i \in 1 .. n} /\ ToSet(r) = {r[i] : i \in 1 .. n - 1}
    BY <2>7 DEF ToSet, n
  <2>11. ASSUME NEW x \in {s[i] : i \in 1 .. n}, x # e PROVE x \in {r[i] : i \in 1 .. n - 1}
    <3>1. PICK i \in 1 .. n : x = s[i]
      OBVIOUS
    <3>2. i < k \/ i > k
      BY <3>1, <2>1, <2>11
    <3>3. CASE i < k
      <4>1. i \in 1 .. n - 1
        BY <3>3, <2>5
      <4>2. r[i] = s[i]
        BY <4>1, <3>3, <2>7
      <4> QED BY <3>1, <4>1, <4>2
    <3>4. CASE i > k
      <4>1. i - 1 \in 1 .. n - 1 /\ r[i - 1] = s[i]
        BY <3>4, <2>7, <2>5
      <4> QED BY <3>1, <4>1
    <3> QED BY <3>2, <3>3, <3>4
  <2>12. ASSUME NEW i \in 1 .. n - 1 PROVE r[i] \in {s[j] : j \in 1 .. n} /\ r[i] # e
    <3>1. CASE i < k
      <4>1. r[i] = s[i] /\ i \in 1 .. n /\ i # k
        BY <3>1, <2>7, <2>5
      <4> QED BY <4>1, <2>1, <2>8
    <3>2. CASE ~(i < k)
      <4>1. r[i] = s[i + 1] /\ i + 1 \in 1 .. n /\ i + 1 # k
        BY <3>2, <2>7, <2>5
      <4> QED BY <4>1, <2>1, <2>8
    <3> QED BY <3>1, <3>2
  <2>13. ASSUME NEW x, NEW y, Before(r, x, y) PROVE Before(s, x, y)
    <3> DEFINE old(i) == IF i < k THEN i ELSE i + 1
    <3>1. PICK i \in 1 .. n - 1, j \in 1 .. n - 1 : i < j /\ r[i] = x /\ r[j] = y
      BY <2>13, <2>7 DEF Before
    <3>2. /\ old(i) \in 1 .. n /\ s[old(i)] = x
          /\ old(j) \in 1 .. n /\ s[old(j)] = y
          /\ old(i) < old(j)
      BY <3>1, <2>7, <2>5
    <3> HIDE DEF old
    <3> QED BY <3>2 DEF Before, n
  <2> QED BY <2>7, <2>9, <2>10, <2>11, <2>12, <2>13 DEF r
<1> QED BY <1>1, <1>2

\* deque.append() of an element that is not in the deque.
LEMMA AppendIs ==
  ASSUME NEW S, NEW s \in Seq(S), Single(s), NEW e \in S, e \notin ToSet(s)
  PROVE  /\ Append(s, e) \in Seq(S) /\ Single(Append(s, e))
         /\ ToSet(Append(s, e)) = ToSet(s) \cup {e}
         /\ \A x, y : Before(s, x, y) => Before(Append(s, e), x, y)
         /\ \A x, y : Before(Append(s, e), x, y) => Before(s, x, y) \/ (x # e /\ y = e)
<1> DEFINE n == Len(s)
           r == Append(s, e)
<1>1. /\ r \in Seq(S) /\ Len(r) = n + 1 /\ n \in Nat
      /\ \A i \in 1 .. n : r[i] = s[i]
      /\ r[n + 1] = e
  BY AppendProperties
<1>2. /\ ToSet(s) = {s[i] : i \in 1 .. n} /\ ToSet(r) = {r[i] : i \in 1 .. n + 1}
      /\ \A i, j \in 1 .. n : s[i] = s[j] => i = j
  BY <1>1 DEF ToSet, Single
<1> HIDE DEF n, r
<1>3. 1 .. n + 1 = (1 .. n) \cup {n + 1}
  BY <1>1
<1>4. Single(r)
  <2>1. \A i \in 1 .. n : r[i] # e
    BY <1>1, <1>2
  <2> QED BY <1>1, <1>2, <1>3, <2>1 DEF Single
<1>5. ToSet(r) = ToSet(s) \cup {e}
  BY <1>1, <1>2, <1>3
<1>6. ASSUME NEW x, NEW y, Before(r, x, y) PROVE Before(s, x, y) \/ (x # e /\ y = e)
  <2>1. PICK i \in 1 .. n + 1, j \in 1 .. n + 1 : i < j /\ r[i] = x /\ r[j] = y
    BY <1>6, <1>1 DEF Before
  <2>2. i \in 1 .. n
    BY <2>1, <1>1
  <2>3. CASE j \in 1 .. n
    BY <2>1, <2>2, <2>3, <1>1 DEF Before, n
  <2>4. CASE j = n + 1
    BY <2>1, <2>2, <2>4, <1>1, <1>2 DEF n
  <2> QED BY <2>3, <2>4, <1>3
<1>7. ASSUME NEW x, NEW y, Before(s, x, y) PROVE Before(r, x, y)
  <2>1. PICK i \in 1 .. n, j \in 1 .. n : i < j /\ s[i] = x /\ s[j] = y
    BY <1>7 DEF Before, n
  <2>2. i \in 1 .. Len(r) /\ j \in 1 .. Len(r) /\ r[i] = x /\ r[j] = y
    BY <2>1, <1>1
  <2> QED BY <2>1, <2>2 DEF Before
<1> QED BY <1>1, <1>4, <1>5, <1>6, <1>7 DEF r

\* The ready queue without its first element, and a queue behind another.
LEMMA TailIs ==
  ASSUME NEW S, NEW s \in Seq(S), s # <<>>, Single(s)
  PROVE  /\ Head(s) \in ToSet(s)
         /\ Tail(s) \in Seq(S) /\ Single(Tail(s)) /\ ToSet(Tail(s)) = ToSet(s) \ {Head(s)}
         /\ \A x, y : x # Head(s) /\ Before(s, x, y) => Before(Tail(s), x, y)
<1> DEFINE n == Len(s)
           r == Tail(s)
<1>1. /\ n \in Nat /\ n >= 1 /\ Head(s) = s[1]
      /\ r \in Seq(S) /\ Len(r) = n - 1 /\ \A i \in 1 .. n - 1 : r[i] = s[i + 1]
  BY HeadTailProperties
<1>2. /\ ToSet(s) = {s[i] : i \in 1 .. n} /\ ToSet(r) = {r[i] : i \in 1 .. n - 1}
      /\ \A i, j \in 1 .. n : s[i] = s[j] => i = j
  <2>1. /\ DOMAIN s = 1 .. n /\ \A i, j \in 1 .. n : s[i] = s[j] => i = j
    BY DEF Single
  <2> HIDE DEF r, n
  <2>2. DOMAIN r = 1 .. n - 1
    BY <1>1
  <2> QED BY <2>1, <2>2 DEF ToSet
<1>3. \A x, y : Before(s, x, y) =>
        \E i, j \in 1 .. n : i < j /\ s[i] = x /\ s[j] = y
  BY DEF Before
<1> HIDE DEF n, r
<1>4. Single(r)
  BY <1>1, <1>2 DEF Single
<1>5. ToSet(r) = ToSet(s) \ {s[1]}
  <2>1. ASSUME NEW x \in ToSet(s), x # s[1] PROVE x \in ToSet(r)
    <3>1. PICK i \in 1 .. n : x = s[i]
      BY <1>2
    <3>2. i - 1 \in 1 .. n - 1 /\ r[i - 1] = s[i]
      BY <3>1, <2>1, <1>1
    <3> QED BY <3>1, <3>2, <1>2
  <2>2. ASSUME NEW x \in ToSet(r) PROVE x \in ToSet(s) /\ x # s[1]
    <3>1. PICK i \in 1 .. n - 1 : x = r[i]
      BY <1>2
    <3>2. r[i] = s[i + 1] /\ i + 1 \in 1 .. n /\ 1 \in 1 .. n /\ i + 1 # 1
      BY <1>1
    <3> QED BY <3>1, <3>2, <1>2
  <2> QED BY <2>1, <2>2
<1>6. ASSUME NEW x, NEW y, x # s[1], Before(s, x, y) PROVE Before(r, x, y)
  <2>1. PICK i \in 1 .. n, j \in 1 .. n : i < j /\ s[i] = x /\ s[j] = y
    BY <1>6, <1>3
  <2>2. i - 1 \in 1 .. n - 1 /\ j - 1 \in 1 .. n - 1 /\ r[i - 1] = x /\ r[j - 1] = y
    BY <2>1, <1>6, <1>1
  <2>3. i - 1 < j - 1 /\ Len(r) = n - 1
    BY <2>1, <1>1
  <2> QED BY <2>2, <2>3 DEF Before
<1>7. s[1] \in ToSet(s)
  BY <1>1, <1>2
<1> QED BY <1>1, <1>4, <1>5, <1>6, <1>7 DEF r

LEMMA ConcatIs ==
  ASSUME NEW S, NEW a \in Seq(S), NEW b \in Seq(S), Single(a), Single(b),
         ToSet(a) \cap ToSet(b) = {}
  PROVE  /\ a \o b \in Seq(S) /\ Single(a \o b) /\ ToSet(a \o b) = ToSet(a) \cup ToSet(b)
         /\ \A x, y : \/ Before(a, x, y)
                      \/ x \in ToSet(a) /\ y \in ToSet(b)
                      => Before(a \o b, x, y)
<1> DEFINE m == Len(a)
           n == Len(b)
           r == a \o b
<1>1. /\ m \in Nat /\ n \in Nat /\ r \in Seq(S) /\ Len(r) = m + n
      /\ \A i \in 1 .. m : r[i] = a[i]
      /\ \A i \in 1 .. n : r[m + i] = b[i]
  <2>1. /\ m \in Nat /\ n \in Nat /\ r \in Seq(S) /\ Len(r) = m + n
        /\ \A i \in 1 .. m + n : r[i] = IF i <= m THEN a[i] ELSE b[i - m]
    BY ConcatProperties
  <2> HIDE DEF m, n, r
  <2>2. \A i \in 1 .. n : m + i \in 1 .. m + n /\ ~(m + i <= m) /\ m + i - m = i
    BY <2>1
  <2> QED BY <2>1, <2>2
<1>2. /\ ToSet(a) = {a[i] : i \in 1 .. m} /\ ToSet(b) = {b[i] : i \in 1 .. n}
      /\ ToSet(r) = {r[i] : i \in 1 .. m + n}
      /\ \A i, j \in 1 .. m : a[i] = a[j] => i = j
      /\ \A i, j \in 1 .. n : b[i] = b[j] => i = j
  BY <1>1 DEF ToSet, Single
<1>3. \A x, y : Before(a, x, y) => \E i, j \in 1 .. m : i < j /\ a[i] = x /\ a[j] = y
  BY DEF Before
<1> HIDE DEF m, n, r
<1>4. \A i \in 1 .. m + n : \/ i \in 1 .. m /\ r[i] = a[i]
                            \/ i - m \in 1 .. n /\ r[i] = b[i - m]
  <2> TAKE i \in 1 .. m + n
  <2>1. i \in 1 .. m \/ (i - m \in 1 .. n /\ i = m + (i - m))
    BY <1>1
  <2> QED BY <2>1, <1>1
<1>5. Single(r)
  <2> SUFFICES ASSUME NEW i \in 1 .. m + n, NEW j \in 1 .. m + n, r[i] = r[j] PROVE i = j
    BY <1>1 DEF Single
  <2>1. CASE i \in 1 .. m /\ r[i] = a[i] /\ j \in 1 .. m /\ r[j] = a[j]
    BY <2>1, <1>2
  <2>2. CASE i - m \in 1 .. n /\ r[i] = b[i - m] /\ j - m \in 1 .. n /\ r[j] = b[j - m]
    <3>1. i - m = j - m
      BY <2>2, <1>2
    <3> QED BY <3>1, <1>1
  <2>3. CASE i \in 1 .. m /\ r[i] = a[i] /\ j - m \in 1 .. n /\ r[j] = b[j - m]
    <3>1. a[i] \in ToSet(a) /\ b[j - m] \in ToSet(b) /\ a[i] = b[j - m]
      BY <2>3, <1>2
    <3> QED BY <3>1
  <2>4. CASE i - m \in 1 .. n /\ r[i] = b[i - m] /\ j \in 1 .. m /\ r[j] = a[j]
    <3>1. a[j] \in ToSet(a) /\ b[i - m] \in ToSet(b) /\ a[j] = b[i - m]
      BY <2>4, <1>2
    <3> QED BY <3>1
  <2> QED BY <2>1, <2>2, <2>3, <2>4, <1>4
<1>6. ToSet(r) = ToSet(a) \cup ToSet(b)
  <2>1. \A i \in 1 .. m + n : r[i] \in ToSet(a) \cup ToSet(b)
    BY <1>4, <1>2
  <2>2. \A i \in 1 .. m : i \in 1 .. m + n /\ a[i] = r[i]
    BY <1>1
  <2>3. \A i \in 1 .. n : m + i \in 1 .. m + n /\ b[i] = r[m + i]
    BY <1>1
  <2> QED BY <2>1, <2>2, <2>3, <1>2
<1>7. ASSUME NEW x, NEW y, Before(a, x, y) PROVE Before(r, x, y)
  <2>1. PICK i \in 1 .. m, j \in 1 .. m : i < j /\ a[i] = x /\ a[j] = y
    BY <1>7, <1>3
  <2>2. i \in 1 .. Len(r) /\ j \in 1 .. Len(r) /\ r[i] = x /\ r[j] = y
    BY <2>1, <1>1
  <2> QED BY <2>1, <2>2 DEF Before
<1>8. ASSUME NEW x \in ToSet(a), NEW y \in ToSet(b) PROVE Before(r, x, y)
  <2>1. PICK i \in 1 .. m, j \in 1 .. n : a[i] = x /\ b[j] = y
    BY <1>2
  <2>2. i \in 1 .. Len(r) /\ m + j \in 1 .. Len(r) /\ r[i] = x /\ r[m + j] = y /\ i < m + j
    BY <2>1, <1>1
  <2> QED BY <2>2 DEF Before
<1> QED BY <1>1, <1>5, <1>6, <1>7, <1>8 DEF r

\* Two tasks of a sequence are in an order.
LEMMA EitherIsFirst ==
  ASSUME NEW s, NEW x \in ToSet(s), NEW y \in ToSet(s), x # y, NEW S, s \in Seq(S)
  PROVE  Before(s, x, y) \/ Before(s, y, x)
<1>1. DOMAIN s = 1 .. Len(s) /\ Len(s) \in Nat
  OBVIOUS
<1>2. PICK i \in 1 .. Len(s), j \in 1 .. Len(s) : s[i] = x /\ s[j] = y
  BY <1>1 DEF ToSet
<1>3. i < j \/ j < i
  BY <1>2
<1> QED BY <1>2, <1>3 DEF Before

\* Who is in a prefix of the deque without t is in front of t, if t is in the deque.
LEMMA InFront ==
  ASSUME NEW q \in Seq(Task), NEW t, NEW i \in DOMAIN q, t \notin ToSet(SubSeq(q, 1, i))
  PROVE  q[i] # t /\ q[i] \in ToSet(q) /\ (t \in ToSet(q) => Before(q, q[i], t))
<1>1. /\ DOMAIN q = 1 .. Len(q) /\ Len(q) \in Nat /\ \A j \in 1 .. Len(q) : q[j] \in Task
      /\ ToSet(q) = {q[j] : j \in 1 .. Len(q)}
  BY DEF ToSet
<1> DEFINE p == SubSeq(q, 1, i)
<1>2. p \in Seq(Task) /\ Len(p) = i /\ \A j \in 1 .. i : p[j] = q[j]
  <2>1. 1 \in Int /\ i \in Int /\ \A j \in 1 .. i : q[j] \in Task
    BY <1>1
  <2>2. /\ p \in Seq(Task) /\ Len(p) = (IF 1 <= i THEN i - 1 + 1 ELSE 0)
        /\ \A j \in 1 .. i - 1 + 1 : p[j] = q[1 + j - 1]
    BY <2>1, SubSeqProperties
  <2> HIDE DEF p
  <2> QED BY <2>2, <1>1
<1> HIDE DEF p
<1>3. ToSet(p) = {p[j] : j \in 1 .. i}
  <2>1. DOMAIN p = 1 .. i
    BY <1>2
  <2> QED BY <2>1 DEF ToSet
<1>4. \A j \in 1 .. i : q[j] # t
  BY <1>2, <1>3 DEF p
<1>5. ASSUME t \in ToSet(q) PROVE Before(q, q[i], t)
  <2>1. PICK k \in 1 .. Len(q) : q[k] = t
    BY <1>1, <1>5
  <2>2. i < k /\ i \in 1 .. Len(q)
    BY <2>1, <1>4, <1>1
  <2> QED BY <2>1, <2>2 DEF Before
<1>6. i \in 1 .. i
  BY <1>1
<1> QED BY <1>4, <1>5, <1>6, <1>1

------------------------------------------------------------------------------
(* Who is woken                                                            *)

\* A set of positions has a first one.
LEMMA LeastIs ==
  ASSUME NEW W \in SUBSET Nat, W # {}
  PROVE  Min(W) \in W /\ \A i \in W : Min(W) <= i
<1>1. \E x \in W : \A y \in W : ~(<<y, x>> \in OpToRel(<, Nat))
  BY NatLessThanWellFounded, WFMin
<1>2. PICK x \in W : \A y \in W : ~(<<y, x>> \in OpToRel(<, Nat))
  BY <1>1
<1>3. \A y \in W : ~(y < x)
  BY <1>2 DEF OpToRel
<1>4. \A y \in W : x <= y
  BY <1>3
<1> QED BY <1>4 DEF Min

\* FirstOf() is the first pending future, if there is one; AfterFirst() what is
\* behind it.
LEMMA FirstOfIs ==
  ASSUME NEW q \in Seq(Task), Single(q)
  PROVE  /\ FirstOf(q) \in Seq(Task) /\ Single(FirstOf(q))
         /\ ToSet(FirstOf(q)) \subseteq ToSet(q)
         /\ \A u \in ToSet(FirstOf(q)) : fut[u] = "pending"
         /\ \/ FirstOf(q) = <<>> /\ \A u \in ToSet(q) : fut[u] # "pending"
            \/ \E u \in Task :
                 /\ FirstOf(q) = <<u>> /\ u \in ToSet(q) /\ fut[u] = "pending"
                 /\ \A v : Before(q, v, u) => fut[v] # "pending"
         /\ AfterFirst(q) \in Seq(Task) /\ Single(AfterFirst(q))
         /\ \A u : u \in ToSet(AfterFirst(q)) => u \in ToSet(q) /\ u \notin ToSet(FirstOf(q))
<1> DEFINE n == Len(q)
<1>1. /\ n \in Nat /\ DOMAIN q = 1 .. n /\ \A i \in 1 .. n : q[i] \in Task
      /\ \A i, j \in 1 .. n : q[i] = q[j] => i = j
      /\ ToSet(q) = {q[i] : i \in 1 .. n}
  BY DEF Single, ToSet
<1>2. CASE NotDone(q) = {}
  <2>1. \A i \in 1 .. n : fut[q[i]] # "pending"
    BY <1>1, <1>2 DEF NotDone
  <2>2. FirstOf(q) = <<>> /\ AfterFirst(q) = <<>>
    BY <1>2 DEF FirstOf, AfterFirst
  <2>3. <<>> \in Seq(Task)
    OBVIOUS
  <2>4. ToSet(<<>>) = {} /\ Single(<<>>)
    BY DEF ToSet, Single
  <2> QED BY <1>1, <2>1, <2>2, <2>3, <2>4
<1>3. CASE NotDone(q) # {}
  <2> DEFINE m == Min(NotDone(q))
             u == q[m]
             r == AfterFirst(q)
  <2>1. NotDone(q) \in SUBSET Nat
    BY <1>1 DEF NotDone
  <2>2. /\ m \in 1 .. n /\ fut[u] = "pending" /\ u \in Task
        /\ \A i \in 1 .. n : fut[q[i]] = "pending" => m <= i
    BY <1>1, <1>3, <2>1, LeastIs DEF NotDone
  <2>3. FirstOf(q) = <<u>> /\ r = SubSeq(q, m + 1, n)
    BY <1>3 DEF FirstOf, AfterFirst
  <2> HIDE DEF n, m, r
  <2>4. \A v : Before(q, v, u) => fut[v] # "pending"
    <3> TAKE v
    <3> HAVE Before(q, v, u)
    <3>1. PICK i \in 1 .. n, j \in 1 .. n : i < j /\ q[i] = v /\ q[j] = u
      BY DEF Before, n
    <3>2. j = m
      BY <3>1, <2>2, <1>1
    <3> QED BY <3>1, <3>2, <2>2, <1>1
  <2>5. /\ r \in Seq(Task) /\ Len(r) = (IF m + 1 <= n THEN n - m ELSE 0)
        /\ \A i \in 1 .. n - m : r[i] = q[m + i]
    <3>1. m + 1 \in Int /\ n \in Int /\ \A i \in m + 1 .. n : q[i] \in Task
      BY <1>1, <2>2
    <3> DEFINE k == m + 1
    <3> HIDE DEF k
    <3>2. k \in Int /\ n \in Int /\ (\A i \in k .. n : q[i] \in Task) /\ r = SubSeq(q, k, n)
      BY <3>1, <2>3 DEF k
    <3>3. /\ r \in Seq(Task) /\ Len(r) = (IF k <= n THEN n - k + 1 ELSE 0)
          /\ \A i \in 1 .. n - k + 1 : r[i] = q[k + i - 1]
      BY <3>2, SubSeqProperties
    <3>4. n - k + 1 = n - m /\ \A i \in 1 .. n - m : k + i - 1 = m + i
      BY <1>1, <2>2 DEF k
    <3>5. Len(r) = IF m + 1 <= n THEN n - m ELSE 0
      BY <3>3, <3>4 DEF k
    <3>6. \A i \in 1 .. n - m : r[i] = q[m + i]
      BY <3>3, <3>4
    <3> QED BY <3>3, <3>5, <3>6
  <2>6. \A i \in 1 .. Len(r) : m + i \in 1 .. n /\ r[i] = q[m + i] /\ m + i # m
    BY <2>5, <1>1, <2>2
  <2>7. Single(r)
    BY <2>5, <2>6, <1>1, <2>2 DEF Single
  <2>8. \A v : v \in ToSet(r) => v \in ToSet(q) /\ v # u
    <3>1. ToSet(r) = {r[i] : i \in 1 .. Len(r)}
      BY <2>5 DEF ToSet
    <3> QED BY <3>1, <2>6, <1>1, <2>2
  <2>9. /\ <<u>> \in Seq(Task) /\ Single(<<u>>) /\ ToSet(<<u>>) = {u}
    BY <2>2 DEF Single, ToSet
  <2>10. u \in ToSet(q)
    BY <2>2, <1>1
  <2> HIDE DEF u
  <2> QED BY <2>2, <2>3, <2>4, <2>5, <2>7, <2>8, <2>9, <2>10 DEF r
<1> QED BY <1>2, <1>3

\* WakeFirst() is the first of the deque, if it is pending.
LEMMA WakeFirstIs ==
  ASSUME NEW q \in Seq(Task), Single(q)
  PROVE  /\ WakeFirst(q) \in Seq(Task) /\ Single(WakeFirst(q))
         /\ \A u \in ToSet(WakeFirst(q)) :
              u \in ToSet(q) /\ fut[u] = "pending" /\ \A v : ~Before(q, v, u)
<1>1. /\ Len(q) \in Nat /\ DOMAIN q = 1 .. Len(q) /\ \A i \in 1 .. Len(q) : q[i] \in Task
      /\ \A i, j \in 1 .. Len(q) : q[i] = q[j] => i = j
      /\ ToSet(q) = {q[i] : i \in 1 .. Len(q)}
  BY DEF Single, ToSet
<1>2. CASE 1 \notin NotDone(q)
  <2>1. WakeFirst(q) = <<>>
    BY <1>2 DEF WakeFirst
  <2>2. <<>> \in Seq(Task)
    OBVIOUS
  <2>3. ToSet(<<>>) = {} /\ Single(<<>>)
    BY DEF ToSet, Single
  <2> QED BY <2>1, <2>2, <2>3
<1>3. CASE 1 \in NotDone(q)
  <2> DEFINE u == q[1]
  <2>1. 1 \in 1 .. Len(q) /\ fut[u] = "pending" /\ u \in Task /\ u \in ToSet(q)
    BY <1>1, <1>3 DEF NotDone
  <2>2. WakeFirst(q) = <<u>>
    BY <1>3, <2>1 DEF WakeFirst
  <2>3. \A v : ~Before(q, v, u)
    BY <1>1, <2>1 DEF Before
  <2>4. /\ <<u>> \in Seq(Task) /\ Single(<<u>>) /\ ToSet(<<u>>) = {u}
    BY <2>1 DEF Single, ToSet
  <2> HIDE DEF u
  <2> QED BY <2>1, <2>2, <2>3, <2>4
<1> QED BY <1>2, <1>3

\* FirstFew() are different pending futures of the deque.
LEMMA FirstFewIs ==
  ASSUME NEW q \in Seq(Task), Single(q), NEW n \in Nat
  PROVE  /\ FirstFew(q, n) \in Seq(Task) /\ Single(FirstFew(q, n))
         /\ \A u \in ToSet(FirstFew(q, n)) : u \in ToSet(q) /\ fut[u] = "pending"
<1> DEFINE W == NotDone(q)
           c == Cardinality(W)
           Upto(i) == {j \in W : j <= i}
           Nth(k) == CHOOSE i \in W : Cardinality({j \in W : j <= i}) = k
           f == [i \in W |-> Cardinality(Upto(i))]
           m == Min({n, c})
           r == FirstFew(q, n)
<1>1. /\ Len(q) \in Nat /\ \A i \in W : i \in 1 .. Len(q) /\ q[i] \in Task /\ fut[q[i]] = "pending"
      /\ \A i, j \in 1 .. Len(q) : q[i] = q[j] => i = j
      /\ ToSet(q) = {q[i] : i \in 1 .. Len(q)}
  <2>1. DOMAIN q = 1 .. Len(q) /\ \A i \in 1 .. Len(q) : q[i] \in Task
    OBVIOUS
  <2> QED BY <2>1 DEF NotDone, Single, ToSet
<1> HIDE DEF W
<1>2. IsFiniteSet(W) /\ c \in Nat
  <2>1. IsFiniteSet(1 .. Len(q)) /\ W \subseteq 1 .. Len(q)
    BY <1>1, FS_Interval
  <2> QED BY <2>1, FS_Subset, FS_CardinalityType
<1>3. \A i \in W : /\ IsFiniteSet(Upto(i)) /\ Cardinality(Upto(i)) \in 1 .. c
  <2> TAKE i \in W
  <2>1. Upto(i) \subseteq W /\ i \in Upto(i)
    BY <1>1
  <2> HIDE DEF Upto
  <2>2. IsFiniteSet(Upto(i)) /\ Cardinality(Upto(i)) <= c /\ Cardinality(Upto(i)) \in Nat
    BY <2>1, <1>2, FS_Subset, FS_CardinalityType
  <2>3. Cardinality(Upto(i)) # 0
    BY <2>1, <2>2, FS_EmptySet
  <2> QED BY <2>2, <2>3, <1>2
<1>4. ASSUME NEW i \in W, NEW j \in W, i < j PROVE Cardinality(Upto(i)) # Cardinality(Upto(j))
  <2>1. Upto(i) \subseteq Upto(j) /\ j \in Upto(j) /\ j \notin Upto(i)
    BY <1>4, <1>1
  <2> HIDE DEF Upto
  <2>2. Upto(i) \in SUBSET Upto(j) /\ Upto(i) # Upto(j) /\ IsFiniteSet(Upto(j))
    BY <2>1, <1>3
  <2> QED BY <2>2, FS_Subset
<1>5. f \in Injection(W, 1 .. c)
  <2>1. f \in [W -> 1 .. c]
    BY <1>3
  <2>2. \A i, j \in W : f[i] = f[j] => i = j
    <3> TAKE i, j \in W
    <3>1. i < j \/ j < i \/ i = j
      BY <1>1
    <3> QED BY <3>1, <1>4
  <2> HIDE DEF f
  <2> QED BY <2>1, <2>2 DEF Injection, IsInjective
<1>6. f \in Surjection(W, 1 .. c)
  <2>1. IsFiniteSet(1 .. c) /\ Cardinality(1 .. c) = c
    BY <1>2, FS_Interval
  <2> HIDE DEF f, c
  <2>2. c = Cardinality(W)
    BY DEF c
  <2> QED BY <1>5, <2>1, <2>2, FS_Injection
<1>7. \A k \in 1 .. c : Nth(k) \in W /\ Cardinality(Upto(Nth(k))) = k
  <2> TAKE k \in 1 .. c
  <2>1. \E i \in W : f[i] = k
    <3> HIDE DEF f
    <3> QED BY <1>6 DEF Surjection
  <2>2. \E i \in W : Cardinality({j \in W : j <= i}) = k
    BY <2>1
  <2> QED BY <2>2
<1>8. m \in Nat /\ m <= c
  <2> HIDE DEF c
  <2>1. {n, c} \in SUBSET Nat /\ {n, c} # {}
    BY <1>2
  <2>2. m \in {n, c} /\ m <= c
    BY <2>1, LeastIs
  <2> QED BY <2>1, <2>2
<1>9. r = [k \in 1 .. m |-> q[Nth(k)]]
  BY DEF FirstFew, W
<1> HIDE DEF m, Nth, r, c
<1>10. r \in Seq(Task) /\ Len(r) = m
  <2>1. \A k \in 1 .. m : q[Nth(k)] \in Task
    <3> TAKE k \in 1 .. m
    <3>1. k \in 1 .. c
      BY <1>8, <1>2
    <3>2. Nth(k) \in W
      BY <3>1, <1>7
    <3> QED BY <3>2, <1>1
  <2>2. r \in [1 .. m -> Task]
    BY <2>1, <1>9
  <2> QED BY <2>2, <1>8
<1>11. Single(r)
  <2> SUFFICES ASSUME NEW k \in 1 .. m, NEW l \in 1 .. m, r[k] = r[l] PROVE k = l
    BY <1>10 DEF Single
  <2>1. k \in 1 .. c /\ l \in 1 .. c
    BY <1>8, <1>2
  <2>2. Nth(k) = Nth(l)
    BY <2>1, <1>7, <1>9, <1>1
  <2> QED BY <2>1, <2>2, <1>7
<1>12. ToSet(r) = {r[k] : k \in 1 .. m}
  BY <1>10 DEF ToSet
<1>13. ASSUME NEW k \in 1 .. m PROVE r[k] \in ToSet(q) /\ fut[r[k]] = "pending"
  <2>1. k \in 1 .. c
    BY <1>8, <1>2
  <2> QED BY <2>1, <1>7, <1>9, <1>1
<1> QED BY <1>10, <1>11, <1>12, <1>13 DEF r

------------------------------------------------------------------------------
(* The inductive invariant                                                 *)

\* A task is scheduled, once, unless its future is pending; it has a future while
\* it is inside a method that waits, and only then.
LoopInv == /\ Single(ready)
           /\ \A t \in Task : /\ t \in ToSet(ready) <=> fut[t] # "pending"
                              /\ fut[t] = "none" <=> place[t] \in {"out", "in"}

PlacesOf == [Lock |-> {"out", "in", "acquire"},
             Semaphore |-> {"out", "in", "acquire"},
             Condition |-> {"out", "in", "acquire", "wait", "reacquire"},
             Queue |-> {"out", "get", "put"}]

\* The deques hold the futures of those that are in the methods that wait for
\* them; whom a Queue has woken has left them.
DequeInv ==
  /\ \A d \in Deques : Single(deque[d])
  /\ \A t \in Task :
       /\ place[t] \in PlacesOf[object]
       /\ t \in ToSet(deque["waiters"]) <=> place[t] \in {"acquire", "reacquire"}
       /\ t \in ToSet(deque["cond"]) <=> place[t] = "wait"
       /\ t \in ToSet(deque["getters"]) => place[t] = "get" /\ fut[t] # "result"
       /\ t \in ToSet(deque["putters"]) => place[t] = "put" /\ fut[t] # "result"

\* Tasks that a lock or a semaphore has woken.
Woken == {t \in Task : place[t] \in {"acquire", "reacquire"} /\ fut[t] = "result"}
Holders == {t \in Task : place[t] = "in"}

\* A Lock is unlocked or held by one task; who was woken is the first of the deque
\* and finds it unlocked.
LockInv ==
  HasLock => /\ value \in {0, 1}
             /\ value = 1 <=> Holders = {}
             /\ \A t, u \in Holders : t = u
             /\ \A t \in Woken : value = 1 /\ \A u \in Task : ~Before(deque["waiters"], u, t)

\* Nobody waits in front of those that a semaphore has woken, who are scheduled in
\* the order of the deque.
OrderInv ==
  object = "Semaphore" =>
    \A t, u \in Task :
      Before(deque["waiters"], t, u) /\ fut[u] = "result"
      => fut[t] # "pending" /\ (fut[t] = "result" => Before(ready, t, u))

PermitInv ==
  object = "Semaphore" => value + Cardinality(Holders) + Cardinality(Woken) = Limit

AsyncInv == AsyncTypeOK /\ LoopInv /\ DequeInv /\ LockInv /\ OrderInv /\ PermitInv

------------------------------------------------------------------------------
(* What a step does to the loop                                            *)

Places == {"out", "in", "acquire", "wait", "reacquire", "get", "put"}
Outcomes == {"none", "pending", "result", "cancelled"}

\* What the step of t does, besides its deques: its future and its place, the
\* results it sets, and who is scheduled behind whom.
Moved(t, woken, p, new) ==
  /\ t \notin ToSet(woken)
  /\ object' = object /\ cancels' = cancels /\ must_cancel' \subseteq Task
  /\ place' \in [Task -> Places] /\ fut' \in [Task -> Outcomes] /\ ready' \in Seq(Task)
  /\ \A u \in Task :
       /\ place'[u] = IF u = t THEN p ELSE place[u]
       /\ fut'[u] = IF u \in ToSet(woken) THEN "result" ELSE IF u = t THEN new ELSE fut[u]
  /\ \A u, v \in Task :
       u # t /\ (Before(ready, u, v) \/ (fut[u] # "pending" /\ v \in ToSet(woken)))
       => Before(ready', u, v)

LEMMA StepIs ==
  ASSUME AsyncTypeOK, LoopInv, NEW t \in Task, ready # <<>>, Head(ready) = t,
         must_cancel' = must_cancel \ {t}, UNCHANGED <<object, cancels>>,
         NEW woken \in Seq(Task), Single(woken), \A u \in ToSet(woken) : fut[u] = "pending",
         NEW p \in Places, NEW new \in {"none", "pending"},
         new = "none" <=> p \in {"out", "in"},
         StepEnds(t, woken, p, new)
  PROVE  Moved(t, woken, p, new) /\ LoopInv' /\ fut[t] # "pending"
<1> DEFINE rest == Tail(ready)
           last == IF new = "none" THEN <<t>> ELSE <<>>
<1>1. /\ ready \in Seq(Task) /\ Single(ready) /\ must_cancel \subseteq Task
      /\ place \in [Task -> Places] /\ fut \in [Task -> Outcomes]
      /\ \A u \in Task : /\ u \in ToSet(ready) <=> fut[u] # "pending"
                         /\ fut[u] = "none" <=> place[u] \in {"out", "in"}
  BY DEF AsyncTypeOK, LoopInv, Places, Outcomes
<1>2. /\ ready' = rest \o woken \o last
      /\ place' = [place EXCEPT ![t] = p]
      /\ fut' = [u \in Task |-> IF u \in ToSet(woken) THEN "result"
                                ELSE IF u = t THEN new ELSE fut[u]]
  BY DEF StepEnds
<1>3. /\ t \in ToSet(ready) /\ rest \in Seq(Task) /\ Single(rest)
      /\ ToSet(rest) = ToSet(ready) \ {t}
      /\ \A u, v : u # t /\ Before(ready, u, v) => Before(rest, u, v)
  BY <1>1, TailIs
<1>4. fut[t] # "pending" /\ t \notin ToSet(woken)
  BY <1>1, <1>3
<1>5. /\ last \in Seq(Task) /\ Single(last) /\ ToSet(last) = (IF new = "none" THEN {t} ELSE {})
  <2>1. <<t>> \in Seq(Task) /\ <<>> \in Seq(Task)
    OBVIOUS
  <2>2. Single(<<t>>) /\ ToSet(<<t>>) = {t} /\ Single(<<>>) /\ ToSet(<<>>) = {}
    BY DEF Single, ToSet
  <2> QED BY <2>1, <2>2
<1> HIDE DEF rest, last
<1>6. \A u \in ToSet(woken) : u \in Task
  <2>1. \A i \in 1 .. Len(woken) : woken[i] \in Task
    OBVIOUS
  <2>2. ToSet(woken) = {woken[i] : i \in 1 .. Len(woken)}
    BY DEF ToSet
  <2> QED BY <2>1, <2>2
<1>7. ToSet(rest) \cap ToSet(woken) = {}
  BY <1>1, <1>3, <1>6
<1> DEFINE most == rest \o woken
<1>8. /\ most \in Seq(Task) /\ Single(most) /\ ToSet(most) = ToSet(rest) \cup ToSet(woken)
      /\ \A x, y : Before(rest, x, y) \/ (x \in ToSet(rest) /\ y \in ToSet(woken))
                   => Before(most, x, y)
  BY <1>3, <1>7, ConcatIs
<1>9. ToSet(most) \cap ToSet(last) = {}
  BY <1>8, <1>5, <1>3, <1>4
<1>10. /\ ready' \in Seq(Task) /\ Single(ready')
       /\ ToSet(ready') = ToSet(most) \cup ToSet(last)
       /\ \A x, y : Before(most, x, y) => Before(ready', x, y)
  <2> HIDE DEF most
  <2>1. ready' = most \o last
    BY <1>2 DEF most
  <2> QED BY <2>1, <1>8, <1>9, <1>5, ConcatIs
<1> HIDE DEF most
<1>11. place' \in [Task -> Places] /\ \A u \in Task : place'[u] = IF u = t THEN p ELSE place[u]
  BY <1>1, <1>2
<1>12. /\ fut' \in [Task -> Outcomes]
       /\ \A u \in Task :
            fut'[u] = IF u \in ToSet(woken) THEN "result" ELSE IF u = t THEN new ELSE fut[u]
  BY <1>1, <1>2 DEF Outcomes
<1>13. LoopInv'
  <2> SUFFICES ASSUME NEW u \in Task
               PROVE  /\ u \in ToSet(ready') <=> fut'[u] # "pending"
                      /\ fut'[u] = "none" <=> place'[u] \in {"out", "in"}
    BY <1>10 DEF LoopInv
  <2>1. CASE u \in ToSet(woken)
    BY <2>1, <1>12, <1>11, <1>10, <1>8, <1>4, <1>1
  <2>2. CASE u = t
    BY <2>2, <1>12, <1>11, <1>10, <1>8, <1>5, <1>4, <1>3
  <2>3. CASE u \notin ToSet(woken) /\ u # t
    BY <2>3, <1>12, <1>11, <1>10, <1>8, <1>5, <1>3, <1>1
  <2> QED BY <2>1, <2>2, <2>3
<1>14. ASSUME NEW u \in Task, NEW v \in Task, u # t,
              Before(ready, u, v) \/ (fut[u] # "pending" /\ v \in ToSet(woken))
       PROVE  Before(ready', u, v)
  BY <1>14, <1>10, <1>8, <1>3, <1>1
<1> QED BY <1>1, <1>4, <1>10, <1>11, <1>12, <1>13, <1>14 DEF Moved

------------------------------------------------------------------------------
(* What a step does to the deques                                          *)

GoodDeques(dq) == dq \in [Deques -> Seq(Task)] /\ \A d \in Deques : Single(dq[d])

\* The deques dq are those there are, without t.
Without(dq, t) ==
  /\ GoodDeques(dq)
  /\ \A d \in Deques :
       /\ \A u \in Task : u \in ToSet(dq[d]) <=> u \in ToSet(deque[d]) /\ u # t
       /\ \A u, v : Before(dq[d], u, v) => Before(deque[d], u, v)

\* A task that has no future, or that a Queue has woken, is in no deque; another
\* one is in the deque it waits in and leaves it by remove().
LEMMA WithoutIs ==
  ASSUME AsyncTypeOK, LoopInv, DequeInv, NEW t \in Task
  PROVE  /\ place[t] \in {"out", "in"} => Without(deque, t)
         /\ place[t] \in {"get", "put"} /\ fut[t] = "result" => Without(deque, t)
         /\ place[t] \in {"acquire", "reacquire"} => Without(Removed(t, "waiters"), t)
         /\ place[t] = "wait" => Without(Removed(t, "cond"), t)
         /\ place[t] = "get" => Without(Removed(t, "getters"), t)
         /\ place[t] = "put" => Without(Removed(t, "putters"), t)
<1>1. /\ deque \in [Deques -> Seq(Task)] /\ \A d \in Deques : Single(deque[d])
      /\ Deques = {"waiters", "cond", "getters", "putters"}
  BY DEF AsyncTypeOK, DequeInv, Deques
<1>2. /\ t \in ToSet(deque["waiters"]) <=> place[t] \in {"acquire", "reacquire"}
      /\ t \in ToSet(deque["cond"]) <=> place[t] = "wait"
      /\ t \in ToSet(deque["getters"]) => place[t] = "get" /\ fut[t] # "result"
      /\ t \in ToSet(deque["putters"]) => place[t] = "put" /\ fut[t] # "result"
  BY DEF DequeInv
<1>3. (\A d \in Deques : t \notin ToSet(deque[d])) => Without(deque, t)
  BY <1>1 DEF Without, GoodDeques
<1>4. ASSUME NEW e \in Deques, \A d \in Deques \ {e} : t \notin ToSet(deque[d])
      PROVE  Without(Removed(t, e), t)
  <2> DEFINE dq == Removed(t, e)
  <2>1. /\ dq[e] = RemoveFirst(deque[e], t) /\ \A d \in Deques \ {e} : dq[d] = deque[d]
        /\ dq = [d \in Deques |-> IF d = e THEN RemoveFirst(deque[e], t) ELSE deque[d]]
    BY <1>1 DEF Removed
  <2>2. /\ RemoveFirst(deque[e], t) \in Seq(Task) /\ Single(RemoveFirst(deque[e], t))
        /\ ToSet(RemoveFirst(deque[e], t)) = ToSet(deque[e]) \ {t}
        /\ \A x, y : Before(RemoveFirst(deque[e], t), x, y) => Before(deque[e], x, y)
    BY <1>1, RemoveFirstIs
  <2> HIDE DEF dq
  <2>3. dq \in [Deques -> Seq(Task)]
    BY <1>1, <2>1, <2>2
  <2>4. \A d \in Deques : Single(dq[d])
    BY <1>1, <2>1, <2>2
  <2>5. ASSUME NEW d \in Deques
        PROVE  /\ \A u \in Task : u \in ToSet(dq[d]) <=> u \in ToSet(deque[d]) /\ u # t
               /\ \A u, v : Before(dq[d], u, v) => Before(deque[d], u, v)
    <3>1. CASE d = e
      BY <3>1, <2>1, <2>2
    <3>2. CASE d # e
      BY <3>2, <2>1, <1>4
    <3> QED BY <3>1, <3>2
  <2> QED BY <2>3, <2>4, <2>5 DEF Without, GoodDeques, dq
<1>5. CASE place[t] \in {"out", "in"} \/ (place[t] \in {"get", "put"} /\ fut[t] = "result")
  <2>1. \A d \in Deques : t \notin ToSet(deque[d])
    BY <1>5, <1>1, <1>2
  <2>2. Without(deque, t)
    BY <2>1, <1>3
  <2>3. place[t] = "get" => Without(Removed(t, "getters"), t)
    BY <2>1, <1>4, <1>1
  <2>4. place[t] = "put" => Without(Removed(t, "putters"), t)
    BY <2>1, <1>4, <1>1
  <2> QED BY <2>2, <2>3, <2>4, <1>5
<1>6. CASE place[t] \in {"acquire", "reacquire"}
  BY <1>6, <1>4, <1>2, <1>1
<1>7. CASE place[t] = "wait"
  BY <1>7, <1>4, <1>2, <1>1
<1>8. CASE place[t] = "get"
  BY <1>5, <1>8, <1>4, <1>2, <1>1
<1>9. CASE place[t] = "put"
  BY <1>5, <1>9, <1>4, <1>2, <1>1
<1> QED BY <1>5, <1>6, <1>7, <1>8, <1>9

\* The deques with t at the end of one of them.
Joined(dq, t, e) == [dq EXCEPT ![e] = Append(@, t)]

LEMMA AppendedIs ==
  ASSUME NEW dq, NEW t \in Task, Without(dq, t), NEW e \in Deques
  PROVE  /\ GoodDeques(Joined(dq, t, e))
         /\ \A d \in Deques :
              /\ \A u \in Task : u \in ToSet(Joined(dq, t, e)[d]) <=>
                   (u \in ToSet(deque[d]) /\ u # t) \/ (d = e /\ u = t)
              /\ \A u, v : Before(Joined(dq, t, e)[d], u, v)
                          => Before(dq[d], u, v) \/ (v = t /\ u # t)
<1> DEFINE r == Joined(dq, t, e)
<1>1. /\ dq \in [Deques -> Seq(Task)] /\ \A d \in Deques : Single(dq[d])
      /\ \A d \in Deques :
           \A u \in Task : u \in ToSet(dq[d]) <=> u \in ToSet(deque[d]) /\ u # t
  BY DEF Without, GoodDeques
<1>2. /\ r[e] = Append(dq[e], t) /\ \A d \in Deques \ {e} : r[d] = dq[d]
      /\ r = [d \in Deques |-> IF d = e THEN Append(dq[e], t) ELSE dq[d]]
  BY <1>1 DEF Joined
<1>3. /\ Append(dq[e], t) \in Seq(Task) /\ Single(Append(dq[e], t))
      /\ ToSet(Append(dq[e], t)) = ToSet(dq[e]) \cup {t}
      /\ \A x, y : Before(Append(dq[e], t), x, y) => Before(dq[e], x, y) \/ (x # t /\ y = t)
  <2>1. t \notin ToSet(dq[e])
    BY <1>1
  <2> QED BY <2>1, <1>1, AppendIs
<1> HIDE DEF r
<1>4. r \in [Deques -> Seq(Task)]
  BY <1>1, <1>2, <1>3
<1>5. \A d \in Deques : Single(r[d])
  BY <1>1, <1>2, <1>3
<1>6. ASSUME NEW d \in Deques
      PROVE  /\ \A u \in Task : u \in ToSet(r[d]) <=>
                  (u \in ToSet(deque[d]) /\ u # t) \/ (d = e /\ u = t)
             /\ \A u, v : Before(r[d], u, v) => Before(dq[d], u, v) \/ (v = t /\ u # t)
  <2>1. CASE d = e
    BY <2>1, <1>1, <1>2, <1>3
  <2>2. CASE d # e
    BY <2>2, <1>1, <1>2
  <2> QED BY <2>1, <2>2
<1> QED BY <1>4, <1>5, <1>6 DEF GoodDeques, r

\* DequeInv is kept when the other tasks stay where they are, but for those that
\* a Queue wakes.
LEMMA DequeStep ==
  ASSUME DequeInv, GoodDeques(deque'), NEW t \in Task, NEW woken,
         NEW p \in PlacesOf[object], NEW new, new # "result", Moved(t, woken, p, new),
         \A u \in Task \ {t} :
           /\ \A d \in {"waiters", "cond"} : u \in ToSet(deque'[d]) <=> u \in ToSet(deque[d])
           /\ \A d \in {"getters", "putters"} :
                u \in ToSet(deque'[d])
                => u \in ToSet(deque[d]) /\ (object = "Queue" => u \notin ToSet(woken)),
         t \in ToSet(deque'["waiters"]) <=> p \in {"acquire", "reacquire"},
         t \in ToSet(deque'["cond"]) <=> p = "wait",
         t \in ToSet(deque'["getters"]) => p = "get",
         t \in ToSet(deque'["putters"]) => p = "put",
         object \in Objects
  PROVE  DequeInv'
<1>1. object' = object /\ \A d \in Deques : Single(deque'[d])
  BY DEF GoodDeques, Moved
<1>2. ASSUME NEW u \in Task
      PROVE  /\ place'[u] \in PlacesOf[object]
             /\ u \in ToSet(deque'["waiters"]) <=> place'[u] \in {"acquire", "reacquire"}
             /\ u \in ToSet(deque'["cond"]) <=> place'[u] = "wait"
             /\ u \in ToSet(deque'["getters"]) => place'[u] = "get" /\ fut'[u] # "result"
             /\ u \in ToSet(deque'["putters"]) => place'[u] = "put" /\ fut'[u] # "result"
  <2>1. /\ place'[u] = IF u = t THEN p ELSE place[u]
        /\ fut'[u] = IF u \in ToSet(woken) THEN "result" ELSE IF u = t THEN new ELSE fut[u]
        /\ t \notin ToSet(woken)
    BY DEF Moved
  <2>2. CASE u = t
    BY <2>1, <2>2
  <2>3. CASE u # t
    <3>1. /\ place[u] \in PlacesOf[object]
          /\ u \in ToSet(deque["waiters"]) <=> place[u] \in {"acquire", "reacquire"}
          /\ u \in ToSet(deque["cond"]) <=> place[u] = "wait"
          /\ u \in ToSet(deque["getters"]) => place[u] = "get" /\ fut[u] # "result"
          /\ u \in ToSet(deque["putters"]) => place[u] = "put" /\ fut[u] # "result"
      BY DEF DequeInv
    <3>2. place[u] \in {"get", "put"} => object = "Queue"
      BY <3>1 DEF PlacesOf, Objects
    <3>3. /\ u \in ToSet(deque'["waiters"]) <=> u \in ToSet(deque["waiters"])
          /\ u \in ToSet(deque'["cond"]) <=> u \in ToSet(deque["cond"])
      BY <2>3
    <3>4. ASSUME NEW d \in {"getters", "putters"}, u \in ToSet(deque'[d])
          PROVE  u \in ToSet(deque[d]) /\ (object = "Queue" => u \notin ToSet(woken))
      BY <2>3, <3>4
    <3> QED BY <2>1, <2>3, <3>1, <3>2, <3>3, <3>4
  <2> QED BY <2>2, <2>3
<1> QED BY <1>1, <1>2 DEF DequeInv

LEMMA GoesOnIs ==
  ASSUME DequeInv, object \in Objects, NEW t \in Task, NEW woken,
         NEW p \in {"out", "in"}, p \in PlacesOf[object], Moved(t, woken, p, "none"),
         Without(deque', t), object = "Queue" => woken = <<>>
  PROVE  DequeInv'
<1>1. ToSet(<<>>) = {} /\ Deques = {"waiters", "cond", "getters", "putters"}
  BY DEF ToSet, Deques
<1>2. /\ GoodDeques(deque')
      /\ \A d \in Deques : \A u \in Task :
           u \in ToSet(deque'[d]) <=> u \in ToSet(deque[d]) /\ u # t
  BY DEF Without
<1> QED BY <1>1, <1>2, DequeStep

\* The deque that a task waits in at p.
DequeOf == [acquire |-> "waiters", reacquire |-> "waiters", wait |-> "cond",
            get |-> "getters", put |-> "putters"]

LEMMA AwaitsIs ==
  ASSUME DequeInv, object \in Objects, NEW t \in Task, NEW woken, NEW dq, Without(dq, t),
         NEW p \in DOMAIN DequeOf, p \in PlacesOf[object], Moved(t, woken, p, "pending"),
         deque' = [dq EXCEPT ![DequeOf[p]] = Append(@, t)],
         object = "Queue" => woken = <<>>
  PROVE  /\ DequeInv' /\ deque' \in [Deques -> Seq(Task)]
         /\ \A u, v : Before(deque'["waiters"], u, v) =>
              Before(dq["waiters"], u, v) \/ (v = t /\ u # t)
<1>1. /\ ToSet(<<>>) = {} /\ Deques = {"waiters", "cond", "getters", "putters"}
      /\ DOMAIN DequeOf = {"acquire", "reacquire", "wait", "get", "put"}
  BY DEF ToSet, Deques, DequeOf
<1> DEFINE e == DequeOf[p]
<1>2. /\ e \in Deques
      /\ e = "waiters" <=> p \in {"acquire", "reacquire"}
      /\ e = "cond" <=> p = "wait"
      /\ e = "getters" <=> p = "get"
      /\ e = "putters" <=> p = "put"
  BY <1>1 DEF DequeOf
<1>3. /\ GoodDeques(deque')
      /\ \A d \in Deques :
           /\ \A u \in Task : u \in ToSet(deque'[d]) <=>
                (u \in ToSet(deque[d]) /\ u # t) \/ (d = e /\ u = t)
           /\ \A u, v : Before(deque'[d], u, v) => Before(dq[d], u, v) \/ (v = t /\ u # t)
  <2>1. deque' = Joined(dq, t, e)
    BY DEF Joined
  <2> HIDE DEF e
  <2>2. e \in Deques
    BY <1>2
  <2>3. GoodDeques(Joined(dq, t, e))
    BY <2>2, AppendedIs
  <2>4. GoodDeques(deque')
    BY <2>1, <2>3
  <2>5. \A d \in Deques :
           /\ \A u \in Task : u \in ToSet(Joined(dq, t, e)[d]) <=>
                (u \in ToSet(deque[d]) /\ u # t) \/ (d = e /\ u = t)
           /\ \A u, v : Before(Joined(dq, t, e)[d], u, v)
                       => Before(dq[d], u, v) \/ (v = t /\ u # t)
    BY <2>2, AppendedIs
  <2> QED BY <2>1, <2>4, <2>5
<1> HIDE DEF e
<1>4. \A u \in Task \ {t} : \A d \in Deques : u \in ToSet(deque'[d]) <=> u \in ToSet(deque[d])
  BY <1>3
<1>5. \A u \in Task \ {t} :
        /\ \A d \in {"waiters", "cond"} : u \in ToSet(deque'[d]) <=> u \in ToSet(deque[d])
        /\ \A d \in {"getters", "putters"} :
             u \in ToSet(deque'[d])
             => u \in ToSet(deque[d]) /\ (object = "Queue" => u \notin ToSet(woken))
  BY <1>1, <1>4
<1>6. \A d \in Deques : t \in ToSet(deque'[d]) <=> d = e
  BY <1>3
<1>7. /\ t \in ToSet(deque'["waiters"]) <=> p \in {"acquire", "reacquire"}
      /\ t \in ToSet(deque'["cond"]) <=> p = "wait"
      /\ t \in ToSet(deque'["getters"]) => p = "get"
      /\ t \in ToSet(deque'["putters"]) => p = "put"
  BY <1>1, <1>2, <1>6
<1>8. DequeInv'
  BY <1>3, <1>5, <1>7, DequeStep
<1> QED BY <1>1, <1>3, <1>8 DEF GoodDeques

------------------------------------------------------------------------------
(* A step without those that a Queue wakes                                 *)

\* The step of t begins.
Begins(t) == /\ ready # <<>> /\ Head(ready) = t
             /\ must_cancel' = must_cancel \ {t} /\ UNCHANGED <<object, cancels>>

\* What a step does to those that hold the object, or were woken for it.
Counts(t, woken, p) ==
  /\ \A u \in Task : u \in Holders' <=> (u # t /\ u \in Holders) \/ (u = t /\ p = "in")
  /\ \A u \in Task :
       u \in Woken' <=>
         u # t /\ (u \in Woken \/ (u \in ToSet(woken) /\ place[u] \in {"acquire", "reacquire"}))

LEMMA CountsAre ==
  ASSUME NEW t \in Task, NEW woken, NEW p, NEW new, new # "result", Moved(t, woken, p, new)
  PROVE  Counts(t, woken, p)
<1>1. \A u \in Task :
        /\ place'[u] = IF u = t THEN p ELSE place[u]
        /\ fut'[u] = IF u \in ToSet(woken) THEN "result" ELSE IF u = t THEN new ELSE fut[u]
        /\ t \notin ToSet(woken)
  BY DEF Moved
<1>2. \A u \in Task : u \in Holders' <=> (u # t /\ u \in Holders) \/ (u = t /\ p = "in")
  BY <1>1 DEF Holders
<1>3. \A u \in Task :
        u \in Woken' <=>
          u # t /\ (u \in Woken \/ (u \in ToSet(woken) /\ place[u] \in {"acquire", "reacquire"}))
  BY <1>1 DEF Woken
<1> QED BY <1>2, <1>3 DEF Counts

LEMMA TypeStep ==
  ASSUME AsyncTypeOK, LoopInv', NEW t, NEW woken, NEW p, NEW new, Moved(t, woken, p, new),
         deque' \in [Deques -> Seq(Task)], value' \in 0 .. Limit
  PROVE  AsyncTypeOK'
<1>1. /\ object' = object /\ cancels' = cancels /\ must_cancel' \subseteq Task
      /\ place' \in [Task -> Places] /\ fut' \in [Task -> Outcomes] /\ ready' \in Seq(Task)
  BY DEF Moved
<1>2. IsInjective(ready')
  <2>1. \A i, j \in 1 .. Len(ready') : ready'[i] = ready'[j] => i = j
    BY DEF LoopInv, Single
  <2>2. DOMAIN ready' = 1 .. Len(ready')
    BY <1>1
  <2> QED BY <2>1, <2>2 DEF IsInjective
<1> QED BY <1>1, <1>2 DEF AsyncTypeOK, Places, Outcomes

LEMMA StepKeeps ==
  ASSUME AsyncTypeOK, LoopInv, DequeInv, NEW t \in Task, Begins(t),
         NEW woken \in Seq(Task), Single(woken), \A u \in ToSet(woken) : fut[u] = "pending",
         object = "Queue" => woken = <<>>,
         NEW dq, Without(dq, t), NEW p \in PlacesOf[object], value' \in 0 .. Limit,
         \/ p \in {"out", "in"} /\ GoesOn(t, woken, p, dq)
         \/ p \in DOMAIN DequeOf /\ Awaits(t, woken, p, dq, DequeOf[p])
  PROVE  /\ AsyncTypeOK' /\ LoopInv' /\ DequeInv'
         /\ \E new : new # "result" /\ Moved(t, woken, p, new)
         /\ Counts(t, woken, p) /\ fut[t] # "pending"
         /\ \A u, v : Before(deque'["waiters"], u, v) =>
              Before(dq["waiters"], u, v) \/ (v = t /\ u # t)
<1>1. /\ ready # <<>> /\ Head(ready) = t
      /\ must_cancel' = must_cancel \ {t} /\ UNCHANGED <<object, cancels>>
  BY DEF Begins
<1>2. /\ object \in Objects
      /\ DOMAIN DequeOf = {"acquire", "reacquire", "wait", "get", "put"}
  BY DEF AsyncTypeOK, DequeOf
<1>3. CASE p \in {"out", "in"} /\ GoesOn(t, woken, p, dq)
  <2>1. StepEnds(t, woken, p, "none") /\ deque' = dq
    BY <1>3 DEF GoesOn
  <2>2. p \in Places /\ ("none" = "none" <=> p \in {"out", "in"})
    BY <1>3 DEF Places
  <2>3. Moved(t, woken, p, "none") /\ LoopInv' /\ fut[t] # "pending"
    BY <2>1, <2>2, <1>1, StepIs
  <2>4. DequeInv'
    BY <2>1, <2>3, <1>2, <1>3, GoesOnIs
  <2>5. deque' \in [Deques -> Seq(Task)]
    BY <2>1 DEF Without, GoodDeques
  <2>6. AsyncTypeOK'
    BY <2>3, <2>5, TypeStep
  <2>7. Counts(t, woken, p)
    BY <2>3, CountsAre
  <2> QED BY <2>1, <2>3, <2>4, <2>6, <2>7
<1>4. CASE p \in DOMAIN DequeOf /\ Awaits(t, woken, p, dq, DequeOf[p])
  <2>1. /\ StepEnds(t, woken, p, "pending")
        /\ deque' = [dq EXCEPT ![DequeOf[p]] = Append(@, t)]
    BY <1>4 DEF Awaits
  <2>2. p \in Places /\ ("pending" = "none" <=> p \in {"out", "in"})
    BY <1>4, <1>2 DEF Places
  <2>3. Moved(t, woken, p, "pending") /\ LoopInv' /\ fut[t] # "pending"
    BY <2>1, <2>2, <1>1, StepIs
  <2>4. /\ DequeInv' /\ deque' \in [Deques -> Seq(Task)]
        /\ \A u, v : Before(deque'["waiters"], u, v) =>
             Before(dq["waiters"], u, v) \/ (v = t /\ u # t)
    BY <2>1, <2>3, <1>2, <1>4, AwaitsIs
  <2>5. AsyncTypeOK'
    BY <2>3, <2>4, TypeStep
  <2>6. Counts(t, woken, p)
    BY <2>3, CountsAre
  <2> QED BY <2>3, <2>4, <2>5, <2>6
<1> QED BY <1>3, <1>4

------------------------------------------------------------------------------
(* Lock and Condition                                                      *)

\* t takes the lock, and nobody else has been woken for it.
LEMMA LockTakes ==
  ASSUME LockInv, HasLock, object' = object, NEW t \in Task, NEW woken, Counts(t, woken, "in"),
         value = 1, value' = 0, \A u \in Woken : u = t,
         \A u \in ToSet(woken) : place[u] \notin {"acquire", "reacquire"}
  PROVE  LockInv'
<1>1. Holders = {} /\ Holders \subseteq Task /\ Holders' \subseteq Task
      /\ Woken \subseteq Task /\ Woken' \subseteq Task
  BY DEF LockInv, Holders, Woken
<1>2. \A u \in Holders' : u = t
  BY <1>1 DEF Counts
<1>3. t \in Holders'
  BY DEF Counts
<1>4. Woken' = {}
  BY <1>1 DEF Counts
<1> QED BY <1>2, <1>3, <1>4 DEF LockInv, HasLock

\* t releases the lock and wakes at most the first of those that wait for it.
LEMMA LockFrees ==
  ASSUME LockInv, HasLock, object' = object, NEW t \in Task, t \in Holders,
         NEW woken, NEW p, p # "in", Counts(t, woken, p), value' = 1,
         \A u \in ToSet(woken) : place[u] \in {"acquire", "reacquire"} =>
           \A v : ~Before(deque["waiters"], v, u),
         \A u, v : Before(deque'["waiters"], u, v) => Before(deque["waiters"], u, v) \/ v = t
  PROVE  LockInv'
<1>1. Holders \subseteq Task /\ Holders' \subseteq Task /\ Woken \subseteq Task /\ Woken' \subseteq Task
  BY DEF Holders, Woken
<1>2. Woken = {} /\ \A u \in Holders : u = t
  BY DEF LockInv
<1>3. Holders' = {}
  BY <1>1, <1>2 DEF Counts
<1>4. \A u \in Woken' : u # t /\ \A v : ~Before(deque["waiters"], v, u)
  BY <1>1, <1>2 DEF Counts
<1>5. \A u \in Woken' : \A v \in Task : ~Before(deque'["waiters"], v, u)
  BY <1>4
<1> QED BY <1>3, <1>5 DEF LockInv, HasLock

\* t does neither; it may wake the first of those that wait, if the lock is free.
LEMMA LockStays ==
  ASSUME LockInv, HasLock, object' = object, NEW t \in Task, t \notin Holders,
         NEW woken, NEW p, p # "in", Counts(t, woken, p), value' = value, NEW dq, Without(dq, t),
         \A u \in ToSet(woken) : place[u] \in {"acquire", "reacquire"} =>
           value = 1 /\ \A v : ~Before(dq["waiters"], v, u),
         \A u, v : Before(deque'["waiters"], u, v) => Before(dq["waiters"], u, v) \/ v = t
  PROVE  LockInv'
<1>1. Holders \subseteq Task /\ Holders' \subseteq Task /\ Woken \subseteq Task /\ Woken' \subseteq Task
  BY DEF Holders, Woken
<1>2. Holders' = Holders
  BY <1>1 DEF Counts
<1>3. \A u, v : Before(dq["waiters"], u, v) => Before(deque["waiters"], u, v)
  BY DEF Without, Deques
<1>4. ASSUME NEW u \in Woken'
      PROVE  u # t /\ value = 1 /\ \A v \in Task : ~Before(dq["waiters"], v, u)
  <2>1. CASE u \in Woken
    BY <1>1, <1>3, <2>1, <1>4 DEF LockInv, Counts
  <2>2. CASE u \notin Woken
    <3>1. u # t /\ u \in ToSet(woken) /\ place[u] \in {"acquire", "reacquire"}
      BY <2>2, <1>1, <1>4 DEF Counts
    <3> QED BY <3>1
  <2> QED BY <2>1, <2>2
<1>5. \A u \in Woken' : value = 1 /\ \A v \in Task : ~Before(deque'["waiters"], v, u)
  BY <1>4
<1> QED BY <1>2, <1>5 DEF LockInv, HasLock

\* Who takes the lock or the semaphore was the first of those that wait for it and
\* are not cancelled.
FairStep ==
  \A t \in Task : place[t] # "in" /\ place'[t] = "in" =>
    LET q == deque.waiters
    IN \A i \in DOMAIN q : t \notin ToSet(SubSeq(q, 1, i)) => Cancelled(q[i])

LEMMA FairIs ==
  ASSUME AsyncTypeOK, NEW t \in Task, NEW woken, NEW p, NEW new, Moved(t, woken, p, new),
         p = "in" => \A v \in ToSet(deque["waiters"]) :
           v # t /\ (t \in ToSet(deque["waiters"]) => Before(deque["waiters"], v, t))
           => Cancelled(v)
  PROVE  FairStep
<1> DEFINE q == deque["waiters"]
<1>1. q \in Seq(Task) /\ deque.waiters = q
  BY DEF AsyncTypeOK, Deques
<1> HIDE DEF q
<1>2. SUFFICES ASSUME NEW u \in Task, place[u] # "in", place'[u] = "in",
                      NEW i \in DOMAIN q, u \notin ToSet(SubSeq(q, 1, i))
               PROVE  Cancelled(q[i])
  BY <1>1 DEF FairStep
<1>3. u = t /\ p = "in"
  BY <1>2 DEF Moved
<1>4. q[i] # t /\ q[i] \in ToSet(q) /\ (t \in ToSet(q) => Before(q, q[i], t))
  BY <1>1, <1>2, <1>3, InFront
<1> QED BY <1>3, <1>4 DEF q

\* acquire() as far as its await.
LEMMA AcquireLockStep ==
  ASSUME AsyncInv, HasLock, NEW t \in Task, Begins(t), t \notin Holders,
         NEW woken \in Seq(Task), Single(woken), \A u \in ToSet(woken) : fut[u] = "pending",
         NEW dq, Without(dq, t),
         \A u \in ToSet(woken) :
           value = 1 /\ u \in ToSet(dq["waiters"]) /\ \A v : ~Before(dq["waiters"], v, u),
         NEW p \in {"acquire", "reacquire"}, p \in PlacesOf[object],
         AcquireLock(t, woken, p, dq)
  PROVE  AsyncInv' /\ FairStep
<1>1. /\ AsyncTypeOK /\ LoopInv /\ DequeInv /\ LockInv
      /\ object # "Semaphore" /\ object # "Queue" /\ object' = object
      /\ "waiters" \in Deques /\ dq.waiters = dq["waiters"]
      /\ 0 \in 0 .. Limit /\ 1 \in 0 .. Limit /\ value \in 0 .. Limit
      /\ DOMAIN DequeOf = {"acquire", "reacquire", "wait", "get", "put"}
      /\ DequeOf[p] = "waiters" /\ p # "in" /\ "in" \in PlacesOf[object]
  BY AsyncAssumption DEF AsyncInv, AsyncTypeOK, HasLock, Begins, Deques, DequeOf, PlacesOf
<1>2. /\ dq["waiters"] \in Seq(Task)
      /\ \A u \in Task : u \in ToSet(dq["waiters"]) <=> u \in ToSet(deque["waiters"]) /\ u # t
  BY <1>1 DEF Without, GoodDeques
<1>3. ToSet(deque["waiters"]) \subseteq Task /\ ToSet(woken) \subseteq Task
  BY <1>1 DEF AsyncTypeOK, ToSet
<1>4. CASE FreeLock(dq["waiters"])
  <2>1. /\ GoesOn(t, woken, "in", dq) /\ value' = 0 /\ value = 1
        /\ \A u \in ToSet(dq["waiters"]) : fut[u] = "cancelled"
    BY <1>1, <1>4 DEF AcquireLock, FreeLock
  <2>2. /\ AsyncTypeOK' /\ LoopInv' /\ DequeInv' /\ Counts(t, woken, "in")
        /\ \E new : new # "result" /\ Moved(t, woken, "in", new)
    BY <2>1, <1>1, StepKeeps
  <2>3. \A u \in Woken : u = t
    BY <2>1, <1>1, <1>2 DEF Woken, DequeInv
  <2>4. \A u \in ToSet(woken) : FALSE
    BY <2>1
  <2>5. LockInv'
    BY <2>1, <2>2, <2>3, <2>4, <1>1, LockTakes
  <2>6. \A v \in ToSet(deque["waiters"]) : v # t => Cancelled(v)
    BY <2>1, <1>2, <1>3 DEF Cancelled
  <2>7. FairStep
    BY <2>2, <2>6, <1>1, FairIs
  <2> QED BY <2>2, <2>5, <2>7, <1>1 DEF AsyncInv, OrderInv, PermitInv
<1>5. CASE ~FreeLock(dq["waiters"])
  <2>1. Awaits(t, woken, p, dq, DequeOf[p]) /\ value' = value
    BY <1>1, <1>5 DEF AcquireLock
  <2>2. /\ AsyncTypeOK' /\ LoopInv' /\ DequeInv' /\ Counts(t, woken, p)
        /\ \E new : new # "result" /\ Moved(t, woken, p, new)
        /\ \A u, v : Before(deque'["waiters"], u, v) =>
             Before(dq["waiters"], u, v) \/ (v = t /\ u # t)
    BY <2>1, <1>1, StepKeeps
  <2>3. LockInv'
    BY <2>1, <2>2, <1>1, LockStays
  <2>4. FairStep
    BY <2>2, <1>1, FairIs
  <2> QED BY <2>2, <2>3, <2>4, <1>1 DEF AsyncInv, OrderInv, PermitInv
<1> QED BY <1>4, <1>5


\* A new call of acquire(), and wait() that was notified or cancelled.
LEMMA LockStep1 ==
  ASSUME AsyncInv, NEW t \in Task, Lock(t) \/ CondWoken(t)
  PROVE  AsyncInv' /\ FairStep
<1>1. /\ AsyncTypeOK /\ LoopInv /\ DequeInv /\ object \in Objects
      /\ place[t] \in PlacesOf[object]
  BY DEF AsyncInv, AsyncTypeOK, DequeInv
<1>2. /\ <<>> \in Seq(Task) /\ Single(<<>>) /\ ToSet(<<>>) = {}
  <2>1. <<>> \in Seq(Task)
    OBVIOUS
  <2> QED BY <2>1 DEF Single, ToSet
<1>3. CASE Lock(t)
  <2>1. HasLock /\ place[t] = "out" /\ Begins(t) /\ AcquireLock(t, <<>>, "acquire", deque)
    BY <1>3 DEF Lock, Steps, Begins
  <2>2. Without(deque, t) /\ t \notin Holders
    BY <2>1, <1>1, WithoutIs DEF Holders
  <2>3. "acquire" \in PlacesOf[object]
    BY <2>1 DEF HasLock, PlacesOf
  <2> QED BY <2>1, <2>2, <2>3, <1>2, AcquireLockStep
<1>4. CASE CondWoken(t)
  <2>1. /\ place[t] = "wait" /\ Begins(t)
        /\ AcquireLock(t, <<>>, "reacquire", Removed(t, "cond"))
    BY <1>4 DEF CondWoken, Steps, Begins
  <2>2. object = "Condition"
    BY <1>1, <2>1 DEF PlacesOf, Objects
  <2>3. Without(Removed(t, "cond"), t) /\ t \notin Holders
    BY <2>1, <1>1, WithoutIs DEF Holders
  <2>4. "reacquire" \in PlacesOf[object] /\ HasLock
    BY <2>2 DEF HasLock, PlacesOf
  <2> QED BY <2>1, <2>3, <2>4, <1>2, AcquireLockStep
<1> QED BY <1>3, <1>4

\* Who was woken is alone and the first; it takes the lock.
LEMMA LockedStep ==
  ASSUME AsyncInv, NEW t \in Task, Locked(t)
  PROVE  AsyncInv' /\ FairStep
<1> DEFINE dq == Removed(t, "waiters")
<1>1. /\ AsyncTypeOK /\ LoopInv /\ DequeInv /\ LockInv /\ object \in Objects
      /\ HasLock /\ object # "Semaphore" /\ object # "Queue" /\ object' = object
      /\ place[t] \in {"acquire", "reacquire"} /\ Begins(t) /\ ~Cancelled(t)
      /\ GoesOn(t, <<>>, "in", dq) /\ value' = 0
      /\ 0 \in 0 .. Limit /\ "in" \in PlacesOf[object] /\ "waiters" \in Deques
  BY AsyncAssumption DEF AsyncInv, AsyncTypeOK, Locked, Steps, Begins, HasLock, PlacesOf, Deques
<1> HIDE DEF dq
<1>2. /\ <<>> \in Seq(Task) /\ Single(<<>>) /\ ToSet(<<>>) = {}
  <2>1. <<>> \in Seq(Task)
    OBVIOUS
  <2> QED BY <2>1 DEF Single, ToSet
<1>3. Without(dq, t)
  BY <1>1, WithoutIs DEF dq
<1>4. /\ AsyncTypeOK' /\ LoopInv' /\ DequeInv' /\ Counts(t, <<>>, "in") /\ fut[t] # "pending"
      /\ \E new : new # "result" /\ Moved(t, <<>>, "in", new)
  BY <1>1, <1>2, <1>3, StepKeeps
<1>5. t \in Woken
  <2>1. fut[t] \in {"none", "pending", "result", "cancelled"} /\ fut[t] # "cancelled"
    BY <1>1 DEF AsyncTypeOK, Cancelled
  <2>2. fut[t] # "none"
    BY <1>1 DEF LoopInv
  <2> QED BY <2>1, <2>2, <1>1, <1>4 DEF Woken
<1>6. value = 1 /\ \A u \in Task : ~Before(deque["waiters"], u, t)
  BY <1>1, <1>5 DEF LockInv
<1>7. \A u \in Woken : u = t
  <2> SUFFICES ASSUME NEW u \in Woken, u # t PROVE FALSE
    OBVIOUS
  <2>1. /\ u \in Task /\ place[u] \in {"acquire", "reacquire"}
        /\ \A v \in Task : ~Before(deque["waiters"], v, u)
    BY <1>1 DEF Woken, LockInv
  <2>2. u \in ToSet(deque["waiters"]) /\ t \in ToSet(deque["waiters"])
    BY <1>1, <2>1 DEF DequeInv
  <2>3. deque["waiters"] \in Seq(Task)
    BY <1>1 DEF AsyncTypeOK
  <2> QED BY <1>6, <2>1, <2>2, <2>3, EitherIsFirst
<1>8. LockInv'
  BY <1>1, <1>2, <1>4, <1>6, <1>7, LockTakes
<1>9. FairStep
  <2>1. t \in ToSet(deque["waiters"]) /\ ToSet(deque["waiters"]) \subseteq Task
    BY <1>1 DEF DequeInv, AsyncTypeOK, ToSet
  <2> QED BY <2>1, <1>1, <1>4, <1>6, FairIs
<1> QED BY <1>1, <1>4, <1>8, <1>9 DEF AsyncInv, OrderInv, PermitInv

\* A task that is cancelled in acquire() passes the lock on if it is free.
LEMMA LockCancelledStep ==
  ASSUME AsyncInv, NEW t \in Task, LockCancelled(t)
  PROVE  AsyncInv' /\ FairStep
<1> DEFINE dq == Removed(t, "waiters")
           woken == PassOn(dq.waiters)
<1>1. /\ AsyncTypeOK /\ LoopInv /\ DequeInv /\ LockInv /\ object \in Objects
      /\ HasLock /\ object # "Semaphore" /\ object # "Queue" /\ object' = object /\ Begins(t)
      /\ \/ place[t] = "acquire" /\ GoesOn(t, woken, "out", dq) /\ value' = value
         \/ place[t] = "reacquire" /\ AcquireLock(t, woken, "reacquire", dq)
      /\ value \in 0 .. Limit /\ "out" \in PlacesOf[object] /\ "waiters" \in Deques
      /\ place[t] \in PlacesOf[object]
  BY DEF AsyncInv, AsyncTypeOK, LockCancelled, Steps, Begins, HasLock, PlacesOf, Deques, DequeInv
<1>2. Without(dq, t)
  BY <1>1, WithoutIs
<1>3. dq["waiters"] \in Seq(Task) /\ Single(dq["waiters"]) /\ dq.waiters = dq["waiters"]
  BY <1>1, <1>2 DEF Without, GoodDeques
<1> HIDE DEF dq
<1>4. /\ woken \in Seq(Task) /\ Single(woken)
      /\ \A u \in ToSet(woken) : /\ fut[u] = "pending" /\ value = 1
                                 /\ u \in ToSet(dq["waiters"])
                                 /\ \A v : ~Before(dq["waiters"], v, u)
  <2>1. CASE value = 1
    <3>1. woken = WakeFirst(dq["waiters"])
      BY <2>1, <1>3 DEF PassOn
    <3> QED BY <3>1, <2>1, <1>3, WakeFirstIs
  <2>2. CASE value # 1
    <3>1. woken = <<>>
      BY <2>2 DEF PassOn
    <3>2. <<>> \in Seq(Task)
      OBVIOUS
    <3> QED BY <3>1, <3>2 DEF Single, ToSet
  <2> QED BY <2>1, <2>2
<1> HIDE DEF woken
<1>5. CASE place[t] = "acquire" /\ GoesOn(t, woken, "out", dq) /\ value' = value
  <2>1. /\ AsyncTypeOK' /\ LoopInv' /\ DequeInv' /\ Counts(t, woken, "out")
        /\ \E new : new # "result" /\ Moved(t, woken, "out", new)
        /\ \A u, v : Before(deque'["waiters"], u, v) =>
             Before(dq["waiters"], u, v) \/ (v = t /\ u # t)
    BY <1>1, <1>2, <1>4, <1>5, StepKeeps
  <2>2. t \notin Holders
    BY <1>5 DEF Holders
  <2>3. LockInv'
    BY <2>1, <2>2, <1>1, <1>2, <1>4, <1>5, LockStays
  <2>4. FairStep
    BY <2>1, <1>1, FairIs
  <2> QED BY <2>1, <2>3, <2>4, <1>1 DEF AsyncInv, OrderInv, PermitInv
<1>6. CASE place[t] = "reacquire" /\ AcquireLock(t, woken, "reacquire", dq)
  <2>1. t \notin Holders
    BY <1>6 DEF Holders
  <2> QED BY <2>1, <1>1, <1>2, <1>4, <1>6, AcquireLockStep
<1> QED BY <1>1, <1>5, <1>6

\* release(), by itself or in wait(), and notify() before it.
LEMMA ReleaseLockStep ==
  ASSUME AsyncInv, HasLock, NEW t \in Task, Begins(t), place[t] = "in", value' = 1,
         NEW few \in Seq(Task), Single(few),
         \A u \in ToSet(few) : u \in ToSet(deque["cond"]) /\ fut[u] = "pending",
         \/ GoesOn(t, few \o WakeFirst(deque.waiters), "out", deque)
         \/ /\ Awaits(t, few \o WakeFirst(deque.waiters), "wait", deque, "cond")
            /\ object = "Condition"
  PROVE  AsyncInv' /\ FairStep
<1> DEFINE first == WakeFirst(deque["waiters"])
           woken == few \o first
<1>1. /\ AsyncTypeOK /\ LoopInv /\ DequeInv /\ LockInv /\ object \in Objects
      /\ object # "Semaphore" /\ object # "Queue" /\ object' = object
      /\ 1 \in 0 .. Limit /\ "out" \in PlacesOf[object]
      /\ "waiters" \in Deques /\ "cond" \in Deques
      /\ deque.waiters = deque["waiters"]
      /\ DequeOf["wait"] = "cond" /\ "wait" \in DOMAIN DequeOf
  BY AsyncAssumption DEF AsyncInv, AsyncTypeOK, Begins, HasLock, PlacesOf, Deques, DequeOf
<1>2. Without(deque, t) /\ t \in Holders
  BY <1>1, WithoutIs DEF Holders
<1>3. /\ first \in Seq(Task) /\ Single(first)
      /\ \A u \in ToSet(first) : /\ u \in ToSet(deque["waiters"]) /\ fut[u] = "pending"
                                 /\ \A v : ~Before(deque["waiters"], v, u)
  <2>1. deque["waiters"] \in Seq(Task) /\ Single(deque["waiters"])
    BY <1>1 DEF AsyncTypeOK, DequeInv
  <2> QED BY <2>1, WakeFirstIs
<1>4. /\ \A u \in ToSet(few) : u \in Task /\ place[u] = "wait"
      /\ \A u \in ToSet(first) : u \in Task /\ place[u] \in {"acquire", "reacquire"}
  <2>1. ToSet(few) \subseteq Task /\ ToSet(first) \subseteq Task
    <3> HIDE DEF first
    <3> QED BY <1>3 DEF ToSet
  <2> QED BY <2>1, <1>1, <1>3 DEF DequeInv
<1> HIDE DEF first
<1>5. ToSet(few) \cap ToSet(first) = {}
  BY <1>4
<1>6. woken \in Seq(Task) /\ Single(woken) /\ ToSet(woken) = ToSet(few) \cup ToSet(first)
  BY <1>3, <1>5, ConcatIs
<1>7. \/ GoesOn(t, woken, "out", deque)
      \/ Awaits(t, woken, "wait", deque, DequeOf["wait"]) /\ object = "Condition"
  BY <1>1 DEF first
<1> HIDE DEF woken
<1>8. \A u \in ToSet(woken) :
        /\ fut[u] = "pending"
        /\ place[u] \in {"acquire", "reacquire"} => \A v : ~Before(deque["waiters"], v, u)
  BY <1>3, <1>4, <1>6
<1>9. PICK p \in {"out", "wait"} :
        /\ p \in PlacesOf[object]
        /\ \/ p \in {"out", "in"} /\ GoesOn(t, woken, p, deque)
           \/ p \in DOMAIN DequeOf /\ Awaits(t, woken, p, deque, DequeOf[p])
  <2>1. object = "Condition" => "wait" \in PlacesOf[object]
    BY DEF PlacesOf
  <2> QED BY <2>1, <1>1, <1>7
<1>10. /\ AsyncTypeOK' /\ LoopInv' /\ DequeInv' /\ Counts(t, woken, p)
       /\ \E new : new # "result" /\ Moved(t, woken, p, new)
       /\ \A u, v : Before(deque'["waiters"], u, v) =>
            Before(deque["waiters"], u, v) \/ (v = t /\ u # t)
  BY <1>1, <1>2, <1>6, <1>8, <1>9, StepKeeps
<1>11. p # "in"
  BY <1>9
<1>12. LockInv'
  BY <1>1, <1>2, <1>8, <1>10, <1>11, LockFrees
<1>13. FairStep
  BY <1>1, <1>10, <1>11, FairIs
<1> QED BY <1>1, <1>10, <1>12, <1>13 DEF AsyncInv, OrderInv, PermitInv

LEMMA LockStepKeeps ==
  ASSUME AsyncInv, NEW t \in Task, LockStep(t)
  PROVE  AsyncInv' /\ FairStep
<1>1. CASE Lock(t) \/ CondWoken(t)
  BY <1>1, LockStep1
<1>2. CASE Locked(t)
  BY <1>2, LockedStep
<1>3. CASE LockCancelled(t)
  BY <1>3, LockCancelledStep
<1>4. CASE \E n \in 0 .. Cardinality(Task) : Unlock(t, n)
  <2>1. PICK n \in 0 .. Cardinality(Task) : Unlock(t, n)
    BY <1>4
  <2>2. /\ HasLock /\ Begins(t) /\ place[t] = "in" /\ value' = 1
        /\ GoesOn(t, FirstFew(deque.cond, n) \o WakeFirst(deque.waiters), "out", deque)
    BY <2>1 DEF Unlock, Steps, Begins
  <2>3. n \in Nat /\ deque.cond \in Seq(Task) /\ Single(deque.cond) /\ deque.cond = deque["cond"]
    BY <2>1 DEF AsyncInv, AsyncTypeOK, DequeInv, Deques
  <2>4. /\ FirstFew(deque.cond, n) \in Seq(Task) /\ Single(FirstFew(deque.cond, n))
        /\ \A u \in ToSet(FirstFew(deque.cond, n)) :
             u \in ToSet(deque["cond"]) /\ fut[u] = "pending"
    BY <2>3, FirstFewIs
  <2> QED BY <2>2, <2>4, ReleaseLockStep
<1>5. CASE CondWait(t)
  <2>1. /\ HasLock /\ Begins(t) /\ place[t] = "in" /\ value' = 1 /\ object = "Condition"
        /\ Awaits(t, WakeFirst(deque.waiters), "wait", deque, "cond")
    BY <1>5 DEF CondWait, Steps, Begins, HasLock
  <2>2. <<>> \in Seq(Task) /\ Single(<<>>) /\ \A u \in ToSet(<<>>) : FALSE
    <3>1. <<>> \in Seq(Task)
      OBVIOUS
    <3> QED BY <3>1 DEF Single, ToSet
  <2>3. <<>> \o WakeFirst(deque.waiters) = WakeFirst(deque.waiters)
    <3>1. deque.waiters \in Seq(Task) /\ Single(deque.waiters)
      BY DEF AsyncInv, AsyncTypeOK, DequeInv, Deques
    <3>2. WakeFirst(deque.waiters) \in Seq(Task)
      BY <3>1, WakeFirstIs
    <3> QED BY <3>2, ConcatEmptySeq
  <2> QED BY <2>1, <2>2, <2>3, ReleaseLockStep
<1> QED BY <1>1, <1>2, <1>3, <1>4, <1>5 DEF LockStep

------------------------------------------------------------------------------
(* Semaphore                                                               *)

\* A step leaves the woken in the order of the deque if it wakes the first of it
\* that is not done.
LEMMA OrderStep ==
  ASSUME OrderInv, object = "Semaphore", object' = object,
         NEW t \in Task, NEW woken, NEW p, NEW new, new # "result", Moved(t, woken, p, new),
         NEW dq, Without(dq, t),
         \A u, v : Before(deque'["waiters"], u, v) =>
           Before(dq["waiters"], u, v) \/ (v = t /\ u # t),
         \A u \in ToSet(woken) :
           fut[u] = "pending" /\ \A v : Before(dq["waiters"], v, u) => fut[v] # "pending"
  PROVE  OrderInv'
<1> SUFFICES ASSUME NEW u \in Task, NEW v \in Task,
                    Before(deque'["waiters"], u, v), fut'[v] = "result"
             PROVE  fut'[u] # "pending" /\ (fut'[u] = "result" => Before(ready', u, v))
  BY DEF OrderInv
<1>1. /\ t \notin ToSet(woken)
      /\ fut'[u] = IF u \in ToSet(woken) THEN "result" ELSE IF u = t THEN new ELSE fut[u]
      /\ fut'[v] = IF v \in ToSet(woken) THEN "result" ELSE IF v = t THEN new ELSE fut[v]
      /\ u # t /\ (Before(ready, u, v) \/ (fut[u] # "pending" /\ v \in ToSet(woken)))
         => Before(ready', u, v)
  BY DEF Moved
<1>2. v # t /\ Before(dq["waiters"], u, v)
  BY <1>1
<1>3. u # t
  <2>1. dq["waiters"] \in Seq(Task) /\ "waiters" \in Deques
    BY DEF Without, GoodDeques, Deques
  <2>2. u \in ToSet(dq["waiters"])
    <3>1. DOMAIN dq["waiters"] = 1 .. Len(dq["waiters"])
      BY <2>1
    <3> QED BY <3>1, <1>2 DEF Before, ToSet
  <2> QED BY <2>1, <2>2 DEF Without
<1>4. fut[u] # "pending" /\ (fut[u] = "result" => Before(ready', u, v))
  <2>1. CASE v \in ToSet(woken)
    BY <2>1, <1>1, <1>2, <1>3
  <2>2. CASE v \notin ToSet(woken)
    <3>1. fut[v] = "result"
      BY <2>2, <1>1, <1>2
    <3>2. Before(deque["waiters"], u, v)
      BY <1>2 DEF Without, Deques
    <3>3. fut[u] # "pending" /\ (fut[u] = "result" => Before(ready, u, v))
      BY <3>1, <3>2 DEF OrderInv
    <3> QED BY <3>3, <1>1, <1>3
  <2> QED BY <2>1, <2>2
<1>5. fut'[u] = fut[u]
  BY <1>1, <1>3, <1>4
<1> QED BY <1>4, <1>5

\* How many hold the semaphore, and how many are woken, after a step of t.
LEMMA NumbersAre ==
  ASSUME NEW t \in Task, NEW woken, NEW p, Counts(t, woken, p),
         \/ woken = <<>>
         \/ \E u \in Task : woken = <<u>> /\ u # t /\ place[u] = "acquire" /\ fut[u] = "pending"
  PROVE  /\ Cardinality(Holders) \in Nat /\ Cardinality(Woken) \in Nat
         /\ Cardinality(Holders') = Cardinality(Holders)
              - (IF t \in Holders THEN 1 ELSE 0) + (IF p = "in" THEN 1 ELSE 0)
         /\ Cardinality(Woken') = Cardinality(Woken)
              - (IF t \in Woken THEN 1 ELSE 0) + Len(woken)
         /\ t \in Holders => Cardinality(Holders) > 0
         /\ t \in Woken => Cardinality(Woken) > 0
<1> DEFINE H == Holders \ {t}
           W == Woken \ {t}
<1>1. /\ Holders \subseteq Task /\ Woken \subseteq Task /\ IsFiniteSet(Task)
      /\ Holders' \subseteq Task /\ Woken' \subseteq Task
  BY AsyncAssumption DEF Holders, Woken
<1>2. /\ IsFiniteSet(Holders) /\ IsFiniteSet(Woken)
      /\ Cardinality(Holders) \in Nat /\ Cardinality(Woken) \in Nat
  BY <1>1, FS_Subset, FS_CardinalityType
<1>3. /\ IsFiniteSet(H) /\ Cardinality(H) = Cardinality(Holders) - (IF t \in Holders THEN 1 ELSE 0)
      /\ IsFiniteSet(W) /\ Cardinality(W) = Cardinality(Woken) - (IF t \in Woken THEN 1 ELSE 0)
  BY <1>2, FS_RemoveElement
<1>4. Cardinality(H) \in Nat /\ Cardinality(W) \in Nat
  BY <1>3, FS_CardinalityType
<1>5. Cardinality(Holders') = Cardinality(H) + (IF p = "in" THEN 1 ELSE 0)
  <2>1. CASE p = "in"
    <3>1. Holders' = H \cup {t} /\ t \notin H
      BY <2>1, <1>1 DEF Counts
    <3> QED BY <3>1, <2>1, <1>3, <1>4, FS_AddElement
  <2>2. CASE p # "in"
    <3>1. Holders' = H
      BY <2>2, <1>1 DEF Counts
    <3> QED BY <3>1, <2>2, <1>4
  <2> QED BY <2>1, <2>2
<1>6. Cardinality(Woken') = Cardinality(W) + Len(woken)
  <2>1. CASE woken = <<>>
    <3>1. ToSet(woken) = {} /\ Len(woken) = 0
      BY <2>1 DEF ToSet
    <3>2. Woken' = W
      BY <3>1, <1>1 DEF Counts
    <3> QED BY <3>1, <3>2, <1>4
  <2>2. CASE \E u \in Task : woken = <<u>> /\ u # t /\ place[u] = "acquire" /\ fut[u] = "pending"
    <3>1. PICK u \in Task : woken = <<u>> /\ u # t /\ place[u] = "acquire" /\ fut[u] = "pending"
      BY <2>2
    <3>2. ToSet(woken) = {u} /\ Len(woken) = 1
      BY <3>1 DEF ToSet
    <3>3. u \notin W
      BY <3>1 DEF Woken
    <3>4. Woken' = W \cup {u}
      BY <3>1, <3>2, <1>1 DEF Counts
    <3>5. Cardinality(W \cup {u}) = Cardinality(W) + 1
      BY <3>3, <1>3, FS_AddElement
    <3> QED BY <3>2, <3>4, <3>5
  <2> QED BY <2>1, <2>2
<1> HIDE DEF H, W
<1>7. /\ Cardinality(Holders') = Cardinality(Holders)
              - (IF t \in Holders THEN 1 ELSE 0) + (IF p = "in" THEN 1 ELSE 0)
      /\ Cardinality(Woken') = Cardinality(Woken)
              - (IF t \in Woken THEN 1 ELSE 0) + Len(woken)
  BY <1>3, <1>5, <1>6
<1>8. /\ t \in Holders => Cardinality(Holders) > 0
      /\ t \in Woken => Cardinality(Woken) > 0
  BY <1>2, <1>3, <1>4
<1> QED BY <1>2, <1>7, <1>8

\* A step of t that ends with v permits to give, of which it gives one to the first
\* of q that is not done.
LEMMA SemaphoreKeeps ==
  ASSUME AsyncInv, object = "Semaphore", NEW t \in Task, Begins(t),
         NEW dq, Without(dq, t), NEW q \in {<<>>, dq["waiters"]}, NEW p \in {"in", "out", "acquire"},
         \/ p \in {"out", "in"} /\ GoesOn(t, FirstOf(q), p, dq)
         \/ p = "acquire" /\ Awaits(t, FirstOf(q), p, dq, "waiters"),
         NEW v \in Nat, v = 0 => q = <<>>, value' = v - Len(FirstOf(q)),
         v + (IF p = "in" THEN 1 ELSE 0)
           = value + (IF t \in Holders THEN 1 ELSE 0) + (IF t \in Woken THEN 1 ELSE 0)
  PROVE  AsyncInv' /\ \E new : Moved(t, FirstOf(q), p, new)
<1> DEFINE woken == FirstOf(q)
<1>1. /\ AsyncTypeOK /\ LoopInv /\ DequeInv /\ OrderInv /\ PermitInv /\ object' = object
      /\ value \in 0 .. Limit /\ Limit \in Nat /\ "waiters" \in Deques
      /\ p \in PlacesOf[object]
      /\ DequeOf["acquire"] = "waiters" /\ "acquire" \in DOMAIN DequeOf
  BY AsyncAssumption DEF AsyncInv, AsyncTypeOK, Begins, Deques, DequeOf, PlacesOf
<1>2. /\ dq["waiters"] \in Seq(Task) /\ Single(dq["waiters"])
      /\ \A u \in Task : u \in ToSet(dq["waiters"]) <=> u \in ToSet(deque["waiters"]) /\ u # t
  BY <1>1 DEF Without, GoodDeques
<1>3. q \in Seq(Task) /\ Single(q)
  <2>1. <<>> \in Seq(Task) /\ Single(<<>>)
    <3>1. <<>> \in Seq(Task)
      OBVIOUS
    <3> QED BY <3>1 DEF Single
  <2> QED BY <2>1, <1>2
<1>4. \/ woken = <<>> /\ \A u \in ToSet(q) : fut[u] # "pending"
      \/ \E u \in Task :
           /\ woken = <<u>> /\ u \in ToSet(q) /\ fut[u] = "pending"
           /\ \A w : Before(q, w, u) => fut[w] # "pending"
  BY <1>3, FirstOfIs
<1>5. woken \in Seq(Task) /\ Single(woken) /\ \A u \in ToSet(woken) : fut[u] = "pending"
  BY <1>3, FirstOfIs
<1> HIDE DEF woken
<1>6. ASSUME NEW u \in Task, woken = <<u>>, u \in ToSet(q), fut[u] = "pending",
             \A w : Before(q, w, u) => fut[w] # "pending"
      PROVE  /\ u # t /\ place[u] = "acquire" /\ v >= 1 /\ Len(woken) = 1 /\ ToSet(woken) = {u}
             /\ \A w : Before(dq["waiters"], w, u) => fut[w] # "pending"
  <2>1. q # <<>>
    BY <1>6 DEF ToSet
  <2>2. q = dq["waiters"] /\ v >= 1
    BY <2>1
  <2>3. u # t /\ u \in ToSet(deque["waiters"])
    BY <2>2, <1>2, <1>6
  <2>4. place[u] = "acquire"
    BY <2>3, <1>1 DEF DequeInv, PlacesOf
  <2> QED BY <2>2, <2>3, <2>4, <1>6 DEF ToSet
<1>7. /\ \/ woken = <<>>
         \/ \E u \in Task : woken = <<u>> /\ u # t /\ place[u] = "acquire" /\ fut[u] = "pending"
      /\ Len(woken) \in Nat /\ Len(woken) <= v
      /\ \A u \in ToSet(woken) :
           fut[u] = "pending" /\ \A w : Before(dq["waiters"], w, u) => fut[w] # "pending"
  <2>1. CASE woken = <<>>
    BY <2>1, <1>5 DEF ToSet
  <2>2. CASE \E u \in Task :
           /\ woken = <<u>> /\ u \in ToSet(q) /\ fut[u] = "pending"
           /\ \A w : Before(q, w, u) => fut[w] # "pending"
    <3>1. PICK u \in Task :
           /\ woken = <<u>> /\ u \in ToSet(q) /\ fut[u] = "pending"
           /\ \A w : Before(q, w, u) => fut[w] # "pending"
      BY <2>2
    <3>2. /\ u # t /\ place[u] = "acquire" /\ v >= 1 /\ Len(woken) = 1 /\ ToSet(woken) = {u}
          /\ \A w : Before(dq["waiters"], w, u) => fut[w] # "pending"
      BY <3>1, <1>6
    <3> QED BY <3>1, <3>2
  <2> QED BY <2>1, <2>2, <1>4
<1>8. /\ Holders \subseteq Task /\ Woken \subseteq Task
      /\ value + Cardinality(Holders) + Cardinality(Woken) = Limit
      /\ value' = v - Len(woken)
  BY <1>1 DEF Holders, Woken, PermitInv, woken
<1>9. t \in Holders => t \notin Woken
  BY DEF Holders, Woken
<1>10. value' \in Nat
  BY <1>7, <1>8
<1>11. Cardinality(Holders) \in Nat /\ Cardinality(Woken) \in Nat
       /\ (t \in Holders => Cardinality(Holders) > 0)
       /\ (t \in Woken => Cardinality(Woken) > 0)
  <2>1. IsFiniteSet(Holders) /\ IsFiniteSet(Woken)
    BY <1>8, AsyncAssumption, FS_Subset
  <2>2. \A S : IsFiniteSet(S) /\ t \in S => Cardinality(S) # 0
    BY FS_EmptySet
  <2> QED BY <2>1, <2>2, FS_CardinalityType
<1>12. value' \in 0 .. Limit
  BY <1>1, <1>7, <1>8, <1>9, <1>10, <1>11
<1>13. /\ AsyncTypeOK' /\ LoopInv' /\ DequeInv' /\ Counts(t, woken, p)
       /\ \E new : new # "result" /\ Moved(t, woken, p, new)
       /\ \A u, w : Before(deque'["waiters"], u, w) =>
            Before(dq["waiters"], u, w) \/ (w = t /\ u # t)
  <2>1. \/ p \in {"out", "in"} /\ GoesOn(t, woken, p, dq)
        \/ p \in DOMAIN DequeOf /\ Awaits(t, woken, p, dq, DequeOf[p])
    BY <1>1 DEF woken
  <2>2. object # "Queue"
    OBVIOUS
  <2> QED BY <2>1, <2>2, <1>1, <1>5, <1>12, StepKeeps
<1>14. OrderInv'
  BY <1>1, <1>7, <1>13, OrderStep
<1>15. /\ Cardinality(Holders') = Cardinality(Holders)
              - (IF t \in Holders THEN 1 ELSE 0) + (IF p = "in" THEN 1 ELSE 0)
       /\ Cardinality(Woken') = Cardinality(Woken)
              - (IF t \in Woken THEN 1 ELSE 0) + Len(woken)
  BY <1>7, <1>13, NumbersAre
<1>16. value' + Cardinality(Holders') + Cardinality(Woken') = Limit
  <2> DEFINE h == Cardinality(Holders)
             k == Cardinality(Woken)
             l == Len(woken)
             a == IF t \in Holders THEN 1 ELSE 0
             b == IF t \in Woken THEN 1 ELSE 0
             c == IF p = "in" THEN 1 ELSE 0
             h1 == Cardinality(Holders')
             k1 == Cardinality(Woken')
  <2>1. /\ h \in Nat /\ k \in Nat /\ l \in Nat /\ a \in Nat /\ b \in Nat /\ c \in Nat
        /\ value \in Nat
    BY <1>11, <1>7, <1>1
  <2>2. h1 = h - a + c /\ k1 = k - b + l
    BY <1>15
  <2>3. value + h + k = Limit /\ value' = v - l /\ v + c = value + a + b
    BY <1>8
  <2> HIDE DEF h, k, l, a, b, c, h1, k1
  <2>4. v \in Nat /\ value + a + b = v + c
    BY <2>3
  <2>5. v - l + (h - a + c) + (k - b + l) = v + c - a - b + h + k
    BY <2>1, <2>4
  <2>6. v + c - a - b = value
    BY <2>1, <2>4
  <2>7. value' + h1 + k1 = Limit
    BY <2>2, <2>3, <2>5, <2>6
  <2> QED BY <2>7 DEF h1, k1
<1>17. PermitInv' /\ LockInv'
  BY <1>16, <1>1 DEF PermitInv, LockInv, HasLock
<1> QED BY <1>13, <1>14, <1>17 DEF AsyncInv, woken

LEMMA SemaphoreStepKeeps ==
  ASSUME AsyncInv, NEW t \in Task, SemaphoreStep(t)
  PROVE  AsyncInv' /\ FairStep
<1>1. /\ AsyncTypeOK /\ LoopInv /\ DequeInv /\ OrderInv /\ object = "Semaphore"
      /\ value \in Nat /\ "waiters" \in Deques /\ deque.waiters = deque["waiters"]
      /\ deque["waiters"] \in Seq(Task)
  BY AsyncAssumption DEF AsyncInv, AsyncTypeOK, SemaphoreStep, Deques
<1>2. FirstOf(<<>>) = <<>> /\ Len(<<>>) = 0
  <2>1. <<>> \in Seq(Task) /\ Single(<<>>)
    <3>1. <<>> \in Seq(Task)
      OBVIOUS
    <3> QED BY <3>1 DEF Single
  <2>2. ToSet(<<>>) = {}
    BY DEF ToSet
  <2> QED BY <2>1, <2>2, FirstOfIs
<1>3. CASE AcquireSemaphore(t)
  <2>1. place[t] = "out" /\ Begins(t)
    BY <1>3 DEF AcquireSemaphore, Steps, Begins
  <2>2. Without(deque, t) /\ t \notin Holders /\ t \notin Woken
    BY <2>1, <1>1, WithoutIs DEF Holders, Woken
  <2>3. CASE SemaphoreLocked
    <3>1. Awaits(t, FirstOf(<<>>), "acquire", deque, "waiters") /\ value' = value - Len(FirstOf(<<>>))
      BY <2>3, <1>1, <1>2, <1>3 DEF AcquireSemaphore
    <3>2. AsyncInv' /\ \E new : Moved(t, FirstOf(<<>>), "acquire", new)
      BY <3>1, <2>1, <2>2, <1>1, SemaphoreKeeps
    <3> QED BY <3>2, <1>1, FairIs
  <2>4. CASE ~SemaphoreLocked
    <3>1. /\ GoesOn(t, FirstOf(<<>>), "in", deque) /\ value' = value - 1
          /\ value # 0 /\ \A u \in ToSet(deque["waiters"]) : fut[u] = "cancelled"
      BY <2>4, <1>1, <1>2, <1>3 DEF AcquireSemaphore, SemaphoreLocked
    <3>2. value - 1 \in Nat /\ value' = (value - 1) - Len(FirstOf(<<>>))
      BY <3>1, <1>1, <1>2
    <3>3. AsyncInv' /\ \E new : Moved(t, FirstOf(<<>>), "in", new)
      BY <3>1, <3>2, <2>1, <2>2, <1>1, SemaphoreKeeps
    <3>4. \A u \in ToSet(deque["waiters"]) : Cancelled(u)
      BY <3>1 DEF Cancelled
    <3> QED BY <3>3, <3>4, <1>1, FairIs
  <2> QED BY <2>3, <2>4
<1>4. CASE Acquired(t)
  <2> DEFINE dq == Removed(t, "waiters")
             q == IF value > 0 THEN dq["waiters"] ELSE <<>>
  <2>1. /\ place[t] = "acquire" /\ Begins(t) /\ ~Cancelled(t) /\ Head(ready) = t /\ ready # <<>>
        /\ GoesOn(t, FirstOf(q), "in", dq) /\ value' = value - Len(FirstOf(q))
    BY <1>4 DEF Acquired, Steps, Begins, WakeNext
  <2>2. Without(dq, t) /\ q \in {<<>>, dq["waiters"]} /\ (value = 0 => q = <<>>)
    BY <2>1, <1>1, WithoutIs
  <2> HIDE DEF dq, q
  <2>3. fut[t] = "result"
    <3>1. ready \in Seq(Task) /\ Single(ready)
      BY <1>1 DEF AsyncTypeOK, LoopInv
    <3>2. t \in ToSet(ready)
      BY <2>1, <3>1, TailIs
    <3>3. fut[t] \in {"none", "pending", "result", "cancelled"}
      BY <1>1 DEF AsyncTypeOK
    <3> QED BY <3>2, <3>3, <2>1, <1>1 DEF LoopInv, Cancelled
  <2>4. t \in Woken /\ t \notin Holders
    BY <2>1, <2>3 DEF Woken, Holders
  <2>5. AsyncInv' /\ \E new : Moved(t, FirstOf(q), "in", new)
    BY <2>1, <2>2, <2>4, <1>1, SemaphoreKeeps
  <2>6. \A u \in Task : ~Before(ready, u, t)
    <3>1. /\ ready \in Seq(Task) /\ Len(ready) \in Nat /\ ready[1] = t /\ 1 \in 1 .. Len(ready)
          /\ \A i, j \in 1 .. Len(ready) : ready[i] = ready[j] => i = j
      BY <2>1, <1>1 DEF AsyncTypeOK, LoopInv, Single
    <3> QED BY <3>1 DEF Before
  <2>7. t \in ToSet(deque["waiters"])
    BY <2>1, <1>1 DEF DequeInv
  <2>8. ASSUME NEW u \in ToSet(deque["waiters"]), Before(deque["waiters"], u, t)
        PROVE  Cancelled(u)
    <3>1. u \in Task
      BY <1>1 DEF ToSet
    <3>2. fut[u] # "pending" /\ fut[u] # "result"
      BY <3>1, <2>3, <2>6, <2>8, <1>1 DEF OrderInv
    <3>3. fut[u] # "none"
      BY <3>1, <1>1 DEF DequeInv, LoopInv
    <3>4. fut[u] \in {"none", "pending", "result", "cancelled"}
      BY <3>1, <1>1 DEF AsyncTypeOK
    <3> QED BY <3>2, <3>3, <3>4 DEF Cancelled
  <2> QED BY <2>5, <2>7, <2>8, <1>1, FairIs
<1>5. CASE SemaphoreCancelled(t)
  <2> DEFINE dq == Removed(t, "waiters")
             q == IF WasWoken(t) THEN dq["waiters"] ELSE <<>>
             v == IF WasWoken(t) THEN value + 1 ELSE value
  <2>1. /\ place[t] = "acquire" /\ Begins(t) /\ ready # <<>> /\ Head(ready) = t
        /\ GoesOn(t, FirstOf(q), "out", dq) /\ value' = v - Len(FirstOf(q))
    BY <1>5 DEF SemaphoreCancelled, Steps, Begins, WakeNext
  <2>2. Without(dq, t) /\ q \in {<<>>, dq["waiters"]} /\ v \in Nat /\ (v = 0 => q = <<>>)
    BY <2>1, <1>1, WithoutIs
  <2>3. t \notin Holders /\ (t \in Woken <=> WasWoken(t))
    <3>1. ready \in Seq(Task) /\ Single(ready)
      BY <1>1 DEF AsyncTypeOK, LoopInv
    <3>2. t \in ToSet(ready)
      BY <2>1, <3>1, TailIs
    <3>3. fut[t] \in {"none", "pending", "result", "cancelled"}
      BY <1>1 DEF AsyncTypeOK
    <3> QED BY <3>2, <3>3, <2>1, <1>1 DEF LoopInv, Holders, Woken, WasWoken
  <2>4. v = value + (IF t \in Holders THEN 1 ELSE 0) + (IF t \in Woken THEN 1 ELSE 0)
    BY <2>3, <1>1
  <2> HIDE DEF dq, q, v
  <2>5. v + (IF "out" = "in" THEN 1 ELSE 0)
        = value + (IF t \in Holders THEN 1 ELSE 0) + (IF t \in Woken THEN 1 ELSE 0)
    BY <2>2, <2>4
  <2>6. AsyncInv' /\ \E new : Moved(t, FirstOf(q), "out", new)
    BY <2>1, <2>2, <2>5, <1>1, SemaphoreKeeps
  <2> QED BY <2>6, <1>1, FairIs
<1>6. CASE ReleaseSemaphore(t)
  <2>1. /\ place[t] = "in" /\ Begins(t)
        /\ GoesOn(t, FirstOf(deque["waiters"]), "out", deque)
        /\ value' = (value + 1) - Len(FirstOf(deque["waiters"]))
    BY <1>6, <1>1 DEF ReleaseSemaphore, Steps, Begins, WakeNext
  <2>2. Without(deque, t) /\ t \in Holders /\ t \notin Woken
    BY <2>1, <1>1, WithoutIs DEF Holders, Woken
  <2> DEFINE v == value + 1
  <2>3. /\ v \in Nat /\ v # 0
        /\ v + (IF "out" = "in" THEN 1 ELSE 0)
           = value + (IF t \in Holders THEN 1 ELSE 0) + (IF t \in Woken THEN 1 ELSE 0)
    BY <2>2, <1>1
  <2>4. value' = v - Len(FirstOf(deque["waiters"]))
    BY <2>1
  <2> HIDE DEF v
  <2>5. AsyncInv' /\ \E new : Moved(t, FirstOf(deque["waiters"]), "out", new)
    BY <2>1, <2>2, <2>3, <2>4, <1>1, SemaphoreKeeps
  <2> QED BY <2>5, <1>1, FairIs
<1> QED BY <1>3, <1>4, <1>5, <1>6 DEF SemaphoreStep

------------------------------------------------------------------------------
(* Queue                                                                   *)

\* A step of a Queue that wakes the first of the deque d, and takes those that
\* were in front of it off.
LEMMA WakeupStep ==
  ASSUME AsyncInv, object = "Queue", NEW t \in Task, Begins(t), NEW dq, Without(dq, t),
         NEW d \in {"getters", "putters"}, value' \in 0 .. Limit,
         GoesOn(t, FirstOf(dq[d]), "out", WakeupNext(dq, d))
  PROVE  AsyncInv' /\ FairStep
<1> DEFINE woken == FirstOf(dq[d])
           rest == AfterFirst(dq[d])
<1>1. /\ AsyncTypeOK /\ LoopInv /\ DequeInv /\ object' = object /\ object \in Objects
      /\ d \in Deques /\ Deques = {"waiters", "cond", "getters", "putters"}
      /\ "out" \in PlacesOf[object] /\ "out" \in Places
  BY DEF AsyncInv, AsyncTypeOK, Begins, Deques, PlacesOf, Places
<1>2. /\ dq \in [Deques -> Seq(Task)] /\ \A e \in Deques : Single(dq[e])
      /\ \A e \in Deques : \A u \in Task : u \in ToSet(dq[e]) <=> u \in ToSet(deque[e]) /\ u # t
  BY DEF Without, GoodDeques
<1>3. /\ woken \in Seq(Task) /\ Single(woken) /\ ToSet(woken) \subseteq ToSet(dq[d])
      /\ \A u \in ToSet(woken) : fut[u] = "pending"
      /\ rest \in Seq(Task) /\ Single(rest)
      /\ \A u : u \in ToSet(rest) => u \in ToSet(dq[d]) /\ u \notin ToSet(woken)
  <2>1. dq[d] \in Seq(Task) /\ Single(dq[d])
    BY <1>1, <1>2
  <2> QED BY <2>1, FirstOfIs
<1>4. /\ StepEnds(t, woken, "out", "none")
      /\ deque' = WakeupNext(dq, d)
  BY DEF GoesOn
<1>5. deque'[d] = rest /\ \A e \in Deques \ {d} : deque'[e] = dq[e]
  BY <1>1, <1>2, <1>4 DEF WakeupNext
<1>6. deque' \in [Deques -> Seq(Task)]
  <2>1. deque' = [e \in Deques |-> IF e = d THEN rest ELSE dq[e]]
    BY <1>1, <1>2, <1>4 DEF WakeupNext
  <2> HIDE DEF rest
  <2> QED BY <2>1, <1>2, <1>3
<1> HIDE DEF woken, rest
<1>7. GoodDeques(deque')
  BY <1>2, <1>3, <1>5, <1>6 DEF GoodDeques
<1>8. Moved(t, woken, "out", "none") /\ LoopInv'
  <2>1. /\ ready # <<>> /\ Head(ready) = t
        /\ must_cancel' = must_cancel \ {t} /\ UNCHANGED <<object, cancels>>
    BY DEF Begins
  <2> QED BY <2>1, <1>1, <1>3, <1>4, StepIs
<1>9. \A u \in ToSet(woken) : /\ d = "getters" => place[u] = "get"
                              /\ d = "putters" => place[u] = "put"
  <2> TAKE u \in ToSet(woken)
  <2>1. u \in Task
    BY <1>3 DEF ToSet
  <2>2. u \in ToSet(deque[d])
    BY <2>1, <1>1, <1>2, <1>3
  <2> QED BY <2>1, <2>2, <1>1 DEF DequeInv
<1>10. ASSUME NEW u \in Task
       PROVE  /\ u # t => \A e \in {"waiters", "cond"} :
                            u \in ToSet(deque'[e]) <=> u \in ToSet(deque[e])
              /\ \A e \in {"getters", "putters"} :
                   u \in ToSet(deque'[e])
                   => u # t /\ u \in ToSet(deque[e]) /\ u \notin ToSet(woken)
  <2>1. u # t => \A e \in {"waiters", "cond"} :
                   u \in ToSet(deque'[e]) <=> u \in ToSet(deque[e])
    BY <1>1, <1>2, <1>5
  <2>2. ASSUME NEW e \in {"getters", "putters"}, u \in ToSet(deque'[e])
        PROVE  u # t /\ u \in ToSet(deque[e]) /\ u \notin ToSet(woken)
    <3>1. CASE e = d
      BY <3>1, <2>2, <1>1, <1>2, <1>3, <1>5
    <3>2. CASE e # d
      <4>1. u \in ToSet(dq[e]) /\ u # t /\ u \in ToSet(deque[e])
        BY <3>2, <2>2, <1>1, <1>2, <1>5
      <4>2. /\ e = "getters" => place[u] = "get"
            /\ e = "putters" => place[u] = "put"
        BY <4>1, <1>1 DEF DequeInv
      <4> QED BY <4>1, <4>2, <3>2, <1>9
    <3> QED BY <3>1, <3>2
  <2> QED BY <2>1, <2>2
<1>11. t \notin ToSet(deque'["waiters"]) /\ t \notin ToSet(deque'["cond"])
  BY <1>1, <1>2, <1>5
<1>12. DequeInv'
  BY <1>1, <1>7, <1>8, <1>10, <1>11, DequeStep
<1>13. AsyncTypeOK'
  BY <1>1, <1>6, <1>8, TypeStep
<1>14. FairStep
  BY <1>1, <1>8, FairIs
<1>15. LockInv' /\ OrderInv' /\ PermitInv'
  BY <1>1 DEF LockInv, OrderInv, PermitInv, HasLock
<1> QED BY <1>8, <1>12, <1>13, <1>14, <1>15 DEF AsyncInv

\* A step of a Queue that wakes nobody.
LEMMA QuietStep ==
  ASSUME AsyncInv, object = "Queue", NEW t \in Task, Begins(t), NEW dq, Without(dq, t),
         value' = value,
         \/ GoesOn(t, <<>>, "out", dq)
         \/ Awaits(t, <<>>, "get", dq, "getters")
         \/ Awaits(t, <<>>, "put", dq, "putters")
  PROVE  AsyncInv' /\ FairStep
<1>1. /\ AsyncTypeOK /\ LoopInv /\ DequeInv /\ object' = object /\ value' \in 0 .. Limit
      /\ PlacesOf[object] = {"out", "get", "put"}
      /\ DequeOf["get"] = "getters" /\ DequeOf["put"] = "putters"
      /\ "get" \in DOMAIN DequeOf /\ "put" \in DOMAIN DequeOf
  BY DEF AsyncInv, AsyncTypeOK, Begins, PlacesOf, DequeOf
<1>2. /\ <<>> \in Seq(Task) /\ Single(<<>>) /\ ToSet(<<>>) = {}
  <2>1. <<>> \in Seq(Task)
    OBVIOUS
  <2> QED BY <2>1 DEF Single, ToSet
<1>3. PICK p \in {"out", "get", "put"} :
        \/ p \in {"out", "in"} /\ GoesOn(t, <<>>, p, dq)
        \/ p \in DOMAIN DequeOf /\ Awaits(t, <<>>, p, dq, DequeOf[p])
  BY <1>1
<1>4. /\ AsyncTypeOK' /\ LoopInv' /\ DequeInv'
      /\ \E new : new # "result" /\ Moved(t, <<>>, p, new)
  BY <1>1, <1>2, <1>3, StepKeeps
<1>5. p # "in"
  BY <1>3
<1>6. FairStep
  BY <1>1, <1>4, <1>5, FairIs
<1>7. LockInv' /\ OrderInv' /\ PermitInv'
  BY <1>1 DEF LockInv, OrderInv, PermitInv, HasLock
<1> QED BY <1>4, <1>6, <1>7 DEF AsyncInv

LEMMA QueueStepKeeps ==
  ASSUME AsyncInv, NEW t \in Task, QueueStep(t)
  PROVE  AsyncInv' /\ FairStep
<1>1. /\ AsyncTypeOK /\ LoopInv /\ DequeInv /\ object = "Queue" /\ value \in 0 .. Limit
      /\ Limit \in Nat
  BY AsyncAssumption DEF AsyncInv, AsyncTypeOK, QueueStep
<1>2. Begins(t) => fut[t] # "pending"
  <2>1. ready \in Seq(Task) /\ Single(ready)
    BY <1>1 DEF AsyncTypeOK, LoopInv
  <2>2. Begins(t) => t \in ToSet(ready)
    BY <2>1, TailIs DEF Begins
  <2> QED BY <2>2, <1>1 DEF LoopInv
<1>3. ASSUME NEW p \in {"get", "put"}, place[t] \in {"out", p}, Begins(t), ~Cancelled(t)
      PROVE  Without(deque, t)
  <2>1. place[t] = p => fut[t] = "result"
    <3>1. fut[t] \in {"none", "pending", "result", "cancelled"}
      BY <1>1 DEF AsyncTypeOK
    <3> QED BY <3>1, <1>1, <1>2, <1>3 DEF LoopInv, Cancelled
  <2> QED BY <2>1, <1>1, <1>3, WithoutIs
<1>4. CASE CallQueue(t, "get", "getters", "putters", Empty, value - 1)
  <2>1. /\ place[t] \in {"out", "get"} /\ Begins(t) /\ ~Cancelled(t)
        /\ \/ Awaits(t, <<>>, "get", deque, "getters") /\ value' = value
           \/ /\ value # 0 /\ value' = value - 1
              /\ GoesOn(t, FirstOf(deque["putters"]), "out", WakeupNext(deque, "putters"))
    BY <1>4 DEF CallQueue, Steps, Begins, Empty
  <2>2. Without(deque, t)
    BY <2>1, <1>3
  <2>3. value # 0 => value - 1 \in 0 .. Limit
    BY <1>1
  <2> QED BY <2>1, <2>2, <2>3, <1>1, QuietStep, WakeupStep
<1>5. CASE CallQueue(t, "put", "putters", "getters", Full, value + 1)
  <2>1. /\ place[t] \in {"out", "put"} /\ Begins(t) /\ ~Cancelled(t)
        /\ \/ Awaits(t, <<>>, "put", deque, "putters") /\ value' = value
           \/ /\ value # Limit /\ value' = value + 1
              /\ GoesOn(t, FirstOf(deque["getters"]), "out", WakeupNext(deque, "getters"))
    BY <1>5 DEF CallQueue, Steps, Begins, Full
  <2>2. Without(deque, t)
    BY <2>1, <1>3
  <2>3. value # Limit => value + 1 \in 0 .. Limit
    BY <1>1
  <2> QED BY <2>1, <2>2, <2>3, <1>1, QuietStep, WakeupStep
<1>6. ASSUME NEW p \in {"get", "put"}, NEW d \in {"getters", "putters"},
             p = "get" <=> d = "getters", NEW blocked, QueueCancelled(t, p, d, blocked)
      PROVE  AsyncInv' /\ FairStep
  <2> DEFINE dq == Removed(t, d)
  <2>1. /\ place[t] = p /\ Begins(t) /\ value' = value
        /\ \/ GoesOn(t, FirstOf(dq[d]), "out", WakeupNext(dq, d))
           \/ GoesOn(t, <<>>, "out", dq)
    BY <1>6 DEF QueueCancelled, Steps, Begins
  <2>2. Without(dq, t)
    BY <2>1, <1>1, <1>6, WithoutIs
  <2> HIDE DEF dq
  <2> QED BY <2>1, <2>2, <1>1, QuietStep, WakeupStep
<1>7. CASE QueueCancelled(t, "get", "getters", Empty)
  BY <1>6, <1>7
<1>8. CASE QueueCancelled(t, "put", "putters", Full)
  BY <1>6, <1>8
<1> QED BY <1>4, <1>5, <1>7, <1>8 DEF QueueStep

------------------------------------------------------------------------------
(* All steps                                                               *)

\* sleep(0)
LEMMA YieldStep ==
  ASSUME AsyncInv, NEW t \in Task, Yield(t)
  PROVE  AsyncInv' /\ FairStep
<1>1. /\ AsyncTypeOK /\ LoopInv /\ DequeInv /\ LockInv /\ object \in Objects
      /\ value \in 0 .. Limit /\ value \in Nat /\ "out" \in PlacesOf[object]
      /\ place[t] = "out" /\ Begins(t) /\ GoesOn(t, <<>>, "out", deque) /\ value' = value
      /\ object' = object
  BY AsyncAssumption DEF AsyncInv, AsyncTypeOK, Objects, PlacesOf, Yield, Steps, Begins
<1>2. Without(deque, t) /\ t \notin Holders /\ t \notin Woken
  BY <1>1, WithoutIs DEF Holders, Woken
<1>3. /\ <<>> \in Seq(Task) /\ Single(<<>>) /\ ToSet(<<>>) = {} /\ Len(<<>>) = 0
  <2>1. <<>> \in Seq(Task)
    OBVIOUS
  <2> QED BY <2>1 DEF Single, ToSet
<1>4. CASE object = "Queue"
  BY <1>1, <1>2, <1>4, QuietStep
<1>5. CASE object = "Semaphore"
  <2>1. FirstOf(<<>>) = <<>>
    BY <1>3, FirstOfIs
  <2>2. GoesOn(t, FirstOf(<<>>), "out", deque) /\ value' = value - Len(FirstOf(<<>>))
    BY <2>1, <1>1, <1>3
  <2>3. value + (IF "out" = "in" THEN 1 ELSE 0)
        = value + (IF t \in Holders THEN 1 ELSE 0) + (IF t \in Woken THEN 1 ELSE 0)
    BY <1>1, <1>2
  <2>4. AsyncInv' /\ \E new : Moved(t, FirstOf(<<>>), "out", new)
    BY <2>2, <2>3, <1>1, <1>2, <1>5, SemaphoreKeeps
  <2> QED BY <2>4, <1>1, FairIs
<1>6. CASE HasLock
  <2>1. /\ AsyncTypeOK' /\ LoopInv' /\ DequeInv' /\ Counts(t, <<>>, "out")
        /\ \E new : new # "result" /\ Moved(t, <<>>, "out", new)
        /\ \A u, v : Before(deque'["waiters"], u, v) =>
             Before(deque["waiters"], u, v) \/ (v = t /\ u # t)
    <3>1. object # "Queue"
      BY <1>6 DEF HasLock
    <3> QED BY <3>1, <1>1, <1>2, <1>3, StepKeeps
  <2>2. LockInv'
    BY <2>1, <1>1, <1>2, <1>3, <1>6, LockStays
  <2>3. FairStep
    BY <2>1, <1>1, FairIs
  <2>4. OrderInv' /\ PermitInv'
    BY <1>1, <1>6 DEF OrderInv, PermitInv, HasLock
  <2> QED BY <2>1, <2>2, <2>3, <2>4 DEF AsyncInv
<1> QED BY <1>1, <1>4, <1>5, <1>6 DEF HasLock, Objects

\* cancel() schedules the task, behind all others, or changes nothing but a flag.
LEMMA CancelStep ==
  ASSUME AsyncInv, NEW t \in Task, Cancel(t)
  PROVE  AsyncInv' /\ FairStep
<1>1. /\ AsyncTypeOK /\ LoopInv /\ DequeInv /\ LockInv /\ OrderInv /\ PermitInv
      /\ UNCHANGED <<object, place, deque, value>> /\ object \in Objects
  BY DEF AsyncInv, AsyncTypeOK, Cancel
<1>2. cancels' \in 0 .. MaxCancels[object]
  <2>1. MaxCancels[object] \in Nat /\ cancels \in 0 .. MaxCancels[object]
    BY <1>1, AsyncAssumption DEF AsyncTypeOK
  <2> QED BY <2>1 DEF Cancel
<1>3. FairStep
  BY <1>1 DEF FairStep
<1>4. CASE /\ fut[t] = "pending"
           /\ fut' = [fut EXCEPT ![t] = "cancelled"]
           /\ ready' = Append(ready, t)
           /\ UNCHANGED must_cancel
  <2>1. /\ ready \in Seq(Task) /\ Single(ready) /\ t \notin ToSet(ready)
    BY <1>1, <1>4 DEF AsyncTypeOK, LoopInv
  <2>2. /\ ready' \in Seq(Task) /\ Single(ready') /\ ToSet(ready') = ToSet(ready) \cup {t}
        /\ \A u, v : Before(ready, u, v) => Before(ready', u, v)
    BY <2>1, <1>4, AppendIs
  <2>3. /\ fut' \in [Task -> {"none", "pending", "result", "cancelled"}]
        /\ \A u \in Task : fut'[u] = IF u = t THEN "cancelled" ELSE fut[u]
    BY <1>1, <1>4 DEF AsyncTypeOK
  <2>4. IsInjective(ready')
    <3>1. DOMAIN ready' = 1 .. Len(ready')
      BY <2>2
    <3> QED BY <3>1, <2>2 DEF IsInjective, Single
  <2>5. AsyncTypeOK'
    BY <1>1, <1>2, <1>4, <2>2, <2>3, <2>4 DEF AsyncTypeOK
  <2>6. LoopInv'
    BY <1>1, <1>4, <2>2, <2>3 DEF LoopInv
  <2>7. DequeInv'
    BY <1>1, <2>3 DEF DequeInv
  <2>8. Holders' = Holders /\ Woken' = Woken
    BY <1>1, <1>4, <2>3 DEF Holders, Woken
  <2>9. LockInv' /\ PermitInv'
    BY <1>1, <2>8 DEF LockInv, PermitInv, HasLock
  <2>10. OrderInv'
    <3> SUFFICES ASSUME object = "Semaphore", NEW u \in Task, NEW v \in Task,
                        Before(deque["waiters"], u, v), fut'[v] = "result"
                 PROVE  fut'[u] # "pending" /\ (fut'[u] = "result" => Before(ready', u, v))
      BY <1>1 DEF OrderInv
    <3>1. fut[v] = "result"
      BY <2>3
    <3>2. fut[u] # "pending" /\ (fut[u] = "result" => Before(ready, u, v))
      BY <3>1, <1>1 DEF OrderInv
    <3> QED BY <3>2, <2>2, <2>3, <1>4
  <2> QED BY <1>3, <2>5, <2>6, <2>7, <2>9, <2>10 DEF AsyncInv
<1>5. CASE /\ fut[t] # "pending"
           /\ must_cancel' = must_cancel \cup {t}
           /\ UNCHANGED <<fut, ready>>
  <2>1. AsyncTypeOK'
    BY <1>1, <1>2, <1>5 DEF AsyncTypeOK
  <2>2. LoopInv' /\ DequeInv' /\ Holders' = Holders /\ Woken' = Woken
    BY <1>1, <1>5 DEF LoopInv, DequeInv, Holders, Woken
  <2>3. LockInv' /\ PermitInv' /\ OrderInv'
    BY <1>1, <1>5, <2>2 DEF LockInv, PermitInv, OrderInv, HasLock
  <2> QED BY <1>3, <2>1, <2>2, <2>3 DEF AsyncInv
<1> QED BY <1>4, <1>5 DEF Cancel

LEMMA AsyncInitial == AsyncInit => AsyncInv
<1> SUFFICES ASSUME AsyncInit PROVE AsyncInv
  OBVIOUS
<1>1. /\ object \in Objects /\ ready = SetToSeq(Task) /\ fut = [t \in Task |-> "none"]
      /\ must_cancel = {} /\ cancels = 0 /\ place = [t \in Task |-> "out"]
      /\ deque = [d \in Deques |-> <<>>] /\ value = InitialValue(object)
  BY DEF AsyncInit
<1>2. /\ ready \in Seq(Task) /\ IsInjective(ready) /\ Single(ready) /\ ToSet(ready) = Task
  <2> DEFINE n == Cardinality(Task)
  <2>1. n \in Nat /\ ExistsBijection(1 .. n, Task)
    BY AsyncAssumption, FS_CardinalityType
  <2>2. \E f \in [1 .. n -> Task] : IsInjective(f)
    BY <2>1 DEF ExistsBijection, Bijection, Injection
  <2>3. ready \in [1 .. n -> Task] /\ IsInjective(ready)
    BY <2>2, <1>1 DEF SetToSeq
  <2>4. IsFiniteSet(1 .. n) /\ Cardinality(1 .. n) = n
    BY <2>1, FS_Interval
  <2>5. ready \in Injection(1 .. n, Task)
    BY <2>3 DEF Injection
  <2>6. ready \in Surjection(1 .. n, Task)
    BY <2>5, <2>4, AsyncAssumption, FS_Injection
  <2> HIDE DEF n
  <2>7. ready \in Seq(Task) /\ Len(ready) = n /\ DOMAIN ready = 1 .. n
    BY <2>1, <2>3
  <2>8. Single(ready)
    BY <2>3, <2>7 DEF Single, IsInjective
  <2>9. ToSet(ready) = Task
    BY <2>3, <2>6, <2>7 DEF ToSet, Surjection
  <2> QED BY <2>3, <2>7, <2>8, <2>9
<1>3. /\ <<>> \in Seq(Task) /\ Single(<<>>) /\ ToSet(<<>>) = {} /\ \A x, y : ~Before(<<>>, x, y)
  <2>1. <<>> \in Seq(Task)
    OBVIOUS
  <2> QED BY <2>1 DEF Single, ToSet, Before
<1>4. value \in 0 .. Limit /\ 0 \in 0 .. MaxCancels[object]
  <2>1. MaxCancels[object] \in Nat
    BY <1>1, AsyncAssumption
  <2> QED BY <2>1, <1>1, AsyncAssumption DEF InitialValue
<1>5. /\ \A t \in Task : fut[t] = "none" /\ place[t] = "out"
      /\ \A d \in Deques : deque[d] = <<>>
      /\ Deques = {"waiters", "cond", "getters", "putters"}
  BY <1>1 DEF Deques
<1>6. AsyncTypeOK
  <2>1. fut \in [Task -> {"none", "pending", "result", "cancelled"}]
    BY <1>1
  <2>2. place \in [Task -> {"out", "in", "acquire", "wait", "reacquire", "get", "put"}]
    BY <1>1
  <2>3. deque \in [Deques -> Seq(Task)]
    BY <1>1, <1>3
  <2> QED BY <2>1, <2>2, <2>3, <1>1, <1>2, <1>4 DEF AsyncTypeOK
<1>7. LoopInv
  BY <1>2, <1>5 DEF LoopInv
<1>8. DequeInv
  BY <1>1, <1>3, <1>5 DEF DequeInv, PlacesOf, Objects
<1>9. Holders = {} /\ Woken = {}
  BY <1>5 DEF Holders, Woken
<1>10. LockInv
  <2>1. HasLock => value = 1
    BY <1>1 DEF HasLock, InitialValue
  <2> QED BY <2>1, <1>9 DEF LockInv
<1>11. OrderInv
  BY <1>3, <1>5 DEF OrderInv
<1>12. PermitInv
  <2>1. object = "Semaphore" => value = Limit
    BY <1>1 DEF InitialValue
  <2> QED BY <2>1, <1>9, FS_EmptySet, AsyncAssumption DEF PermitInv
<1> QED BY <1>6, <1>7, <1>8, <1>10, <1>11, <1>12 DEF AsyncInv

LEMMA AsyncStep == AsyncInv /\ [AsyncNext]_asyncVars => AsyncInv' /\ (FairStep \/ UNCHANGED asyncVars)
<1> SUFFICES ASSUME AsyncInv, [AsyncNext]_asyncVars
             PROVE  AsyncInv' /\ (FairStep \/ UNCHANGED asyncVars)
  OBVIOUS
<1>1. CASE RunOnce
  <2>1. PICK t \in Task : Yield(t) \/ LockStep(t) \/ SemaphoreStep(t) \/ QueueStep(t)
    BY <1>1 DEF RunOnce
  <2> QED BY <2>1, YieldStep, LockStepKeeps, SemaphoreStepKeeps, QueueStepKeeps
<1>2. CASE \E t \in Task : Cancel(t)
  BY <1>2, CancelStep
<1>3. CASE UNCHANGED asyncVars
  BY <1>3 DEF asyncVars, AsyncInv, AsyncTypeOK, LoopInv, DequeInv, LockInv, OrderInv,
              PermitInv, HasLock, Holders, Woken
<1> QED BY <1>1, <1>2, <1>3 DEF AsyncNext

LEMMA AsyncInvariant == AsyncSpec => []AsyncInv
<1>1. AsyncInv /\ [AsyncNext]_asyncVars => AsyncInv'
  BY AsyncStep
<1> QED BY <1>1, AsyncInitial, PTL DEF AsyncSpec

------------------------------------------------------------------------------
(* What is free is on its way to those that sleep                          *)

LockAwake ==
  HasLock /\ value = 1 /\ deque["waiters"] # <<>> => fut[deque["waiters"][1]] # "pending"

SemaphoreAwake ==
  object = "Semaphore" /\ value > 0 /\ Sleeping("acquire") # {} => WokenIn("acquire") # {}

\* Besides, those that sleep in a method of a Queue are in its deque.
QueueAwake ==
  object = "Queue" => /\ Sleeping("get") \subseteq ToSet(deque["getters"])
                      /\ Sleeping("put") \subseteq ToSet(deque["putters"])
                      /\ Suffices(value, "get") /\ Suffices(Limit - value, "put")

AwakeInv == LockAwake /\ SemaphoreAwake /\ QueueAwake

\* The places and the futures after a step of t, which is woken by nobody.
LEMMA EndsAre ==
  ASSUME AsyncInv, NEW t \in Task, Begins(t), NEW woken, \A u \in ToSet(woken) : fut[u] = "pending",
         NEW p, NEW new, StepEnds(t, woken, p, new)
  PROVE  /\ t \notin ToSet(woken) /\ fut[t] # "pending" /\ object' = object
         /\ \A u \in Task :
              /\ place'[u] = IF u = t THEN p ELSE place[u]
              /\ fut'[u] = IF u \in ToSet(woken) THEN "result" ELSE IF u = t THEN new ELSE fut[u]
<1>1. ready \in Seq(Task) /\ Single(ready) /\ LoopInv /\ place \in [Task -> Places]
  BY DEF AsyncInv, AsyncTypeOK, LoopInv, Places
<1>2. t \in ToSet(ready)
  BY <1>1, TailIs DEF Begins
<1>3. fut[t] # "pending" /\ t \notin ToSet(woken)
  BY <1>1, <1>2 DEF LoopInv
<1> QED BY <1>1, <1>3 DEF StepEnds, Begins

LEMMA ToSetConcat ==
  ASSUME NEW S, NEW r \in Seq(S), NEW s \in Seq(S)
  PROVE  ToSet(r \o s) = ToSet(r) \cup ToSet(s)
<1> DEFINE m == Len(r)
           n == Len(s)
<1>1. /\ m \in Nat /\ n \in Nat /\ r \o s \in Seq(S) /\ Len(r \o s) = m + n
      /\ \A i \in 1 .. m + n : (r \o s)[i] = IF i <= m THEN r[i] ELSE s[i - m]
  BY ConcatProperties
<1>2. /\ ToSet(r) = {r[i] : i \in 1 .. m} /\ ToSet(s) = {s[i] : i \in 1 .. n}
      /\ ToSet(r \o s) = {(r \o s)[i] : i \in 1 .. m + n}
  BY <1>1 DEF ToSet
<1> HIDE DEF m, n
<1>3. \A i \in 1 .. m : i \in 1 .. m + n /\ (r \o s)[i] = r[i]
  BY <1>1
<1>4. \A i \in 1 .. n : m + i \in 1 .. m + n /\ (r \o s)[m + i] = s[i]
  BY <1>1
<1>5. \A i \in 1 .. m + n : i \in 1 .. m \/ (i - m \in 1 .. n /\ m + (i - m) = i)
  BY <1>1
<1>6. ASSUME NEW i \in 1 .. m + n PROVE (r \o s)[i] \in ToSet(r) \cup ToSet(s)
  <2>1. CASE i \in 1 .. m
    BY <2>1, <1>2, <1>3
  <2>2. CASE i - m \in 1 .. n /\ m + (i - m) = i
    <3>1. (r \o s)[m + (i - m)] = s[i - m]
      BY <2>2, <1>4
    <3> QED BY <2>2, <3>1, <1>2
  <2> QED BY <2>1, <2>2, <1>5
<1> QED BY <1>2, <1>3, <1>4, <1>6

\* WakeFirst() leaves no pending future at the front.
LEMMA FrontIsDone ==
  ASSUME NEW q \in Seq(Task), q # <<>>
  PROVE  q[1] \in ToSet(WakeFirst(q)) \/ fut[q[1]] # "pending"
<1>1. DOMAIN q = 1 .. Len(q) /\ Len(q) \in Nat /\ Len(q) > 0
  BY EmptySeq
<1>2. CASE 1 \in NotDone(q)
  <2>1. WakeFirst(q) = <<q[1]>>
    BY <1>2 DEF WakeFirst
  <2> QED BY <2>1 DEF ToSet
<1>3. CASE 1 \notin NotDone(q)
  BY <1>1, <1>3 DEF NotDone
<1> QED BY <1>2, <1>3

\* Who is in front is not pending after a step that wakes it, if it was.
LEMMA FrontStays ==
  ASSUME AsyncInv, NEW t \in Task, Begins(t), NEW woken, \A u \in ToSet(woken) : fut[u] = "pending",
         NEW p, NEW new, StepEnds(t, woken, p, new), NEW dq, Without(dq, t),
         dq["waiters"] # <<>> =>
           dq["waiters"][1] \in ToSet(woken) \/ fut[dq["waiters"][1]] # "pending"
  PROVE  dq["waiters"] # <<>> => fut'[dq["waiters"][1]] # "pending"
<1> DEFINE q == dq["waiters"]
<1>1. /\ q \in Seq(Task) /\ "waiters" \in Deques
      /\ \A u \in Task : u \in ToSet(q) => u # t
  BY DEF Without, GoodDeques, Deques
<1> SUFFICES ASSUME q # <<>> PROVE fut'[q[1]] # "pending"
  OBVIOUS
<1>2. q[1] \in Task /\ q[1] # t
  <2>1. 1 \in DOMAIN q /\ q[1] \in Task
    BY <1>1, EmptySeq
  <2>2. q[1] \in ToSet(q)
    BY <2>1 DEF ToSet
  <2> QED BY <2>1, <2>2, <1>1
<1> QED BY <1>2, EndsAre

\* acquire() as far as its await.
LEMMA AcquireAwake ==
  ASSUME AsyncInv, HasLock, NEW t \in Task, Begins(t),
         NEW woken, \A u \in ToSet(woken) : fut[u] = "pending", NEW dq, Without(dq, t), NEW p,
         value = 1 /\ dq["waiters"] # <<>> =>
           dq["waiters"][1] \in ToSet(woken) \/ fut[dq["waiters"][1]] # "pending",
         AcquireLock(t, woken, p, dq)
  PROVE  LockAwake'
<1>1. /\ dq.waiters = dq["waiters"] /\ "waiters" \in Deques
      /\ dq["waiters"] \in Seq(Task) /\ dq \in [Deques -> Seq(Task)]
  BY DEF Without, GoodDeques, Deques
<1>2. CASE FreeLock(dq["waiters"])
  BY <1>1, <1>2 DEF AcquireLock, LockAwake
<1>3. CASE ~FreeLock(dq["waiters"])
  <2> SUFFICES ASSUME value' = 1 PROVE fut'[deque'["waiters"][1]] # "pending"
    BY DEF LockAwake
  <2>1. /\ value = 1 /\ StepEnds(t, woken, p, "pending")
        /\ deque' = [dq EXCEPT !["waiters"] = Append(@, t)]
    BY <1>1, <1>3 DEF AcquireLock, Awaits
  <2>2. dq["waiters"] # <<>>
    BY <1>3, <2>1 DEF FreeLock, ToSet
  <2>3. deque'["waiters"] = Append(dq["waiters"], t)
    BY <2>1, <1>1
  <2>4. deque'["waiters"][1] = dq["waiters"][1]
    BY <2>2, <2>3, <1>1, EmptySeq
  <2> QED BY <2>1, <2>2, <2>4, FrontStays
<1> QED BY <1>2, <1>3

LEMMA LockStepAwake ==
  ASSUME AsyncInv, LockAwake, NEW t \in Task, LockStep(t)
  PROVE  LockAwake'
<1>1. /\ AsyncTypeOK /\ LoopInv /\ DequeInv /\ deque.waiters = deque["waiters"]
      /\ "waiters" \in Deques /\ "cond" \in Deques /\ place[t] \in PlacesOf[object]
      /\ deque \in [Deques -> Seq(Task)]
  BY DEF AsyncInv, AsyncTypeOK, DequeInv, Deques
<1>2. ToSet(<<>>) = {}
  BY DEF ToSet
<1>3. CASE Lock(t)
  <2>1. HasLock /\ place[t] = "out" /\ Begins(t) /\ AcquireLock(t, <<>>, "acquire", deque)
    BY <1>3 DEF Lock, Steps, Begins
  <2>2. Without(deque, t)
    BY <2>1, <1>1, WithoutIs
  <2> QED BY <2>1, <2>2, <1>2, AcquireAwake DEF LockAwake
<1>4. CASE CondWoken(t)
  <2> DEFINE dq == Removed(t, "cond")
  <2>1. place[t] = "wait" /\ Begins(t) /\ AcquireLock(t, <<>>, "reacquire", dq)
    BY <1>4 DEF CondWoken, Steps, Begins
  <2>2. HasLock
    <3>1. object \in Objects /\ "wait" \in PlacesOf[object]
      BY <2>1, <1>1 DEF AsyncTypeOK
    <3>2. object = "Condition"
      BY <3>1 DEF PlacesOf, Objects
    <3> QED BY <3>2 DEF HasLock
  <2>3. Without(dq, t) /\ dq["waiters"] = deque["waiters"]
    BY <2>1, <1>1, WithoutIs DEF Removed
  <2> QED BY <2>1, <2>2, <2>3, <1>2, AcquireAwake DEF LockAwake
<1>5. CASE Locked(t)
  BY <1>5 DEF Locked, LockAwake
<1>6. CASE LockCancelled(t)
  <2> DEFINE dq == Removed(t, "waiters")
             woken == PassOn(dq.waiters)
  <2>1. /\ HasLock /\ Begins(t)
        /\ \/ place[t] = "acquire" /\ GoesOn(t, woken, "out", dq) /\ value' = value
           \/ place[t] = "reacquire" /\ AcquireLock(t, woken, "reacquire", dq)
    BY <1>6 DEF LockCancelled, Steps, Begins
  <2>2. Without(dq, t)
    BY <2>1, <1>1, WithoutIs
  <2>3. dq["waiters"] \in Seq(Task) /\ Single(dq["waiters"]) /\ dq.waiters = dq["waiters"]
    BY <2>2, <1>1 DEF Without, GoodDeques
  <2> HIDE DEF dq
  <2>4. /\ \A u \in ToSet(woken) : fut[u] = "pending"
        /\ value = 1 /\ dq["waiters"] # <<>> =>
             dq["waiters"][1] \in ToSet(woken) \/ fut[dq["waiters"][1]] # "pending"
    <3>1. CASE value = 1
      BY <3>1, <2>3, WakeFirstIs, FrontIsDone DEF PassOn
    <3>2. CASE value # 1
      BY <3>2, <1>2 DEF PassOn
    <3> QED BY <3>1, <3>2
  <2> HIDE DEF woken
  <2>5. CASE GoesOn(t, woken, "out", dq) /\ value' = value
    <3>1. StepEnds(t, woken, "out", "none") /\ deque' = dq
      BY <2>5 DEF GoesOn
    <3> QED BY <3>1, <2>1, <2>2, <2>4, <2>5, FrontStays DEF LockAwake
  <2>6. CASE AcquireLock(t, woken, "reacquire", dq)
    BY <2>1, <2>2, <2>4, <2>6, AcquireAwake
  <2> QED BY <2>1, <2>5, <2>6
<1>7. ASSUME NEW few \in Seq(Task), \A u \in ToSet(few) : fut[u] = "pending",
             NEW p, NEW new, place[t] = "in", Begins(t),
             StepEnds(t, few \o WakeFirst(deque["waiters"]), p, new),
             deque'["waiters"] = deque["waiters"]
      PROVE  LockAwake'
  <2> DEFINE first == WakeFirst(deque["waiters"])
  <2>1. deque["waiters"] \in Seq(Task) /\ Single(deque["waiters"])
    BY <1>1 DEF DequeInv
  <2>2. /\ first \in Seq(Task) /\ \A u \in ToSet(first) : fut[u] = "pending"
        /\ deque["waiters"] # <<>> =>
             deque["waiters"][1] \in ToSet(first) \/ fut[deque["waiters"][1]] # "pending"
    BY <2>1, WakeFirstIs, FrontIsDone
  <2> HIDE DEF first
  <2>3. ToSet(few \o first) = ToSet(few) \cup ToSet(first)
    BY <2>2, ToSetConcat
  <2>4. Without(deque, t)
    BY <1>7, <1>1, WithoutIs
  <2>5. \A u \in ToSet(few \o first) : fut[u] = "pending"
    BY <2>2, <2>3, <1>7
  <2>6. StepEnds(t, few \o first, p, new)
    BY <1>7 DEF first
  <2> QED BY <2>2, <2>3, <2>4, <2>5, <2>6, <1>7, FrontStays DEF LockAwake
<1>8. CASE \E n \in 0 .. Cardinality(Task) : Unlock(t, n)
  <2>1. PICK n \in 0 .. Cardinality(Task) : Unlock(t, n)
    BY <1>8
  <2>2. /\ Begins(t) /\ place[t] = "in" /\ deque' = deque
        /\ StepEnds(t, FirstFew(deque.cond, n) \o WakeFirst(deque.waiters), "out", "none")
    BY <2>1 DEF Unlock, Steps, Begins, GoesOn
  <2>3. n \in Nat /\ deque.cond \in Seq(Task) /\ Single(deque.cond)
    BY <2>1, <1>1 DEF DequeInv, Deques
  <2>4. /\ FirstFew(deque.cond, n) \in Seq(Task)
        /\ \A u \in ToSet(FirstFew(deque.cond, n)) : fut[u] = "pending"
    BY <2>3, FirstFewIs
  <2> QED BY <2>2, <2>4, <1>1, <1>7
<1>9. CASE CondWait(t)
  <2>1. /\ Begins(t) /\ place[t] = "in"
        /\ StepEnds(t, WakeFirst(deque["waiters"]), "wait", "pending")
        /\ deque' = [deque EXCEPT !["cond"] = Append(@, t)]
    BY <1>9, <1>1 DEF CondWait, Steps, Begins, Awaits
  <2>2. deque["waiters"] \in Seq(Task) /\ Single(deque["waiters"])
    BY <1>1 DEF DequeInv
  <2>3. <<>> \o WakeFirst(deque["waiters"]) = WakeFirst(deque["waiters"])
    BY <2>2, WakeFirstIs, ConcatEmptySeq
  <2>4. <<>> \in Seq(Task) /\ deque'["waiters"] = deque["waiters"]
    BY <2>1, <1>1
  <2> QED BY <2>1, <2>3, <2>4, <1>2, <1>7
<1> QED BY <1>3, <1>4, <1>5, <1>6, <1>8, <1>9 DEF LockStep

\* Who sleeps at s, and who was woken there, after a step of t.
LEMMA SleepersAre ==
  ASSUME AsyncInv, NEW t \in Task, Begins(t), NEW woken, \A u \in ToSet(woken) : fut[u] = "pending",
         NEW p, NEW new, new # "result", StepEnds(t, woken, p, new), NEW s
  PROVE  /\ \A u \in Task : u \in WokenIn(s)' <=>
              u # t /\ (u \in WokenIn(s) \/ (u \in ToSet(woken) /\ place[u] = s))
         /\ \A u \in Task : u \in Sleeping(s)' <=>
              \/ u # t /\ u \in Sleeping(s) /\ u \notin ToSet(woken)
              \/ u = t /\ p = s /\ new = "pending"
<1>1. /\ t \notin ToSet(woken)
      /\ \A u \in Task :
           /\ place'[u] = IF u = t THEN p ELSE place[u]
           /\ fut'[u] = IF u \in ToSet(woken) THEN "result" ELSE IF u = t THEN new ELSE fut[u]
  BY EndsAre
<1>2. \A u \in Task : u \in WokenIn(s)' <=>
        u # t /\ (u \in WokenIn(s) \/ (u \in ToSet(woken) /\ place[u] = s))
  BY <1>1 DEF WokenIn
<1>3. \A u \in Task : u \in Sleeping(s)' <=>
        \/ u # t /\ u \in Sleeping(s) /\ u \notin ToSet(woken)
        \/ u = t /\ p = s /\ new = "pending"
  BY <1>1 DEF Sleeping
<1> QED BY <1>2, <1>3

\* A step that wakes the first of a semaphore's deque leaves nobody asleep there, or
\* somebody woken.
LEMMA FirstIsWoken ==
  ASSUME AsyncInv, object = "Semaphore", NEW t \in Task, Begins(t), NEW dq, Without(dq, t),
         NEW p \in {"in", "out"}, GoesOn(t, FirstOf(dq["waiters"]), p, dq)
  PROVE  SemaphoreAwake'
<1> DEFINE q == dq["waiters"]
           woken == FirstOf(q)
<1>1. /\ q \in Seq(Task) /\ Single(q) /\ "waiters" \in Deques /\ DequeInv
      /\ \A u \in Task : u \in ToSet(q) <=> u \in ToSet(deque["waiters"]) /\ u # t
  BY DEF Without, GoodDeques, Deques, AsyncInv
<1> HIDE DEF q
<1>2. /\ \A u \in ToSet(woken) : fut[u] = "pending"
      /\ \/ woken = <<>> /\ \A u \in ToSet(q) : fut[u] # "pending"
         \/ \E u \in Task : woken = <<u>> /\ u \in ToSet(q) /\ fut[u] = "pending"
  BY <1>1, FirstOfIs
<1>3. StepEnds(t, woken, p, "none")
  BY DEF GoesOn, q
<1> HIDE DEF woken
<1>4. /\ \A u \in Task : u \in WokenIn("acquire")' <=>
           u # t /\ (u \in WokenIn("acquire") \/ (u \in ToSet(woken) /\ place[u] = "acquire"))
      /\ \A u \in Task : u \in Sleeping("acquire")' =>
           u # t /\ u \in Sleeping("acquire") /\ u \notin ToSet(woken)
  BY <1>2, <1>3, SleepersAre
<1>5. CASE \E u \in Task : woken = <<u>> /\ u \in ToSet(q) /\ fut[u] = "pending"
  <2>1. PICK u \in Task : woken = <<u>> /\ u \in ToSet(q) /\ fut[u] = "pending"
    BY <1>5
  <2>2. u \in ToSet(woken)
    BY <2>1 DEF ToSet
  <2>3. u # t /\ place[u] = "acquire"
    BY <2>1, <1>1 DEF DequeInv, PlacesOf
  <2>4. u \in WokenIn("acquire")'
    BY <1>4, <2>2, <2>3
  <2> QED BY <2>4 DEF SemaphoreAwake
<1>6. CASE \A u \in ToSet(q) : fut[u] # "pending"
  <2>1. ASSUME NEW u \in Sleeping("acquire")' PROVE FALSE
    <3>1. u \in Task
      BY <2>1 DEF Sleeping
    <3>2. u # t /\ place[u] = "acquire" /\ fut[u] = "pending"
      BY <3>1, <2>1, <1>4 DEF Sleeping
    <3>3. u \in ToSet(q)
      BY <3>1, <3>2, <1>1 DEF DequeInv
    <3> QED BY <3>2, <3>3, <1>6
  <2> QED BY <2>1 DEF SemaphoreAwake
<1> QED BY <1>2, <1>5, <1>6

LEMMA SemaphoreStepAwake ==
  ASSUME AsyncInv, SemaphoreAwake, NEW t \in Task, SemaphoreStep(t)
  PROVE  SemaphoreAwake'
<1>1. /\ AsyncTypeOK /\ LoopInv /\ DequeInv /\ object = "Semaphore" /\ value \in Nat
      /\ deque.waiters = deque["waiters"]
      /\ \A u \in Task : u \in ToSet(deque["waiters"]) <=> place[u] = "acquire"
      /\ \A u \in Task : fut[u] \in Outcomes
  <2>1. object = "Semaphore" /\ AsyncTypeOK /\ LoopInv /\ DequeInv
    BY DEF AsyncInv, SemaphoreStep
  <2>2. \A u \in Task : u \in ToSet(deque["waiters"]) <=> place[u] = "acquire"
    BY <2>1 DEF DequeInv, PlacesOf
  <2> QED BY <2>1, <2>2, AsyncAssumption DEF AsyncTypeOK, Outcomes
<1>2. ToSet(<<>>) = {}
  BY DEF ToSet
<1>3. FirstOf(<<>>) = <<>> /\ Len(<<>>) = 0
  <2>1. <<>> \in Seq(Task) /\ Single(<<>>)
    <3>1. <<>> \in Seq(Task)
      OBVIOUS
    <3> QED BY <3>1 DEF Single
  <2> QED BY <2>1, <1>2, FirstOfIs
<1>4. CASE AcquireSemaphore(t)
  <2>1. place[t] = "out" /\ Begins(t)
    BY <1>4 DEF AcquireSemaphore, Steps, Begins
  <2>2. CASE SemaphoreLocked
    <3>1. StepEnds(t, <<>>, "acquire", "pending") /\ value' = value
      BY <2>2, <1>4 DEF AcquireSemaphore, Awaits
    <3>2. \A u \in WokenIn("acquire") : u \in WokenIn("acquire")'
      <4>1. \A u \in Task : u \in WokenIn("acquire") /\ u # t => u \in WokenIn("acquire")'
        BY <3>1, <2>1, <1>2, SleepersAre
      <4> QED BY <4>1, <2>1 DEF WokenIn
    <3>3. value = 0 \/ Sleeping("acquire") # {} \/ WokenIn("acquire") # {}
      <4>1. CASE value # 0
        <5>1. PICK u \in ToSet(deque["waiters"]) : fut[u] # "cancelled"
          BY <4>1, <2>2, <1>1 DEF SemaphoreLocked
        <5>2. u \in Task
          BY <5>1, <1>1 DEF AsyncTypeOK, ToSet, Deques
        <5>3. place[u] = "acquire" /\ fut[u] \in {"pending", "result"}
          BY <5>1, <5>2, <1>1 DEF LoopInv, Outcomes
        <5> QED BY <5>2, <5>3 DEF Sleeping, WokenIn
      <4> QED BY <4>1
    <3> QED BY <3>1, <3>2, <3>3, <1>1 DEF SemaphoreAwake
  <2>3. CASE ~SemaphoreLocked
    <3>1. StepEnds(t, <<>>, "in", "none")
      BY <2>3, <1>4 DEF AcquireSemaphore, GoesOn
    <3>2. \A u \in Task : u \in Sleeping("acquire")' => u # t /\ u \in Sleeping("acquire")
      BY <3>1, <2>1, <1>2, SleepersAre
    <3>3. Sleeping("acquire")' = {}
      BY <3>2, <2>3, <1>1 DEF Sleeping, SemaphoreLocked
    <3> QED BY <3>3 DEF SemaphoreAwake
  <2> QED BY <2>2, <2>3
<1>5. CASE Acquired(t)
  <2> DEFINE dq == Removed(t, "waiters")
  <2>1. /\ place[t] = "acquire" /\ Begins(t)
        /\ GoesOn(t, FirstOf(IF value > 0 THEN dq["waiters"] ELSE <<>>), "in", dq)
        /\ value' = value - Len(FirstOf(IF value > 0 THEN dq["waiters"] ELSE <<>>))
    BY <1>5 DEF Acquired, Steps, Begins, WakeNext
  <2>2. Without(dq, t)
    BY <2>1, <1>1, WithoutIs
  <2> HIDE DEF dq
  <2>3. CASE value > 0
    BY <2>1, <2>2, <2>3, <1>1, FirstIsWoken
  <2>4. CASE ~(value > 0)
    <3>1. value' = 0
      BY <2>1, <2>4, <1>1, <1>3
    <3> QED BY <3>1 DEF SemaphoreAwake
  <2> QED BY <2>3, <2>4
<1>6. CASE SemaphoreCancelled(t)
  <2> DEFINE dq == Removed(t, "waiters")
  <2>1. /\ place[t] = "acquire" /\ Begins(t)
        /\ GoesOn(t, FirstOf(IF WasWoken(t) THEN dq["waiters"] ELSE <<>>), "out", dq)
        /\ ~WasWoken(t) => value' = value - Len(FirstOf(<<>>))
    BY <1>6 DEF SemaphoreCancelled, Steps, Begins, WakeNext
  <2>2. Without(dq, t)
    BY <2>1, <1>1, WithoutIs
  <2> HIDE DEF dq
  <2>3. CASE WasWoken(t)
    BY <2>1, <2>2, <2>3, <1>1, FirstIsWoken
  <2>4. CASE ~WasWoken(t)
    <3>1. StepEnds(t, <<>>, "out", "none") /\ value' = value /\ fut[t] = "cancelled"
      BY <2>1, <2>4, <1>1, <1>3 DEF GoesOn, WasWoken
    <3>2. /\ \A u \in Task : u \in WokenIn("acquire") /\ u # t => u \in WokenIn("acquire")'
          /\ \A u \in Task : u \in Sleeping("acquire")' => u \in Sleeping("acquire")
      BY <3>1, <2>1, <1>2, SleepersAre
    <3>3. /\ \A u \in WokenIn("acquire") : u \in WokenIn("acquire")'
          /\ \A u \in Sleeping("acquire")' : u \in Sleeping("acquire")
      BY <3>1, <3>2 DEF WokenIn, Sleeping
    <3> QED BY <3>1, <3>3, <1>1 DEF SemaphoreAwake
  <2> QED BY <2>3, <2>4
<1>7. CASE ReleaseSemaphore(t)
  <2>1. place[t] = "in" /\ Begins(t) /\ GoesOn(t, FirstOf(deque["waiters"]), "out", deque)
    BY <1>7, <1>1 DEF ReleaseSemaphore, Steps, Begins
  <2>2. Without(deque, t)
    BY <2>1, <1>1, WithoutIs
  <2> QED BY <2>1, <2>2, <1>1, FirstIsWoken
<1> QED BY <1>4, <1>5, <1>6, <1>7 DEF SemaphoreStep

\* Pending futures are woken by _wakeup_next(), or stay in the deque.
LEMMA AfterFirstIs ==
  ASSUME NEW q \in Seq(Task), Single(q), NEW v \in ToSet(q), fut[v] = "pending"
  PROVE  v \in ToSet(FirstOf(q)) \/ v \in ToSet(AfterFirst(q))
<1> DEFINE n == Len(q)
           m == Min(NotDone(q))
           r == AfterFirst(q)
<1>1. n \in Nat /\ DOMAIN q = 1 .. n /\ \A i \in 1 .. n : q[i] \in Task
  OBVIOUS
<1>2. PICK k \in 1 .. n : q[k] = v
  BY <1>1 DEF ToSet
<1>3. k \in NotDone(q) /\ NotDone(q) \in SUBSET Nat
  BY <1>1, <1>2 DEF NotDone
<1>4. m \in 1 .. n /\ m <= k
  BY <1>1, <1>3, LeastIs DEF NotDone
<1>5. FirstOf(q) = <<q[m]>> /\ r = SubSeq(q, m + 1, n)
  BY <1>3 DEF FirstOf, AfterFirst
<1> HIDE DEF n, m, r
<1>6. CASE m = k
  BY <1>2, <1>5, <1>6 DEF ToSet
<1>7. CASE m # k
  <2>1. m + 1 \in Int /\ n \in Int /\ m + 1 <= n /\ \A i \in m + 1 .. n : q[i] \in Task
    BY <1>1, <1>2, <1>4, <1>7
  <2>2. /\ r \in Seq(Task) /\ Len(r) = n - (m + 1) + 1
        /\ \A i \in 1 .. n - (m + 1) + 1 : r[i] = q[m + 1 + i - 1]
    BY <2>1, <1>5, SubSeqProperties
  <2>3. k - m \in 1 .. n - (m + 1) + 1 /\ m + 1 + (k - m) - 1 = k
    BY <1>1, <1>2, <1>4, <1>7
  <2>4. r[k - m] = v /\ k - m \in DOMAIN r
    BY <2>2, <2>3, <1>2
  <2> QED BY <2>4 DEF ToSet, r
<1> QED BY <1>6, <1>7

\* As many are woken at s as there is something for, after a step of t that takes
\* one at most, if somebody is woken for what it adds.
LEMMA SufficesStep ==
  ASSUME AsyncInv, NEW t \in Task, Begins(t), NEW woken, \A u \in ToSet(woken) : fut[u] = "pending",
         NEW p, NEW new, new # "result", StepEnds(t, woken, p, new),
         NEW s, NEW n \in Int, NEW m \in Int, Suffices(n, s),
         \/ m <= 0
         \/ p # s /\ m <= n - (IF t \in WokenIn(s) THEN 1 ELSE 0)
         \/ p # s /\ m <= n - (IF t \in WokenIn(s) THEN 1 ELSE 0) + 1
            /\ (Sleeping(s)' # {} => \E u \in Task \cap ToSet(woken) : place[u] = s)
  PROVE  Sleeping(s)' # {} => m <= Cardinality(WokenIn(s)')
<1> DEFINE W == WokenIn(s) \ {t}
           a == IF t \in WokenIn(s) THEN 1 ELSE 0
<1>1. /\ \A u \in Task : u \in WokenIn(s)' <=>
           u # t /\ (u \in WokenIn(s) \/ (u \in ToSet(woken) /\ place[u] = s))
      /\ \A u \in Task : u \in Sleeping(s)' <=>
           \/ u # t /\ u \in Sleeping(s) /\ u \notin ToSet(woken)
           \/ u = t /\ p = s /\ new = "pending"
      /\ t \notin ToSet(woken)
  BY SleepersAre, EndsAre
<1>2. /\ WokenIn(s) \subseteq Task /\ WokenIn(s)' \subseteq Task /\ Sleeping(s)' \subseteq Task
      /\ IsFiniteSet(Task)
  BY AsyncAssumption DEF WokenIn, Sleeping
<1>3. /\ IsFiniteSet(WokenIn(s)) /\ IsFiniteSet(WokenIn(s)')
      /\ Cardinality(WokenIn(s)) \in Nat /\ Cardinality(WokenIn(s)') \in Nat
  BY <1>2, FS_Subset, FS_CardinalityType
<1>4. IsFiniteSet(W) /\ Cardinality(W) = Cardinality(WokenIn(s)) - a /\ a \in {0, 1}
  BY <1>3, FS_RemoveElement
<1>5. W \subseteq WokenIn(s)'
  BY <1>1, <1>2
<1>6. Cardinality(W) <= Cardinality(WokenIn(s)')
  BY <1>3, <1>5, FS_Subset
<1> SUFFICES ASSUME Sleeping(s)' # {}, ~(m <= 0) PROVE m <= Cardinality(WokenIn(s)')
  BY <1>3
<1>7. p # s => n <= Cardinality(WokenIn(s))
  <2>1. p # s => Sleeping(s) # {}
    BY <1>1, <1>2
  <2> QED BY <2>1 DEF Suffices
<1>8. CASE p # s /\ m <= n - a
  <2> HIDE DEF W, a
  <2> QED BY <1>3, <1>4, <1>6, <1>7, <1>8
<1>9. CASE p # s /\ m <= n - a + 1 /\ \E u \in Task \cap ToSet(woken) : place[u] = s
  <2>1. PICK u \in Task \cap ToSet(woken) : place[u] = s
    BY <1>9
  <2>2. u \in WokenIn(s)' /\ u \notin W
    BY <1>1, <2>1 DEF WokenIn
  <2>3. IsFiniteSet(W \cup {u}) /\ Cardinality(W \cup {u}) = Cardinality(W) + 1
    BY <2>2, <1>4, FS_AddElement
  <2>4. Cardinality(W \cup {u}) <= Cardinality(WokenIn(s)')
    <3>1. W \cup {u} \subseteq WokenIn(s)'
      BY <1>5, <2>2
    <3> QED BY <3>1, <1>3, FS_Subset
  <2> HIDE DEF W, a
  <2> QED BY <2>3, <2>4, <1>3, <1>4, <1>7, <1>9
<1> QED BY <1>8, <1>9

\* Who still sleeps after _wakeup_next() of the deque d is in a deque; and somebody
\* was woken if anybody sleeps whose deque is d.
LEMMA WakeupAwake ==
  ASSUME AsyncInv, QueueAwake, object = "Queue", NEW t \in Task, Begins(t), NEW dq, Without(dq, t),
         NEW d \in {"getters", "putters"}, GoesOn(t, FirstOf(dq[d]), "out", WakeupNext(dq, d))
  PROVE  /\ StepEnds(t, FirstOf(dq[d]), "out", "none")
         /\ \A u \in ToSet(FirstOf(dq[d])) : fut[u] = "pending"
         /\ Sleeping("get")' \subseteq ToSet(deque'["getters"])
         /\ Sleeping("put")' \subseteq ToSet(deque'["putters"])
         /\ \A s \in {"get", "put"} : (s = "get" <=> d = "getters") /\ Sleeping(s)' # {} =>
              \E u \in Task \cap ToSet(FirstOf(dq[d])) : place[u] = s
<1> DEFINE q == dq[d]
           woken == FirstOf(q)
<1>1. /\ q \in Seq(Task) /\ Single(q) /\ d \in Deques /\ DequeInv
      /\ Deques = {"waiters", "cond", "getters", "putters"}
      /\ dq \in [Deques -> Seq(Task)]
      /\ \A e \in Deques : \A u \in Task : u \in ToSet(dq[e]) <=> u \in ToSet(deque[e]) /\ u # t
  BY DEF Without, GoodDeques, Deques, AsyncInv
<1>2. StepEnds(t, woken, "out", "none") /\ deque' = WakeupNext(dq, d)
  BY DEF GoesOn
<1>3. deque'[d] = AfterFirst(q) /\ \A e \in Deques \ {d} : deque'[e] = dq[e]
  BY <1>1, <1>2 DEF WakeupNext
<1> HIDE DEF q
<1>4. /\ \A u \in ToSet(woken) : fut[u] = "pending"
      /\ ToSet(woken) \subseteq ToSet(q)
      /\ \A u \in ToSet(q) : fut[u] = "pending" => u \in ToSet(woken) \/ u \in ToSet(AfterFirst(q))
      /\ \/ \A u \in ToSet(q) : fut[u] # "pending"
         \/ \E u \in Task : woken = <<u>> /\ u \in ToSet(q)
  BY <1>1, FirstOfIs, AfterFirstIs
<1> HIDE DEF woken
<1>5. ASSUME NEW s \in {"get", "put"}, NEW u \in Sleeping(s)'
      PROVE  u \in Task /\ u # t /\ u \in Sleeping(s) /\ u \notin ToSet(woken)
  <2>1. u \in Task
    BY <1>5 DEF Sleeping
  <2> QED BY <2>1, <1>2, <1>4, <1>5, SleepersAre
<1>6. ASSUME NEW s \in {"get", "put"}, NEW e \in {"getters", "putters"}, s = "get" <=> e = "getters",
             NEW u \in Sleeping(s)'
      PROVE  u \in ToSet(dq[e]) /\ fut[u] = "pending" /\ u \in ToSet(deque'[e])
  <2>1. u \in Task /\ u # t /\ u \in Sleeping(s) /\ u \notin ToSet(woken)
    BY <1>5
  <2>2. u \in ToSet(deque[e]) /\ fut[u] = "pending" /\ e \in Deques
    BY <2>1, <1>1, <1>6 DEF QueueAwake, Sleeping
  <2>3. u \in ToSet(dq[e])
    BY <2>1, <2>2, <1>1
  <2>4. CASE e = d
    BY <2>1, <2>2, <2>3, <2>4, <1>3, <1>4 DEF q
  <2>5. CASE e # d
    BY <2>2, <2>3, <2>5, <1>3
  <2> QED BY <2>2, <2>3, <2>4, <2>5
<1>7. Sleeping("get")' \subseteq ToSet(deque'["getters"])
  BY <1>6
<1>8. Sleeping("put")' \subseteq ToSet(deque'["putters"])
  BY <1>6
<1>9. ASSUME NEW s \in {"get", "put"}, s = "get" <=> d = "getters", Sleeping(s)' # {}
      PROVE  \E u \in Task \cap ToSet(woken) : place[u] = s
  <2>1. PICK v \in Sleeping(s)' : TRUE
    BY <1>9
  <2>2. v \in ToSet(q) /\ fut[v] = "pending"
    BY <2>1, <1>6, <1>9 DEF q
  <2>3. PICK u \in Task : woken = <<u>> /\ u \in ToSet(q)
    BY <2>2, <1>4
  <2>4. u \in ToSet(woken) /\ u \in ToSet(deque[d])
    <3>1. u \in ToSet(woken)
      BY <2>3 DEF ToSet
    <3> QED BY <3>1, <2>3, <1>1 DEF q
  <2>5. place[u] = s
    BY <2>4, <1>1, <1>9 DEF DequeInv
  <2> QED BY <2>4, <2>5
<1> QED BY <1>2, <1>4, <1>7, <1>8, <1>9 DEF woken, q

\* A step that wakes nobody, of a task that finds nothing if it was woken or waits.
LEMMA QuietAwake ==
  ASSUME AsyncInv, QueueAwake, object = "Queue", NEW t \in Task, Begins(t), NEW dq, Without(dq, t),
         value' = value,
         t \in WokenIn("get") => value = 0, t \in WokenIn("put") => value = Limit,
         \/ GoesOn(t, <<>>, "out", dq)
         \/ Awaits(t, <<>>, "get", dq, "getters") /\ value = 0
         \/ Awaits(t, <<>>, "put", dq, "putters") /\ value = Limit
  PROVE  QueueAwake'
<1>1. /\ value \in Int /\ Limit \in Int /\ object' = object
      /\ Deques = {"waiters", "cond", "getters", "putters"}
      /\ \A e \in Deques : \A u \in Task : u \in ToSet(dq[e]) <=> u \in ToSet(deque[e]) /\ u # t
  BY AsyncAssumption DEF AsyncInv, AsyncTypeOK, Begins, Deques, Without
<1>2. \A u \in ToSet(<<>>) : FALSE
  BY DEF ToSet
<1>3. PICK p \in {"out", "get", "put"}, new \in {"none", "pending"} :
        /\ StepEnds(t, <<>>, p, new)
        /\ p = "get" => value = 0
        /\ p = "put" => value = Limit
        /\ \/ p = "out" /\ new = "none" /\ deque' = dq
           \/ p = "get" /\ deque' = Joined(dq, t, "getters")
           \/ p = "put" /\ deque' = Joined(dq, t, "putters")
  BY DEF GoesOn, Awaits, Joined
<1>4. \A s, u : u \in Sleeping(s)' =>
        u \in Task /\ ((u # t /\ u \in Sleeping(s)) \/ (u = t /\ p = s /\ new = "pending"))
  <2> TAKE s, u
  <2> HAVE u \in Sleeping(s)'
  <2>1. u \in Task
    BY DEF Sleeping
  <2> QED BY <2>1, <1>2, <1>3, SleepersAre
<1>5. ASSUME NEW s \in {"get", "put"}, NEW e \in {"getters", "putters"}, s = "get" <=> e = "getters",
             NEW u \in Sleeping(s)'
      PROVE  u \in ToSet(deque'[e])
  <2>1. u \in Task /\ ((u # t /\ u \in Sleeping(s)) \/ (u = t /\ p = s /\ new = "pending"))
    BY <1>4
  <2>2. u # t => u \in ToSet(deque[e])
    BY <2>1, <1>5 DEF QueueAwake
  <2>3. CASE p = "out" /\ deque' = dq
    BY <2>1, <2>2, <2>3, <1>1
  <2>4. ASSUME NEW f \in {"getters", "putters"}, p = "get" <=> f = "getters",
               p # "out", deque' = Joined(dq, t, f)
        PROVE  u \in ToSet(deque'[e])
    <3>1. u \in ToSet(Joined(dq, t, f)[e])
                 <=> (u \in ToSet(deque[e]) /\ u # t) \/ (e = f /\ u = t)
      BY <2>1, <1>1, AppendedIs
    <3>2. u = t => e = f
      BY <2>1, <2>4, <1>5
    <3> QED BY <3>1, <3>2, <2>2, <2>4
  <2> QED BY <2>3, <2>4, <1>3
<1>6. Sleeping("get")' \subseteq ToSet(deque'["getters"])
  BY <1>5
<1>7. Sleeping("put")' \subseteq ToSet(deque'["putters"])
  BY <1>5
<1>8. Suffices(value, "get") /\ Suffices(Limit - value, "put")
  BY DEF QueueAwake
<1>9. Sleeping("get")' # {} => value <= Cardinality(WokenIn("get")')
  <2>1. value <= 0 \/ (p # "get" /\ value <= value - (IF t \in WokenIn("get") THEN 1 ELSE 0))
    BY <1>1, <1>3
  <2> QED BY <2>1, <1>1, <1>2, <1>3, <1>8, SufficesStep
<1>10. Sleeping("put")' # {} => Limit - value <= Cardinality(WokenIn("put")')
  <2> DEFINE n == Limit - value
  <2>1. /\ n \in Int
        /\ n <= 0 \/ (p # "put" /\ n <= n - (IF t \in WokenIn("put") THEN 1 ELSE 0))
    BY <1>1, <1>3
  <2>2. Suffices(n, "put")
    BY <1>8
  <2> HIDE DEF n
  <2>3. Sleeping("put")' # {} => n <= Cardinality(WokenIn("put")')
    BY <2>1, <2>2, <1>2, <1>3, SufficesStep
  <2> QED BY <2>3 DEF n
<1> QED BY <1>1, <1>6, <1>7, <1>9, <1>10 DEF QueueAwake, Suffices

LEMMA QueueStepAwake ==
  ASSUME AsyncInv, QueueAwake, NEW t \in Task, QueueStep(t)
  PROVE  QueueAwake'
<1>1. /\ AsyncTypeOK /\ LoopInv /\ DequeInv /\ object = "Queue" /\ value \in Nat /\ Limit \in Nat
      /\ fut[t] \in Outcomes /\ Suffices(value, "get") /\ Suffices(Limit - value, "put")
      /\ fut[t] = "none" <=> place[t] \in {"out", "in"}
  <2>1. object = "Queue" /\ AsyncTypeOK /\ LoopInv /\ DequeInv
    BY DEF AsyncInv, QueueStep
  <2> QED BY <2>1, AsyncAssumption DEF AsyncTypeOK, LoopInv, Outcomes, QueueAwake
<1>2. Begins(t) => fut[t] # "pending" /\ object' = object
  <2>1. ready \in Seq(Task) /\ Single(ready)
    BY <1>1 DEF AsyncTypeOK, LoopInv
  <2>2. Begins(t) => t \in ToSet(ready)
    BY <2>1, TailIs DEF Begins
  <2> QED BY <2>2, <1>1 DEF LoopInv, Begins
<1>3. /\ t \in WokenIn("get") => place[t] = "get" /\ fut[t] = "result"
      /\ t \in WokenIn("put") => place[t] = "put" /\ fut[t] = "result"
  BY DEF WokenIn
<1>4. ASSUME NEW p \in {"get", "put"}, place[t] \in {"out", p}, Begins(t), ~Cancelled(t)
      PROVE  Without(deque, t)
  <2>1. place[t] = p => fut[t] = "result"
    BY <1>1, <1>2, <1>4 DEF Outcomes, Cancelled
  <2> QED BY <2>1, <1>1, <1>4, WithoutIs
\* The step wakes from d what waits at s, and takes one of the others, at p.
<1>5. ASSUME NEW dq, Without(dq, t), Begins(t),
             NEW d \in {"getters", "putters"}, NEW s \in {"get", "put"}, s = "get" <=> d = "getters",
             GoesOn(t, FirstOf(dq[d]), "out", WakeupNext(dq, d)),
             NEW n \in Int, NEW m \in Int, Suffices(n, s),
             m <= n - (IF t \in WokenIn(s) THEN 1 ELSE 0) + 1,
             NEW r \in {"get", "put"}, r # s, NEW k \in Int, NEW l \in Int, Suffices(k, r),
             l <= k - (IF t \in WokenIn(r) THEN 1 ELSE 0)
      PROVE  /\ Sleeping("get")' \subseteq ToSet(deque'["getters"])
             /\ Sleeping("put")' \subseteq ToSet(deque'["putters"])
             /\ Sleeping(s)' # {} => m <= Cardinality(WokenIn(s)')
             /\ Sleeping(r)' # {} => l <= Cardinality(WokenIn(r)')
  <2> DEFINE woken == FirstOf(dq[d])
  <2>1. /\ StepEnds(t, woken, "out", "none")
        /\ \A u \in ToSet(woken) : fut[u] = "pending"
        /\ Sleeping("get")' \subseteq ToSet(deque'["getters"])
        /\ Sleeping("put")' \subseteq ToSet(deque'["putters"])
        /\ Sleeping(s)' # {} => \E u \in Task \cap ToSet(woken) : place[u] = s
    BY <1>1, <1>5, WakeupAwake
  <2> HIDE DEF woken
  <2>2. "out" # s /\ "out" # r /\ "none" # "result"
    OBVIOUS
  <2>3. Sleeping(s)' # {} => m <= Cardinality(WokenIn(s)')
    BY <2>1, <2>2, <1>5, SufficesStep
  <2>4. Sleeping(r)' # {} => l <= Cardinality(WokenIn(r)')
    BY <2>1, <2>2, <1>5, SufficesStep
  <2> QED BY <2>1, <2>3, <2>4
<1>6. CASE CallQueue(t, "get", "getters", "putters", Empty, value - 1)
  <2>1. /\ place[t] \in {"out", "get"} /\ Begins(t) /\ ~Cancelled(t)
        /\ \/ Awaits(t, <<>>, "get", deque, "getters") /\ value' = value /\ value = 0
           \/ /\ value' = value - 1
              /\ GoesOn(t, FirstOf(deque["putters"]), "out", WakeupNext(deque, "putters"))
    BY <1>6 DEF CallQueue, Steps, Begins, Empty
  <2>2. Without(deque, t) /\ t \notin WokenIn("put")
    BY <2>1, <1>3, <1>4
  <2>3. CASE Awaits(t, <<>>, "get", deque, "getters") /\ value' = value /\ value = 0
    BY <2>1, <2>2, <2>3, <1>1, QuietAwake
  <2>4. CASE /\ value' = value - 1
             /\ GoesOn(t, FirstOf(deque["putters"]), "out", WakeupNext(deque, "putters"))
    <3> DEFINE n == Limit - value
               m == Limit - (value - 1)
               l == value - 1
    <3>1. /\ n \in Int /\ m \in Int /\ value \in Int /\ l \in Int /\ Suffices(n, "put")
          /\ m <= n - (IF t \in WokenIn("put") THEN 1 ELSE 0) + 1
          /\ l <= value - (IF t \in WokenIn("get") THEN 1 ELSE 0)
          /\ value' = l /\ Limit - value' = m
      BY <1>1, <2>2, <2>4
    <3> HIDE DEF n, m, l
    <3>2. /\ Sleeping("get")' \subseteq ToSet(deque'["getters"])
          /\ Sleeping("put")' \subseteq ToSet(deque'["putters"])
          /\ Sleeping("put")' # {} => m <= Cardinality(WokenIn("put")')
          /\ Sleeping("get")' # {} => l <= Cardinality(WokenIn("get")')
      BY <3>1, <2>1, <2>2, <2>4, <1>1, <1>5
    <3> QED BY <3>1, <3>2, <1>1, <1>2, <2>1 DEF QueueAwake, Suffices
  <2> QED BY <2>1, <2>3, <2>4
<1>7. CASE CallQueue(t, "put", "putters", "getters", Full, value + 1)
  <2>1. /\ place[t] \in {"out", "put"} /\ Begins(t) /\ ~Cancelled(t)
        /\ \/ Awaits(t, <<>>, "put", deque, "putters") /\ value' = value /\ value = Limit
           \/ /\ value' = value + 1
              /\ GoesOn(t, FirstOf(deque["getters"]), "out", WakeupNext(deque, "getters"))
    BY <1>7 DEF CallQueue, Steps, Begins, Full
  <2>2. Without(deque, t) /\ t \notin WokenIn("get")
    BY <2>1, <1>3, <1>4
  <2>3. CASE Awaits(t, <<>>, "put", deque, "putters") /\ value' = value /\ value = Limit
    BY <2>1, <2>2, <2>3, <1>1, QuietAwake
  <2>4. CASE /\ value' = value + 1
             /\ GoesOn(t, FirstOf(deque["getters"]), "out", WakeupNext(deque, "getters"))
    <3> DEFINE k == Limit - value
               l == Limit - (value + 1)
               m == value + 1
    <3>1. /\ k \in Int /\ m \in Int /\ value \in Int /\ l \in Int /\ Suffices(k, "put")
          /\ m <= value - (IF t \in WokenIn("get") THEN 1 ELSE 0) + 1
          /\ l <= k - (IF t \in WokenIn("put") THEN 1 ELSE 0)
          /\ value' = m /\ Limit - value' = l
      BY <1>1, <2>2, <2>4
    <3> HIDE DEF k, m, l
    <3>2. /\ Sleeping("get")' \subseteq ToSet(deque'["getters"])
          /\ Sleeping("put")' \subseteq ToSet(deque'["putters"])
          /\ Sleeping("get")' # {} => m <= Cardinality(WokenIn("get")')
          /\ Sleeping("put")' # {} => l <= Cardinality(WokenIn("put")')
      BY <3>1, <2>1, <2>2, <2>4, <1>1, <1>5
    <3> QED BY <3>1, <3>2, <1>1, <1>2, <2>1 DEF QueueAwake, Suffices
  <2> QED BY <2>1, <2>3, <2>4
<1>8. CASE QueueCancelled(t, "get", "getters", Empty)
  <2> DEFINE dq == Removed(t, "getters")
  <2>1. /\ place[t] = "get" /\ Begins(t) /\ value' = value
        /\ \/ GoesOn(t, FirstOf(dq["getters"]), "out", WakeupNext(dq, "getters"))
           \/ GoesOn(t, <<>>, "out", dq) /\ (value = 0 \/ fut[t] = "cancelled")
    BY <1>8 DEF QueueCancelled, Steps, Begins, WasWoken, Empty
  <2>2. Without(dq, t) /\ t \notin WokenIn("put")
    BY <2>1, <1>1, <1>3, WithoutIs
  <2> HIDE DEF dq
  <2>3. CASE GoesOn(t, <<>>, "out", dq) /\ (value = 0 \/ fut[t] = "cancelled")
    BY <2>1, <2>2, <2>3, <1>1, <1>3, QuietAwake
  <2>4. CASE GoesOn(t, FirstOf(dq["getters"]), "out", WakeupNext(dq, "getters"))
    <3> DEFINE k == Limit - value
    <3>1. /\ k \in Int /\ value \in Int /\ Suffices(k, "put") /\ Limit - value' = k
          /\ value <= value - (IF t \in WokenIn("get") THEN 1 ELSE 0) + 1
          /\ k <= k - (IF t \in WokenIn("put") THEN 1 ELSE 0)
      BY <1>1, <2>1, <2>2
    <3> HIDE DEF k
    <3>2. /\ Sleeping("get")' \subseteq ToSet(deque'["getters"])
          /\ Sleeping("put")' \subseteq ToSet(deque'["putters"])
          /\ Sleeping("get")' # {} => value <= Cardinality(WokenIn("get")')
          /\ Sleeping("put")' # {} => k <= Cardinality(WokenIn("put")')
      BY <3>1, <2>1, <2>2, <2>4, <1>1, <1>5
    <3> QED BY <3>1, <3>2, <1>1, <1>2, <2>1 DEF QueueAwake, Suffices
  <2> QED BY <2>1, <2>3, <2>4
<1>9. CASE QueueCancelled(t, "put", "putters", Full)
  <2> DEFINE dq == Removed(t, "putters")
  <2>1. /\ place[t] = "put" /\ Begins(t) /\ value' = value
        /\ \/ GoesOn(t, FirstOf(dq["putters"]), "out", WakeupNext(dq, "putters"))
           \/ GoesOn(t, <<>>, "out", dq) /\ (value = Limit \/ fut[t] = "cancelled")
    BY <1>9 DEF QueueCancelled, Steps, Begins, WasWoken, Full
  <2>2. Without(dq, t) /\ t \notin WokenIn("get")
    BY <2>1, <1>1, <1>3, WithoutIs
  <2> HIDE DEF dq
  <2>3. CASE GoesOn(t, <<>>, "out", dq) /\ (value = Limit \/ fut[t] = "cancelled")
    BY <2>1, <2>2, <2>3, <1>1, <1>3, QuietAwake
  <2>4. CASE GoesOn(t, FirstOf(dq["putters"]), "out", WakeupNext(dq, "putters"))
    <3> DEFINE n == Limit - value
    <3>1. /\ n \in Int /\ value \in Int /\ Suffices(n, "put") /\ Limit - value' = n
          /\ n <= n - (IF t \in WokenIn("put") THEN 1 ELSE 0) + 1
          /\ value <= value - (IF t \in WokenIn("get") THEN 1 ELSE 0)
      BY <1>1, <2>1, <2>2
    <3> HIDE DEF n
    <3>2. /\ Sleeping("get")' \subseteq ToSet(deque'["getters"])
          /\ Sleeping("put")' \subseteq ToSet(deque'["putters"])
          /\ Sleeping("put")' # {} => n <= Cardinality(WokenIn("put")')
          /\ Sleeping("get")' # {} => value <= Cardinality(WokenIn("get")')
      BY <3>1, <2>1, <2>2, <2>4, <1>1, <1>5
    <3> QED BY <3>1, <3>2, <1>1, <1>2, <2>1 DEF QueueAwake, Suffices
  <2> QED BY <2>1, <2>3, <2>4
<1> QED BY <1>6, <1>7, <1>8, <1>9 DEF QueueStep

LEMMA YieldAwake ==
  ASSUME AsyncInv, AwakeInv, NEW t \in Task, Yield(t)
  PROVE  AwakeInv'
<1>1. /\ AsyncTypeOK /\ LoopInv /\ DequeInv /\ LockAwake /\ SemaphoreAwake /\ QueueAwake
      /\ place[t] = "out" /\ Begins(t) /\ GoesOn(t, <<>>, "out", deque) /\ value' = value
      /\ object' = object
  BY DEF AsyncInv, AwakeInv, Yield, Steps, Begins
<1>2. Without(deque, t) /\ \A s \in {"acquire", "get", "put"} : t \notin WokenIn(s)
  BY <1>1, WithoutIs DEF WokenIn
<1>3. /\ \A u \in ToSet(<<>>) : FALSE
      /\ StepEnds(t, <<>>, "out", "none") /\ deque' = deque
  BY <1>1 DEF ToSet, GoesOn
<1>4. LockAwake'
  <2> SUFFICES ASSUME HasLock, value = 1
               PROVE  deque["waiters"] # <<>> => fut'[deque["waiters"][1]] # "pending"
    BY <1>1, <1>3 DEF LockAwake, HasLock
  <2>1. deque["waiters"] # <<>> => fut[deque["waiters"][1]] # "pending"
    BY <1>1 DEF LockAwake
  <2> QED BY <2>1, <1>1, <1>2, <1>3, FrontStays
<1>5. SemaphoreAwake'
  <2>1. /\ \A u \in Task : u \in WokenIn("acquire")' <=> u # t /\ u \in WokenIn("acquire")
        /\ \A u \in Task : u \in Sleeping("acquire")' => u \in Sleeping("acquire")
    BY <1>1, <1>3, SleepersAre
  <2>2. WokenIn("acquire") \subseteq Task /\ Sleeping("acquire")' \subseteq Task
    BY DEF WokenIn, Sleeping
  <2>3. /\ Sleeping("acquire")' # {} => Sleeping("acquire") # {}
        /\ WokenIn("acquire") # {} => WokenIn("acquire")' # {}
    BY <2>1, <2>2, <1>2
  <2> QED BY <2>3, <1>1 DEF SemaphoreAwake
<1>6. QueueAwake'
  <2>1. CASE object = "Queue"
    BY <2>1, <1>1, <1>2, QuietAwake
  <2> QED BY <2>1, <1>1 DEF QueueAwake
<1> QED BY <1>4, <1>5, <1>6 DEF AwakeInv

\* Who is cancelled sleeps no longer.
LEMMA CancelAwake ==
  ASSUME AsyncInv, AwakeInv, NEW t \in Task, Cancel(t)
  PROVE  AwakeInv'
<1>1. /\ LockAwake /\ SemaphoreAwake /\ QueueAwake /\ DequeInv
      /\ UNCHANGED <<object, place, deque, value>> /\ fut \in [Task -> Outcomes]
      /\ deque["waiters"] \in Seq(Task)
  BY DEF AsyncInv, AsyncTypeOK, AwakeInv, Cancel, Deques, Outcomes
<1>2. \A u \in Task : \/ fut'[u] = fut[u]
                      \/ fut[u] = "pending" /\ fut'[u] = "cancelled"
  BY <1>1 DEF Cancel
<1>3. ASSUME NEW s PROVE WokenIn(s)' = WokenIn(s) /\ Sleeping(s)' \subseteq Sleeping(s)
  BY <1>1, <1>2 DEF WokenIn, Sleeping
<1>4. LockAwake'
  <2> SUFFICES ASSUME HasLock, value = 1, deque["waiters"] # <<>>
               PROVE  fut'[deque["waiters"][1]] # "pending"
    BY <1>1 DEF LockAwake, HasLock
  <2>1. deque["waiters"][1] \in Task
    BY <1>1, EmptySeq
  <2> QED BY <2>1, <1>1, <1>2 DEF LockAwake
<1>5. SemaphoreAwake'
  BY <1>1, <1>3 DEF SemaphoreAwake
<1>6. QueueAwake'
  BY <1>1, <1>3 DEF QueueAwake, Suffices
<1> QED BY <1>4, <1>5, <1>6 DEF AwakeInv

LEMMA AwakeInitial == AsyncInit => AwakeInv
<1> SUFFICES ASSUME AsyncInit PROVE AwakeInv
  OBVIOUS
<1>1. (\A t \in Task : fut[t] = "none") /\ deque["waiters"] = <<>>
  BY DEF AsyncInit, Deques
<1>2. ASSUME NEW s PROVE Sleeping(s) = {}
  BY <1>1 DEF Sleeping
<1> QED BY <1>1, <1>2 DEF AwakeInv, LockAwake, SemaphoreAwake, QueueAwake, Suffices

LEMMA AwakeStep ==
  ASSUME AsyncInv, AwakeInv, [AsyncNext]_asyncVars
  PROVE  AwakeInv'
<1>1. LockAwake /\ SemaphoreAwake /\ QueueAwake /\ DequeInv /\ object \in Objects
  BY DEF AwakeInv, AsyncInv, AsyncTypeOK
<1>2. CASE RunOnce
  <2>1. PICK t \in Task : Yield(t) \/ LockStep(t) \/ SemaphoreStep(t) \/ QueueStep(t)
    BY <1>2 DEF RunOnce
  <2>2. CASE Yield(t)
    BY <2>2, YieldAwake
  <2>3. CASE LockStep(t)
    <3>1. HasLock
      <4>1. CASE CondWoken(t)
        <5>1. "wait" \in PlacesOf[object]
          BY <4>1, <1>1 DEF CondWoken, DequeInv
        <5> QED BY <5>1, <1>1 DEF PlacesOf, Objects, HasLock
      <4>2. CASE ~CondWoken(t)
        BY <2>3, <4>2 DEF LockStep, Lock, Locked, LockCancelled, Unlock, CondWait, HasLock
      <4> QED BY <4>1, <4>2
    <3>2. object' = object
      BY <2>3 DEF LockStep, Lock, Locked, LockCancelled, Unlock, CondWait, CondWoken, Steps
    <3>3. SemaphoreAwake' /\ QueueAwake'
      BY <3>1, <3>2 DEF SemaphoreAwake, QueueAwake, HasLock
    <3> QED BY <3>3, <2>3, <1>1, LockStepAwake DEF AwakeInv
  <2>4. CASE SemaphoreStep(t)
    <3>1. object = "Semaphore" /\ object' = object
      BY <2>4 DEF SemaphoreStep, AcquireSemaphore, Acquired, SemaphoreCancelled,
                  ReleaseSemaphore, Steps
    <3>2. LockAwake' /\ QueueAwake'
      BY <3>1 DEF LockAwake, QueueAwake, HasLock
    <3> QED BY <3>2, <2>4, <1>1, SemaphoreStepAwake DEF AwakeInv
  <2>5. CASE QueueStep(t)
    <3>1. object = "Queue" /\ object' = object
      BY <2>5 DEF QueueStep, CallQueue, QueueCancelled, Steps
    <3>2. LockAwake' /\ SemaphoreAwake'
      BY <3>1 DEF LockAwake, SemaphoreAwake, HasLock
    <3> QED BY <3>2, <2>5, <1>1, QueueStepAwake DEF AwakeInv
  <2> QED BY <2>1, <2>2, <2>3, <2>4, <2>5
<1>3. CASE \E t \in Task : Cancel(t)
  BY <1>3, CancelAwake
<1>4. CASE UNCHANGED asyncVars
  <2>1. /\ UNCHANGED <<object, fut, place, deque, value>>
        /\ \A s : WokenIn(s)' = WokenIn(s) /\ Sleeping(s)' = Sleeping(s)
    BY <1>4 DEF asyncVars, WokenIn, Sleeping
  <2> QED BY <2>1, <1>1 DEF AwakeInv, LockAwake, SemaphoreAwake, QueueAwake, Suffices, HasLock
<1> QED BY <1>2, <1>3, <1>4 DEF AsyncNext

LEMMA AwakeHolds == AsyncSpec => [](AsyncInv /\ AwakeInv)
<1>1. AsyncInit => AsyncInv /\ AwakeInv
  BY AsyncInitial, AwakeInitial
<1>2. (AsyncInv /\ AwakeInv) /\ [AsyncNext]_asyncVars => (AsyncInv /\ AwakeInv)'
  BY AsyncStep, AwakeStep
<1> QED BY <1>1, <1>2, PTL DEF AsyncSpec

------------------------------------------------------------------------------
(* Theorems                                                                *)

\* The variables keep their types: no task is scheduled twice, no semaphore has
\* more permits than it began with, and no queue more items than it may hold.
THEOREM AsyncTypeCorrect == AsyncSpec => []AsyncTypeOK
<1>1. AsyncInv => AsyncTypeOK
  BY DEF AsyncInv
<1> QED BY <1>1, AsyncInvariant, PTL

\* The permits of an asyncio.Semaphore are free, held or on the way to a task that
\* was woken, and an asyncio.Lock is unlocked or held by one task, at whatever
\* moment tasks are cancelled; and no wakeup is lost: nobody sleeps beside a permit,
\* a lock, an item or a slot of a Queue that no task was woken for (acquire() and
\* release() in asyncio/locks.py, get() and put() in asyncio/queues.py).
THEOREM PermitsAccounted == AsyncSpec => []AsyncAccounted
<1>1. ASSUME AsyncInv, AwakeInv PROVE AsyncAccounted
  <2>1. Holders = {t \in Task : place[t] = "in"}
    BY DEF Holders
  <2>2. ASSUME object = "Semaphore"
        PROVE  /\ value + Cardinality(Holders) + Cardinality(WokenIn("acquire")) = Limit
               /\ value > 0 /\ Sleeping("acquire") # {} => WokenIn("acquire") # {}
    <3>1. \A t \in Task : place[t] # "reacquire"
      BY <1>1, <2>2 DEF AsyncInv, DequeInv, PlacesOf
    <3>2. Woken = WokenIn("acquire")
      BY <3>1 DEF Woken, WokenIn
    <3> QED BY <3>2, <1>1, <2>2 DEF AsyncInv, PermitInv, AwakeInv, SemaphoreAwake
  <2>3. ASSUME HasLock PROVE value + Cardinality(Holders) = 1
    <3>1. /\ value \in {0, 1} /\ (value = 1 <=> Holders = {})
          /\ \A t, u \in Holders : t = u
      BY <1>1, <2>3 DEF AsyncInv, LockInv
    <3>2. CASE Holders = {}
      BY <3>1, <3>2, FS_EmptySet
    <3>3. CASE Holders # {}
      <4>1. PICK t \in Holders : TRUE
        BY <3>3
      <4>2. Holders = {t}
        BY <3>1
      <4>3. Cardinality(Holders) = 1
        BY <4>2, FS_Singleton
      <4> QED BY <4>3, <3>1, <3>3
    <3> QED BY <3>2, <3>3
  <2>4. ASSUME HasLock, value = 1 PROVE 1 \notin NotDone(deque.waiters)
    <3> DEFINE q == deque["waiters"]
    <3>1. q \in Seq(Task) /\ deque.waiters = q /\ (q # <<>> => fut[q[1]] # "pending")
      BY <1>1, <2>4 DEF AsyncInv, AsyncTypeOK, Deques, AwakeInv, LockAwake
    <3> HIDE DEF q
    <3>2. 1 \in DOMAIN q => q # <<>>
      BY <3>1
    <3> QED BY <3>1, <3>2 DEF NotDone
  <2>5. object = "Queue" => Suffices(value, "get") /\ Suffices(Limit - value, "put")
    BY <1>1 DEF AwakeInv, QueueAwake
  <2> QED BY <2>1, <2>2, <2>3, <2>4, <2>5 DEF AsyncAccounted
<1> QED BY <1>1, AwakeHolds, PTL

\* "Acquiring a lock is fair": who takes an asyncio.Lock, a Semaphore, or the lock of
\* a Condition again, was the first of those that wait for it and are not cancelled.
THEOREM AcquiringIsFair == AsyncSpec => AsyncFair
<1>1. AsyncInv /\ [AsyncNext]_asyncVars => FairStep \/ UNCHANGED asyncVars
  BY AsyncStep
<1>2. AsyncInv /\ [AsyncNext]_asyncVars => [FairStep]_asyncVars
  BY <1>1
<1>3. AsyncSpec => [][FairStep]_asyncVars
  BY <1>2, AsyncInvariant, PTL DEF AsyncSpec
<1> QED BY <1>3 DEF AsyncFair, FairStep
==============================================================================
