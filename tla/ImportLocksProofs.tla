-------------------------- MODULE ImportLocksProofs --------------------------
(***************************************************************************)
(* What ImportLocks guarantees for any number of threads and modules,      *)
(* whatever they import from each other and whichever of them fail.        *)
(***************************************************************************)
EXTENDS ImportLocks, SequenceTheorems, TLAPS

------------------------------------------------------------------------------
(* The inductive invariant                                                 *)

ATypes == {"run", "acquire", "look", "follow", "enlist", "sleep", "awake", "locked",
           "loaded", "unloaded", "raise"}

\* Where t is in acquire() of the lock of Mod(t), and where it holds its mutex.
Acquiring == {"acquire", "look", "follow", "enlist", "sleep", "awake", "locked"}
Mutex     == {"look", "follow", "enlist"}

FrameType == [of : Importer \cup Module, next : Nat \ {0}]
GoalType  == [mod : Module \cup {Nobody}, how : {"load", "wait"}]

LockTypes ==
  /\ modules \in [Module -> {"absent", "initializing", "ready"}]
  /\ owner \in [Module -> Importer \cup {Nobody}] /\ count \in [Module -> Nat]
  /\ lock_waiters \in [Module -> 0 .. 1] /\ wakeup \in [Module -> BOOLEAN]
  /\ mutex \in [Module -> Importer \cup {Nobody}]

ThreadTypes ==
  /\ at \in [Importer -> ATypes] /\ goal \in [Importer -> GoalType]
  /\ \A t \in Importer : at[t] \in Acquiring => Mod(t) \in Module
  /\ stack \in [Importer -> Seq(FrameType)]

\* The program of a thread, and above it the modules it executes, each once.
StackInv == \A t \in Importer :
  /\ Len(stack[t]) >= 1 /\ stack[t][1].of = t
  /\ \A i \in 2 .. Len(stack[t]) : stack[t][i].of \in Module
  /\ \A i, j \in 2 .. Len(stack[t]) : i # j => stack[t][i].of # stack[t][j].of

\* t executes m, and is inside the with statement of _find_and_load() for it.
Executes(t, m) == \E i \in 2 .. Len(stack[t]) : stack[t][i].of = m
Holds(t, m)    == at[t] = "locked" /\ Mod(t) = m

\* Who executes a module owns its lock, once more than it holds it to look; the
\* module is initializing until its code is over.
OwnerInv ==
  /\ \A t \in Importer, m \in Module :
       /\ Executes(t, m) \/ Holds(t, m) => owner[m] = t /\ count[m] >= 1
       /\ Executes(t, m) /\ Holds(t, m) => count[m] >= 2
       /\ Executes(t, m) =>
            \/ modules[m] = "initializing"
            \/ at[t] \in {"loaded", "unloaded"} /\ Top(t).of = m
  /\ \A t \in Importer : at[t] \in {"loaded", "unloaded"} => Len(stack[t]) >= 2

\* While has_deadlock() walks the lock is not free; a lock nobody can take wakes
\* its waiters when it is released, or one of them is awake and lets the next pass.
Awake(m) == {t \in Importer : at[t] = "awake" /\ Mod(t) = m}
WakeInv ==
  /\ \A t \in Importer : at[t] \in Mutex => mutex[Mod(t)] = t /\ count[Mod(t)] > 0
  /\ \A m \in Module :
       /\ \A t, u \in Awake(m) : t = u
       /\ Awake(m) # {} => wakeup[m] /\ lock_waiters[m] = 0
       /\ lock_waiters[m] = 1 => wakeup[m] /\ count[m] > 0
       /\ wakeup[m] => lock_waiters[m] = 1 \/ Awake(m) # {}

ImportInv == LockTypes /\ ThreadTypes /\ StackInv /\ OwnerInv /\ WakeInv

------------------------------------------------------------------------------
(* The stacks                                                              *)

\* The next statement of the top frame is of the same code.
LEMMA NextKeeps ==
  ASSUME NEW s \in Seq(FrameType), Len(s) >= 1
  PROVE  /\ NextStatement(s) \in Seq(FrameType) /\ Len(NextStatement(s)) = Len(s)
         /\ \A i \in 1 .. Len(s) : NextStatement(s)[i].of = s[i].of
<1>1. Len(s) \in 1 .. Len(s) /\ s[Len(s)] \in FrameType
  BY LenProperties, ElementOfSeq
<1> DEFINE f == [s[Len(s)] EXCEPT !.next = @ + 1]
<1>2. f \in FrameType /\ f.of = s[Len(s)].of
  BY <1>1 DEF FrameType
<1>3. NextStatement(s) = [s EXCEPT ![Len(s)] = f]
  BY DEF NextStatement
<1> HIDE DEF f
<1>4. /\ NextStatement(s) \in Seq(FrameType) /\ Len(NextStatement(s)) = Len(s)
      /\ \A j \in 1 .. Len(s) : NextStatement(s)[j] = IF j = Len(s) THEN f ELSE s[j]
  BY <1>1, <1>2, <1>3, ExceptSeq
<1> QED BY <1>2, <1>4

\* Without its top frame a stack has the same frames below.
LEMMA FrontKeeps ==
  ASSUME NEW s \in Seq(FrameType), Len(s) >= 2
  PROVE  /\ Front(s) \in Seq(FrameType) /\ Len(Front(s)) = Len(s) - 1
         /\ \A i \in 1 .. Len(s) - 1 : Front(s)[i] = s[i]
<1>1. Len(s) \in Nat /\ Front(s) = SubSeq(s, 1, Len(s) - 1)
  BY LenProperties DEF Front
<1>2. \A i \in 1 .. Len(s) - 1 : s[i] \in FrameType
  BY <1>1, ElementOfSeq
<1>3. Len(s) - 1 \in Int /\ 1 \in Int /\ 1 <= Len(s) - 1 /\ Len(s) - 1 - 1 + 1 = Len(s) - 1
  BY <1>1
<1>4. /\ SubSeq(s, 1, Len(s) - 1) \in Seq(FrameType)
      /\ Len(SubSeq(s, 1, Len(s) - 1)) = Len(s) - 1 - 1 + 1
      /\ \A i \in 1 .. Len(s) - 1 - 1 + 1 : SubSeq(s, 1, Len(s) - 1)[i] = s[1 + i - 1]
  BY <1>2, <1>3, SubSeqProperties
<1> QED BY <1>1, <1>3, <1>4

\* What a thread executes is what is above its program.
Same(t) == /\ stack'[t] \in Seq(FrameType) /\ Len(stack'[t]) = Len(stack[t])
           /\ \A i \in 1 .. Len(stack[t]) : stack'[t][i].of = stack[t][i].of

\* The frame a thread executes is the last of its stack.
LEMMA TopIs ==
  ASSUME LockTypes, ThreadTypes, StackInv, NEW t \in Importer
  PROVE  /\ Len(stack[t]) \in Nat \ {0} /\ Top(t) = stack[t][Len(stack[t])]
         /\ stack[t] \in Seq(FrameType)
         /\ Top(t) \in FrameType
         /\ Len(stack[t]) >= 2 <=> Top(t).of \in Module
         /\ Len(stack[t]) >= 2 => Executes(t, Top(t).of)
<1>1. stack[t] \in Seq(FrameType) /\ Len(stack[t]) \in Nat \ {0}
  BY LenProperties DEF ThreadTypes, StackInv
<1>2. Top(t) = stack[t][Len(stack[t])]
  BY <1>1 DEF Top, Last
<1>3. Len(stack[t]) \in 1 .. Len(stack[t])
  BY <1>1
<1>4. Top(t) \in FrameType
  BY <1>1, <1>2, <1>3, ElementOfSeq
<1>5. CASE Len(stack[t]) >= 2
  <2>1. Len(stack[t]) \in 2 .. Len(stack[t])
    BY <1>1, <1>5
  <2> QED BY <1>1, <1>2, <1>4, <1>5, <2>1 DEF StackInv, Executes
<1>6. CASE Len(stack[t]) = 1
  BY <1>1, <1>2, <1>4, <1>6, ImportAssumption DEF StackInv
<1>7. Len(stack[t]) >= 2 \/ Len(stack[t]) = 1
  <2> DEFINE n == Len(stack[t])
  <2>1. n \in Nat \ {0}
    BY <1>1
  <2> HIDE DEF n
  <2>2. n >= 2 \/ n = 1
    BY <2>1
  <2> QED BY <2>2 DEF n
<1> QED BY <1>5, <1>6, <1>7

\* A step within a frame, of any thread or of none.
LEMMA SameStack ==
  ASSUME LockTypes, ThreadTypes, StackInv, stack' \in [Importer -> Seq(FrameType)],
         \A t \in Importer : Same(t)
  PROVE  /\ StackInv'
         /\ \A t \in Importer : \A m \in Module : Executes(t, m)' <=> Executes(t, m)
         /\ \A t \in Importer : Top(t)'.of = Top(t).of
<1>1. \A t \in Importer : Len(stack[t]) \in Nat \ {0}
  BY TopIs
<1>2. \A t \in Importer : \A i \in 2 .. Len(stack[t]) : i \in 1 .. Len(stack[t])
  BY <1>1
<1>3. StackInv'
  BY <1>1, <1>2 DEF StackInv, Same
<1>4. \A t \in Importer : \A m \in Module : Executes(t, m)' <=> Executes(t, m)
  BY <1>1, <1>2 DEF Executes, Same
<1>5. \A t \in Importer : Top(t)'.of = Top(t).of
  BY <1>1 DEF Same, Top, Last
<1> QED BY <1>3, <1>4, <1>5

\* t begins to execute m, which it does not execute yet.
LEMMA PushStack ==
  ASSUME LockTypes, ThreadTypes, StackInv, NEW t \in Importer, NEW m \in Module,
         ~Executes(t, m), stack' = [stack EXCEPT ![t] = Append(@, [of |-> m, next |-> 1])]
  PROVE  /\ stack' \in [Importer -> Seq(FrameType)] /\ StackInv'
         /\ \A u \in Importer : \A n \in Module :
              Executes(u, n)' <=> Executes(u, n) \/ (u = t /\ n = m)
         /\ \A u \in Importer \ {t} : stack'[u] = stack[u]
         /\ Len(stack'[t]) >= 2 /\ Top(t)'.of = m
<1> DEFINE f == [of |-> m, next |-> 1]
           s == stack[t]
           r == stack'[t]
<1>1. f \in FrameType /\ f.of = m
  BY DEF FrameType
<1> HIDE DEF f
<1>2. s \in Seq(FrameType) /\ Len(s) \in Nat \ {0} /\ r = Append(s, f)
  BY TopIs DEF ThreadTypes, f
<1>3. /\ r \in Seq(FrameType) /\ Len(r) = Len(s) + 1 /\ r[Len(s) + 1] = f
      /\ \A i \in 1 .. Len(s) : r[i] = s[i]
  BY <1>1, <1>2, AppendProperties
<1>4. /\ stack' \in [Importer -> Seq(FrameType)]
      /\ \A u \in Importer \ {t} : stack'[u] = stack[u]
  BY <1>3 DEF ThreadTypes
<1>5. \A i \in 2 .. Len(r) : i = Len(s) + 1 \/ i \in 2 .. Len(s)
  BY <1>2, <1>3
<1>6. \A i \in 2 .. Len(s) : i \in 2 .. Len(r) /\ r[i] = s[i] /\ s[i].of # m
  BY <1>2, <1>3 DEF Executes
<1>7. Len(s) + 1 \in 2 .. Len(r)
  BY <1>2, <1>3
<1>8. /\ Len(r) >= 1 /\ r[1].of = t
      /\ \A i \in 2 .. Len(r) : r[i].of \in Module
      /\ \A i, j \in 2 .. Len(r) : i # j => r[i].of # r[j].of
  <2>1. r[1] = s[1] /\ s[1].of = t
    BY <1>2, <1>3 DEF StackInv
  <2>2. \A i \in 2 .. Len(s) : s[i].of \in Module
    BY DEF StackInv
  <2>3. \A i, j \in 2 .. Len(s) : i # j => s[i].of # s[j].of
    BY DEF StackInv
  <2> HIDE DEF r, s
  <2> QED BY <1>1, <1>2, <1>3, <1>5, <1>6, <2>1, <2>2, <2>3
<1>9. StackInv'
  BY <1>4, <1>8 DEF StackInv
<1>10. \A n \in Module : Executes(t, n)' <=> Executes(t, n) \/ n = m
  BY <1>1, <1>3, <1>5, <1>6, <1>7 DEF Executes
<1>11. \A u \in Importer \ {t} : \A n \in Module : Executes(u, n)' <=> Executes(u, n)
  BY <1>4 DEF Executes
<1>12. Len(r) >= 2 /\ Top(t)'.of = m
  BY <1>1, <1>2, <1>3 DEF Top, Last
<1> QED BY <1>4, <1>9, <1>10, <1>11, <1>12

\* t leaves the module it executes last.
LEMMA PopStack ==
  ASSUME LockTypes, ThreadTypes, StackInv, NEW t \in Importer, Len(stack[t]) >= 2,
         stack' = [stack EXCEPT ![t] = NextStatement(Front(@))]
  PROVE  /\ stack' \in [Importer -> Seq(FrameType)] /\ StackInv'
         /\ \A u \in Importer : \A n \in Module :
              Executes(u, n)' <=> Executes(u, n) /\ ~(u = t /\ n = Top(t).of)
         /\ \A u \in Importer \ {t} : stack'[u] = stack[u]
<1> DEFINE s == stack[t]
           r == stack'[t]
           q == Front(s)
<1>1. s \in Seq(FrameType) /\ Len(s) \in Nat \ {0, 1} /\ Top(t) = s[Len(s)]
  BY TopIs
<1>2. /\ q \in Seq(FrameType) /\ Len(q) = Len(s) - 1
      /\ \A i \in 1 .. Len(s) - 1 : q[i] = s[i]
  BY <1>1, FrontKeeps
<1>3. r = NextStatement(q)
  BY DEF ThreadTypes
<1>4. /\ r \in Seq(FrameType) /\ Len(r) = Len(s) - 1
      /\ \A i \in 1 .. Len(s) - 1 : r[i].of = s[i].of
  <2> HIDE DEF q, s, r
  <2>1. Len(q) >= 1
    BY <1>1, <1>2
  <2>2. /\ r \in Seq(FrameType) /\ Len(r) = Len(q)
        /\ \A i \in 1 .. Len(q) : r[i].of = q[i].of
    BY <1>2, <1>3, <2>1, NextKeeps
  <2> QED BY <1>2, <2>2
<1>5. /\ stack' \in [Importer -> Seq(FrameType)]
      /\ \A u \in Importer \ {t} : stack'[u] = stack[u]
  BY <1>4 DEF ThreadTypes
<1>6. \A i \in 2 .. Len(s) : i = Len(s) \/ i \in 2 .. Len(r)
  BY <1>1, <1>4
<1>7. \A i \in 2 .. Len(r) : i \in 2 .. Len(s) /\ i # Len(s) /\ r[i].of = s[i].of
  BY <1>1, <1>4
<1>8. Len(s) \in 2 .. Len(s)
  BY <1>1
<1>9. /\ Len(r) >= 1 /\ r[1].of = t
      /\ \A i \in 2 .. Len(r) : r[i].of \in Module
      /\ \A i, j \in 2 .. Len(r) : i # j => r[i].of # r[j].of
  <2>1. s[1].of = t /\ r[1].of = s[1].of
    BY <1>1, <1>4 DEF StackInv
  <2>2. \A i \in 2 .. Len(s) : s[i].of \in Module
    BY DEF StackInv
  <2>3. \A i, j \in 2 .. Len(s) : i # j => s[i].of # s[j].of
    BY DEF StackInv
  <2> HIDE DEF r, s
  <2>4. Len(r) >= 1
    BY <1>1, <1>4
  <2>5. \A i, j \in 2 .. Len(r) : i # j => r[i].of # r[j].of
    BY <1>7, <2>3
  <2>6. \A i \in 2 .. Len(r) : r[i].of \in Module
    BY <1>7, <2>2
  <2> QED BY <2>1, <2>4, <2>5, <2>6
<1>10. StackInv'
  BY <1>5, <1>9 DEF StackInv
<1>11. \A n \in Module : Executes(t, n)' <=> Executes(t, n) /\ n # Top(t).of
  <2>1. \A i \in 2 .. Len(s) : i # Len(s) => s[i].of # s[Len(s)].of
    BY <1>8 DEF StackInv
  <2> QED BY <1>1, <1>6, <1>7, <2>1 DEF Executes
<1>12. \A u \in Importer \ {t} : \A n \in Module : Executes(u, n)' <=> Executes(u, n)
  BY <1>5 DEF Executes
<1> QED BY <1>5, <1>10, <1>11, <1>12

------------------------------------------------------------------------------
(* One step                                                                *)

\* Thread t goes to l, and the others stay where they are.
Moves(t, l) == /\ at' = [at EXCEPT ![t] = l] /\ l \in ATypes
               /\ goal' \in [Importer -> GoalType]
               /\ \A u \in Importer \ {t} : goal'[u] = goal[u]
               /\ l \in Acquiring => goal'[t].mod \in Module
               /\ l \in Acquiring /\ at[t] \in Acquiring => Mod(t)' = Mod(t)

\* The stacks are of the same code.
SameCode ==
  /\ stack' \in [Importer -> Seq(FrameType)] /\ StackInv'
  /\ \A u \in Importer : \A m \in Module : Executes(u, m)' <=> Executes(u, m)
  /\ \A u \in Importer : Top(u)'.of = Top(u).of /\ Len(stack'[u]) = Len(stack[u])

\* Going on to the next statement leaves the frames of the same code.
LEMMA KeepStack ==
  ASSUME LockTypes, ThreadTypes, StackInv, NEW t \in Importer,
         stack' = stack \/ stack' = [stack EXCEPT ![t] = NextStatement(@)]
  PROVE  SameCode
<1>1. /\ NextStatement(stack[t]) \in Seq(FrameType)
      /\ Len(NextStatement(stack[t])) = Len(stack[t])
      /\ \A i \in 1 .. Len(stack[t]) : NextStatement(stack[t])[i].of = stack[t][i].of
  <2>1. Len(stack[t]) >= 1 /\ stack[t] \in Seq(FrameType)
    BY TopIs
  <2> QED BY <2>1, NextKeeps
<1>2. stack' \in [Importer -> Seq(FrameType)]
  BY <1>1 DEF ThreadTypes
<1>3. ASSUME NEW u \in Importer PROVE Same(u)
  <2>1. CASE stack'[u] = stack[u]
    BY <1>2, <2>1 DEF Same
  <2>2. CASE u = t /\ stack'[u] = NextStatement(stack[t])
    BY <1>1, <2>2 DEF Same
  <2> QED BY <2>1, <2>2 DEF ThreadTypes
<1>4. \A u \in Importer : Len(stack'[u]) = Len(stack[u])
  BY <1>3 DEF Same
<1> QED BY <1>2, <1>3, <1>4, SameStack DEF SameCode

\* A step of one thread that keeps what it wants keeps the types of threads.
LEMMA ThreadTypesKept ==
  ASSUME ThreadTypes, NEW t \in Importer, NEW l, Moves(t, l),
         stack' \in [Importer -> Seq(FrameType)]
  PROVE  ThreadTypes'
BY DEF ThreadTypes, Moves, Mod

\* A step that touches no lock leaves who owns it as it is.
LEMMA OwnerKept ==
  ASSUME ImportInv, NEW t \in Importer, NEW l, Moves(t, l), SameCode,
         UNCHANGED <<modules, owner, count>>,
         at[t] \notin {"loaded", "unloaded"}, l \notin {"locked", "loaded", "unloaded"}
  PROVE  OwnerInv'
<1>1. \A u \in Importer, m \in Module : Holds(u, m)' => Holds(u, m)
  BY DEF ImportInv, ThreadTypes, Holds, Moves, Mod
<1>2. \A u \in Importer : at'[u] \in {"loaded", "unloaded"} <=> at[u] \in {"loaded", "unloaded"}
  BY DEF ImportInv, ThreadTypes, Moves
<1> HIDE DEF Executes, Holds, Top
<1> QED BY <1>1, <1>2 DEF ImportInv, OwnerInv, SameCode

\* So does a step to and from where no mutex is held and nobody is awake.
LEMMA WakeKept ==
  ASSUME ImportInv, NEW t \in Importer, NEW l, Moves(t, l),
         UNCHANGED <<count, lock_waiters, wakeup>>,
         at[t] # "awake", l # "awake",
         \/ mutex' = mutex /\ at[t] \notin Mutex /\ l \notin Mutex
         \/ mutex' = mutex /\ at[t] \in Mutex /\ l \in Mutex
         \/ at[t] \in Mutex /\ l \notin Mutex /\ mutex' = [mutex EXCEPT ![Mod(t)] = Nobody]
  PROVE  WakeInv'
<1>1. \A m \in Module : Awake(m)' = Awake(m)
  BY DEF ImportInv, ThreadTypes, Awake, Moves, Mod
<1>2. ASSUME NEW u \in Importer, at'[u] \in Mutex
      PROVE  mutex'[Mod(u)'] = u /\ count'[Mod(u)'] > 0
  <2>1. at[u] \in Mutex /\ Mod(u)' = Mod(u) /\ Mod(u) \in Module /\ mutex[Mod(u)] = u
    BY <1>2 DEF ImportInv, ThreadTypes, WakeInv, Moves, Mod, Mutex, Acquiring
  <2>2. CASE mutex' = mutex
    BY <1>2, <2>1, <2>2 DEF ImportInv, WakeInv
  <2>3. CASE at[t] \in Mutex /\ l \notin Mutex /\ mutex' = [mutex EXCEPT ![Mod(t)] = Nobody]
    <3>1. u # t /\ mutex[Mod(t)] = t
      BY <1>2, <2>3 DEF ImportInv, ThreadTypes, WakeInv, Moves
    <3>2. Mod(u) # Mod(t)
      BY <2>1, <3>1
    <3> QED BY <1>2, <2>1, <2>3, <3>2 DEF ImportInv, LockTypes, WakeInv
  <2> QED BY <2>2, <2>3
<1> HIDE DEF Awake
<1> QED BY <1>1, <1>2 DEF ImportInv, WakeInv

\* An import statement.
LEMMA ImportKeeps ==
  ASSUME ImportInv, NEW t \in Importer, Import(t)
  PROVE  ImportInv'
<1>1. SameCode
  <2>1. stack' = stack \/ stack' = [stack EXCEPT ![t] = NextStatement(@)]
    BY DEF Import
  <2> QED BY <2>1, KeepStack DEF ImportInv
<1>2. at[t] = "run" /\ UNCHANGED <<modules, owner, count, lock_waiters, wakeup, mutex>>
  BY DEF Import, lockVars
<1>3. PICK l \in {"run", "acquire"} : Moves(t, l)
  <2> DEFINE m == Code(t)[Top(t).next]
  <2>1. m \in Module
    <3>1. Top(t) \in FrameType /\ Top(t).next \in 1 .. Len(Code(t))
      BY TopIs DEF ImportInv, FrameType, Import
    <3>2. Code(t) \in Seq(Module)
      BY <3>1, ImportAssumption DEF Code, FrameType
    <3> QED BY <3>1, <3>2, ElementOfSeq
  <2> HIDE DEF m
  <2>2. \/ UNCHANGED <<at, goal>>
        \/ \E how \in {"load", "wait"} : /\ goal' = [goal EXCEPT ![t] = [mod |-> m, how |-> how]]
                                         /\ at' = [at EXCEPT ![t] = "acquire"]
    BY DEF Import, WantLock, GoTo, m
  <2>3. CASE UNCHANGED <<at, goal>>
    BY <1>2, <2>3 DEF Moves, ImportInv, ThreadTypes, ATypes, Acquiring
  <2>4. ASSUME NEW how \in {"load", "wait"},
               goal' = [goal EXCEPT ![t] = [mod |-> m, how |-> how]],
               at' = [at EXCEPT ![t] = "acquire"]
        PROVE  Moves(t, "acquire")
    BY <1>2, <2>1, <2>4 DEF Moves, ImportInv, ThreadTypes, GoalType, ATypes, Acquiring
  <2> QED BY <2>2, <2>3, <2>4
<1>4. OwnerInv'
  BY <1>1, <1>2, <1>3, OwnerKept
<1>5. WakeInv'
  BY <1>2, <1>3, WakeKept DEF Mutex
<1> QED BY <1>1, <1>2, <1>3, <1>4, <1>5, ThreadTypesKept DEF ImportInv, SameCode, LockTypes

\* The walk of has_deadlock(), which ends in a mutex released.
LEMMA WalkKeeps ==
  ASSUME ImportInv, NEW t \in Importer, Look(t) \/ Follow(t)
  PROVE  ImportInv'
<1>1. SameCode
  <2>1. stack' = stack \/ stack' = [stack EXCEPT ![t] = NextStatement(@)]
    BY DEF Look, Follow
  <2> QED BY <2>1, KeepStack DEF ImportInv
<1>2. /\ at[t] \in {"look", "follow"} /\ Mod(t) \in Module
      /\ UNCHANGED <<modules, owner, count, lock_waiters, wakeup>>
  BY DEF Look, Follow, lockVars, ImportInv, ThreadTypes, Acquiring
<1>3. PICK l \in {"look", "follow", "enlist", "run", "raise"} :
        /\ Moves(t, l)
        /\ IF l \in Mutex THEN mutex' = mutex ELSE mutex' = [mutex EXCEPT ![Mod(t)] = Nobody]
  <2>1. goal' = goal
    BY DEF Look, Follow
  <2>2. PICK l \in {"look", "follow", "enlist", "run", "raise"} :
          /\ at' = [at EXCEPT ![t] = l]
          /\ IF l \in Mutex THEN mutex' = mutex ELSE mutex' = [mutex EXCEPT ![Mod(t)] = Nobody]
    BY DEF Look, Follow, GoTo, UnlockMutex, Mutex, lockVars
  <2>3. Moves(t, l)
    BY <1>2, <2>1, <2>2 DEF Moves, Mod, ImportInv, ThreadTypes, ATypes, Acquiring
  <2> QED BY <2>2, <2>3
<1>4. OwnerInv'
  BY <1>1, <1>2, <1>3, OwnerKept
<1>5. WakeInv'
  BY <1>2, <1>3, WakeKept DEF Mutex
<1>6. LockTypes'
  BY <1>2, <1>3 DEF ImportInv, LockTypes
<1> QED BY <1>1, <1>3, <1>4, <1>5, <1>6, ThreadTypesKept DEF ImportInv, SameCode

\* self.wakeup and self.waiters, before and after the thread sleeps.
LEMMA SleepKeeps ==
  ASSUME ImportInv, NEW t \in Importer, Enlist(t) \/ Sleep(t)
  PROVE  ImportInv'
<1>0. PICK m \in Module : m = Mod(t)
  BY DEF Enlist, Sleep, ImportInv, ThreadTypes, Acquiring
<1>1. SameCode
  <2>1. stack' = stack
    BY <1>0 DEF Enlist, Sleep
  <2> QED BY <1>0, <2>1, KeepStack DEF ImportInv
<1>2. /\ at[t] \in {"enlist", "sleep", "awake"} /\ m \in Module
      /\ UNCHANGED <<modules, owner, count, goal>>
  BY <1>0 DEF Enlist, Sleep, ImportInv, ThreadTypes, Acquiring
<1>3. \/ /\ at[t] = "enlist" /\ at' = [at EXCEPT ![t] = "sleep"]
         /\ mutex' = [mutex EXCEPT ![m] = Nobody]
         /\ wakeup' = [wakeup EXCEPT ![m] = TRUE]
         /\ lock_waiters' = [lock_waiters EXCEPT ![m] = IF wakeup[m] THEN @ ELSE @ + 1]
      \/ /\ at[t] = "sleep" /\ at' = [at EXCEPT ![t] = "awake"] /\ ~wakeup[m]
         /\ wakeup' = [wakeup EXCEPT ![m] = TRUE] /\ UNCHANGED <<mutex, lock_waiters>>
      \/ /\ at[t] = "awake" /\ at' = [at EXCEPT ![t] = "acquire"]
         /\ wakeup' = [wakeup EXCEPT ![m] = FALSE] /\ UNCHANGED <<mutex, lock_waiters>>
  <2>1. CASE Enlist(t)
    BY <1>0, <2>1 DEF Enlist, UnlockMutex, GoTo
  <2>2. CASE Sleep(t)
    <3>1. CASE at[t] = "sleep"
      BY <1>0, <2>2, <3>1 DEF Sleep, GoTo
    <3>2. CASE at[t] = "awake"
      <4>1. (at[t] = "sleep") = FALSE
        BY <1>0, <3>2
      <4> QED BY <1>0, <2>2, <3>2, <4>1 DEF Sleep, GoTo
    <3> QED BY <1>0, <2>2, <3>1, <3>2 DEF Sleep
  <2> QED BY <2>1, <2>2
<1>4. \E l \in {"sleep", "awake", "acquire"} : Moves(t, l)
  BY <1>0, <1>2, <1>3 DEF Moves, Mod, ImportInv, ThreadTypes, ATypes, Acquiring
<1>5. lock_waiters[m] \in 0 .. 1 /\ (lock_waiters[m] = 1 => wakeup[m])
  BY <1>0, <1>2 DEF ImportInv, LockTypes, WakeInv
<1>6. LockTypes'
  <2>1. (IF wakeup[m] THEN lock_waiters[m] ELSE lock_waiters[m] + 1) \in 0 .. 1
    BY <1>0, <1>5
  <2>2. lock_waiters' \in [Module -> 0 .. 1]
    BY <1>0, <1>2, <1>3, <2>1 DEF ImportInv, LockTypes
  <2> QED BY <1>0, <1>2, <1>3, <2>2 DEF ImportInv, LockTypes
<1>7. OwnerInv'
  BY <1>0, <1>1, <1>2, <1>4, OwnerKept
<1>8. WakeInv'
  <2>1. \A u \in Importer \ {t} : at'[u] = at[u] /\ Mod(u)' = Mod(u)
    BY <1>0, <1>2, <1>3 DEF ImportInv, ThreadTypes, Mod
  <2>2. \A n \in Module \ {m} : /\ wakeup'[n] = wakeup[n] /\ lock_waiters'[n] = lock_waiters[n]
                                /\ mutex'[n] = mutex[n] /\ Awake(n)' = Awake(n)
    BY <1>0, <1>2, <1>3, <2>1 DEF ImportInv, LockTypes, ThreadTypes, Awake, Mod
  <2>3. /\ at'[t] = "awake" => Awake(m)' = Awake(m) \cup {t}
        /\ at'[t] # "awake" => Awake(m)' = Awake(m) \ {t}
    BY <1>0, <1>2, <1>3, <2>1 DEF ImportInv, ThreadTypes, Awake, Mod
  <2>4. \A u \in Importer : at'[u] \in Mutex =>
          u # t /\ mutex[Mod(u)] = u /\ count[Mod(u)] > 0 /\ Mod(u)' = Mod(u) /\ Mod(u) \in Module
    BY <1>0, <1>3, <2>1 DEF ImportInv, ThreadTypes, WakeInv, Mutex, Acquiring
  <2>5. ASSUME NEW u \in Importer, at'[u] \in Mutex
        PROVE  mutex'[Mod(u)'] = u /\ count'[Mod(u)'] > 0
    <3>1. at[t] = "enlist" => mutex[m] = t /\ Mod(u) # m
      BY <1>0, <2>4, <2>5 DEF ImportInv, WakeInv, Mutex
    <3> QED BY <1>2, <1>3, <2>2, <2>4, <2>5, <3>1
  <2>6. at[t] = "enlist" => count[m] > 0
    BY <1>0 DEF ImportInv, WakeInv, Mutex
  <2>7. at[t] = "awake" <=> t \in Awake(m)
    BY <1>0 DEF Awake
  <2> DEFINE aw == Awake(m)
             bw == Awake(m)'
  <2>8. /\ \A u, v \in aw : u = v
        /\ aw # {} => wakeup[m] /\ lock_waiters[m] = 0
        /\ lock_waiters[m] = 1 => wakeup[m] /\ count[m] > 0
        /\ wakeup[m] => lock_waiters[m] = 1 \/ aw # {}
    BY <1>0, <1>2 DEF ImportInv, WakeInv
  <2> HIDE DEF aw, Awake
  <2>9. /\ \A u, v \in bw : u = v
        /\ bw # {} => wakeup'[m] /\ lock_waiters'[m] = 0
        /\ lock_waiters'[m] = 1 => wakeup'[m] /\ count[m] > 0
        /\ wakeup'[m] => lock_waiters'[m] = 1 \/ bw # {}
    <3>1. CASE at[t] = "enlist"
      <4>1. at'[t] = "sleep" /\ t \notin aw
        BY <1>3, <2>7, <3>1 DEF aw, ImportInv, ThreadTypes
      <4>2. bw = aw
        BY <2>3, <4>1 DEF aw, bw
      <4>3. /\ wakeup'[m]
            /\ lock_waiters'[m] = (IF wakeup[m] THEN lock_waiters[m]
                                                ELSE lock_waiters[m] + 1)
        BY <1>0, <1>2, <1>3, <3>1 DEF ImportInv, LockTypes
      <4> HIDE DEF bw
      <4>4. CASE wakeup[m]
        BY <2>6, <2>8, <3>1, <4>1, <4>2, <4>3, <4>4
      <4>5. CASE ~wakeup[m]
        <5>1. lock_waiters[m] = 0 /\ aw = {}
          BY <1>5, <2>8, <4>5
        <5>2. lock_waiters'[m] = 1
          BY <4>3, <4>5, <5>1
        <5> QED BY <2>6, <3>1, <4>2, <4>3, <5>1, <5>2
      <4> QED BY <4>4, <4>5
    <3>2. CASE at[t] = "sleep"
      <4>1. bw = aw \cup {t} /\ wakeup'[m] /\ ~wakeup[m] /\ lock_waiters'[m] = lock_waiters[m]
        BY <1>0, <3>2, <1>2, <1>3, <2>3 DEF aw, ImportInv, LockTypes, ThreadTypes
      <4> HIDE DEF bw
      <4> QED BY <1>5, <2>8, <4>1
    <3>3. CASE at[t] = "awake"
      <4>1. bw = aw \ {t} /\ ~wakeup'[m] /\ lock_waiters'[m] = lock_waiters[m] /\ t \in aw
        BY <1>0, <3>3, <1>2, <1>3, <2>3, <2>7 DEF aw, ImportInv, LockTypes, ThreadTypes
      <4> HIDE DEF bw
      <4> QED BY <1>5, <2>8, <4>1
    <3> QED BY <1>2, <3>1, <3>2, <3>3
  <2>10. \A n \in Module \ {m} :
           /\ \A u, v \in Awake(n)' : u = v
           /\ Awake(n)' # {} => wakeup'[n] /\ lock_waiters'[n] = 0
           /\ lock_waiters'[n] = 1 => wakeup'[n] /\ count[n] > 0
           /\ wakeup'[n] => lock_waiters'[n] = 1 \/ Awake(n)' # {}
    BY <1>0, <2>2 DEF ImportInv, WakeInv
  <2> QED BY <1>0, <1>2, <2>5, <2>9, <2>10 DEF WakeInv, bw
<1> QED BY <1>0, <1>1, <1>4, <1>6, <1>7, <1>8, ThreadTypesKept DEF ImportInv, SameCode

\* The lock is taken, or has_deadlock() begins with its mutex held.
LEMMA AcquireKeeps ==
  ASSUME ImportInv, NEW t \in Importer, AcquireModule(t)
  PROVE  ImportInv'
<1>0. PICK m \in Module : m = Mod(t)
  BY DEF AcquireModule, ImportInv, ThreadTypes, Acquiring
<1>1. SameCode
  <2>1. stack' = stack
    BY <1>0 DEF AcquireModule
  <2> QED BY <1>0, <2>1, KeepStack DEF ImportInv
<1>2. /\ at[t] = "acquire" /\ m \in Module /\ mutex[m] = Nobody
      /\ UNCHANGED <<modules, lock_waiters, wakeup, goal>>
  BY <1>0 DEF AcquireModule, ImportInv, ThreadTypes, Acquiring
<1>3. count[m] \in Nat
  BY <1>0, <1>2 DEF ImportInv, LockTypes
<1>4. CASE /\ count[m] = 0 \/ owner[m] = t
           /\ owner' = [owner EXCEPT ![m] = t] /\ count' = [count EXCEPT ![m] = @ + 1]
           /\ at' = [at EXCEPT ![t] = "locked"] /\ mutex' = mutex
  <2>1. Moves(t, "locked")
    BY <1>0, <1>2, <1>4 DEF Moves, Mod, ImportInv, ThreadTypes, ATypes, Acquiring
  <2>2. /\ LockTypes' /\ owner'[m] = t /\ count'[m] = count[m] + 1
        /\ \A n \in Module \ {m} : owner'[n] = owner[n] /\ count'[n] = count[n]
    <3> QED BY <1>0, <1>2, <1>3, <1>4 DEF ImportInv, LockTypes
  <2>3. OwnerInv'
    <3>1. \A u \in Importer, n \in Module : Holds(u, n)' <=> Holds(u, n) \/ (u = t /\ n = m)
      BY <1>0, <1>2, <1>4 DEF ImportInv, ThreadTypes, Holds, Mod
    <3>2. \A u \in Importer : /\ at'[u] \in {"loaded", "unloaded"} => at[u] = at'[u]
                              /\ at[u] \in {"loaded", "unloaded"} => at[u] = at'[u]
      BY <1>0, <1>2, <1>4 DEF ImportInv, ThreadTypes
    <3>3. ~Holds(t, m)
      BY <1>0, <1>2 DEF Holds
    <3>4. \A u \in Importer : Executes(u, m) \/ Holds(u, m) =>
                                owner[m] = u /\ count[m] >= 1
      BY <1>0, <1>2 DEF ImportInv, OwnerInv
    <3>5. \A u \in Importer : Executes(u, m) \/ Holds(u, m) => u = t
      BY <1>0, <1>3, <1>4, <3>4
    <3> HIDE DEF Executes, Holds, Top
    <3>6. ASSUME NEW u \in Importer
          PROVE  /\ Executes(u, m)' \/ Holds(u, m)' => owner'[m] = u /\ count'[m] >= 1
                 /\ Executes(u, m)' /\ Holds(u, m)' => count'[m] >= 2
      BY <1>0, <1>1, <1>2, <1>3, <2>2, <3>1, <3>3, <3>4, <3>5 DEF SameCode
    <3>7. ASSUME NEW u \in Importer, NEW n \in Module, n # m
          PROVE  /\ Executes(u, n)' \/ Holds(u, n)' => owner'[n] = u /\ count'[n] >= 1
                 /\ Executes(u, n)' /\ Holds(u, n)' => count'[n] >= 2
      BY <1>0, <1>1, <2>2, <3>1, <3>7 DEF SameCode, ImportInv, OwnerInv
    <3>8. \A u \in Importer, n \in Module :
            /\ Executes(u, n)' => \/ modules'[n] = "initializing"
                                  \/ at'[u] \in {"loaded", "unloaded"} /\ Top(u)'.of = n
            /\ at'[u] \in {"loaded", "unloaded"} => Len(stack'[u]) >= 2
      BY <1>0, <1>1, <1>2, <3>2 DEF SameCode, ImportInv, OwnerInv
    <3> QED BY <1>0, <1>2, <3>6, <3>7, <3>8 DEF OwnerInv
  <2>4. WakeInv'
    <3>1. \A n \in Module : Awake(n)' = Awake(n)
      BY <1>0, <1>2, <1>4 DEF ImportInv, ThreadTypes, Awake, Mod
    <3>2. \A u \in Importer : at'[u] \in Mutex =>
            at[u] \in Mutex /\ Mod(u)' = Mod(u) /\ Mod(u) \in Module
      BY <1>0, <1>2, <1>4 DEF ImportInv, ThreadTypes, Mod, Mutex, Acquiring
    <3>3. \A n \in Module : count'[n] >= count[n] /\ count[n] \in Nat /\ count'[n] \in Nat
      BY <1>0, <1>2, <1>3, <2>2 DEF ImportInv, LockTypes
    <3> HIDE DEF Awake
    <3>4. \A u \in Importer : at'[u] \in Mutex => mutex'[Mod(u)'] = u /\ count'[Mod(u)'] > 0
      BY <1>0, <1>4, <3>2, <3>3 DEF ImportInv, WakeInv
    <3>5. \A n \in Module : count[n] > 0 => count'[n] > 0
      BY <1>0, <3>3
    <3> QED BY <1>0, <1>2, <3>1, <3>4, <3>5 DEF ImportInv, WakeInv
  <2> QED BY <1>0, <1>1, <2>1, <2>2, <2>3, <2>4, ThreadTypesKept DEF ImportInv, SameCode
<1>5. CASE /\ count[m] # 0 /\ mutex' = [mutex EXCEPT ![m] = t]
           /\ at' = [at EXCEPT ![t] = "look"] /\ UNCHANGED <<owner, count>>
  <2>1. Moves(t, "look")
    BY <1>0, <1>2, <1>5 DEF Moves, Mod, ImportInv, ThreadTypes, ATypes, Acquiring
  <2>2. OwnerInv'
    BY <1>0, <1>1, <1>2, <1>5, <2>1, OwnerKept
  <2>3. WakeInv'
    <3>1. \A n \in Module : Awake(n)' = Awake(n)
      BY <1>0, <1>2, <1>5 DEF ImportInv, ThreadTypes, Awake, Mod
    <3>2. \A u \in Importer \ {t} : at'[u] \in Mutex =>
            /\ at[u] \in Mutex /\ Mod(u)' = Mod(u) /\ Mod(u) \in Module /\ Mod(u) # m
      BY <1>0, <1>2, <1>5, ImportAssumption
         DEF ImportInv, ThreadTypes, WakeInv, Mod, Mutex, Acquiring
    <3>3. Mod(t)' = m /\ mutex'[m] = t /\ count'[m] > 0
      BY <1>0, <1>2, <1>3, <1>5 DEF ImportInv, LockTypes, Mod
    <3> HIDE DEF Awake
    <3>4. \A u \in Importer : at'[u] \in Mutex => mutex'[Mod(u)'] = u /\ count'[Mod(u)'] > 0
      BY <1>0, <1>2, <1>5, <3>2, <3>3 DEF ImportInv, WakeInv, LockTypes
    <3> QED BY <1>0, <1>2, <1>5, <3>1, <3>4 DEF ImportInv, WakeInv
  <2>4. LockTypes'
    BY <1>0, <1>2, <1>5 DEF ImportInv, LockTypes
  <2> QED BY <1>0, <1>1, <2>1, <2>2, <2>3, <2>4, ThreadTypesKept DEF ImportInv, SameCode
<1> QED BY <1>0, <1>4, <1>5 DEF AcquireModule, Available, GoTo

\* The code of a module begins.
LEMMA LoadKeeps ==
  ASSUME ImportInv, NEW t \in Importer, Load(t)
  PROVE  ImportInv'
<1>0. PICK m \in Module : m = Mod(t)
  BY DEF Load, ImportInv, ThreadTypes, Acquiring
<1>1. /\ at[t] = "locked" /\ m \in Module /\ modules[m] = "absent"
      /\ modules' = [modules EXCEPT ![m] = "initializing"]
      /\ stack' = [stack EXCEPT ![t] = Append(@, [of |-> m, next |-> 1])]
      /\ at' = [at EXCEPT ![t] = "run"]
      /\ UNCHANGED <<owner, count, lock_waiters, wakeup, mutex, goal>>
  BY <1>0 DEF Load, MustLoad, GoTo, lockVars, ImportInv, ThreadTypes, Acquiring
<1>2. ~Executes(t, m) /\ owner[m] = t /\ count[m] >= 1
  BY <1>0, <1>1 DEF ImportInv, OwnerInv, Holds
<1>3. /\ stack' \in [Importer -> Seq(FrameType)] /\ StackInv'
      /\ \A u \in Importer : \A n \in Module :
           Executes(u, n)' <=> Executes(u, n) \/ (u = t /\ n = m)
      /\ \A u \in Importer \ {t} : stack'[u] = stack[u]
  BY <1>0, <1>1, <1>2, PushStack DEF ImportInv
<1>4. Moves(t, "run")
  BY <1>0, <1>1 DEF Moves, ImportInv, ThreadTypes, ATypes, Acquiring
<1>5. LockTypes'
  BY <1>0, <1>1 DEF ImportInv, LockTypes
<1>6. \A u \in Importer \ {t} : Top(u)' = Top(u) /\ at'[u] = at[u]
  BY <1>0, <1>1, <1>3 DEF Top, ImportInv, ThreadTypes
<1>7. OwnerInv'
  <2>1. \A u \in Importer, n \in Module : Holds(u, n)' => Holds(u, n)
    BY <1>0, <1>1 DEF ImportInv, ThreadTypes, Holds, Mod
  <2>2. at'[t] = "run"
    BY <1>0, <1>1 DEF ImportInv, ThreadTypes
  <2>3. modules'[m] = "initializing" /\ \A n \in Module \ {m} : modules'[n] = modules[n]
    BY <1>0, <1>1 DEF ImportInv, LockTypes
  <2>4. ~Holds(t, m)'
    BY <1>0, <2>2 DEF Holds
  <2> HIDE DEF Executes, Holds, Top
  <2>5. ASSUME NEW u \in Importer, NEW n \in Module
        PROVE  /\ Executes(u, n)' \/ Holds(u, n)' => owner'[n] = u /\ count'[n] >= 1
               /\ Executes(u, n)' /\ Holds(u, n)' => count'[n] >= 2
    BY <1>0, <1>1, <1>2, <1>3, <2>1, <2>4 DEF ImportInv, OwnerInv
  <2>6. ASSUME NEW u \in Importer, NEW n \in Module
        PROVE  /\ Executes(u, n)' => \/ modules'[n] = "initializing"
                                     \/ at'[u] \in {"loaded", "unloaded"} /\ Top(u)'.of = n
               /\ at'[u] \in {"loaded", "unloaded"} => Len(stack'[u]) >= 2
    BY <1>0, <1>1, <1>3, <1>6, <2>2, <2>3 DEF ImportInv, OwnerInv
  <2> QED BY <1>0, <2>5, <2>6 DEF OwnerInv
<1>8. WakeInv'
  BY <1>0, <1>1, <1>4, WakeKept DEF Mutex
<1> QED BY <1>0, <1>3, <1>4, <1>5, <1>7, <1>8, ThreadTypesKept DEF ImportInv

\* The code of a module is over or raises.
LEMMA ExecutedKeeps ==
  ASSUME ImportInv, NEW t \in Importer, Executed(t)
  PROVE  ImportInv'
<1>0. PICK m \in Module : m = Top(t).of
  BY DEF Executed, ImportInv, ThreadTypes, Acquiring
<1>1. /\ at[t] \in {"run", "raise"} /\ m \in Module
      /\ UNCHANGED <<owner, count, lock_waiters, wakeup, mutex, goal, stack>>
  BY <1>0 DEF Executed, lockVars
<1>2. PICK l \in {"loaded", "unloaded"} :
        /\ at' = [at EXCEPT ![t] = l]
        /\ modules' = [modules EXCEPT ![m] = IF l = "loaded" THEN "ready" ELSE "absent"]
  BY <1>0 DEF Executed, GoTo
<1>3. SameCode
  BY <1>0, <1>1, KeepStack DEF ImportInv
<1>4. Moves(t, l)
  BY <1>0, <1>1, <1>2 DEF Moves, ImportInv, ThreadTypes, ATypes, Acquiring
<1>5. Executes(t, m) /\ Len(stack[t]) >= 2
  BY <1>0, <1>1, TopIs DEF ImportInv
<1>6. LockTypes'
  BY <1>0, <1>1, <1>2 DEF ImportInv, LockTypes
<1>7. OwnerInv'
  <2>1. \A u \in Importer, n \in Module : Holds(u, n)' => Holds(u, n)
    BY <1>0, <1>1, <1>2 DEF ImportInv, ThreadTypes, Holds, Mod
  <2>2. /\ at'[t] = l /\ \A u \in Importer \ {t} : at'[u] = at[u]
        /\ \A n \in Module \ {m} : modules'[n] = modules[n]
    BY <1>0, <1>2 DEF ImportInv, LockTypes, ThreadTypes
  <2>3. Top(t)'.of = m
    BY <1>0, <1>3 DEF SameCode
  <2> HIDE DEF Executes, Holds, Top
  <2>4. \A u \in Importer : Executes(u, m) => u = t
    BY <1>0, <1>1, <1>5 DEF ImportInv, OwnerInv
  <2>5. ASSUME NEW u \in Importer, NEW n \in Module
        PROVE  /\ Executes(u, n)' \/ Holds(u, n)' => owner'[n] = u /\ count'[n] >= 1
               /\ Executes(u, n)' /\ Holds(u, n)' => count'[n] >= 2
    BY <1>0, <1>1, <1>3, <2>1 DEF ImportInv, OwnerInv, SameCode
  <2>6. ASSUME NEW u \in Importer, NEW n \in Module
        PROVE  /\ Executes(u, n)' => \/ modules'[n] = "initializing"
                                     \/ at'[u] \in {"loaded", "unloaded"} /\ Top(u)'.of = n
               /\ at'[u] \in {"loaded", "unloaded"} => Len(stack'[u]) >= 2
    BY <1>0, <1>1, <1>2, <1>3, <1>5, <2>2, <2>3, <2>4 DEF ImportInv, OwnerInv, SameCode
  <2> QED BY <1>0, <2>5, <2>6 DEF OwnerInv
<1>8. WakeInv'
  BY <1>0, <1>1, <1>2, <1>4, WakeKept DEF Mutex
<1> QED BY <1>0, <1>3, <1>4, <1>6, <1>7, <1>8, ThreadTypesKept DEF ImportInv, SameCode

\* release() of a lock that t owns and executes or holds once less.
LEMMA Released ==
  ASSUME ImportInv, NEW t \in Importer, NEW m \in Module, ReleaseModule(m),
         NEW l, Moves(t, l), at[t] \notin Mutex \cup {"awake"}, l \notin Mutex \cup {"awake"},
         owner[m] = t, count[m] >= 1
  PROVE  /\ LockTypes' \/ modules' # modules
         /\ WakeInv'
         /\ \A n \in Module \ {m} : owner'[n] = owner[n] /\ count'[n] = count[n]
         /\ count'[m] = count[m] - 1
         /\ count[m] >= 2 => owner'[m] = t
<1>1. /\ mutex[m] = Nobody /\ mutex' = mutex
      /\ count' = [count EXCEPT ![m] = @ - 1]
      /\ owner' = [owner EXCEPT ![m] = IF count[m] = 1 THEN Nobody ELSE @]
      /\ \/ /\ count[m] = 1 /\ lock_waiters[m] > 0
            /\ lock_waiters' = [lock_waiters EXCEPT ![m] = @ - 1]
            /\ wakeup' = [wakeup EXCEPT ![m] = FALSE]
         \/ /\ ~(count[m] = 1 /\ lock_waiters[m] > 0)
            /\ UNCHANGED <<lock_waiters, wakeup>>
  BY DEF ReleaseModule, WakeOne
<1>2. count[m] \in Nat /\ lock_waiters[m] \in 0 .. 1
  BY DEF ImportInv, LockTypes
<1>3. /\ count'[m] = count[m] - 1 /\ count'[m] \in Nat
      /\ count[m] >= 2 => owner'[m] = t
      /\ \A n \in Module \ {m} : /\ owner'[n] = owner[n] /\ count'[n] = count[n]
                                 /\ lock_waiters'[n] = lock_waiters[n] /\ wakeup'[n] = wakeup[n]
  BY <1>1, <1>2 DEF ImportInv, LockTypes
<1>4. LockTypes' \/ modules' # modules
  <2>1. count' \in [Module -> Nat] /\ owner' \in [Module -> Importer \cup {Nobody}]
    BY <1>1, <1>2 DEF ImportInv, LockTypes
  <2>2. lock_waiters[m] > 0 => lock_waiters[m] - 1 \in 0 .. 1
    BY <1>2
  <2>3. lock_waiters' \in [Module -> 0 .. 1] /\ wakeup' \in [Module -> BOOLEAN]
    BY <1>1, <2>2 DEF ImportInv, LockTypes
  <2> QED BY <1>1, <2>1, <2>3 DEF ImportInv, LockTypes
<1>5. WakeInv'
  <2>1. \A n \in Module : Awake(n)' = Awake(n)
    BY DEF ImportInv, ThreadTypes, Awake, Moves, Mod
  <2>2. \A u \in Importer : at'[u] \in Mutex =>
          /\ at[u] \in Mutex /\ Mod(u)' = Mod(u) /\ Mod(u) \in Module /\ mutex[Mod(u)] = u
          /\ count[Mod(u)] > 0
    BY DEF ImportInv, ThreadTypes, WakeInv, Moves, Mod, Mutex, Acquiring
  <2>3. \A u \in Importer : at'[u] \in Mutex => mutex'[Mod(u)'] = u /\ count'[Mod(u)'] > 0
    <3> SUFFICES ASSUME NEW u \in Importer, at'[u] \in Mutex
                 PROVE  mutex'[Mod(u)'] = u /\ count'[Mod(u)'] > 0
      OBVIOUS
    <3>1. Mod(u) # m
      BY <1>1, <2>2, ImportAssumption
    <3> QED BY <1>1, <1>3, <2>2, <3>1
  <2> HIDE DEF Awake
  <2>4. /\ \A u, v \in Awake(m) : u = v
        /\ Awake(m) # {} => wakeup[m] /\ lock_waiters[m] = 0
        /\ lock_waiters[m] = 1 => wakeup[m] /\ count[m] > 0
        /\ wakeup[m] => lock_waiters[m] = 1 \/ Awake(m) # {}
    BY DEF ImportInv, WakeInv
  <2>5. \/ /\ count[m] = 1 /\ lock_waiters[m] = 1
           /\ lock_waiters'[m] = 0 /\ wakeup'[m] = FALSE
        \/ /\ ~(count[m] = 1 /\ lock_waiters[m] > 0)
           /\ lock_waiters'[m] = lock_waiters[m] /\ wakeup'[m] = wakeup[m]
    BY <1>1, <1>2 DEF ImportInv, LockTypes
  <2> DEFINE aw == Awake(m)
             c == count[m]
             d == count'[m]
             w == lock_waiters[m]
             x == lock_waiters'[m]
  <2>6. d = c - 1 /\ c \in Nat /\ w \in 0 .. 1 /\ c >= 1
    BY <1>2, <1>3
  <2>7. /\ aw # {} => wakeup'[m] /\ x = 0
        /\ x = 1 => wakeup'[m] /\ d > 0
        /\ wakeup'[m] => x = 1 \/ aw # {}
    <3> HIDE DEF aw, c, d, w, x
    <3> QED BY <2>4, <2>5, <2>6 DEF aw, c, w, x
  <2>8. \A n \in Module \ {m} :
          /\ \A u, v \in Awake(n) : u = v
          /\ Awake(n) # {} => wakeup'[n] /\ lock_waiters'[n] = 0
          /\ lock_waiters'[n] = 1 => wakeup'[n] /\ count'[n] > 0
          /\ wakeup'[n] => lock_waiters'[n] = 1 \/ Awake(n) # {}
    BY <1>3 DEF ImportInv, WakeInv
  <2> QED BY <2>1, <2>3, <2>4, <2>7, <2>8 DEF WakeInv
<1> QED BY <1>3, <1>4, <1>5

\* A lock that was taken only to look is let go.
LEMMA LetGoKeeps ==
  ASSUME ImportInv, NEW t \in Importer, LetGo(t)
  PROVE  ImportInv'
<1>0. PICK m \in Module : m = Mod(t)
  BY DEF LetGo, ImportInv, ThreadTypes, Acquiring
<1>1. /\ at[t] = "locked" /\ ReleaseModule(m) /\ modules' = modules
  BY <1>0 DEF LetGo
<1>2. Holds(t, m) /\ owner[m] = t /\ count[m] >= 1 /\ (Executes(t, m) => count[m] >= 2)
  BY <1>0, <1>1 DEF ImportInv, OwnerInv, Holds
<1>3. SameCode
  <2>1. stack' = stack \/ stack' = [stack EXCEPT ![t] = NextStatement(@)]
    BY DEF LetGo
  <2> QED BY <2>1, KeepStack DEF ImportInv
<1>4. PICK l \in {"run", "acquire"} : Moves(t, l)
  <2>1. CASE UNCHANGED goal /\ at' = [at EXCEPT ![t] = "run"]
    BY <1>1, <2>1 DEF Moves, ImportInv, ThreadTypes, ATypes, Acquiring
  <2>2. CASE /\ goal' = [goal EXCEPT ![t] = [mod |-> m, how |-> "wait"]]
             /\ at' = [at EXCEPT ![t] = "acquire"]
    BY <1>0, <1>1, <2>2 DEF Moves, ImportInv, ThreadTypes, ATypes, Acquiring, GoalType, Mod
  <2> QED BY <1>0, <2>1, <2>2 DEF LetGo, WantLock, GoTo
<1>5. /\ LockTypes' /\ WakeInv'
      /\ \A n \in Module \ {m} : owner'[n] = owner[n] /\ count'[n] = count[n]
      /\ count'[m] = count[m] - 1 /\ (count[m] >= 2 => owner'[m] = t)
  BY <1>1, <1>2, <1>4, Released DEF Mutex
<1>6. OwnerInv'
  <2>1. \A u \in Importer, n \in Module : Holds(u, n)' => Holds(u, n) /\ u # t
    BY <1>4 DEF ImportInv, ThreadTypes, Holds, Mod, Moves
  <2>2. \A u \in Importer : at'[u] \in {"loaded", "unloaded"} <=> at[u] \in {"loaded", "unloaded"}
    BY <1>1, <1>4 DEF ImportInv, ThreadTypes, Moves
  <2>3. count[m] \in Nat /\ \A u \in Importer : Executes(u, m) \/ Holds(u, m) => u = t
    BY <1>2 DEF ImportInv, OwnerInv, LockTypes
  <2> HIDE DEF Executes, Holds, Top
  <2>4. ASSUME NEW u \in Importer
        PROVE  /\ Executes(u, m)' \/ Holds(u, m)' => owner'[m] = u /\ count'[m] >= 1
               /\ Executes(u, m)' /\ Holds(u, m)' => count'[m] >= 2
    BY <1>2, <1>3, <1>5, <2>1, <2>3 DEF SameCode
  <2>5. ASSUME NEW u \in Importer, NEW n \in Module \ {m}
        PROVE  /\ Executes(u, n)' \/ Holds(u, n)' => owner'[n] = u /\ count'[n] >= 1
               /\ Executes(u, n)' /\ Holds(u, n)' => count'[n] >= 2
    BY <1>3, <1>5, <2>1 DEF ImportInv, OwnerInv, SameCode
  <2>6. ASSUME NEW u \in Importer, NEW n \in Module
        PROVE  /\ Executes(u, n)' => \/ modules'[n] = "initializing"
                                     \/ at'[u] \in {"loaded", "unloaded"} /\ Top(u)'.of = n
               /\ at'[u] \in {"loaded", "unloaded"} => Len(stack'[u]) >= 2
    BY <1>1, <1>3, <2>2 DEF ImportInv, OwnerInv, SameCode
  <2> QED BY <2>4, <2>5, <2>6 DEF OwnerInv
<1> QED BY <1>3, <1>4, <1>5, <1>6, ThreadTypesKept DEF ImportInv, SameCode

\* The with statement of _find_and_load() ends.
LEMMA LeaveKeeps ==
  ASSUME ImportInv, NEW t \in Importer, Leave(t)
  PROVE  ImportInv'
<1>1. Len(stack[t]) >= 2 /\ at[t] \in {"loaded", "unloaded"}
  BY DEF Leave, ImportInv, StackInv, ThreadTypes, OwnerInv
<1>2. PICK m \in Module : m = Top(t).of /\ Executes(t, m)
  BY <1>1, TopIs DEF ImportInv
<1>3. /\ ReleaseModule(m) /\ UNCHANGED <<modules, goal>>
      /\ stack' = [stack EXCEPT ![t] = NextStatement(Front(@))]
  BY <1>2 DEF Leave
<1>4. PICK l \in {"run", "raise"} : Moves(t, l)
  <2>1. PICK l \in {"run", "raise"} : at' = [at EXCEPT ![t] = l]
    BY DEF Leave, GoTo
  <2> QED BY <1>1, <1>3, <2>1 DEF Moves, ImportInv, ThreadTypes, ATypes, Acquiring
<1>5. owner[m] = t /\ count[m] >= 1 /\ count[m] \in Nat
  BY <1>2 DEF ImportInv, OwnerInv, LockTypes
<1>6. /\ LockTypes' /\ WakeInv'
      /\ \A n \in Module \ {m} : owner'[n] = owner[n] /\ count'[n] = count[n]
      /\ count'[m] = count[m] - 1 /\ (count[m] >= 2 => owner'[m] = t)
  BY <1>1, <1>3, <1>4, <1>5, Released DEF Mutex
<1>7. /\ stack' \in [Importer -> Seq(FrameType)] /\ StackInv'
      /\ \A u \in Importer : \A n \in Module :
           Executes(u, n)' <=> Executes(u, n) /\ ~(u = t /\ n = m)
      /\ \A u \in Importer \ {t} : stack'[u] = stack[u]
  BY <1>1, <1>2, <1>3, PopStack DEF ImportInv
<1>8. OwnerInv'
  <2>1. \A u \in Importer, n \in Module : Holds(u, n)' => Holds(u, n) /\ u # t
    BY <1>4 DEF ImportInv, ThreadTypes, Holds, Mod, Moves
  <2>2. /\ at'[t] \notin {"loaded", "unloaded"}
        /\ \A u \in Importer \ {t} : at'[u] = at[u] /\ Top(u)' = Top(u)
    BY <1>4, <1>7 DEF ImportInv, ThreadTypes, Moves, Top
  <2>3. \A u \in Importer : Executes(u, m) \/ Holds(u, m) => u = t
    BY <1>5 DEF ImportInv, OwnerInv
  <2>4. \A n \in Module \ {m} : Executes(t, n) => modules[n] = "initializing"
    BY <1>2 DEF ImportInv, OwnerInv
  <2> HIDE DEF Executes, Holds, Top
  <2>5. ASSUME NEW u \in Importer, NEW n \in Module
        PROVE  /\ Executes(u, n)' \/ Holds(u, n)' => owner'[n] = u /\ count'[n] >= 1
               /\ Executes(u, n)' /\ Holds(u, n)' => count'[n] >= 2
    BY <1>6, <1>7, <2>1, <2>3 DEF ImportInv, OwnerInv
  <2>6. ASSUME NEW u \in Importer, NEW n \in Module
        PROVE  /\ Executes(u, n)' => \/ modules'[n] = "initializing"
                                     \/ at'[u] \in {"loaded", "unloaded"} /\ Top(u)'.of = n
               /\ at'[u] \in {"loaded", "unloaded"} => Len(stack'[u]) >= 2
    BY <1>3, <1>7, <2>2, <2>4 DEF ImportInv, OwnerInv
  <2> QED BY <2>5, <2>6 DEF OwnerInv
<1> QED BY <1>4, <1>6, <1>7, <1>8, ThreadTypesKept DEF ImportInv

------------------------------------------------------------------------------
(* Theorems                                                                *)

\* Nothing is imported, every thread is at the head of its program.
LEMMA ImportsBegin == ImportInit => ImportInv
<1> SUFFICES ASSUME ImportInit PROVE ImportInv
  OBVIOUS
<1> USE ImportAssumption
<1>1. LockTypes
  BY DEF ImportInit, LockTypes
<1>2. \A t \in Importer :
        /\ stack[t] = <<[of |-> t, next |-> 1]>> /\ at[t] = "run"
        /\ [of |-> t, next |-> 1] \in FrameType
  BY DEF ImportInit, FrameType
<1>3. \A t \in Importer : /\ stack[t] \in Seq(FrameType) /\ Len(stack[t]) = 1
                          /\ stack[t][1].of = t
  <2> SUFFICES ASSUME NEW t \in Importer
               PROVE  /\ stack[t] \in Seq(FrameType) /\ Len(stack[t]) = 1
                      /\ stack[t][1].of = t
    OBVIOUS
  <2> DEFINE f == [of |-> t, next |-> 1]
  <2>1. f \in FrameType /\ f.of = t /\ stack[t] = <<f>>
    BY <1>2
  <2> HIDE DEF f
  <2> QED BY <2>1
<1>4. ThreadTypes
  <2>1. stack \in [Importer -> Seq(FrameType)]
    BY <1>3 DEF ImportInit
  <2> QED BY <2>1 DEF ImportInit, ThreadTypes, GoalType, ATypes, Acquiring
<1>5. StackInv /\ \A t \in Importer : \A m \in Module : ~Executes(t, m)
  BY <1>3 DEF StackInv, Executes
<1>6. OwnerInv
  BY <1>2, <1>5 DEF OwnerInv, Holds
<1>7. WakeInv
  BY <1>2 DEF ImportInit, WakeInv, Awake, Mutex
<1> QED BY <1>1, <1>4, <1>5, <1>6, <1>7 DEF ImportInv

\* Every step of a thread keeps the invariant.
LEMMA ImportsStep ==
  ASSUME ImportInv, NEW t \in Importer, ImportStep(t)
  PROVE  ImportInv'
BY ImportKeeps, AcquireKeeps, WalkKeeps, SleepKeeps, LoadKeeps, LetGoKeeps,
   ExecutedKeeps, LeaveKeeps DEF ImportStep

\* The inductive invariant of the import locks.
LEMMA ImportInvariant == LocksSpec => []ImportInv
<1>1. ImportInv /\ [ImportNext]_importVars => ImportInv'
  <2>1. ASSUME ImportInv, UNCHANGED importVars PROVE ImportInv'
    <3>1. LockTypes' /\ ThreadTypes' /\ StackInv'
      BY <2>1 DEF ImportInv, LockTypes, ThreadTypes, StackInv, Mod, importVars, lockVars,
                  threadVars
    <3>2. OwnerInv' /\ WakeInv'
      BY <2>1 DEF ImportInv, OwnerInv, WakeInv, Executes, Holds, Top, Mod, Awake,
                  importVars, lockVars, threadVars
    <3> QED BY <3>1, <3>2 DEF ImportInv
  <2> QED BY <2>1, ImportsStep DEF ImportNext
<1> QED BY <1>1, ImportsBegin, PTL DEF LocksSpec

\* One frame of one thread at most executes a module, and that thread owns its lock.
LEMMA LoaderIsOne == ImportInv => OneLoader
<1> SUFFICES ASSUME ImportInv, NEW m \in Module, NEW e \in Executions(m)
             PROVE  /\ Executions(m) = {e} /\ owner[m] = e[1]
                    /\ modules[m] = "initializing" \/ at[e[1]] \in {"loaded", "unloaded"}
  BY DEF OneLoader
<1>1. ASSUME NEW d \in Executions(m)
      PROVE  \E t \in Importer : \E i \in 2 .. Len(stack[t]) :
               d = <<t, i>> /\ stack[t][i].of = m /\ Executes(t, m)
  <2>1. PICK t \in Importer : d \in {t} \X Frames(t, m)
    BY <1>1 DEF Executions
  <2>2. PICK i \in DOMAIN stack[t] : d = <<t, i>> /\ stack[t][i].of = m
    BY <2>1 DEF Frames
  <2>3. i \in 1 .. Len(stack[t]) /\ Len(stack[t]) \in Nat
    BY LenProperties DEF ImportInv, ThreadTypes
  <2>4. i # 1
    BY <2>2, ImportAssumption DEF ImportInv, StackInv
  <2>5. i \in 2 .. Len(stack[t])
    BY <2>3, <2>4
  <2> QED BY <2>2, <2>5 DEF Executes
<1>2. PICK t \in Importer : \E i \in 2 .. Len(stack[t]) :
        e = <<t, i>> /\ stack[t][i].of = m /\ Executes(t, m)
  BY <1>1
<1> PICK i \in 2 .. Len(stack[t]) : e = <<t, i>> /\ stack[t][i].of = m /\ Executes(t, m)
  BY <1>2
<1>3. /\ owner[m] = t
      /\ modules[m] = "initializing" \/ at[t] \in {"loaded", "unloaded"}
  BY <1>2 DEF ImportInv, OwnerInv
<1>4. ASSUME NEW d \in Executions(m) PROVE d = e
  <2>1. PICK u \in Importer : \E j \in 2 .. Len(stack[u]) :
          d = <<u, j>> /\ stack[u][j].of = m /\ Executes(u, m)
    BY <1>1
  <2> PICK j \in 2 .. Len(stack[u]) : d = <<u, j>> /\ stack[u][j].of = m /\ Executes(u, m)
    BY <2>1
  <2>2. u = t
    BY <1>3, <2>1 DEF ImportInv, OwnerInv
  <2>3. j = i
    BY <1>2, <2>1, <2>2 DEF ImportInv, StackInv
  <2> QED BY <1>2, <2>1, <2>2, <2>3
<1> QED BY <1>2, <1>3, <1>4

\* A module is executed by one thread at a time, which owns its lock, and never
\* again once it is ready: whatever threads see of sys.modules without the lock.
THEOREM ModulesAreLoadedOnce == LocksSpec => LoadedOnce
<1>1. ImportInv /\ ImportInv' /\ [ImportNext]_importVars =>
        [/\ OneLoader'
         /\ \A m \in Module : modules[m] = "ready" => modules'[m] = "ready"]_importVars
  <2> SUFFICES ASSUME ImportInv, ImportInv', NEW t \in Importer, ImportStep(t)
               PROVE  /\ OneLoader'
                      /\ \A m \in Module : modules[m] = "ready" => modules'[m] = "ready"
    BY DEF ImportNext
  <2>1. OneLoader'
    BY LoaderIsOne, PTL
  <2>2. ASSUME NEW m \in Module, modules[m] = "ready" PROVE modules'[m] = "ready"
    <3>1. CASE Load(t)
      BY <2>2, <3>1 DEF Load, MustLoad, ImportInv, LockTypes
    <3>2. CASE Executed(t)
      <4>1. Top(t).of \in Module /\ at[t] \in {"run", "raise"}
        BY <3>2 DEF Executed
      <4>2. Executes(t, Top(t).of)
        BY <4>1, TopIs DEF ImportInv
      <4>3. Top(t).of # m
        BY <2>2, <4>1, <4>2 DEF ImportInv, OwnerInv
      <4> QED BY <2>2, <3>2, <4>3 DEF Executed, ImportInv, LockTypes
    <3>3. CASE modules' = modules
      BY <2>2, <3>3
    <3> QED BY <3>1, <3>2, <3>3 DEF ImportStep, Import, AcquireModule, Look, Follow, Enlist,
                                    Sleep, LetGo, Leave
  <2> QED BY <2>1, <2>2
<1> QED BY <1>1, ImportInvariant, PTL DEF LocksSpec, LoadedOnce

\* No thread sleeps in _ModuleLock.acquire() while the lock is free and its
\* "wakeup" held, unless another one is awake and lets the next pass.
SleepersLeave == \A t \in Importer :
  at[t] = "sleep" /\ count[Mod(t)] = 0 =>
    ~wakeup[Mod(t)] \/ \E u \in Importer : at[u] = "awake" /\ Mod(u) = Mod(t)

\* _ModuleLock.acquire() and release() forget nobody: who can take the lock has
\* been woken, or will be by the thread that is.
THEOREM SleepersAreWoken == LocksSpec => []SleepersLeave
<1>1. ImportInv => SleepersLeave
  <2> SUFFICES ASSUME ImportInv, NEW t \in Importer, at[t] = "sleep", count[Mod(t)] = 0,
                      wakeup[Mod(t)]
               PROVE  \E u \in Importer : at[u] = "awake" /\ Mod(u) = Mod(t)
    BY DEF SleepersLeave
  <2>1. Mod(t) \in Module
    BY DEF ImportInv, ThreadTypes, Acquiring
  <2>2. Awake(Mod(t)) # {}
    BY <2>1 DEF ImportInv, WakeInv
  <2> QED BY <2>2 DEF Awake
<1> QED BY <1>1, ImportInvariant, PTL

==============================================================================
