----------------------------- MODULE GilProofs -------------------------------
(***************************************************************************)
(* Theorems about Gil, for every set of threads, every SwitchModulo and    *)
(* every choice of Blocking.                                               *)
(***************************************************************************)
EXTENDS Gil, TLAPS

\* Every action of one thread, for the case splits below.
LEMMA NextCases ==
  ASSUME NEW t \in Thread, Step(t) \/ Optional(t)
  PROVE  \/ TakeEntry(t) \/ TakeLock(t) \/ CondTimeout(t) \/ CondWoken(t)
         \/ CondTimedOut(t) \/ SetBreaker(t) \/ ExitReset(t)
         \/ TakeReady(t) \/ AfterTake(t) \/ TakeReset(t)
         \/ DropUnlock(t) \/ DropCheck(t) \/ DropSwitch(t) \/ SwitchWoken(t)
         \/ BreakerLoad(t) \/ BreakerStore(t)
         \/ CheckBreaker(t) \/ RunBytecode(t) \/ HandlePending(t)
         \/ RestoreThread(t) \/ SaveThread(t) \/ SetFinalizing(t)
         \/ SpuriousCond(t) \/ SpuriousSwitch(t)
  BY DEF Step, Optional, TakeGil, DropGil, Compute, EvalLoop

------------------------------------------------------------------------------
(* Type correctness.                                                       *)

\* The types of all the variables hold throughout: in particular take_gil()
\* and drop_gil() keep every thread at a point of the code, last_holder is
\* never NULL and only Main becomes _finalizing.
THEOREM TypeCorrect == Spec => []TypeOK
<1>1. Init => TypeOK
  <2> SUFFICES ASSUME Init PROVE TypeOK
    OBVIOUS
  <2>1. Main \in Thread /\ NoThread \in {Main, NoThread}
    BY GilAssumption
  <2>2. 0 \in 0 .. SwitchModulo - 1
    BY GilAssumption
  <2>3. {"outside", "eval"} \subseteq PC
    BY DEF PC, Holding
  <2> QED BY <2>1, <2>2, <2>3 DEF Init, TypeOK
<1>2. TypeOK /\ [Next]_vars => TypeOK'
  <2> SUFFICES ASSUME TypeOK, [Next]_vars PROVE TypeOK'
    OBVIOUS
  <2>1. CASE UNCHANGED vars
    BY <2>1 DEF TypeOK, vars, gilvars, flags, locals
  <2>2. ASSUME NEW t \in Thread, Step(t) \/ Optional(t) PROVE TypeOK'
    <3> USE GilAssumption DEF TypeOK, gilvars, flags, locals, Goto
    <3>1. CASE TakeEntry(t)
      BY <3>1 DEF TakeEntry, PC, Taking, Exiting
    <3>2. CASE TakeLock(t)
      BY <3>2 DEF TakeLock, TestLocked, PC, Taking, WaitLoop
    <3>3. CASE CondTimeout(t)
      BY <3>3 DEF CondTimeout, PC, Taking, WaitLoop
    <3>4. CASE CondWoken(t)
      BY <3>4 DEF CondWoken, TestLocked, PC, Taking, WaitLoop
    <3>5. CASE CondTimedOut(t)
      <4>1. /\ pc' \in [Thread -> PC] /\ mutex' \in Thread \cup {NoThread}
            /\ saved_switchnum' \in [Thread -> 0 .. SwitchModulo - 1]
        BY <3>5 DEF CondTimedOut, TestLocked, PC, Taking, WaitLoop, Exiting
      <4>2. gil_drop_request' \in BOOLEAN
        BY <3>5 DEF CondTimedOut
      <4> QED BY <3>5, <4>1, <4>2 DEF CondTimedOut
    <3>6. CASE SetBreaker(t)
      BY <3>6 DEF SetBreaker, TestLocked, PC, Taking, WaitLoop
    <3>7. CASE ExitReset(t)
      BY <3>7 DEF ExitReset, PC, Exiting
    <3>8. CASE TakeReady(t)
      <4>1. (switch_number + 1) % SwitchModulo \in 0 .. SwitchModulo - 1
        BY DEF TypeOK
      <4>2. pc' \in [Thread -> PC]
        BY <3>8 DEF TakeReady, SignalSwitchCond, PC, Holding, Dropping
      <4> QED BY <3>8, <4>1, <4>2 DEF TakeReady
    <3>9. CASE AfterTake(t)
      BY <3>9 DEF AfterTake, PC, Holding
    <3>10. CASE TakeReset(t)
      BY <3>10 DEF TakeReset, PC, Holding
    <3>11. CASE DropUnlock(t)
      BY <3>11 DEF DropUnlock, SignalCond, PC, Taking, WaitLoop, Dropping
    <3>12. CASE DropCheck(t)
      BY <3>12 DEF DropCheck, PC, Taking, Dropping, Exiting
    <3>13. CASE DropSwitch(t)
      BY <3>13 DEF DropSwitch, PC, Taking, Dropping, Exiting
    <3>14. CASE SwitchWoken(t)
      BY <3>14 DEF SwitchWoken, PC, Taking, Exiting
    <3>15. CASE BreakerLoad(t)
      BY <3>15 DEF BreakerLoad, PC, Holding, Dropping, Exiting
    <3>16. CASE BreakerStore(t)
      BY <3>16 DEF BreakerStore, PC, Holding, Dropping, Exiting
    <3>17. CASE CheckBreaker(t)
      BY <3>17 DEF CheckBreaker, PC, Holding
    <3>18. CASE RunBytecode(t)
      BY <3>18 DEF RunBytecode, vars
    <3>19. CASE HandlePending(t)
      BY <3>19 DEF HandlePending, PC, Holding
    <3>20. CASE RestoreThread(t)
      BY <3>20 DEF RestoreThread, PC, Taking
    <3>21. CASE SaveThread(t)
      BY <3>21 DEF SaveThread, PC, Holding
    <3>22. CASE SetFinalizing(t)
      BY <3>22 DEF SetFinalizing
    <3>23. CASE SpuriousCond(t)
      BY <3>23 DEF SpuriousCond, PC, Taking, WaitLoop
    <3>24. CASE SpuriousSwitch(t)
      BY <3>24 DEF SpuriousSwitch, PC, Dropping
    <3> HIDE DEF TypeOK
    <3> QED
      BY <2>2, NextCases, <3>1, <3>2, <3>3, <3>4, <3>5, <3>6, <3>7, <3>8,
         <3>9, <3>10, <3>11, <3>12, <3>13, <3>14, <3>15, <3>16, <3>17, <3>18,
         <3>19, <3>20, <3>21, <3>22, <3>23, <3>24
  <2> QED BY <2>1, <2>2 DEF Next
<1> QED BY <1>1, <1>2, PTL DEF Spec

------------------------------------------------------------------------------
(* Mutual exclusion.                                                       *)

\* Who is inside a mutex is at a point of the code that the mutex protects;
\* gil->locked and gil->last_holder name the thread that holds the GIL.  A
\* thread at _ready still finds the GIL free because it keeps gil->mutex.
LockInv == \A t \in Thread :
  /\ mutex = t <=> pc[t] \in InMutex
  /\ switch_mutex = t <=> pc[t] \in InSwitchMutex
  /\ pc[t] = "ready" => ~locked
  /\ pc[t] = "set_breaker" => locked
  /\ pc[t] \in Holding => locked /\ last_holder = t
  /\ locked /\ last_holder = t => pc[t] \in Holding

\* The conjuncts of LockInv are inductive together.
LEMMA LockInvStep == TypeOK /\ LockInv /\ [Next]_vars => LockInv'
<1> SUFFICES ASSUME TypeOK, LockInv, [Next]_vars PROVE LockInv'
  OBVIOUS
<1>1. CASE UNCHANGED vars
  BY <1>1 DEF LockInv, vars, gilvars, flags, locals
<1>2. ASSUME NEW t \in Thread, Step(t) \/ Optional(t) PROVE LockInv'
  <2> USE GilAssumption DEF TypeOK, LockInv, gilvars, flags, locals, Goto,
          InMutex, InSwitchMutex, Holding
  <2>1. CASE TakeEntry(t)
    BY <2>1 DEF TakeEntry
  <2>2. CASE TakeLock(t)
    BY <2>2 DEF TakeLock, TestLocked
  <2>3. CASE CondTimeout(t)
    BY <2>3 DEF CondTimeout
  <2>4. CASE CondWoken(t)
    BY <2>4 DEF CondWoken, TestLocked
  <2>5. CASE CondTimedOut(t)
    BY <2>5 DEF CondTimedOut, TestLocked
  <2>6. CASE SetBreaker(t)
    BY <2>6 DEF SetBreaker, TestLocked
  <2>7. CASE ExitReset(t)
    BY <2>7 DEF ExitReset
  <2>8. CASE TakeReady(t)
    BY <2>8 DEF TakeReady, SignalSwitchCond
  <2>9. CASE AfterTake(t)
    BY <2>9 DEF AfterTake
  <2>10. CASE TakeReset(t)
    BY <2>10 DEF TakeReset
  <2>11. CASE DropUnlock(t)
    BY <2>11 DEF DropUnlock, SignalCond
  <2>12. CASE DropCheck(t)
    BY <2>12 DEF DropCheck
  <2>13. CASE DropSwitch(t)
    BY <2>13 DEF DropSwitch
  <2>14. CASE SwitchWoken(t)
    BY <2>14 DEF SwitchWoken
  <2>15. CASE BreakerLoad(t)
    BY <2>15 DEF BreakerLoad
  <2>16. CASE BreakerStore(t)
    BY <2>16 DEF BreakerStore
  <2>17. CASE CheckBreaker(t)
    BY <2>17 DEF CheckBreaker
  <2>18. CASE RunBytecode(t)
    BY <2>18 DEF RunBytecode, vars
  <2>19. CASE HandlePending(t)
    BY <2>19 DEF HandlePending
  <2>20. CASE RestoreThread(t)
    BY <2>20 DEF RestoreThread
  <2>21. CASE SaveThread(t)
    BY <2>21 DEF SaveThread
  <2>22. CASE SetFinalizing(t)
    BY <2>22 DEF SetFinalizing
  <2>23. CASE SpuriousCond(t)
    BY <2>23 DEF SpuriousCond
  <2>24. CASE SpuriousSwitch(t)
    BY <2>24 DEF SpuriousSwitch
  <2> HIDE DEF LockInv
  <2> QED
    BY <1>2, NextCases, <2>1, <2>2, <2>3, <2>4, <2>5, <2>6, <2>7, <2>8, <2>9,
       <2>10, <2>11, <2>12, <2>13, <2>14, <2>15, <2>16, <2>17, <2>18, <2>19,
       <2>20, <2>21, <2>22, <2>23, <2>24
<1> QED BY <1>1, <1>2 DEF Next

\* Who holds gil->mutex, gil->switch_mutex and the GIL is as LockInv says.
THEOREM LockInvariant == Spec => []LockInv
<1>1. Init => LockInv
  BY GilAssumption DEF Init, LockInv, InMutex, InSwitchMutex, Holding
<1> QED BY <1>1, LockInvStep, TypeCorrect, PTL DEF Spec

\* The GIL is a lock: never two holders, and gil->locked is set exactly while
\* there is one, for any number of threads, spurious wake-ups and finalization
\* included.
THEOREM MutualExclusion == Spec => []OneHolder
<1>1. TypeOK /\ LockInv => OneHolder
  BY DEF TypeOK, LockInv, OneHolder
<1> QED BY <1>1, TypeCorrect, LockInvariant, PTL

------------------------------------------------------------------------------
(* Forced switching.                                                       *)

\* A thread that is going to wait, or waits, for a switch is still the last
\* holder: take_gil() changes last_holder only while nobody is inside
\* switch_mutex, and then wakes the one who waits.
SwitchInv == \A t \in Thread :
  pc[t] \in {"drop_compute", "drop_store", "switch_wait"} => last_holder = t

\* The steps of take_gil() and drop_gil() preserve SwitchInv.
LEMMA SwitchInvStep ==
  TypeOK /\ LockInv /\ SwitchInv /\ [Next]_vars => SwitchInv'
<1> SUFFICES ASSUME TypeOK, LockInv, SwitchInv, [Next]_vars PROVE SwitchInv'
  OBVIOUS
<1>1. CASE UNCHANGED vars
  BY <1>1 DEF SwitchInv, vars, gilvars, flags, locals
<1>2. ASSUME NEW t \in Thread, Step(t) \/ Optional(t) PROVE SwitchInv'
  <2> USE GilAssumption DEF TypeOK, SwitchInv, gilvars, flags, locals, Goto
  <2>1. CASE TakeEntry(t)
    BY <2>1 DEF TakeEntry
  <2>2. CASE TakeLock(t)
    BY <2>2 DEF TakeLock, TestLocked
  <2>3. CASE CondTimeout(t)
    BY <2>3 DEF CondTimeout
  <2>4. CASE CondWoken(t)
    BY <2>4 DEF CondWoken, TestLocked
  <2>5. CASE CondTimedOut(t)
    BY <2>5 DEF CondTimedOut, TestLocked
  <2>6. CASE SetBreaker(t)
    BY <2>6 DEF SetBreaker, TestLocked
  <2>7. CASE ExitReset(t)
    BY <2>7 DEF ExitReset
  <2>8. CASE TakeReady(t)
    <3>1. \A u \in Thread : pc[u] \notin {"drop_compute", "drop_store"}
      BY <2>8 DEF TakeReady, LockInv, InSwitchMutex
    <3> QED BY <2>8, <3>1 DEF TakeReady, SignalSwitchCond
  <2>9. CASE AfterTake(t)
    BY <2>9 DEF AfterTake
  <2>10. CASE TakeReset(t)
    BY <2>10 DEF TakeReset
  <2>11. CASE DropUnlock(t)
    BY <2>11 DEF DropUnlock, SignalCond, LockInv, Holding
  <2>12. CASE DropCheck(t)
    BY <2>12 DEF DropCheck
  <2>13. CASE DropSwitch(t)
    BY <2>13 DEF DropSwitch
  <2>14. CASE SwitchWoken(t)
    BY <2>14 DEF SwitchWoken
  <2>15. CASE BreakerLoad(t)
    BY <2>15 DEF BreakerLoad
  <2>16. CASE BreakerStore(t)
    BY <2>16 DEF BreakerStore
  <2>17. CASE CheckBreaker(t)
    BY <2>17 DEF CheckBreaker
  <2>18. CASE RunBytecode(t)
    BY <2>18 DEF RunBytecode, vars
  <2>19. CASE HandlePending(t)
    BY <2>19 DEF HandlePending
  <2>20. CASE RestoreThread(t)
    BY <2>20 DEF RestoreThread
  <2>21. CASE SaveThread(t)
    BY <2>21 DEF SaveThread
  <2>22. CASE SetFinalizing(t)
    BY <2>22 DEF SetFinalizing
  <2>23. CASE SpuriousCond(t)
    BY <2>23 DEF SpuriousCond
  <2>24. CASE SpuriousSwitch(t)
    BY <2>24 DEF SpuriousSwitch
  <2> HIDE DEF SwitchInv
  <2> QED
    BY <1>2, NextCases,
       <2>1, <2>2, <2>3, <2>4, <2>5, <2>6, <2>7, <2>8, <2>9, <2>10,
       <2>11, <2>12, <2>13, <2>14, <2>15, <2>16, <2>17, <2>18, <2>19,
       <2>20, <2>21, <2>22, <2>23, <2>24
<1> QED BY <1>1, <1>2 DEF Next

\* The thread inside the forced switch of drop_gil() is the last holder.
THEOREM SwitchInvariant == Spec => []SwitchInv
<1>1. Init => SwitchInv
  BY DEF Init, SwitchInv
<1> QED BY <1>1, SwitchInvStep, TypeCorrect, LockInvariant, PTL DEF Spec

\* At most one thread waits on switch_cond, so the single COND_SIGNAL in
\* take_gil() loses nobody.
THEOREM SingleWaiter == Spec => []OneSwitchWaiter
<1>1. SwitchInv => OneSwitchWaiter
  BY DEF SwitchInv, OneSwitchWaiter
<1> QED BY <1>1, SwitchInvariant, PTL

\* After the wait somebody else is the last holder, provided that
\* pthread_cond_wait() does not return without a signal.
LEMMA ForcedSwitchStep ==
  ASSUME Spurious = FALSE
  PROVE  TypeOK /\ LockInv /\ ForcedSwitch /\ [Next]_vars => ForcedSwitch'
<1> SUFFICES ASSUME TypeOK, LockInv, ForcedSwitch, [Next]_vars
             PROVE  ForcedSwitch'
  OBVIOUS
<1>1. CASE UNCHANGED vars
  BY <1>1 DEF ForcedSwitch, vars, gilvars, flags, locals
<1>2. ASSUME NEW t \in Thread, Step(t) \/ Optional(t) PROVE ForcedSwitch'
  <2> USE GilAssumption DEF TypeOK, ForcedSwitch, gilvars, flags, locals, Goto
  <2>1. CASE TakeEntry(t)
    BY <2>1 DEF TakeEntry
  <2>2. CASE TakeLock(t)
    BY <2>2 DEF TakeLock, TestLocked
  <2>3. CASE CondTimeout(t)
    BY <2>3 DEF CondTimeout
  <2>4. CASE CondWoken(t)
    BY <2>4 DEF CondWoken, TestLocked
  <2>5. CASE CondTimedOut(t)
    BY <2>5 DEF CondTimedOut, TestLocked
  <2>6. CASE SetBreaker(t)
    BY <2>6 DEF SetBreaker, TestLocked
  <2>7. CASE ExitReset(t)
    BY <2>7 DEF ExitReset
  <2>8. CASE TakeReady(t)
    BY <2>8 DEF TakeReady, SignalSwitchCond
  <2>9. CASE AfterTake(t)
    BY <2>9 DEF AfterTake
  <2>10. CASE TakeReset(t)
    BY <2>10 DEF TakeReset
  <2>11. CASE DropUnlock(t)
    BY <2>11 DEF DropUnlock, SignalCond, LockInv, Holding
  <2>12. CASE DropCheck(t)
    BY <2>12 DEF DropCheck
  <2>13. CASE DropSwitch(t)
    BY <2>13 DEF DropSwitch
  <2>14. CASE SwitchWoken(t)
    BY <2>14 DEF SwitchWoken
  <2>15. CASE BreakerLoad(t)
    BY <2>15 DEF BreakerLoad
  <2>16. CASE BreakerStore(t)
    BY <2>16 DEF BreakerStore
  <2>17. CASE CheckBreaker(t)
    BY <2>17 DEF CheckBreaker
  <2>18. CASE RunBytecode(t)
    BY <2>18 DEF RunBytecode, vars
  <2>19. CASE HandlePending(t)
    BY <2>19 DEF HandlePending
  <2>20. CASE RestoreThread(t)
    BY <2>20 DEF RestoreThread
  <2>21. CASE SaveThread(t)
    BY <2>21 DEF SaveThread
  <2>22. CASE SetFinalizing(t)
    BY <2>22 DEF SetFinalizing
  <2>23. CASE SpuriousCond(t)
    BY <2>23 DEF SpuriousCond
  <2>24. CASE SpuriousSwitch(t)
    BY <2>24 DEF SpuriousSwitch
  <2> HIDE DEF ForcedSwitch
  <2> QED
    BY <1>2, NextCases,
       <2>1, <2>2, <2>3, <2>4, <2>5, <2>6, <2>7, <2>8, <2>9, <2>10,
       <2>11, <2>12, <2>13, <2>14, <2>15, <2>16, <2>17, <2>18, <2>19,
       <2>20, <2>21, <2>22, <2>23, <2>24
<1> QED BY <1>1, <1>2 DEF Next

\* Forced switching: who yields the GIL on request in drop_gil() goes on only
\* after another thread has been the holder.
THEOREM Switched == ASSUME Spurious = FALSE PROVE Spec => []ForcedSwitch
<1>1. Init => ForcedSwitch
  BY DEF Init, ForcedSwitch
<1> QED
  BY <1>1, ForcedSwitchStep, TypeCorrect, LockInvariant, PTL DEF Spec

------------------------------------------------------------------------------
(* The forced switch has somebody to switch to.                            *)

\* A drop request is only set while a thread is between its timeout and the
\* reset of the request with the GIL in its hands; from there the reason to
\* wait for a switch is handed on from one step of drop_gil() to the next.
TakerInv == finalizing = NoThread =>
  /\ gil_drop_request =>
       \E u \in Thread :
         pc[u] \in WaitLoop \cup {"ready", "after_take", "take_reset"}
  /\ \A t \in Thread :
       \/ pc[t] = "drop_switch" /\ last_holder = t
       \/ pc[t] \in {"drop_compute", "drop_store", "switch_wait"}
       => \E u \in Thread \ {t} : pc[u] \in Taking

\* The steps of take_gil() and drop_gil() preserve TakerInv while nobody
\* finalizes the interpreter.
LEMMA TakerInvStep ==
  TypeOK /\ LockInv /\ SwitchInv /\ TakerInv /\ [Next]_vars => TakerInv'
<1> SUFFICES ASSUME TypeOK, LockInv, SwitchInv, TakerInv, [Next]_vars
             PROVE  TakerInv'
  OBVIOUS
<1>1. CASE UNCHANGED vars
  BY <1>1 DEF TakerInv, vars, gilvars, flags, locals,
              Taking, WaitLoop
<1>2. ASSUME NEW t \in Thread, Step(t) \/ Optional(t) PROVE TakerInv'
  <2> USE GilAssumption DEF TypeOK, TakerInv, gilvars, flags, locals, Goto,
          Taking, WaitLoop
  <2>1. CASE TakeEntry(t)
    BY <2>1 DEF TakeEntry, MustExit
  <2>2. CASE TakeLock(t)
    BY <2>2 DEF TakeLock, TestLocked
  <2>3. CASE CondTimeout(t)
    BY <2>3 DEF CondTimeout
  <2>4. CASE CondWoken(t)
    BY <2>4 DEF CondWoken, TestLocked
  <2>5. CASE CondTimedOut(t)
    BY <2>5 DEF CondTimedOut, TestLocked, MustExit
  <2>6. CASE SetBreaker(t)
    BY <2>6 DEF SetBreaker, TestLocked
  <2>7. CASE ExitReset(t)
    BY <2>7 DEF ExitReset
  <2>8. CASE TakeReady(t)
    <3>1. \A u \in Thread : pc[u] \notin {"drop_compute", "drop_store"}
      BY <2>8 DEF TakeReady, LockInv, InSwitchMutex
    <3>2. \A u, v \in Thread :
            pc[u] = "switch_wait" /\ pc[v] = "switch_wait" => u = v
      BY DEF SwitchInv
    <3> QED BY <2>8, <3>1, <3>2 DEF TakeReady, SignalSwitchCond
  <2>9. CASE AfterTake(t)
    BY <2>9 DEF AfterTake, MustExit
  <2>10. CASE TakeReset(t)
    BY <2>10 DEF TakeReset
  <2>11. CASE DropUnlock(t)
    BY <2>11 DEF DropUnlock, SignalCond, LockInv, Holding
  <2>12. CASE DropCheck(t)
    BY <2>12 DEF DropCheck, LockInv, Holding
  <2>13. CASE DropSwitch(t)
    BY <2>13 DEF DropSwitch
  <2>14. CASE SwitchWoken(t)
    BY <2>14 DEF SwitchWoken
  <2>15. CASE BreakerLoad(t)
    BY <2>15 DEF BreakerLoad
  <2>16. CASE BreakerStore(t)
    BY <2>16 DEF BreakerStore
  <2>17. CASE CheckBreaker(t)
    BY <2>17 DEF CheckBreaker
  <2>18. CASE RunBytecode(t)
    BY <2>18 DEF RunBytecode, vars
  <2>19. CASE HandlePending(t)
    BY <2>19 DEF HandlePending
  <2>20. CASE RestoreThread(t)
    BY <2>20 DEF RestoreThread
  <2>21. CASE SaveThread(t)
    BY <2>21 DEF SaveThread
  <2>22. CASE SetFinalizing(t)
    BY <2>22 DEF SetFinalizing
  <2>23. CASE SpuriousCond(t)
    BY <2>23 DEF SpuriousCond
  <2>24. CASE SpuriousSwitch(t)
    BY <2>24 DEF SpuriousSwitch
  <2> HIDE DEF TakerInv
  <2> QED
    BY <1>2, NextCases,
       <2>1, <2>2, <2>3, <2>4, <2>5, <2>6, <2>7, <2>8, <2>9, <2>10,
       <2>11, <2>12, <2>13, <2>14, <2>15, <2>16, <2>17, <2>18, <2>19,
       <2>20, <2>21, <2>22, <2>23, <2>24
<1> QED BY <1>1, <1>2 DEF Next

\* drop_gil() never starts to wait for a switch that nobody will bring about:
\* while it waits another thread is on its way to the GIL.
THEOREM TakerExists == Spec => []SwitchHasTaker
<1>1. Init => TakerInv
  BY DEF Init, TakerInv
<1>2. TakerInv => SwitchHasTaker
  BY DEF TakerInv, SwitchHasTaker
<1> QED
  BY <1>1, <1>2, TakerInvStep, TypeCorrect, LockInvariant, SwitchInvariant,
     PTL DEF Spec

------------------------------------------------------------------------------
(* Finalization.                                                           *)

\* Once _finalizing is set no other thread gets past the check that follows
\* the taking of the GIL.
FinalizerInv == finalizing # NoThread =>
  \A t \in Thread :
    pc[t] \in {"eval", "handle", "take_reset", "take_compute", "take_store"}
    => t = finalizing

\* The steps of take_gil() and drop_gil() preserve FinalizerInv.
LEMMA FinalizerInvStep ==
  TypeOK /\ LockInv /\ FinalizerInv /\ [Next]_vars => FinalizerInv'
<1> SUFFICES ASSUME TypeOK, LockInv, FinalizerInv, [Next]_vars
             PROVE  FinalizerInv'
  OBVIOUS
<1>1. CASE UNCHANGED vars
  BY <1>1 DEF FinalizerInv, vars, gilvars, flags, locals
<1>2. ASSUME NEW t \in Thread, Step(t) \/ Optional(t) PROVE FinalizerInv'
  <2> USE GilAssumption DEF TypeOK, FinalizerInv, gilvars, flags, locals, Goto
  <2>1. CASE TakeEntry(t)
    BY <2>1 DEF TakeEntry
  <2>2. CASE TakeLock(t)
    BY <2>2 DEF TakeLock, TestLocked
  <2>3. CASE CondTimeout(t)
    BY <2>3 DEF CondTimeout
  <2>4. CASE CondWoken(t)
    BY <2>4 DEF CondWoken, TestLocked
  <2>5. CASE CondTimedOut(t)
    BY <2>5 DEF CondTimedOut, TestLocked
  <2>6. CASE SetBreaker(t)
    BY <2>6 DEF SetBreaker, TestLocked
  <2>7. CASE ExitReset(t)
    BY <2>7 DEF ExitReset
  <2>8. CASE TakeReady(t)
    BY <2>8 DEF TakeReady, SignalSwitchCond
  <2>9. CASE AfterTake(t)
    BY <2>9 DEF AfterTake, MustExit
  <2>10. CASE TakeReset(t)
    BY <2>10 DEF TakeReset
  <2>11. CASE DropUnlock(t)
    BY <2>11 DEF DropUnlock, SignalCond
  <2>12. CASE DropCheck(t)
    BY <2>12 DEF DropCheck
  <2>13. CASE DropSwitch(t)
    BY <2>13 DEF DropSwitch
  <2>14. CASE SwitchWoken(t)
    BY <2>14 DEF SwitchWoken
  <2>15. CASE BreakerLoad(t)
    BY <2>15 DEF BreakerLoad
  <2>16. CASE BreakerStore(t)
    BY <2>16 DEF BreakerStore
  <2>17. CASE CheckBreaker(t)
    BY <2>17 DEF CheckBreaker
  <2>18. CASE RunBytecode(t)
    BY <2>18 DEF RunBytecode, vars
  <2>19. CASE HandlePending(t)
    BY <2>19 DEF HandlePending
  <2>20. CASE RestoreThread(t)
    BY <2>20 DEF RestoreThread
  <2>21. CASE SaveThread(t)
    BY <2>21 DEF SaveThread
  <2>22. CASE SetFinalizing(t)
    BY <2>22 DEF SetFinalizing, LockInv, Holding
  <2>23. CASE SpuriousCond(t)
    BY <2>23 DEF SpuriousCond
  <2>24. CASE SpuriousSwitch(t)
    BY <2>24 DEF SpuriousSwitch
  <2> HIDE DEF FinalizerInv
  <2> QED
    BY <1>2, NextCases,
       <2>1, <2>2, <2>3, <2>4, <2>5, <2>6, <2>7, <2>8, <2>9, <2>10,
       <2>11, <2>12, <2>13, <2>14, <2>15, <2>16, <2>17, <2>18, <2>19,
       <2>20, <2>21, <2>22, <2>23, <2>24
<1> QED BY <1>1, <1>2 DEF Next

\* bpo-36475, bpo-39877: after Py_FinalizeEx() has set _finalizing only its
\* thread runs bytecode, wherever the others were in take_gil() by then.
THEOREM FinalizerAlone == Spec => []OnlyFinalizerRuns
<1>1. Init => FinalizerInv
  BY DEF Init, FinalizerInv
<1>2. FinalizerInv => OnlyFinalizerRuns
  BY DEF FinalizerInv, OnlyFinalizerRuns
<1> QED
  BY <1>1, <1>2, FinalizerInvStep, TypeCorrect, LockInvariant, PTL DEF Spec

------------------------------------------------------------------------------
(* The abstract lock.                                                      *)

\* The variables of GilAbstract in terms of those of Gil.
AbsHolder  == IF locked THEN last_holder ELSE NoThread
AbsYielded == IF Yielder = {} THEN NoThread ELSE CHOOSE t \in Yielder : TRUE

\* At most the last holder yields.
LEMMA YieldedIs ==
  ASSUME SwitchInv, NEW t \in Thread, last_holder = t
  PROVE  /\ Yielder \in {{}, {t}}
         /\ AbsYielded = IF t \in Yielder THEN t ELSE NoThread
<1>1. Yielder \in {{}, {t}}
  BY DEF SwitchInv, Yielder
<1>2. (CHOOSE u \in {t} : TRUE) = t
  OBVIOUS
<1> QED BY <1>1, <1>2 DEF AbsYielded

\* A step that changes neither the holder nor who is inside the forced switch
\* is invisible to the abstract lock.
Quiet == /\ UNCHANGED <<locked, last_holder>>
         /\ \A u \in Thread : (u \in Yielder)' <=> u \in Yielder

\* What Quiet says leaves the abstract variables alone.
LEMMA Invisible == ASSUME Quiet PROVE UNCHANGED <<AbsHolder, AbsYielded>>
<1>1. Yielder' = Yielder
  BY DEF Quiet, Yielder
<1> QED BY <1>1 DEF Quiet, AbsHolder, AbsYielded

\* A step of GilAbstract, or none, on these two values.
AbsChange ==
  \/ \E t \in Thread :
       \/ /\ AbsHolder = NoThread /\ AbsYielded # t        \* Acquire
          /\ AbsHolder' = t       /\ AbsYielded' = NoThread
       \/ /\ AbsHolder = t        /\ AbsHolder' = NoThread \* Release
          /\ UNCHANGED AbsYielded
       \/ /\ AbsHolder = NoThread /\ AbsYielded = NoThread \* Yield
          /\ AbsYielded' = t      /\ UNCHANGED AbsHolder
  \/ UNCHANGED <<AbsHolder, AbsYielded>>

\* Every step of the lock is a step of GilAbstract or invisible to it.
LEMMA AbsStep ==
  ASSUME Spurious = FALSE, TypeOK, LockInv, SwitchInv, TypeOK', SwitchInv',
         [Next]_vars
  PROVE  AbsChange
<1>1. CASE UNCHANGED vars
  <2>1. Quiet
    BY <1>1 DEF Quiet, Yielder, vars, gilvars, flags, locals
  <2> QED BY <2>1, Invisible DEF AbsChange
<1>2. ASSUME NEW t \in Thread, Step(t) \/ Optional(t) PROVE AbsChange
  <2> USE GilAssumption DEF Quiet, TypeOK, Yielder, gilvars, flags, locals, Goto
  <2>1. ASSUME TakeEntry(t) PROVE Quiet
    BY <2>1 DEF TakeEntry
  <2>2. ASSUME TakeLock(t) PROVE Quiet
    BY <2>2 DEF TakeLock, TestLocked
  <2>3. ASSUME CondTimeout(t) PROVE Quiet
    BY <2>3 DEF CondTimeout
  <2>4. ASSUME CondWoken(t) PROVE Quiet
    BY <2>4 DEF CondWoken, TestLocked
  <2>5. ASSUME CondTimedOut(t) PROVE Quiet
    BY <2>5 DEF CondTimedOut, TestLocked
  <2>6. ASSUME SetBreaker(t) PROVE Quiet
    BY <2>6 DEF SetBreaker, TestLocked
  <2>7. ASSUME ExitReset(t) PROVE Quiet
    BY <2>7 DEF ExitReset
  <2>8. CASE TakeReady(t)
    <3>1. ~locked /\ locked' /\ last_holder' = t
      BY <2>8 DEF TakeReady, LockInv
    <3>2. Yielder \subseteq {u \in Thread : pc[u] = "switch_wait"}
      BY <2>8 DEF TakeReady, LockInv, InSwitchMutex
    <3>3. t \notin Yielder /\ AbsYielded # t
      <4>1. t \notin Yielder
        BY <2>8 DEF TakeReady
      <4> HIDE DEF Yielder
      <4>2. AbsYielded \in Yielder \cup {NoThread}
        BY YieldedIs
      <4> QED BY <4>1, <4>2
    <3>4. Yielder' = {}
      BY <2>8, <3>2 DEF TakeReady, SignalSwitchCond, SwitchInv
    <3> QED BY <3>1, <3>3, <3>4 DEF AbsHolder, AbsYielded, AbsChange
  <2>9. ASSUME AfterTake(t) PROVE Quiet
    BY <2>9 DEF AfterTake
  <2>10. ASSUME TakeReset(t) PROVE Quiet
    BY <2>10 DEF TakeReset
  <2>11. CASE DropUnlock(t)
    <3>1. locked /\ last_holder = t /\ ~locked' /\ last_holder' = t
      BY <2>11 DEF DropUnlock, LockInv, Holding
    <3>2. Yielder' = Yielder
      BY <2>11 DEF DropUnlock, SignalCond
    <3> QED BY <3>1, <3>2 DEF AbsHolder, AbsYielded, AbsChange
  <2>12. ASSUME DropCheck(t) PROVE Quiet
    BY <2>12 DEF DropCheck
  <2>13. CASE DropSwitch(t)
    <3>1. CASE last_holder = t
      <4>1. ~locked /\ ~locked' /\ last_holder' = t
        BY <2>13, <3>1 DEF DropSwitch, LockInv, Holding
      <4>2. t \notin Yielder /\ t \in Yielder'
        BY <2>13, <3>1 DEF DropSwitch
      <4>3. Yielder' = {t}
        BY <4>1, <4>2 DEF SwitchInv
      <4>4. (CHOOSE u \in {t} : TRUE) = t
        OBVIOUS
      <4> HIDE DEF Yielder
      <4>5. AbsYielded = NoThread
        BY <3>1, <4>2, YieldedIs
      <4>6. AbsYielded' = t
        BY <4>3, <4>4 DEF AbsYielded
      <4> QED BY <4>1, <4>5, <4>6 DEF AbsHolder, AbsChange
    <3>2. CASE last_holder # t
      <4>1. Quiet
        BY <2>13, <3>2 DEF DropSwitch
      <4> HIDE DEF Quiet
      <4> QED BY <4>1, Invisible DEF AbsChange
    <3> QED BY <3>1, <3>2
  <2>14. ASSUME SwitchWoken(t) PROVE Quiet
    BY <2>14 DEF SwitchWoken
  <2>15. ASSUME BreakerLoad(t) PROVE Quiet
    BY <2>15 DEF BreakerLoad
  <2>16. ASSUME BreakerStore(t) PROVE Quiet
    BY <2>16 DEF BreakerStore
  <2>17. ASSUME CheckBreaker(t) PROVE Quiet
    BY <2>17 DEF CheckBreaker
  <2>18. ASSUME RunBytecode(t) PROVE Quiet
    BY <2>18 DEF RunBytecode, vars
  <2>19. ASSUME HandlePending(t) PROVE Quiet
    BY <2>19 DEF HandlePending
  <2>20. ASSUME RestoreThread(t) PROVE Quiet
    BY <2>20 DEF RestoreThread
  <2>21. ASSUME SaveThread(t) PROVE Quiet
    BY <2>21 DEF SaveThread
  <2>22. ASSUME SetFinalizing(t) PROVE Quiet
    BY <2>22 DEF SetFinalizing
  <2>23. ASSUME SpuriousCond(t) PROVE Quiet
    BY <2>23 DEF SpuriousCond
  <2>24. ASSUME SpuriousSwitch(t) PROVE Quiet
    BY <2>24 DEF SpuriousSwitch
  <2> HIDE DEF Yielder, Quiet
  <2> QED
    BY <1>2, Invisible, NextCases,
       <2>1, <2>2, <2>3, <2>4, <2>5, <2>6, <2>7, <2>8, <2>9, <2>10,
       <2>11, <2>12, <2>13, <2>14, <2>15, <2>16, <2>17, <2>18, <2>19,
       <2>20, <2>21, <2>22, <2>23, <2>24 DEF AbsChange
<1> QED BY <1>1, <1>2 DEF Next

\* take_gil() and drop_gil(), with all their mutexes, time-outs, requests and
\* signals, implement a lock that is passed on when it is yielded.
THEOREM Refinement == ASSUME Spurious = FALSE PROVE Spec => ImplementsAbstractGil
<1>1. Init => Abs!AbsInit
  BY GilAssumption DEF Init, Abs!AbsInit, Yielder
<1>2. TypeOK /\ LockInv /\ SwitchInv /\ TypeOK' /\ SwitchInv' /\ [Next]_vars
        => [Abs!AbsNext]_Abs!avars
  BY AbsStep DEF AbsChange, AbsHolder, AbsYielded, Abs!AbsNext, Abs!avars,
                 Abs!Acquire, Abs!Release, Abs!Yield
<1> QED
  BY <1>1, <1>2, TypeCorrect, LockInvariant, SwitchInvariant, PTL
     DEF Spec, ImplementsAbstractGil, Abs!AbsSpec
==============================================================================
