---------------------------- MODULE SignalsProofs -----------------------------
(***************************************************************************)
(* Theorems about Signals, for any number of signals and deliveries, any   *)
(* nesting of Python handlers and any way of checking for signals.         *)
(***************************************************************************)
EXTENDS Signals, TLAPS

\* What holds of a frame by where it is in its function.
Shape(fr) ==
  /\ fr.fn = "eval" <=> fr.at = "run"
  /\ fr.at \in {"pend", "unsignal", "resignal", "re_load", "re_store"} => fr.fn = "pending"
  /\ fr.at \in {"un_load", "un_store"} => fr.fn \in {"pending", "compute"}
  /\ fr.fn = "compute" => fr.at \in {"un_load", "un_store"}
  /\ fr.at \in {"pend", "unsignal", "un_load", "un_store", "test", "clear"} => fr.i = 1
  /\ fr.at \in {"untrip", "call"} => fr.i < NSIG

\* The C stack: bytecode at the bottom, and above a frame that calls a Python
\* handler, and nowhere else.
StackInv ==
  /\ stack \in Seq(FrameType) /\ Len(stack) \in 1 .. MaxFrames
  /\ \A k \in 1 .. Len(stack) : Shape(stack[k])
  /\ stack[1].fn = "eval"
  /\ \A k \in 1 .. Len(stack) - 1 :
       /\ stack[k].at \in {"run", "call"}
       /\ stack[k].at = "call" <=> stack[k + 1].fn = "eval"

\* The stack as a function of the positions.
Scans(s) == \E k \in 1 .. Len(stack) : WillScan(stack[k], s)
Looks(fr) == /\ fr.fn = "pending"
             /\ fr.at \in {"un_load", "un_store", "test", "clear", "resignal"}
Looked == \E k \in 1 .. Len(stack) : Looks(stack[k])

TripInv == \A s \in Sig : tripped[s] => is_tripped \/ chandler[s] = "any" \/ Scans(s)
SignalInv == is_tripped /\ ~direct_failed =>
  signals_pending \/ (\E s \in Sig : chandler[s] = "signal") \/ Looked

SignalsInv == TypeOK /\ StackInv /\ TripInv /\ SignalInv

------------------------------------------------------------------------------
(* The stack                                                               *)

\* The innermost frame is one of the stack.
LEMMA TopFrame ==
  ASSUME StackInv
  PROVE  /\ Len(stack) \in Nat \ {0} /\ Top \in FrameType /\ Shape(Top)
         /\ Top = stack[Len(stack)]
         /\ Top.at # "run" => Len(stack) > 1
<1>1. Len(stack) \in Nat \ {0} /\ stack \in Seq(FrameType)
  BY SignalsAssumption DEF StackInv
<1>2. Top \in FrameType /\ Shape(Top)
  BY <1>1 DEF StackInv, Top
<1>3. Top.at # "run" => Len(stack) > 1
  BY <1>1, <1>2 DEF StackInv, Top, Shape
<1> QED BY <1>1, <1>2, <1>3 DEF Top

\* The innermost frame goes on.
LEMMA GoOn ==
  ASSUME StackInv, NEW x \in FrameType, Shape(x), x.fn = Top.fn,
         stack' = [stack EXCEPT ![Len(stack)] = x]
  PROVE  /\ StackInv'
         /\ Len(stack') = Len(stack) /\ stack'[Len(stack)] = x
         /\ \A k \in 1 .. Len(stack) - 1 : stack'[k] = stack[k]
<1>1. Len(stack) \in Nat \ {0} /\ stack \in Seq(FrameType)
  BY TopFrame DEF StackInv
<1>2. /\ stack' \in Seq(FrameType)
      /\ Len(stack') = Len(stack) /\ stack'[Len(stack)] = x
      /\ \A k \in 1 .. Len(stack) - 1 : stack'[k] = stack[k]
  BY <1>1
<1>3. \A k \in 1 .. Len(stack) : Shape(stack'[k]) /\ stack'[k].fn = stack[k].fn
  <2> SUFFICES ASSUME NEW k \in 1 .. Len(stack)
               PROVE  Shape(stack'[k]) /\ stack'[k].fn = stack[k].fn
    OBVIOUS
  <2>1. CASE k = Len(stack)
    BY <1>2, <2>1 DEF Top
  <2>2. CASE k # Len(stack)
    <3>1. k \in 1 .. Len(stack) - 1
      BY <1>1, <2>2
    <3> QED BY <1>2, <3>1 DEF StackInv
  <2> QED BY <2>1, <2>2
<1>4. \A k \in 1 .. Len(stack) - 1 :
         /\ stack'[k].at \in {"run", "call"}
         /\ stack'[k].at = "call" <=> stack'[k + 1].fn = "eval"
  <2> SUFFICES ASSUME NEW k \in 1 .. Len(stack) - 1
               PROVE  /\ stack'[k].at \in {"run", "call"}
                      /\ stack'[k].at = "call" <=> stack'[k + 1].fn = "eval"
    OBVIOUS
  <2>1. k + 1 \in 1 .. Len(stack) /\ stack'[k] = stack[k]
    BY <1>1, <1>2
  <2> QED BY <1>3, <2>1 DEF StackInv
<1>5. stack'[1].fn = "eval" /\ Len(stack') \in 1 .. MaxFrames
  <2>1. 1 \in 1 .. Len(stack)
    BY <1>1
  <2> QED BY <1>2, <1>3, <2>1 DEF StackInv
<1>6. StackInv'
  BY <1>2, <1>3, <1>4, <1>5 DEF StackInv
<1> QED BY <1>2, <1>6

\* The innermost frame calls a function.
LEMMA Calls ==
  ASSUME StackInv, NEW x \in FrameType, Shape(x), x.fn # "eval", Top.at = "run",
         Push(x)
  PROVE  /\ StackInv'
         /\ Len(stack') = Len(stack) + 1 /\ stack'[Len(stack) + 1] = x
         /\ \A k \in 1 .. Len(stack) : stack'[k] = stack[k]
<1>1. Len(stack) \in Nat \ {0} /\ stack \in Seq(FrameType) /\ MaxFrames \in Nat
  BY TopFrame, SignalsAssumption DEF StackInv
<1>2. /\ stack' \in Seq(FrameType)
      /\ Len(stack') = Len(stack) + 1 /\ stack'[Len(stack) + 1] = x
      /\ \A k \in 1 .. Len(stack) : stack'[k] = stack[k]
  BY <1>1 DEF Push
<1>3. Len(stack') \in 1 .. MaxFrames
  BY <1>1, <1>2 DEF Push
<1>4. \A k \in 1 .. Len(stack') : Shape(stack'[k])
  BY <1>1, <1>2 DEF StackInv
<1>5. \A k \in 1 .. Len(stack') - 1 :
         /\ stack'[k].at \in {"run", "call"}
         /\ stack'[k].at = "call" <=> stack'[k + 1].fn = "eval"
  <2> SUFFICES ASSUME NEW k \in 1 .. Len(stack)
               PROVE  /\ stack'[k].at \in {"run", "call"}
                      /\ stack'[k].at = "call" <=> stack'[k + 1].fn = "eval"
    BY <1>1, <1>2
  <2>1. CASE k = Len(stack)
    BY <1>1, <1>2, <2>1 DEF Top
  <2>2. CASE k # Len(stack)
    <3>1. k \in 1 .. Len(stack) - 1 /\ k + 1 \in 1 .. Len(stack)
      BY <1>1, <2>2
    <3> QED BY <1>2, <3>1 DEF StackInv
  <2> QED BY <2>1, <2>2
<1> QED BY <1>1, <1>2, <1>3, <1>4, <1>5 DEF StackInv

\* The innermost frame ends; the one below may be told that a handler failed.
LEMMA Ends ==
  ASSUME StackInv, Len(stack) > 1, Return \/ Raise
  PROVE  /\ StackInv'
         /\ Len(stack') = Len(stack) - 1
         /\ \A k \in 1 .. Len(stack) - 2 : stack'[k] = stack[k]
         /\ LET c == stack[Len(stack) - 1]
                d == stack'[Len(stack) - 1]
            IN  \/ d = c
                \/ c.at = "call" /\ d = [c EXCEPT !.at = "retrip"]
<1> DEFINE n == Len(stack) - 1
           rest == Front(stack)
           c == stack[n]
<1>1. /\ Len(stack) \in Nat /\ n \in Nat \ {0} /\ stack \in Seq(FrameType)
      /\ Len(stack) = n + 1 /\ n <= MaxFrames /\ MaxFrames \in Nat
  BY TopFrame, SignalsAssumption DEF StackInv
<1>2. /\ rest \in Seq(FrameType) /\ Len(rest) = n
      /\ \A k \in 1 .. n : rest[k] = stack[k]
  BY <1>1 DEF Front
<1>3. c \in FrameType /\ Shape(c) /\ rest[n] = c /\ Last(rest) = c
  BY <1>1, <1>2 DEF StackInv, Last
<1>4. \A k \in 1 .. n - 1 : k \in 1 .. n
  BY <1>1
<1>5. \/ stack' = rest
      \/ c.at = "call" /\ stack' = [rest EXCEPT ![n].at = "retrip"]
  BY <1>2, <1>3 DEF Return, Raise
<1>6. ASSUME c.at = "call" PROVE /\ [c EXCEPT !.at = "retrip"] \in FrameType
                                 /\ Shape([c EXCEPT !.at = "retrip"])
  BY <1>3, <1>6 DEF FrameType, Shape, CheckLabels
<1> HIDE DEF rest, n, c
<1>7. /\ stack' \in Seq(FrameType) /\ Len(stack') = n
      /\ \A k \in 1 .. n - 1 : stack'[k] = stack[k]
      /\ \/ stack'[n] = c
         \/ c.at = "call" /\ stack'[n] = [c EXCEPT !.at = "retrip"]
  <2>1. CASE stack' = rest
    BY <1>1, <1>2, <1>3, <1>4, <2>1
  <2>2. CASE c.at = "call" /\ stack' = [rest EXCEPT ![n].at = "retrip"]
    <3>1. stack' = [rest EXCEPT ![n] = [c EXCEPT !.at = "retrip"]]
      BY <1>3, <2>2
    <3> QED BY <1>1, <1>2, <1>3, <1>4, <1>6, <2>2, <3>1
  <2> QED BY <1>5, <2>1, <2>2
<1>8. Shape(stack'[n]) /\ stack'[n].fn = c.fn
  BY <1>3, <1>6, <1>7 DEF FrameType
<1>9. /\ \A k \in 1 .. n : Shape(stack[k])
      /\ \A k \in 1 .. n : /\ stack[k].at \in {"run", "call"}
                           /\ stack[k].at = "call" <=> stack[k + 1].fn = "eval"
      /\ stack[1].fn = "eval"
  BY <1>1 DEF StackInv, n
<1>10. \A k \in 1 .. n : stack'[k].fn = stack[k].fn /\ Shape(stack'[k])
  BY <1>1, <1>7, <1>8, <1>9 DEF c
<1>11. \A k \in 1 .. n - 1 : /\ stack'[k].at \in {"run", "call"}
                             /\ stack'[k].at = "call" <=> stack'[k + 1].fn = "eval"
  <2> SUFFICES ASSUME NEW k \in 1 .. n - 1
               PROVE  /\ stack'[k].at \in {"run", "call"}
                      /\ stack'[k].at = "call" <=> stack'[k + 1].fn = "eval"
    OBVIOUS
  <2>1. k \in 1 .. n /\ k + 1 \in 1 .. n
    BY <1>1
  <2>2. stack'[k] = stack[k] /\ stack'[k + 1].fn = stack[k + 1].fn
    BY <1>7, <1>10, <2>1
  <2> QED BY <1>9, <2>1, <2>2
<1>12. stack'[1].fn = "eval" /\ 1 \in 1 .. n
  BY <1>1, <1>9, <1>10
<1>13. StackInv'
  BY <1>1, <1>7, <1>10, <1>11, <1>12 DEF StackInv
<1> QED BY <1>1, <1>7, <1>13 DEF n, c

\* A frame calls a Python handler.
LEMMA CallsHandler ==
  ASSUME StackInv, Len(stack) < MaxFrames,
         Top.at \in {"untrip", "call"},
         stack' = Append([stack EXCEPT ![Len(stack)].at = "call"], Frame("eval", "run"))
  PROVE  /\ StackInv'
         /\ Len(stack') = Len(stack) + 1 /\ stack'[Len(stack) + 1] = Frame("eval", "run")
         /\ stack'[Len(stack)] = [Top EXCEPT !.at = "call"]
         /\ \A k \in 1 .. Len(stack) - 1 : stack'[k] = stack[k]
<1> DEFINE n == Len(stack)
           x == [Top EXCEPT !.at = "call"]
           e == Frame("eval", "run")
<1>1. /\ n \in Nat \ {0} /\ stack \in Seq(FrameType) /\ MaxFrames \in Nat
      /\ Top \in FrameType /\ Shape(Top) /\ n < MaxFrames
  BY TopFrame, SignalsAssumption DEF StackInv
<1>2. x \in FrameType /\ Shape(x) /\ x.fn = Top.fn /\ x.at = "call"
  BY <1>1 DEF FrameType, Shape, CheckLabels
<1>3. e \in FrameType /\ Shape(e) /\ e.fn = "eval"
  BY SignalsAssumption DEF Frame, FrameType, Shape
<1>4. stack' = Append([stack EXCEPT ![n] = x], e)
  BY <1>1 DEF Top
<1> HIDE DEF x, e, n
<1>5. /\ stack' \in Seq(FrameType) /\ Len(stack') = n + 1
      /\ stack'[n + 1] = e /\ stack'[n] = x
      /\ \A k \in 1 .. n - 1 : stack'[k] = stack[k]
  BY <1>1, <1>2, <1>3, <1>4 DEF n
<1>6. /\ \A k \in 1 .. n : Shape(stack[k])
      /\ \A k \in 1 .. n - 1 : /\ stack[k].at \in {"run", "call"}
                               /\ stack[k].at = "call" <=> stack[k + 1].fn = "eval"
      /\ stack[1].fn = "eval" /\ stack[n] = Top
  BY DEF StackInv, n, Top
<1>7. \A k \in 1 .. n : Shape(stack'[k]) /\ stack'[k].fn = stack[k].fn
  <2> SUFFICES ASSUME NEW k \in 1 .. n
               PROVE  Shape(stack'[k]) /\ stack'[k].fn = stack[k].fn
    OBVIOUS
  <2>1. CASE k = n
    BY <1>2, <1>5, <1>6, <2>1
  <2>2. CASE k # n
    <3>1. k \in 1 .. n - 1
      BY <1>1, <2>2
    <3> QED BY <1>5, <1>6, <3>1
  <2> QED BY <2>1, <2>2
<1>8. \A k \in 1 .. n + 1 : Shape(stack'[k])
  BY <1>1, <1>3, <1>5, <1>7
<1>9. \A k \in 1 .. n : /\ stack'[k].at \in {"run", "call"}
                        /\ stack'[k].at = "call" <=> stack'[k + 1].fn = "eval"
  <2> SUFFICES ASSUME NEW k \in 1 .. n
               PROVE  /\ stack'[k].at \in {"run", "call"}
                      /\ stack'[k].at = "call" <=> stack'[k + 1].fn = "eval"
    OBVIOUS
  <2>1. CASE k = n
    BY <1>2, <1>3, <1>5, <2>1
  <2>2. CASE k # n
    <3>1. k \in 1 .. n - 1 /\ k + 1 \in 1 .. n
      BY <1>1, <2>2
    <3> QED BY <1>5, <1>6, <1>7, <3>1
  <2> QED BY <2>1, <2>2
<1>10. n + 1 \in 1 .. MaxFrames /\ n + 1 - 1 = n /\ 1 \in 1 .. n
  BY <1>1
<1>11. StackInv'
  <2>1. stack'[1].fn = "eval"
    BY <1>6, <1>7, <1>10
  <2>2. Len(stack') = n + 1 /\ Len(stack') - 1 = n /\ Len(stack') \in 1 .. MaxFrames
    BY <1>1, <1>5, <1>10
  <2> HIDE DEF n
  <2>3. \A k \in 1 .. Len(stack') : Shape(stack'[k])
    BY <1>8, <2>2
  <2> QED BY <1>5, <1>9, <2>1, <2>2, <2>3 DEF StackInv
<1> QED BY <1>5, <1>11 DEF n, x, e

\* A Python handler returns: the scan goes on with the next signal.
LEMMA HandlerEnds ==
  ASSUME StackInv, Len(stack) > 1, Top.at = "run",
         stack[Len(stack) - 1].at = "call" =>
           stack' = [Front(stack) EXCEPT ![Len(stack) - 1] =
                       [stack[Len(stack) - 1] EXCEPT !.at = "scan", !.i = @ + 1]]
  PROVE  /\ stack[Len(stack) - 1].at = "call"
         /\ StackInv'
         /\ Len(stack') = Len(stack) - 1
         /\ \A k \in 1 .. Len(stack) - 2 : stack'[k] = stack[k]
         /\ stack'[Len(stack) - 1] =
              [stack[Len(stack) - 1] EXCEPT !.at = "scan", !.i = @ + 1]
<1> DEFINE n == Len(stack) - 1
           c == stack[n]
           d == [c EXCEPT !.at = "scan", !.i = @ + 1]
<1>1. /\ Len(stack) \in Nat /\ n \in Nat \ {0} /\ stack \in Seq(FrameType)
      /\ Len(stack) = n + 1 /\ n <= MaxFrames /\ MaxFrames \in Nat
      /\ Shape(Top) /\ Top = stack[n + 1]
  BY TopFrame, SignalsAssumption DEF StackInv
<1>2. /\ \A k \in 1 .. n : stack[k] \in FrameType /\ Shape(stack[k])
      /\ \A k \in 1 .. n : /\ stack[k].at \in {"run", "call"}
                           /\ stack[k].at = "call" <=> stack[k + 1].fn = "eval"
      /\ stack[1].fn = "eval"
  BY <1>1 DEF StackInv
<1>3. c.at = "call" /\ c \in FrameType /\ Shape(c) /\ n \in 1 .. n
  BY <1>1, <1>2 DEF Shape
<1>4. d \in FrameType /\ Shape(d) /\ d.fn = c.fn
  <2>1. NSIG \in Nat /\ c.i \in 1 .. NSIG /\ c.i < NSIG
    BY <1>3, SignalsAssumption DEF FrameType, Shape
  <2>2. c.i + 1 \in 1 .. NSIG
    BY <2>1
  <2> QED BY <1>3, <2>2 DEF FrameType, Shape, CheckLabels
<1>5. stack' = [Front(stack) EXCEPT ![n] = d]
  BY <1>3
<1>6. /\ Front(stack) \in Seq(FrameType) /\ Len(Front(stack)) = n
      /\ \A k \in 1 .. n : Front(stack)[k] = stack[k]
  BY <1>1 DEF Front
<1> HIDE DEF n, c, d
<1>7. /\ stack' \in Seq(FrameType) /\ Len(stack') = n /\ stack'[n] = d
      /\ \A k \in 1 .. n - 1 : stack'[k] = stack[k]
  BY <1>1, <1>4, <1>5, <1>6
<1>8. \A k \in 1 .. n : stack'[k].fn = stack[k].fn /\ Shape(stack'[k])
  BY <1>1, <1>2, <1>4, <1>7 DEF c
<1>9. \A k \in 1 .. n - 1 : /\ stack'[k].at \in {"run", "call"}
                            /\ stack'[k].at = "call" <=> stack'[k + 1].fn = "eval"
  <2> SUFFICES ASSUME NEW k \in 1 .. n - 1
               PROVE  /\ stack'[k].at \in {"run", "call"}
                      /\ stack'[k].at = "call" <=> stack'[k + 1].fn = "eval"
    OBVIOUS
  <2>1. k \in 1 .. n /\ k + 1 \in 1 .. n
    BY <1>1
  <2> QED BY <1>2, <1>7, <1>8, <2>1
<1>10. n \in 1 .. MaxFrames /\ 1 \in 1 .. n
  BY <1>1
<1> QED BY <1>1, <1>2, <1>3, <1>7, <1>8, <1>9, <1>10 DEF StackInv, n, c, d

------------------------------------------------------------------------------
(* Types, and what the frames announce                                     *)

\* A step of the C handlers, or none of the flags and frames.
LEMMA TypeStep ==
  ASSUME TypeOK, StackInv, StackInv', [Next]_vars
  PROVE  TypeOK'
<1> SUFFICES
      /\ tripped' \in [Sig -> BOOLEAN]
      /\ {is_tripped', signals_pending', eval_breaker', direct_failed'} \subseteq BOOLEAN
      /\ arrivals' \in 0 .. MaxArrivals
      /\ chandler' \in [Sig -> {"idle", "trip", "any", "signal", "load",
                                "store0", "store1"}]
      /\ on_main' \in Seq(Sig)
  BY DEF TypeOK, StackInv
<1>1. ASSUME NEW s \in Sig, Deliver(s)
      PROVE  /\ arrivals' \in 0 .. MaxArrivals
             /\ chandler' \in [Sig -> {"idle", "trip", "any", "signal", "load",
                                       "store0", "store1"}]
             /\ on_main' \in Seq(Sig)
             /\ UNCHANGED <<flags, direct_failed>>
  BY <1>1, SignalsAssumption DEF Deliver, TypeOK
<1>2. ASSUME NEW s \in Sig, Trip(s)
      PROVE  /\ tripped' \in [Sig -> BOOLEAN]
             /\ {is_tripped', signals_pending'} \subseteq BOOLEAN
             /\ chandler' \in [Sig -> {"idle", "trip", "any", "signal", "load",
                                       "store0", "store1"}]
             /\ UNCHANGED <<eval_breaker, hist, on_main>>
  BY <1>2 DEF Trip, TypeOK, AfterStore, Stores
<1>3. ASSUME NEW s \in Sig, TripCompute(s)
      PROVE  /\ eval_breaker' \in BOOLEAN
             /\ chandler' \in [Sig -> {"idle", "trip", "any", "signal", "load",
                                       "store0", "store1"}]
             /\ on_main' \in Seq(Sig)
             /\ UNCHANGED <<tripped, is_tripped, signals_pending, hist>>
  <2>1. on_main # <<>> => Front(on_main) \in Seq(Sig)
    BY DEF TypeOK, Front
  <2>2. OnMain(s) => on_main # <<>>
    BY DEF OnMain, ToSet
  <2> QED BY <1>3, <2>1, <2>2 DEF TripCompute, TypeOK
<1>4. CASE MainStep
  <2>1. /\ tripped' \in [Sig -> BOOLEAN]
        /\ {is_tripped', signals_pending', direct_failed'} \subseteq BOOLEAN
    BY <1>4 DEF MainStep, CheckBreaker, TestPending, HandlerReturns, Unsignal, Resignal,
        ComputeLoad, ComputeStore, TestTripped, ClearTripped, Scan, Untrip, Retrip, TypeOK,
        flags, hist
  <2>2. UNCHANGED <<arrivals, chandler, on_main>>
    BY <1>4 DEF MainStep, CheckBreaker, TestPending, HandlerReturns, Unsignal, Resignal,
        ComputeLoad, ComputeStore, TestTripped, ClearTripped, Scan, Untrip, Retrip, flags, hist
  <2>3. eval_breaker' = eval_breaker \/ (Top.at \in {"un_store", "re_store"}
                                         /\ eval_breaker' = Top.loaded)
    BY <1>4 DEF MainStep, CheckBreaker, TestPending, HandlerReturns, Unsignal, Resignal,
        ComputeLoad, ComputeStore, TestTripped, ClearTripped, Scan, Untrip, Retrip, flags, At
  <2>4. Top.loaded \in BOOLEAN
    BY TopFrame DEF FrameType
  <2> QED BY <2>1, <2>2, <2>3, <2>4 DEF TypeOK
<1>5. CASE CallCheckSignals \/ CallCompute \/ UNCHANGED vars
  BY <1>5 DEF CallCheckSignals, CallCompute, vars, flags, hist, TypeOK
<1> QED BY <1>1, <1>2, <1>3, <1>4, <1>5 DEF Next, CHandler, TypeOK, flags, hist

\* What the frames announce when the innermost one goes on.
LEMMA GoOnTells ==
  ASSUME StackInv, NEW x, Len(stack') = Len(stack), stack'[Len(stack)] = x,
         \A k \in 1 .. Len(stack) - 1 : stack'[k] = stack[k]
  PROVE  /\ \A s \in Sig : /\ Scans(s) => WillScan(Top, s) \/ Scans(s)'
                           /\ WillScan(x, s) => Scans(s)'
         /\ Looked => Looks(Top) \/ Looked'
         /\ Looks(x) => Looked'
<1>1. /\ Len(stack) \in 1 .. Len(stack)
      /\ \A k \in 1 .. Len(stack) : k = Len(stack) \/ k \in 1 .. Len(stack) - 1
      /\ \A k \in 1 .. Len(stack) - 1 : k \in 1 .. Len(stack)
  BY TopFrame
<1>2. \A k \in 1 .. Len(stack) : stack'[k] = stack[k] \/ (k = Len(stack) /\ stack[k] = Top)
  BY <1>1 DEF Top
<1> QED BY <1>1, <1>2 DEF Scans, Looked

\* A frame that is not the innermost one keeps what it announces.
LEMMA CallsTells ==
  ASSUME StackInv, Len(stack') = Len(stack) + 1,
         \A k \in 1 .. Len(stack) : stack'[k] = stack[k]
  PROVE  (\A s \in Sig : Scans(s) => Scans(s)') /\ (Looked => Looked')
<1>1. \A k \in 1 .. Len(stack) : k \in 1 .. Len(stack) + 1
  BY TopFrame
<1> QED BY <1>1 DEF Scans, Looked

\* A frame that returns or raises takes only its own promises with it.
LEMMA EndsTells ==
  ASSUME StackInv, Len(stack) > 1, Return \/ Raise
  PROVE  /\ \A s \in Sig : Scans(s) => WillScan(Top, s) \/ Scans(s)'
         /\ Looked => Looks(Top) \/ Looked'
<1> DEFINE n == Len(stack) - 1
<1>1. /\ Len(stack) \in Nat /\ n \in Nat \ {0} /\ Len(stack) = n + 1
      /\ Top = stack[n + 1] /\ Len(stack') = n
      /\ \A k \in 1 .. n - 1 : stack'[k] = stack[k]
      /\ \/ stack'[n] = stack[n]
         \/ stack[n].at = "call" /\ stack'[n] = [stack[n] EXCEPT !.at = "retrip"]
  BY TopFrame, Ends
<1>2. stack[n] \in FrameType
  BY <1>1 DEF StackInv
<1> HIDE DEF n
<1>3. ASSUME NEW k \in 1 .. n, NEW s
      PROVE  /\ WillScan(stack[k], s) => WillScan(stack'[k], s)
             /\ Looks(stack[k]) => Looks(stack'[k])
  <2>1. CASE k = n
    BY <1>1, <1>2, <2>1 DEF WillScan, Looks, FrameType
  <2>2. CASE k # n
    <3>1. k \in 1 .. n - 1
      BY <1>1, <2>2
    <3> QED BY <1>1, <3>1
  <2> QED BY <2>1, <2>2
<1>4. \A k \in 1 .. Len(stack) : k \in 1 .. n \/ stack[k] = Top
  BY <1>1
<1> QED BY <1>1, <1>3, <1>4 DEF Scans, Looked

\* Calling the Python handler of a signal leaves the other promises as they are.
LEMMA CallsHandlerTells ==
  ASSUME StackInv, Len(stack) < MaxFrames, Top.at = "untrip",
         stack' = Append([stack EXCEPT ![Len(stack)].at = "call"], Frame("eval", "run"))
  PROVE  /\ \A s \in Sig : Scans(s) => s = Top.i \/ Scans(s)'
         /\ Looked => Looked'
<1> DEFINE n == Len(stack)
<1>1. /\ n \in Nat \ {0} /\ Top = stack[n] /\ Len(stack') = n + 1
      /\ \A k \in 1 .. n - 1 : stack'[k] = stack[k]
      /\ stack'[n] = [Top EXCEPT !.at = "call"] /\ Top \in FrameType
  BY TopFrame, CallsHandler
<1> HIDE DEF n
<1>2. ASSUME NEW k \in 1 .. n
      PROVE  /\ \A s \in Sig : WillScan(stack[k], s) => s = Top.i \/ WillScan(stack'[k], s)
             /\ Looks(stack[k]) => Looks(stack'[k])
  <2>1. CASE k = n
    <3>1. Top.i \in Nat /\ \A s \in Sig : s \in Nat
      BY <1>1, SignalsAssumption DEF FrameType, Sig
    <3> QED BY <1>1, <2>1, <3>1 DEF WillScan, Looks, FrameType
  <2>2. CASE k # n
    <3>1. k \in 1 .. n - 1
      BY <1>1, <2>2
    <3> QED BY <1>1, <3>1
  <2> QED BY <2>1, <2>2
<1>3. \A k \in 1 .. n : k \in 1 .. Len(stack')
  BY <1>1
<1>4. Len(stack) = n
  BY DEF n
<1>5. ASSUME NEW s \in Sig, Scans(s) PROVE s = Top.i \/ Scans(s)'
  <2>1. PICK k \in 1 .. n : WillScan(stack[k], s)
    BY <1>4, <1>5 DEF Scans
  <2> QED BY <1>2, <1>3, <2>1 DEF Scans
<1>6. ASSUME Looked PROVE Looked'
  <2>1. PICK k \in 1 .. n : Looks(stack[k])
    BY <1>4, <1>6 DEF Looked
  <2>2. Looks(stack'[k])
    BY <1>2, <2>1
  <2> QED BY <1>3, <2>1, <2>2 DEF Looked
<1> QED BY <1>5, <1>6

\* A Python handler that returns takes no promise with it.
LEMMA HandlerEndsTells ==
  ASSUME StackInv, Len(stack) > 1, Top.at = "run",
         stack' = [Front(stack) EXCEPT ![Len(stack) - 1] =
                     [stack[Len(stack) - 1] EXCEPT !.at = "scan", !.i = @ + 1]]
  PROVE  (\A s \in Sig : Scans(s) => Scans(s)') /\ (Looked => Looked')
<1> DEFINE n == Len(stack) - 1
<1>1. /\ n \in Nat \ {0} /\ Len(stack) = n + 1 /\ Top = stack[n + 1] /\ Len(stack') = n
      /\ \A k \in 1 .. n - 1 : stack'[k] = stack[k]
      /\ stack[n].at = "call"
      /\ stack'[n] = [stack[n] EXCEPT !.at = "scan", !.i = @ + 1]
  BY TopFrame, HandlerEnds
<1>2. stack[n] \in FrameType
  BY <1>1 DEF StackInv
<1> HIDE DEF n
<1>3. ASSUME NEW k \in 1 .. n
      PROVE  /\ \A s \in Sig : WillScan(stack[k], s) => WillScan(stack'[k], s)
             /\ Looks(stack[k]) => Looks(stack'[k])
  <2>1. CASE k = n
    <3>1. stack[n].i \in Nat /\ \A s \in Sig : s \in Nat
      BY <1>2, SignalsAssumption DEF FrameType, Sig
    <3> QED BY <1>1, <1>2, <2>1, <3>1 DEF WillScan, Looks, FrameType
  <2>2. CASE k # n
    <3>1. k \in 1 .. n - 1
      BY <1>1, <2>2
    <3> QED BY <1>1, <3>1
  <2> QED BY <2>1, <2>2
<1>4. \A k \in 1 .. Len(stack) : k \in 1 .. n \/ stack[k] = Top
  BY <1>1
<1>5. (\A s \in Sig : ~WillScan(Top, s)) /\ ~Looks(Top)
  BY DEF WillScan, Looks
<1>6. Len(stack') = n
  BY <1>1
<1>7. ASSUME NEW s \in Sig, Scans(s) PROVE Scans(s)'
  <2>1. PICK k \in 1 .. Len(stack) : WillScan(stack[k], s)
    BY <1>7 DEF Scans
  <2>2. k \in 1 .. n
    BY <1>4, <1>5, <2>1
  <2> QED BY <1>3, <1>6, <2>1, <2>2 DEF Scans
<1>8. ASSUME Looked PROVE Looked'
  <2>1. PICK k \in 1 .. Len(stack) : Looks(stack[k])
    BY <1>8 DEF Looked
  <2>2. k \in 1 .. n
    BY <1>4, <2>1 DEF Looks
  <2>3. Looks(stack'[k])
    BY <1>3, <2>1, <2>2
  <2> QED BY <1>6, <2>2, <2>3 DEF Looked
<1> QED BY <1>7, <1>8

------------------------------------------------------------------------------
(* Steps                                                                   *)

Inv == StackInv /\ TripInv /\ SignalInv

\* A C handler runs, and the frames stay as they are.
LEMMA CHandlerStep ==
  ASSUME SignalsInv, NEW s \in Sig, Deliver(s) \/ CHandler(s)
  PROVE  Inv'
<1> USE DEF SignalsInv, Inv
<1>1. stack' = stack /\ direct_failed' = direct_failed
  BY DEF Deliver, CHandler, Trip, TripCompute, hist
<1>2. StackInv' /\ (Looked' <=> Looked) /\ \A t \in Sig : Scans(t)' <=> Scans(t)
  BY <1>1 DEF StackInv, Looked, Scans, Top
<1>3. CASE Deliver(s) \/ TripCompute(s)
  <2>1. /\ UNCHANGED <<tripped, is_tripped, signals_pending>>
        /\ \A t \in Sig : /\ chandler[t] = "any" => chandler'[t] = "any"
                          /\ chandler[t] = "signal" => chandler'[t] = "signal"
    BY <1>3 DEF Deliver, TripCompute, flags, TypeOK, Runs
  <2> QED BY <1>1, <1>2, <2>1 DEF TripInv, SignalInv
<1>4. CASE Trip(s)
  <2>1. \A t \in Sig \ {s} : chandler'[t] = chandler[t] /\ tripped'[t] = tripped[t]
    BY <1>4 DEF Trip, TypeOK
  <2>2. \/ /\ chandler[s] = "trip" /\ chandler'[s] = "any"
           /\ UNCHANGED <<is_tripped, signals_pending>>
        \/ /\ chandler[s] = "any" /\ chandler'[s] = "signal" /\ is_tripped'
        \/ /\ chandler[s] = "signal" /\ signals_pending'
           /\ UNCHANGED is_tripped /\ tripped'[s] = tripped[s]
    <3>1. chandler[s] \in {"trip", "any", "signal"} /\ s \in Sig
      BY <1>4 DEF Trip, Stores
    <3>2. chandler'[s] = AfterStore[chandler[s]]
      BY <1>4 DEF Trip, TypeOK
    <3>6. /\ Stores["trip"] = "tripped" /\ Stores["any"] = "is_tripped"
          /\ Stores["signal"] = "pending"
          /\ AfterStore["trip"] = "any" /\ AfterStore["any"] = "signal"
      BY DEF Stores, AfterStore
    <3>7. /\ is_tripped' = (is_tripped \/ Stores[chandler[s]] = "is_tripped")
          /\ signals_pending' = (signals_pending \/ Stores[chandler[s]] = "pending")
          /\ tripped'[s] = (tripped[s] \/ Stores[chandler[s]] = "tripped")
      BY <1>4 DEF Trip, TypeOK
    <3>8. {is_tripped, signals_pending, tripped[s]} \subseteq BOOLEAN
      BY DEF TypeOK
    <3>3. CASE chandler[s] = "trip"
      BY <3>2, <3>3, <3>6, <3>7, <3>8
    <3>4. CASE chandler[s] = "any"
      BY <3>2, <3>4, <3>6, <3>7, <3>8
    <3>5. CASE chandler[s] = "signal"
      BY <3>2, <3>5, <3>6, <3>7, <3>8
    <3> QED BY <3>1, <3>3, <3>4, <3>5
  <2>3. signals_pending => signals_pending'
    BY <1>4 DEF Trip
  <2>4. is_tripped => is_tripped'
    BY <1>4 DEF Trip
  <2>5. TripInv'
    BY <1>2, <2>1, <2>2, <2>4 DEF TripInv
  <2>6. SignalInv'
    BY <1>1, <1>2, <2>1, <2>2, <2>3 DEF SignalInv
  <2> QED BY <1>2, <2>5, <2>6
<1> QED BY <1>3, <1>4 DEF CHandler

\* The innermost frame goes on without a store.
LEMMA QuietTells ==
  ASSUME SignalsInv, StackInv',
         UNCHANGED <<tripped, is_tripped, signals_pending, direct_failed, chandler>>,
         \A s \in Sig : Scans(s) /\ tripped[s] => Scans(s)',
         Looked /\ is_tripped => Looked'
  PROVE  Inv'
BY DEF SignalsInv, Inv, TripInv, SignalInv

\* The main thread calls a function, or bytecode sees eval_breaker.
LEMMA CallStep ==
  ASSUME SignalsInv, CheckBreaker \/ CallCheckSignals \/ CallCompute
  PROVE  Inv'
<1>1. PICK x \in {Frame("pending", "pend"), Frame("direct", "test"), Frame("compute", "un_load")} :
        Push(x)
  BY DEF CheckBreaker, CallCheckSignals, CallCompute
<1>2. x \in FrameType /\ Shape(x) /\ x.fn # "eval"
  <2>1. 1 \in 1 .. NSIG
    BY SignalsAssumption
  <2>2. \A f \in {"pending", "direct", "compute"}, l \in {"pend", "test", "un_load"} :
          Frame(f, l) \in FrameType
    BY <2>1 DEF Frame, FrameType, CheckLabels, HandlerLabels
  <2>3. \A f, l : Frame(f, l).fn = f /\ Frame(f, l).at = l /\ Frame(f, l).i = 1
    BY DEF Frame
  <2> QED BY <2>2, <2>3 DEF Shape
<1>3. Top.at = "run" /\ UNCHANGED <<flags, hist, chandler>>
  BY DEF CheckBreaker, CallCheckSignals, CallCompute, At
<1>4. /\ StackInv' /\ Len(stack') = Len(stack) + 1
      /\ \A k \in 1 .. Len(stack) : stack'[k] = stack[k]
  BY <1>1, <1>2, <1>3, Calls DEF SignalsInv
<1> QED BY <1>3, <1>4, CallsTells, QuietTells DEF SignalsInv, flags, hist

\* A frame ends that announces nothing.
LEMMA EndStep ==
  ASSUME SignalsInv, Top.at # "run" \/ Len(stack) > 1, Return \/ Raise,
         UNCHANGED <<tripped, is_tripped, signals_pending, direct_failed, chandler>>,
         \A s \in Sig : ~WillScan(Top, s), ~(Looks(Top) /\ is_tripped)
  PROVE  Inv'
<1>1. Len(stack) > 1
  BY TopFrame DEF SignalsInv
<1> QED BY <1>1, Ends, EndsTells, QuietTells DEF SignalsInv

\* The innermost frame goes on at another place.
LEMMA GotoStep ==
  ASSUME SignalsInv, NEW x \in FrameType, Shape(x), x.fn = Top.fn,
         stack' = [stack EXCEPT ![Len(stack)] = x],
         UNCHANGED <<direct_failed, chandler>>,
         \A s \in Sig : /\ tripped'[s] => tripped[s]
                        /\ tripped'[s] => is_tripped' \/ (is_tripped => WillScan(x, s))
                        /\ WillScan(Top, s) /\ tripped'[s] => WillScan(x, s) \/ is_tripped',
         is_tripped' => \/ signals_pending' \/ Looks(x) \/ direct_failed'
                        \/ is_tripped /\ ~Looks(Top) /\ (signals_pending => signals_pending')
  PROVE  Inv'
<1>1. /\ StackInv' /\ Len(stack') = Len(stack) /\ stack'[Len(stack)] = x
      /\ \A k \in 1 .. Len(stack) - 1 : stack'[k] = stack[k]
  BY GoOn DEF SignalsInv
<1>2. /\ \A s \in Sig : /\ Scans(s) => WillScan(Top, s) \/ Scans(s)'
                        /\ WillScan(x, s) => Scans(s)'
      /\ Looked => Looks(Top) \/ Looked'
      /\ Looks(x) => Looked'
  BY <1>1, GoOnTells DEF SignalsInv
<1>3. TripInv'
  BY <1>2 DEF SignalsInv, TripInv
<1>4. SignalInv'
  BY <1>2 DEF SignalsInv, SignalInv
<1> QED BY <1>1, <1>3, <1>4 DEF Inv

\* What a frame at another place is.
LEMMA MovedFrame ==
  ASSUME SignalsInv, NEW l \in {"run", "pend"} \cup CheckLabels \cup HandlerLabels
  PROVE  LET x == [Top EXCEPT !.at = l]
         IN  /\ x \in FrameType /\ x.at = l /\ x.fn = Top.fn /\ x.i = Top.i
             /\ Goto(l) => stack' = [stack EXCEPT ![Len(stack)] = x]
<1>1. Top \in FrameType
  BY TopFrame DEF SignalsInv
<1> QED BY <1>1 DEF FrameType, Goto, Top

\* handle_signals() and take_gil().
LEMMA HandleStep ==
  ASSUME SignalsInv, TestPending \/ Unsignal \/ Resignal \/ ComputeLoad \/ ComputeStore
  PROVE  Inv'
<1>0. Top \in FrameType /\ Shape(Top) /\ Len(stack) \in Nat \ {0} /\ Top = stack[Len(stack)]
  BY TopFrame DEF SignalsInv
<1>1. CASE TestPending
  <2>1. Top.at = "pend" /\ UNCHANGED <<flags, hist, chandler>>
    BY <1>1 DEF TestPending, At
  <2>2. CASE Return
    BY <2>1, <2>2, EndStep DEF flags, hist, WillScan, Looks
  <2>3. CASE Goto("unsignal")
    <3> DEFINE x == [Top EXCEPT !.at = "unsignal"]
    <3>1. /\ x \in FrameType /\ x.at = "unsignal" /\ x.fn = Top.fn /\ x.i = Top.i
          /\ stack' = [stack EXCEPT ![Len(stack)] = x]
      BY <2>3, MovedFrame DEF HandlerLabels
    <3>2. Shape(x)
      BY <1>0, <2>1, <3>1 DEF Shape
    <3> HIDE DEF x
    <3>3. /\ \A s \in Sig : ~WillScan(Top, s) /\ ~WillScan(x, s)
          /\ ~Looks(Top)
      BY <2>1, <3>1 DEF WillScan, Looks
    <3> QED BY <2>1, <3>1, <3>2, <3>3, GotoStep DEF flags, hist
  <2> QED BY <1>1, <2>2, <2>3 DEF TestPending
<1>2. CASE Unsignal
  <2> DEFINE x == [Top EXCEPT !.at = "un_load"]
  <2>1. /\ Top.at = "unsignal" /\ Goto("un_load")
        /\ UNCHANGED <<tripped, is_tripped, hist, chandler>>
    BY <1>2 DEF Unsignal, At
  <2>2. /\ x \in FrameType /\ x.at = "un_load" /\ x.fn = Top.fn /\ x.i = Top.i
        /\ stack' = [stack EXCEPT ![Len(stack)] = x]
    BY <2>1, MovedFrame DEF HandlerLabels
  <2>3. Shape(x) /\ Top.fn = "pending"
    BY <1>0, <2>1, <2>2 DEF Shape
  <2> HIDE DEF x
  <2>4. Looks(x) /\ \A s \in Sig : ~WillScan(Top, s)
    BY <2>1, <2>2, <2>3 DEF WillScan, Looks
  <2>5. \A s \in Sig : tripped'[s] => tripped[s]
    BY <2>1
  <2> QED BY <2>1, <2>2, <2>3, <2>4, <2>5, GotoStep DEF hist
<1>3. CASE Resignal
  <2> DEFINE x == [Top EXCEPT !.at = "re_load"]
  <2>1. /\ Top.at = "resignal" /\ Goto("re_load") /\ signals_pending'
        /\ UNCHANGED <<tripped, is_tripped, hist, chandler>>
    BY <1>3 DEF Resignal, At
  <2>2. /\ x \in FrameType /\ x.at = "re_load" /\ x.fn = Top.fn /\ x.i = Top.i
        /\ stack' = [stack EXCEPT ![Len(stack)] = x]
    BY <2>1, MovedFrame DEF HandlerLabels
  <2>3. Shape(x)
    BY <1>0, <2>1, <2>2 DEF Shape
  <2> HIDE DEF x
  <2>4. \A s \in Sig : ~WillScan(Top, s)
    BY <2>1 DEF WillScan
  <2> QED BY <2>1, <2>2, <2>3, <2>4, GotoStep DEF hist
<1>4. CASE ComputeLoad
  <2> DEFINE l == IF Top.at = "un_load" THEN "un_store" ELSE "re_store"
             x == [Top EXCEPT !.loaded = signals_pending, !.at = l]
  <2>1. /\ Top.at \in {"un_load", "re_load"} /\ UNCHANGED <<flags, hist, chandler>>
        /\ stack' = [stack EXCEPT ![Len(stack)].loaded = signals_pending,
                       ![Len(stack)].at = IF @ = "un_load" THEN "un_store"
                                          ELSE "re_store"]
    BY <1>4 DEF ComputeLoad, At
  <2>2. stack' = [stack EXCEPT ![Len(stack)] = x]
    BY <1>0, <2>1 DEF SignalsInv, StackInv, FrameType
  <2>3. /\ x \in FrameType /\ x.at = l /\ x.fn = Top.fn /\ x.i = Top.i
    BY <1>0 DEF FrameType, HandlerLabels, SignalsInv, TypeOK
  <2>4. Shape(x)
    BY <1>0, <2>1, <2>3 DEF Shape
  <2>5. (Looks(Top) => Looks(x)) /\ \A s \in Sig : ~WillScan(Top, s)
    BY <1>0, <2>1, <2>3 DEF WillScan, Looks, Shape
  <2> HIDE DEF x, l
  <2> QED BY <2>1, <2>2, <2>3, <2>4, <2>5, GotoStep DEF hist, flags
<1>5. CASE ComputeStore
  <2>1. UNCHANGED <<tripped, is_tripped, signals_pending, hist, chandler>>
    BY <1>5 DEF ComputeStore
  <2>2. CASE Top.at = "un_store" /\ Top.fn # "compute" /\ Goto("test")
    <3> DEFINE x == [Top EXCEPT !.at = "test"]
    <3>1. /\ x \in FrameType /\ x.at = "test" /\ x.fn = Top.fn /\ x.i = Top.i
          /\ stack' = [stack EXCEPT ![Len(stack)] = x]
      BY <2>2, MovedFrame DEF CheckLabels
    <3>2. Shape(x) /\ Top.fn = "pending"
      BY <1>0, <2>2, <3>1 DEF Shape
    <3> HIDE DEF x
    <3>3. Looks(x) /\ \A s \in Sig : ~WillScan(Top, s)
      BY <2>2, <3>1, <3>2 DEF WillScan, Looks
    <3> QED BY <2>1, <3>1, <3>2, <3>3, GotoStep DEF hist
  <2>3. CASE \/ Top.at = "un_store" /\ Top.fn = "compute" /\ Return
             \/ Top.at = "re_store" /\ Raise
    <3>1. ~Looks(Top) /\ \A s \in Sig : ~WillScan(Top, s)
      BY <2>3 DEF WillScan, Looks
    <3> QED BY <2>1, <2>3, <3>1, EndStep DEF hist
  <2> QED BY <1>5, <2>2, <2>3 DEF ComputeStore, At
<1> QED BY <1>1, <1>2, <1>3, <1>4, <1>5

\* _PyErr_CheckSignalsTstate().
LEMMA CheckStep ==
  ASSUME SignalsInv, TestTripped \/ ClearTripped \/ Scan \/ Untrip \/ Retrip
  PROVE  Inv'
<1>0. /\ Top \in FrameType /\ Shape(Top) /\ Len(stack) \in Nat \ {0} /\ Top = stack[Len(stack)]
      /\ stack \in Seq(FrameType)
  BY TopFrame DEF SignalsInv, StackInv
<1>a. NSIG \in Nat \ {0} /\ Top.i \in 1 .. NSIG /\ \A s \in Sig : s \in Nat /\ 1 <= s /\ s < NSIG
  BY <1>0, SignalsAssumption DEF FrameType, Sig
<1>1. CASE TestTripped
  <2>1. Top.at = "test" /\ UNCHANGED <<flags, hist, chandler>>
    BY <1>1 DEF TestTripped, At
  <2>2. CASE ~is_tripped /\ Return
    BY <2>1, <2>2, EndStep DEF flags, hist, WillScan
  <2>3. CASE Goto("clear")
    <3> DEFINE x == [Top EXCEPT !.at = "clear"]
    <3>1. /\ x \in FrameType /\ x.at = "clear" /\ x.fn = Top.fn /\ x.i = Top.i
          /\ stack' = [stack EXCEPT ![Len(stack)] = x]
      BY <2>3, MovedFrame DEF CheckLabels
    <3>2. Shape(x)
      BY <1>0, <2>1, <3>1 DEF Shape
    <3> HIDE DEF x
    <3>3. (Looks(Top) => Looks(x)) /\ \A s \in Sig : ~WillScan(Top, s)
      BY <2>1, <3>1 DEF WillScan, Looks
    <3> QED BY <2>1, <3>1, <3>2, <3>3, GotoStep DEF flags, hist
  <2> QED BY <1>1, <2>2, <2>3 DEF TestTripped
<1>2. CASE ClearTripped
  <2> DEFINE x == [Top EXCEPT !.at = "scan"]
  <2>1. /\ Top.at = "clear" /\ ~is_tripped' /\ Goto("scan")
        /\ UNCHANGED <<tripped, signals_pending, hist, chandler>>
    BY <1>2 DEF ClearTripped, At
  <2>2. /\ x \in FrameType /\ x.at = "scan" /\ x.fn = Top.fn /\ x.i = Top.i
        /\ stack' = [stack EXCEPT ![Len(stack)] = x]
    BY <2>1, MovedFrame DEF CheckLabels
  <2>3. Shape(x) /\ Top.i = 1
    BY <1>0, <2>1, <2>2 DEF Shape
  <2> HIDE DEF x
  <2>4. \A s \in Sig : WillScan(x, s)
    BY <1>a, <2>2, <2>3 DEF WillScan
  <2> QED BY <2>1, <2>2, <2>3, <2>4, GotoStep DEF hist
<1>3. CASE Scan
  <2>1. Top.at = "scan" /\ UNCHANGED <<flags, hist, chandler>>
    BY <1>3 DEF Scan, At
  <2>2. CASE Top.i = NSIG /\ Return
    <3>1. ~Looks(Top) /\ \A s \in Sig : ~WillScan(Top, s)
      BY <1>a, <2>1, <2>2 DEF Looks, WillScan
    <3> QED BY <2>1, <2>2, <3>1, EndStep DEF flags, hist
  <2>3. CASE Top.i # NSIG /\ Goto("untrip")
    <3> DEFINE x == [Top EXCEPT !.at = "untrip"]
    <3>1. /\ x \in FrameType /\ x.at = "untrip" /\ x.fn = Top.fn /\ x.i = Top.i
          /\ stack' = [stack EXCEPT ![Len(stack)] = x]
      BY <2>3, MovedFrame DEF CheckLabels
    <3>2. Shape(x)
      BY <1>0, <1>a, <2>1, <2>3, <3>1 DEF Shape
    <3> HIDE DEF x
    <3>3. ~Looks(Top) /\ \A s \in Sig : WillScan(Top, s) => WillScan(x, s)
      BY <2>1, <3>1 DEF WillScan, Looks
    <3> QED BY <2>1, <3>1, <3>2, <3>3, GotoStep DEF flags, hist
  <2>4. CASE /\ Top.i # NSIG /\ ~tripped[Top.i]
             /\ stack' = [stack EXCEPT ![Len(stack)].i = @ + 1]
    <3> DEFINE x == [Top EXCEPT !.i = @ + 1]
    <3>1. stack' = [stack EXCEPT ![Len(stack)] = x]
      BY <1>0, <2>4
    <3>2. Top.i + 1 \in 1 .. NSIG
      BY <1>a, <2>4
    <3>3. /\ x \in FrameType /\ x.at = "scan" /\ x.fn = Top.fn /\ x.i = Top.i + 1
      BY <1>0, <2>1, <3>2 DEF FrameType
    <3>4. Shape(x)
      BY <1>0, <2>1, <3>3 DEF Shape
    <3> HIDE DEF x
    <3>5. ~Looks(Top) /\ \A s \in Sig : WillScan(Top, s) => s = Top.i \/ WillScan(x, s)
      BY <1>a, <2>1, <3>3 DEF WillScan, Looks
    <3> QED BY <2>1, <2>4, <3>1, <3>3, <3>4, <3>5, GotoStep DEF flags, hist
  <2> QED BY <1>3, <2>2, <2>3, <2>4 DEF Scan
<1>4. CASE Untrip
  <2>1. /\ Top.at = "untrip" /\ tripped' = [tripped EXCEPT ![Top.i] = FALSE]
        /\ UNCHANGED <<is_tripped, signals_pending, hist, chandler>>
    BY <1>4 DEF Untrip, At
  <2>2. Top.i < NSIG /\ Top.i \in Sig
    BY <1>0, <1>a, <2>1 DEF Shape, Sig
  <2>3. /\ ~tripped'[Top.i] /\ \A s \in Sig \ {Top.i} : tripped'[s] = tripped[s]
    BY <2>1, <2>2 DEF SignalsInv, TypeOK
  <2>4. CASE stack' = [stack EXCEPT ![Len(stack)].at = "scan", ![Len(stack)].i = @ + 1]
    <3> DEFINE x == [Top EXCEPT !.at = "scan", !.i = @ + 1]
    <3>1. stack' = [stack EXCEPT ![Len(stack)] = x]
      BY <1>0, <2>4 DEF FrameType
    <3>2. Top.i + 1 \in 1 .. NSIG
      BY <1>a, <2>2
    <3>3. /\ x \in FrameType /\ x.at = "scan" /\ x.fn = Top.fn /\ x.i = Top.i + 1
      BY <1>0, <2>1, <3>2 DEF FrameType, CheckLabels
    <3>4. Shape(x)
      BY <1>0, <2>1, <3>3 DEF Shape
    <3> HIDE DEF x
    <3>5. ~Looks(Top) /\ \A s \in Sig : WillScan(Top, s) => s = Top.i \/ WillScan(x, s)
      BY <1>a, <2>1, <3>3 DEF WillScan, Looks
    <3>6. \A s \in Sig : (tripped'[s] => tripped[s] /\ s # Top.i)
      BY <2>3
    <3> QED BY <2>1, <3>1, <3>3, <3>4, <3>5, <3>6, GotoStep DEF hist
  <2>5. CASE /\ Len(stack) < MaxFrames
             /\ stack' = Append([stack EXCEPT ![Len(stack)].at = "call"],
                                Frame("eval", "run"))
    <3>1. StackInv'
      BY <2>1, <2>5, CallsHandler DEF SignalsInv
    <3>2. (\A s \in Sig : Scans(s) => s = Top.i \/ Scans(s)') /\ (Looked => Looked')
      BY <2>1, <2>5, CallsHandlerTells DEF SignalsInv
    <3>3. TripInv'
      BY <2>1, <2>3, <3>2 DEF SignalsInv, TripInv
    <3>4. SignalInv'
      BY <2>1, <3>2 DEF SignalsInv, SignalInv, hist
    <3> QED BY <3>1, <3>3, <3>4 DEF Inv
  <2> QED BY <1>4, <2>4, <2>5 DEF Untrip
<1>5. CASE Retrip
  <2>1. /\ Top.at = "retrip" /\ is_tripped' /\ UNCHANGED <<tripped, signals_pending, chandler>>
        /\ \/ Top.fn = "pending" /\ Goto("resignal")
           \/ Top.fn # "pending" /\ Raise
        /\ direct_failed' = (direct_failed \/ Top.fn = "direct")
    BY <1>5 DEF Retrip, At
  <2>2. Top.fn \in {"pending", "direct"} /\ ~Looks(Top)
    BY <1>0, <2>1 DEF Shape, FrameType, Looks
  <2>3. CASE Top.fn = "pending" /\ Goto("resignal")
    <3> DEFINE x == [Top EXCEPT !.at = "resignal"]
    <3>1. /\ x \in FrameType /\ x.at = "resignal" /\ x.fn = Top.fn /\ x.i = Top.i
          /\ stack' = [stack EXCEPT ![Len(stack)] = x]
      BY <2>3, MovedFrame DEF HandlerLabels
    <3>2. Shape(x)
      BY <1>0, <2>1, <2>3, <3>1 DEF Shape
    <3>3. direct_failed' = direct_failed
      BY <2>1, <2>3 DEF SignalsInv, TypeOK
    <3> HIDE DEF x
    <3>4. Looks(x)
      BY <2>3, <3>1 DEF Looks
    <3> QED BY <2>1, <3>1, <3>2, <3>3, <3>4, GotoStep
  <2>4. CASE Top.fn = "direct" /\ Raise
    <3>1. Len(stack) > 1
      BY <2>1, TopFrame DEF SignalsInv
    <3>2. StackInv'
      BY <2>4, <3>1, Ends DEF SignalsInv
    <3>3. direct_failed'
      BY <2>1, <2>4
    <3> QED BY <2>1, <3>2, <3>3 DEF Inv, TripInv, SignalInv
  <2> QED BY <2>1, <2>2, <2>3, <2>4
<1> QED BY <1>1, <1>2, <1>3, <1>4, <1>5

\* A Python handler returns or raises.
LEMMA ReturnStep ==
  ASSUME SignalsInv, HandlerReturns
  PROVE  Inv'
<1>1. Top.at = "run" /\ Len(stack) > 1 /\ UNCHANGED <<flags, hist, chandler>>
  BY DEF HandlerReturns, At
<1>2. CASE Raise
  <2>1. ~Looks(Top) /\ \A s \in Sig : ~WillScan(Top, s)
    BY <1>1 DEF Looks, WillScan
  <2> QED BY <1>1, <1>2, <2>1, EndStep DEF flags, hist
<1>3. CASE stack' = [Front(stack) EXCEPT ![Len(stack) - 1] =
                       [stack[Len(stack) - 1] EXCEPT !.at = "scan", !.i = @ + 1]]
  BY <1>1, <1>3, HandlerEnds, HandlerEndsTells, QuietTells DEF SignalsInv, flags, hist
<1> QED BY <1>2, <1>3 DEF HandlerReturns

------------------------------------------------------------------------------
(* Theorems                                                                *)

\* The flags are clear and the main thread runs bytecode.
LEMMA SignalsInit == Init => SignalsInv
<1> SUFFICES ASSUME Init PROVE SignalsInv
  OBVIOUS
<1>1. 1 \in 1 .. NSIG /\ 0 \in 0 .. MaxArrivals /\ 1 \in 1 .. MaxFrames
  BY SignalsAssumption
<1>2. /\ stack = <<Frame("eval", "run")>> /\ Frame("eval", "run") \in FrameType
      /\ Shape(Frame("eval", "run")) /\ Frame("eval", "run").fn = "eval"
  BY <1>1 DEF Init, Frame, FrameType, Shape
<1> HIDE DEF Frame
<1>3. /\ Len(stack) = 1 /\ stack[1] = Frame("eval", "run") /\ stack \in Seq(FrameType)
      /\ Len(stack) - 1 = 0
  BY <1>2
<1>4. StackInv
  BY <1>1, <1>2, <1>3 DEF StackInv
<1>5. /\ tripped \in [Sig -> BOOLEAN]
      /\ chandler \in [Sig -> {"idle", "trip", "any", "signal", "load",
                               "store0", "store1"}]
  BY DEF Init
<1>6. /\ is_tripped \in BOOLEAN /\ signals_pending \in BOOLEAN
      /\ eval_breaker \in BOOLEAN /\ direct_failed \in BOOLEAN
      /\ arrivals \in 0 .. MaxArrivals
  BY <1>1 DEF Init
<1>7. on_main \in Seq(Sig)
  BY DEF Init
<1>8. TypeOK
  BY <1>1, <1>3, <1>5, <1>6, <1>7 DEF TypeOK
<1> QED BY <1>4, <1>8 DEF Init, SignalsInv, TripInv, SignalInv

\* The inductive invariant of the signal flags.
LEMMA SignalsInvariant == Spec => []SignalsInv
<1>1. SignalsInv /\ [Next]_vars => SignalsInv'
  <2> SUFFICES ASSUME SignalsInv, [Next]_vars PROVE SignalsInv'
    OBVIOUS
  <2>1. CASE UNCHANGED vars
    BY <2>1 DEF vars, flags, hist, SignalsInv, TypeOK, StackInv, TripInv, SignalInv,
                Scans, Looked
  <2>2. Inv'
    <3>1. CASE UNCHANGED vars
      BY <2>1, <3>1 DEF Inv, SignalsInv
    <3>2. CASE Next
      BY <3>2, CHandlerStep, CallStep, HandleStep, CheckStep, ReturnStep DEF Next, MainStep
    <3> QED BY <3>1, <3>2
  <2> QED BY <2>2, TypeStep DEF Inv, SignalsInv
<1> QED BY <1>1, SignalsInit, PTL DEF Spec

\* Every flag, C handler and frame keeps its type.
THEOREM SignalTypes == Spec => []TypeOK
BY SignalsInvariant, PTL DEF SignalsInv

\* A signal that was tripped is announced by is_tripped or about to be looked at,
\* in any nesting of Python handlers.
THEOREM TripsAreRemembered == Spec => []NoTripForgotten
<1>1. SignalsInv => NoTripForgotten
  BY DEF SignalsInv, TripInv, NoTripForgotten, Scans, Frames, ToSet, StackInv
<1> QED BY <1>1, SignalsInvariant, PTL

\* is_tripped is known to the eval loop.
THEOREM SignalsAreRemembered == Spec => []NoSignalForgotten
<1>1. SignalsInv => NoSignalForgotten
  BY DEF SignalsInv, SignalInv, NoSignalForgotten, Looked, Looks, Frames, ToSet, StackInv
<1> QED BY <1>1, SignalsInvariant, PTL

\* Back in its outermost bytecode the main thread knows of every signal left.
THEOREM FailuresReschedule == Spec => []Rescheduled
<1>1. SignalsInv => Rescheduled
  <2> SUFFICES ASSUME SignalsInv, ~direct_failed, Len(stack) = 1,
                      \A s \in Sig : chandler[s] = "idle", NEW s \in Sig, tripped[s]
               PROVE  signals_pending
    BY DEF Rescheduled, AllRescheduled
  <2>1. stack[1].at = "run" /\ \A k \in 1 .. Len(stack) : k = 1
    BY DEF SignalsInv, StackInv, Shape
  <2>2. ~Scans(s) /\ ~Looked
    BY <2>1 DEF Scans, Looked, WillScan, Looks
  <2> QED BY <2>2 DEF SignalsInv, TripInv, SignalInv
<1> QED BY <1>1, SignalsInvariant, PTL
==============================================================================
