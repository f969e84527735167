------------------------ MODULE SoliteReactiveProofs ------------------------
(***************************************************************************)
(* Theorems about SoliteReactive, for every set of signals, effects and    *)
(* values and every capacity: its types, its observers, its pending queue  *)
(* and the snapshots of nested flushes; and the main theorem, that no      *)
(* update is lost, provided that the two fixed arrays are large enough and *)
(* that subscriber lists can grow.                                         *)
(***************************************************************************)
EXTENDS SoliteReactive, FiniteSetTheorems, SequenceTheorems,
        TLAPS

\* The shape of the C stack: the main program at the bottom, effect bodies
\* above it, every frame but the top inside the flush or the creation that
\* called the frame above it.
StackOK ==
  /\ Len(calls) >= 1
  /\ Depth <= MaxDepth
  /\ calls[1].eff = Main
  /\ \A i \in 2..Len(calls) : calls[i].eff \in Effects
  /\ \A i \in 1..(Len(calls) - 1) : calls[i].op \in {"flush", "create"}
  /\ Top.op # "create"
  /\ Top.op # "none" => Depth < MaxDepth
  /\ \A i \in 1..Len(calls) : calls[i].op \in {"none", "create"} => calls[i].rest = <<>>

TypeInv == TypeOK /\ StackOK

-----------------------------------------------------------------------------
(* The operators on the stack *)

\* The top of a well-typed stack is a frame.
LEMMA TopIsFrame ==
  ASSUME calls \in Seq(Frame), Len(calls) >= 1
  PROVE  /\ Len(calls) \in Nat
         /\ Len(calls) \in DOMAIN calls
         /\ \A i \in 1..Len(calls) : calls[i] \in Frame
         /\ Top \in Frame
         /\ Top.eff \in Effects \cup {Main}
         /\ Top.op \in Ops
         /\ Top.rest \in Seq(Effects)
         /\ Top.base \in 0..MaxBatch
<1>1. /\ Len(calls) \in Nat
      /\ DOMAIN calls = 1..Len(calls)
      /\ \A i \in 1..Len(calls) : calls[i] \in Frame
  BY LenProperties, ElementOfSeq
<1>2. Len(calls) \in 1..Len(calls)
  BY <1>1
<1>3. Top \in Frame
  BY <1>1, <1>2 DEF Top
<1>4. QED
  BY <1>1, <1>2, <1>3 DEF Frame

\* TopGoesOn changes op and rest of the top frame and nothing else.
LEMMA TopGoesOnFrame ==
  ASSUME calls \in Seq(Frame), Len(calls) >= 1,
         NEW op \in Ops, NEW rest \in Seq(Effects)
  PROVE  LET new == TopGoesOn(op, rest)
         IN /\ new \in Seq(Frame)
            /\ Len(new) = Len(calls)
            /\ \A i \in 1..(Len(calls) - 1) : new[i] = calls[i]
            /\ new[Len(calls)] = GoesOn(Top, op, rest)
<1>1. GoesOn(Top, op, rest) \in Frame
  BY TopIsFrame DEF GoesOn, Frame
<1>2. QED
  BY <1>1, TopIsFrame, ExceptSeq DEF TopGoesOn

\* Running a body pushes its frame on what the caller goes on with.
LEMMA RunBodyFrame ==
  ASSUME TypeOK, Len(calls) >= 1,
         NEW op \in Ops, NEW rest \in Seq(Effects), NEW e \in Effects,
         RunBody(e, op, rest)
  PROVE  /\ calls' \in Seq(Frame)
         /\ Len(calls') = Len(calls) + 1
         /\ \A i \in 1..(Len(calls) - 1) : calls'[i] = calls[i]
         /\ calls'[Len(calls)] = GoesOn(Top, op, rest)
         /\ calls'[Len(calls) + 1] = Enter(e)
         /\ seen' \in [Effects -> [Signals -> Values \cup {NoValue}]]
<1>1. calls \in Seq(Frame)
  BY DEF TypeOK
<1> DEFINE new == TopGoesOn(op, rest)
<1>2. /\ new \in Seq(Frame)
      /\ Len(new) = Len(calls)
      /\ \A i \in 1..(Len(calls) - 1) : new[i] = calls[i]
      /\ new[Len(calls)] = GoesOn(Top, op, rest)
  BY <1>1, TopGoesOnFrame
<1>3. Enter(e) \in Frame
  BY DEF Enter, Frame, Ops, TypeOK
<1>4. calls' = Append(new, Enter(e))
  BY DEF RunBody
<1>5. seen' \in [Effects -> [Signals -> Values \cup {NoValue}]]
  BY DEF RunBody, TypeOK, NothingSeen
<1> HIDE DEF new
<1>6. QED
  BY <1>1, <1>2, <1>3, <1>4, <1>5

\* The top frame goes on: the stack keeps its shape.
LEMMA TopGoesOnStack ==
  ASSUME TypeInv,
         NEW op \in Ops, NEW rest \in Seq(Effects),
         op # "create", op = "none" => rest = <<>>,
         op # "none" => Depth < MaxDepth,
         calls' = TopGoesOn(op, rest)
  PROVE  StackOK' /\ calls' \in Seq(Frame)
<1>1. calls \in Seq(Frame) /\ Len(calls) >= 1
  BY DEF TypeInv, TypeOK, StackOK
<1>2. /\ calls' \in Seq(Frame)
      /\ Len(calls') = Len(calls)
      /\ \A i \in 1..(Len(calls) - 1) : calls'[i] = calls[i]
      /\ calls'[Len(calls)] = GoesOn(Top, op, rest)
  BY <1>1, TopGoesOnFrame
<1>3. Len(calls) \in Nat /\ Len(calls') \in Nat
  BY <1>1, <1>2, LenProperties
<1>4. Top' = GoesOn(Top, op, rest)
  BY <1>2 DEF Top
<1>5. /\ \A i \in 1..(Len(calls') - 1) : calls'[i].op \in {"flush", "create"}
      /\ \A i \in 1..(Len(calls') - 1) :
            calls'[i].op \in {"none", "create"} => calls'[i].rest = <<>>
      /\ calls'[1].eff = Main
      /\ \A i \in 2..Len(calls') : calls'[i].eff \in Effects
  BY <1>1, <1>2, <1>3, SMTT(30) DEF TypeInv, StackOK, GoesOn, Top
<1>6. calls'[Len(calls')].op \in {"none", "create"} => calls'[Len(calls')].rest = <<>>
  BY <1>2 DEF GoesOn
<1>7. \A i \in 1..Len(calls') : calls'[i].op \in {"none", "create"} => calls'[i].rest = <<>>
  BY <1>3, <1>5, <1>6
<1>8. Depth' = Depth
  BY <1>2 DEF Depth
<1>9. Top'.op = op
  BY <1>4 DEF GoesOn
<1>10. Depth' <= MaxDepth /\ Top'.op # "create" /\ (Top'.op # "none" => Depth' < MaxDepth)
  BY <1>8, <1>9 DEF TypeInv, StackOK
<1>11. Len(calls') >= 1
  BY <1>1, <1>2
<1>12. QED
  BY <1>2, <1>5, <1>7, <1>10, <1>11 DEF StackOK

\* A body starts: the frame below goes on inside its flush or its creation.
LEMMA RunBodyStack ==
  ASSUME TypeInv, Depth < MaxDepth,
         NEW op \in {"flush", "create"}, NEW rest \in Seq(Effects), NEW e \in Effects,
         op = "create" => rest = <<>>,
         RunBody(e, op, rest)
  PROVE  /\ StackOK'
         /\ calls' \in Seq(Frame)
         /\ seen' \in [Effects -> [Signals -> Values \cup {NoValue}]]
<1>1. TypeOK /\ Len(calls) >= 1 /\ op \in Ops
  BY DEF TypeInv, StackOK, Ops
<1>2. /\ calls' \in Seq(Frame)
      /\ Len(calls') = Len(calls) + 1
      /\ \A i \in 1..(Len(calls) - 1) : calls'[i] = calls[i]
      /\ calls'[Len(calls)] = GoesOn(Top, op, rest)
      /\ calls'[Len(calls) + 1] = Enter(e)
      /\ seen' \in [Effects -> [Signals -> Values \cup {NoValue}]]
  BY <1>1, RunBodyFrame
<1>3. Len(calls) \in Nat
  BY <1>1, LenProperties DEF TypeOK
<1>4. Top' = Enter(e) /\ Depth' = Depth + 1
  BY <1>2, <1>3 DEF Top, Depth
<1>5. /\ calls'[Len(calls)].eff = calls[Len(calls)].eff
      /\ calls'[Len(calls)].op = op
      /\ calls'[Len(calls)].rest = rest
      /\ calls'[Len(calls')].eff = e
      /\ calls'[Len(calls')].op = "none"
      /\ calls'[Len(calls')].rest = <<>>
  BY <1>2 DEF GoesOn, Enter, Top
<1>6. \A i \in 1..Len(calls') : i < Len(calls) \/ i = Len(calls) \/ i = Len(calls')
  BY <1>2, <1>3
<1>7. \A i \in 1..Len(calls') : calls'[i].op \in {"none", "create"} => calls'[i].rest = <<>>
  BY <1>1, <1>2, <1>3, <1>5, <1>6 DEF TypeInv, StackOK
<1>8. \A i \in 1..(Len(calls') - 1) : calls'[i].op \in {"flush", "create"}
  BY <1>1, <1>2, <1>3, <1>5, <1>6, SMTT(30) DEF TypeInv, StackOK
<1>9. calls'[1].eff = Main /\ \A i \in 2..Len(calls') : calls'[i].eff \in Effects
  BY <1>1, <1>2, <1>3, <1>5, <1>6, SMTT(30) DEF TypeInv, StackOK
<1>10. Len(calls') >= 1 /\ Depth' <= MaxDepth
  BY <1>2, <1>3, <1>4, ConstantsAssumption DEF Depth
<1>11. Top'.op = "none"
  BY <1>4 DEF Enter
<1>12. QED
  BY <1>2, <1>7, <1>8, <1>9, <1>10, <1>11 DEF StackOK

\* A body returns: the frame below is on top again.
LEMMA BodyReturnStack ==
  ASSUME TypeInv, BodyReturn
  PROVE  /\ StackOK'
         /\ calls' \in Seq(Frame)
         /\ Len(calls') = Len(calls) - 1
         /\ Len(calls) \in Nat
         /\ \A i \in 1..(Len(calls) - 2) : calls'[i] = calls[i]
         /\ calls'[Len(calls) - 1].eff = calls[Len(calls) - 1].eff
         /\ calls'[Len(calls) - 1].rest = calls[Len(calls) - 1].rest
         /\ calls[Len(calls) - 1].op = "flush" => calls'[Len(calls) - 1].op = "flush"
<1> DEFINE n == Len(calls) - 1
           below == SubSeq(calls, 1, n)
<1>1. /\ calls \in Seq(Frame) /\ Len(calls) \in Nat /\ n \in Nat /\ n >= 1
      /\ \A i \in 1..Len(calls) : calls[i] \in Frame
  BY LenProperties, ElementOfSeq DEF TypeInv, TypeOK, StackOK, BodyReturn, Depth
<1>2. /\ below \in Seq(Frame)
      /\ Len(below) = n
      /\ \A i \in 1..n : below[i] = calls[i]
  BY <1>1, SubSeqProperties
<1>3. below[n].op \in {"flush", "create"} /\ below[n] = calls[n] /\ below[n] \in Frame
  BY <1>1, <1>2 DEF TypeInv, StackOK
<1>4. GoesOn(below[n], "none", <<>>) \in Frame
  <2> HIDE DEF below, n
  <2>1. <<>> \in Seq(Effects)
    BY EmptySeq
  <2>2. QED
    BY <1>3, <2>1 DEF GoesOn, Frame, Ops
<1>5. \/ calls' = below /\ below[n].op = "flush"
      \/ calls' = [below EXCEPT ![n] = GoesOn(below[n], "none", <<>>)]
         /\ below[n].op = "create"
  BY <1>3 DEF BodyReturn, Depth
<1> HIDE DEF below
<1>6. /\ calls' \in Seq(Frame)
      /\ Len(calls') = n
      /\ \A i \in 1..(n - 1) : calls'[i] = calls[i]
      /\ \/ calls'[n] = calls[n] /\ calls[n].op = "flush"
         \/ calls'[n] = GoesOn(calls[n], "none", <<>>) /\ calls[n].op = "create"
  <2> n \in 1..Len(below)
    BY <1>1, <1>2
  <2>1. CASE calls' = below /\ below[n].op = "flush"
    BY <1>1, <1>2, <1>3, <2>1
  <2>2. CASE calls' = [below EXCEPT ![n] = GoesOn(below[n], "none", <<>>)]
             /\ below[n].op = "create"
    <3> DEFINE frame == GoesOn(below[n], "none", <<>>)
    <3>1. /\ calls' \in Seq(Frame) /\ Len(calls') = n
          /\ \A j \in 1..n : calls'[j] = IF j = n THEN frame ELSE below[j]
      <4> HIDE DEF frame
      <4> frame \in Frame
        BY <1>4 DEF frame
      <4>1. calls' = [below EXCEPT ![n] = frame]
        BY <2>2 DEF frame
      <4>2. QED
        BY <1>2, <4>1, ExceptSeq
    <3>2. QED
      BY <1>1, <1>2, <1>3, <2>2, <3>1
  <2>3. QED
    BY <1>5, <2>1, <2>2
<1>7. /\ calls'[n].eff = calls[n].eff
      /\ calls'[n].op \in {"flush", "none"}
      /\ calls'[n].op \in {"none", "create"} => calls'[n].rest = <<>>
      /\ calls[n].op = "flush" => calls'[n].op = "flush"
  BY <1>6 DEF GoesOn
<1>8. calls'[n].rest = calls[n].rest
  <2>1. calls[n].op = "create" => calls[n].rest = <<>>
    BY <1>1 DEF TypeInv, StackOK
  <2>2. QED
    BY <2>1, <1>6 DEF GoesOn
<1>9. Depth' = n - 1 /\ Depth = n /\ Depth' < MaxDepth /\ Top' = calls'[n]
  BY <1>1, <1>6, ConstantsAssumption DEF Depth, Top, TypeInv, StackOK
<1>10. /\ calls'[1].eff = Main
       /\ \A i \in 2..n : calls'[i].eff \in Effects
       /\ \A i \in 1..(n - 1) : calls'[i].op \in {"flush", "create"}
       /\ \A i \in 1..n : calls'[i].op \in {"none", "create"} => calls'[i].rest = <<>>
  <2> HIDE DEF n
  <2>1. n = Len(calls) - 1
    BY DEF n
  <2>2. \A i \in 1..n : i < n \/ i = n
    BY <1>1
  <2>3. calls'[1].eff = Main
    BY <1>1, <1>6, <1>7, <2>1, <2>2 DEF TypeInv, StackOK
  <2>4. \A i \in 2..n : calls'[i].eff \in Effects
    BY <1>1, <1>6, <1>7, <2>1, <2>2 DEF TypeInv, StackOK
  <2>5. \A i \in 1..(n - 1) : calls'[i].op \in {"flush", "create"}
    BY <1>1, <1>6, <2>1 DEF TypeInv, StackOK
  <2>6. \A i \in 1..n : calls'[i].op \in {"none", "create"} => calls'[i].rest = <<>>
    BY <1>1, <1>6, <1>7, <2>1, <2>2 DEF TypeInv, StackOK
  <2>7. QED
    BY <2>3, <2>4, <2>5, <2>6
<1>11. StackOK'
  BY <1>1, <1>6, <1>7, <1>9, <1>10, ConstantsAssumption DEF StackOK
<1>12. QED
  BY <1>1, <1>6, <1>7, <1>8, <1>11

-----------------------------------------------------------------------------
(* Type correctness *)

\* The state before a step, as the provers need it at hand.
LEMMA TypeFacts ==
  ASSUME TypeInv
  PROVE  /\ calls \in Seq(Frame) /\ Len(calls) >= 1
         /\ Len(calls) \in Nat /\ Depth \in Nat
         /\ Top \in Frame /\ Top.rest \in Seq(Effects)
         /\ Top.op \in {"none", "set", "flush"}
         /\ Top.eff \in Effects \cup {Main}
         /\ Top.rest # <<>> => Head(Top.rest) \in Effects /\ Tail(Top.rest) \in Seq(Effects)
         /\ "none" \in Ops /\ "set" \in Ops /\ "flush" \in Ops /\ "create" \in Ops
         /\ <<>> \in Seq(Effects)
<1>1. calls \in Seq(Frame) /\ Len(calls) >= 1
  BY DEF TypeInv, TypeOK, StackOK
<1>2. /\ Top \in Frame /\ Top.rest \in Seq(Effects) /\ Top.op \in Ops
      /\ Top.eff \in Effects \cup {Main} /\ Len(calls) \in Nat
  BY <1>1, TopIsFrame
<1>3. Top.rest # <<>> => Head(Top.rest) \in Effects /\ Tail(Top.rest) \in Seq(Effects)
  BY <1>2, HeadTailProperties
<1>4. Depth \in Nat
  BY <1>1, <1>2 DEF Depth
<1>5. QED
  BY <1>1, <1>2, <1>3, <1>4, EmptySeq DEF Ops, TypeInv, StackOK

\* The initial state has the shape.
LEMMA InitTypeInv == Init => TypeInv
<1> SUFFICES ASSUME Init PROVE TypeInv
  OBVIOUS
<1>1. calls = <<[eff |-> Main, op |-> "none", rest |-> <<>>, base |-> 0]>>
  BY DEF Init
<1>2. [eff |-> Main, op |-> "none", rest |-> <<>>, base |-> 0] \in Frame
  BY ConstantsAssumption, EmptySeq DEF Frame, Ops
<1>3. calls \in Seq(Frame) /\ Len(calls) = 1
  BY <1>1, <1>2
<1>4. StackOK
  BY <1>1, <1>3, ConstantsAssumption DEF StackOK, Top, Depth
<1>5. TypeOK
  BY <1>3, ConstantsAssumption, EmptySeq DEF Init, TypeOK, NothingSeen
<1>6. QED
  BY <1>4, <1>5 DEF TypeInv

\* The steps that leave the stack alone.
LEMMA TypeSameStack ==
  ASSUME TypeInv, calls' = calls
  PROVE  StackOK' /\ calls' \in Seq(Frame)
  BY DEF TypeInv, TypeOK, StackOK, Depth, Top

\* What client code calls keeps the shape.
LEMMA TypeClient == ASSUME TypeInv, Client PROVE TypeInv'
<1> USE TypeFacts
<1>1. ASSUME NEW s \in Signals, NEW v \in Values, SignalCreate(s, v) PROVE TypeInv'
  <2>1. StackOK' /\ calls' \in Seq(Frame)
    BY <1>1, TypeSameStack DEF SignalCreate
  <2>2. seen' \in [Effects -> [Signals -> Values \cup {NoValue}]]
    BY <1>1 DEF SignalCreate, TypeInv, TypeOK
  <2>3. QED
    BY <1>1, <2>1, <2>2, ConstantsAssumption DEF SignalCreate, TypeInv, TypeOK
<1>2. ASSUME NEW s \in Signals, NEW v \in Values, SignalSet(s, v) PROVE TypeInv'
  <2>1. StackOK' /\ calls' \in Seq(Frame)
    BY <1>2, TopGoesOnStack DEF SignalSet, MayNest, TypeInv, TypeOK
  <2>2. QED
    BY <1>2, <2>1 DEF SignalSet, TypeInv, TypeOK
<1>3. ASSUME NEW s \in Signals, SignalGet(s) PROVE TypeInv'
  <2>1. StackOK' /\ calls' \in Seq(Frame)
    BY <1>3, TypeSameStack DEF SignalGet
  <2>2. ObserverCurrent \in Effects \cup {Main}
    BY ElementOfSeq, EmptySeq DEF ObserverCurrent, TypeInv, TypeOK
  <2>3. subs' \in [Signals -> Seq(Effects)] /\ cap' \in [Signals -> Nat \ {0}]
    <3>1. CASE UNCHANGED <<subs, cap>>
      BY <3>1 DEF TypeInv, TypeOK
    <3>2. CASE ObserverCurrent \notin Elements(subs[s]) \cup {Main}
               /\ subs' = [subs EXCEPT ![s] = Append(@, ObserverCurrent)]
               /\ cap' = [cap EXCEPT ![s] = IF Len(subs[s]) >= @ THEN 2 * @ ELSE @]
      <4>1. subs[s] \in Seq(Effects) /\ ObserverCurrent \in Effects
        BY <2>2, <3>2 DEF TypeInv, TypeOK
      <4>2. Append(subs[s], ObserverCurrent) \in Seq(Effects)
        BY <4>1, AppendProperties
      <4>3. cap[s] \in Nat \ {0} /\ 2 * cap[s] \in Nat \ {0}
        BY DEF TypeInv, TypeOK
      <4>4. QED
        BY <3>2, <4>2, <4>3 DEF TypeInv, TypeOK
    <3>3. QED
      BY <1>3, <3>1, <3>2 DEF SignalGet, Subscribe
  <2>4. seen' \in [Effects -> [Signals -> Values \cup {NoValue}]]
    <3>1. CASE Top.eff = Main
      BY <1>3, <3>1 DEF SignalGet, TypeInv, TypeOK
    <3>2. CASE Top.eff # Main
      <4>1. Top.eff \in Effects
        BY <3>2
      <4>2. [seen[Top.eff] EXCEPT ![s] = value[s]] \in [Signals -> Values \cup {NoValue}]
        BY <4>1 DEF TypeInv, TypeOK
      <4>3. QED
        BY <1>3, <3>2, <4>1, <4>2 DEF SignalGet, TypeInv, TypeOK
    <3>3. QED
      BY <3>1, <3>2
  <2>5. QED
    BY <1>3, <2>1, <2>3, <2>4 DEF SignalGet, TypeInv, TypeOK
<1>4. ASSUME NEW s \in Signals, SignalDispose(s) PROVE TypeInv'
  BY <1>4, TypeSameStack DEF SignalDispose, TypeInv, TypeOK
<1>5. ASSUME NEW e \in Effects, EffectCreate(e) PROVE TypeInv'
  <2>1. /\ StackOK' /\ calls' \in Seq(Frame)
        /\ seen' \in [Effects -> [Signals -> Values \cup {NoValue}]]
    BY <1>5, RunBodyStack DEF EffectCreate, MayNest
  <2>2. observers' \in Seq(Effects)
    BY <1>5, AppendProperties DEF EffectCreate, RunBody, ObserverPush, TypeInv, TypeOK
  <2>3. QED
    BY <1>5, <2>1, <2>2 DEF EffectCreate, signalVars, TypeInv, TypeOK
<1>6. ASSUME NEW e \in Effects, EffectDispose(e) PROVE TypeInv'
  BY <1>6, TypeSameStack DEF EffectDispose, signalVars, TypeInv, TypeOK
<1>7. CASE BatchStart
  <2>1. batch' \in 0..MaxBatch
    BY <1>7, ConstantsAssumption DEF BatchStart, TypeInv, TypeOK
  <2>2. QED
    BY <1>7, <2>1, TypeSameStack DEF BatchStart, signalVars, TypeInv, TypeOK
<1>8. CASE BatchEnd
  <2>1. batch' \in 0..MaxBatch
    BY <1>8, ConstantsAssumption DEF BatchEnd, TypeInv, TypeOK
  <2>2. StackOK' /\ calls' \in Seq(Frame)
    BY <1>8, TopGoesOnStack DEF BatchEnd, FlushOp, MayNest
  <2>3. QED
    BY <1>8, <2>1, <2>2 DEF BatchEnd, signalVars, TypeInv, TypeOK
<1>9. CASE FlushCall
  <2>1. StackOK' /\ calls' \in Seq(Frame)
    BY <1>9, TopGoesOnStack DEF FlushCall, FlushOp, MayNest
  <2>2. QED
    BY <1>9, <2>1 DEF FlushCall, signalVars, TypeInv, TypeOK
<1>10. QED
  BY <1>1, <1>2, <1>3, <1>4, <1>5, <1>6, <1>7, <1>8, <1>9 DEF Client

\* The steps of the library keep the shape.
LEMMA TypeLibrary == ASSUME TypeInv, Library PROVE TypeInv'
<1> USE TypeFacts
<1>1. CASE EffectSchedule
  <2>1. StackOK' /\ calls' \in Seq(Frame)
    BY <1>1, TopGoesOnStack DEF EffectSchedule, TypeInv, StackOK
  <2>2. queue' \in Seq(Effects)
    BY <1>1, AppendProperties DEF EffectSchedule, TypeInv, TypeOK
  <2>3. pending' \in [Effects -> BOOLEAN]
    BY <1>1 DEF EffectSchedule, CanSchedule, TypeInv, TypeOK
  <2>4. QED
    BY <1>1, <2>1, <2>2, <2>3 DEF EffectSchedule, signalVars, TypeInv, TypeOK
<1>2. CASE NotifyDone
  <2>1. StackOK' /\ calls' \in Seq(Frame)
    BY <1>2, TopGoesOnStack DEF NotifyDone, FlushOp, TypeInv, StackOK
  <2>2. QED
    BY <1>2, <2>1 DEF NotifyDone, signalVars, TypeInv, TypeOK
<1>3. CASE FlushSnapshot
  <2>1. StackOK' /\ calls' \in Seq(Frame)
    BY <1>3, TopGoesOnStack DEF FlushSnapshot, TypeInv, TypeOK, StackOK
  <2>2. QED
    BY <1>3, <2>1 DEF FlushSnapshot, signalVars, TypeInv, TypeOK
<1>4. CASE FlushNext
  <2> DEFINE e == Head(Top.rest)
  <2>1. e \in Effects /\ Depth < MaxDepth
    BY <1>4 DEF FlushNext, TypeInv, StackOK
  <2>2. pending' \in [Effects -> BOOLEAN]
    BY <1>4, <2>1 DEF FlushNext, TypeInv, TypeOK
  <2>3. /\ StackOK' /\ calls' \in Seq(Frame) /\ observers' \in Seq(Effects)
        /\ seen' \in [Effects -> [Signals -> Values \cup {NoValue}]]
    <3>1. CASE RunBody(e, "flush", Tail(Top.rest))
      <4>1. /\ StackOK' /\ calls' \in Seq(Frame)
            /\ seen' \in [Effects -> [Signals -> Values \cup {NoValue}]]
        BY <1>4, <2>1, <3>1, RunBodyStack DEF FlushNext
      <4>2. QED
        BY <2>1, <3>1, <4>1, AppendProperties DEF RunBody, ObserverPush, TypeInv, TypeOK
    <3>2. CASE calls' = TopGoesOn("flush", Tail(Top.rest)) /\ UNCHANGED <<observers, seen>>
      BY <1>4, <2>1, <3>2, TopGoesOnStack DEF FlushNext, TypeInv, TypeOK
    <3>3. QED
      BY <1>4, <3>1, <3>2 DEF FlushNext
  <2>4. UNCHANGED <<signalVars, status, queue, batch>>
    BY <1>4 DEF FlushNext
  <2>5. QED
    BY <2>2, <2>3, <2>4 DEF signalVars, TypeInv, TypeOK
<1>5. CASE FlushReturn
  <2>1. StackOK' /\ calls' \in Seq(Frame)
    BY <1>5, TopGoesOnStack DEF FlushReturn
  <2>2. QED
    BY <1>5, <2>1 DEF FlushReturn, signalVars, TypeInv, TypeOK
<1>6. QED
  BY <1>1, <1>2, <1>3, <1>4, <1>5 DEF Library

\* A body that returns keeps the shape.
LEMMA TypeBodyReturn == ASSUME TypeInv, BodyReturn PROVE TypeInv'
<1>1. StackOK' /\ calls' \in Seq(Frame)
  BY BodyReturnStack
<1>2. Top.eff \in Effects
  BY TypeFacts DEF BodyReturn, TypeInv, StackOK, Top, Depth
<1>3. status' \in [Effects -> {"none", "creating", "live", "disposed"}]
  BY <1>2 DEF BodyReturn, TypeInv, TypeOK
<1>4. observers' \in Seq(Effects)
  <2>1. Len(observers) \in Nat /\ \A i \in 1..Len(observers) : observers[i] \in Effects
    BY LenProperties, ElementOfSeq DEF TypeInv, TypeOK
  <2>2. CASE observers = <<>>
    BY <2>2, SubSeqEmpty, EmptySeq DEF BodyReturn, ObserverPop
  <2>3. CASE observers # <<>>
    BY <2>1, <2>3, SubSeqProperties DEF BodyReturn, ObserverPop
  <2>4. QED
    BY <2>2, <2>3
<1>5. UNCHANGED <<signalVars, pending, queue, batch, seen>>
  BY DEF BodyReturn
<1>6. QED
  BY <1>1, <1>3, <1>4, <1>5 DEF signalVars, TypeInv, TypeOK

\* Every step keeps the shape.
LEMMA TypeStep == ASSUME TypeInv, [Next]_vars PROVE TypeInv'
<1>1. CASE UNCHANGED vars
  BY <1>1, TypeSameStack DEF vars, signalVars, TypeInv, TypeOK
<1>2. QED
  BY <1>1, TypeClient, TypeLibrary, TypeBodyReturn DEF Next

\* The C stack keeps its shape, whatever client code does.
THEOREM StackShape == Spec => []TypeInv
  BY InitTypeInv, TypeStep, PTL DEF Spec

\* The state of both files keeps its types.
THEOREM TypeCorrect == Spec => []TypeOK
<1>1. TypeInv => TypeOK
  BY DEF TypeInv
<1>2. QED
  BY <1>1, StackShape, PTL

-----------------------------------------------------------------------------
(* The observer stack *)

\* A step that neither calls nor returns from a body lets the top frame go on.
LEMMA GoesOnKeepsObservers ==
  ASSUME TypeInv, ObserversMatch, NEW op \in Ops, NEW rest \in Seq(Effects),
         calls' = TopGoesOn(op, rest), observers' = observers
  PROVE  ObserversMatch'
<1>1. /\ Len(calls') = Len(calls) /\ Len(calls) \in Nat
      /\ \A i \in 1..(Len(calls) - 1) : calls'[i] = calls[i]
      /\ calls'[Len(calls)] = GoesOn(Top, op, rest)
  BY TypeFacts, TopGoesOnFrame
<1>2. \A i \in 1..Len(calls) : calls'[i].eff = calls[i].eff
  BY <1>1 DEF GoesOn, Top
<1>3. QED
  BY <1>1, <1>2, SMTT(30) DEF ObserversMatch, Depth

\* A body is pushed on both stacks, as there is room for it.
LEMMA RunBodyKeepsObservers ==
  ASSUME MaxDepth <= ObserverMax, TypeInv, ObserversMatch, Depth < MaxDepth,
         NEW op \in Ops, NEW rest \in Seq(Effects), NEW e \in Effects,
         RunBody(e, op, rest)
  PROVE  ObserversMatch'
<1>1. TypeOK /\ Len(calls) >= 1
  BY DEF TypeInv, StackOK
<1>2. /\ Len(calls') = Len(calls) + 1 /\ Len(calls) \in Nat
      /\ \A i \in 1..(Len(calls) - 1) : calls'[i] = calls[i]
      /\ calls'[Len(calls)] = GoesOn(Top, op, rest)
      /\ calls'[Len(calls) + 1] = Enter(e)
  BY <1>1, TypeFacts, RunBodyFrame
<1>3. Depth' = Depth + 1 /\ Depth \in Nat
  BY <1>2, TypeFacts DEF Depth
<1>4. observers' = Append(observers, e) /\ observers \in Seq(Effects)
  BY <1>1, <1>3, ConstantsAssumption DEF RunBody, ObserverPush, ObserversMatch, TypeOK
<1>5. /\ Len(observers') = Depth + 1
      /\ \A i \in 1..Depth : observers'[i] = observers[i]
      /\ observers'[Depth + 1] = e
  BY <1>4, AppendProperties DEF ObserversMatch
<1>6. \A i \in 1..Len(calls) : calls'[i].eff = calls[i].eff
  BY <1>2 DEF GoesOn, Top
<1>7. \A i \in 1..Depth : observers'[i] = calls'[i + 1].eff
  BY <1>2, <1>3, <1>5, <1>6 DEF ObserversMatch, Depth
<1>8. observers'[Depth + 1] = calls'[Depth + 2].eff
  BY <1>2, <1>5 DEF Enter, Depth
<1>9. \A i \in 1..(Depth + 1) : i \in 1..Depth \/ i = Depth + 1
  BY <1>3
<1>10. QED
  BY <1>3, <1>5, <1>7, <1>8, <1>9 DEF ObserversMatch

\* The body on top is popped from both stacks.
LEMMA BodyReturnKeepsObservers ==
  ASSUME TypeInv, ObserversMatch, BodyReturn
  PROVE  ObserversMatch'
<1>1. /\ Len(calls') = Len(calls) - 1 /\ Len(calls) \in Nat
      /\ \A i \in 1..(Len(calls) - 2) : calls'[i] = calls[i]
      /\ calls'[Len(calls) - 1].eff = calls[Len(calls) - 1].eff
  BY BodyReturnStack
<1>2. Depth' = Depth - 1 /\ Depth \in Nat /\ Depth > 0 /\ Depth = Len(calls) - 1
  BY <1>1, TypeFacts DEF Depth, BodyReturn
<1>3. observers \in Seq(Effects) /\ Len(observers) = Depth
  BY DEF ObserversMatch, TypeInv, TypeOK
<1>4. observers' = SubSeq(observers, 1, Depth - 1)
  BY <1>2, <1>3, EmptySeq DEF BodyReturn, ObserverPop
<1>5. /\ Len(observers') = Depth - 1
      /\ \A i \in 1..(Depth - 1) : observers'[i] = observers[i]
  BY <1>2, <1>3, <1>4, SubSeqProperties, ElementOfSeq
<1>6. ASSUME NEW i \in 1..(Depth - 1) PROVE calls'[i + 1].eff = calls[i + 1].eff
  <2>1. i + 1 \in 1..(Len(calls) - 2) \/ i + 1 = Len(calls) - 1
    BY <1>1, <1>2
  <2>2. QED
    BY <1>1, <2>1
<1>7. QED
  BY <1>2, <1>5, <1>6 DEF ObserversMatch

\* Every step keeps the observer stack in step with the bodies.
LEMMA ObserversStep ==
  ASSUME MaxDepth <= ObserverMax, TypeInv, ObserversMatch, [Next]_vars
  PROVE  ObserversMatch'
<1> USE TypeFacts
<1>1. ASSUME UNCHANGED <<calls, observers>> PROVE ObserversMatch'
  BY <1>1 DEF ObserversMatch, Depth
<1>2. ASSUME NEW s \in Signals, NEW v \in Values, SignalSet(s, v) PROVE ObserversMatch'
  BY <1>2, GoesOnKeepsObservers DEF SignalSet, TypeInv, TypeOK
<1>3. ASSUME BatchEnd \/ FlushCall \/ NotifyDone PROVE ObserversMatch'
  <2>1. FlushOp(batch) \in Ops /\ FlushOp(batch') \in Ops
    BY DEF FlushOp
  <2>2. QED
    BY <1>3, <2>1, GoesOnKeepsObservers DEF BatchEnd, FlushCall, NotifyDone
<1>4. ASSUME EffectSchedule PROVE ObserversMatch'
  BY <1>4, GoesOnKeepsObservers DEF EffectSchedule
<1>5. ASSUME FlushSnapshot \/ FlushReturn PROVE ObserversMatch'
  BY <1>5, GoesOnKeepsObservers DEF FlushSnapshot, FlushReturn, TypeInv, TypeOK
<1>6. ASSUME FlushNext PROVE ObserversMatch'
  <2>1. Head(Top.rest) \in Effects /\ Tail(Top.rest) \in Seq(Effects) /\ Depth < MaxDepth
    BY <1>6 DEF FlushNext, TypeInv, StackOK
  <2>2. CASE RunBody(Head(Top.rest), "flush", Tail(Top.rest))
    BY <2>1, <2>2, RunBodyKeepsObservers
  <2>3. CASE calls' = TopGoesOn("flush", Tail(Top.rest)) /\ UNCHANGED <<observers, seen>>
    BY <2>1, <2>3, GoesOnKeepsObservers
  <2>4. QED
    BY <1>6, <2>2, <2>3 DEF FlushNext
<1>7. ASSUME NEW e \in Effects, EffectCreate(e) PROVE ObserversMatch'
  BY <1>7, RunBodyKeepsObservers DEF EffectCreate, MayNest
<1>8. ASSUME Client PROVE ObserversMatch'
  BY <1>1, <1>2, <1>3, <1>7, <1>8
  DEF Client, SignalCreate, SignalGet, SignalDispose, EffectDispose, BatchStart
<1>9. ASSUME Library PROVE ObserversMatch'
  BY <1>3, <1>4, <1>5, <1>6, <1>9 DEF Library
<1>10. QED
  BY <1>1, <1>8, <1>9, BodyReturnKeepsObservers DEF Next, vars

\* No body runs and nobody observes at first.
LEMMA InitObservers == Init => ObserversMatch
  BY DEF Init, ObserversMatch, Depth

\* As long as bodies nest no deeper than the observer stack has room, every
\* read is attributed to the effect whose body makes it.
THEOREM ObserversTrackBodies ==
  ASSUME MaxDepth <= ObserverMax
  PROVE  Spec => []ObserversMatch
<1>1. TypeInv /\ ObserversMatch /\ [Next]_vars => ObserversMatch'
  BY ObserversStep
<1>2. QED
  BY <1>1, InitObservers, StackShape, PTL DEF Spec

-----------------------------------------------------------------------------
(* What each kind of step does to the backlogs *)

\* A backlog is a finite sequence of effects.
LEMMA BacklogType ==
  ASSUME TypeInv
  PROVE  \A k \in 0..Len(calls) :
           /\ Backlog(k) \in Seq(Effects)
           /\ Len(Backlog(k)) \in Nat
           /\ DOMAIN Backlog(k) = 1..Len(Backlog(k))
<1> SUFFICES ASSUME NEW k \in 0..Len(calls)
             PROVE  Backlog(k) \in Seq(Effects)
  BY LenProperties
<1>1. CASE k = 0
  BY <1>1 DEF Backlog, TypeInv, TypeOK
<1>2. CASE k # 0
  <2>1. calls[k] \in Frame
    BY <1>2, TypeFacts, ElementOfSeq
  <2>2. calls[k].rest \in Seq(Effects)
    BY <2>1 DEF Frame
  <2>3. QED
    BY <1>2, <2>2, EmptySeq DEF Backlog
<1>3. QED
  BY <1>1, <1>2

\* The top frame goes on: only its own backlog, and the queue, may change.
LEMMA GoesOnBacklog ==
  ASSUME TypeInv, NEW op \in Ops, NEW rest \in Seq(Effects),
         calls' = TopGoesOn(op, rest), NEW n, n = Len(calls)
  PROVE  /\ Len(calls') = n /\ n \in Nat /\ n >= 1
         /\ Backlog(0)' = queue'
         /\ \A k \in 1..(n - 1) : Backlog(k)' = Backlog(k)
         /\ Backlog(n)' = IF op = "flush" THEN rest ELSE <<>>
<1>1. /\ Len(calls') = n /\ n \in Nat /\ n >= 1
      /\ \A i \in 1..(n - 1) : calls'[i] = calls[i]
      /\ calls'[n] = GoesOn(Top, op, rest)
  BY TypeFacts, TopGoesOnFrame
<1>2. \A k \in 1..(n - 1) : Backlog(k)' = Backlog(k)
  BY <1>1 DEF Backlog
<1>3. Backlog(n)' = IF op = "flush" THEN rest ELSE <<>>
  BY <1>1 DEF Backlog, GoesOn
<1>4. QED
  BY <1>1, <1>2, <1>3 DEF Backlog

\* A body starts with no backlog of its own.
LEMMA RunBodyBacklog ==
  ASSUME TypeInv, NEW op \in Ops, NEW rest \in Seq(Effects), NEW e \in Effects,
         RunBody(e, op, rest), NEW n, n = Len(calls)
  PROVE  /\ Len(calls') = n + 1 /\ n \in Nat /\ n >= 1
         /\ Backlog(0)' = queue'
         /\ \A k \in 1..(n - 1) : Backlog(k)' = Backlog(k)
         /\ Backlog(n)' = IF op = "flush" THEN rest ELSE <<>>
         /\ Backlog(n + 1)' = <<>>
<1>1. TypeOK /\ Len(calls) >= 1
  BY DEF TypeInv, StackOK
<1>2. /\ Len(calls') = n + 1 /\ n \in Nat /\ n >= 1
      /\ \A i \in 1..(n - 1) : calls'[i] = calls[i]
      /\ calls'[n] = GoesOn(Top, op, rest)
      /\ calls'[n + 1] = Enter(e)
  BY <1>1, TypeFacts, RunBodyFrame
<1>3. \A k \in 1..(n - 1) : Backlog(k)' = Backlog(k)
  BY <1>2 DEF Backlog
<1>4. Backlog(n)' = IF op = "flush" THEN rest ELSE <<>>
  BY <1>2 DEF Backlog, GoesOn
<1>5. Backlog(n + 1)' = <<>>
  BY <1>2 DEF Backlog, Enter
<1>6. QED
  BY <1>2, <1>3, <1>4, <1>5 DEF Backlog

\* A returning body leaves no backlog behind.
LEMMA BodyReturnBacklog ==
  ASSUME TypeInv, BodyReturn, NEW n, n = Len(calls) - 1
  PROVE  /\ Len(calls') = n /\ n \in Nat /\ n >= 1 /\ Len(calls) = n + 1
         /\ \A k \in 0..n : Backlog(k)' = Backlog(k)
         /\ Backlog(n + 1) = <<>>
<1>1. /\ Len(calls') = n /\ n \in Nat /\ n >= 1 /\ Len(calls) = n + 1
      /\ \A i \in 1..(n - 1) : calls'[i] = calls[i]
      /\ calls'[n].rest = calls[n].rest
      /\ calls[n].op = "flush" => calls'[n].op = "flush"
  BY BodyReturnStack DEF BodyReturn, Depth
<1>2. queue' = queue /\ Top.op = "none"
  BY DEF BodyReturn, ClientRuns
<1>3. Backlog(n + 1) = <<>>
  BY <1>1, <1>2 DEF Backlog, Top
<1>4. Backlog(0)' = Backlog(0)
  BY <1>2 DEF Backlog
<1>5. \A k \in 1..(n - 1) : Backlog(k)' = Backlog(k)
  BY <1>1 DEF Backlog
<1>6. Backlog(n)' = Backlog(n)
  <2>1. calls[n].op \in {"flush", "create"}
    BY <1>1 DEF TypeInv, StackOK
  <2>2. CASE calls[n].op = "flush"
    BY <1>1, <2>2 DEF Backlog
  <2>3. CASE calls[n].op = "create"
    <3>1. calls[n].rest = <<>>
      BY <1>1, <2>3 DEF TypeInv, StackOK
    <3>2. calls'[n].rest = <<>>
      BY <1>1, <3>1
    <3>3. Backlog(n) = <<>> /\ Backlog(n)' = <<>>
      BY <1>1, <2>3, <3>1, <3>2 DEF Backlog
    <3>4. QED
      BY <3>3
  <2>4. QED
    BY <2>1, <2>2, <2>3
<1>7. \A k \in 0..n : k = 0 \/ k \in 1..(n - 1) \/ k = n
  BY <1>1
<1>8. QED
  BY <1>1, <1>3, <1>4, <1>5, <1>6, <1>7

-----------------------------------------------------------------------------
(* The invariant *)

\* Steps that move no effect in or out of a backlog.
LEMMA SameBacklogs ==
  ASSUME PendingExact, NEW n \in Nat, NEW m \in Nat, n = Len(calls), m = Len(calls'),
         pending' = pending,
         \A k \in 0..m : (k \in 0..n /\ Backlog(k)' = Backlog(k)) \/ Backlog(k)' = <<>>,
         \A k \in 0..n : (k \in 0..m /\ Backlog(k)' = Backlog(k)) \/ Backlog(k) = <<>>
  PROVE  PendingExact'
<1>1. \A k \in 0..m : DOMAIN Backlog(k)' # {} =>
        k \in 0..n /\ Backlog(k)' = Backlog(k)
  OBVIOUS
<1>2. WaitsOnce'
  BY <1>1 DEF WaitsOnce, PendingExact
<1>3. ASSUME NEW e \in Effects
      PROVE  (\E k \in 0..m : e \in Elements(Backlog(k)'))
               <=> \E k \in 0..n : e \in Elements(Backlog(k))
  BY <1>1 DEF Elements
<1>4. \A e \in Effects : pending'[e] <=> \E k \in 0..m : e \in Elements(Backlog(k)')
  BY <1>3 DEF PendingExact
<1>5. \A k : Elements(Backlog(k))' = Elements(Backlog(k)')
  BY DEF Elements
<1>6. QED
  BY <1>2, <1>4, <1>5 DEF PendingExact

\* solite_effect_schedule appends to the queue an effect that waits nowhere.
LEMMA ScheduleExact ==
  ASSUME TypeInv, PendingExact, NEW n, n = Len(calls), NEW e \in Effects,
         ~pending[e], pending' = [pending EXCEPT ![e] = TRUE],
         queue' = Append(queue, e), Len(calls') = n,
         \A k \in 1..n : Backlog(k)' = Backlog(k)
  PROVE  PendingExact'
<1>1. n \in Nat /\ queue \in Seq(Effects)
  BY TypeFacts DEF TypeInv, TypeOK
<1>2. Backlog(0) = queue /\ Backlog(0)' = queue'
  BY DEF Backlog
<1>3. /\ Len(queue) \in Nat /\ DOMAIN queue = 1..Len(queue)
      /\ DOMAIN queue' = 1..(Len(queue) + 1)
      /\ \A i \in 1..Len(queue) : queue'[i] = queue[i]
      /\ queue'[Len(queue) + 1] = e
  BY <1>1, AppendProperties, LenProperties
<1>4. \A k \in 0..n : k = 0 \/ k \in 1..n
  BY <1>1
<1>5. \A k \in 0..n : \A i \in DOMAIN Backlog(k) : Backlog(k)[i] # e
  BY <1>1 DEF PendingExact, Elements
<1>6. \A k \in 0..n : \A i \in DOMAIN Backlog(k)' :
        \/ i \in DOMAIN Backlog(k) /\ Backlog(k)'[i] = Backlog(k)[i]
        \/ k = 0 /\ i = Len(queue) + 1 /\ Backlog(k)'[i] = e
  BY <1>2, <1>3, <1>4
<1>7. \A k \in 0..n : \A i \in DOMAIN Backlog(k) :
        i \in DOMAIN Backlog(k)' /\ Backlog(k)'[i] = Backlog(k)[i]
  BY <1>2, <1>3, <1>4, SMTT(30)
<1>8. WaitsOnce'
  BY <1>5, <1>6 DEF WaitsOnce, PendingExact
<1>9. ASSUME NEW f \in Effects
      PROVE  (\E k \in 0..n : f \in Elements(Backlog(k)'))
               <=> f = e \/ \E k \in 0..n : f \in Elements(Backlog(k))
  <2>1. 0 \in 0..n /\ e \in Elements(Backlog(0)')
    BY <1>1, <1>2, <1>3 DEF Elements
  <2>2. QED
    BY <2>1, <1>6, <1>7 DEF Elements
<1>10. \A f \in Effects : pending'[f] <=> f = e \/ pending[f]
  BY DEF TypeInv, TypeOK
<1>11. \A k : Elements(Backlog(k))' = Elements(Backlog(k)')
  BY DEF Elements
<1>12. QED
  BY <1>8, <1>9, <1>10, <1>11 DEF PendingExact

\* Taking the snapshot moves the queue to the flush on top.
LEMMA SnapshotExact ==
  ASSUME TypeInv, PendingExact, NEW n, n = Len(calls), FlushSnapshot
  PROVE  PendingExact'
<1>1. queue \in Seq(Effects) /\ "flush" \in Ops /\ n \in Nat /\ n >= 1
  BY TypeFacts DEF TypeInv, TypeOK
<1>2. /\ Len(calls') = n
      /\ Backlog(0)' = <<>>
      /\ \A k \in 1..(n - 1) : Backlog(k)' = Backlog(k)
      /\ Backlog(n)' = queue
  BY <1>1, GoesOnBacklog DEF FlushSnapshot
<1>3. Backlog(0) = queue /\ Backlog(n) = <<>>
  BY <1>1 DEF Backlog, FlushSnapshot, Top
<1>4. \A k \in 0..n : k = 0 \/ k \in 1..(n - 1) \/ k = n
  BY <1>1
<1>5. \A k \in 0..n : \A i \in DOMAIN Backlog(k)' :
        \/ k \in 1..(n - 1) /\ i \in DOMAIN Backlog(k) /\ Backlog(k)'[i] = Backlog(k)[i]
        \/ k = n /\ i \in DOMAIN Backlog(0) /\ Backlog(k)'[i] = Backlog(0)[i]
  BY <1>2, <1>3, <1>4
<1>6. WaitsOnce'
  BY <1>1, <1>2, <1>5 DEF WaitsOnce, PendingExact
<1>7. ASSUME NEW f \in Effects
      PROVE  (\E k \in 0..n : f \in Elements(Backlog(k)'))
               <=> \E k \in 0..n : f \in Elements(Backlog(k))
  <2>1. \A k \in 0..n : f \in Elements(Backlog(k)) =>
          \/ k \in 1..(n - 1) /\ Backlog(k)' = Backlog(k)
          \/ k = 0 /\ Backlog(n)' = Backlog(k)
    BY <1>2, <1>3, <1>4 DEF Elements
  <2>2. \A k \in 0..n : f \in Elements(Backlog(k)') =>
          \/ k \in 1..(n - 1) /\ Backlog(k)' = Backlog(k)
          \/ k = n /\ Backlog(k)' = Backlog(0)
    BY <1>2, <1>3, <1>4 DEF Elements
  <2>3. n \in 0..n /\ 0 \in 0..n
    BY <1>1
  <2>4. QED
    BY <2>1, <2>2, <2>3
<1>8. \A k : Elements(Backlog(k))' = Elements(Backlog(k)')
  BY DEF Elements
<1>9. pending' = pending
  BY DEF FlushSnapshot
<1>10. QED
  BY <1>2, <1>6, <1>7, <1>8, <1>9 DEF PendingExact

\* The flush on top takes the first effect of its snapshot: it waits no more.
LEMMA NextExact ==
  ASSUME TypeInv, PendingExact, NEW n, n = Len(calls), FlushNext
  PROVE  PendingExact'
<1> DEFINE rest == Top.rest
<1>1. /\ rest \in Seq(Effects) /\ rest # <<>> /\ "flush" \in Ops
      /\ Head(rest) \in Effects /\ Tail(rest) \in Seq(Effects)
      /\ n \in Nat /\ n >= 1
  BY TypeFacts DEF FlushNext
<1>2. PICK e \in Effects : e = Head(rest)
  BY <1>1
<1>3. PICK m \in Nat :
        /\ m = Len(calls') /\ m \in {n, n + 1}
        /\ Backlog(0)' = queue'
        /\ \A k \in 1..(n - 1) : Backlog(k)' = Backlog(k)
        /\ Backlog(n)' = Tail(rest)
        /\ m = n + 1 => Backlog(m)' = <<>>
  <2>1. CASE RunBody(e, "flush", Tail(rest))
    <3>1. /\ Len(calls') = n + 1 /\ n \in Nat
          /\ Backlog(0)' = queue'
          /\ \A k \in 1..(n - 1) : Backlog(k)' = Backlog(k)
          /\ Backlog(n)' = Tail(rest)
          /\ Backlog(n + 1)' = <<>>
      BY <1>1, <2>1, RunBodyBacklog
    <3>2. QED
      BY <3>1
  <2>2. CASE calls' = TopGoesOn("flush", Tail(rest))
    <3>1. /\ Len(calls') = n /\ n \in Nat
          /\ Backlog(0)' = queue'
          /\ \A k \in 1..(n - 1) : Backlog(k)' = Backlog(k)
          /\ Backlog(n)' = Tail(rest)
      BY <1>1, <2>2, GoesOnBacklog
    <3>2. QED
      BY <3>1
  <2>3. QED
    BY <1>2, <2>1, <2>2 DEF FlushNext
<1>4. Backlog(n) = rest /\ Backlog(0) = queue /\ Backlog(0)' = queue
  BY <1>1, <1>3 DEF Backlog, FlushNext, Top
<1>5. /\ Len(rest) \in Nat /\ DOMAIN rest = 1..Len(rest) /\ Len(rest) >= 1
      /\ DOMAIN Tail(rest) = 1..(Len(rest) - 1)
      /\ \A i \in 1..(Len(rest) - 1) : Tail(rest)[i] = rest[i + 1]
      /\ rest[1] = e
  BY <1>1, <1>2, HeadTailProperties, LenProperties, EmptySeq
<1> HIDE DEF rest
<1>6. \A k \in 0..m : k = 0 \/ k \in 1..(n - 1) \/ k = n \/ k = m
  BY <1>1, <1>3
<1>7. \A k \in 0..m : \A i \in DOMAIN Backlog(k)' :
        /\ k \in 0..n
        /\ \/ k # n /\ i \in DOMAIN Backlog(k) /\ Backlog(k)'[i] = Backlog(k)[i]
           \/ k = n /\ i + 1 \in DOMAIN Backlog(n) /\ Backlog(n)'[i] = Backlog(n)[i + 1]
              /\ i \in Nat /\ i >= 1
  <2>1. \A i \in DOMAIN Backlog(n)' :
          i + 1 \in DOMAIN Backlog(n) /\ Backlog(n)'[i] = Backlog(n)[i + 1]
          /\ i \in Nat /\ i >= 1
    BY <1>3, <1>4, <1>5
  <2>2. \A k \in 0..(n - 1) : Backlog(k)' = Backlog(k)
    BY <1>1, <1>3, <1>4
  <2>3. \A k \in 0..m : DOMAIN Backlog(k)' # {} => k \in 0..(n - 1) \/ k = n
    BY <1>1, <1>3, <1>6
  <2>4. QED
    BY <1>1, <2>1, <2>2, <2>3
<1>8. WaitsOnce'
  <2> SUFFICES ASSUME NEW k \in 0..m, NEW l \in 0..m,
                      NEW i \in DOMAIN Backlog(k)', NEW j \in DOMAIN Backlog(l)',
                      Backlog(k)'[i] = Backlog(l)'[j]
               PROVE  k = l /\ i = j
    BY <1>3 DEF WaitsOnce
  <2>1. k \in 0..n /\ l \in 0..n
    BY <1>7
  <2>2. CASE k # n /\ l # n
    BY <1>7, <2>1, <2>2 DEF PendingExact, WaitsOnce
  <2>3. CASE k = n /\ l # n
    BY <1>7, <2>1, <2>3 DEF PendingExact, WaitsOnce
  <2>4. CASE k # n /\ l = n
    BY <1>7, <2>1, <2>4 DEF PendingExact, WaitsOnce
  <2>5. CASE k = n /\ l = n
    <3>1. /\ i + 1 \in DOMAIN Backlog(n) /\ j + 1 \in DOMAIN Backlog(n)
          /\ Backlog(n)[i + 1] = Backlog(n)[j + 1] /\ i \in Nat /\ j \in Nat
      BY <1>7, <2>5
    <3>2. i + 1 = j + 1
      BY <3>1, <2>1, <2>5 DEF PendingExact, WaitsOnce
    <3>3. QED
      BY <2>5, <3>1, <3>2
  <2>6. QED
    BY <2>2, <2>3, <2>4, <2>5
<1>9. ASSUME NEW f \in Effects
      PROVE  (\E k \in 0..m : f \in Elements(Backlog(k)'))
               <=> f # e /\ \E k \in 0..n : f \in Elements(Backlog(k))
  <2>1. ASSUME NEW k \in 0..m, NEW i \in DOMAIN Backlog(k)', Backlog(k)'[i] = f
        PROVE  f # e /\ \E l \in 0..n : f \in Elements(Backlog(l))
    <3>1. 1 \in DOMAIN Backlog(n) /\ Backlog(n)[1] = e /\ n \in 0..n /\ k \in 0..n
      BY <1>1, <1>4, <1>5, <1>7, <2>1
    <3>2. CASE k # n
      BY <1>7, <2>1, <3>1, <3>2 DEF PendingExact, WaitsOnce, Elements
    <3>3. CASE k = n
      <4>1. /\ i + 1 \in DOMAIN Backlog(n) /\ Backlog(n)[i + 1] = f
            /\ i \in Nat /\ i + 1 # 1
        BY <1>7, <2>1, <3>3
      <4>2. f # e
        BY <3>1, <4>1 DEF PendingExact, WaitsOnce
      <4>3. QED
        BY <3>1, <4>1, <4>2 DEF Elements
    <3>4. QED
      BY <3>2, <3>3
  <2>2. ASSUME f # e, NEW k \in 0..n, NEW i \in DOMAIN Backlog(k), Backlog(k)[i] = f
        PROVE  \E l \in 0..m : f \in Elements(Backlog(l)')
    <3>1. k \in 0..m
      BY <1>1, <1>3
    <3>2. CASE k # n
      <4>1. Backlog(k)' = Backlog(k)
        BY <1>1, <1>3, <1>4, <3>2
      <4>2. QED
        BY <2>2, <3>1, <4>1 DEF Elements
    <3>3. CASE k = n
      <4>1. i \in 1..Len(rest) /\ rest[i] = f /\ i # 1
        BY <1>4, <1>5, <2>2, <3>3
      <4>2. i - 1 \in 1..(Len(rest) - 1) /\ Tail(rest)[i - 1] = f
        BY <1>5, <4>1
      <4>3. QED
        BY <1>3, <1>5, <3>1, <3>3, <4>2 DEF Elements
    <3>4. QED
      BY <3>2, <3>3
  <2>3. QED
    BY <2>1, <2>2 DEF Elements
<1>10. \A f \in Effects : pending'[f] <=> f # e /\ pending[f]
  BY <1>2 DEF FlushNext, TypeInv, TypeOK, rest
<1>11. \A k : Elements(Backlog(k))' = Elements(Backlog(k)')
  BY DEF Elements
<1>12. QED
  BY <1>1, <1>3, <1>8, <1>9, <1>10, <1>11 DEF PendingExact

\* The top frame goes on with an operation that has nothing to visit, having
\* had nothing to visit before.
LEMMA TopMovesExact ==
  ASSUME TypeInv, PendingExact, NEW op \in Ops, NEW rest \in Seq(Effects),
         calls' = TopGoesOn(op, rest), UNCHANGED <<pending, queue>>,
         op = "flush" => rest = <<>>, Top.op = "flush" => Top.rest = <<>>
  PROVE  PendingExact'
<1>1. PICK n \in Nat : n = Len(calls)
  BY TypeFacts
<1>2. /\ Len(calls') = n /\ n >= 1
      /\ Backlog(0)' = queue'
      /\ \A k \in 1..(n - 1) : Backlog(k)' = Backlog(k)
      /\ Backlog(n)' = <<>>
  BY <1>1, GoesOnBacklog
<1>3. Backlog(n) = <<>> /\ Backlog(0)' = Backlog(0)
  BY <1>1, <1>2 DEF Backlog, Top
<1>4. \A k \in 0..n : Backlog(k)' = Backlog(k)
  BY <1>1, <1>2, <1>3
<1>5. QED
  BY <1>1, <1>2, <1>4, SameBacklogs

\* Neither the stack nor the queue changes.
LEMMA StillExact ==
  ASSUME TypeInv, PendingExact, UNCHANGED <<calls, pending, queue>>
  PROVE  PendingExact'
<1>1. PICK n \in Nat : n = Len(calls) /\ n = Len(calls')
  BY TypeFacts
<1>2. \A k \in 0..n : Backlog(k)' = Backlog(k)
  BY DEF Backlog
<1>3. QED
  BY <1>1, <1>2, SameBacklogs

\* solite_effect_schedule, with room in the queue or without.
LEMMA EffectScheduleExact ==
  ASSUME TypeInv, PendingExact, EffectSchedule
  PROVE  PendingExact'
<1> DEFINE e == Head(Top.rest)
           enqueue == CanSchedule(e) /\ Len(queue) < PendingMax
<1>1. /\ e \in Effects /\ Tail(Top.rest) \in Seq(Effects) /\ "set" \in Ops
      /\ Top.op = "set"
  BY TypeFacts DEF EffectSchedule
<1>2. calls' = TopGoesOn("set", Tail(Top.rest))
  BY DEF EffectSchedule
<1>3. CASE enqueue
  <2>1. PICK n \in Nat : n = Len(calls)
    BY TypeFacts
  <2>2. /\ Len(calls') = n /\ n >= 1
        /\ \A k \in 1..(n - 1) : Backlog(k)' = Backlog(k)
        /\ Backlog(n)' = <<>>
    BY <1>1, <1>2, <2>1, GoesOnBacklog
  <2>3. Backlog(n) = <<>>
    BY <1>1, <2>1, <2>2 DEF Backlog, Top
  <2>4. \A k \in 1..n : Backlog(k)' = Backlog(k)
    BY <2>1, <2>2, <2>3
  <2>5. /\ ~pending[e] /\ queue' = Append(queue, e)
        /\ pending' = [pending EXCEPT ![e] = TRUE]
    BY <1>3 DEF EffectSchedule, CanSchedule
  <2>6. QED
    BY <1>1, <2>1, <2>2, <2>4, <2>5, ScheduleExact
<1>4. CASE ~enqueue
  <2>1. queue' = queue /\ pending' = [pending EXCEPT ![e] = @ \/ FALSE]
    BY <1>4 DEF EffectSchedule
  <2>2. pending' = pending
    BY <1>1, <2>1 DEF TypeInv, TypeOK
  <2>3. QED
    BY <1>1, <1>2, <2>1, <2>2, TopMovesExact
<1>5. QED
  BY <1>3, <1>4

\* The first run of an effect starts before it can wait anywhere.
LEMMA EffectCreateExact ==
  ASSUME TypeInv, PendingExact, NEW e \in Effects, EffectCreate(e)
  PROVE  PendingExact'
<1>1. PICK n \in Nat : n = Len(calls)
  BY TypeFacts
<1>2. RunBody(e, "create", <<>>) /\ UNCHANGED <<pending, queue>> /\ Top.op = "none"
  BY DEF EffectCreate, MayNest, ClientRuns
<1>3. "create" \in Ops /\ <<>> \in Seq(Effects)
  BY EmptySeq DEF Ops
<1>4. /\ Len(calls') = n + 1 /\ n >= 1
      /\ Backlog(0)' = queue'
      /\ \A k \in 1..(n - 1) : Backlog(k)' = Backlog(k)
      /\ Backlog(n)' = <<>>
      /\ Backlog(n + 1)' = <<>>
  BY <1>1, <1>2, <1>3, RunBodyBacklog
<1>5. Backlog(n) = <<>> /\ Backlog(0)' = Backlog(0)
  BY <1>1, <1>2, <1>4 DEF Backlog, Top
<1>6. \A k \in 0..(n + 1) : k = 0 \/ k \in 1..(n - 1) \/ k = n \/ k = n + 1
  BY <1>1
<1>7. /\ \A k \in 0..(n + 1) : (k \in 0..n /\ Backlog(k)' = Backlog(k)) \/ Backlog(k)' = <<>>
      /\ \A k \in 0..n : k \in 0..(n + 1) /\ Backlog(k)' = Backlog(k)
  BY <1>1, <1>4, <1>5, <1>6
<1>8. QED
  BY <1>1, <1>2, <1>4, <1>7, SameBacklogs, SMTT(30)

\* The end of a body.
LEMMA BodyReturnExact ==
  ASSUME TypeInv, PendingExact, BodyReturn
  PROVE  PendingExact'
<1>1. PICK n : n = Len(calls) - 1
  OBVIOUS
<1>2. /\ Len(calls') = n /\ n \in Nat /\ n >= 1 /\ Len(calls) = n + 1
      /\ \A k \in 0..n : Backlog(k)' = Backlog(k)
      /\ Backlog(n + 1) = <<>>
  BY <1>1, BodyReturnBacklog
<1>3. pending' = pending
  BY DEF BodyReturn
<1>4. /\ \A k \in 0..n : k \in 0..(n + 1) /\ Backlog(k)' = Backlog(k)
      /\ \A k \in 0..(n + 1) : (k \in 0..n /\ Backlog(k)' = Backlog(k)) \/ Backlog(k) = <<>>
  BY <1>2
<1>5. QED
  BY <1>2, <1>3, <1>4, SameBacklogs

\* Every step keeps the pending flags exact.
LEMMA PendingStep ==
  ASSUME TypeInv, PendingExact, [Next]_vars
  PROVE  PendingExact'
<1> USE TypeFacts
<1>1. ASSUME NEW s \in Signals, NEW v \in Values, SignalSet(s, v) PROVE PendingExact'
  <2>1. subs[s] \in Seq(Effects) /\ "set" \in Ops /\ Top.op = "none"
    BY <1>1 DEF TypeInv, TypeOK, Ops, SignalSet, MayNest, ClientRuns
  <2>2. QED
    BY <1>1, <2>1, TopMovesExact DEF SignalSet
<1>2. ASSUME BatchEnd \/ FlushCall \/ NotifyDone PROVE PendingExact'
  <2>1. /\ FlushOp(batch) \in Ops /\ FlushOp(batch') \in Ops /\ <<>> \in Seq(Effects)
        /\ Top.op # "flush"
    BY <1>2, EmptySeq DEF FlushOp, Ops, BatchEnd, FlushCall, NotifyDone, MayNest, ClientRuns
  <2>2. QED
    BY <1>2, <2>1, TopMovesExact DEF BatchEnd, FlushCall, NotifyDone
<1>3. ASSUME FlushReturn PROVE PendingExact'
  <2>1. "none" \in Ops /\ <<>> \in Seq(Effects)
    BY EmptySeq DEF Ops
  <2>2. QED
    BY <1>3, <2>1, TopMovesExact DEF FlushReturn
<1>4. ASSUME Client PROVE PendingExact'
  BY <1>1, <1>2, <1>4, StillExact, EffectCreateExact
  DEF Client, SignalCreate, SignalGet, SignalDispose, EffectDispose, BatchStart
<1>5. ASSUME Library PROVE PendingExact'
  BY <1>2, <1>3, <1>5, EffectScheduleExact, SnapshotExact, NextExact DEF Library
<1>6. ASSUME UNCHANGED vars PROVE PendingExact'
  BY <1>6, StillExact DEF vars
<1>7. QED
  BY <1>4, <1>5, <1>6, BodyReturnExact DEF Next

\* No effect waits or is flagged at first.
LEMMA InitPending == Init => PendingExact
<1> SUFFICES ASSUME Init PROVE PendingExact
  OBVIOUS
<1>1. Len(calls) = 1 /\ calls[1].op = "none" /\ queue = <<>>
  BY DEF Init
<1>2. \A k \in 0..1 : Backlog(k) = <<>>
  BY <1>1 DEF Backlog
<1>3. QED
  BY <1>1, <1>2 DEF Init, PendingExact, WaitsOnce, Elements

\* However flushes nest and whatever the capacity of the queue, an effect is
\* flagged pending exactly when it waits, and it waits in one place.
THEOREM PendingIsExact == Spec => []PendingExact
<1>1. TypeInv /\ PendingExact /\ [Next]_vars => PendingExact'
  BY PendingStep
<1>2. QED
  BY <1>1, InitPending, StackShape, PTL DEF Spec

-----------------------------------------------------------------------------
(* No update is lost *)

\* The stack of observers holds every body on the C stack, the pending queue
\* every effect, and no subscription is dropped.
EnoughRoom ==
  /\ MaxDepth <= ObserverMax
  /\ IsFiniteSet(Effects)
  /\ Cardinality(Effects) <= PendingMax
  /\ ~AllocFails

\* A creation on the C stack is the only one of its effect, whose first body
\* is the frame above it.
CreatingOK ==
  /\ \A i \in 1..(Len(calls) - 1) :
       calls[i].op = "create" => status[calls[i + 1].eff] = "creating"
  /\ \A i, j \in 1..(Len(calls) - 1) :
       /\ calls[i].op = "create" /\ calls[j].op = "create"
       /\ calls[i + 1].eff = calls[j + 1].eff
       => i = j

\* What a running or finished body has read, it is subscribed to.
ReadSubscribed ==
  \A e \in Effects, s \in Signals :
    s \in allocated /\ seen[e][s] # NoValue => e \in Elements(subs[s])

-----------------------------------------------------------------------------
(* Creations on the stack *)

\* A library call that goes on changes no creation.
LEMMA GoesOnKeepsCreating ==
  ASSUME TypeInv, CreatingOK, NEW op \in Ops, NEW rest \in Seq(Effects),
         calls' = TopGoesOn(op, rest), status' = status
  PROVE  CreatingOK'
<1>1. /\ Len(calls') = Len(calls) /\ Len(calls) \in Nat /\ Len(calls) >= 1
      /\ \A i \in 1..(Len(calls) - 1) : calls'[i] = calls[i]
      /\ calls'[Len(calls)] = GoesOn(Top, op, rest)
  BY TypeFacts, TopGoesOnFrame
<1>2. \A i \in 1..Len(calls) : calls'[i].eff = calls[i].eff
  BY <1>1 DEF GoesOn, Top
<1>3. QED
  BY <1>1, <1>2 DEF CreatingOK

\* A body started by a flush, or the first body of a new effect.
LEMMA RunBodyKeepsCreating ==
  ASSUME TypeInv, CreatingOK, NEW op \in {"flush", "create"},
         NEW rest \in Seq(Effects), NEW e \in Effects, RunBody(e, op, rest),
         op = "flush" => status' = status,
         op = "create" => status[e] = "none" /\ status' = [status EXCEPT ![e] = "creating"]
  PROVE  CreatingOK'
<1>1. PICK n \in Nat : n = Len(calls) /\ n >= 1
  BY TypeFacts
<1>2. TypeOK /\ Len(calls) >= 1 /\ op \in Ops
  BY DEF TypeInv, StackOK, Ops
<1>3. /\ Len(calls') = n + 1
      /\ \A i \in 1..(n - 1) : calls'[i] = calls[i]
      /\ calls'[n] = GoesOn(Top, op, rest)
      /\ calls'[n + 1] = Enter(e)
  BY <1>1, <1>2, RunBodyFrame
<1>4. \A i \in 1..n : calls'[i].eff = calls[i].eff
  BY <1>1, <1>3 DEF GoesOn, Top
<1>5. calls'[n].op = op /\ calls'[n + 1].eff = e
  BY <1>3 DEF GoesOn, Enter
<1>6. \A i \in 1..n : i \in 1..(n - 1) \/ i = n
  BY <1>1
<1>7. \A i \in 1..(n - 1) : calls[i + 1].eff \in Effects
  BY <1>1 DEF TypeInv, StackOK
<1>8. status \in [Effects -> {"none", "creating", "live", "disposed"}]
  BY <1>2 DEF TypeOK
<1>9. \A i \in 1..(n - 1) : calls'[i].op = "create" =>
        /\ calls[i].op = "create"
        /\ calls'[i + 1].eff = calls[i + 1].eff
        /\ status[calls[i + 1].eff] = "creating"
  BY <1>1, <1>3, <1>4 DEF CreatingOK
<1>10. CASE op = "flush"
  BY <1>1, <1>3, <1>5, <1>6, <1>9, <1>10, SMTT(30) DEF CreatingOK
<1>11. CASE op = "create"
  <2>1. \A i \in 1..(n - 1) : calls'[i].op = "create" => calls'[i + 1].eff # e
    BY <1>9, <1>11
  <2>2. \A i \in 1..n : calls'[i].op = "create" => status'[calls'[i + 1].eff] = "creating"
    BY <1>5, <1>6, <1>7, <1>8, <1>9, <1>11
  <2>3. ASSUME NEW i \in 1..n, NEW j \in 1..n,
               calls'[i].op = "create" /\ calls'[j].op = "create",
               calls'[i + 1].eff = calls'[j + 1].eff
        PROVE  i = j
    <3>1. CASE i = n \/ j = n
      BY <1>5, <1>6, <2>1, <2>3, <3>1
    <3>2. CASE i # n /\ j # n
      <4>1. i \in 1..(n - 1) /\ j \in 1..(n - 1)
        BY <1>6, <3>2
      <4>2. QED
        BY <1>1, <1>9, <2>3, <4>1 DEF CreatingOK
    <3>3. QED
      BY <3>1, <3>2
  <2>4. QED
    BY <1>1, <1>3, <2>2, <2>3 DEF CreatingOK
<1>12. QED
  BY <1>10, <1>11

\* The return from a creation concerns no other creation.
LEMMA BodyReturnKeepsCreating ==
  ASSUME TypeInv, CreatingOK, BodyReturn
  PROVE  CreatingOK'
<1>1. PICK n : n = Len(calls) - 1
  OBVIOUS
<1>2. /\ Len(calls') = n /\ n \in Nat /\ n >= 1 /\ Len(calls) = n + 1
      /\ \A i \in 1..(n - 1) : calls'[i] = calls[i]
      /\ calls'[n].eff = calls[n].eff
  BY <1>1, BodyReturnStack, TypeFacts DEF BodyReturn, Depth
<1>3. \A i \in 1..n : calls'[i].eff = calls[i].eff
  BY <1>2
<1>4. calls \in Seq(Frame) /\ Top = calls[n + 1] /\ Depth = n
  BY <1>2, TypeFacts DEF Top, Depth
<1>5. SubSeq(calls, 1, n)[n] = calls[n]
  BY <1>2, <1>4, SubSeqProperties
<1>6. \/ status' = status
      \/ calls[n].op = "create" /\ status' = [status EXCEPT ![calls[n + 1].eff] = "live"]
  BY <1>1, <1>4, <1>5 DEF BodyReturn
<1>7. ASSUME NEW i \in 1..(n - 1), calls'[i].op = "create"
      PROVE  status'[calls'[i + 1].eff] = "creating"
  <2>1. /\ calls[i].op = "create" /\ i \in 1..n /\ i # n /\ n \in 1..n
        /\ calls'[i + 1].eff = calls[i + 1].eff
    BY <1>2, <1>3, <1>7
  <2>2. status[calls[i + 1].eff] = "creating"
    BY <1>2, <2>1 DEF CreatingOK
  <2>3. calls[n].op = "create" => calls[i + 1].eff # calls[n + 1].eff
    BY <1>2, <2>1 DEF CreatingOK
  <2>4. i + 1 \in 2..Len(calls) /\ n + 1 \in 2..Len(calls)
    BY <1>2
  <2>5. /\ calls[i + 1].eff \in Effects /\ calls[n + 1].eff \in Effects
        /\ status \in [Effects -> {"none", "creating", "live", "disposed"}]
    BY <2>4 DEF TypeInv, TypeOK, StackOK
  <2>6. QED
    BY <1>6, <2>1, <2>2, <2>3, <2>5
<1>8. \A i, j \in 1..(n - 1) :
        /\ calls'[i].op = "create" /\ calls'[j].op = "create"
        /\ calls'[i + 1].eff = calls'[j + 1].eff
        => i = j
  BY <1>2, <1>3 DEF CreatingOK
<1>9. QED
  BY <1>2, <1>7, <1>8 DEF CreatingOK

\* Creations stay as they are described, whatever step is taken.
LEMMA CreatingStep ==
  ASSUME TypeInv, CreatingOK, [Next]_vars
  PROVE  CreatingOK'
<1> USE TypeFacts
<1>1. ASSUME UNCHANGED <<calls, status>> PROVE CreatingOK'
  BY <1>1 DEF CreatingOK
<1>2. ASSUME NEW s \in Signals, NEW v \in Values, SignalSet(s, v) PROVE CreatingOK'
  BY <1>2, GoesOnKeepsCreating DEF SignalSet, TypeInv, TypeOK
<1>3. ASSUME BatchEnd \/ FlushCall \/ NotifyDone PROVE CreatingOK'
  <2>1. FlushOp(batch) \in Ops /\ FlushOp(batch') \in Ops
    BY DEF FlushOp
  <2>2. QED
    BY <1>3, <2>1, GoesOnKeepsCreating DEF BatchEnd, FlushCall, NotifyDone
<1>4. ASSUME EffectSchedule PROVE CreatingOK'
  BY <1>4, GoesOnKeepsCreating DEF EffectSchedule
<1>5. ASSUME FlushSnapshot \/ FlushReturn PROVE CreatingOK'
  BY <1>5, GoesOnKeepsCreating DEF FlushSnapshot, FlushReturn, TypeInv, TypeOK
<1>6. ASSUME FlushNext PROVE CreatingOK'
  <2>1. Head(Top.rest) \in Effects /\ Tail(Top.rest) \in Seq(Effects) /\ status' = status
    BY <1>6 DEF FlushNext
  <2>2. CASE RunBody(Head(Top.rest), "flush", Tail(Top.rest))
    BY <2>1, <2>2, RunBodyKeepsCreating
  <2>3. CASE calls' = TopGoesOn("flush", Tail(Top.rest))
    BY <2>1, <2>3, GoesOnKeepsCreating
  <2>4. QED
    BY <1>6, <2>2, <2>3 DEF FlushNext
<1>7. ASSUME NEW e \in Effects, EffectCreate(e) PROVE CreatingOK'
  BY <1>7, RunBodyKeepsCreating DEF EffectCreate
<1>8. ASSUME NEW e \in Effects, EffectDispose(e) PROVE CreatingOK'
  BY <1>8 DEF EffectDispose, CreatingOK, TypeInv, TypeOK
<1>9. ASSUME Client PROVE CreatingOK'
  BY <1>1, <1>2, <1>3, <1>7, <1>8, <1>9
  DEF Client, SignalCreate, SignalGet, SignalDispose, BatchStart
<1>10. ASSUME Library PROVE CreatingOK'
  BY <1>3, <1>4, <1>5, <1>6, <1>10 DEF Library
<1>11. QED
  BY <1>1, <1>9, <1>10, BodyReturnKeepsCreating DEF Next, vars

-----------------------------------------------------------------------------
(* Subscriptions *)

\* The observer on top is the effect whose code runs.
LEMMA CurrentIsTop ==
  ASSUME TypeInv, ObserversMatch
  PROVE  ObserverCurrent = Top.eff
<1>1. /\ Len(calls) \in Nat /\ Len(calls) >= 1 /\ Depth = Len(calls) - 1
      /\ observers \in Seq(Effects) /\ Len(observers) = Depth
  BY TypeFacts DEF Depth, ObserversMatch, TypeInv, TypeOK
<1>2. CASE Depth = 0
  BY <1>1, <1>2, EmptySeq DEF ObserverCurrent, Top, TypeInv, StackOK
<1>3. CASE Depth > 0
  <2>1. observers # <<>>
    BY <1>1, <1>3, EmptySeq
  <2>2. observers[Depth] = calls[Depth + 1].eff
    BY <1>1, <1>3 DEF ObserversMatch
  <2>3. QED
    BY <1>1, <2>1, <2>2 DEF ObserverCurrent, Top
<1>4. QED
  BY <1>1, <1>2, <1>3

\* A read subscribes and drops nobody.
LEMMA SubscribeAdds ==
  ASSUME TypeInv, ~AllocFails, NEW s \in Signals, NEW e \in Effects \cup {Main},
         Subscribe(s, e)
  PROVE  /\ e \in Effects => e \in Elements(subs'[s])
         /\ \A t \in Signals : Elements(subs[t]) \subseteq Elements(subs'[t])
<1>1. subs \in [Signals -> Seq(Effects)] /\ Main \notin Effects
  BY ConstantsAssumption DEF TypeInv, TypeOK
<1>2. CASE e \in Elements(subs[s]) \/ e = Main
  BY <1>1, <1>2 DEF Subscribe
<1>3. CASE e \notin Elements(subs[s]) \cup {Main}
  <2>1. e \in Effects /\ subs' = [subs EXCEPT ![s] = Append(@, e)]
    BY <1>3 DEF Subscribe
  <2>2. subs[s] \in Seq(Effects) /\ subs'[s] = Append(subs[s], e)
    BY <1>1, <2>1
  <2>3. /\ Len(subs[s]) \in Nat /\ DOMAIN subs[s] = 1..Len(subs[s])
        /\ DOMAIN subs'[s] = 1..(Len(subs[s]) + 1)
        /\ \A i \in 1..Len(subs[s]) : subs'[s][i] = subs[s][i]
        /\ subs'[s][Len(subs[s]) + 1] = e
    BY <2>1, <2>2, AppendProperties, LenProperties
  <2>4. Len(subs[s]) + 1 \in 1..(Len(subs[s]) + 1)
    BY <2>3
  <2>5. e \in Elements(subs'[s]) /\ Elements(subs[s]) \subseteq Elements(subs'[s])
    BY <2>3, <2>4 DEF Elements
  <2>6. \A t \in Signals : t # s => subs'[t] = subs[t]
    BY <1>1, <2>1
  <2>7. QED
    BY <2>5, <2>6
<1>4. QED
  BY <1>2, <1>3

\* What a body has read it stays subscribed to: a read subscribes the body
\* that makes it, and subscriptions are never removed.
LEMMA SubscribedStep ==
  ASSUME TypeInv, ObserversMatch, ReadSubscribed, ~AllocFails, [Next]_vars
  PROVE  ReadSubscribed'
<1> SUFFICES ASSUME NEW e \in Effects, NEW t \in Signals,
                    t \in allocated', seen'[e][t] # NoValue
             PROVE  e \in Elements(subs'[t])
  BY DEF ReadSubscribed, Elements
<1>1. /\ subs \in [Signals -> Seq(Effects)]
      /\ seen \in [Effects -> [Signals -> Values \cup {NoValue}]]
  BY DEF TypeInv, TypeOK
<1>2. ASSUME allocated' \subseteq allocated, subs' = subs,
             seen' = seen \/ \E f \in Effects : seen' = [seen EXCEPT ![f] = NothingSeen]
      PROVE  e \in Elements(subs'[t])
  <2>1. seen[e][t] # NoValue
    BY <1>1, <1>2 DEF NothingSeen
  <2>2. QED
    BY <1>2, <2>1 DEF ReadSubscribed
<1>3. ASSUME NEW s \in Signals, NEW v \in Values, SignalCreate(s, v)
      PROVE  e \in Elements(subs'[t])
  <2>1. seen'[e][t] = [seen[e] EXCEPT ![s] = NoValue][t]
    BY <1>3 DEF SignalCreate
  <2>2. t # s /\ seen[e][t] # NoValue
    BY <1>1, <2>1
  <2>3. t \in allocated /\ subs'[t] = subs[t]
    BY <1>1, <1>3, <2>2 DEF SignalCreate
  <2>4. QED
    BY <2>2, <2>3 DEF ReadSubscribed
<1>4. ASSUME NEW s \in Signals, SignalGet(s)
      PROVE  e \in Elements(subs'[t])
  <2>1. Subscribe(s, Top.eff) /\ Top.eff \in Effects \cup {Main} /\ t \in allocated
    BY <1>4, CurrentIsTop, TypeFacts DEF SignalGet
  <2>2. /\ Top.eff \in Effects => Top.eff \in Elements(subs'[s])
        /\ Elements(subs[t]) \subseteq Elements(subs'[t])
    BY <2>1, SubscribeAdds
  <2>3. CASE e = Top.eff /\ t = s
    BY <2>2, <2>3
  <2>4. CASE ~(e = Top.eff /\ t = s)
    <3>1. seen'[e][t] = seen[e][t]
      BY <1>1, <1>4, <2>1, <2>4 DEF SignalGet
    <3>2. e \in Elements(subs[t])
      BY <2>1, <3>1 DEF ReadSubscribed
    <3>3. QED
      BY <2>2, <3>2
  <2>5. QED
    BY <2>3, <2>4
<1>5. ASSUME NEW f \in Effects, NEW op, NEW rest, RunBody(f, op, rest),
             UNCHANGED signalVars
      PROVE  e \in Elements(subs'[t])
  BY <1>2, <1>5 DEF RunBody, signalVars
<1>6. ASSUME Client PROVE e \in Elements(subs'[t])
  <2>1. ASSUME NEW f \in Effects, EffectCreate(f) PROVE e \in Elements(subs'[t])
    BY <1>5, <2>1 DEF EffectCreate
  <2>2. QED
    BY <1>2, <1>3, <1>4, <1>6, <2>1
    DEF Client, SignalSet, SignalDispose, EffectDispose, BatchStart, BatchEnd,
        FlushCall, signalVars
<1>7. ASSUME Library PROVE e \in Elements(subs'[t])
  <2>1. ASSUME FlushNext PROVE e \in Elements(subs'[t])
    <3>1. Head(Top.rest) \in Effects
      BY <2>1, TypeFacts DEF FlushNext
    <3>2. QED
      BY <1>2, <1>5, <2>1, <3>1 DEF FlushNext, signalVars
  <2>2. QED
    BY <1>2, <1>7, <2>1
    DEF Library, EffectSchedule, NotifyDone, FlushSnapshot, FlushReturn, signalVars
<1>8. ASSUME BodyReturn \/ UNCHANGED vars PROVE e \in Elements(subs'[t])
  BY <1>2, <1>8 DEF BodyReturn, vars, signalVars
<1>9. QED
  BY <1>6, <1>7, <1>8 DEF Next

-----------------------------------------------------------------------------
(* Room in the pending queue *)

\* An effect that is not pending finds room in the queue.
LEMMA QueueHasRoom ==
  ASSUME EnoughRoom, TypeInv, PendingExact, NEW e \in Effects, ~pending[e]
  PROVE  Len(queue) < PendingMax
<1>1. /\ queue \in Seq(Effects) /\ Len(queue) \in Nat
      /\ DOMAIN queue = 1..Len(queue) /\ Len(calls) \in Nat
  BY TypeFacts, LenProperties DEF TypeInv, TypeOK
<1>2. Backlog(0) = queue /\ 0 \in 0..Len(calls)
  BY <1>1 DEF Backlog
<1>3. \A i \in 1..Len(queue) : pending[queue[i]] /\ queue[i] \in Effects
  BY <1>1, <1>2, ElementOfSeq DEF PendingExact, Elements
<1>4. \A i, j \in 1..Len(queue) : queue[i] = queue[j] => i = j
  BY <1>1, <1>2 DEF PendingExact, WaitsOnce
<1> DEFINE others == Effects \ {e}
           f == [i \in 1..Len(queue) |-> queue[i]]
<1>5. f \in Injection(1..Len(queue), others)
  BY <1>3, <1>4 DEF Injection, IsInjective
<1>6. /\ IsFiniteSet(others) /\ Cardinality(others) = Cardinality(Effects) - 1
      /\ Cardinality(Effects) \in Nat
  BY FS_RemoveElement, FS_CardinalityType DEF EnoughRoom
<1>7. Cardinality(1..Len(queue)) <= Cardinality(others)
  BY <1>5, <1>6, FS_Injection
<1>8. Cardinality(1..Len(queue)) = Len(queue)
  <2>1. 1 \in Int /\ Len(queue) \in Int
    BY <1>1
  <2>2. Cardinality(1..Len(queue)) = IF 1 > Len(queue) THEN 0 ELSE Len(queue) - 1 + 1
    BY <2>1, FS_Interval
  <2>3. QED
    BY <1>1, <2>2
<1> HIDE DEF others
<1>9. QED
  BY <1>1, <1>6, <1>7, <1>8, ConstantsAssumption DEF EnoughRoom

-----------------------------------------------------------------------------
(* No update is lost *)

FreshInv == CreatingOK /\ ReadSubscribed /\ NoLostUpdate

\* Steps after which no more reads are stale and no fewer effects scheduled.
LEMMA StaysFresh ==
  ASSUME NoLostUpdate,
         \A e \in Effects, s \in Signals :
           Alive(e)' /\ Stale(e, s)' => Alive(e) /\ Stale(e, s),
         \A e \in Effects : pending[e] \/ BeingNotified(e) =>
           pending'[e] \/ BeingNotified(e)' \/ \A s \in Signals : ~Stale(e, s)'
  PROVE  NoLostUpdate'
BY DEF NoLostUpdate

\* A write makes its readers stale, and all of them are about to be notified.
LEMMA SignalSetFresh ==
  ASSUME TypeInv, FreshInv, NEW s \in Signals, NEW v \in Values, SignalSet(s, v)
  PROVE  NoLostUpdate'
<1> SUFFICES ASSUME NEW e \in Effects, NEW t \in Signals, Alive(e)', Stale(e, t)'
             PROVE  pending'[e] \/ BeingNotified(e)'
  BY DEF NoLostUpdate
<1>1. /\ value \in [Signals -> Values \cup {NoValue}] /\ subs[s] \in Seq(Effects)
      /\ s \in allocated
  BY DEF TypeInv, TypeOK, SignalSet
<1>2. /\ Len(calls') = Len(calls)
      /\ calls'[Len(calls)] = GoesOn(Top, "set", subs[s])
  BY <1>1, TypeFacts, TopGoesOnFrame DEF SignalSet
<1>3. Top'.op = "set" /\ Top'.rest = subs[s]
  BY <1>2 DEF Top, GoesOn
<1>4. CASE t = s
  <2>1. seen[e][s] # NoValue
    BY <1>4 DEF Stale, SignalSet
  <2>2. e \in Elements(subs[s])
    BY <1>1, <2>1 DEF FreshInv, ReadSubscribed
  <2>3. QED
    BY <1>3, <2>2 DEF BeingNotified, Elements
<1>5. CASE t # s
  <2>1. Alive(e) /\ Stale(e, t)
    BY <1>1, <1>5 DEF Stale, Alive, SignalSet
  <2>2. ~BeingNotified(e)
    BY DEF BeingNotified, SignalSet, MayNest, ClientRuns
  <2>3. pending[e]
    BY <2>1, <2>2 DEF FreshInv, NoLostUpdate
  <2>4. QED
    BY <2>3 DEF SignalSet
<1>6. QED
  BY <1>4, <1>5

\* A notified effect that lives is pending afterwards.
LEMMA EffectScheduleFresh ==
  ASSUME EnoughRoom, TypeInv, PendingExact, FreshInv, EffectSchedule
  PROVE  NoLostUpdate'
<1> DEFINE rest == Top.rest
           f == Head(rest)
<1>1. /\ rest \in Seq(Effects) /\ rest # <<>> /\ f \in Effects
      /\ Tail(rest) \in Seq(Effects) /\ Top.op = "set"
  BY TypeFacts DEF EffectSchedule
<1>2. /\ Len(calls') = Len(calls)
      /\ calls'[Len(calls)] = GoesOn(Top, "set", Tail(rest))
  BY <1>1, TypeFacts, TopGoesOnFrame DEF EffectSchedule
<1>3. Top'.op = "set" /\ Top'.rest = Tail(rest)
  BY <1>2 DEF Top, GoesOn
<1>4. \A e \in Effects : pending[e] => pending'[e]
  BY <1>1 DEF EffectSchedule, TypeInv, TypeOK
<1>5. status[f] # "disposed" => pending'[f]
  <2>1. CASE pending[f]
    BY <1>1, <1>4, <2>1
  <2>2. CASE ~pending[f]
    BY <1>1, <2>2, QueueHasRoom DEF EffectSchedule, CanSchedule, TypeInv, TypeOK
  <2>3. QED
    BY <2>1, <2>2
<1>6. \A e \in Elements(rest) : e = f \/ e \in Elements(Tail(rest))
  <2>1. /\ DOMAIN rest = 1..Len(rest) /\ Len(rest) \in Nat /\ Len(rest) >= 1
        /\ DOMAIN Tail(rest) = 1..(Len(rest) - 1)
        /\ \A i \in 1..(Len(rest) - 1) : Tail(rest)[i] = rest[i + 1]
        /\ rest[1] = f
    BY <1>1, HeadTailProperties, LenProperties, EmptySeq
  <2>2. ASSUME NEW i \in 1..Len(rest), i # 1
        PROVE  rest[i] \in Elements(Tail(rest))
    <3>1. i - 1 \in 1..(Len(rest) - 1) /\ Tail(rest)[i - 1] = rest[i]
      BY <2>1, <2>2
    <3>2. QED
      BY <2>1, <3>1 DEF Elements
  <2>3. QED
    BY <2>1, <2>2 DEF Elements
<1> HIDE DEF rest, f
<1>7. \A e \in Effects, s \in Signals :
        Alive(e)' /\ Stale(e, s)' => Alive(e) /\ Stale(e, s)
  BY DEF Alive, Stale, EffectSchedule, signalVars
<1> SUFFICES ASSUME NEW e \in Effects, NEW s \in Signals, Alive(e), Stale(e, s)
             PROVE  pending'[e] \/ BeingNotified(e)'
  BY <1>7 DEF NoLostUpdate
<1>8. pending[e] \/ e \in Elements(rest)
  BY DEF FreshInv, NoLostUpdate, BeingNotified, rest
<1>9. e \in Elements(Tail(rest)) => BeingNotified(e)'
  BY <1>3 DEF BeingNotified, Elements
<1>10. status[e] # "disposed"
  BY DEF Alive
<1>11. QED
  BY <1>4, <1>5, <1>6, <1>8, <1>9, <1>10

\* A flush clears the flag of an effect only to run it, or when it is disposed.
LEMMA FlushNextFresh ==
  ASSUME TypeInv, FreshInv, FlushNext
  PROVE  NoLostUpdate'
<1>1. PICK f \in Effects : f = Head(Top.rest)
  BY TypeFacts DEF FlushNext
<1>2. /\ pending' = [pending EXCEPT ![f] = FALSE]
      /\ \/ status[f] # "disposed" /\ seen' = [seen EXCEPT ![f] = NothingSeen]
         \/ status[f] = "disposed" /\ seen' = seen
      /\ status' = status /\ UNCHANGED <<allocated, value>>
      /\ Top.op = "flush"
  BY <1>1 DEF FlushNext, RunBody, signalVars
<1> SUFFICES ASSUME NEW e \in Effects, NEW s \in Signals, Alive(e)', Stale(e, s)'
             PROVE  pending'[e]
  BY DEF NoLostUpdate
<1>3. /\ seen \in [Effects -> [Signals -> Values \cup {NoValue}]]
      /\ pending \in [Effects -> BOOLEAN]
  BY DEF TypeInv, TypeOK
<1>4. e # f
  BY <1>2, <1>3 DEF Alive, Stale, NothingSeen
<1>5. Alive(e) /\ Stale(e, s)
  BY <1>2, <1>3, <1>4 DEF Alive, Stale
<1>6. pending[e]
  BY <1>2, <1>5 DEF FreshInv, NoLostUpdate, BeingNotified
<1>7. QED
  BY <1>2, <1>3, <1>4, <1>6

\* The first body of an effect starts with nothing read.
LEMMA EffectCreateFresh ==
  ASSUME TypeInv, FreshInv, NEW f \in Effects, EffectCreate(f)
  PROVE  NoLostUpdate'
<1>1. /\ seen' = [seen EXCEPT ![f] = NothingSeen]
      /\ status' = [status EXCEPT ![f] = "creating"]
      /\ UNCHANGED <<allocated, value, pending>>
      /\ Top.op = "none"
  BY DEF EffectCreate, RunBody, signalVars, MayNest, ClientRuns
<1> SUFFICES ASSUME NEW e \in Effects, NEW s \in Signals, Alive(e)', Stale(e, s)'
             PROVE  pending'[e]
  BY DEF NoLostUpdate
<1>2. /\ seen \in [Effects -> [Signals -> Values \cup {NoValue}]]
      /\ status \in [Effects -> {"none", "creating", "live", "disposed"}]
  BY DEF TypeInv, TypeOK
<1>3. e # f
  BY <1>1, <1>2 DEF Stale, NothingSeen
<1>4. Alive(e) /\ Stale(e, s)
  BY <1>1, <1>2, <1>3 DEF Alive, Stale
<1>5. QED
  BY <1>1, <1>4 DEF FreshInv, NoLostUpdate, BeingNotified

\* A body returns: what it had not been told, it is still to be told.
LEMMA BodyReturnFresh ==
  ASSUME TypeInv, FreshInv, BodyReturn
  PROVE  NoLostUpdate'
<1>1. /\ Len(calls) \in Nat /\ Len(calls) >= 2 /\ Top = calls[Len(calls)]
      /\ Depth = Len(calls) - 1 /\ calls \in Seq(Frame)
  BY TypeFacts DEF BodyReturn, Top, Depth
<1>2. SubSeq(calls, 1, Len(calls) - 1)[Len(calls) - 1] = calls[Len(calls) - 1]
  BY <1>1, SubSeqProperties
<1>3. calls[Len(calls) - 1].op = "create" => status[Top.eff] = "creating"
  <2>1. Len(calls) - 1 \in 1..(Len(calls) - 1) /\ (Len(calls) - 1) + 1 = Len(calls)
    BY <1>1
  <2>2. QED
    BY <1>1, <2>1 DEF FreshInv, CreatingOK
<1>4. \/ status' = status
      \/ status[Top.eff] = "creating" /\ status' = [status EXCEPT ![Top.eff] = "live"]
  BY <1>1, <1>2, <1>3 DEF BodyReturn
<1>5. \A e \in Effects : Alive(e)' => Alive(e)
  BY <1>4 DEF Alive, TypeInv, TypeOK
<1>6. UNCHANGED <<allocated, value, seen, pending>> /\ Top.op = "none"
  BY DEF BodyReturn, ClientRuns, signalVars
<1>7. QED
  BY <1>5, <1>6, StaysFresh DEF Stale, BeingNotified, FreshInv

\* Every step keeps the promise.
LEMMA FreshStep ==
  ASSUME EnoughRoom, TypeInv, ObserversMatch, PendingExact, FreshInv, [Next]_vars
  PROVE  FreshInv'
<1>1. ~AllocFails /\ NoLostUpdate
  BY DEF EnoughRoom, FreshInv
<1>2. CreatingOK' /\ ReadSubscribed'
  BY <1>1, CreatingStep, SubscribedStep DEF FreshInv
<1>3. /\ seen \in [Effects -> [Signals -> Values \cup {NoValue}]]
      /\ status \in [Effects -> {"none", "creating", "live", "disposed"}]
  BY DEF TypeInv, TypeOK
<1>4. ASSUME NEW s \in Signals, NEW v \in Values, SignalCreate(s, v) PROVE NoLostUpdate'
  <2>1. \A e \in Effects : seen'[e] = [seen[e] EXCEPT ![s] = NoValue]
    BY <1>4 DEF SignalCreate
  <2>2. ASSUME NEW e \in Effects PROVE ~Stale(e, s)'
    <3>1. seen[e] \in [Signals -> Values \cup {NoValue}]
      BY <1>3
    <3>2. seen'[e][s] = NoValue
      BY <2>1, <3>1
    <3>3. QED
      BY <3>2 DEF Stale
  <2>3. ASSUME NEW e \in Effects, NEW t \in Signals, Stale(e, t)' PROVE Stale(e, t)
    <3>1. t # s
      BY <2>2, <2>3
    <3>2. seen[e] \in [Signals -> Values \cup {NoValue}]
      BY <1>3
    <3>3. seen'[e][t] = seen[e][t]
      BY <2>1, <3>1, <3>2
    <3>4. QED
      BY <1>4, <2>3, <3>1, <3>3 DEF Stale, SignalCreate, TypeInv, TypeOK
  <2>4. QED
    BY <1>1, <1>4, <2>3, StaysFresh DEF SignalCreate, Alive, BeingNotified, Top
<1>5. ASSUME NEW s \in Signals, SignalGet(s) PROVE NoLostUpdate'
  <2>1. \A e \in Effects, t \in Signals : Stale(e, t)' => Stale(e, t)
    BY <1>3, <1>5, TypeFacts DEF Stale, SignalGet
  <2>2. QED
    BY <1>1, <1>5, <2>1, StaysFresh DEF SignalGet, Alive, BeingNotified, Top
<1>6. ASSUME NEW s \in Signals, SignalDispose(s) PROVE NoLostUpdate'
  BY <1>1, <1>6, StaysFresh DEF SignalDispose, Alive, Stale, BeingNotified, Top
<1>7. ASSUME NEW e \in Effects, EffectDispose(e) PROVE NoLostUpdate'
  <2>1. \A f \in Effects : Alive(f)' => Alive(f)
    BY <1>3, <1>7 DEF Alive, EffectDispose
  <2>2. QED
    BY <1>1, <1>7, <2>1, StaysFresh DEF EffectDispose, Stale, BeingNotified, Top, signalVars
<1>8. ASSUME BatchStart \/ UNCHANGED vars PROVE NoLostUpdate'
  BY <1>1, <1>8, StaysFresh DEF BatchStart, Alive, Stale, BeingNotified, Top, vars, signalVars
<1>9. ASSUME BatchEnd \/ FlushCall \/ FlushReturn \/ FlushSnapshot PROVE NoLostUpdate'
  <2>1. Top.op # "set"
    BY <1>9 DEF BatchEnd, FlushCall, FlushReturn, FlushSnapshot, MayNest, ClientRuns
  <2>2. UNCHANGED <<allocated, value, seen, pending, status>>
    BY <1>9 DEF BatchEnd, FlushCall, FlushReturn, FlushSnapshot, signalVars
  <2>3. QED
    BY <1>1, <2>1, <2>2, StaysFresh DEF Alive, Stale, BeingNotified
<1>10. ASSUME NotifyDone PROVE NoLostUpdate'
  <2>1. \A e : ~BeingNotified(e)
    BY <1>10, EmptySeq DEF NotifyDone, BeingNotified, Elements
  <2>2. UNCHANGED <<allocated, value, seen, pending, status>>
    BY <1>10 DEF NotifyDone, signalVars
  <2>3. QED
    BY <1>1, <2>1, <2>2, StaysFresh DEF Alive, Stale
<1>11. ASSUME Client PROVE NoLostUpdate'
  BY <1>4, <1>5, <1>6, <1>7, <1>8, <1>9, <1>11, SignalSetFresh, EffectCreateFresh
  DEF Client
<1>12. ASSUME Library PROVE NoLostUpdate'
  BY <1>9, <1>10, <1>12, EffectScheduleFresh, FlushNextFresh DEF Library
<1>13. QED
  BY <1>2, <1>8, <1>11, <1>12, BodyReturnFresh DEF Next, FreshInv

\* Nothing has been read at first.
LEMMA InitFresh == Init => FreshInv
  BY DEF Init, FreshInv, CreatingOK, ReadSubscribed, NoLostUpdate, Alive

\* With enough room in the fixed arrays and memory for the subscriber lists,
\* every live effect that has read an outdated value is pending or about to
\* be scheduled, whatever client code calls and however bodies nest.
THEOREM NoUpdateIsLost ==
  ASSUME EnoughRoom
  PROVE  Spec => []NoLostUpdate
<1>1. /\ TypeInv /\ ObserversMatch /\ PendingExact /\ FreshInv /\ [Next]_vars => FreshInv'
      /\ FreshInv => NoLostUpdate
  BY FreshStep DEF FreshInv
<1>2. Spec => []ObserversMatch
  BY ObserversTrackBodies DEF EnoughRoom
<1>3. QED
  BY <1>1, <1>2, InitFresh, StackShape, PendingIsExact, PTL DEF Spec

-----------------------------------------------------------------------------
(* Nothing waits at the end *)

\* Outside a batch a queue that is not empty has a flush on the C stack, or a
\* write that will flush when it has notified.
Drains ==
  batch = 0 /\ queue # <<>> =>
    Top.op = "set" \/ \E i \in 1..Len(calls) : calls[i].op = "flush"

\* A library call that goes on leaves the lower frames draining.
LEMMA GoesOnDrains ==
  ASSUME TypeInv, NEW op \in {"set", "flush"}, NEW rest \in Seq(Effects),
         calls' = TopGoesOn(op, rest)
  PROVE  Drains'
<1>1. /\ Len(calls') = Len(calls) /\ Len(calls) \in Nat /\ Len(calls) >= 1
      /\ calls'[Len(calls)] = GoesOn(Top, op, rest)
  BY TypeFacts, TopGoesOnFrame DEF Ops
<1>2. Top'.op = op /\ calls'[Len(calls')].op = op
  BY <1>1 DEF Top, GoesOn
<1>3. Len(calls') \in 1..Len(calls')
  BY <1>1
<1>4. QED
  BY <1>2, <1>3 DEF Drains

\* A body starts on top of a flush or of client code.
LEMMA RunBodyDrains ==
  ASSUME TypeInv, Drains, NEW op \in Ops, NEW rest \in Seq(Effects),
         NEW e \in Effects, RunBody(e, op, rest), queue' = queue, batch' = batch,
         Top.op = "none" \/ op = "flush"
  PROVE  Drains'
<1>1. PICK n \in Nat : n = Len(calls) /\ n >= 1
  BY TypeFacts
<1>2. /\ Len(calls') = n + 1
      /\ \A i \in 1..(n - 1) : calls'[i] = calls[i]
      /\ calls'[n] = GoesOn(Top, op, rest)
  BY <1>1, RunBodyFrame DEF TypeInv, StackOK
<1>3. CASE op = "flush"
  <2>1. calls'[n].op = "flush" /\ n \in 1..Len(calls')
    BY <1>1, <1>2, <1>3 DEF GoesOn
  <2>2. QED
    BY <2>1 DEF Drains
<1>4. CASE Top.op = "none"
  <2>1. ASSUME batch' = 0, queue' # <<>>
        PROVE  \E i \in 1..Len(calls') : calls'[i].op = "flush"
    <3>1. PICK i \in 1..n : calls[i].op = "flush"
      BY <1>1, <1>4, <2>1 DEF Drains
    <3>2. i \in 1..(n - 1) /\ i \in 1..Len(calls')
      BY <1>1, <1>2, <1>4, <3>1 DEF Top
    <3>3. QED
      BY <1>2, <3>1, <3>2
  <2>2. QED
    BY <2>1 DEF Drains
<1>5. QED
  BY <1>3, <1>4

\* Every frame that waits for a body keeps its promise to drain the queue.
LEMMA DrainsStep ==
  ASSUME TypeInv, Drains, [Next]_vars
  PROVE  Drains'
<1> USE TypeFacts
<1>1. ASSUME UNCHANGED <<calls, queue, batch>> PROVE Drains'
  BY <1>1 DEF Drains, Top
<1>2. ASSUME NEW s \in Signals, NEW v \in Values, SignalSet(s, v) PROVE Drains'
  BY <1>2, GoesOnDrains DEF SignalSet, TypeInv, TypeOK
<1>3. ASSUME BatchStart PROVE Drains'
  <2>1. batch' # 0
    BY <1>3 DEF BatchStart, TypeInv, TypeOK
  <2>2. QED
    BY <2>1 DEF Drains
<1>4. ASSUME BatchEnd \/ FlushCall \/ NotifyDone PROVE Drains'
  <2>1. /\ batch' \in Nat
        /\ calls' = TopGoesOn(FlushOp(batch'), <<>>)
    BY <1>4 DEF BatchEnd, FlushCall, NotifyDone, TypeInv, TypeOK
  <2>2. CASE batch' = 0
    <3>1. FlushOp(batch') = "flush"
      BY <2>2 DEF FlushOp
    <3>2. calls' = TopGoesOn("flush", <<>>)
      BY <2>1, <3>1
    <3>3. QED
      BY <3>2, GoesOnDrains
  <2>3. CASE batch' # 0
    BY <2>3 DEF Drains
  <2>4. QED
    BY <2>2, <2>3
<1>5. ASSUME EffectSchedule PROVE Drains'
  BY <1>5, GoesOnDrains DEF EffectSchedule
<1>6. ASSUME FlushSnapshot \/ FlushReturn PROVE Drains'
  <2>1. queue' = <<>>
    BY <1>6 DEF FlushSnapshot, FlushReturn
  <2>2. QED
    BY <2>1 DEF Drains
<1>7. ASSUME FlushNext PROVE Drains'
  <2>1. Head(Top.rest) \in Effects /\ Tail(Top.rest) \in Seq(Effects)
    BY <1>7 DEF FlushNext
  <2>2. CASE RunBody(Head(Top.rest), "flush", Tail(Top.rest))
    BY <1>7, <2>1, <2>2, RunBodyDrains DEF FlushNext
  <2>3. CASE calls' = TopGoesOn("flush", Tail(Top.rest))
    BY <2>1, <2>3, GoesOnDrains
  <2>4. QED
    BY <1>7, <2>2, <2>3 DEF FlushNext
<1>8. ASSUME NEW e \in Effects, EffectCreate(e) PROVE Drains'
  BY <1>8, RunBodyDrains DEF EffectCreate, MayNest, ClientRuns
<1>9. ASSUME BodyReturn PROVE Drains'
  <2>1. PICK n : n = Len(calls) - 1
    OBVIOUS
  <2>2. /\ Len(calls') = n /\ n \in Nat /\ n >= 1 /\ Len(calls) = n + 1
        /\ \A i \in 1..(n - 1) : calls'[i] = calls[i]
        /\ calls[n].op = "flush" => calls'[n].op = "flush"
    BY <1>9, <2>1, BodyReturnStack DEF BodyReturn, Depth
  <2>3. ASSUME batch' = 0, queue' # <<>>
        PROVE  \E i \in 1..Len(calls') : calls'[i].op = "flush"
    <3>1. Top.op = "none" /\ batch = 0 /\ queue # <<>>
      BY <1>9, <2>3 DEF BodyReturn, ClientRuns
    <3>2. PICK i \in 1..(n + 1) : calls[i].op = "flush"
      BY <2>2, <3>1 DEF Drains
    <3>3. i \in 1..n
      BY <2>2, <3>1, <3>2 DEF Top
    <3>4. i = n \/ i \in 1..(n - 1)
      BY <2>2, <3>3
    <3>5. QED
      BY <2>2, <3>2, <3>3, <3>4
  <2>4. QED
    BY <2>3 DEF Drains
<1>10. ASSUME Client PROVE Drains'
  BY <1>1, <1>2, <1>3, <1>4, <1>8, <1>10
  DEF Client, SignalCreate, SignalGet, SignalDispose, EffectDispose
<1>11. ASSUME Library PROVE Drains'
  BY <1>4, <1>5, <1>6, <1>7, <1>11 DEF Library
<1>12. QED
  BY <1>1, <1>9, <1>10, <1>11 DEF Next, vars

\* Nothing is queued at first.
LEMMA InitDrains == Init => Drains
  BY DEF Init, Drains

\* In the main program outside a batch, no flush is on the stack: the queue is
\* empty, so that no effect is pending and no live effect is stale.
LEMMA QuietFacts ==
  ASSUME TypeInv, PendingExact, NoLostUpdate, Drains
  PROVE  QuietIsFresh
<1> SUFFICES ASSUME Quiet
             PROVE  \A e \in Effects :
                      ~pending[e] /\ (Alive(e) => \A s \in Signals : ~Stale(e, s))
  BY DEF QuietIsFresh
<1>1. Len(calls) = 1 /\ Top = calls[1] /\ Top.op = "none" /\ batch = 0
  BY TypeFacts DEF Quiet, ClientRuns, Depth, Top
<1>2. queue = <<>>
  BY <1>1 DEF Drains
<1>3. \A k \in 0..1 : Backlog(k) = <<>>
  BY <1>1, <1>2 DEF Backlog
<1>4. \A e \in Effects : ~pending[e]
  BY <1>1, <1>3 DEF PendingExact, Elements
<1>5. \A e : ~BeingNotified(e)
  BY <1>1 DEF BeingNotified
<1>6. QED
  BY <1>4, <1>5 DEF NoLostUpdate

\* When all calls have returned and no batch is open, nothing is left to run
\* and every live effect has seen the current values, under the same
\* conditions as NoUpdateIsLost.
THEOREM QuietStateIsFresh ==
  ASSUME EnoughRoom
  PROVE  Spec => []QuietIsFresh
<1>1. TypeInv /\ Drains /\ [Next]_vars => Drains'
  BY DrainsStep
<1>2. TypeInv /\ PendingExact /\ NoLostUpdate /\ Drains => QuietIsFresh
  BY QuietFacts
<1>3. Spec => []NoLostUpdate
  BY NoUpdateIsLost
<1>4. QED
  BY <1>1, <1>2, <1>3, InitDrains, StackShape, PendingIsExact, PTL DEF Spec

-----------------------------------------------------------------------------
(* Disposal *)

\* No step of the library starts a body of a disposed effect, even of one that
\* was disposed in the snapshot of a flush.
THEOREM DisposedStaysSilent == Spec => DisposedNeverRuns
<1> DEFINE silent == Len(calls') > Len(calls) => status[calls'[Len(calls')].eff] # "disposed"
<1>1. ASSUME TypeInv, [Next]_vars PROVE [silent]_vars
  <2> USE <1>1, TypeFacts
  <2>1. ASSUME NEW op \in Ops, NEW rest \in Seq(Effects), calls' = TopGoesOn(op, rest)
        PROVE  silent
    BY <2>1, TopGoesOnFrame
  <2>2. ASSUME NEW op \in Ops, NEW rest \in Seq(Effects), NEW e \in Effects,
               RunBody(e, op, rest), status[e] # "disposed"
        PROVE  silent
    <3>1. TypeOK /\ Len(calls) >= 1
      BY DEF TypeInv
    <3>2. Len(calls') = Len(calls) + 1 /\ calls'[Len(calls) + 1] = Enter(e)
      BY <2>2, <3>1, RunBodyFrame
    <3>3. QED
      BY <2>2, <3>2 DEF Enter
  <2>3. ASSUME NEW s \in Signals, NEW v \in Values, SignalSet(s, v) PROVE silent
    BY <2>1, <2>3 DEF SignalSet, TypeInv, TypeOK
  <2>4. ASSUME BatchEnd \/ FlushCall \/ NotifyDone PROVE silent
    <3>1. FlushOp(batch) \in Ops /\ FlushOp(batch') \in Ops
      BY DEF FlushOp
    <3>2. QED
      BY <2>1, <2>4, <3>1 DEF BatchEnd, FlushCall, NotifyDone
  <2>5. ASSUME EffectSchedule \/ FlushReturn \/ FlushSnapshot PROVE silent
    BY <2>1, <2>5 DEF EffectSchedule, FlushReturn, FlushSnapshot, TypeInv, TypeOK
  <2>6. ASSUME FlushNext PROVE silent
    <3>1. Head(Top.rest) \in Effects /\ Tail(Top.rest) \in Seq(Effects)
      BY <2>6 DEF FlushNext
    <3>2. QED
      BY <2>1, <2>2, <2>6, <3>1 DEF FlushNext
  <2>7. ASSUME NEW e \in Effects, EffectCreate(e) PROVE silent
    BY <2>2, <2>7 DEF EffectCreate
  <2>8. ASSUME BodyReturn PROVE silent
    BY <2>8, BodyReturnStack
  <2>9. ASSUME UNCHANGED calls PROVE silent
    BY <2>9
  <2>10. ASSUME Client PROVE silent
    BY <2>3, <2>4, <2>7, <2>9, <2>10
    DEF Client, SignalCreate, SignalGet, SignalDispose, EffectDispose, BatchStart
  <2>11. ASSUME Library PROVE silent
    BY <2>4, <2>5, <2>6, <2>11 DEF Library
  <2>12. QED
    BY <1>1, <2>8, <2>10, <2>11 DEF Next
<1>2. QED
  BY <1>1, StackShape, PTL DEF Spec, DisposedNeverRuns
=============================================================================
