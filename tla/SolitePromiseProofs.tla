------------------------- MODULE SolitePromiseProofs -------------------------
(***************************************************************************)
(* SoliteReactive implements ReactivePromise, for every set of signals,    *)
(* effects and values, provided the fixed arrays are large enough; and a   *)
(* batch defers what is scheduled inside it, if bodies close the batches   *)
(* they open.                                                              *)
(***************************************************************************)
EXTENDS SoliteReactiveProofs

\* A signal that client code can read has been written.
ValuesWritten == \A s \in allocated : value[s] # NoValue

\* Only an effect that exists waits for a run, is subscribed, observes or runs.
Started ==
  /\ \A e \in Effects : pending[e] \/ BeingNotified(e) => status[e] # "none"
  /\ \A s \in Signals : \A e \in Elements(subs[s]) : status[e] # "none"
  /\ \A e \in Elements(observers) : status[e] # "none"
  /\ \A i \in 2..Len(calls) : status[calls[i].eff] # "none"

StartedInv == ValuesWritten /\ Started

-----------------------------------------------------------------------------
(* Only what exists is run *)

\* Steps that leave the values alone, or write one.
LEMMA ValuesStep ==
  ASSUME TypeInv, ValuesWritten, [Next]_vars
  PROVE  ValuesWritten'
<1>1. ASSUME NEW s \in Signals, NEW v \in Values, value' = [value EXCEPT ![s] = v],
             allocated' \subseteq allocated \cup {s}
      PROVE  ValuesWritten'
  <2>1. value \in [Signals -> Values \cup {NoValue}] /\ NoValue \notin Values
    BY ConstantsAssumption DEF TypeInv, TypeOK
  <2>2. allocated \subseteq Signals
    BY DEF TypeInv, TypeOK
  <2>3. QED
    BY <1>1, <2>1, <2>2 DEF ValuesWritten
<1>2. ASSUME value' = value, allocated' \subseteq allocated
      PROVE  ValuesWritten'
  BY <1>2 DEF ValuesWritten
<1>3. ASSUME Client PROVE ValuesWritten'
  BY <1>1, <1>2, <1>3
  DEF Client, SignalCreate, SignalSet, SignalGet, SignalDispose, EffectCreate,
      EffectDispose, BatchStart, BatchEnd, FlushCall, signalVars
<1>4. ASSUME Library \/ BodyReturn \/ UNCHANGED vars PROVE ValuesWritten'
  BY <1>2, <1>4
  DEF Library, EffectSchedule, NotifyDone, FlushSnapshot, FlushNext, FlushReturn,
      BodyReturn, vars, signalVars
<1>5. QED
  BY <1>3, <1>4 DEF Next

\* The first and the other elements of a list that is not empty.
LEMMA HeadOrTail ==
  ASSUME NEW q \in Seq(Effects), q # <<>>
  PROVE  Elements(q) = {Head(q)} \cup Elements(Tail(q))
<1>1. /\ DOMAIN q = 1..Len(q) /\ Len(q) \in Nat /\ Len(q) >= 1
      /\ DOMAIN Tail(q) = 1..(Len(q) - 1)
      /\ \A i \in 1..(Len(q) - 1) : Tail(q)[i] = q[i + 1]
      /\ q[1] = Head(q)
  BY HeadTailProperties, LenProperties, EmptySeq
<1>2. ASSUME NEW i \in 1..Len(q), i # 1
      PROVE  q[i] \in Elements(Tail(q))
  <2>1. i - 1 \in 1..(Len(q) - 1) /\ Tail(q)[i - 1] = q[i]
    BY <1>1, <1>2
  <2>2. QED
    BY <1>1, <2>1 DEF Elements
<1>3. ASSUME NEW i \in 1..(Len(q) - 1)
      PROVE  Tail(q)[i] \in Elements(q)
  <2>1. i + 1 \in DOMAIN q /\ Tail(q)[i] = q[i + 1]
    BY <1>1
  <2>2. QED
    BY <2>1 DEF Elements
<1>4. Head(q) \in Elements(q)
  <2>1. 1 \in DOMAIN q
    BY <1>1
  <2>2. QED
    BY <1>1, <2>1 DEF Elements
<1>5. Elements(q) \subseteq {Head(q)} \cup Elements(Tail(q))
  BY <1>1, <1>2 DEF Elements
<1>6. Elements(Tail(q)) \subseteq Elements(q)
  <2>1. \A x \in Elements(Tail(q)) : \E i \in 1..(Len(q) - 1) : x = Tail(q)[i]
    BY <1>1 DEF Elements
  <2>2. QED
    BY <1>3, <2>1
<1>7. QED
  BY <1>4, <1>5, <1>6

\* Who is being notified after the top frame has gone on.
LEMMA GoesOnNotifies ==
  ASSUME TypeInv, NEW op \in Ops, NEW rest \in Seq(Effects),
         calls' = TopGoesOn(op, rest)
  PROVE  /\ \A e : BeingNotified(e)' <=> op = "set" /\ e \in Elements(rest)
         /\ Len(calls') = Len(calls)
         /\ \A i \in 2..Len(calls) : calls'[i].eff = calls[i].eff
<1>1. /\ Len(calls') = Len(calls) /\ Len(calls) \in Nat
      /\ \A i \in 1..(Len(calls) - 1) : calls'[i] = calls[i]
      /\ calls'[Len(calls)] = GoesOn(Top, op, rest)
  BY TypeFacts, TopGoesOnFrame
<1>2. Top'.op = op /\ Top'.rest = rest
  BY <1>1 DEF Top, GoesOn
<1>3. \A e : BeingNotified(e)' <=> op = "set" /\ e \in Elements(rest)
  BY <1>2 DEF BeingNotified, Elements
<1>4. \A i \in 2..Len(calls) : calls'[i].eff = calls[i].eff
  BY <1>1 DEF GoesOn, Top
<1>5. QED
  BY <1>1, <1>3, <1>4

\* A body that starts notifies nobody yet.
LEMMA RunBodyNotifies ==
  ASSUME TypeInv, NEW op \in Ops, NEW rest \in Seq(Effects), NEW e \in Effects,
         RunBody(e, op, rest)
  PROVE  /\ \A f : ~BeingNotified(f)'
         /\ Len(calls') = Len(calls) + 1
         /\ \A i \in 2..Len(calls) : calls'[i].eff = calls[i].eff
         /\ calls'[Len(calls) + 1].eff = e
<1>1. /\ Len(calls') = Len(calls) + 1 /\ Len(calls) \in Nat
      /\ \A i \in 1..(Len(calls) - 1) : calls'[i] = calls[i]
      /\ calls'[Len(calls)] = GoesOn(Top, op, rest)
      /\ calls'[Len(calls) + 1] = Enter(e)
  BY TypeFacts, RunBodyFrame DEF TypeInv
<1>2. Top'.op = "none"
  BY <1>1 DEF Top, Enter
<1>3. \A f : ~BeingNotified(f)'
  BY <1>2 DEF BeingNotified
<1>4. \A i \in 2..Len(calls) : calls'[i].eff = calls[i].eff
  BY <1>1 DEF GoesOn, Top
<1>5. QED
  BY <1>1, <1>3, <1>4 DEF Enter

\* Steps that start no effect and involve only effects that exist.
LEMMA StaysStarted ==
  ASSUME Started,
         \A e \in Effects : status[e] # "none" => status'[e] # "none",
         \A e \in Effects :
           pending'[e] \/ BeingNotified(e)' =>
             \/ pending[e] \/ BeingNotified(e)
             \/ \E s \in Signals : e \in Elements(subs[s]),
         \A s \in Signals : Elements(subs'[s]) \subseteq Elements(subs[s]),
         \A s \in Signals : Elements(subs[s]) \subseteq Effects,
         Elements(observers') \subseteq Elements(observers),
         Elements(observers) \subseteq Effects,
         \A i \in 2..Len(calls') :
           i \in 2..Len(calls) /\ calls'[i].eff = calls[i].eff /\ calls[i].eff \in Effects
  PROVE  Started'
<1>1. \A e \in Effects : pending'[e] \/ BeingNotified(e)' => status'[e] # "none"
  BY DEF Started
<1>2. \A s \in Signals : \A e \in Elements(subs'[s]) : status'[e] # "none"
  BY DEF Started
<1>3. \A e \in Elements(observers') : status'[e] # "none"
  BY DEF Started
<1>4. \A i \in 2..Len(calls') : status'[calls'[i].eff] # "none"
  BY DEF Started
<1>5. QED
  BY <1>1, <1>2, <1>3, <1>4 DEF Started, Elements

\* Below a body there is no write that still notifies.
LEMMA BodyReturnNotifies ==
  ASSUME TypeInv, BodyReturn
  PROVE  /\ \A e : ~BeingNotified(e)
         /\ \A e : ~BeingNotified(e)'
<1>1. PICK n : n = Len(calls) - 1
  OBVIOUS
<1>2. n \in Nat /\ n >= 1 /\ calls \in Seq(Frame) /\ Depth = n /\ Len(calls) = n + 1
  BY <1>1, TypeFacts DEF BodyReturn, Depth
<1> DEFINE below == SubSeq(calls, 1, n)
<1>3. /\ below \in Seq(Frame) /\ Len(below) = n
      /\ below[n] = calls[n] /\ calls[n].op \in {"flush", "create"}
  BY <1>2, SubSeqProperties DEF TypeInv, StackOK
<1>4. \/ calls' = below
      \/ calls' = [below EXCEPT ![n] = GoesOn(below[n], "none", <<>>)]
  BY <1>1, <1>2 DEF BodyReturn
<1> HIDE DEF below
<1>5. /\ Len(calls') = n
      /\ calls'[n] = calls[n] \/ calls'[n] = GoesOn(calls[n], "none", <<>>)
  <2>1. DOMAIN below = 1..n /\ n \in 1..n
    BY <1>2, <1>3, LenProperties
  <2>2. Len(calls') = n
    <3>1. calls' \in Seq(Frame) /\ Len(calls') = Len(calls) - 1
      BY BodyReturnStack
    <3>2. QED
      BY <1>1, <3>1
  <2>3. QED
    BY <1>3, <1>4, <2>1, <2>2
<1>6. Top'.op # "set" /\ Top.op # "set"
  BY <1>3, <1>5 DEF Top, GoesOn, BodyReturn, ClientRuns
<1>7. QED
  BY <1>6 DEF BeingNotified

\* The observers are effects, and the current one is among them.
LEMMA CurrentExists ==
  ASSUME TypeInv
  PROVE  /\ Elements(observers) \subseteq Effects
         /\ ObserverCurrent \in Elements(observers) \cup {Main}
<1>1. /\ observers \in Seq(Effects) /\ Len(observers) \in Nat
      /\ DOMAIN observers = 1..Len(observers)
  BY LenProperties DEF TypeInv, TypeOK
<1>2. Elements(observers) \subseteq Effects
  BY <1>1, ElementOfSeq DEF Elements
<1>3. observers # <<>> => Len(observers) \in DOMAIN observers
  BY <1>1, EmptySeq
<1>4. QED
  BY <1>2, <1>3 DEF ObserverCurrent, Elements

\* A body that starts is the only new observer, if the stack has room.
LEMMA PushExists ==
  ASSUME TypeInv, NEW e \in Effects
  PROVE  Elements(ObserverPush(e)) \subseteq Elements(observers) \cup {e}
<1>1. /\ observers \in Seq(Effects) /\ Len(observers) \in Nat
      /\ DOMAIN observers = 1..Len(observers)
  BY LenProperties DEF TypeInv, TypeOK
<1> DEFINE pushed == Append(observers, e)
<1>2. /\ DOMAIN pushed = 1..(Len(observers) + 1)
      /\ \A i \in 1..Len(observers) : pushed[i] = observers[i]
      /\ pushed[Len(observers) + 1] = e
  BY <1>1, AppendProperties, LenProperties
<1> HIDE DEF pushed
<1>3. \A i \in 1..(Len(observers) + 1) : i \in 1..Len(observers) \/ i = Len(observers) + 1
  BY <1>1
<1>4. Elements(pushed) \subseteq Elements(observers) \cup {e}
  BY <1>1, <1>2, <1>3 DEF Elements
<1>5. QED
  BY <1>4 DEF ObserverPush, pushed

\* A body that returns leaves no new observer.
LEMMA PopExists ==
  ASSUME TypeInv
  PROVE  Elements(ObserverPop) \subseteq Elements(observers)
<1>1. /\ observers \in Seq(Effects) /\ Len(observers) \in Nat
      /\ DOMAIN observers = 1..Len(observers)
  BY LenProperties DEF TypeInv, TypeOK
<1>2. PICK n : n = IF observers = <<>> THEN 0 ELSE Len(observers) - 1
  OBVIOUS
<1>3. n \in Nat /\ n <= Len(observers)
  <2>1. observers # <<>> => Len(observers) >= 1
    BY <1>1, EmptySeq
  <2>2. CASE observers = <<>>
    BY <1>1, <1>2, <2>2
  <2>3. CASE observers # <<>>
    <3>1. n = Len(observers) - 1
      BY <1>2, <2>3
    <3>2. QED
      BY <1>1, <2>1, <2>3, <3>1
  <2>4. QED
    BY <2>2, <2>3
<1>4. /\ DOMAIN ObserverPop = 1..n
      /\ \A i \in 1..n : ObserverPop[i] = observers[i] /\ i \in DOMAIN observers
  <2>1. /\ SubSeq(observers, 1, n) \in Seq(Effects) /\ Len(SubSeq(observers, 1, n)) = n
        /\ \A i \in 1..n : SubSeq(observers, 1, n)[i] = observers[i]
    BY <1>1, <1>3, SubSeqProperties
  <2>2. ObserverPop = SubSeq(observers, 1, n)
    BY <1>2 DEF ObserverPop
  <2>3. QED
    BY <1>1, <1>3, <2>1, <2>2, LenProperties
<1>5. QED
  BY <1>4 DEF Elements

\* A read subscribes an observer, which exists.
LEMMA SignalGetStarted ==
  ASSUME TypeInv, Started, NEW s \in Signals, SignalGet(s)
  PROVE  Started'
<1>1. /\ Subscribe(s, ObserverCurrent) /\ ObserverCurrent \in Effects \cup {Main}
      /\ ObserverCurrent \in Effects => status[ObserverCurrent] # "none"
      /\ UNCHANGED <<status, pending, observers, calls>>
  BY CurrentExists, ConstantsAssumption DEF SignalGet, Started
<1>2. PICK f : f = ObserverCurrent
  OBVIOUS
<1>3. subs \in [Signals -> Seq(Effects)] /\ Main \notin Effects
  BY ConstantsAssumption DEF TypeInv, TypeOK
<1>4. ASSUME NEW t \in Signals, NEW e \in Elements(subs'[t])
      PROVE  e \in Elements(subs[t]) \/ (e = f /\ e \in Effects)
  <2>1. CASE subs'[t] = subs[t]
    BY <1>4, <2>1
  <2>2. CASE f \in Effects /\ subs'[t] = Append(subs[t], f)
    <3>1. subs[t] \in Seq(Effects) /\ Len(subs[t]) \in Nat
      BY <1>3, LenProperties
    <3>2. /\ DOMAIN subs'[t] = 1..(Len(subs[t]) + 1) /\ DOMAIN subs[t] = 1..Len(subs[t])
          /\ \A i \in 1..Len(subs[t]) : subs'[t][i] = subs[t][i]
          /\ subs'[t][Len(subs[t]) + 1] = f
      BY <2>2, <3>1, AppendProperties, LenProperties
    <3>3. \A i \in 1..(Len(subs[t]) + 1) : i \in 1..Len(subs[t]) \/ i = Len(subs[t]) + 1
      BY <3>1
    <3>4. QED
      BY <1>4, <2>2, <3>2, <3>3 DEF Elements
  <2>3. QED
    BY <1>1, <1>2, <1>3, <2>1, <2>2 DEF Subscribe
<1>5. \A t \in Signals : \A e \in Elements(subs'[t]) : status'[e] # "none"
  BY <1>1, <1>2, <1>4 DEF Started
<1>6. \A e : BeingNotified(e)' <=> BeingNotified(e)
  BY <1>1 DEF BeingNotified, Top
<1>7. QED
  BY <1>1, <1>5, <1>6 DEF Started, Elements

\* The first body of a new effect.
LEMMA EffectCreateStarted ==
  ASSUME TypeInv, Started, NEW e \in Effects, EffectCreate(e)
  PROVE  Started'
<1>1. RunBody(e, "create", <<>>) /\ "create" \in Ops /\ <<>> \in Seq(Effects)
  BY EmptySeq DEF EffectCreate, Ops
<1>2. /\ \A f : ~BeingNotified(f)'
      /\ Len(calls') = Len(calls) + 1
      /\ \A i \in 2..Len(calls) : calls'[i].eff = calls[i].eff
      /\ calls'[Len(calls) + 1].eff = e
  BY <1>1, RunBodyNotifies
<1>3. /\ status \in [Effects -> {"none", "creating", "live", "disposed"}]
      /\ status' = [status EXCEPT ![e] = "creating"]
      /\ UNCHANGED <<subs, pending>>
      /\ subs \in [Signals -> Seq(Effects)]
  BY DEF TypeInv, TypeOK, EffectCreate, signalVars
<1>4. /\ \A f \in Effects : status[f] # "none" => status'[f] # "none"
      /\ status'[e] # "none"
  BY <1>3
<1>5. \A s \in Signals : Elements(subs[s]) \subseteq Effects
  BY <1>3, ElementOfSeq, LenProperties DEF Elements
<1>6. \A i \in 2..Len(calls) : calls[i].eff \in Effects
  BY DEF TypeInv, StackOK
<1>7. \A i \in 2..Len(calls') : i \in 2..Len(calls) \/ i = Len(calls) + 1
  BY <1>2, TypeFacts
<1>8. \A f \in Effects : pending'[f] \/ BeingNotified(f)' => status'[f] # "none"
  BY <1>2, <1>3, <1>4 DEF Started
<1>9. \A s \in Signals : \A f \in Elements(subs'[s]) : status'[f] # "none"
  BY <1>3, <1>4, <1>5 DEF Started
<1>10. \A i \in 2..Len(calls') : status'[calls'[i].eff] # "none"
  BY <1>2, <1>4, <1>6, <1>7 DEF Started
<1>11. \A f \in Elements(observers') : status'[f] # "none"
  <2>1. Elements(observers') \subseteq Elements(observers) \cup {e}
    BY <1>1, PushExists DEF RunBody
  <2>2. QED
    BY <1>4, <2>1, CurrentExists DEF Started
<1>12. QED
  BY <1>8, <1>9, <1>10, <1>11 DEF Started, Elements

\* A flush runs an effect that waited, so that it exists.
LEMMA FlushNextStarted ==
  ASSUME TypeInv, PendingExact, Started, FlushNext
  PROVE  /\ Started'
         /\ Head(Top.rest) \in Effects
         /\ pending[Head(Top.rest)]
<1> DEFINE e == Head(Top.rest)
<1>1. /\ Top.rest \in Seq(Effects) /\ Top.rest # <<>> /\ e \in Effects
      /\ Tail(Top.rest) \in Seq(Effects) /\ Top.op = "flush" /\ "flush" \in Ops
  BY TypeFacts DEF FlushNext
<1>2. pending[e]
  <2>1. Len(calls) \in 0..Len(calls) /\ Backlog(Len(calls)) = Top.rest
    BY <1>1, TypeFacts DEF Backlog, Top
  <2>2. e \in Elements(Top.rest)
    BY <1>1, HeadOrTail
  <2>3. QED
    BY <1>1, <2>1, <2>2 DEF PendingExact
<1>3. /\ pending' = [pending EXCEPT ![e] = FALSE] /\ UNCHANGED <<status, subs>>
      /\ \/ RunBody(e, "flush", Tail(Top.rest))
         \/ calls' = TopGoesOn("flush", Tail(Top.rest)) /\ observers' = observers
  BY DEF FlushNext, signalVars
<1> HIDE DEF e
<1>4. /\ \A f : ~BeingNotified(f)'
      /\ \A i \in 2..Len(calls') :
           \/ i \in 2..Len(calls) /\ calls'[i].eff = calls[i].eff
           \/ calls'[i].eff = e
      /\ Elements(observers') \subseteq Elements(observers) \cup {e}
  <2>1. CASE RunBody(e, "flush", Tail(Top.rest))
    <3>1. /\ \A f : ~BeingNotified(f)'
          /\ Len(calls') = Len(calls) + 1
          /\ \A i \in 2..Len(calls) : calls'[i].eff = calls[i].eff
          /\ calls'[Len(calls) + 1].eff = e
      BY <1>1, <2>1, RunBodyNotifies
    <3>2. Elements(observers') \subseteq Elements(observers) \cup {e}
      BY <1>1, <2>1, PushExists DEF RunBody
    <3>3. QED
      BY <3>1, <3>2, TypeFacts
  <2>2. CASE calls' = TopGoesOn("flush", Tail(Top.rest)) /\ observers' = observers
    <3>1. /\ \A f : BeingNotified(f)' <=> "flush" = "set" /\ f \in Elements(Tail(Top.rest))
          /\ Len(calls') = Len(calls)
          /\ \A i \in 2..Len(calls) : calls'[i].eff = calls[i].eff
      BY <1>1, <2>2, GoesOnNotifies
    <3>2. QED
      BY <2>2, <3>1
  <2>3. QED
    BY <1>3, <2>1, <2>2
<1>5. \A f \in Effects : pending'[f] => pending[f]
  BY <1>3 DEF TypeInv, TypeOK
<1>6. status[e] # "none"
  BY <1>1, <1>2 DEF Started
<1>7. Started'
  BY <1>3, <1>4, <1>5, <1>6 DEF Started, Elements
<1>8. QED
  BY <1>1, <1>2, <1>7 DEF e

\* Whatever step is taken, only what exists waits, is subscribed or runs.
LEMMA StartedStep ==
  ASSUME TypeInv, PendingExact, Started, [Next]_vars
  PROVE  Started'
<1> USE TypeFacts
<1>1. /\ subs \in [Signals -> Seq(Effects)] /\ pending \in [Effects -> BOOLEAN]
      /\ status \in [Effects -> {"none", "creating", "live", "disposed"}]
      /\ \A i \in 2..Len(calls) : calls[i].eff \in Effects
  BY DEF TypeInv, TypeOK, StackOK
<1>2. /\ \A s \in Signals : Elements(subs[s]) \subseteq Effects
      /\ Elements(observers) \subseteq Effects
  BY <1>1, CurrentExists, ElementOfSeq, LenProperties DEF Elements
<1>3. ASSUME UNCHANGED <<subs, calls, pending, observers>>,
             \A e \in Effects : status[e] # "none" => status'[e] # "none"
      PROVE  Started'
  <2>1. \A e : BeingNotified(e)' <=> BeingNotified(e)
    BY <1>3 DEF BeingNotified, Top
  <2>2. QED
    BY <1>1, <1>2, <1>3, <2>1, StaysStarted
<1>4. ASSUME NEW op \in Ops, NEW rest \in Seq(Effects), calls' = TopGoesOn(op, rest),
             op # "set", UNCHANGED <<subs, status, pending, observers>>
      PROVE  Started'
  BY <1>1, <1>2, <1>4, GoesOnNotifies, StaysStarted
<1>5. ASSUME NEW s \in Signals, NEW v \in Values, SignalCreate(s, v) PROVE Started'
  <2>1. subs'[s] = <<>> /\ \A t \in Signals : t # s => subs'[t] = subs[t]
    BY <1>1, <1>5 DEF SignalCreate
  <2>2. Elements(<<>>) = {}
    BY EmptySeq DEF Elements
  <2>3. \A t \in Signals : Elements(subs'[t]) \subseteq Elements(subs[t])
    BY <2>1, <2>2
  <2>4. UNCHANGED <<calls, pending, status, observers>>
    BY <1>5 DEF SignalCreate
  <2>5. \A e : BeingNotified(e)' <=> BeingNotified(e)
    BY <2>4 DEF BeingNotified, Top
  <2>6. QED
    BY <1>1, <1>2, <2>3, <2>4, <2>5, StaysStarted
<1>6. ASSUME NEW s \in Signals, NEW v \in Values, SignalSet(s, v) PROVE Started'
  <2>1. /\ calls' = TopGoesOn("set", subs[s]) /\ subs[s] \in Seq(Effects)
        /\ UNCHANGED <<subs, status, pending, observers>>
    BY <1>1, <1>6 DEF SignalSet
  <2>2. /\ \A e : BeingNotified(e)' <=> e \in Elements(subs[s])
        /\ Len(calls') = Len(calls)
        /\ \A i \in 2..Len(calls) : calls'[i].eff = calls[i].eff
    BY <2>1, GoesOnNotifies
  <2>3. QED
    BY <1>1, <1>2, <2>1, <2>2, StaysStarted
<1>7. ASSUME EffectSchedule PROVE Started'
  <2>1. /\ Top.rest \in Seq(Effects) /\ Top.rest # <<>> /\ Head(Top.rest) \in Effects
        /\ Tail(Top.rest) \in Seq(Effects) /\ Top.op = "set"
        /\ calls' = TopGoesOn("set", Tail(Top.rest))
        /\ \A e \in Effects : pending'[e] => pending[e] \/ e = Head(Top.rest)
        /\ UNCHANGED <<subs, status, observers>>
    BY <1>1, <1>7 DEF EffectSchedule, signalVars
  <2>2. Elements(Top.rest) = {Head(Top.rest)} \cup Elements(Tail(Top.rest))
    BY <2>1, HeadOrTail
  <2>3. /\ \A e : BeingNotified(e)' <=> e \in Elements(Tail(Top.rest))
        /\ Len(calls') = Len(calls)
        /\ \A i \in 2..Len(calls) : calls'[i].eff = calls[i].eff
    BY <2>1, GoesOnNotifies
  <2>4. \A e \in Effects : pending'[e] \/ BeingNotified(e)' => pending[e] \/ BeingNotified(e)
    BY <2>1, <2>2, <2>3 DEF BeingNotified
  <2>5. QED
    BY <1>1, <1>2, <2>1, <2>3, <2>4, StaysStarted
<1>8. ASSUME BatchEnd \/ FlushCall \/ NotifyDone \/ FlushSnapshot \/ FlushReturn
      PROVE  Started'
  <2>1. /\ FlushOp(batch) \in Ops \ {"set"} /\ FlushOp(batch') \in Ops \ {"set"}
        /\ "none" # "set" /\ "flush" # "set"
        /\ queue \in Seq(Effects)
    BY DEF FlushOp, TypeInv, TypeOK
  <2>2. UNCHANGED <<subs, status, pending, observers>>
    BY <1>8 DEF BatchEnd, FlushCall, NotifyDone, FlushSnapshot, FlushReturn, signalVars
  <2>3. QED
    BY <1>4, <1>8, <2>1, <2>2
    DEF BatchEnd, FlushCall, NotifyDone, FlushSnapshot, FlushReturn
<1>9. ASSUME NEW e \in Effects, EffectDispose(e) PROVE Started'
  BY <1>1, <1>3, <1>9 DEF EffectDispose, signalVars
<1>10. ASSUME BodyReturn PROVE Started'
  <2>1. /\ StackOK' /\ Len(calls') = Len(calls) - 1 /\ Len(calls) \in Nat
        /\ \A i \in 1..(Len(calls) - 2) : calls'[i] = calls[i]
        /\ calls'[Len(calls) - 1].eff = calls[Len(calls) - 1].eff
    BY <1>10, BodyReturnStack
  <2>2. /\ Depth > 0 /\ Depth = Len(calls) - 1
        /\ UNCHANGED <<subs, pending>> /\ Top.op = "none"
        /\ \/ status' = status
           \/ status' = [status EXCEPT ![Top.eff] = "live"]
    BY <1>10 DEF BodyReturn, ClientRuns, Depth, signalVars
  <2>3. \A e \in Effects : status[e] # "none" => status'[e] # "none"
    BY <1>1, <2>2
  <2>4. \A i \in 2..Len(calls') : i \in 2..Len(calls) /\ calls'[i].eff = calls[i].eff
    <3>1. \A i \in 2..Len(calls') : i \in 2..Len(calls) /\ (i \in 1..(Len(calls) - 2) \/ i = Len(calls) - 1)
      BY <2>1
    <3>2. QED
      BY <2>1, <3>1
  <2>5. \A e : ~BeingNotified(e)'
    BY <1>10, BodyReturnNotifies
  <2>6. Elements(observers') \subseteq Elements(observers)
    BY <1>10, PopExists DEF BodyReturn
  <2>7. QED
    BY <1>1, <1>2, <2>2, <2>3, <2>4, <2>5, <2>6, StaysStarted
<1>11. ASSUME Client PROVE Started'
  BY <1>3, <1>5, <1>6, <1>8, <1>9, <1>11, SignalGetStarted, EffectCreateStarted
  DEF Client, SignalDispose, BatchStart, signalVars
<1>12. ASSUME Library PROVE Started'
  BY <1>7, <1>8, <1>12, FlushNextStarted DEF Library
<1>13. ASSUME UNCHANGED vars PROVE Started'
  BY <1>3, <1>13 DEF vars, signalVars
<1>14. QED
  BY <1>10, <1>11, <1>12, <1>13 DEF Next

-----------------------------------------------------------------------------
(* What each kind of step is to a reader of the headers *)

\* The variables of the promise.
Living == {e \in Effects : Alive(e)}
Reads == [e \in Effects |-> {s \in allocated : seen[e][s] # NoValue}]
Owing == {e \in Effects : Alive(e) /\ (pending[e] \/ BeingNotified(e))}

\* The steps of the promise, without what it says of control.
Abstract ==
  \/ \E e \in Effects : Promise!Create(e) \/ Promise!Rerun(e) \/ Promise!Dispose(e)
  \/ \E e \in Effects, s \in Signals : Promise!Read(e, s)
  \/ \E s \in Signals : Promise!Write(s) \/ Promise!Forget(s)
  \/ Promise!Control

\* The steps of the promise, in terms of its variables.
LEMMA ToAbstract ==
  /\ Living' = Living /\ Reads' = Reads /\ Owing' = Owing => Abstract
  /\ \A e \in Effects, s \in Signals :
       /\ Reads' = [Reads EXCEPT ![e] = @ \cup {s}]
       /\ Living' = Living /\ Owing' = Owing
       => Abstract
  /\ \A s \in Signals, more \in SUBSET Living :
       /\ Owing' = Owing \cup {e \in Living : s \in Reads[e]} \cup more
       /\ Living' = Living /\ Reads' = Reads
       => Abstract
  /\ \A s \in Signals :
       /\ Reads' = [e \in Effects |-> Reads[e] \ {s}]
       /\ Living' = Living /\ Owing' = Owing
       => Abstract
  /\ \A e \in Effects :
       /\ e \notin Living /\ Living' = Living \cup {e}
       /\ Reads' = [Reads EXCEPT ![e] = {}] /\ Owing' = Owing
       => Abstract
  /\ \A e \in Effects :
       /\ e \in Living \cap Owing /\ Owing' = Owing \ {e}
       /\ Reads' = [Reads EXCEPT ![e] = {}] /\ Living' = Living
       => Abstract
  /\ \A e \in Effects :
       /\ e \in Living /\ Living' = Living \ {e}
       /\ Owing' = Owing \ {e} /\ Reads' = Reads
       => Abstract
<1>1. Living' = Living /\ Reads' = Reads /\ Owing' = Owing => Abstract
  BY DEF Abstract, Living, Reads, Owing, Promise!Control
<1>2. ASSUME NEW e \in Effects, NEW s \in Signals,
             Reads' = [Reads EXCEPT ![e] = @ \cup {s}], Living' = Living, Owing' = Owing
      PROVE  Abstract
  BY <1>2 DEF Abstract, Living, Reads, Owing, Promise!Read
<1>3. ASSUME NEW s \in Signals, NEW more \in SUBSET Living,
             Owing' = Owing \cup {e \in Living : s \in Reads[e]} \cup more,
             Living' = Living, Reads' = Reads
      PROVE  Abstract
  BY <1>3 DEF Abstract, Living, Reads, Owing, Promise!Write, Promise!Dependents
<1>4. ASSUME NEW s \in Signals, Reads' = [e \in Effects |-> Reads[e] \ {s}],
             Living' = Living, Owing' = Owing
      PROVE  Abstract
  BY <1>4 DEF Abstract, Living, Reads, Owing, Promise!Forget
<1>5. ASSUME NEW e \in Effects, e \notin Living, Living' = Living \cup {e},
             Reads' = [Reads EXCEPT ![e] = {}], Owing' = Owing
      PROVE  Abstract
  BY <1>5 DEF Abstract, Living, Reads, Owing, Promise!Create
<1>6. ASSUME NEW e \in Effects, e \in Living \cap Owing, Owing' = Owing \ {e},
             Reads' = [Reads EXCEPT ![e] = {}], Living' = Living
      PROVE  Abstract
  BY <1>6 DEF Abstract, Living, Reads, Owing, Promise!Rerun
<1>7. ASSUME NEW e \in Effects, e \in Living, Living' = Living \ {e},
             Owing' = Owing \ {e}, Reads' = Reads
      PROVE  Abstract
  BY <1>7 DEF Abstract, Living, Reads, Owing, Promise!Dispose
<1>8. QED
  BY <1>1, <1>2, <1>3, <1>4, <1>5, <1>6, <1>7

\* Creating a signal concerns nobody: nobody has read it.
LEMMA SignalCreateMaps ==
  ASSUME TypeInv, NEW s \in Signals, NEW v \in Values, SignalCreate(s, v)
  PROVE  Abstract
<1>1. /\ seen \in [Effects -> [Signals -> Values \cup {NoValue}]]
      /\ seen' = [e \in Effects |-> [seen[e] EXCEPT ![s] = NoValue]]
      /\ allocated' = allocated \cup {s} /\ s \notin allocated
      /\ allocated \subseteq Signals
      /\ UNCHANGED <<status, pending, calls>>
  BY DEF SignalCreate, TypeInv, TypeOK
<1>2. ASSUME NEW e \in Effects
      PROVE  {t \in allocated' : seen'[e][t] # NoValue} = {t \in allocated : seen[e][t] # NoValue}
  <2>1. /\ seen[e] \in [Signals -> Values \cup {NoValue}]
        /\ seen'[e] = [seen[e] EXCEPT ![s] = NoValue]
    BY <1>1
  <2>2. seen'[e][s] = NoValue /\ \A t \in Signals : t # s => seen'[e][t] = seen[e][t]
    BY <2>1
  <2>3. QED
    BY <1>1, <2>2
<1>3. Reads' = Reads
  BY <1>2 DEF Reads
<1>4. Living' = Living /\ Owing' = Owing
  BY <1>1 DEF Living, Owing, Alive, BeingNotified, Top
<1>5. QED
  BY <1>3, <1>4, ToAbstract

\* Disposing of a signal ends the dependencies on it.
LEMMA SignalDisposeMaps ==
  ASSUME TypeInv, NEW s \in Signals, SignalDispose(s)
  PROVE  Abstract
<1>1. Reads' = [e \in Effects |-> Reads[e] \ {s}]
  BY DEF Reads, SignalDispose
<1>2. Living' = Living /\ Owing' = Owing
  BY DEF Living, Owing, Alive, BeingNotified, Top, SignalDispose
<1>3. QED
  BY <1>1, <1>2, ToAbstract

\* A read in the body of an effect is one more dependency of it.
LEMMA SignalGetMaps ==
  ASSUME TypeInv, ValuesWritten, NEW s \in Signals, SignalGet(s)
  PROVE  Abstract
<1>1. /\ seen \in [Effects -> [Signals -> Values \cup {NoValue}]]
      /\ s \in allocated /\ allocated' = allocated /\ value[s] # NoValue
      /\ UNCHANGED <<status, pending, calls>>
      /\ Top.eff \in Effects \cup {Main}
  BY TypeFacts DEF SignalGet, TypeInv, TypeOK, ValuesWritten
<1>2. Living' = Living /\ Owing' = Owing
  BY <1>1 DEF Living, Owing, Alive, BeingNotified, Top
<1>3. CASE Top.eff = Main
  <2>1. Reads' = Reads
    BY <1>1, <1>3 DEF SignalGet, Reads
  <2>2. QED
    BY <1>2, <2>1, ToAbstract
<1>4. CASE Top.eff # Main
  <2>1. PICK f \in Effects : f = Top.eff
    BY <1>1, <1>4
  <2>2. seen' = [seen EXCEPT ![f] = [seen[f] EXCEPT ![s] = value[s]]]
    BY <1>4, <2>1 DEF SignalGet
  <2>3. /\ \A e \in Effects : e # f => seen'[e] = seen[e]
        /\ seen'[f] = [seen[f] EXCEPT ![s] = value[s]]
        /\ seen[f] \in [Signals -> Values \cup {NoValue}]
    BY <1>1, <2>2
  <2>4. \A t \in allocated : seen'[f][t] = IF t = s THEN value[s] ELSE seen[f][t]
    BY <1>1, <2>3 DEF TypeInv, TypeOK
  <2>5. {t \in allocated : seen'[f][t] # NoValue}
          = {t \in allocated : seen[f][t] # NoValue} \cup {s}
    BY <1>1, <2>4
  <2>6. Reads' = [Reads EXCEPT ![f] = @ \cup {s}]
    <3>1. /\ \A e \in Effects : e # f => Reads'[e] = Reads[e]
          /\ Reads'[f] = Reads[f] \cup {s}
      BY <1>1, <2>3, <2>5 DEF Reads
    <3>2. Reads = [e \in Effects |-> Reads[e]] /\ Reads' = [e \in Effects |-> Reads'[e]]
      BY DEF Reads
    <3> HIDE DEF Reads
    <3>3. QED
      BY <3>1, <3>2
  <2>7. QED
    BY <1>2, <2>6, ToAbstract
<1>5. QED
  BY <1>3, <1>4

\* A write makes its dependents, and who else is subscribed, owe a run.
LEMMA SignalSetMaps ==
  ASSUME TypeInv, ReadSubscribed, NEW s \in Signals, NEW v \in Values, SignalSet(s, v)
  PROVE  Abstract
<1>1. /\ calls' = TopGoesOn("set", subs[s]) /\ subs[s] \in Seq(Effects) /\ "set" \in Ops
      /\ s \in allocated /\ Top.op = "none"
      /\ UNCHANGED <<allocated, seen, status, pending>>
  BY TypeFacts DEF SignalSet, MayNest, ClientRuns, TypeInv, TypeOK
<1>2. \A e : BeingNotified(e)' <=> e \in Elements(subs[s])
  BY <1>1, GoesOnNotifies
<1>3. \A e : ~BeingNotified(e)
  BY <1>1 DEF BeingNotified
<1>4. Living' = Living /\ Reads' = Reads
  BY <1>1 DEF Living, Reads, Alive
<1> DEFINE more == {e \in Living : e \in Elements(subs[s])}
<1>5. {e \in Living : s \in Reads[e]} \subseteq more
  BY DEF Living, Reads, ReadSubscribed
<1>6. Owing' = Owing \cup more
  BY <1>1, <1>2, <1>3 DEF Owing, Living, Alive
<1>7. Owing' = Owing \cup {e \in Living : s \in Reads[e]} \cup more
  BY <1>5, <1>6
<1>8. more \in SUBSET Living
  OBVIOUS
<1> HIDE DEF more
<1>9. QED
  BY <1>4, <1>7, <1>8, ToAbstract

\* An effect that is scheduled keeps owing its run, as the queue has room.
LEMMA EffectScheduleMaps ==
  ASSUME EnoughRoom, TypeInv, PendingExact, EffectSchedule
  PROVE  Abstract
<1> DEFINE f == Head(Top.rest)
<1>1. /\ Top.rest \in Seq(Effects) /\ Top.rest # <<>> /\ f \in Effects
      /\ Tail(Top.rest) \in Seq(Effects) /\ Top.op = "set" /\ "set" \in Ops
      /\ calls' = TopGoesOn("set", Tail(Top.rest))
      /\ UNCHANGED <<allocated, seen, status>>
  BY TypeFacts DEF EffectSchedule, signalVars
<1>2. Elements(Top.rest) = {f} \cup Elements(Tail(Top.rest))
  BY <1>1, HeadOrTail
<1>3. /\ \A e : BeingNotified(e) <=> e = f \/ e \in Elements(Tail(Top.rest))
      /\ \A e : BeingNotified(e)' <=> e \in Elements(Tail(Top.rest))
  BY <1>1, <1>2, GoesOnNotifies DEF BeingNotified
<1>4. status[f] # "disposed" => pending'[f]
  <2>1. CASE pending[f]
    BY <1>1, <2>1 DEF EffectSchedule, TypeInv, TypeOK
  <2>2. CASE ~pending[f]
    BY <1>1, <2>2, QueueHasRoom DEF EffectSchedule, CanSchedule, TypeInv, TypeOK
  <2>3. QED
    BY <2>1, <2>2
<1>5. \A e \in Effects : e # f => (pending'[e] <=> pending[e])
  BY <1>1 DEF EffectSchedule, TypeInv, TypeOK
<1> HIDE DEF f
<1>6. Living' = Living /\ Reads' = Reads
  BY <1>1 DEF Living, Reads, Alive
<1>7. ASSUME NEW e \in Effects, Alive(e)
      PROVE  pending'[e] \/ BeingNotified(e)' <=> pending[e] \/ BeingNotified(e)
  <2>1. status[e] # "disposed"
    BY <1>7 DEF Alive
  <2>2. CASE e = f
    BY <1>3, <1>4, <2>1, <2>2
  <2>3. CASE e # f
    BY <1>3, <1>5, <2>3
  <2>4. QED
    BY <2>2, <2>3
<1>8. Owing' = Owing
  BY <1>1, <1>7 DEF Owing, Alive
<1>9. QED
  BY <1>6, <1>8, ToAbstract

\* A flush runs an effect that owes a run, or passes over a disposed one.
LEMMA FlushNextMaps ==
  ASSUME TypeInv, PendingExact, Started, FlushNext
  PROVE  Abstract
<1>1. PICK f \in Effects : f = Head(Top.rest) /\ pending[f] /\ status[f] # "none"
  BY FlushNextStarted DEF Started
<1>2. /\ pending' = [pending EXCEPT ![f] = FALSE] /\ UNCHANGED <<status, allocated>>
      /\ \A e : ~BeingNotified(e)
      /\ \/ status[f] # "disposed" /\ RunBody(f, "flush", Tail(Top.rest))
         \/ /\ status[f] = "disposed" /\ calls' = TopGoesOn("flush", Tail(Top.rest))
            /\ seen' = seen
      /\ Tail(Top.rest) \in Seq(Effects) /\ "flush" \in Ops
  BY <1>1, TypeFacts DEF FlushNext, signalVars, BeingNotified
<1>3. \A e : ~BeingNotified(e)'
  BY <1>2, RunBodyNotifies, GoesOnNotifies
<1>4. /\ pending \in [Effects -> BOOLEAN]
      /\ status \in [Effects -> {"none", "creating", "live", "disposed"}]
      /\ seen \in [Effects -> [Signals -> Values \cup {NoValue}]]
      /\ allocated \subseteq Signals
  BY DEF TypeInv, TypeOK
<1>5. Living' = Living
  BY <1>2 DEF Living, Alive
<1>6. CASE status[f] # "disposed"
  <2>1. f \in Living \cap Owing
    BY <1>1, <1>4, <1>6 DEF Living, Owing, Alive
  <2>2. \A e \in Effects : pending'[e] <=> pending[e] /\ e # f
    BY <1>2, <1>4
  <2>3. Owing' = Owing \ {f}
    BY <1>2, <1>3, <2>2 DEF Owing, Alive
  <2>4. seen' = [seen EXCEPT ![f] = NothingSeen]
    BY <1>2, <1>6 DEF RunBody
  <2>5. {s \in allocated : seen'[f][s] # NoValue} = {}
    BY <1>4, <2>4 DEF NothingSeen
  <2>6. Reads' = [Reads EXCEPT ![f] = {}]
    BY <1>2, <1>4, <2>4, <2>5 DEF Reads
  <2>7. QED
    BY <1>5, <2>1, <2>3, <2>6, ToAbstract
<1>7. CASE status[f] = "disposed"
  <2>1. Reads' = Reads
    BY <1>2, <1>7 DEF Reads
  <2>2. \A e \in Effects : Alive(e) => (pending'[e] <=> pending[e])
    BY <1>2, <1>4, <1>7 DEF Alive
  <2>3. Owing' = Owing
    BY <1>2, <1>3, <2>2 DEF Owing, Alive
  <2>4. QED
    BY <1>5, <2>1, <2>3, ToAbstract
<1>8. QED
  BY <1>6, <1>7

\* The first run of an effect, which owes none yet.
LEMMA EffectCreateMaps ==
  ASSUME TypeInv, Started, NEW f \in Effects, EffectCreate(f)
  PROVE  Abstract
<1>1. /\ status[f] = "none" /\ status' = [status EXCEPT ![f] = "creating"]
      /\ seen' = [seen EXCEPT ![f] = NothingSeen]
      /\ UNCHANGED <<allocated, pending>>
      /\ RunBody(f, "create", <<>>) /\ "create" \in Ops /\ <<>> \in Seq(Effects)
      /\ \A e : ~BeingNotified(e)
  BY EmptySeq DEF EffectCreate, RunBody, signalVars, MayNest, ClientRuns, BeingNotified, Ops
<1>2. /\ status \in [Effects -> {"none", "creating", "live", "disposed"}]
      /\ seen \in [Effects -> [Signals -> Values \cup {NoValue}]]
      /\ allocated \subseteq Signals
  BY DEF TypeInv, TypeOK
<1>3. \A e : ~BeingNotified(e)'
  BY <1>1, RunBodyNotifies
<1>4. \A e \in Effects : Alive(e)' <=> Alive(e) \/ e = f
  BY <1>1, <1>2 DEF Alive
<1>5. f \notin Living /\ Living' = Living \cup {f}
  BY <1>1, <1>4 DEF Living, Alive
<1>6. ~pending[f]
  BY <1>1 DEF Started
<1>7. Owing' = Owing
  BY <1>1, <1>3, <1>4, <1>6 DEF Owing
<1>8. {s \in allocated : seen'[f][s] # NoValue} = {}
  BY <1>1, <1>2 DEF NothingSeen
<1>9. Reads' = [Reads EXCEPT ![f] = {}]
  BY <1>1, <1>2, <1>8 DEF Reads
<1>10. QED
  BY <1>5, <1>7, <1>9, ToAbstract

\* A disposed effect owes nothing.
LEMMA EffectDisposeMaps ==
  ASSUME TypeInv, NEW f \in Effects, EffectDispose(f)
  PROVE  Abstract
<1>1. /\ status[f] = "live" /\ status' = [status EXCEPT ![f] = "disposed"]
      /\ UNCHANGED <<allocated, seen, pending, calls>>
  BY DEF EffectDispose, signalVars
<1>2. status \in [Effects -> {"none", "creating", "live", "disposed"}]
  BY DEF TypeInv, TypeOK
<1>3. \A e \in Effects : Alive(e)' <=> Alive(e) /\ e # f
  BY <1>1, <1>2 DEF Alive
<1>4. \A e : BeingNotified(e)' <=> BeingNotified(e)
  BY <1>1 DEF BeingNotified, Top
<1>5. f \in Living /\ Living' = Living \ {f}
  BY <1>1, <1>3 DEF Living, Alive
<1>6. Owing' = Owing \ {f}
  BY <1>1, <1>3, <1>4 DEF Owing
<1>7. Reads' = Reads
  BY <1>1 DEF Reads
<1>8. QED
  BY <1>5, <1>6, <1>7, ToAbstract

\* A body that returns ends the creation of its effect, if anything.
LEMMA BodyReturnMaps ==
  ASSUME TypeInv, CreatingOK, BodyReturn
  PROVE  Abstract
<1>1. /\ Len(calls) \in Nat /\ Len(calls) >= 2 /\ Top = calls[Len(calls)]
      /\ Depth = Len(calls) - 1 /\ calls \in Seq(Frame)
  BY TypeFacts DEF BodyReturn, Top, Depth
<1>2. SubSeq(calls, 1, Len(calls) - 1)[Len(calls) - 1] = calls[Len(calls) - 1]
  BY <1>1, SubSeqProperties
<1>3. calls[Len(calls) - 1].op = "create" => status[Top.eff] = "creating"
  <2>1. Len(calls) - 1 \in 1..(Len(calls) - 1) /\ (Len(calls) - 1) + 1 = Len(calls)
    BY <1>1
  <2>2. QED
    BY <1>1, <2>1 DEF CreatingOK
<1>4. \/ status' = status
      \/ status[Top.eff] = "creating" /\ status' = [status EXCEPT ![Top.eff] = "live"]
  BY <1>1, <1>2, <1>3 DEF BodyReturn
<1>5. \A e \in Effects : Alive(e)' <=> Alive(e)
  BY <1>4 DEF Alive, TypeInv, TypeOK
<1>6. UNCHANGED <<allocated, seen, pending>>
  BY DEF BodyReturn, signalVars
<1>7. \A e : BeingNotified(e)' <=> BeingNotified(e)
  BY BodyReturnNotifies
<1>8. Living' = Living /\ Reads' = Reads /\ Owing' = Owing
  BY <1>5, <1>6, <1>7 DEF Living, Reads, Owing
<1>9. QED
  BY <1>8, ToAbstract

\* Every step is a step of the promise, or none.
LEMMA StepMaps ==
  ASSUME EnoughRoom, TypeInv, PendingExact, FreshInv, StartedInv, QuietIsFresh', [Next]_vars
  PROVE  [Promise!Next]_(Promise!vars)
<1> USE DEF FreshInv, StartedInv
<1>1. ASSUME NEW op \in Ops, NEW rest \in Seq(Effects), calls' = TopGoesOn(op, rest),
             op # "set", \A e : ~BeingNotified(e),
             UNCHANGED <<allocated, seen, status, pending>>
      PROVE  Abstract
  <2>1. \A e : ~BeingNotified(e)'
    BY <1>1, GoesOnNotifies
  <2>2. Living' = Living /\ Reads' = Reads /\ Owing' = Owing
    BY <1>1, <2>1 DEF Living, Reads, Owing, Alive
  <2>3. QED
    BY <2>2, ToAbstract
<1>2. ASSUME BatchEnd \/ FlushCall \/ NotifyDone \/ FlushSnapshot \/ FlushReturn
      PROVE  Abstract
  <2>1. /\ FlushOp(batch) \in Ops \ {"set"} /\ FlushOp(batch') \in Ops \ {"set"}
        /\ "none" \in Ops \ {"set"} /\ "flush" \in Ops \ {"set"}
        /\ queue \in Seq(Effects) /\ <<>> \in Seq(Effects)
    BY TypeFacts DEF FlushOp, TypeInv, TypeOK
  <2>2. UNCHANGED <<allocated, seen, status, pending>>
    BY <1>2 DEF BatchEnd, FlushCall, NotifyDone, FlushSnapshot, FlushReturn, signalVars
  <2>3. \A e : ~BeingNotified(e)
    <3>1. Top.op = "set" => Top.rest = <<>>
      BY <1>2 DEF BatchEnd, FlushCall, NotifyDone, FlushSnapshot, FlushReturn,
                  MayNest, ClientRuns
    <3>2. Elements(<<>>) = {}
      BY EmptySeq DEF Elements
    <3>3. QED
      BY <3>1, <3>2 DEF BeingNotified
  <2>4. QED
    BY <1>1, <1>2, <2>1, <2>2, <2>3
    DEF BatchEnd, FlushCall, NotifyDone, FlushSnapshot, FlushReturn
<1>3. ASSUME UNCHANGED <<allocated, seen, status, pending, calls>> PROVE Abstract
  <2>1. Living' = Living /\ Reads' = Reads /\ Owing' = Owing
    BY <1>3 DEF Living, Reads, Owing, Alive, BeingNotified, Top
  <2>2. QED
    BY <2>1, ToAbstract
<1>4. ASSUME Client PROVE Abstract
  BY <1>2, <1>3, <1>4, SignalCreateMaps, SignalSetMaps, SignalGetMaps, SignalDisposeMaps,
     EffectCreateMaps, EffectDisposeMaps
  DEF Client, BatchStart, signalVars
<1>5. ASSUME Library PROVE Abstract
  BY <1>2, <1>5, EffectScheduleMaps, FlushNextMaps DEF Library
<1>6. Abstract
  BY <1>3, <1>4, <1>5, BodyReturnMaps DEF Next, vars, signalVars
<1>7. Quiet' => Owing' = {}
  <2>1. Quiet' => \A e \in Effects : ~pending'[e] /\ ~BeingNotified(e)'
    BY DEF QuietIsFresh, Quiet, ClientRuns, BeingNotified
  <2>2. QED
    BY <2>1 DEF Owing
<1>8. Quiet' \in BOOLEAN
  BY DEF Quiet
<1>9. QED
  BY <1>6, <1>7, <1>8 DEF Promise!Next, Abstract, Owing

\* Nothing exists at first.
LEMMA InitMaps == Init => Promise!Init
<1> SUFFICES ASSUME Init PROVE Promise!Init
  OBVIOUS
<1>1. Living = {} /\ Owing = {}
  BY DEF Init, Living, Owing, Alive
<1>2. Reads = [e \in Effects |-> {}]
  BY DEF Init, Reads
<1>3. Quiet
  BY DEF Init, Quiet, Depth, ClientRuns, Top
<1>4. QED
  BY <1>1, <1>2, <1>3 DEF Promise!Init, Living, Owing, Reads

\* Nothing is written, pending or subscribed at first.
LEMMA InitStarted == Init => StartedInv
<1> SUFFICES ASSUME Init PROVE StartedInv
  OBVIOUS
<1>1. Elements(<<>>) = {}
  BY EmptySeq DEF Elements
<1>2. \A e : ~BeingNotified(e)
  BY DEF Init, BeingNotified, Top
<1>3. QED
  BY <1>1, <1>2 DEF Init, StartedInv, ValuesWritten, Started

\* Refinement: solite_signal.c and solite_effect.c, with their queue, nested
\* flushes, subscriber lists and observer stack, do what the two headers
\* promise.  A write reaches every dependent of the signal, an effect re-runs
\* only when it owes a run, and at the end none owes one.
THEOREM PromiseIsKept ==
  ASSUME EnoughRoom
  PROVE  Spec => KeepsPromise
<1>1. TypeInv /\ ObserversMatch /\ PendingExact /\ FreshInv /\ [Next]_vars => FreshInv'
  BY FreshStep
<1>2. Spec => []ObserversMatch
  BY ObserversTrackBodies DEF EnoughRoom
<1>3. Spec => []FreshInv
  BY <1>1, <1>2, InitFresh, StackShape, PendingIsExact, PTL DEF Spec
<1>4. FreshInv => CreatingOK
  BY DEF FreshInv
<1>5. TypeInv /\ PendingExact /\ StartedInv /\ [Next]_vars => StartedInv'
  BY StartedStep, ValuesStep DEF StartedInv
<1>6. Spec => []StartedInv
  BY <1>5, InitStarted, StackShape, PendingIsExact, PTL DEF Spec
<1>7. Spec => []QuietIsFresh
  BY QuietStateIsFresh
<1>8. /\ TypeInv /\ PendingExact /\ FreshInv /\ StartedInv /\ QuietIsFresh' /\ [Next]_vars
        => [Promise!Next]_(Promise!vars)
  BY StepMaps
<1>9. QED
  BY <1>3, <1>6, <1>7, <1>8, InitMaps, StackShape, PendingIsExact, PTL
  DEF Spec, KeepsPromise, Promise!Spec

-----------------------------------------------------------------------------
(* Batches *)

\* A flush goes on only while no batch is open: the one on top now, the others
\* when the body they run has closed the batches it opened.
FlushesOutside ==
  \A k \in 1..Len(calls) :
    calls[k].op = "flush" =>
      /\ k = Len(calls) => batch = 0
      /\ k < Len(calls) => calls[k + 1].base = 0

\* The top frame goes on, with a flush only outside a batch.
LEMMA GoesOnOutside ==
  ASSUME TypeInv, FlushesOutside, NEW op \in Ops, NEW rest \in Seq(Effects),
         calls' = TopGoesOn(op, rest), op = "flush" => batch' = 0
  PROVE  FlushesOutside'
<1>1. /\ Len(calls') = Len(calls) /\ Len(calls) \in Nat /\ Len(calls) >= 1
      /\ \A i \in 1..(Len(calls) - 1) : calls'[i] = calls[i]
      /\ calls'[Len(calls)] = GoesOn(Top, op, rest)
  BY TypeFacts, TopGoesOnFrame
<1>2. \A i \in 1..Len(calls) : calls'[i].base = calls[i].base
  BY <1>1 DEF GoesOn, Top
<1>3. \A k \in 1..Len(calls) : k \in 1..(Len(calls) - 1) \/ k = Len(calls)
  BY <1>1
<1>4. calls'[Len(calls)].op = op
  BY <1>1 DEF GoesOn
<1>5. \A k \in 1..(Len(calls) - 1) : calls'[k].op = "flush" => calls'[k + 1].base = 0
  BY <1>1, <1>2 DEF FlushesOutside
<1>6. QED
  BY <1>1, <1>3, <1>4, <1>5, SMTT(30) DEF FlushesOutside

\* A body runs on top of a flush only outside a batch.
LEMMA RunBodyOutside ==
  ASSUME TypeInv, FlushesOutside, NEW op \in Ops, NEW rest \in Seq(Effects),
         NEW e \in Effects, RunBody(e, op, rest),
         op = "flush" => Top.op = "flush"
  PROVE  FlushesOutside'
<1>1. /\ Len(calls') = Len(calls) + 1 /\ Len(calls) \in Nat /\ Len(calls) >= 1
      /\ \A i \in 1..(Len(calls) - 1) : calls'[i] = calls[i]
      /\ calls'[Len(calls)] = GoesOn(Top, op, rest)
      /\ calls'[Len(calls) + 1] = Enter(e)
  BY TypeFacts, RunBodyFrame DEF TypeInv
<1>2. /\ \A i \in 1..Len(calls) : calls'[i].base = calls[i].base
      /\ calls'[Len(calls) + 1].base = batch
  BY <1>1 DEF GoesOn, Top, Enter
<1>3. \A k \in 1..(Len(calls) + 1) :
        k \in 1..(Len(calls) - 1) \/ k = Len(calls) \/ k = Len(calls) + 1
  BY <1>1
<1>4. /\ calls'[Len(calls)].op = "flush" => calls'[Len(calls) + 1].base = 0
      /\ calls'[Len(calls) + 1].op # "flush"
  BY <1>1, <1>2 DEF GoesOn, Enter, FlushesOutside, Top
<1>5. \A k \in 1..(Len(calls) - 1) : calls'[k].op = "flush" => calls'[k + 1].base = 0
  BY <1>1, <1>2 DEF FlushesOutside
<1>6. QED
  BY <1>1, <1>3, <1>4, <1>5 DEF FlushesOutside

\* A body that returns has closed the batches it opened.
LEMMA BodyReturnOutside ==
  ASSUME BalancedBatches, TypeInv, FlushesOutside, BodyReturn
  PROVE  FlushesOutside'
<1>1. PICK n : n = Len(calls) - 1
  OBVIOUS
<1>2. /\ n \in Nat /\ n >= 1 /\ calls \in Seq(Frame) /\ Depth = n /\ Len(calls) = n + 1
      /\ batch = calls[n + 1].base /\ batch' = batch
  BY <1>1, TypeFacts DEF BodyReturn, Depth, Top
<1> DEFINE below == SubSeq(calls, 1, n)
<1>3. /\ below \in Seq(Frame) /\ Len(below) = n
      /\ \A i \in 1..n : below[i] = calls[i]
  BY <1>2, SubSeqProperties
<1>4. \/ calls' = below
      \/ calls' = [below EXCEPT ![n] = GoesOn(below[n], "none", <<>>)]
  BY <1>1, <1>2 DEF BodyReturn
<1> HIDE DEF below
<1>5. Len(calls') = n
  BY <1>1, BodyReturnStack
<1>6. \A i \in 1..n : calls'[i] = calls[i] \/ calls'[i] = GoesOn(calls[i], "none", <<>>)
  <2>1. DOMAIN below = 1..n
    BY <1>2, <1>3, LenProperties
  <2>2. QED
    BY <1>3, <1>4, <2>1
<1>7. ASSUME NEW i \in 1..n
      PROVE  /\ calls'[i].base = calls[i].base
             /\ calls'[i].op = "flush" => calls[i].op = "flush"
  <2>1. CASE calls'[i] = calls[i]
    BY <2>1
  <2>2. CASE calls'[i] = GoesOn(calls[i], "none", <<>>)
    BY <2>2 DEF GoesOn
  <2>3. QED
    BY <1>6, <2>1, <2>2
<1>8. \A i \in 1..n : calls[i].op = "flush" => calls[i + 1].base = 0
  BY <1>2 DEF FlushesOutside
<1>9. \A i \in 1..n : i < n => i + 1 \in 1..n
  BY <1>2
<1>10. QED
  BY <1>2, <1>5, <1>7, <1>8, <1>9 DEF FlushesOutside

\* No step lets a flush go on inside a batch.
LEMMA OutsideStep ==
  ASSUME BalancedBatches, TypeInv, FlushesOutside, [Next]_vars
  PROVE  FlushesOutside'
<1> USE TypeFacts
<1>1. ASSUME UNCHANGED <<calls, batch>> PROVE FlushesOutside'
  BY <1>1 DEF FlushesOutside
<1>2. ASSUME NEW s \in Signals, NEW v \in Values, SignalSet(s, v) PROVE FlushesOutside'
  BY <1>2, GoesOnOutside DEF SignalSet, TypeInv, TypeOK
<1>3. ASSUME BatchStart PROVE FlushesOutside'
  BY <1>3 DEF BatchStart, MayNest, ClientRuns, Top, FlushesOutside
<1>4. ASSUME BatchEnd \/ FlushCall \/ NotifyDone PROVE FlushesOutside'
  <2>1. /\ batch' \in Nat /\ calls' = TopGoesOn(FlushOp(batch'), <<>>)
        /\ FlushOp(batch') \in Ops
    BY <1>4 DEF BatchEnd, FlushCall, NotifyDone, TypeInv, TypeOK, FlushOp
  <2>2. FlushOp(batch') = "flush" => batch' = 0
    BY <2>1 DEF FlushOp
  <2>3. QED
    BY <2>1, <2>2, GoesOnOutside
<1>5. ASSUME EffectSchedule PROVE FlushesOutside'
  BY <1>5, GoesOnOutside DEF EffectSchedule
<1>6. ASSUME FlushSnapshot \/ FlushReturn PROVE FlushesOutside'
  <2>1. batch' = 0 /\ queue \in Seq(Effects)
    BY <1>6, SMTT(30) DEF FlushSnapshot, FlushReturn, FlushesOutside, Top, TypeInv, TypeOK
  <2>2. QED
    BY <1>6, <2>1, GoesOnOutside DEF FlushSnapshot, FlushReturn
<1>7. ASSUME FlushNext PROVE FlushesOutside'
  <2>1. /\ Head(Top.rest) \in Effects /\ Tail(Top.rest) \in Seq(Effects)
        /\ batch' = 0 /\ Top.op = "flush"
    BY <1>7 DEF FlushNext, FlushesOutside, Top
  <2>2. CASE RunBody(Head(Top.rest), "flush", Tail(Top.rest))
    BY <2>1, <2>2, RunBodyOutside
  <2>3. CASE calls' = TopGoesOn("flush", Tail(Top.rest))
    BY <2>1, <2>3, GoesOnOutside
  <2>4. QED
    BY <1>7, <2>2, <2>3 DEF FlushNext
<1>8. ASSUME NEW e \in Effects, EffectCreate(e) PROVE FlushesOutside'
  BY <1>8, RunBodyOutside DEF EffectCreate
<1>9. ASSUME Client PROVE FlushesOutside'
  BY <1>1, <1>2, <1>3, <1>4, <1>8, <1>9
  DEF Client, SignalCreate, SignalGet, SignalDispose, EffectDispose
<1>10. ASSUME Library PROVE FlushesOutside'
  BY <1>4, <1>5, <1>6, <1>7, <1>10 DEF Library
<1>11. QED
  BY <1>1, <1>9, <1>10, BodyReturnOutside DEF Next, vars

\* No flush is on the stack at first.
LEMMA InitOutside == Init => FlushesOutside
  BY DEF Init, FlushesOutside

\* Where every body closes the batches it opens, a flush takes no snapshot and
\* runs no effect while a batch is open, also not a flush further down the C
\* stack that goes on after the body it ran.
THEOREM BatchesDefer ==
  ASSUME BalancedBatches
  PROVE  Spec => BatchDefers
<1>1. TypeInv /\ FlushesOutside /\ [Next]_vars => FlushesOutside'
  BY OutsideStep
<1>2. ASSUME TypeInv, FlushesOutside
      PROVE  batch > 0 => ~FlushSnapshot /\ ~FlushNext
  <2>1. Top.op = "flush" => batch = 0
    BY <1>2, TypeFacts DEF FlushesOutside, Top
  <2>2. QED
    BY <2>1 DEF FlushSnapshot, FlushNext
<1>3. TypeInv /\ FlushesOutside
        => [batch > 0 => ~FlushSnapshot /\ ~FlushNext]_vars
  BY <1>2
<1>4. QED
  BY <1>1, <1>3, InitOutside, StackShape, PTL DEF Spec, BatchDefers
=============================================================================
