------------------------- MODULE SoliteClientProofs --------------------------
(***************************************************************************)
(* Theorems about what is built on the reactive core: memos, the frame     *)
(* loop with its click handlers, and the windows of <Show> and <For>.      *)
(* Each of them only takes steps of the core, so that what is proved of    *)
(* SoliteReactive holds of it too.                                         *)
(***************************************************************************)
EXTENDS SoliteMemo, SoliteApp, SolitePromiseProofs

-----------------------------------------------------------------------------
(* Memos *)

\* A memo or its user takes steps of the reactive core.
LEMMA MemoIsReactive == [MemoNext]_memoVars => [Next]_vars
<1>1. ReactiveStep => Next
  BY MemosAssumption DEF ReactiveStep, Next, Client
<1>2. MemoRecompute => Next
  BY DEF MemoRecompute, Next
<1>3. \A m \in Memos : MemoGet(m) => UNCHANGED vars
  BY DEF MemoGet
<1>4. QED
  BY <1>1, <1>2, <1>3 DEF MemoNext, memoVars

\* Effect e is running somewhere on the C stack.
Running(e) == \E i \in 2..Len(calls) : calls[i].eff = e

\* The cache of a memo whose function is not running is what it read last.
CacheIsSeen ==
  /\ cached \in [Memos -> [Signals -> Values \cup {NoValue}]]
  /\ \A m \in Memos : Running(m) \/ cached[m] = seen[m]

\* Which bodies run after the top frame has gone on.
LEMMA GoesOnRuns ==
  ASSUME TypeInv, NEW op \in Ops, NEW rest \in Seq(Effects),
         calls' = TopGoesOn(op, rest)
  PROVE  \A e : Running(e)' <=> Running(e)
<1>1. /\ Len(calls') = Len(calls) /\ Len(calls) \in Nat
      /\ \A i \in 1..(Len(calls) - 1) : calls'[i] = calls[i]
      /\ calls'[Len(calls)] = GoesOn(Top, op, rest)
  BY TypeFacts, TopGoesOnFrame
<1>2. \A i \in 2..Len(calls) : calls'[i].eff = calls[i].eff
  BY <1>1 DEF GoesOn, Top
<1>3. QED
  BY <1>1, <1>2 DEF Running

\* Which bodies run after one more has started.
LEMMA RunBodyRuns ==
  ASSUME TypeInv, NEW op \in Ops, NEW rest \in Seq(Effects), NEW f \in Effects,
         RunBody(f, op, rest)
  PROVE  \A e : Running(e)' <=> Running(e) \/ e = f
<1>1. /\ Len(calls') = Len(calls) + 1 /\ Len(calls) \in Nat /\ Len(calls) >= 1
      /\ \A i \in 1..(Len(calls) - 1) : calls'[i] = calls[i]
      /\ calls'[Len(calls)] = GoesOn(Top, op, rest)
      /\ calls'[Len(calls) + 1] = Enter(f)
  BY TypeFacts, RunBodyFrame DEF TypeInv
<1>2. /\ \A i \in 2..Len(calls) : calls'[i].eff = calls[i].eff
      /\ calls'[Len(calls) + 1].eff = f
  BY <1>1 DEF GoesOn, Top, Enter
<1>3. /\ Len(calls) + 1 \in 2..Len(calls')
      /\ \A i \in 2..Len(calls') : i \in 2..Len(calls) \/ i = Len(calls) + 1
      /\ \A i \in 2..Len(calls) : i \in 2..Len(calls')
  BY <1>1
<1>4. QED
  BY <1>2, <1>3 DEF Running

\* Which bodies run after the one on top has returned.
LEMMA BodyReturnRuns ==
  ASSUME TypeInv, BodyReturn
  PROVE  \A e : Running(e) => Running(e)' \/ e = Top.eff
<1>1. /\ Len(calls') = Len(calls) - 1 /\ Len(calls) \in Nat
      /\ \A i \in 1..(Len(calls) - 2) : calls'[i] = calls[i]
      /\ calls'[Len(calls) - 1].eff = calls[Len(calls) - 1].eff
  BY BodyReturnStack
<1>2. \A i \in 2..Len(calls) :
        i = Len(calls) \/ (i \in 2..Len(calls') /\ calls'[i].eff = calls[i].eff)
  <2>1. \A i \in 2..Len(calls) : \/ i = Len(calls)
                                 \/ i = Len(calls) - 1 /\ i \in 2..Len(calls')
                                 \/ i \in 1..(Len(calls) - 2) /\ i \in 2..Len(calls')
    BY <1>1
  <2>2. QED
    BY <1>1, <2>1
<1>3. QED
  BY <1>2 DEF Running, Top

\* Nobody reads on behalf of a memo that is not running.
LEMMA SeenOffStack ==
  ASSUME TypeInv, [Next]_vars, NEW e \in Effects, ~Running(e)', ~(BodyReturn /\ Top.eff = e)
  PROVE  /\ ~Running(e)
         /\ seen'[e] = WithoutNewSignals(seen[e])
<1> USE TypeFacts
<1>1. /\ seen \in [Effects -> [Signals -> Values \cup {NoValue}]]
      /\ seen[e] \in [Signals -> Values \cup {NoValue}]
  BY DEF TypeInv, TypeOK
<1> DEFINE goal == ~Running(e) /\ seen'[e] = WithoutNewSignals(seen[e])
<1>2. ASSUME allocated' \subseteq allocated PROVE WithoutNewSignals(seen[e]) = seen[e]
  BY <1>1, <1>2 DEF WithoutNewSignals
<1>3. ASSUME UNCHANGED <<calls, seen>>, allocated' \subseteq allocated PROVE goal
  BY <1>2, <1>3 DEF Running
<1>4. ASSUME NEW op \in Ops, NEW rest \in Seq(Effects), calls' = TopGoesOn(op, rest),
             UNCHANGED <<seen, allocated>>
      PROVE  goal
  BY <1>2, <1>4, GoesOnRuns
<1>5. ASSUME NEW op \in Ops, NEW rest \in Seq(Effects), NEW f \in Effects,
             RunBody(f, op, rest), UNCHANGED allocated
      PROVE  goal
  <2>1. ~Running(e) /\ e # f
    BY <1>5, RunBodyRuns
  <2>2. seen'[e] = seen[e]
    BY <1>1, <1>5, <2>1 DEF RunBody
  <2>3. QED
    BY <1>2, <1>5, <2>1, <2>2
<1>6. ASSUME NEW s \in Signals, NEW v \in Values, SignalCreate(s, v) PROVE goal
  <2>1. seen'[e] = [seen[e] EXCEPT ![s] = NoValue] /\ calls' = calls
    BY <1>6 DEF SignalCreate
  <2>2. \A t \in Signals : t \in allocated' \ allocated <=> t = s
    BY <1>6 DEF SignalCreate
  <2>3. QED
    BY <1>1, <2>1, <2>2 DEF WithoutNewSignals, Running
<1>7. ASSUME NEW s \in Signals, SignalGet(s) PROVE goal
  <2>1. calls' = calls /\ allocated' = allocated /\ ~Running(e)
    BY <1>7 DEF SignalGet, Running
  <2>2. Top.eff # e
    <3>1. Top.eff = e => Len(calls) \in 2..Len(calls)
      BY ConstantsAssumption DEF Top, TypeInv, StackOK
    <3>2. QED
      BY <2>1, <3>1 DEF Running, Top
  <2>3. seen'[e] = seen[e]
    BY <1>1, <1>7, <2>2 DEF SignalGet
  <2>4. QED
    BY <1>2, <2>1, <2>3
<1>8. ASSUME NEW s \in Signals, NEW v \in Values, SignalSet(s, v) PROVE goal
  BY <1>4, <1>8 DEF SignalSet, TypeInv, TypeOK
<1>9. ASSUME BatchEnd \/ FlushCall \/ NotifyDone PROVE goal
  <2>1. FlushOp(batch) \in Ops /\ FlushOp(batch') \in Ops
    BY DEF FlushOp
  <2>2. QED
    BY <1>4, <1>9, <2>1 DEF BatchEnd, FlushCall, NotifyDone, signalVars
<1>10. ASSUME EffectSchedule \/ FlushSnapshot \/ FlushReturn PROVE goal
  BY <1>4, <1>10 DEF EffectSchedule, FlushSnapshot, FlushReturn, signalVars, TypeInv, TypeOK
<1>11. ASSUME FlushNext PROVE goal
  <2>1. Head(Top.rest) \in Effects /\ Tail(Top.rest) \in Seq(Effects) /\ UNCHANGED allocated
    BY <1>11 DEF FlushNext, signalVars
  <2>2. QED
    BY <1>4, <1>5, <1>11, <2>1 DEF FlushNext
<1>12. ASSUME NEW f \in Effects, EffectCreate(f) PROVE goal
  BY <1>5, <1>12 DEF EffectCreate, signalVars
<1>13. ASSUME BodyReturn PROVE goal
  <2>1. Top.eff # e /\ UNCHANGED <<seen, allocated>>
    BY <1>13 DEF BodyReturn, signalVars
  <2>2. ~Running(e)
    BY <1>13, <2>1, BodyReturnRuns
  <2>3. QED
    BY <1>2, <2>1, <2>2
<1>14. ASSUME Client PROVE goal
  BY <1>3, <1>6, <1>7, <1>8, <1>9, <1>12, <1>14
  DEF Client, SignalDispose, EffectDispose, BatchStart, signalVars
<1>15. ASSUME Library PROVE goal
  BY <1>9, <1>10, <1>11, <1>15 DEF Library
<1>16. QED
  BY <1>3, <1>13, <1>14, <1>15 DEF Next, vars, signalVars

\* Every step of a program with memos keeps the caches.
LEMMA CacheStep ==
  ASSUME TypeInv, CacheIsSeen, [MemoNext]_memoVars
  PROVE  CacheIsSeen'
<1> USE TypeFacts
<1>1. [Next]_vars
  BY MemoIsReactive
<1>2. CASE ReactiveStep
  <2>1. cached' = [m \in Memos |-> WithoutNewSignals(cached[m])]
    BY <1>2 DEF ReactiveStep
  <2>2. cached' \in [Memos -> [Signals -> Values \cup {NoValue}]]
    BY <2>1 DEF CacheIsSeen, WithoutNewSignals
  <2>3. ASSUME NEW m \in Memos PROVE Running(m)' \/ cached'[m] = seen'[m]
    <3>1. ~(BodyReturn /\ Top.eff = m)
      <4> SUFFICES ASSUME BodyReturn, Top.eff = m PROVE FALSE
        OBVIOUS
      <4>1. Len(calls') = Len(calls) - 1 /\ Top.op = "none"
        BY BodyReturnStack DEF BodyReturn, ClientRuns
      <4>2. calls' # calls /\ ~Library
        BY <4>1 DEF Library, EffectSchedule, NotifyDone, FlushSnapshot, FlushNext, FlushReturn
      <4>3. QED
        BY <1>2, <4>2 DEF ReactiveStep, SignalGet
    <3>2. CASE ~Running(m)'
      <4>1. ~Running(m) /\ seen'[m] = WithoutNewSignals(seen[m])
        BY <1>1, <3>1, <3>2, MemosAssumption, SeenOffStack
      <4>2. cached[m] = seen[m]
        BY <4>1 DEF CacheIsSeen
      <4>3. QED
        BY <2>1, <4>1, <4>2
    <3>3. QED
      BY <3>2
  <2>4. QED
    BY <2>2, <2>3 DEF CacheIsSeen, Running
<1>3. CASE MemoRecompute
  <2>1. /\ BodyReturn /\ Top.eff \in Memos /\ seen' = seen
        /\ cached' = [cached EXCEPT ![Top.eff] = seen[Top.eff]]
    BY <1>3 DEF MemoRecompute, BodyReturn
  <2>2. seen \in [Effects -> [Signals -> Values \cup {NoValue}]]
    BY DEF TypeInv, TypeOK
  <2>3. cached' \in [Memos -> [Signals -> Values \cup {NoValue}]]
    BY <2>1, <2>2, MemosAssumption DEF CacheIsSeen
  <2>4. ASSUME NEW m \in Memos PROVE Running(m)' \/ cached'[m] = seen'[m]
    <3>1. CASE m = Top.eff
      BY <2>1, <3>1 DEF CacheIsSeen
    <3>2. CASE m # Top.eff
      BY <2>1, <3>2, BodyReturnRuns DEF CacheIsSeen
    <3>3. QED
      BY <3>1, <3>2
  <2>5. QED
    BY <2>3, <2>4 DEF CacheIsSeen, Running
<1>4. CASE UNCHANGED <<vars, cached>>
  BY <1>4 DEF CacheIsSeen, Running, vars
<1>5. QED
  BY <1>2, <1>3, <1>4 DEF MemoNext, MemoGet, memoVars

\* Nothing has been read or cached at first.
LEMMA InitCache == MemoInit => CacheIsSeen
<1> SUFFICES ASSUME MemoInit PROVE CacheIsSeen
  OBVIOUS
<1>1. seen = [e \in Effects |-> NothingSeen] /\ cached = [m \in Memos |-> NothingSeen]
  BY DEF MemoInit, Init
<1>2. NothingSeen \in [Signals -> Values \cup {NoValue}]
  BY DEF NothingSeen
<1>3. QED
  BY <1>1, <1>2, MemosAssumption DEF CacheIsSeen

\* In the main program no body runs: the caches are what the memos read last,
\* and that is what the signals hold.
LEMMA QuietCaches ==
  ASSUME TypeInv, CacheIsSeen, QuietIsFresh
  PROVE  MemoIsFresh
<1> SUFFICES ASSUME Quiet, NEW m \in Memos, NEW s \in Signals
             PROVE  ~StaleCache(m, s)
  BY DEF MemoIsFresh
<1>1. ~Running(m)
  <2>1. Len(calls) \in Nat /\ Len(calls) - 1 = 0
    BY TypeFacts DEF Quiet, Depth
  <2>2. Len(calls) = 1 /\ ~\E i \in 2..1 : TRUE
    BY <2>1
  <2>3. QED
    BY <2>2 DEF Running
<1>2. cached[m] = seen[m]
  BY <1>1 DEF CacheIsSeen
<1>3. status[m] = "live" => ~Stale(m, s)
  BY MemosAssumption DEF QuietIsFresh, Alive
<1>4. QED
  BY <1>2, <1>3 DEF StaleCache, Stale

\* A behaviour of a program with memos is one of the reactive core.
LEMMA MemoSpecIsReactive == MemoSpec => Spec
<1>1. MemoInit => Init
  BY DEF MemoInit
<1>2. QED
  BY <1>1, MemoIsReactive, PTL DEF MemoSpec, Spec

\* With room in the fixed arrays and memory for the subscriber lists, what a
\* live memo caches is computed from current values whenever the main program
\* has control outside a batch, although solite_memo_get never recomputes.
THEOREM MemosAreFresh ==
  ASSUME EnoughRoom
  PROVE  MemoSpec => []MemoIsFresh
<1>1. TypeInv /\ CacheIsSeen /\ [MemoNext]_memoVars => CacheIsSeen'
  BY CacheStep
<1>2. TypeInv /\ CacheIsSeen /\ QuietIsFresh => MemoIsFresh
  BY QuietCaches
<1>3. Spec => []QuietIsFresh
  BY QuietStateIsFresh
<1>4. QED
  BY <1>1, <1>2, <1>3, InitCache, MemoSpecIsReactive, StackShape, PTL DEF MemoSpec

-----------------------------------------------------------------------------
(* The frame loop *)

\* The control flow only takes steps of the reactive core, or none of it.
LEMMA FlowIsReactive ==
  ASSUME ClientStep \/ NodeStep \/ FlowLibrary \/ BodyEnds
  PROVE  [Next]_vars
<1>1. FlowClient => Client
  BY FlowAssumption DEF FlowClient, Client, Nodes
<1>2. ASSUME NEW n \in Nodes, NodeDispose(n) PROVE Client
  BY <1>2, FlowAssumption DEF NodeDispose, Client, Nodes
<1>3. ASSUME NEW n \in Nodes, ShowReads(n) \/ ForReads(n) PROVE Client
  BY <1>3, FlowAssumption DEF ShowReads, ForReads, Client
<1>4. ASSUME NEW n \in Nodes, ShowRendered(n) \/ ForRendered(n) PROVE UNCHANGED vars
  BY <1>4 DEF ShowRendered, ForRendered
<1>5. Shows \subseteq Nodes /\ Fors \subseteq Nodes
  BY DEF Nodes
<1>6. QED
  BY <1>1, <1>2, <1>3, <1>4, <1>5
  DEF ClientStep, NodeStep, FlowLibrary, BodyEnds, FlowReturn, Next

\* So does a program on the console.
LEMMA AppIsReactive == [AppNext]_appVars => [Next]_vars
<1>1. Below => [Next]_vars
  BY FlowIsReactive DEF Below
<1>2. FrameFlush => [Next]_vars
  BY DEF FrameFlush, Next, Client
<1>3. /\ Mount \/ RequestUnmount \/ HandlerReturn => UNCHANGED vars
      /\ FrameUpdate \/ PollButton \/ PollDone \/ FrameDrawn => UNCHANGED vars
      /\ \A b \in Buttons : SetClickHandler(b) => UNCHANGED vars
  BY DEF Mount, RequestUnmount, HandlerReturn, FrameUpdate, PollButton, PollDone,
         FrameDrawn, SetClickHandler, flowVars
<1>4. QED
  BY <1>1, <1>2, <1>3 DEF AppNext, FrameStep, appVars, flowVars

\* The types of the state of the frame loop.
LoopOK ==
  /\ loop \in {"out", "flush", "update", "poll", "handler", "draw"}
  /\ poll \in Nat \ {0}
  /\ registered \in Seq(Buttons)

\* The buttons polled so far in this frame are not clicked, also the one whose
\* handler is running, which is registered; the loop has control while it
\* polls and draws.
PolledInv ==
  /\ LoopOK
  /\ loop \in {"poll", "draw"} => LoopRuns
  /\ loop = "poll" =>
       \A i \in 1..Len(registered) : i < poll => registered[i] \notin clicked
  /\ loop = "handler" =>
       /\ poll <= Len(registered)
       /\ \A i \in 1..Len(registered) : i <= poll => registered[i] \notin clicked
  /\ ClicksHandled

\* While the loop has control, nothing below it takes a step.
LEMMA LoopHasControl ==
  ASSUME TypeInv, LoopRuns, ~AppMayCall
  PROVE  ~Below
<1>1. Top.eff = Main /\ Top.op = "none" /\ ~(Depth > 0)
  <2>1. Depth = 0 /\ Top.op = "none" /\ Len(calls) \in Nat /\ Depth = Len(calls) - 1
    BY TypeFacts DEF LoopRuns, ClientRuns, Depth
  <2>2. Len(calls) = 1
    BY <2>1
  <2>3. QED
    BY <2>1, <2>2 DEF Top, TypeInv, StackOK
<1>2. Main \notin Nodes
  BY ConstantsAssumption, FlowAssumption DEF Nodes
<1>3. ~NodeStep
  BY <1>1, <1>2
  DEF NodeStep, ShowReads, ForReads, ShowRendered, ForRendered, RenderReturns, Nodes
<1>4. ~Library /\ ~BodyReturn
  BY <1>1 DEF Library, EffectSchedule, NotifyDone, FlushSnapshot, FlushNext, FlushReturn,
              BodyReturn
<1>5. QED
  BY <1>3, <1>4 DEF Below, FlowLibrary, BodyEnds, FlowReturn

\* A handler that is registered is polled after the one that is running.
LEMMA SetClickHandlerPolled ==
  ASSUME TypeInv, PolledInv, NEW b \in Buttons, SetClickHandler(b)
  PROVE  PolledInv'
<1>1. /\ registered' = Append(registered, b) /\ registered \in Seq(Buttons)
      /\ UNCHANGED <<vars, loop, poll, clicked>>
      /\ loop \notin {"poll", "draw"}
  BY DEF SetClickHandler, PolledInv, LoopOK, LoopRuns, AppMayCall, flowVars
<1>2. /\ Len(registered) \in Nat /\ Len(registered') = Len(registered) + 1
      /\ registered' \in Seq(Buttons)
      /\ \A i \in 1..Len(registered) : registered'[i] = registered[i]
  BY <1>1, AppendProperties, LenProperties
<1>3. loop = "handler" =>
        /\ poll <= Len(registered')
        /\ \A i \in 1..Len(registered') : i <= poll => registered'[i] \notin clicked
  <2> SUFFICES ASSUME loop = "handler"
               PROVE  /\ poll <= Len(registered')
                      /\ \A i \in 1..Len(registered') : i <= poll => registered'[i] \notin clicked
    OBVIOUS
  <2>1. poll <= Len(registered) /\ poll \in Nat
    BY DEF PolledInv, LoopOK
  <2>2. \A i \in 1..Len(registered') : i <= poll => i \in 1..Len(registered)
    BY <1>2, <2>1
  <2>3. QED
    BY <1>2, <2>1, <2>2 DEF PolledInv
<1>4. QED
  BY <1>1, <1>2, <1>3 DEF PolledInv, LoopOK, ClicksHandled

\* Every step of a program on the console keeps what has been polled.
LEMMA PolledStep ==
  ASSUME TypeInv, PolledInv, [AppNext]_appVars
  PROVE  PolledInv'
<1>1. /\ loop \in {"out", "flush", "update", "poll", "handler", "draw"}
      /\ poll \in Nat \ {0} /\ registered \in Seq(Buttons) /\ Len(registered) \in Nat
      /\ DOMAIN registered = 1..Len(registered)
  BY LenProperties DEF PolledInv, LoopOK
<1>2. ASSUME UNCHANGED loopVars, loop \notin {"poll", "draw"} \/ UNCHANGED calls
      PROVE  PolledInv'
  BY <1>2 DEF PolledInv, LoopOK, loopVars, LoopRuns, Depth, ClientRuns, Top,
              ClicksHandled, Elements
<1>3. ASSUME Below PROVE PolledInv'
  <2>1. loop \notin {"poll", "draw"}
    BY <1>3, LoopHasControl DEF PolledInv, AppMayCall, LoopRuns
  <2>2. QED
    BY <1>2, <1>3, <2>1 DEF Below
<1>4. ASSUME Mount \/ FrameFlush PROVE PolledInv'
  <2>1. loop' \in {"flush", "update"} /\ UNCHANGED <<poll, registered>>
    BY <1>4 DEF Mount, FrameFlush
  <2>2. QED
    BY <1>1, <2>1 DEF PolledInv, LoopOK, ClicksHandled
<1>5. ASSUME RequestUnmount PROVE PolledInv'
  <2>1. UNCHANGED <<calls, loop, poll, registered, clicked>>
    BY <1>5 DEF RequestUnmount, flowVars, vars
  <2>2. QED
    BY <2>1 DEF PolledInv, LoopOK, LoopRuns, Depth, ClientRuns, Top, ClicksHandled, Elements
<1>6. ASSUME FrameUpdate PROVE PolledInv'
  <2>1. loop' = "poll" /\ poll' = 1 /\ LoopRuns /\ UNCHANGED <<calls, registered>>
    BY <1>6 DEF FrameUpdate, flowVars, vars
  <2>2. LoopRuns'
    BY <2>1 DEF LoopRuns, Depth, ClientRuns, Top
  <2>3. QED
    BY <1>1, <2>1, <2>2 DEF PolledInv, LoopOK, ClicksHandled
<1>7. ASSUME PollButton PROVE PolledInv'
  <2>1. /\ loop = "poll" /\ poll <= Len(registered) /\ LoopRuns
        /\ UNCHANGED <<calls, registered>>
        /\ \A i \in 1..Len(registered) : i < poll => registered[i] \notin clicked
    BY <1>7 DEF PollButton, flowVars, vars, PolledInv
  <2>2. LoopRuns'
    BY <2>1 DEF LoopRuns, Depth, ClientRuns, Top
  <2>3. CASE registered[poll] \in clicked
    <3>1. loop' = "handler" /\ poll' = poll /\ clicked' = clicked \ {registered[poll]}
      BY <1>7, <2>3 DEF PollButton
    <3>2. \A i \in 1..Len(registered) : i <= poll => i < poll \/ i = poll
      BY <1>1
    <3>3. \A i \in 1..Len(registered) : i <= poll => registered[i] \notin clicked'
      BY <2>1, <3>1, <3>2
    <3>4. QED
      BY <1>1, <2>1, <3>1, <3>3 DEF PolledInv, LoopOK, ClicksHandled
  <2>4. CASE registered[poll] \notin clicked
    <3>1. loop' = "poll" /\ poll' = poll + 1 /\ clicked' = clicked
      BY <1>7, <2>1, <2>4 DEF PollButton
    <3>2. \A i \in 1..Len(registered) : i < poll + 1 => i < poll \/ i = poll
      BY <1>1
    <3>3. QED
      BY <1>1, <2>1, <2>2, <2>4, <3>1, <3>2 DEF PolledInv, LoopOK, ClicksHandled
  <2>5. QED
    BY <2>3, <2>4
<1>8. ASSUME HandlerReturn PROVE PolledInv'
  <2>1. /\ loop = "handler" /\ loop' = "poll" /\ poll' = poll + 1 /\ LoopRuns
        /\ UNCHANGED <<calls, registered, clicked>>
        /\ \A i \in 1..Len(registered) : i <= poll => registered[i] \notin clicked
    BY <1>8 DEF HandlerReturn, flowVars, vars, PolledInv
  <2>2. LoopRuns'
    BY <2>1 DEF LoopRuns, Depth, ClientRuns, Top
  <2>3. \A i \in 1..Len(registered) : i < poll + 1 => i <= poll
    BY <1>1
  <2>4. QED
    BY <1>1, <2>1, <2>2, <2>3 DEF PolledInv, LoopOK, ClicksHandled
<1>9. ASSUME PollDone PROVE PolledInv'
  <2>1. /\ loop = "poll" /\ poll > Len(registered) /\ loop' = "draw" /\ LoopRuns
        /\ UNCHANGED <<calls, poll, registered, clicked>>
        /\ \A i \in 1..Len(registered) : i < poll => registered[i] \notin clicked
    BY <1>9 DEF PollDone, flowVars, vars, PolledInv
  <2>2. LoopRuns'
    BY <2>1 DEF LoopRuns, Depth, ClientRuns, Top
  <2>3. \A i \in 1..Len(registered) : registered[i] \notin clicked
    BY <1>1, <2>1
  <2>4. clicked \cap Elements(registered) = {}
    BY <1>1, <2>3 DEF Elements
  <2>5. ClicksHandled'
    BY <2>1, <2>4 DEF ClicksHandled, Elements
  <2>6. QED
    BY <1>1, <2>1, <2>2, <2>5 DEF PolledInv, LoopOK
<1>10. ASSUME FrameDrawn PROVE PolledInv'
  <2>1. loop' \in {"out", "flush"} /\ UNCHANGED <<poll, registered>>
    BY <1>10 DEF FrameDrawn
  <2>2. QED
    BY <1>1, <2>1 DEF PolledInv, LoopOK, ClicksHandled
<1>11. ASSUME UNCHANGED appVars PROVE PolledInv'
  BY <1>2, <1>11 DEF appVars, flowVars, vars
<1>12. QED
  BY <1>3, <1>4, <1>5, <1>6, <1>7, <1>8, <1>9, <1>10, <1>11, SetClickHandlerPolled
  DEF AppNext, FrameStep

\* The loop is not running at first.
LEMMA InitPolled == AppInit => PolledInv
  BY EmptySeq DEF AppInit, PolledInv, LoopOK, ClicksHandled

\* A behaviour of a program on the console is one of the reactive core.
LEMMA AppSpecIsReactive == AppSpec => Spec
<1>1. AppInit => Init
  BY DEF AppInit, FlowInit
<1>2. QED
  BY <1>1, AppIsReactive, PTL DEF AppSpec, Spec

\* No frame is drawn before every click has been handled, whatever handlers
\* register while solite_bridge_poll_button_clicks goes through its table.
THEOREM EveryClickIsHandled == AppSpec => []ClicksHandled
<1>1. TypeInv /\ PolledInv /\ [AppNext]_appVars => PolledInv'
  BY PolledStep
<1>2. PolledInv => ClicksHandled
  BY DEF PolledInv
<1>3. QED
  BY <1>1, <1>2, InitPolled, AppSpecIsReactive, StackShape, PTL DEF AppSpec

-----------------------------------------------------------------------------
(* The control flow: the nodes on the stack and their locals *)

\* Where the body of each frame is.
Spots == [at : {"start", "render", "done"}, item : Nat, total : Nat]

LocalsOK == locals \in Seq(Spots) /\ Len(locals) = Len(calls)

\* Only a node on top of the stack is not in its render function.
NodesRender ==
  \A i \in 1..Len(calls) :
    calls[i].eff \in Nodes => locals[i].at = "render" \/ (i = Len(calls) /\ ClientRuns)

\* The body of a node does not run again inside itself.
NodesOnce ==
  \A i, j \in 1..Len(calls) :
    calls[i].eff \in Nodes /\ calls[i].eff = calls[j].eff => i = j

\* Nothing is going to run a node that is running.
NodesIdle ==
  \A n \in Nodes : Running(n) => Alive(n) /\ ~pending[n] /\ ~BeingNotified(n)

NodeStackInv == LocalsOK /\ NodesRender /\ NodesOnce /\ NodesIdle

\* Node n is in its render function, with locals l.
InRender(n, l) ==
  l.at = "render" /\ \E i \in 1..Len(calls) : calls[i].eff = n /\ locals[i] = l

\* The frame on top and its locals.
LEMMA LocalFacts ==
  ASSUME TypeInv, LocalsOK
  PROVE  /\ Len(calls) \in Nat /\ Len(calls) >= 1
         /\ DOMAIN locals = 1..Len(calls)
         /\ \A i \in 1..Len(calls) : locals[i] \in Spots
         /\ Local = locals[Len(calls)] /\ Local \in Spots
         /\ Top = calls[Len(calls)]
         /\ calls[1].eff \notin Nodes
<1>1. /\ Len(calls) \in Nat /\ Len(calls) >= 1 /\ calls[1].eff = Main
      /\ locals \in Seq(Spots) /\ Len(locals) = Len(calls)
  BY TypeFacts DEF TypeInv, StackOK, LocalsOK
<1>2. DOMAIN locals = 1..Len(calls) /\ \A i \in 1..Len(calls) : locals[i] \in Spots
  BY <1>1, LenProperties, ElementOfSeq
<1>3. Main \notin Nodes
  BY ConstantsAssumption, FlowAssumption DEF Nodes
<1>4. QED
  BY <1>1, <1>2, <1>3 DEF Local, Top

LEMMA SpotTypes ==
  ASSUME NEW at \in {"start", "render", "done"}, NEW i \in Nat, NEW k \in Nat
  PROVE  /\ At(at, i, k) \in Spots
         /\ At(at, i, k).at = at /\ At(at, i, k).item = i /\ At(at, i, k).total = k
BY DEF At, Spots

\* A node that renders runs.
LEMMA RenderingRuns ==
  ASSUME TypeInv, LocalsOK, NEW i \in 1..Len(calls), calls[i].eff \in Nodes
  PROVE  i \in 2..Len(calls) /\ Running(calls[i].eff)
<1>1. i # 1 /\ Len(calls) \in Nat
  BY LocalFacts
<1>2. i \in 2..Len(calls)
  BY <1>1
<1>3. QED
  BY <1>2 DEF Running

-----------------------------------------------------------------------------
(* What a step does to the stack and the locals *)

\* The same bodies run.
Stays ==
  /\ Len(calls') = Len(calls) /\ locals' = locals
  /\ \A i \in 1..Len(calls) : calls'[i].eff = calls[i].eff

\* The body of f starts on top.
Starts(f) ==
  /\ Len(calls') = Len(calls) + 1 /\ locals' = Append(locals, At("start", 0, 0))
  /\ \A i \in 1..Len(calls) : calls'[i].eff = calls[i].eff
  /\ calls'[Len(calls) + 1].eff = f
  /\ ClientRuns'

\* The body on top returns.
Ends ==
  /\ Len(calls') = Len(calls) - 1 /\ locals' = SubSeq(locals, 1, Len(calls) - 1)
  /\ \A i \in 1..(Len(calls) - 1) : calls'[i].eff = calls[i].eff

LEMMA SameCalls ==
  ASSUME TypeInv, LocalsOK, calls' = calls, LocalsFollow
  PROVE  Stays
<1>1. Len(calls) \in Nat /\ locals \in Seq(Spots) /\ Len(locals) = Len(calls)
  BY LocalFacts DEF LocalsOK
<1>2. locals' = SubSeq(locals, 1, Len(locals))
  BY <1>1 DEF LocalsFollow
<1>3. SubSeq(locals, 1, Len(locals)) = locals
  <2>1. /\ SubSeq(locals, 1, Len(locals)) \in Seq(Spots)
        /\ Len(SubSeq(locals, 1, Len(locals))) = Len(locals)
        /\ \A i \in 1..Len(locals) : SubSeq(locals, 1, Len(locals))[i] = locals[i]
    BY <1>1, SubSeqProperties
  <2>2. QED
    BY <1>1, <2>1, SeqEqual
<1>4. QED
  BY <1>1, <1>2, <1>3 DEF Stays

LEMMA GoesOnStays ==
  ASSUME TypeInv, LocalsOK, NEW op \in Ops, NEW rest \in Seq(Effects),
         calls' = TopGoesOn(op, rest), LocalsFollow
  PROVE  Stays
<1>1. /\ Len(calls') = Len(calls) /\ Len(calls) \in Nat
      /\ \A i \in 1..(Len(calls) - 1) : calls'[i] = calls[i]
      /\ calls'[Len(calls)] = GoesOn(Top, op, rest)
  BY TypeFacts, TopGoesOnFrame
<1>2. \A i \in 1..Len(calls) : calls'[i].eff = calls[i].eff
  BY <1>1 DEF GoesOn, Top
<1>3. locals \in Seq(Spots) /\ Len(locals) = Len(calls)
  BY DEF LocalsOK
<1>4. locals' = SubSeq(locals, 1, Len(locals))
  BY <1>1, <1>3 DEF LocalsFollow
<1>5. SubSeq(locals, 1, Len(locals)) = locals
  <2>1. /\ SubSeq(locals, 1, Len(locals)) \in Seq(Spots)
        /\ Len(SubSeq(locals, 1, Len(locals))) = Len(locals)
        /\ \A i \in 1..Len(locals) : SubSeq(locals, 1, Len(locals))[i] = locals[i]
    BY <1>1, <1>3, SubSeqProperties
  <2>2. QED
    BY <1>1, <1>3, <2>1, SeqEqual
<1>6. QED
  BY <1>1, <1>2, <1>4, <1>5 DEF Stays

LEMMA RunBodyStarts ==
  ASSUME TypeInv, LocalsOK, NEW op \in Ops, NEW rest \in Seq(Effects), NEW f \in Effects,
         RunBody(f, op, rest), LocalsFollow
  PROVE  Starts(f)
<1>1. /\ Len(calls') = Len(calls) + 1 /\ Len(calls) \in Nat /\ Len(calls) >= 1
      /\ \A i \in 1..(Len(calls) - 1) : calls'[i] = calls[i]
      /\ calls'[Len(calls)] = GoesOn(Top, op, rest)
      /\ calls'[Len(calls) + 1] = Enter(f)
  BY TypeFacts, RunBodyFrame DEF TypeInv
<1>2. \A i \in 1..Len(calls) : calls'[i].eff = calls[i].eff
  BY <1>1 DEF GoesOn, Top
<1>3. locals' = Append(locals, At("start", 0, 0))
  BY <1>1 DEF LocalsFollow
<1>4. ClientRuns'
  BY <1>1 DEF ClientRuns, Top, Enter
<1>5. QED
  BY <1>1, <1>2, <1>3, <1>4 DEF Starts, Enter

LEMMA BodyReturnEnds ==
  ASSUME TypeInv, LocalsOK, BodyReturn, LocalsFollow
  PROVE  Ends
<1>1. /\ Len(calls') = Len(calls) - 1 /\ Len(calls) \in Nat
      /\ \A i \in 1..(Len(calls) - 2) : calls'[i] = calls[i]
      /\ calls'[Len(calls) - 1].eff = calls[Len(calls) - 1].eff
  BY BodyReturnStack
<1>2. \A i \in 1..(Len(calls) - 1) : i \in 1..(Len(calls) - 2) \/ i = Len(calls) - 1
  BY <1>1
<1>3. locals' = SubSeq(locals, 1, Len(calls) - 1)
  BY <1>1 DEF LocalsFollow
<1>4. QED
  BY <1>1, <1>2, <1>3 DEF Ends

\* The stack of nodes stays as it is when the same bodies run.
LEMMA StaysKeeps ==
  ASSUME TypeInv, LocalsOK, NodesRender, NodesOnce, Stays,
         Top.eff \in Nodes => Local.at = "render" \/ ClientRuns'
  PROVE  /\ LocalsOK' /\ NodesRender' /\ NodesOnce'
         /\ \A n, l : InRender(n, l)' <=> InRender(n, l)
         /\ \A e : Running(e)' <=> Running(e)
<1>1. /\ Len(calls) \in Nat /\ Len(calls) >= 1
      /\ Local = locals[Len(calls)] /\ Top = calls[Len(calls)]
      /\ Len(calls') = Len(calls) /\ locals' = locals
      /\ \A i \in 1..Len(calls) : calls'[i].eff = calls[i].eff
  BY LocalFacts DEF Stays
<1>2. \A i \in 2..Len(calls) : calls'[i].eff = calls[i].eff
  BY <1>1
<1>3. LocalsOK' /\ NodesOnce'
  BY <1>1 DEF LocalsOK, NodesOnce
<1>4. NodesRender'
  BY <1>1 DEF NodesRender
<1>5. \A n, l : InRender(n, l)' <=> InRender(n, l)
  BY <1>1 DEF InRender
<1>6. \A e : Running(e)' <=> Running(e)
  BY <1>1, <1>2 DEF Running
<1>7. QED
  BY <1>3, <1>4, <1>5, <1>6

\* A body that starts is in front of its render function, and another one
\* starts only inside render functions.
LEMMA StartsKeeps ==
  ASSUME TypeInv, LocalsOK, NodesRender, NodesOnce, NEW f \in Effects, Starts(f),
         Top.eff \in Nodes => Local.at = "render",
         f \in Nodes => ~Running(f)
  PROVE  /\ LocalsOK' /\ NodesRender' /\ NodesOnce'
         /\ \A n, l : InRender(n, l)' <=> InRender(n, l)
         /\ \A e : Running(e)' <=> Running(e) \/ e = f
<1> DEFINE spot == At("start", 0, 0)
<1>1. /\ Len(calls) \in Nat /\ Len(calls) >= 1 /\ locals \in Seq(Spots)
      /\ Local = locals[Len(calls)] /\ Top = calls[Len(calls)] /\ Len(locals) = Len(calls)
      /\ Len(calls') = Len(calls) + 1 /\ locals' = Append(locals, spot)
      /\ \A i \in 1..Len(calls) : calls'[i].eff = calls[i].eff
      /\ calls'[Len(calls) + 1].eff = f
  BY LocalFacts DEF Starts, LocalsOK
<1>2. spot \in Spots /\ spot.at = "start"
  BY DEF At, Spots
<1> HIDE DEF spot
<1>3. /\ locals' \in Seq(Spots) /\ Len(locals') = Len(calls) + 1
      /\ \A i \in 1..Len(calls) : locals'[i] = locals[i]
      /\ locals'[Len(calls) + 1] = spot
  BY <1>1, <1>2, AppendProperties
<1>4. /\ \A i \in 1..Len(calls') : i \in 1..Len(calls) \/ i = Len(calls) + 1
      /\ \A i \in 1..Len(calls) : i \in 1..Len(calls')
      /\ Len(calls) + 1 \in 2..Len(calls')
      /\ \A i \in 2..Len(calls') : i \in 2..Len(calls) \/ i = Len(calls) + 1
      /\ \A i \in 2..Len(calls) : i \in 2..Len(calls') /\ calls'[i].eff = calls[i].eff
  BY <1>1
<1>5. LocalsOK'
  BY <1>1, <1>3 DEF LocalsOK
<1>6. NodesRender'
  BY <1>1, <1>3, <1>4 DEF NodesRender, Starts
<1>7. NodesOnce'
  <2>1. \A i \in 1..Len(calls) : calls[i].eff \in Nodes => calls[i].eff # f
    BY RenderingRuns
  <2>2. QED
    BY <1>1, <1>4, <2>1 DEF NodesOnce
<1>8. \A n, l : InRender(n, l)' <=> InRender(n, l)
  BY <1>1, <1>2, <1>3, <1>4 DEF InRender
<1>9. \A e : Running(e)' <=> Running(e) \/ e = f
  BY <1>1, <1>4 DEF Running
<1>10. QED
  BY <1>5, <1>6, <1>7, <1>8, <1>9

\* The body of a node that returns was not in its render function.
LEMMA EndsKeeps ==
  ASSUME TypeInv, LocalsOK, NodesRender, NodesOnce, Ends, Depth > 0,
         Top.eff \in Nodes => Local.at # "render"
  PROVE  /\ LocalsOK' /\ NodesRender' /\ NodesOnce'
         /\ \A n \in Nodes : \A l : InRender(n, l)' <=> InRender(n, l)
         /\ \A e : Running(e)' => Running(e)
<1>1. PICK k : k = Len(calls) - 1
  OBVIOUS
<1>2. /\ k \in Nat /\ k >= 1 /\ locals \in Seq(Spots)
      /\ Local = locals[k + 1] /\ Top = calls[k + 1]
      /\ Len(locals) = k + 1 /\ Len(calls) = k + 1
      /\ Len(calls') = k /\ locals' = SubSeq(locals, 1, k)
      /\ \A i \in 1..k : calls'[i].eff = calls[i].eff
  BY <1>1, LocalFacts DEF Ends, LocalsOK, Depth
<1>3. /\ locals' \in Seq(Spots) /\ Len(locals') = k
      /\ \A i \in 1..k : locals'[i] = locals[i]
  BY <1>2, SubSeqProperties
<1>4. /\ \A i \in 1..(k + 1) : i \in 1..k \/ i = k + 1
      /\ \A i \in 1..k : i \in 1..(k + 1) /\ i # k + 1
      /\ \A i \in 2..k : i \in 2..(k + 1) /\ calls'[i].eff = calls[i].eff
  BY <1>2
<1>5. LocalsOK'
  BY <1>2, <1>3 DEF LocalsOK
<1>6. NodesRender'
  BY <1>2, <1>3, <1>4 DEF NodesRender
<1>7. NodesOnce'
  BY <1>2, <1>4 DEF NodesOnce
<1>8. \A n \in Nodes : \A l : InRender(n, l)' <=> InRender(n, l)
  BY <1>2, <1>3, <1>4 DEF InRender
<1>9. \A e : Running(e)' => Running(e)
  BY <1>2, <1>4 DEF Running
<1>10. QED
  BY <1>5, <1>6, <1>7, <1>8, <1>9

-----------------------------------------------------------------------------
(* What client code and the library do below the nodes *)

\* A node comes into being only from nothing, and is what it was otherwise.
NodesLast ==
  \A n \in Nodes :
    /\ Alive(n) => Alive(n)'
    /\ Alive(n)' => Alive(n) \/ status[n] = "none"
    /\ status'[n] = "none" => status[n] = "none"

\* A step that keeps the nodes on the stack and on their own.
Undisturbed ==
  /\ NodeStackInv'
  /\ \A n \in Nodes : \A l : InRender(n, l)' <=> InRender(n, l)
  /\ NodesLast

\* The flags, the calls and the life of nodes stay.
LEMMA CallsStay ==
  ASSUME TypeInv, NodeStackInv, UNCHANGED <<calls, pending>>, locals' = locals,
         \A n \in Nodes : status'[n] = status[n]
  PROVE  Undisturbed
<1>1. /\ \A n, l : InRender(n, l)' <=> InRender(n, l)
      /\ \A n : Running(n)' <=> Running(n)
      /\ \A n : BeingNotified(n)' <=> BeingNotified(n)
      /\ \A n \in Nodes : Alive(n)' <=> Alive(n)
  BY DEF InRender, Running, BeingNotified, Top, Alive
<1>2. NodeStackInv'
  BY <1>1 DEF NodeStackInv, LocalsOK, NodesRender, NodesOnce, NodesIdle, ClientRuns, Top
<1>3. QED
  BY <1>1, <1>2 DEF Undisturbed, NodesLast

\* A call that goes on: nodes that run must not be notified.
LEMMA GoesOnUndisturbed ==
  ASSUME TypeInv, NodeStackInv, NEW op \in Ops, NEW rest \in Seq(Effects),
         calls' = TopGoesOn(op, rest), LocalsFollow, status' = status,
         Top.eff \in Nodes => Local.at = "render",
         \A n \in Nodes : Running(n) => ~pending'[n] /\ ~(op = "set" /\ n \in Elements(rest))
  PROVE  Undisturbed
<1>1. /\ LocalsOK' /\ NodesRender' /\ NodesOnce'
      /\ \A n, l : InRender(n, l)' <=> InRender(n, l)
      /\ \A e : Running(e)' <=> Running(e)
  BY GoesOnStays, StaysKeeps DEF NodeStackInv
<1>2. \A e : BeingNotified(e)' <=> op = "set" /\ e \in Elements(rest)
  BY GoesOnNotifies
<1>3. \A n : Alive(n)' <=> Alive(n)
  BY DEF Alive
<1>4. NodesIdle'
  BY <1>1, <1>2, <1>3 DEF NodesIdle, NodeStackInv
<1>5. QED
  BY <1>1, <1>3, <1>4 DEF Undisturbed, NodeStackInv, NodesLast

\* A body starts: it is no node that runs, and nothing waits for it any more.
LEMMA RunBodyUndisturbed ==
  ASSUME TypeInv, NodeStackInv, NEW op \in Ops, NEW rest \in Seq(Effects), NEW f \in Effects,
         RunBody(f, op, rest), LocalsFollow,
         Top.eff \in Nodes => Local.at = "render",
         f \in Nodes => ~Running(f) /\ Alive(f)' /\ ~pending'[f],
         \A n \in Nodes : Running(n) => ~pending'[n] /\ Alive(n)',
         NodesLast
  PROVE  Undisturbed
<1>1. /\ LocalsOK' /\ NodesRender' /\ NodesOnce'
      /\ \A n, l : InRender(n, l)' <=> InRender(n, l)
      /\ \A e : Running(e)' <=> Running(e) \/ e = f
  BY RunBodyStarts, StartsKeeps DEF NodeStackInv
<1>2. \A e : ~BeingNotified(e)'
  BY RunBodyNotifies
<1>3. NodesIdle'
  BY <1>1, <1>2 DEF NodesIdle
<1>4. QED
  BY <1>1, <1>3 DEF Undisturbed, NodeStackInv

\* Inside its render function a node is not on its way to be run again,
\* because client code leaves it alone there.
LEMMA CoreUndisturbed ==
  ASSUME TypeInv, PendingExact, Started, NodeStackInv, PureRenders, LocalsFollow,
         \/ FlowClient /\ ClientMayCall
         \/ Library
         \/ FlowReturn
  PROVE  Undisturbed
<1> USE TypeFacts
<1>1. /\ subs \in [Signals -> Seq(Effects)] /\ pending \in [Effects -> BOOLEAN]
      /\ status \in [Effects -> {"none", "creating", "live", "disposed"}]
      /\ queue \in Seq(Effects)
      /\ Nodes \subseteq Effects
  BY FlowAssumption DEF TypeInv, TypeOK, Nodes
<1>2. LocalsOK /\ NodesRender /\ NodesOnce /\ NodesIdle
  BY DEF NodeStackInv
<1>3. ClientMayCall \/ Library => (Top.eff \in Nodes => Local.at = "render")
  <2>1. ClientMayCall => (Top.eff \in Nodes => Local.at = "render")
    BY DEF ClientMayCall, Renders
  <2>2. Library => ~ClientRuns
    BY DEF Library, EffectSchedule, NotifyDone, FlushSnapshot, FlushNext, FlushReturn, ClientRuns
  <2>3. Len(calls) \in 1..Len(calls)
    OBVIOUS
  <2>4. ~ClientRuns => (Top.eff \in Nodes => Local.at = "render")
    BY <1>2, <2>3, LocalFacts DEF NodesRender
  <2>5. QED
    BY <2>1, <2>2, <2>4
<1>4. ASSUME calls' = calls PROVE locals' = locals
  BY <1>2, <1>4, SameCalls DEF Stays
<1>5. ASSUME NEW op \in Ops, NEW rest \in Seq(Effects), calls' = TopGoesOn(op, rest),
             op # "set", UNCHANGED <<status, pending>>, ClientMayCall \/ Library
      PROVE  Undisturbed
  BY <1>2, <1>3, <1>5, GoesOnUndisturbed DEF NodesIdle
<1>6. ASSUME FlowClient, ClientMayCall PROVE Undisturbed
  <2>1. ASSUME NEW s \in Signals, NEW v \in Values, SignalCreate(s, v) PROVE Undisturbed
    BY <1>4, <2>1, CallsStay DEF SignalCreate
  <2>2. ASSUME NEW s \in Signals, NEW v \in Values, ~Disturbs(s), SignalSet(s, v)
        PROVE  Undisturbed
    <3>1. /\ subs[s] \in Seq(Effects) /\ calls' = TopGoesOn("set", subs[s])
          /\ UNCHANGED <<status, pending>>
      BY <1>1, <2>2 DEF SignalSet
    <3>2. \A n \in Nodes : Running(n) => n \in Rendering
      <4> SUFFICES ASSUME NEW n \in Nodes, NEW i \in 2..Len(calls), calls[i].eff = n
                   PROVE  n \in Rendering
        BY DEF Running
      <4>1. i \in 1..Len(calls) /\ DOMAIN calls = 1..Len(calls)
        BY LenProperties, SMTT(30)
      <4>2. locals[i].at = "render"
        BY <1>2, <1>3, <1>6, <4>1, LocalFacts DEF NodesRender
      <4>3. QED
        BY <4>1, <4>2 DEF Rendering
    <3>3. \A n \in Nodes : Running(n) => n \notin Elements(subs[s])
      BY <2>2, <3>2 DEF Disturbs
    <3>4. QED
      BY <1>2, <1>3, <1>6, <3>1, <3>3, GoesOnUndisturbed DEF NodesIdle
  <2>3. ASSUME NEW s \in Signals, SignalGet(s) \/ SignalDispose(s) PROVE Undisturbed
    BY <1>4, <2>3, CallsStay DEF SignalGet, SignalDispose
  <2>4. ASSUME NEW e \in Effects, EffectCreate(e) PROVE Undisturbed
    <3>1. /\ RunBody(e, "create", <<>>) /\ status[e] = "none" /\ pending' = pending
          /\ status' = [status EXCEPT ![e] = "creating"]
      BY <2>4 DEF EffectCreate
    <3>2. ~pending[e]
      BY <3>1 DEF Started
    <3>3. ~Running(e)
      BY <3>1 DEF Started, Running
    <3>4. \A n \in Nodes : status'[n] = IF n = e THEN "creating" ELSE status[n]
      BY <1>1, <3>1
    <3>5. NodesLast /\ \A n \in Nodes : Running(n) => ~pending'[n] /\ Alive(n)'
      BY <1>2, <3>1, <3>4 DEF NodesLast, Alive, NodesIdle
    <3>6. e \in Nodes => Alive(e)'
      BY <3>4 DEF Alive
    <3>7. QED
      BY <1>3, <1>6, <3>1, <3>2, <3>3, <3>5, <3>6, RunBodyUndisturbed
  <2>5. ASSUME NEW e \in Effects \ Nodes, EffectDispose(e) PROVE Undisturbed
    <3>1. /\ UNCHANGED <<calls, pending>>
          /\ \A n \in Nodes : status'[n] = status[n]
      BY <1>1, <2>5 DEF EffectDispose
    <3>2. QED
      BY <1>4, <3>1, CallsStay
  <2>6. ASSUME BatchStart PROVE Undisturbed
    BY <1>4, <2>6, CallsStay DEF BatchStart
  <2>7. ASSUME BatchEnd \/ FlushCall PROVE Undisturbed
    <3>1. FlushOp(batch) \in Ops \ {"set"} /\ FlushOp(batch') \in Ops \ {"set"}
      BY DEF FlushOp
    <3>2. UNCHANGED <<status, pending>>
      BY <2>7 DEF BatchEnd, FlushCall
    <3>3. QED
      BY <1>5, <1>6, <2>7, <3>1, <3>2 DEF BatchEnd, FlushCall
  <2>8. QED
    BY <1>1, <1>6, <2>1, <2>2, <2>3, <2>4, <2>5, <2>6, <2>7 DEF FlowClient
<1>7. ASSUME Library PROVE Undisturbed
  <2>1. ASSUME EffectSchedule PROVE Undisturbed
    <3>1. /\ Top.rest # <<>> /\ Top.op = "set" /\ Head(Top.rest) \in Effects
          /\ calls' = TopGoesOn("set", Tail(Top.rest)) /\ Tail(Top.rest) \in Seq(Effects)
          /\ \A e \in Effects : pending'[e] => pending[e] \/ e = Head(Top.rest)
          /\ status' = status
      BY <1>1, <2>1 DEF EffectSchedule
    <3>2. Elements(Top.rest) = {Head(Top.rest)} \cup Elements(Tail(Top.rest))
      BY <3>1, HeadOrTail
    <3>3. \A n \in Nodes : Running(n) => ~pending'[n] /\ n \notin Elements(Tail(Top.rest))
      BY <1>1, <1>2, <3>1, <3>2 DEF NodesIdle, BeingNotified
    <3>4. QED
      BY <1>3, <1>7, <3>1, <3>3, GoesOnUndisturbed
  <2>2. ASSUME NotifyDone \/ FlushSnapshot \/ FlushReturn PROVE Undisturbed
    <3>1. FlushOp(batch) \in Ops \ {"set"}
      BY DEF FlushOp
    <3>2. UNCHANGED <<status, pending>>
      BY <2>2 DEF NotifyDone, FlushSnapshot, FlushReturn
    <3>3. QED
      BY <1>1, <1>5, <1>7, <2>2, <3>1, <3>2 DEF NotifyDone, FlushSnapshot, FlushReturn
  <2>3. ASSUME FlushNext PROVE Undisturbed
    <3>1. PICK e \in Effects : e = Head(Top.rest) /\ pending[e] /\ Tail(Top.rest) \in Seq(Effects)
      BY <2>3, FlushNextStarted DEF FlushNext
    <3>2. /\ pending' = [pending EXCEPT ![e] = FALSE] /\ status' = status
          /\ \/ status[e] # "disposed" /\ RunBody(e, "flush", Tail(Top.rest))
             \/ calls' = TopGoesOn("flush", Tail(Top.rest))
      BY <2>3, <3>1 DEF FlushNext
    <3>3. ~pending'[e] /\ \A n \in Nodes : Running(n) => ~pending'[n]
      BY <1>1, <1>2, <3>1, <3>2 DEF NodesIdle
    <3>4. NodesLast /\ \A n \in Nodes : Running(n) => Alive(n)'
      BY <1>2, <3>2 DEF NodesLast, Alive, NodesIdle
    <3>5. e \in Nodes => ~Running(e)
      BY <1>2, <3>1 DEF NodesIdle
    <3>6. status[e] # "disposed" => Alive(e)'
      <4>1. status[e] # "none"
        BY <3>1 DEF Started
      <4>2. status[e] \in {"none", "creating", "live", "disposed"} /\ status' = status
        BY <1>1, <3>1, <3>2
      <4>3. QED
        BY <4>1, <4>2 DEF Alive
    <3>7. CASE status[e] # "disposed" /\ RunBody(e, "flush", Tail(Top.rest))
      BY <1>3, <1>7, <3>1, <3>3, <3>4, <3>5, <3>6, <3>7, RunBodyUndisturbed
    <3>8. CASE calls' = TopGoesOn("flush", Tail(Top.rest))
      <4>1. status' = status /\ ~("flush" = "set")
        BY <3>2
      <4>2. QED
        BY <1>3, <1>7, <3>1, <3>3, <3>8, <4>1, GoesOnUndisturbed
    <3>9. QED
      BY <3>2, <3>7, <3>8
  <2>4. QED
    BY <1>7, <2>1, <2>2, <2>3 DEF Library
<1>8. ASSUME FlowReturn PROVE Undisturbed
  <2>1. BodyReturn /\ Depth > 0 /\ (Top.eff \in Nodes => Local.at # "render")
    BY <1>8 DEF FlowReturn, BodyReturn
  <2>2. /\ LocalsOK' /\ NodesRender' /\ NodesOnce'
        /\ \A n \in Nodes : \A l : InRender(n, l)' <=> InRender(n, l)
        /\ \A e : Running(e)' => Running(e)
    BY <1>2, <2>1, BodyReturnEnds, EndsKeeps
  <2>3. \A e : ~BeingNotified(e)'
    BY <2>1, BodyReturnNotifies
  <2>4. /\ pending' = pending
        /\ status' = status \/ status' = [status EXCEPT ![Top.eff] = "live"]
    BY <2>1 DEF BodyReturn
  <2>5. Top.eff \in Nodes => Alive(Top.eff)
    <3>1. Len(calls) \in 1..Len(calls)
      OBVIOUS
    <3>2. QED
      BY <1>2, <3>1, RenderingRuns DEF NodesIdle, Top
  <2>6. \A n \in Nodes : status'[n] = status[n] \/ (Alive(n) /\ status'[n] = "live")
    BY <1>1, <2>4, <2>5
  <2>7. NodesLast /\ \A n \in Nodes : Alive(n) => Alive(n)'
    BY <2>6 DEF NodesLast, Alive
  <2>8. NodesIdle'
    BY <1>2, <2>2, <2>3, <2>4, <2>7 DEF NodesIdle
  <2>9. QED
    BY <2>2, <2>7, <2>8 DEF Undisturbed, NodeStackInv
<1>9. QED
  BY <1>6, <1>7, <1>8

-----------------------------------------------------------------------------
(* Creations *)

\* An effect that is being created has its creation on the stack.
CreationsRun ==
  \A e \in Effects : status[e] = "creating" =>
    \E i \in 1..(Len(calls) - 1) : calls[i].op = "create" /\ calls[i + 1].eff = e

\* The call on top goes on, and no creation begins.
LEMMA GoesOnCreations ==
  ASSUME TypeInv, CreationsRun, NEW op \in Ops, NEW rest \in Seq(Effects),
         calls' = TopGoesOn(op, rest), status' = status
  PROVE  CreationsRun'
<1>1. /\ Len(calls') = Len(calls) /\ Len(calls) \in Nat
      /\ \A i \in 1..(Len(calls) - 1) : calls'[i] = calls[i]
      /\ calls'[Len(calls)] = GoesOn(Top, op, rest)
  BY TypeFacts, TopGoesOnFrame
<1>2. \A i \in 1..Len(calls) : calls'[i].eff = calls[i].eff
  BY <1>1 DEF GoesOn, Top
<1>3. \A i \in 1..(Len(calls) - 1) : calls'[i].op = calls[i].op /\ i + 1 \in 1..Len(calls)
  BY <1>1
<1>4. QED
  BY <1>1, <1>2, <1>3, SMTT(30) DEF CreationsRun

\* A body starts, that of a new effect below its creation.
LEMMA RunBodyCreations ==
  ASSUME TypeInv, CreationsRun, NEW op \in Ops, NEW rest \in Seq(Effects), NEW f \in Effects,
         RunBody(f, op, rest),
         \A e \in Effects : status'[e] = "creating" => status[e] = "creating" \/ (e = f /\ op = "create")
  PROVE  CreationsRun'
<1>1. /\ Len(calls') = Len(calls) + 1 /\ Len(calls) \in Nat /\ Len(calls) >= 1
      /\ \A i \in 1..(Len(calls) - 1) : calls'[i] = calls[i]
      /\ calls'[Len(calls)] = GoesOn(Top, op, rest)
      /\ calls'[Len(calls) + 1] = Enter(f)
  BY TypeFacts, RunBodyFrame DEF TypeInv
<1>2. /\ \A i \in 1..Len(calls) : calls'[i].eff = calls[i].eff
      /\ calls'[Len(calls)].op = op /\ calls'[Len(calls) + 1].eff = f
  BY <1>1 DEF GoesOn, Top, Enter
<1>3. /\ \A i \in 1..(Len(calls) - 1) :
           i \in 1..(Len(calls') - 1) /\ calls'[i].op = calls[i].op /\ i + 1 \in 1..Len(calls)
      /\ Len(calls) \in 1..(Len(calls') - 1)
  BY <1>1
<1>4. SUFFICES ASSUME NEW e \in Effects, status'[e] = "creating"
               PROVE  \E i \in 1..(Len(calls') - 1) : calls'[i].op = "create" /\ calls'[i + 1].eff = e
  BY DEF CreationsRun
<1>5. CASE status[e] = "creating"
  <2>1. PICK i \in 1..(Len(calls) - 1) : calls[i].op = "create" /\ calls[i + 1].eff = e
    BY <1>5 DEF CreationsRun
  <2>2. QED
    BY <1>2, <1>3, <2>1
<1>6. CASE e = f /\ op = "create"
  BY <1>2, <1>3, <1>6
<1>7. QED
  BY <1>4, <1>5, <1>6

\* The body on top returns, out of its creation if it is in one.
LEMMA BodyReturnCreations ==
  ASSUME TypeInv, CreationsRun, BodyReturn
  PROVE  CreationsRun'
<1>1. /\ Len(calls') = Len(calls) - 1 /\ Len(calls) \in Nat
      /\ \A i \in 1..(Len(calls) - 2) : calls'[i] = calls[i]
      /\ calls'[Len(calls) - 1].eff = calls[Len(calls) - 1].eff
      /\ status \in [Effects -> {"none", "creating", "live", "disposed"}]
  BY BodyReturnStack DEF TypeInv, TypeOK
<1>2. PICK k : k = Len(calls) - 1
  OBVIOUS
<1>3. k \in Nat /\ k >= 1 /\ Depth = k /\ SubSeq(calls, 1, k)[k] = calls[k]
  <2>1. k \in Nat /\ k >= 1 /\ Depth = k /\ calls \in Seq(Frame) /\ k <= Len(calls)
    BY <1>1, <1>2, TypeFacts DEF Depth, BodyReturn
  <2>2. QED
    BY <2>1, SubSeqProperties
<1>4. \/ calls[k].op = "create" /\ status' = [status EXCEPT ![Top.eff] = "live"]
      \/ calls[k].op # "create" /\ status' = status
  BY <1>2, <1>3 DEF BodyReturn
<1>5. SUFFICES ASSUME NEW e \in Effects, status'[e] = "creating"
               PROVE  \E i \in 1..(Len(calls') - 1) : calls'[i].op = "create" /\ calls'[i + 1].eff = e
  BY DEF CreationsRun
<1>6. status[e] = "creating" /\ ~(calls[k].op = "create" /\ Top.eff = e)
  BY <1>1, <1>4, <1>5
<1>7. PICK i \in 1..k : calls[i].op = "create" /\ calls[i + 1].eff = e
  BY <1>2, <1>6 DEF CreationsRun
<1>8. i # k
  BY <1>1, <1>2, <1>3, <1>6, <1>7 DEF Top
<1>9. /\ i \in 1..(Len(calls') - 1) /\ calls'[i] = calls[i]
      /\ i + 1 \in 1..(Len(calls) - 2) \/ i + 1 = Len(calls) - 1
  BY <1>1, <1>2, <1>3, <1>8
<1>10. QED
  BY <1>1, <1>7, <1>9

\* Whatever step is taken, creations stay on the stack.
LEMMA CreationsStep ==
  ASSUME TypeInv, CreationsRun, [Next]_vars
  PROVE  CreationsRun'
<1> USE TypeFacts
<1>1. /\ status \in [Effects -> {"none", "creating", "live", "disposed"}]
      /\ \A s \in Signals : subs[s] \in Seq(Effects)
      /\ queue \in Seq(Effects)
  BY DEF TypeInv, TypeOK
<1>2. ASSUME UNCHANGED calls, \A e \in Effects : status'[e] = "creating" => status[e] = "creating"
      PROVE  CreationsRun'
  BY <1>2 DEF CreationsRun
<1>3. ASSUME Client PROVE CreationsRun'
  <2>1. ASSUME NEW e \in Effects, EffectCreate(e) PROVE CreationsRun'
    <3>1. \A f \in Effects : status'[f] = "creating" => status[f] = "creating" \/ f = e
      BY <1>1, <2>1 DEF EffectCreate
    <3>2. QED
      BY <2>1, <3>1, RunBodyCreations DEF EffectCreate
  <2>2. ASSUME NEW e \in Effects, EffectDispose(e) PROVE CreationsRun'
    <3>1. \A f \in Effects : status'[f] = "creating" => status[f] = "creating"
      BY <1>1, <2>2 DEF EffectDispose
    <3>2. QED
      BY <1>2, <2>2, <3>1 DEF EffectDispose
  <2>3. ASSUME NEW s \in Signals, NEW v \in Values, SignalSet(s, v) PROVE CreationsRun'
    BY <1>1, <2>3, GoesOnCreations DEF SignalSet
  <2>4. ASSUME BatchEnd \/ FlushCall PROVE CreationsRun'
    <3>1. FlushOp(batch) \in Ops /\ FlushOp(batch') \in Ops
      BY DEF FlushOp
    <3>2. QED
      BY <2>4, <3>1, GoesOnCreations DEF BatchEnd, FlushCall
  <2>5. QED
    BY <1>2, <1>3, <2>1, <2>2, <2>3, <2>4
    DEF Client, SignalCreate, SignalGet, SignalDispose, BatchStart
<1>4. ASSUME Library PROVE CreationsRun'
  <2>1. FlushOp(batch) \in Ops
    BY DEF FlushOp
  <2>2. ASSUME FlushNext PROVE CreationsRun'
    BY <2>2, GoesOnCreations, RunBodyCreations DEF FlushNext
  <2>3. QED
    BY <1>1, <1>4, <2>1, <2>2, GoesOnCreations
    DEF Library, EffectSchedule, NotifyDone, FlushSnapshot, FlushReturn
<1>5. QED
  BY <1>2, <1>3, <1>4, BodyReturnCreations DEF Next, vars

-----------------------------------------------------------------------------
(* The window *)

GuiTypes ==
  /\ window \subseteq 1..MaxElements
  /\ child \in [Shows -> (1..MaxElements) \cup {NoElement}]
  /\ children \in [Fors -> Seq((1..MaxElements) \cup {NoElement})]
  /\ count \in [Fors -> Nat]
  /\ \A n \in Fors : count[n] <= Len(children[n])

\* What render functions have yet to be called for has a place.
RenderInv ==
  \A n \in Nodes : \A l \in Spots : InRender(n, l) =>
    /\ n \in Shows => child[n] = NoElement
    /\ n \in Fors =>
         count[n] = 0 /\ 1 <= l.item /\ l.item <= l.total /\ l.total <= Len(children[n])

\* No two nodes have a pointer to the same element, not even a stale one.
Apart == \A m, n \in Nodes : m # n => Stored(m) \cap Stored(n) \subseteq {NoElement}

\* A node that was never created has recorded nothing.
NoneYet == \A n \in Nodes : status[n] = "none" => Recorded(n) = {}

\* What a node has in the window: its children, and those it has rendered
\* while the body that will record them runs.
Held(n) ==
  {el \in 1..MaxElements :
     /\ Alive(n)
     /\ \/ el \in Recorded(n)
        \/ /\ n \in Fors
           /\ \E l \in Spots : InRender(n, l) /\ \E k \in 1..(l.item - 1) : children[n][k] = el}

WindowHeld == window = UNION {Held(n) : n \in Nodes}

WindowInv == GuiTypes /\ RenderInv /\ Apart /\ NoneYet /\ WindowHeld

\* The arrays of children, as the provers need them at hand.
LEMMA GuiFacts ==
  ASSUME GuiTypes
  PROVE  /\ \A n \in Fors :
              /\ children[n] \in Seq((1..MaxElements) \cup {NoElement})
              /\ Len(children[n]) \in Nat /\ DOMAIN children[n] = 1..Len(children[n])
              /\ \A k \in 1..Len(children[n]) : children[n][k] \in (1..MaxElements) \cup {NoElement}
              /\ count[n] \in Nat /\ count[n] <= Len(children[n])
         /\ \A n \in Shows : n \notin Fors /\ child[n] \in (1..MaxElements) \cup {NoElement}
         /\ \A n \in Fors : n \notin Shows
         /\ NoElement \notin 1..MaxElements
         /\ \A n \in Nodes : Recorded(n) \subseteq Stored(n) \cap (1..MaxElements)
<1>1. ASSUME NEW n \in Fors
      PROVE  /\ children[n] \in Seq((1..MaxElements) \cup {NoElement})
             /\ Len(children[n]) \in Nat /\ DOMAIN children[n] = 1..Len(children[n])
             /\ \A k \in 1..Len(children[n]) : children[n][k] \in (1..MaxElements) \cup {NoElement}
             /\ count[n] \in Nat /\ count[n] <= Len(children[n])
  <2>1. /\ children[n] \in Seq((1..MaxElements) \cup {NoElement})
        /\ count[n] \in Nat /\ count[n] <= Len(children[n])
    BY DEF GuiTypes
  <2>2. QED
    BY <2>1, LenProperties, ElementOfSeq
<1>2. /\ \A n \in Shows : n \notin Fors /\ child[n] \in (1..MaxElements) \cup {NoElement}
      /\ \A n \in Fors : n \notin Shows
      /\ NoElement \notin 1..MaxElements
  BY FlowAssumption DEF GuiTypes
<1>3. ASSUME NEW n \in Shows PROVE Recorded(n) \subseteq Stored(n) \cap (1..MaxElements)
  BY <1>2 DEF Recorded, Stored
<1>4. ASSUME NEW n \in Fors PROVE Recorded(n) \subseteq Stored(n) \cap (1..MaxElements)
  <2>1. \A k \in 1..count[n] : k \in 1..Len(children[n])
    BY <1>1
  <2>2. \A k \in 1..count[n] :
          children[n][k] \in Elements(children[n]) /\ children[n][k] \in (1..MaxElements) \cup {NoElement}
    BY <1>1, <2>1 DEF Elements
  <2>3. QED
    BY <1>2, <2>2 DEF Recorded, Stored
<1>5. QED
  BY <1>1, <1>2, <1>3, <1>4 DEF Nodes

\* What a node has in the window it has a pointer to.
LEMMA HeldStored ==
  ASSUME GuiTypes, RenderInv, NEW n \in Nodes
  PROVE  Held(n) \subseteq Stored(n)
<1>1. ASSUME n \in Fors, NEW l \in Spots, InRender(n, l), NEW k \in 1..(l.item - 1)
      PROVE  children[n][k] \in Stored(n)
  <2>1. l.item <= l.total /\ l.total <= Len(children[n]) /\ Len(children[n]) \in Nat
        /\ l.item \in Nat /\ l.total \in Nat
    BY <1>1, GuiFacts DEF RenderInv, Spots
  <2>2. k \in DOMAIN children[n]
    BY <1>1, <2>1, GuiFacts
  <2>3. QED
    BY <1>1, <2>2, GuiFacts DEF Stored, Elements
<1>2. Recorded(n) \subseteq Stored(n)
  BY GuiFacts
<1>3. QED
  BY <1>1, <1>2 DEF Held

\* A node that is not in its render function has what it recorded.
LEMMA HeldIsRecorded ==
  ASSUME GuiTypes, NEW n \in Nodes, n \in Fors => \A l \in Spots : ~InRender(n, l)
  PROVE  Held(n) = IF Alive(n) THEN Recorded(n) ELSE {}
BY GuiFacts DEF Held

\* One node changes what it has in the window and moves the elements along.
LEMMA OneNodeMoves ==
  ASSUME WindowInv, NEW n \in Nodes,
         \A m \in Nodes \ {n} : Stored(m)' = Stored(m) /\ Held(m)' = Held(m),
         Stored(n)' \subseteq Stored(n) \cup {NoElement} \cup NewElements,
         window' = (window \ Held(n)) \cup Held(n)'
  PROVE  Apart' /\ WindowHeld'
<1>1. ASSUME NEW m \in Nodes \ {n} PROVE Stored(m) \cap Stored(n)' \subseteq {NoElement}
  BY DEF WindowInv, Apart, NewElements
<1>2. Apart'
  BY <1>1 DEF WindowInv, Apart
<1>3. ASSUME NEW m \in Nodes \ {n} PROVE Held(m) \cap Held(n) = {}
  <2>1. Held(m) \subseteq Stored(m) /\ Held(n) \subseteq Stored(n) /\ NoElement \notin Held(m)
    BY HeldStored, FlowAssumption DEF WindowInv, Held
  <2>2. QED
    BY <2>1 DEF WindowInv, Apart
<1>4. window = UNION {Held(m) : m \in Nodes}
  BY DEF WindowInv, WindowHeld
<1>5. window' = UNION {Held(m)' : m \in Nodes}
  <2>1. ASSUME NEW x \in window' PROVE \E m \in Nodes : x \in Held(m)'
    BY <1>4
  <2>2. ASSUME NEW m \in Nodes, NEW x \in Held(m)' PROVE x \in window'
    BY <1>3, <1>4
  <2>3. QED
    BY <2>1, <2>2
<1>6. QED
  BY <1>2, <1>5 DEF WindowHeld

\* What happens below the nodes leaves the window alone.
LEMMA CoreWindow ==
  ASSUME TypeInv, NodeStackInv, WindowInv, Undisturbed, UNCHANGED guiVars
  PROVE  WindowInv'
<1>1. /\ \A n \in Nodes : Recorded(n)' = Recorded(n) /\ Stored(n)' = Stored(n)
      /\ \A n \in Nodes : \A l : InRender(n, l)' <=> InRender(n, l)
      /\ NodesLast /\ GuiTypes /\ UNCHANGED <<window, child, children, count>>
  BY DEF Undisturbed, WindowInv, guiVars, Recorded, Stored, Elements
<1>2. GuiTypes' /\ RenderInv' /\ Apart' /\ NoneYet'
  BY <1>1 DEF WindowInv, GuiTypes, RenderInv, Apart, NoneYet, NodesLast
<1>3. ASSUME NEW n \in Nodes, NEW l, InRender(n, l) PROVE Alive(n)
  BY <1>3, RenderingRuns DEF InRender, NodeStackInv, NodesIdle
<1>4. ASSUME NEW n \in Nodes PROVE Held(n)' = Held(n)
  <2>1. CASE Alive(n)' <=> Alive(n)
    BY <1>1, <2>1 DEF Held
  <2>2. CASE ~(Alive(n)' <=> Alive(n))
    <3>1. ~Alive(n) /\ status[n] = "none" /\ Recorded(n) = {}
      BY <1>1, <2>2 DEF NodesLast, WindowInv, NoneYet
    <3>2. \A l : ~InRender(n, l) /\ ~InRender(n, l)'
      BY <1>1, <1>3, <3>1
    <3>3. QED
      BY <1>1, <3>1, <3>2 DEF Held
  <2>3. QED
    BY <2>1, <2>2
<1>5. WindowHeld'
  BY <1>1, <1>4 DEF WindowInv, WindowHeld
<1>6. QED
  BY <1>2, <1>5 DEF WindowInv

\* The node on top goes on to another place in its body.
TopMoves(n, spot) ==
  /\ Top.eff = n /\ ClientRuns
  /\ UNCHANGED <<calls, pending, status>>
  /\ locals' = NowAt(spot)

LEMMA TopMovesNodes ==
  ASSUME TypeInv, NodeStackInv, NEW n \in Nodes, NEW spot \in Spots, TopMoves(n, spot)
  PROVE  /\ NodeStackInv' /\ Running(n) /\ Alive(n)
         /\ \A m \in Nodes : Alive(m)' <=> Alive(m)
         /\ \A m \in Nodes \ {n} : \A l : InRender(m, l)' <=> InRender(m, l)
         /\ \A l : InRender(n, l) <=> l = Local /\ l.at = "render"
         /\ \A l : InRender(n, l)' <=> l = spot /\ l.at = "render"
<1>1. PICK k : k = Len(calls)
  OBVIOUS
<1>2. /\ k \in Nat /\ k \in 1..k /\ locals \in Seq(Spots) /\ Len(locals) = k
      /\ Local = locals[k] /\ calls[k].eff = n
      /\ calls' = calls /\ pending' = pending /\ status' = status
      /\ locals' = [locals EXCEPT ![k] = spot]
      /\ ClientRuns
  BY <1>1, LocalFacts DEF TopMoves, NodeStackInv, LocalsOK, NowAt
<1>3. /\ locals' \in Seq(Spots) /\ Len(locals') = k
      /\ \A i \in 1..k : locals'[i] = IF i = k THEN spot ELSE locals[i]
  BY <1>2, ExceptSeq
<1>4. \A i \in 1..k : calls[i].eff = n => i = k
  BY <1>1, <1>2 DEF NodeStackInv, NodesOnce
<1>5. /\ \A m : Running(m)' <=> Running(m)
      /\ \A m : BeingNotified(m)' <=> BeingNotified(m)
      /\ \A m : Alive(m)' <=> Alive(m)
  BY <1>2 DEF Running, BeingNotified, Top, Alive
<1>6. LocalsOK' /\ NodesOnce' /\ NodesIdle'
  BY <1>1, <1>2, <1>3, <1>5 DEF NodeStackInv, LocalsOK, NodesOnce, NodesIdle
<1>7. NodesRender'
  BY <1>1, <1>2, <1>3 DEF NodeStackInv, NodesRender, ClientRuns, Top
<1>8. \A l : InRender(n, l) <=> l = Local /\ l.at = "render"
  BY <1>1, <1>2, <1>4 DEF InRender
<1>9. \A l : InRender(n, l)' <=> l = spot /\ l.at = "render"
  BY <1>1, <1>2, <1>3, <1>4 DEF InRender
<1>10. \A m \in Nodes \ {n} : \A l : InRender(m, l)' <=> InRender(m, l)
  BY <1>1, <1>2, <1>3 DEF InRender
<1>11. Running(n) /\ Alive(n)
  BY <1>1, <1>2, RenderingRuns DEF NodeStackInv, NodesIdle
<1>12. QED
  BY <1>5, <1>6, <1>7, <1>8, <1>9, <1>10, <1>11 DEF NodeStackInv

\* A node moves: what the other nodes have is not touched.
LEMMA OthersStay ==
  ASSUME TypeInv, NodeStackInv, NEW n \in Nodes, NEW spot \in Spots, TopMoves(n, spot),
         \A m \in Shows \ {n} : child'[m] = child[m],
         \A m \in Fors \ {n} : children'[m] = children[m] /\ count'[m] = count[m]
  PROVE  \A m \in Nodes \ {n} : Stored(m)' = Stored(m) /\ Recorded(m)' = Recorded(m) /\ Held(m)' = Held(m)
<1> SUFFICES ASSUME NEW m \in Nodes \ {n}
             PROVE  Stored(m)' = Stored(m) /\ Recorded(m)' = Recorded(m) /\ Held(m)' = Held(m)
  OBVIOUS
<1>1. Stored(m)' = Stored(m) /\ Recorded(m)' = Recorded(m)
  BY DEF Stored, Recorded, Elements, Nodes
<1>2. /\ \A l : InRender(m, l)' <=> InRender(m, l)
      /\ Alive(m)' <=> Alive(m)
      /\ m \in Fors => children'[m] = children[m]
  BY TopMovesNodes
<1>3. QED
  BY <1>1, <1>2 DEF Held

\* The state of the window after node n has moved, part by part.
LEMMA WindowMoves ==
  ASSUME TypeInv, NodeStackInv, WindowInv, NEW n \in Nodes, NEW spot \in Spots, TopMoves(n, spot),
         \A m \in Shows \ {n} : child'[m] = child[m],
         \A m \in Fors \ {n} : children'[m] = children[m] /\ count'[m] = count[m],
         GuiTypes',
         Stored(n)' \subseteq Stored(n) \cup {NoElement} \cup NewElements,
         window' = (window \ Held(n)) \cup Held(n)',
         spot.at = "render" =>
           /\ n \in Shows => child'[n] = NoElement
           /\ n \in Fors => count'[n] = 0 /\ 1 <= spot.item /\ spot.item <= spot.total
                                           /\ spot.total <= Len(children'[n])
  PROVE  WindowInv'
<1>1. \A m \in Nodes \ {n} :
        Stored(m)' = Stored(m) /\ Recorded(m)' = Recorded(m) /\ Held(m)' = Held(m)
  BY OthersStay
<1>2. Apart' /\ WindowHeld'
  BY <1>1, OneNodeMoves
<1>3. RenderInv'
  <2> SUFFICES ASSUME NEW m \in Nodes, NEW l \in Spots, InRender(m, l)'
               PROVE  /\ m \in Shows => child'[m] = NoElement
                      /\ m \in Fors =>
                           count'[m] = 0 /\ 1 <= l.item /\ l.item <= l.total
                                         /\ l.total <= Len(children'[m])
    BY DEF RenderInv
  <2>1. CASE m = n
    BY <2>1, TopMovesNodes
  <2>2. CASE m # n
    BY <2>2, TopMovesNodes DEF WindowInv, RenderInv
  <2>3. QED
    BY <2>1, <2>2
<1>4. NoneYet'
  <2> SUFFICES ASSUME NEW m \in Nodes, status'[m] = "none" PROVE Recorded(m)' = {}
    BY DEF NoneYet
  <2>1. status[m] = "none" /\ m # n
    BY TopMovesNodes DEF TopMoves, Alive
  <2>2. QED
    BY <1>1, <2>1 DEF WindowInv, NoneYet
<1>5. QED
  BY <1>2, <1>3, <1>4 DEF WindowInv

\* A <Show> reads its signal: a child that is not to be shown leaves.
LEMMA ShowReadsWindow ==
  ASSUME TypeInv, NodeStackInv, WindowInv, NEW n \in Shows, ShowReads(n)
  PROVE  NodeStackInv' /\ WindowInv'
<1>1. n \in Nodes /\ GuiTypes
  BY DEF Nodes, WindowInv
<1>2. PICK shown \in BOOLEAN :
        /\ locals' = NowAt(At(IF shown /\ child[n] = NoElement THEN "render" ELSE "done", 0, 0))
        /\ window' = IF shown THEN window ELSE window \ {child[n]}
        /\ child' = IF shown THEN child ELSE [child EXCEPT ![n] = NoElement]
        /\ shown = (value[SignalOf[n]] # 0)
  BY DEF ShowReads
<1>3. PICK spot \in Spots :
        /\ spot = At(IF shown /\ child[n] = NoElement THEN "render" ELSE "done", 0, 0)
        /\ spot.at = IF shown /\ child[n] = NoElement THEN "render" ELSE "done"
  <2>1. PICK at \in {"start", "render", "done"} :
          at = IF shown /\ child[n] = NoElement THEN "render" ELSE "done"
    OBVIOUS
  <2>2. At(at, 0, 0) \in Spots /\ At(at, 0, 0).at = at
    BY SpotTypes
  <2>3. QED
    BY <2>1, <2>2
<1>4. /\ TopMoves(n, spot) /\ Local.at = "start"
      /\ UNCHANGED <<calls, pending, status, children, count>>
  BY <1>2, <1>3 DEF ShowReads, SignalGet, TopMoves
<1>5. /\ NodeStackInv' /\ Alive(n) /\ Alive(n)' /\ n \notin Fors
      /\ child \in [Shows -> (1..MaxElements) \cup {NoElement}]
  BY <1>1, <1>4, TopMovesNodes, GuiFacts DEF GuiTypes
<1>6. /\ \A m \in Shows \ {n} : child'[m] = child[m]
      /\ child'[n] = IF shown THEN child[n] ELSE NoElement
      /\ child' \in [Shows -> (1..MaxElements) \cup {NoElement}]
  BY <1>2, <1>5
<1>7. GuiTypes'
  BY <1>1, <1>2, <1>4, <1>6 DEF GuiTypes
<1>8. Held(n) = {child[n]} \ {NoElement} /\ Held(n)' = {child'[n]} \ {NoElement}
  <2>1. Held(n) = Recorded(n)
    BY <1>1, <1>5, HeldIsRecorded
  <2>2. Held(n)' = Recorded(n)'
    <3>1. \A el \in 1..MaxElements : el \in Held(n)' <=> el \in Recorded(n)'
      BY <1>5 DEF Held
    <3>2. Recorded(n)' \subseteq 1..MaxElements
      BY <1>6 DEF Recorded
    <3>3. QED
      BY <3>1, <3>2 DEF Held
  <2>3. QED
    BY <2>1, <2>2 DEF Recorded
<1>9. Held(n) \subseteq window
  BY <1>1 DEF WindowInv, WindowHeld
<1>10. NoElement \notin window
  BY <1>1, GuiFacts DEF GuiTypes
<1>11. window' = (window \ Held(n)) \cup Held(n)'
  BY <1>2, <1>6, <1>8, <1>9, <1>10
<1>12. Stored(n)' \subseteq Stored(n) \cup {NoElement}
  BY <1>6 DEF Stored
<1>13. spot.at = "render" => child'[n] = NoElement
  BY <1>3, <1>6
<1>14. WindowInv'
  BY <1>1, <1>4, <1>5, <1>6, <1>7, <1>11, <1>12, <1>13, WindowMoves
<1>15. QED
  BY <1>5, <1>14

\* Its render function returns a child, which enters the window.
LEMMA ShowRenderedWindow ==
  ASSUME TypeInv, NodeStackInv, WindowInv, NEW n \in Shows, ShowRendered(n)
  PROVE  NodeStackInv' /\ WindowInv'
<1>1. n \in Nodes /\ GuiTypes
  BY DEF Nodes, WindowInv
<1>2. PICK new : new = NewElement
  OBVIOUS
<1>3. /\ new \in NewElements /\ new \in 1..MaxElements
      /\ child' = [child EXCEPT ![n] = new] /\ window' = window \cup {new}
      /\ UNCHANGED <<calls, pending, status, children, count>>
      /\ locals' = NowAt(At("done", 0, 0)) /\ Top.eff = n /\ ClientRuns /\ Local.at = "render"
  BY <1>2 DEF ShowRendered, RenderReturns, NewElement, NewElements, vars
<1>4. PICK spot \in Spots : spot = At("done", 0, 0) /\ spot.at = "done"
  <2>1. At("done", 0, 0) \in Spots /\ At("done", 0, 0).at = "done"
    BY SpotTypes
  <2>2. QED
    BY <2>1
<1>5. TopMoves(n, spot)
  BY <1>3, <1>4 DEF TopMoves
<1>6. /\ NodeStackInv' /\ Alive(n) /\ Alive(n)' /\ n \notin Fors
      /\ child \in [Shows -> (1..MaxElements) \cup {NoElement}]
      /\ child[n] = NoElement
  <2>1. InRender(n, Local) /\ Local \in Spots
    BY <1>1, <1>3, <1>5, TopMovesNodes, LocalFacts DEF NodeStackInv
  <2>2. QED
    BY <1>1, <1>5, <2>1, TopMovesNodes, GuiFacts DEF GuiTypes, WindowInv, RenderInv
<1>7. /\ \A m \in Shows \ {n} : child'[m] = child[m]
      /\ child'[n] = new
      /\ child' \in [Shows -> (1..MaxElements) \cup {NoElement}]
  BY <1>3, <1>6
<1>8. GuiTypes'
  BY <1>1, <1>3, <1>7 DEF GuiTypes
<1>9. Held(n) = {} /\ Held(n)' = {new}
  <2>1. Held(n) = Recorded(n) /\ Recorded(n) = {}
    BY <1>1, <1>6, HeldIsRecorded DEF Recorded
  <2>2. new # NoElement
    BY <1>3, FlowAssumption
  <2>3. \A el \in 1..MaxElements : el \in Held(n)' <=> el = new
    BY <1>6, <1>7, <2>2 DEF Held, Recorded
  <2>4. QED
    BY <1>3, <2>1, <2>3 DEF Held
<1>10. Stored(n)' \subseteq Stored(n) \cup {NoElement} \cup NewElements
  BY <1>3, <1>7 DEF Stored
<1>11. window' = (window \ Held(n)) \cup Held(n)'
  BY <1>3, <1>9
<1>12. WindowInv'
  BY <1>1, <1>3, <1>4, <1>5, <1>6, <1>7, <1>8, <1>10, <1>11, WindowMoves
<1>13. QED
  BY <1>6, <1>12

\* A <For> reads its signal: all its children leave.
LEMMA ForReadsWindow ==
  ASSUME TypeInv, ValuesWritten, NodeStackInv, WindowInv, NEW n \in Fors, ForReads(n)
  PROVE  NodeStackInv' /\ WindowInv'
<1>1. n \in Nodes /\ GuiTypes /\ n \notin Shows
  BY FlowAssumption DEF Nodes, WindowInv
<1>2. PICK total \in Nat :
        /\ locals' = NowAt(At(IF total > 0 THEN "render" ELSE "done", 1, total))
        /\ children' = [children EXCEPT ![n] = Grown(n, total)]
  <2>1. value[SignalOf[n]] \in Nat
    <3>1. SignalOf[n] \in allocated /\ SignalOf[n] \in Signals
      BY <1>1, FlowAssumption DEF ForReads, SignalGet
    <3>2. value[SignalOf[n]] \in Values
      BY <3>1 DEF TypeInv, TypeOK, ValuesWritten
    <3>3. QED
      BY <3>2, FlowAssumption
  <2>2. QED
    BY <2>1 DEF ForReads
<1>3. PICK spot \in Spots :
        /\ spot = At(IF total > 0 THEN "render" ELSE "done", 1, total)
        /\ spot.at = "render" => total > 0
        /\ spot.item = 1 /\ spot.total = total
  <2>1. PICK at \in {"start", "render", "done"} : at = IF total > 0 THEN "render" ELSE "done"
    OBVIOUS
  <2>2. /\ At(at, 1, total) \in Spots /\ At(at, 1, total).at = at
        /\ At(at, 1, total).item = 1 /\ At(at, 1, total).total = total
    BY SpotTypes
  <2>3. QED
    BY <2>1, <2>2
<1>4. /\ TopMoves(n, spot) /\ Local.at = "start"
      /\ UNCHANGED <<calls, pending, status, child>>
      /\ window' = window \ Recorded(n) /\ count' = [count EXCEPT ![n] = 0]
  BY <1>2, <1>3 DEF ForReads, SignalGet, TopMoves
<1>5. /\ NodeStackInv' /\ Alive(n) /\ Alive(n)'
      /\ \A l : ~InRender(n, l)
      /\ \A l : InRender(n, l)' => l = spot /\ l.at = "render"
  BY <1>1, <1>4, TopMovesNodes
<1>6. PICK grown \in Seq((1..MaxElements) \cup {NoElement}) :
        /\ grown = Grown(n, total) /\ total <= Len(grown)
        /\ Elements(grown) \subseteq Stored(n) \cup {NoElement}
  <2>1. children[n] \in Seq((1..MaxElements) \cup {NoElement}) /\ Len(children[n]) \in Nat
    BY <1>1, GuiFacts
  <2>2. CASE total <= Len(children[n])
    BY <1>1, <2>1, <2>2 DEF Grown, Stored
  <2>3. CASE ~(total <= Len(children[n]))
    <3>1. PICK zeroed : zeroed = [i \in 1..total |-> NoElement]
      OBVIOUS
    <3>2. zeroed \in [1..total -> (1..MaxElements) \cup {NoElement}]
      BY <3>1
    <3>3. zeroed \in Seq((1..MaxElements) \cup {NoElement})
      BY <3>2, SeqDef
    <3>4. DOMAIN zeroed = 1..total /\ Len(zeroed) = total
      BY <3>2, <3>3, LenProperties
    <3>5. Elements(zeroed) \subseteq {NoElement}
      BY <3>1, <3>4 DEF Elements
    <3>6. QED
      BY <2>3, <3>1, <3>3, <3>4, <3>5 DEF Grown
  <2>4. QED
    BY <2>2, <2>3
<1>7. /\ \A m \in Fors \ {n} : children'[m] = children[m] /\ count'[m] = count[m]
      /\ children'[n] = grown /\ count'[n] = 0
      /\ children' \in [Fors -> Seq((1..MaxElements) \cup {NoElement})]
      /\ count' \in [Fors -> Nat]
  BY <1>1, <1>2, <1>4, <1>6 DEF GuiTypes
<1>8. GuiTypes'
  <2>1. Len(grown) \in Nat
    BY <1>6, LenProperties
  <2>2. ASSUME NEW m \in Fors PROVE count'[m] <= Len(children'[m])
    <3>1. CASE m = n
      BY <1>7, <2>1, <3>1
    <3>2. CASE m # n
      BY <1>1, <1>7, <3>2 DEF GuiTypes
    <3>3. QED
      BY <3>1, <3>2
  <2>3. QED
    BY <1>1, <1>4, <1>7, <2>2 DEF GuiTypes
<1>9. Held(n) = Recorded(n) /\ Held(n)' = {}
  <2>1. Held(n) = Recorded(n)
    BY <1>1, <1>5, HeldIsRecorded
  <2>2. Recorded(n)' = {}
    BY <1>1, <1>7 DEF Recorded
  <2>3. ASSUME NEW l \in Spots, InRender(n, l)' PROVE 1..(l.item - 1) = {}
    BY <1>3, <1>5, <2>3
  <2>4. QED
    BY <2>1, <2>2, <2>3 DEF Held
<1>10. window' = (window \ Held(n)) \cup Held(n)'
  BY <1>4, <1>9
<1>11. Stored(n)' \subseteq Stored(n) \cup {NoElement}
  <2>1. Stored(n)' = Elements(grown)
    BY <1>1, <1>7 DEF Stored, Elements
  <2>2. QED
    BY <1>6, <2>1
<1>12. WindowInv'
  BY <1>1, <1>3, <1>4, <1>6, <1>7, <1>8, <1>10, <1>11, WindowMoves
<1>13. QED
  BY <1>5, <1>12

\* What a <For> has in the window, up to the child it is to render next, or all
\* it counted.
LEMMA HeldUpTo ==
  ASSUME GuiTypes, NEW n \in Fors, Alive(n), NEW top \in Nat,
         \/ /\ count[n] = 0
            /\ \E l \in Spots : InRender(n, l) /\ l.item = top + 1
            /\ \A l : InRender(n, l) => l.item = top + 1
         \/ count[n] = top /\ \A l : ~InRender(n, l)
  PROVE  Held(n) = {children[n][k] : k \in 1..top} \cap (1..MaxElements)
<1>1. n \notin Shows /\ NoElement \notin 1..MaxElements
  BY GuiFacts
<1>2. Recorded(n) = {children[n][k] : k \in 1..count[n]} \ {NoElement}
  BY <1>1 DEF Recorded
<1>3. CASE count[n] = top /\ \A l : ~InRender(n, l)
  BY <1>1, <1>2, <1>3 DEF Held
<1>4. CASE /\ count[n] = 0
           /\ \E l \in Spots : InRender(n, l) /\ l.item = top + 1
           /\ \A l : InRender(n, l) => l.item = top + 1
  <2>1. Recorded(n) = {}
    BY <1>2, <1>4
  <2>2. \A l : InRender(n, l) => 1..(l.item - 1) = 1..top
    BY <1>4
  <2>3. QED
    BY <1>4, <2>1, <2>2 DEF Held
<1>5. QED
  BY <1>3, <1>4

\* Its render function returns one child, which enters the window.
LEMMA ForRenderedWindow ==
  ASSUME TypeInv, NodeStackInv, WindowInv, NEW n \in Fors, ForRendered(n)
  PROVE  NodeStackInv' /\ WindowInv'
<1>1. n \in Nodes /\ GuiTypes /\ n \notin Shows /\ NodeStackInv
  BY FlowAssumption DEF Nodes, WindowInv
<1>2. PICK new : new = NewElement
  OBVIOUS
<1>3. PICK l : l = Local
  OBVIOUS
<1>4. /\ new \in NewElements /\ new \in 1..MaxElements
      /\ children' = [children EXCEPT ![n][l.item] = new] /\ window' = window \cup {new}
      /\ UNCHANGED <<calls, pending, status, child>>
      /\ Top.eff = n /\ ClientRuns /\ l.at = "render" /\ l \in Spots
      /\ IF l.item = l.total
         THEN count' = [count EXCEPT ![n] = l.total] /\ locals' = NowAt(At("done", 0, 0))
         ELSE UNCHANGED count /\ locals' = NowAt(At("render", l.item + 1, l.total))
  BY <1>1, <1>2, <1>3, LocalFacts
  DEF ForRendered, RenderReturns, NewElement, NewElements, vars, NodeStackInv
<1>5. l.item \in Nat /\ l.total \in Nat
  BY <1>4 DEF Spots
<1>6. PICK spot \in Spots :
        /\ locals' = NowAt(spot)
        /\ IF l.item = l.total THEN spot.at = "done"
           ELSE spot.at = "render" /\ spot.item = l.item + 1 /\ spot.total = l.total
  <2>1. /\ At("done", 0, 0) \in Spots /\ At("done", 0, 0).at = "done"
        /\ At("render", l.item + 1, l.total) \in Spots
        /\ At("render", l.item + 1, l.total).at = "render"
        /\ At("render", l.item + 1, l.total).item = l.item + 1
        /\ At("render", l.item + 1, l.total).total = l.total
    BY <1>5, SpotTypes
  <2>2. QED
    BY <1>4, <2>1
<1>7. TopMoves(n, spot)
  BY <1>4, <1>6 DEF TopMoves
<1>8. /\ NodeStackInv' /\ Alive(n) /\ Alive(n)'
      /\ \A k : InRender(n, k) <=> k = l /\ k.at = "render"
      /\ \A k : InRender(n, k)' <=> k = spot /\ k.at = "render"
  BY <1>1, <1>3, <1>7, TopMovesNodes
<1>9. /\ count[n] = 0 /\ 1 <= l.item /\ l.item <= l.total /\ l.total <= Len(children[n])
  BY <1>1, <1>4, <1>8 DEF WindowInv, RenderInv
<1>10. PICK old \in Seq((1..MaxElements) \cup {NoElement}) :
         old = children[n] /\ Len(old) \in Nat /\ l.item \in 1..Len(old)
  BY <1>1, <1>5, <1>9, GuiFacts
<1>11. PICK full \in Seq((1..MaxElements) \cup {NoElement}) :
         /\ full = [old EXCEPT ![l.item] = new] /\ Len(full) = Len(old)
         /\ \A k \in 1..Len(old) : full[k] = IF k = l.item THEN new ELSE old[k]
  <2>1. new \in (1..MaxElements) \cup {NoElement} /\ l.item \in 1..Len(old)
    BY <1>4, <1>10
  <2>2. PICK full : full = [old EXCEPT ![l.item] = new]
    OBVIOUS
  <2>3. /\ full \in Seq((1..MaxElements) \cup {NoElement}) /\ Len(full) = Len(old)
        /\ \A k \in 1..Len(old) : full[k] = IF k = l.item THEN new ELSE old[k]
    BY <2>1, <2>2, ExceptSeq
  <2>4. QED
    BY <2>2, <2>3
<1>12. /\ \A m \in Fors \ {n} : children'[m] = children[m]
       /\ children'[n] = full
       /\ children' \in [Fors -> Seq((1..MaxElements) \cup {NoElement})]
  BY <1>1, <1>4, <1>10, <1>11 DEF GuiTypes
<1>13. /\ \A m \in Fors \ {n} : count'[m] = count[m]
       /\ count'[n] = IF l.item = l.total THEN l.total ELSE 0
       /\ count' \in [Fors -> Nat]
  BY <1>1, <1>4, <1>5, <1>9 DEF GuiTypes
<1>14. GuiTypes'
  <2>1. \A m \in Fors : count'[m] <= Len(children'[m])
    BY <1>1, <1>5, <1>9, <1>10, <1>11, <1>12, <1>13 DEF GuiTypes
  <2>2. QED
    BY <1>1, <1>4, <1>12, <1>13, <2>1 DEF GuiTypes
<1>15. Held(n) = {old[k] : k \in 1..(l.item - 1)} \cap (1..MaxElements)
  <2>1. PICK top \in Nat : top = l.item - 1 /\ l.item = top + 1
    BY <1>5, <1>9
  <2>2. /\ \E k \in Spots : InRender(n, k) /\ k.item = top + 1
        /\ \A k : InRender(n, k) => k.item = top + 1
    BY <1>4, <1>8, <2>1
  <2>3. QED
    BY <1>1, <1>8, <1>9, <1>10, <2>1, <2>2, HeldUpTo
<1>16. Held(n)' = {full[k] : k \in 1..l.item} \cap (1..MaxElements)
  <2>1. CASE l.item = l.total
    <3>1. n \in Fors /\ \A k : ~InRender(n, k)'
      BY <1>6, <1>8, <2>1
    <3>2. Recorded(n)' = {full[k] : k \in 1..l.item} \ {NoElement}
      BY <1>1, <1>12, <1>13, <2>1 DEF Recorded
    <3>3. \A el \in 1..MaxElements : el # NoElement
      BY FlowAssumption
    <3>4. QED
      BY <1>8, <3>1, <3>2, <3>3 DEF Held
  <2>2. CASE l.item # l.total
    <3>1. /\ \A k : InRender(n, k)' => k.item = l.item + 1
          /\ InRender(n, spot)' /\ spot.item = l.item + 1
      BY <1>6, <1>8, <2>2
    <3>2. Recorded(n)' = {}
      BY <1>1, <1>13, <2>2 DEF Recorded
    <3>3. \A k : InRender(n, k)' => 1..(k.item - 1) = 1..l.item
      BY <1>5, <3>1, SMTT(30)
    <3>4. QED
      BY <1>8, <1>12, <3>1, <3>2, <3>3 DEF Held
  <2>3. QED
    BY <2>1, <2>2
<1>17. Held(n)' = Held(n) \cup {new}
  <2>1. \A k \in 1..l.item : k \in 1..Len(old) /\ (k \in 1..(l.item - 1) \/ k = l.item)
    BY <1>5, <1>10
  <2>2. \A k \in 1..(l.item - 1) : k \in 1..l.item /\ k # l.item
    BY <1>5
  <2>3. l.item \in 1..l.item /\ full[l.item] = new
    BY <1>5, <1>9, <1>10, <1>11
  <2>4. /\ \A k \in 1..(l.item - 1) : full[k] = old[k]
        /\ \A k \in 1..l.item : full[k] = new \/ (k \in 1..(l.item - 1) /\ full[k] = old[k])
    BY <1>11, <2>1, <2>2, <2>3
  <2>5. QED
    BY <1>4, <1>15, <1>16, <2>2, <2>3, <2>4, SMTT(30)
<1>18. window' = (window \ Held(n)) \cup Held(n)'
  <2>1. Held(n) \subseteq window
    BY <1>1 DEF WindowInv, WindowHeld
  <2>2. QED
    BY <1>4, <1>17, <2>1
<1>19. Stored(n)' \subseteq Stored(n) \cup {NoElement} \cup NewElements
  <2>1. Stored(n)' = Elements(full) /\ Stored(n) = Elements(old)
    BY <1>1, <1>10, <1>12 DEF Stored, Elements
  <2>2. DOMAIN full = 1..Len(old) /\ DOMAIN old = 1..Len(old)
    BY <1>10, <1>11, LenProperties
  <2>3. \A k \in DOMAIN full : full[k] = new \/ full[k] \in Elements(old)
    BY <1>11, <2>2 DEF Elements
  <2>4. Elements(full) \subseteq Elements(old) \cup {new}
    BY <2>3 DEF Elements
  <2>5. QED
    BY <1>4, <2>1, <2>4
<1>20. spot.at = "render" =>
         count'[n] = 0 /\ 1 <= spot.item /\ spot.item <= spot.total /\ spot.total <= Len(children'[n])
  BY <1>5, <1>6, <1>9, <1>10, <1>11, <1>12, <1>13
<1>21. WindowInv'
  BY <1>1, <1>4, <1>7, <1>12, <1>13, <1>14, <1>18, <1>19, <1>20, WindowMoves
<1>22. QED
  BY <1>8, <1>21

\* A node that is disposed of is not in its render function: client code leaves
\* it alone there.
LEMMA NodeDisposeWindow ==
  ASSUME TypeInv, NodeStackInv, WindowInv, PureRenders, ClientMayCall,
         NEW n \in Nodes, NodeDispose(n)
  PROVE  NodeStackInv' /\ WindowInv'
<1>1. /\ n \notin Rendering /\ status[n] = "live" /\ ClientRuns
      /\ status' = [status EXCEPT ![n] = "disposed"]
      /\ UNCHANGED <<pending, calls, locals, child, children>>
      /\ window' = window \ Recorded(n)
      /\ count' = IF n \in Fors THEN [count EXCEPT ![n] = 0] ELSE count
  BY DEF NodeDispose, EffectDispose
<1>2. LocalsOK /\ NodesRender /\ NodesOnce /\ NodesIdle /\ GuiTypes
  BY DEF NodeStackInv, WindowInv
<1>3. Nodes \subseteq Effects /\ status \in [Effects -> {"none", "creating", "live", "disposed"}]
  BY FlowAssumption DEF Nodes, TypeInv, TypeOK
<1>4. \A m \in Nodes : status'[m] = IF m = n THEN "disposed" ELSE status[m]
  BY <1>1, <1>3
<1>5. ~Running(n) /\ \A l : ~InRender(n, l)
  <2>1. ASSUME NEW i \in 1..Len(calls), calls[i].eff = n PROVE FALSE
    <3>1. DOMAIN calls = 1..Len(calls)
      BY TypeFacts, LenProperties
    <3>2. locals[i].at = "render"
      <4>1. CASE i = Len(calls)
        BY <1>2, <2>1, <4>1, LocalFacts DEF ClientMayCall, Renders
      <4>2. CASE i # Len(calls)
        BY <1>2, <2>1, <4>2 DEF NodesRender
      <4>3. QED
        BY <4>1, <4>2
    <3>3. QED
      BY <1>1, <2>1, <3>1, <3>2 DEF Rendering
  <2>2. Len(calls) \in Nat /\ \A i \in 2..Len(calls) : i \in 1..Len(calls)
    BY TypeFacts
  <2>3. QED
    BY <2>1, <2>2 DEF Running, InRender
<1>6. /\ \A m, l : InRender(m, l)' <=> InRender(m, l)
      /\ \A m : Running(m)' <=> Running(m)
      /\ \A m : BeingNotified(m)' <=> BeingNotified(m)
  BY <1>1 DEF InRender, Running, BeingNotified, Top
<1>7. \A m \in Nodes : Alive(m)' <=> Alive(m) /\ m # n
  BY <1>4 DEF Alive
<1>8. NodeStackInv'
  <2>1. LocalsOK' /\ NodesRender' /\ NodesOnce'
    BY <1>1, <1>2 DEF LocalsOK, NodesRender, NodesOnce, ClientRuns, Top
  <2>2. NodesIdle'
    BY <1>1, <1>2, <1>5, <1>6, <1>7 DEF NodesIdle
  <2>3. QED
    BY <2>1, <2>2 DEF NodeStackInv
<1>9. /\ \A m \in Fors : count'[m] = IF m = n THEN 0 ELSE count[m]
      /\ count' \in [Fors -> Nat]
  BY <1>1, <1>2 DEF GuiTypes
<1>10. GuiTypes'
  <2>1. \A m \in Fors : count'[m] <= Len(children'[m])
    BY <1>1, <1>2, <1>9, GuiFacts
  <2>2. QED
    BY <1>1, <1>2, <1>9, <2>1 DEF GuiTypes
<1>11. RenderInv'
  BY <1>1, <1>5, <1>6, <1>9 DEF WindowInv, RenderInv
<1>12. \A m \in Nodes \ {n} : Recorded(m)' = Recorded(m)
  BY <1>1, <1>9 DEF Recorded, Nodes
<1>13. NoneYet'
  BY <1>4, <1>12 DEF WindowInv, NoneYet
<1>14. \A m \in Nodes : Stored(m)' = Stored(m)
  BY <1>1 DEF Stored, Elements
<1>15. \A m \in Nodes \ {n} : Held(m)' = Held(m)
  BY <1>1, <1>6, <1>7, <1>12 DEF Held
<1>16. Held(n) = Recorded(n) /\ Held(n)' = {}
  <2>1. Held(n) = Recorded(n)
    BY <1>1, <1>2, <1>5, HeldIsRecorded DEF Alive
  <2>2. Held(n)' = {}
    BY <1>7 DEF Held
  <2>3. QED
    BY <2>1, <2>2
<1>17. window' = (window \ Held(n)) \cup Held(n)'
  BY <1>1, <1>16
<1>18. Apart' /\ WindowHeld'
  BY <1>14, <1>15, <1>17, OneNodeMoves
<1>19. QED
  BY <1>8, <1>10, <1>11, <1>13, <1>18 DEF WindowInv

\* Whatever step is taken, the window holds what the nodes have in it.
LEMMA WindowStep ==
  ASSUME TypeInv, PendingExact, StartedInv, NodeStackInv, WindowInv, PureRenders,
         [FlowNext]_flowVars
  PROVE  NodeStackInv' /\ WindowInv'
<1>1. Started /\ ValuesWritten
  BY DEF StartedInv
<1>2. ASSUME LocalsFollow, UNCHANGED guiVars,
             (FlowClient /\ ClientMayCall) \/ Library \/ FlowReturn
      PROVE  NodeStackInv' /\ WindowInv'
  <2>1. Undisturbed
    BY <1>1, <1>2, CoreUndisturbed
  <2>2. QED
    BY <1>2, <2>1, CoreWindow DEF Undisturbed
<1>3. ASSUME ClientStep PROVE NodeStackInv' /\ WindowInv'
  BY <1>2, <1>3, NodeDisposeWindow DEF ClientStep
<1>4. ASSUME NodeStep PROVE NodeStackInv' /\ WindowInv'
  BY <1>1, <1>4, ShowReadsWindow, ShowRenderedWindow, ForReadsWindow, ForRenderedWindow
  DEF NodeStep
<1>5. ASSUME UNCHANGED flowVars PROVE NodeStackInv' /\ WindowInv'
  <2>1. UNCHANGED <<calls, pending, status, guiVars>> /\ locals' = locals
    BY <1>5 DEF flowVars, vars
  <2>2. Undisturbed
    BY <2>1, CallsStay
  <2>3. QED
    BY <2>1, <2>2, CoreWindow DEF Undisturbed
<1>6. QED
  BY <1>2, <1>3, <1>4, <1>5 DEF FlowNext, FlowLibrary, BodyEnds

\* At first nothing runs and nothing is shown.
LEMMA InitWindow == FlowInit => NodeStackInv /\ WindowInv /\ CreationsRun
<1> SUFFICES ASSUME FlowInit PROVE NodeStackInv /\ WindowInv /\ CreationsRun
  OBVIOUS
<1>1. /\ Init /\ window = {} /\ child = [n \in Shows |-> NoElement]
      /\ children = [n \in Fors |-> <<>>] /\ count = [n \in Fors |-> 0]
      /\ locals = <<At("start", 0, 0)>>
  BY DEF FlowInit
<1>2. TypeInv
  BY <1>1, InitTypeInv
<1>3. At("start", 0, 0) \in Spots
  BY SpotTypes
<1>4. Len(calls) = 1 /\ \A i \in 1..Len(calls) : calls[i].eff \notin Nodes
  <2>1. Len(calls) = 1 /\ calls[1].eff = Main
    BY <1>1, <1>2, TypeFacts DEF Init, Enter, TypeInv, StackOK
  <2>2. Main \notin Nodes
    BY ConstantsAssumption, FlowAssumption DEF Nodes
  <2>3. QED
    BY <2>1, <2>2
<1>5. LocalsOK
  BY <1>1, <1>3, <1>4 DEF LocalsOK
<1>6. \A n : ~Running(n)
  BY <1>4 DEF Running
<1>7. NodeStackInv
  BY <1>4, <1>5, <1>6 DEF NodeStackInv, NodesRender, NodesOnce, NodesIdle
<1>8. \A e \in Effects : status[e] = "none"
  BY <1>1 DEF Init
<1>9. CreationsRun
  BY <1>8 DEF CreationsRun
<1>10. Nodes \subseteq Effects
  BY FlowAssumption DEF Nodes
<1>11. \A n \in Nodes : ~Alive(n) /\ Recorded(n) = {} /\ Stored(n) \subseteq {NoElement}
  <2>1. Elements(<<>>) = {}
    BY EmptySeq DEF Elements
  <2>2. QED
    BY <1>1, <1>8, <1>10, <2>1 DEF Alive, Recorded, Stored, Nodes
<1>12. GuiTypes
  <2>1. <<>> \in Seq((1..MaxElements) \cup {NoElement}) /\ Len(<<>>) = 0
    BY EmptySeq
  <2>2. QED
    BY <1>1, <2>1 DEF GuiTypes
<1>13. RenderInv
  BY <1>4 DEF RenderInv, InRender
<1>14. Apart /\ NoneYet
  BY <1>11 DEF Apart, NoneYet
<1>15. WindowHeld
  BY <1>1, <1>11 DEF WindowHeld, Held
<1>16. QED
  BY <1>7, <1>9, <1>12, <1>13, <1>14, <1>15 DEF WindowInv

\* When the main program has control no body runs, and every node that exists
\* has been created.
LEMMA MainSeesRecorded ==
  ASSUME TypeInv, NodeStackInv, WindowInv, CreationsRun
  PROVE  WindowIsRecorded
<1> SUFFICES ASSUME Depth = 0
             PROVE  window = UNION {Recorded(n) : n \in {m \in Nodes : status[m] = "live"}}
  BY DEF WindowIsRecorded
<1>1. Len(calls) = 1 /\ calls[1].eff \notin Nodes
  BY LocalFacts DEF Depth, NodeStackInv
<1>2. \A n \in Nodes : \A l : ~InRender(n, l)
  BY <1>1 DEF InRender
<1>3. Nodes \subseteq Effects /\ GuiTypes /\ window = UNION {Held(n) : n \in Nodes}
  BY FlowAssumption DEF Nodes, WindowInv, WindowHeld
<1>4. \A n \in Nodes : status[n] # "creating"
  BY <1>1, <1>3 DEF CreationsRun
<1>5. \A n \in Nodes : Held(n) = IF status[n] = "live" THEN Recorded(n) ELSE {}
  BY <1>2, <1>3, <1>4, HeldIsRecorded DEF Alive
<1>6. QED
  BY <1>3, <1>5

LEMMA FlowNextIsReactive == [FlowNext]_flowVars => [Next]_vars
BY FlowIsReactive DEF FlowNext, flowVars

\* A behaviour of the control flow is one of the reactive core.
LEMMA FlowSpecIsReactive == FlowSpec => Spec
<1>1. FlowInit => Init
  BY DEF FlowInit
<1>2. [FlowNext]_flowVars => [Next]_vars
  BY FlowNextIsReactive
<1>3. QED
  BY <1>1, <1>2, PTL DEF FlowSpec, Spec

\* If client code leaves a node alone while it renders, then whenever the main
\* program has control the window shows exactly what the live nodes recorded
\* (solite_control_flow.c), whatever render functions read, write and create.
THEOREM WindowShowsChildren ==
  ASSUME PureRenders
  PROVE  FlowSpec => []WindowIsRecorded
<1>1. FlowInit => StartedInv
  BY InitStarted DEF FlowInit
<1>2. TypeInv /\ PendingExact /\ StartedInv /\ [Next]_vars => StartedInv'
  BY StartedStep, ValuesStep DEF StartedInv
<1>3. TypeInv /\ CreationsRun /\ [Next]_vars => CreationsRun'
  BY CreationsStep
<1>4. /\ TypeInv /\ PendingExact /\ StartedInv /\ NodeStackInv /\ WindowInv /\ [FlowNext]_flowVars
        => NodeStackInv' /\ WindowInv'
  BY WindowStep
<1>5. TypeInv /\ NodeStackInv /\ WindowInv /\ CreationsRun => WindowIsRecorded
  BY MainSeesRecorded
<1>6. Spec => []TypeInv /\ []PendingExact
  BY StackShape, PendingIsExact, PTL
<1>7. [FlowNext]_flowVars => [Next]_vars
  BY FlowNextIsReactive
<1>8. QED
  BY <1>1, <1>2, <1>3, <1>4, <1>5, <1>6, <1>7, InitWindow, FlowSpecIsReactive, PTL DEF FlowSpec

-----------------------------------------------------------------------------
(* The children and the signal *)

\* The body of a node is in front of reading its signal.
Starting(n) == \E i \in 1..Len(calls) : calls[i].eff = n /\ locals[i].at = "start"

\* What a node read in its signal when its body last ran.
ReadIs(n) == seen[n][SignalOf[n]]

\* A node's signal outlives the node.
SigsInUse == \A n \in Nodes : Alive(n) => SignalOf[n] \in allocated

\* What a node renders, or has recorded, is what it read.
AsRead(n) ==
  /\ ReadIs(n) \in Values
  /\ \A l \in Spots : InRender(n, l) =>
       /\ value[SignalOf[n]] = ReadIs(n)
       /\ n \in Shows => ReadIs(n) # 0
       /\ n \in Fors => l.total = ReadIs(n)
  /\ (\A l \in Spots : ~InRender(n, l)) =>
       /\ n \in Shows => (child[n] = NoElement <=> ReadIs(n) = 0)
       /\ n \in Fors => count[n] = ReadIs(n)

NodesAsRead == \A n \in Nodes : Alive(n) /\ ~Starting(n) => AsRead(n)

\* The first top places of a list hold different elements.
Placed(list, top) ==
  \A i \in 1..top :
    /\ list[i] # NoElement
    /\ \A j \in 1..top : list[i] = list[j] => i = j

Distinct ==
  \A n \in Fors :
    /\ Placed(children[n], count[n])
    /\ \A l \in Spots : InRender(n, l) => Placed(children[n], l.item - 1)

MatchInv == SigsInUse /\ NodesAsRead /\ Distinct

\* What a step below the nodes keeps for the nodes that it does not start.
NodesKept ==
  /\ SigsInUse'
  /\ \A n \in Nodes : Alive(n)' /\ ~Starting(n)' =>
       /\ Alive(n) /\ ~Starting(n) /\ ReadIs(n)' = ReadIs(n)
       /\ (\E l \in Spots : InRender(n, l)) => value'[SignalOf[n]] = value[SignalOf[n]]

\* No node is in front of its read while client code or the library goes on, or
\* when its body returns.
LEMMA NoneStarts ==
  ASSUME TypeInv, NodeStackInv,
         \/ FlowClient /\ ClientMayCall
         \/ Library
         \/ FlowReturn
  PROVE  /\ \A n : n \in Nodes => ~Starting(n)
         /\ Top.eff \in Nodes /\ ~FlowReturn => \E l \in Spots : InRender(Top.eff, l)
<1>1. Len(calls) \in Nat /\ Len(calls) \in 1..Len(calls)
      /\ Local = locals[Len(calls)] /\ Local \in Spots /\ Top = calls[Len(calls)]
  BY LocalFacts DEF NodeStackInv
<1>2. Top.eff \in Nodes => Local.at # "start"
  <2>1. Library => ~ClientRuns
    BY DEF Library, EffectSchedule, NotifyDone, FlushSnapshot, FlushNext, FlushReturn, ClientRuns
  <2>2. ~ClientRuns /\ Top.eff \in Nodes => Local.at = "render"
    BY <1>1 DEF NodeStackInv, NodesRender
  <2>3. QED
    BY <2>1, <2>2 DEF ClientMayCall, Renders, FlowReturn
<1>3. Top.eff \in Nodes /\ ~FlowReturn => Local.at = "render"
  <2>1. Library => ~ClientRuns
    BY DEF Library, EffectSchedule, NotifyDone, FlushSnapshot, FlushNext, FlushReturn, ClientRuns
  <2>2. ~ClientRuns /\ Top.eff \in Nodes => Local.at = "render"
    BY <1>1 DEF NodeStackInv, NodesRender
  <2>3. QED
    BY <2>1, <2>2 DEF ClientMayCall, Renders
<1>4. ASSUME NEW n \in Nodes, NEW i \in 1..Len(calls), calls[i].eff = n
      PROVE  locals[i].at # "start"
  BY <1>1, <1>2, <1>4 DEF NodeStackInv, NodesRender
<1>5. QED
  BY <1>1, <1>3, <1>4 DEF Starting, InRender

\* Signals and reads stay, and no node comes to life.
LEMMA ReadsStay ==
  ASSUME SigsInUse, \A n \in Nodes : ~Starting(n),
         UNCHANGED <<allocated, value, seen>>,
         \A n \in Nodes : Alive(n)' => Alive(n)
  PROVE  NodesKept
BY DEF SigsInUse, NodesKept, ReadIs

\* A body that starts reads anew.
LEMMA StartedReads ==
  ASSUME TypeInv, NodeStackInv, LocalsFollow, SigsInUse, \A n \in Nodes : ~Starting(n),
         NEW op \in Ops, NEW rest \in Seq(Effects), NEW f \in Effects, RunBody(f, op, rest),
         UNCHANGED <<allocated, value>>,
         \A n \in Nodes \ {f} : Alive(n)' => Alive(n),
         f \in Nodes /\ Alive(f)' => SignalOf[f] \in allocated
  PROVE  NodesKept
<1>1. Nodes \subseteq Effects
  BY FlowAssumption DEF Nodes
<1>2. \A n \in Nodes \ {f} : seen'[n] = seen[n]
  BY <1>1 DEF RunBody, TypeInv, TypeOK
<1>3. Starting(f)'
  <2>1. /\ Len(calls') = Len(calls) + 1 /\ locals' = Append(locals, At("start", 0, 0))
        /\ calls'[Len(calls) + 1].eff = f
    BY RunBodyStarts DEF Starts, NodeStackInv
  <2>2. locals \in Seq(Spots) /\ Len(locals) = Len(calls) /\ Len(calls) \in Nat
    BY LocalFacts DEF NodeStackInv, LocalsOK
  <2>3. PICK spot \in Spots : spot = At("start", 0, 0) /\ spot.at = "start"
    <3>1. At("start", 0, 0) \in Spots /\ At("start", 0, 0).at = "start"
      BY SpotTypes
    <3>2. QED
      BY <3>1
  <2>4. locals'[Len(calls) + 1] = spot
    BY <2>1, <2>2, <2>3, AppendProperties
  <2>5. Len(calls) + 1 \in 1..Len(calls')
    BY <2>1, <2>2
  <2>6. QED
    BY <2>1, <2>3, <2>4, <2>5 DEF Starting
<1>4. SigsInUse'
  BY DEF SigsInUse
<1>5. QED
  BY <1>2, <1>3, <1>4 DEF NodesKept, ReadIs

\* Client code below the nodes writes no signal that a rendering node read.
LEMMA CoreReads ==
  ASSUME TypeInv, PendingExact, Started, ReadSubscribed, NodeStackInv, MatchInv, PureRenders,
         LocalsFollow,
         \/ FlowClient /\ ClientMayCall
         \/ Library
         \/ FlowReturn
  PROVE  NodesKept
<1> USE TypeFacts
<1>1. /\ Nodes \subseteq Effects /\ \A n \in Nodes : SignalOf[n] \in Signals
      /\ seen \in [Effects -> [Signals -> Values \cup {NoValue}]]
      /\ value \in [Signals -> Values \cup {NoValue}]
      /\ status \in [Effects -> {"none", "creating", "live", "disposed"}]
      /\ SigsInUse /\ NodesAsRead
  BY FlowAssumption DEF Nodes, TypeInv, TypeOK, MatchInv
<1>2. /\ \A n \in Nodes : ~Starting(n)
      /\ Top.eff \in Nodes /\ ~FlowReturn => \E l \in Spots : InRender(Top.eff, l)
  BY NoneStarts
<1>3. ASSUME UNCHANGED <<allocated, value, seen>>, \A n \in Nodes : Alive(n)' => Alive(n)
      PROVE  NodesKept
  BY <1>1, <1>2, <1>3, ReadsStay
<1>4. ASSUME FlowClient, ClientMayCall PROVE NodesKept
  <2>1. ASSUME NEW s \in Signals, NEW v \in Values, SignalCreate(s, v) PROVE NodesKept
    <3>1. /\ allocated' = allocated \cup {s} /\ s \notin allocated
          /\ \A n \in Nodes : Alive(n)' <=> Alive(n)
          /\ \A n \in Nodes : Alive(n) => SignalOf[n] # s
      BY <1>1, <2>1 DEF SignalCreate, Alive, SigsInUse
    <3>2. ASSUME NEW n \in Nodes, Alive(n)
          PROVE  ReadIs(n)' = ReadIs(n) /\ value'[SignalOf[n]] = value[SignalOf[n]]
      BY <1>1, <2>1, <3>1, <3>2 DEF SignalCreate, ReadIs
    <3>3. SigsInUse'
      BY <1>1, <3>1 DEF SigsInUse
    <3>4. QED
      BY <1>2, <3>1, <3>2, <3>3 DEF NodesKept
  <2>2. ASSUME NEW s \in Signals, NEW v \in Values, ~Disturbs(s), SignalSet(s, v)
        PROVE  NodesKept
    <3>1. /\ UNCHANGED <<allocated, status, seen>> /\ value' = [value EXCEPT ![s] = v]
          /\ s \in allocated
      BY <2>2 DEF SignalSet
    <3>2. ASSUME NEW n \in Nodes, Alive(n), NEW l \in Spots, InRender(n, l)
          PROVE  SignalOf[n] # s
      <4>1. ReadIs(n) \in Values /\ value[SignalOf[n]] = ReadIs(n)
        BY <1>1, <1>2, <3>2 DEF NodesAsRead, AsRead
      <4>2. PICK i \in 1..Len(calls) : calls[i].eff = n /\ locals[i] = l /\ l.at = "render"
        BY <3>2 DEF InRender
      <4>3. n \in Rendering
        BY <4>2, LenProperties DEF Rendering
      <4>4. SUFFICES ASSUME SignalOf[n] = s PROVE FALSE
        OBVIOUS
      <4>5. seen[n][s] # NoValue
        BY <4>1, <4>4, ConstantsAssumption DEF ReadIs
      <4>6. n \in Elements(subs[s])
        BY <1>1, <3>1, <4>5 DEF ReadSubscribed
      <4>7. QED
        BY <2>2, <4>3, <4>6 DEF Disturbs
    <3>3. \A n \in Nodes : Alive(n)' <=> Alive(n)
      BY <3>1 DEF Alive
    <3>4. SigsInUse'
      BY <1>1, <3>1, <3>3 DEF SigsInUse
    <3>5. QED
      BY <1>1, <1>2, <3>1, <3>2, <3>3, <3>4 DEF NodesKept, ReadIs
  <2>3. ASSUME NEW s \in Signals, SignalGet(s) PROVE NodesKept
    <3>1. /\ UNCHANGED <<allocated, value, status>>
          /\ seen' = IF Top.eff = Main THEN seen
                     ELSE [seen EXCEPT ![Top.eff] = [@ EXCEPT ![s] = value[s]]]
          /\ ClientRuns
      BY <2>3 DEF SignalGet
    <3>2. \A n \in Nodes : Alive(n)' <=> Alive(n)
      BY <3>1 DEF Alive
    <3>3. ASSUME NEW n \in Nodes, Alive(n) PROVE ReadIs(n)' = ReadIs(n)
      <4>1. CASE Top.eff # n \/ SignalOf[n] # s
        BY <1>1, <3>1, <4>1 DEF ReadIs
      <4>2. CASE Top.eff = n /\ SignalOf[n] = s
        <5>1. ~FlowReturn
          BY <1>4, <4>2 DEF FlowReturn, ClientMayCall, Renders
        <5>2. value[SignalOf[n]] = ReadIs(n)
          BY <1>1, <1>2, <3>3, <4>2, <5>1 DEF NodesAsRead, AsRead
        <5>3. QED
          BY <1>1, <3>1, <4>2, <5>2 DEF ReadIs
      <4>3. QED
        BY <4>1, <4>2
    <3>4. SigsInUse'
      BY <1>1, <3>1, <3>2 DEF SigsInUse
    <3>5. QED
      BY <1>1, <1>2, <3>1, <3>2, <3>3, <3>4 DEF NodesKept
  <2>4. ASSUME NEW s \in Signals, ~InUse(s), SignalDispose(s) PROVE NodesKept
    <3>1. /\ UNCHANGED <<value, seen, status>> /\ allocated' = allocated \ {s}
      BY <2>4 DEF SignalDispose
    <3>2. \A n \in Nodes : Alive(n)' <=> Alive(n)
      BY <3>1 DEF Alive
    <3>3. SigsInUse'
      BY <1>1, <2>4, <3>1, <3>2 DEF SigsInUse, InUse
    <3>4. QED
      BY <1>2, <3>1, <3>2, <3>3 DEF NodesKept, ReadIs
  <2>5. ASSUME NEW e \in Effects, EffectCreate(e), e \in Nodes => SignalOf[e] \in allocated
        PROVE  NodesKept
    <3>1. /\ RunBody(e, "create", <<>>) /\ "create" \in Ops /\ <<>> \in Seq(Effects)
          /\ UNCHANGED <<allocated, value>>
          /\ \A n \in Nodes \ {e} : status'[n] = status[n]
      BY <1>1, <2>5, EmptySeq DEF EffectCreate, signalVars, Ops
    <3>2. \A n \in Nodes \ {e} : Alive(n)' => Alive(n)
      BY <3>1 DEF Alive
    <3>3. QED
      BY <1>1, <1>2, <2>5, <3>1, <3>2, StartedReads
  <2>6. ASSUME NEW e \in Effects \ Nodes, EffectDispose(e) PROVE NodesKept
    <3>1. \A n \in Nodes : Alive(n)' => Alive(n)
      BY <1>1, <2>6 DEF EffectDispose, Alive
    <3>2. QED
      BY <1>3, <2>6, <3>1 DEF EffectDispose, signalVars
  <2>7. ASSUME BatchStart \/ BatchEnd \/ FlushCall PROVE NodesKept
    <3>1. UNCHANGED <<allocated, value, seen, status>>
      BY <2>7 DEF BatchStart, BatchEnd, FlushCall, signalVars
    <3>2. QED
      BY <1>3, <3>1 DEF Alive
  <2>8. QED
    BY <1>1, <1>4, <2>1, <2>2, <2>3, <2>4, <2>5, <2>6, <2>7 DEF FlowClient
<1>5. ASSUME Library PROVE NodesKept
  <2>1. ASSUME FlushNext PROVE NodesKept
    <3>1. PICK e \in Effects : e = Head(Top.rest) /\ pending[e] /\ Tail(Top.rest) \in Seq(Effects)
      BY <2>1, FlushNextStarted DEF FlushNext
    <3>2. /\ UNCHANGED <<allocated, value, status>>
          /\ \/ RunBody(e, "flush", Tail(Top.rest)) /\ status[e] # "disposed"
             \/ seen' = seen
      BY <2>1, <3>1 DEF FlushNext, signalVars
    <3>3. \A n \in Nodes : Alive(n)' <=> Alive(n)
      BY <3>2 DEF Alive
    <3>4. CASE RunBody(e, "flush", Tail(Top.rest)) /\ status[e] # "disposed"
      <4>1. "flush" \in Ops
        BY DEF Ops
      <4>2. e \in Nodes /\ Alive(e)' => SignalOf[e] \in allocated
        BY <1>1, <3>3 DEF SigsInUse
      <4>3. QED
        BY <1>1, <1>2, <3>1, <3>2, <3>3, <3>4, <4>1, <4>2, StartedReads
    <3>5. QED
      BY <1>3, <3>2, <3>3, <3>4
  <2>2. ASSUME EffectSchedule \/ NotifyDone \/ FlushSnapshot \/ FlushReturn PROVE NodesKept
    <3>1. UNCHANGED <<allocated, value, seen, status>>
      BY <2>2 DEF EffectSchedule, NotifyDone, FlushSnapshot, FlushReturn, signalVars
    <3>2. QED
      BY <1>3, <3>1 DEF Alive
  <2>3. QED
    BY <1>5, <2>1, <2>2 DEF Library
<1>6. ASSUME FlowReturn PROVE NodesKept
  <2>1. /\ UNCHANGED <<allocated, value, seen>>
        /\ status' = status \/ status' = [status EXCEPT ![Top.eff] = "live"]
        /\ Depth > 0
    BY <1>6 DEF FlowReturn, BodyReturn, signalVars
  <2>2. Top.eff \in Nodes => Alive(Top.eff)
    <3>1. Len(calls) \in 1..Len(calls)
      OBVIOUS
    <3>2. QED
      BY <3>1, RenderingRuns DEF NodeStackInv, NodesIdle, Top
  <2>3. \A n \in Nodes : Alive(n)' => Alive(n)
    BY <1>1, <2>1, <2>2 DEF Alive
  <2>4. QED
    BY <1>3, <2>1, <2>3
<1>7. QED
  BY <1>4, <1>5, <1>6

\* What happens below the nodes leaves what they read and show alone.
LEMMA CoreMatch ==
  ASSUME Undisturbed, NodesKept, MatchInv, UNCHANGED guiVars
  PROVE  MatchInv'
<1>1. /\ \A n \in Nodes : \A l : InRender(n, l)' <=> InRender(n, l)
      /\ UNCHANGED <<child, children, count>>
  BY DEF Undisturbed, guiVars
<1>2. Distinct'
  <2>1. \A n \in Fors : n \in Nodes
    BY DEF Nodes
  <2>2. QED
    BY <1>1, <2>1 DEF MatchInv, Distinct
<1>3. ASSUME NEW n \in Nodes, Alive(n)', ~Starting(n)' PROVE AsRead(n)'
  <2>1. /\ AsRead(n) /\ ReadIs(n)' = ReadIs(n)
        /\ (\E l \in Spots : InRender(n, l)) => value'[SignalOf[n]] = value[SignalOf[n]]
    BY <1>3 DEF NodesKept, MatchInv, NodesAsRead
  <2>2. QED
    BY <1>1, <2>1 DEF AsRead
<1>4. QED
  BY <1>2, <1>3 DEF MatchInv, NodesAsRead, NodesKept

\* A node moves: what it reads, renders and records is for it to show, the rest
\* stays.
LEMMA MatchMoves ==
  ASSUME TypeInv, NodeStackInv, MatchInv, NEW n \in Nodes, NEW spot \in Spots, TopMoves(n, spot),
         spot.at # "start",
         UNCHANGED <<allocated, value>>,
         \A m \in Nodes \ {n} : seen'[m] = seen[m],
         \A m \in Shows \ {n} : child'[m] = child[m],
         \A m \in Fors \ {n} : children'[m] = children[m] /\ count'[m] = count[m],
         AsRead(n)',
         n \in Fors =>
           /\ Placed(children'[n], count'[n])
           /\ spot.at = "render" => Placed(children'[n], spot.item - 1)
  PROVE  MatchInv'
<1>1. /\ \A m \in Nodes : Alive(m)' <=> Alive(m)
      /\ \A m \in Nodes \ {n} : \A l : InRender(m, l)' <=> InRender(m, l)
      /\ \A l : InRender(n, l)' <=> l = spot /\ l.at = "render"
  BY TopMovesNodes
<1>2. \A m \in Nodes \ {n} : Starting(m)' <=> Starting(m)
  <2>1. /\ calls' = calls /\ calls[Len(calls)].eff = n /\ locals' = NowAt(spot)
        /\ locals \in Seq(Spots) /\ Len(locals) = Len(calls)
        /\ Len(calls) \in 1..Len(calls)
    BY TypeFacts, LocalFacts DEF TopMoves, NodeStackInv, LocalsOK, Top
  <2>2. \A i \in 1..Len(calls) : i # Len(calls) => locals'[i] = locals[i]
    BY <2>1, ExceptSeq DEF NowAt
  <2>3. QED
    BY <2>1, <2>2 DEF Starting
<1>3. SigsInUse'
  BY <1>1 DEF MatchInv, SigsInUse
<1>4. ASSUME NEW m \in Nodes, Alive(m)', ~Starting(m)' PROVE AsRead(m)'
  <2>1. CASE m = n
    BY <2>1
  <2>2. CASE m # n
    <3>1. AsRead(m)
      BY <1>1, <1>2, <1>4, <2>2 DEF MatchInv, NodesAsRead
    <3>2. ReadIs(m)' = ReadIs(m) /\ value' = value
      BY <2>2 DEF ReadIs
    <3>3. \A l : InRender(m, l)' <=> InRender(m, l)
      BY <1>1, <2>2
    <3>4. QED
      BY <2>2, <3>1, <3>2, <3>3 DEF AsRead
  <2>3. QED
    BY <2>1, <2>2
<1>5. Distinct'
  <2> SUFFICES ASSUME NEW m \in Fors
               PROVE  /\ Placed(children'[m], count'[m])
                      /\ \A l \in Spots : InRender(m, l)' => Placed(children'[m], l.item - 1)
    BY DEF Distinct
  <2>1. CASE m = n
    BY <1>1, <2>1
  <2>2. CASE m # n
    <3>1. m \in Nodes \ {n}
      BY <2>2 DEF Nodes
    <3>2. QED
      BY <1>1, <2>2, <3>1 DEF MatchInv, Distinct
  <2>3. QED
    BY <2>1, <2>2
<1>6. QED
  BY <1>3, <1>4, <1>5 DEF MatchInv, NodesAsRead

\* The reads of a node: it sees its signal's value, other nodes see nothing new.
LEMMA NodeReads ==
  ASSUME TypeInv, ValuesWritten, NEW n \in Nodes, Top.eff = n, SignalGet(SignalOf[n])
  PROVE  /\ ReadIs(n)' = value[SignalOf[n]] /\ value[SignalOf[n]] \in Values
         /\ \A m \in Nodes \ {n} : seen'[m] = seen[m]
         /\ UNCHANGED <<allocated, value>>
<1>1. /\ Nodes \subseteq Effects /\ SignalOf[n] \in Signals /\ n # Main
      /\ seen \in [Effects -> [Signals -> Values \cup {NoValue}]]
      /\ value \in [Signals -> Values \cup {NoValue}]
  BY FlowAssumption, ConstantsAssumption DEF Nodes, TypeInv, TypeOK
<1>2. /\ seen' = [seen EXCEPT ![n] = [@ EXCEPT ![SignalOf[n]] = value[SignalOf[n]]]]
      /\ UNCHANGED <<allocated, value>> /\ SignalOf[n] \in allocated
  BY <1>1 DEF SignalGet
<1>3. seen'[n][SignalOf[n]] = value[SignalOf[n]] /\ \A m \in Nodes \ {n} : seen'[m] = seen[m]
  BY <1>1, <1>2
<1>4. value[SignalOf[n]] \in Values
  BY <1>1, <1>2 DEF ValuesWritten
<1>5. QED
  BY <1>2, <1>3, <1>4 DEF ReadIs

\* A node that is in its render function is not in front of its read.
LEMMA RendersOnce ==
  ASSUME TypeInv, NodeStackInv, NEW n \in Nodes, NEW l, InRender(n, l)
  PROVE  ~Starting(n)
BY DEF NodeStackInv, NodesOnce, InRender, Starting

LEMMA ShowReadsMatch ==
  ASSUME TypeInv, ValuesWritten, NodeStackInv, WindowInv, MatchInv, NEW n \in Shows, ShowReads(n)
  PROVE  MatchInv'
<1>1. n \in Nodes /\ n \notin Fors /\ child \in [Shows -> (1..MaxElements) \cup {NoElement}]
  BY GuiFacts DEF Nodes, WindowInv, GuiTypes
<1>2. PICK v \in Values : v = value[SignalOf[n]]
  BY <1>1, NodeReads DEF ShowReads
<1>3. /\ UNCHANGED <<children, count, calls, pending, status, allocated, value>>
      /\ \A m \in Nodes \ {n} : seen'[m] = seen[m]
      /\ ReadIs(n)' = v /\ value'[SignalOf[n]] = v
      /\ child' = IF v # 0 THEN child ELSE [child EXCEPT ![n] = NoElement]
      /\ locals' = NowAt(At(IF v # 0 /\ child[n] = NoElement THEN "render" ELSE "done", 0, 0))
      /\ Top.eff = n /\ ClientRuns
  BY <1>1, <1>2, NodeReads DEF ShowReads, SignalGet
<1>4. PICK at \in {"start", "render", "done"} :
        at = IF v # 0 /\ child[n] = NoElement THEN "render" ELSE "done"
  OBVIOUS
<1>5. PICK spot \in Spots : spot = At(at, 0, 0) /\ spot.at = at
  <2>1. At(at, 0, 0) \in Spots /\ At(at, 0, 0).at = at
    BY SpotTypes
  <2>2. QED
    BY <2>1
<1>6. TopMoves(n, spot) /\ spot.at # "start"
  BY <1>3, <1>4, <1>5 DEF TopMoves
<1>7. \A l : InRender(n, l)' <=> l = spot /\ at = "render"
  BY <1>1, <1>5, <1>6, TopMovesNodes
<1>8. /\ \A m \in Shows \ {n} : child'[m] = child[m]
      /\ child'[n] = IF v # 0 THEN child[n] ELSE NoElement
  BY <1>1, <1>3
<1>9. AsRead(n)'
  <2>1. \A l \in Spots : InRender(n, l)' => v # 0
    BY <1>4, <1>7
  <2>2. (\A l \in Spots : ~InRender(n, l)') => (child'[n] = NoElement <=> v = 0)
    BY <1>4, <1>7, <1>8
  <2>3. QED
    BY <1>1, <1>3, <2>1, <2>2 DEF AsRead
<1>10. QED
  BY <1>1, <1>3, <1>6, <1>8, <1>9, MatchMoves

LEMMA ShowRenderedMatch ==
  ASSUME TypeInv, NodeStackInv, WindowInv, MatchInv, NEW n \in Shows, ShowRendered(n)
  PROVE  MatchInv'
<1>1. n \in Nodes /\ n \notin Fors /\ child \in [Shows -> (1..MaxElements) \cup {NoElement}]
  BY GuiFacts DEF Nodes, WindowInv, GuiTypes
<1>2. /\ UNCHANGED <<children, count, calls, pending, status, allocated, value, seen>>
      /\ child' = [child EXCEPT ![n] = NewElement] /\ NewElement \in 1..MaxElements
      /\ locals' = NowAt(At("done", 0, 0)) /\ Top.eff = n /\ ClientRuns /\ Local.at = "render"
  BY DEF ShowRendered, RenderReturns, NewElement, NewElements, vars, signalVars
<1>3. PICK spot \in Spots : spot = At("done", 0, 0) /\ spot.at = "done"
  <2>1. At("done", 0, 0) \in Spots /\ At("done", 0, 0).at = "done"
    BY SpotTypes
  <2>2. QED
    BY <2>1
<1>4. TopMoves(n, spot)
  BY <1>2, <1>3 DEF TopMoves
<1>5. /\ Alive(n) /\ InRender(n, Local) /\ Local \in Spots
      /\ \A l : ~InRender(n, l)'
      /\ ~Starting(n)
  BY <1>1, <1>2, <1>3, <1>4, TopMovesNodes, LocalFacts, RendersOnce DEF NodeStackInv
<1>6. ReadIs(n) # 0 /\ ReadIs(n) \in Values /\ ReadIs(n)' = ReadIs(n)
  BY <1>1, <1>2, <1>5 DEF MatchInv, NodesAsRead, AsRead, ReadIs
<1>7. child'[n] # NoElement /\ \A m \in Shows \ {n} : child'[m] = child[m]
  BY <1>1, <1>2, FlowAssumption
<1>8. AsRead(n)'
  BY <1>1, <1>5, <1>6, <1>7 DEF AsRead
<1>9. QED
  BY <1>1, <1>2, <1>3, <1>4, <1>7, <1>8, MatchMoves

LEMMA ForReadsMatch ==
  ASSUME TypeInv, ValuesWritten, NodeStackInv, WindowInv, MatchInv, NEW n \in Fors, ForReads(n)
  PROVE  MatchInv'
<1>1. n \in Nodes /\ n \notin Shows /\ count \in [Fors -> Nat] /\ DOMAIN children = Fors
  BY GuiFacts DEF Nodes, WindowInv, GuiTypes
<1>2. PICK total \in Values : total = value[SignalOf[n]]
  BY <1>1, NodeReads DEF ForReads
<1>3. /\ UNCHANGED <<child, calls, pending, status, allocated, value>>
      /\ \A m \in Nodes \ {n} : seen'[m] = seen[m]
      /\ ReadIs(n)' = total /\ value'[SignalOf[n]] = total
      /\ children' = [children EXCEPT ![n] = Grown(n, total)]
      /\ count' = [count EXCEPT ![n] = 0]
      /\ locals' = NowAt(At(IF total > 0 THEN "render" ELSE "done", 1, total))
      /\ Top.eff = n /\ ClientRuns /\ total \in Nat
  BY <1>1, <1>2, NodeReads, FlowAssumption DEF ForReads, SignalGet
<1>4. PICK at \in {"start", "render", "done"} : at = IF total > 0 THEN "render" ELSE "done"
  OBVIOUS
<1>5. PICK spot \in Spots :
        spot = At(at, 1, total) /\ spot.at = at /\ spot.item = 1 /\ spot.total = total
  <2>1. /\ At(at, 1, total) \in Spots /\ At(at, 1, total).at = at
        /\ At(at, 1, total).item = 1 /\ At(at, 1, total).total = total
    BY <1>3, SpotTypes
  <2>2. QED
    BY <2>1
<1>6. TopMoves(n, spot) /\ spot.at # "start"
  BY <1>3, <1>4, <1>5 DEF TopMoves
<1>7. \A l : InRender(n, l)' <=> l = spot /\ at = "render"
  BY <1>1, <1>5, <1>6, TopMovesNodes
<1>8. /\ \A m \in Fors \ {n} : children'[m] = children[m] /\ count'[m] = count[m]
      /\ count'[n] = 0
  BY <1>1, <1>3
<1>9. AsRead(n)'
  <2>1. (\A l \in Spots : ~InRender(n, l)') => total = 0
    BY <1>3, <1>4, <1>7
  <2>2. QED
    BY <1>1, <1>3, <1>5, <1>7, <1>8, <2>1 DEF AsRead
<1>10. Placed(children'[n], count'[n]) /\ Placed(children'[n], spot.item - 1)
  BY <1>5, <1>8 DEF Placed
<1>11. QED
  BY <1>1, <1>3, <1>6, <1>8, <1>9, <1>10, MatchMoves

\* A child that nobody holds differs from those in front of it.
LEMMA PlaceNext ==
  ASSUME NEW list \in Seq((1..MaxElements) \cup {NoElement}), NEW top \in 1..Len(list),
         Placed(list, top - 1), NEW new \in 1..MaxElements, new \notin Elements(list),
         NEW next, \A i \in 1..Len(list) : next[i] = IF i = top THEN new ELSE list[i]
  PROVE  Placed(next, top)
<1>1. Len(list) \in Nat /\ DOMAIN list = 1..Len(list)
  BY LenProperties
<1>2. \A i \in 1..top : i \in 1..Len(list) /\ (i = top \/ i \in 1..(top - 1))
  BY <1>1
<1>3. \A i \in 1..top : list[i] # new
  BY <1>1, <1>2 DEF Elements
<1>4. next[top] = new /\ new # NoElement /\ \A i \in 1..top : i # top => next[i] = list[i]
  BY <1>2, FlowAssumption
<1>5. ASSUME NEW i \in 1..top PROVE next[i] # NoElement
  BY <1>2, <1>4 DEF Placed
<1>6. ASSUME NEW i \in 1..top, NEW j \in 1..top, next[i] = next[j] PROVE i = j
  <2>1. CASE i = top \/ j = top
    BY <1>3, <1>4, <1>6, <2>1
  <2>2. CASE i # top /\ j # top
    BY <1>2, <1>4, <1>6, <2>2 DEF Placed
  <2>3. QED
    BY <2>1, <2>2
<1>7. QED
  BY <1>5, <1>6 DEF Placed

LEMMA ForRenderedMatch ==
  ASSUME TypeInv, NodeStackInv, WindowInv, MatchInv, NEW n \in Fors, ForRendered(n)
  PROVE  MatchInv'
<1>1. n \in Nodes /\ GuiTypes /\ n \notin Shows
  BY FlowAssumption DEF Nodes, WindowInv
<1>2. PICK new : new = NewElement
  OBVIOUS
<1>3. PICK l : l = Local
  OBVIOUS
<1>4. /\ new \in NewElements /\ new \in 1..MaxElements
      /\ children' = [children EXCEPT ![n][l.item] = new]
      /\ UNCHANGED <<calls, pending, status, child, allocated, value, seen>>
      /\ Top.eff = n /\ ClientRuns /\ l.at = "render" /\ l \in Spots
      /\ IF l.item = l.total
         THEN count' = [count EXCEPT ![n] = l.total] /\ locals' = NowAt(At("done", 0, 0))
         ELSE UNCHANGED count /\ locals' = NowAt(At("render", l.item + 1, l.total))
  BY <1>1, <1>2, <1>3, LocalFacts
  DEF ForRendered, RenderReturns, NewElement, NewElements, vars, signalVars, NodeStackInv
<1>5. l.item \in Nat /\ l.total \in Nat
  BY <1>4 DEF Spots
<1>6. PICK spot \in Spots :
        /\ locals' = NowAt(spot) /\ spot.at # "start"
        /\ IF l.item = l.total THEN spot.at = "done"
           ELSE spot.at = "render" /\ spot.item = l.item + 1 /\ spot.total = l.total
  <2>1. /\ At("done", 0, 0) \in Spots /\ At("done", 0, 0).at = "done"
        /\ At("render", l.item + 1, l.total) \in Spots
        /\ At("render", l.item + 1, l.total).at = "render"
        /\ At("render", l.item + 1, l.total).item = l.item + 1
        /\ At("render", l.item + 1, l.total).total = l.total
    BY <1>5, SpotTypes
  <2>2. QED
    BY <1>4, <2>1
<1>7. TopMoves(n, spot)
  BY <1>4, <1>6 DEF TopMoves
<1>8. /\ Alive(n) /\ InRender(n, l) /\ ~Starting(n)
      /\ \A k : InRender(n, k)' <=> k = spot /\ k.at = "render"
  BY <1>1, <1>3, <1>4, <1>7, TopMovesNodes, RendersOnce
<1>9. /\ count[n] = 0 /\ 1 <= l.item /\ l.item <= l.total /\ l.total <= Len(children[n])
      /\ Placed(children[n], l.item - 1)
      /\ ReadIs(n) \in Values /\ value[SignalOf[n]] = ReadIs(n) /\ l.total = ReadIs(n)
  BY <1>1, <1>4, <1>8 DEF WindowInv, RenderInv, MatchInv, Distinct, NodesAsRead, AsRead
<1>10. PICK old \in Seq((1..MaxElements) \cup {NoElement}) :
         old = children[n] /\ Len(old) \in Nat /\ l.item \in 1..Len(old)
  BY <1>1, <1>5, <1>9, GuiFacts
<1>11. /\ \A m \in Fors \ {n} : children'[m] = children[m]
       /\ children'[n] = [old EXCEPT ![l.item] = new]
       /\ \A m \in Fors \ {n} : count'[m] = count[m]
       /\ count'[n] = IF l.item = l.total THEN l.total ELSE 0
  BY <1>1, <1>4, <1>9, <1>10 DEF GuiTypes
<1>12. new \notin Elements(old)
  BY <1>1, <1>4, <1>10 DEF NewElements, Stored
<1>13. Placed(children'[n], l.item)
  <2>1. \A i \in 1..Len(old) : children'[n][i] = IF i = l.item THEN new ELSE old[i]
    <3>1. DOMAIN old = 1..Len(old)
      BY <1>10, LenProperties
    <3>2. QED
      BY <1>11, <3>1
  <2>2. Placed(old, l.item - 1)
    BY <1>9, <1>10
  <2>3. QED
    BY <1>4, <1>10, <1>12, <2>1, <2>2, PlaceNext, SMTT(30)
<1>14. Placed(children'[n], count'[n]) /\ (spot.at = "render" => Placed(children'[n], spot.item - 1))
  <2>1. Placed(children'[n], 0)
    BY DEF Placed
  <2>2. CASE l.item = l.total
    BY <1>6, <1>11, <1>13, <2>2
  <2>3. CASE l.item # l.total
    <3>1. count'[n] = 0 /\ spot.item = l.item + 1
      BY <1>6, <1>11, <2>3
    <3>2. spot.item - 1 = l.item
      BY <1>5, <3>1
    <3>3. Placed(children'[n], spot.item - 1)
      BY <1>13, <3>2
    <3>4. Placed(children'[n], count'[n])
      BY <2>1, <3>1
    <3>5. QED
      BY <3>3, <3>4
  <2>4. QED
    BY <2>2, <2>3
<1>15. AsRead(n)'
  <2>1. ReadIs(n)' = ReadIs(n) /\ value' = value
    BY <1>4 DEF ReadIs
  <2>2. \A k \in Spots : InRender(n, k)' => k.total = ReadIs(n)
    BY <1>6, <1>8, <1>9
  <2>3. (\A k \in Spots : ~InRender(n, k)') => count'[n] = ReadIs(n)
    BY <1>6, <1>8, <1>9, <1>11
  <2>4. QED
    BY <1>1, <1>9, <2>1, <2>2, <2>3 DEF AsRead
<1>16. QED
  BY <1>1, <1>4, <1>6, <1>7, <1>11, <1>14, <1>15, MatchMoves

\* A node that is disposed of shows nothing any more.
LEMMA NodeDisposeMatch ==
  ASSUME TypeInv, WindowInv, MatchInv, NEW n \in Nodes, NodeDispose(n)
  PROVE  MatchInv'
<1>1. /\ status' = [status EXCEPT ![n] = "disposed"]
      /\ UNCHANGED <<calls, locals, child, children, allocated, value, seen>>
      /\ count' = IF n \in Fors THEN [count EXCEPT ![n] = 0] ELSE count
  BY DEF NodeDispose, EffectDispose, signalVars
<1>2. \A m \in Nodes : Alive(m)' => Alive(m) /\ m # n
  BY <1>1, FlowAssumption DEF Alive, TypeInv, TypeOK, Nodes
<1>3. \A m \in Fors : count'[m] = IF m = n THEN 0 ELSE count[m]
  BY <1>1 DEF WindowInv, GuiTypes
<1>4. \A m : /\ Starting(m)' <=> Starting(m)
             /\ ReadIs(m)' = ReadIs(m)
             /\ \A l : InRender(m, l)' <=> InRender(m, l)
  BY <1>1 DEF Starting, ReadIs, InRender
<1>5. SigsInUse'
  BY <1>1, <1>2 DEF MatchInv, SigsInUse
<1>6. ASSUME NEW m \in Nodes, Alive(m)', ~Starting(m)' PROVE AsRead(m)'
  <2>1. AsRead(m) /\ m # n
    BY <1>2, <1>4, <1>6 DEF MatchInv, NodesAsRead
  <2>2. QED
    BY <1>1, <1>3, <1>4, <2>1 DEF AsRead
<1>7. Distinct'
  <2>1. \A m : Placed(children[m], 0)
    BY DEF Placed
  <2>2. QED
    BY <1>1, <1>3, <1>4, <2>1 DEF MatchInv, Distinct
<1>8. QED
  BY <1>5, <1>6, <1>7 DEF MatchInv, NodesAsRead

LEMMA MatchStep ==
  ASSUME TypeInv, PendingExact, StartedInv, ReadSubscribed, NodeStackInv, WindowInv, MatchInv,
         PureRenders, [FlowNext]_flowVars
  PROVE  MatchInv'
<1>1. Started /\ ValuesWritten
  BY DEF StartedInv
<1>2. ASSUME LocalsFollow, UNCHANGED guiVars,
             (FlowClient /\ ClientMayCall) \/ Library \/ FlowReturn
      PROVE  MatchInv'
  <2>1. Undisturbed /\ NodesKept
    BY <1>1, <1>2, CoreUndisturbed, CoreReads
  <2>2. QED
    BY <1>2, <2>1, CoreMatch
<1>3. ASSUME ClientStep PROVE MatchInv'
  BY <1>2, <1>3, NodeDisposeMatch DEF ClientStep
<1>4. ASSUME NodeStep PROVE MatchInv'
  BY <1>1, <1>4, ShowReadsMatch, ShowRenderedMatch, ForReadsMatch, ForRenderedMatch DEF NodeStep
<1>5. ASSUME UNCHANGED flowVars PROVE MatchInv'
  <2>1. UNCHANGED <<calls, pending, status, allocated, value, seen, guiVars>> /\ locals' = locals
    BY <1>5 DEF flowVars, vars, signalVars
  <2>2. Undisturbed
    BY <2>1, CallsStay
  <2>3. NodesKept
    BY <2>1 DEF NodesKept, MatchInv, SigsInUse, Starting, Alive, ReadIs
  <2>4. QED
    BY <2>1, <2>2, <2>3, CoreMatch
<1>6. QED
  BY <1>2, <1>3, <1>4, <1>5 DEF FlowNext, FlowLibrary, BodyEnds

LEMMA InitMatch == FlowInit => MatchInv
<1> SUFFICES ASSUME FlowInit PROVE MatchInv
  OBVIOUS
<1>1. \A n \in Nodes : ~Alive(n)
  BY FlowAssumption DEF FlowInit, Init, Alive, Nodes
<1>2. \A n \in Nodes : \A l : ~InRender(n, l)
  <2>1. LocalsOK /\ TypeInv
    BY InitWindow, InitTypeInv DEF FlowInit, NodeStackInv
  <2>2. ASSUME NEW n \in Nodes, NEW l, InRender(n, l) PROVE Alive(n)
    BY <2>1, <2>2, InitWindow, RenderingRuns DEF InRender, NodeStackInv, NodesIdle
  <2>3. QED
    BY <1>1, <2>2
<1>3. \A n \in Fors : n \in Nodes /\ count[n] = 0
  BY DEF FlowInit, Nodes
<1>4. Distinct
  BY <1>2, <1>3 DEF Distinct, Placed
<1>5. QED
  BY <1>1, <1>4 DEF MatchInv, SigsInUse, NodesAsRead

\* Different elements are counted one by one.
LEMMA PlacedCount ==
  ASSUME NEW list \in Seq((1..MaxElements) \cup {NoElement}), NEW top \in Nat, Placed(list, top)
  PROVE  Cardinality({list[i] : i \in 1..top} \ {NoElement}) = top
<1> DEFINE S == {list[i] : i \in 1..top} \ {NoElement}
           f == [i \in 1..top |-> list[i]]
<1>1. f \in Bijection(1..top, S)
  BY DEF Placed, Bijection, Injection, Surjection, IsInjective
<1>2. ExistsBijection(1..top, S)
  BY <1>1 DEF ExistsBijection
<1>3. QED
  BY <1>2, FS_CountingElements

\* Outside all calls a live node shows what it last read, and what it last read
\* is what its signal holds.
LEMMA QuietMatch ==
  ASSUME TypeInv, NodeStackInv, WindowInv, MatchInv, CreationsRun, QuietIsFresh
  PROVE  NodesMatch
<1> SUFFICES ASSUME Quiet, NEW n \in Nodes, status[n] = "live"
             PROVE  LET v == value[SignalOf[n]]
                    IN Cardinality(Recorded(n)) = IF n \in Fors THEN v ELSE IF v = 0 THEN 0 ELSE 1
  BY DEF NodesMatch
<1>1. Len(calls) = 1 /\ calls[1].eff \notin Nodes
  BY LocalFacts DEF Quiet, Depth, NodeStackInv
<1>2. Alive(n) /\ ~Starting(n) /\ \A l \in Spots : ~InRender(n, l)
  BY <1>1 DEF Starting, InRender, Alive
<1>3. AsRead(n) /\ SignalOf[n] \in allocated
  BY <1>2 DEF MatchInv, NodesAsRead, SigsInUse
<1>4. value[SignalOf[n]] = ReadIs(n)
  <2>1. n \in Effects /\ SignalOf[n] \in Signals
    BY FlowAssumption DEF Nodes
  <2>2. ~Stale(n, SignalOf[n])
    BY <1>2, <2>1 DEF QuietIsFresh
  <2>3. ReadIs(n) # NoValue
    BY <1>3, ConstantsAssumption DEF AsRead
  <2>4. QED
    BY <1>3, <2>2, <2>3 DEF Stale, ReadIs
<1>5. CASE n \in Fors
  <2>1. count[n] = value[SignalOf[n]] /\ count[n] \in Nat /\ Placed(children[n], count[n])
    BY <1>2, <1>3, <1>4, <1>5, GuiFacts DEF AsRead, MatchInv, Distinct, WindowInv
  <2>2. children[n] \in Seq((1..MaxElements) \cup {NoElement}) /\ n \notin Shows
    BY <1>5, GuiFacts DEF WindowInv
  <2>3. QED
    BY <1>5, <2>1, <2>2, PlacedCount DEF Recorded
<1>6. CASE n \notin Fors
  <2>1. n \in Shows /\ (child[n] = NoElement <=> value[SignalOf[n]] = 0)
    BY <1>2, <1>3, <1>4, <1>6 DEF AsRead, Nodes
  <2>2. CASE child[n] = NoElement
    <3>1. Recorded(n) = {}
      BY <2>1, <2>2 DEF Recorded
    <3>2. QED
      BY <1>6, <2>1, <2>2, <3>1, FS_EmptySet
  <2>3. CASE child[n] # NoElement
    <3>1. Recorded(n) = {child[n]}
      BY <2>1, <2>3 DEF Recorded
    <3>2. QED
      BY <1>6, <2>1, <2>3, <3>1, FS_Singleton
  <2>4. QED
    BY <2>2, <2>3
<1>7. QED
  BY <1>5, <1>6

\* If client code leaves a node alone while it renders, and neither the queue,
\* the observer stack nor memory runs out, then in a quiet program a live <Show>
\* has a child exactly if its condition holds and a live <For> one for each
\* element of its list (solite_control_flow.h), however bodies nested and
\* whatever was batched on the way.
THEOREM ChildrenMatchSignals ==
  ASSUME PureRenders, EnoughRoom
  PROVE  FlowSpec => []NodesMatch
<1>1. FlowInit => StartedInv
  BY InitStarted DEF FlowInit
<1>2. TypeInv /\ PendingExact /\ StartedInv /\ [Next]_vars => StartedInv'
  BY StartedStep, ValuesStep DEF StartedInv
<1>3. TypeInv /\ CreationsRun /\ [Next]_vars => CreationsRun'
  BY CreationsStep
<1>4. /\ TypeInv /\ PendingExact /\ StartedInv /\ NodeStackInv /\ WindowInv /\ [FlowNext]_flowVars
        => NodeStackInv' /\ WindowInv'
  BY WindowStep
<1>5. /\ TypeInv /\ PendingExact /\ StartedInv /\ FreshInv
         /\ NodeStackInv /\ WindowInv /\ MatchInv /\ [FlowNext]_flowVars
        => MatchInv'
  BY MatchStep DEF FreshInv
<1>6. TypeInv /\ NodeStackInv /\ WindowInv /\ MatchInv /\ CreationsRun /\ QuietIsFresh => NodesMatch
  BY QuietMatch
<1>7. TypeInv /\ ObserversMatch /\ PendingExact /\ FreshInv /\ [Next]_vars => FreshInv'
  BY FreshStep
<1>8. Spec => []ObserversMatch /\ []QuietIsFresh
  BY ObserversTrackBodies, QuietStateIsFresh, PTL DEF EnoughRoom
<1>9. Spec => []TypeInv /\ []PendingExact
  BY StackShape, PendingIsExact, PTL
<1>10. [FlowNext]_flowVars => [Next]_vars
  BY FlowNextIsReactive
<1>11. QED
  BY <1>1, <1>2, <1>3, <1>4, <1>5, <1>6, <1>7, <1>8, <1>9, <1>10, InitWindow, InitMatch, InitFresh,
     FlowSpecIsReactive, PTL DEF FlowSpec, Spec
=============================================================================
