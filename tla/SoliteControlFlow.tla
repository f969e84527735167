-------------------------- MODULE SoliteControlFlow --------------------------
(***************************************************************************)
(* The reactive control flow of solite_control_flow.c, on top of           *)
(* SoliteReactive: <Show> and <For> nodes keep the children of a window in *)
(* step with a signal.  A node is identified with its tracking effect,     *)
(* whose body is show_effect_fn or for_effect_fn.  The body reads the      *)
(* signal, then calls the client's render function, which may call the     *)
(* library again, and only then records and appends what was rendered.     *)
(* The locals of the bodies live on the C stack, so locals[i] belongs to   *)
(* the frame calls[i].                                                     *)
(***************************************************************************)
EXTENDS SoliteReactive

CONSTANTS
  Shows,         \* the tracking effects of <Show> nodes
  Fors,          \* the tracking effects of <For> nodes
  SignalOf,      \* when_signal or list_signal of a node
  NoElement,     \* the NULL element
  MaxElements,   \* bound: GUI elements in use at the same time
  PureRenders    \* does client code leave a node alone while it renders?

Nodes == Shows \cup Fors

\* Signal values are numbers: a condition is false iff it is 0, and a list is
\* represented by its length.
ASSUME FlowAssumption ==
  /\ Shows \subseteq Effects /\ Fors \subseteq Effects /\ Shows \cap Fors = {}
  /\ SignalOf \in [Nodes -> Signals]
  /\ Values \subseteq Nat
  /\ MaxElements \in Nat
  /\ NoElement \notin 1..MaxElements
  /\ PureRenders \in BOOLEAN

VARIABLES
  window,    \* the elements appended to the parent and not removed
  child,     \* SoliteShow.current_child
  children,  \* SoliteFor.current_children[0 .. child_capacity)
  count,     \* SoliteFor.child_count
  locals     \* where the body of each frame is, and its local variables

guiVars == <<window, child, children, count>>
flowVars == <<vars, guiVars, locals>>

\* at: where the body is; item: the element being rendered; total: how many.
At(at, item, total) == [at |-> at, item |-> item, total |-> total]

Local == locals[Len(locals)]

NowAt(local) == [locals EXCEPT ![Len(locals)] = local]

\* The locals after a step of the library: those of a body that starts, of the
\* caller of a body that returns, or the same.
LocalsFollow ==
  locals' = IF Len(calls') > Len(calls) THEN Append(locals, At("start", 0, 0))
            ELSE SubSeq(locals, 1, Len(calls'))

Recorded(n) ==
  IF n \in Shows THEN {child[n]} \ {NoElement}
  ELSE {children[n][i] : i \in 1..count[n]} \ {NoElement}

Stored(n) ==
  IF n \in Shows THEN {child[n]} ELSE Elements(children[n])

\* Elements nobody holds a pointer to.
NewElements == (1..MaxElements) \ (window \cup UNION {Stored(n) : n \in Nodes})

\* render_fn returns an element that nobody else holds.
NewElement == CHOOSE el \in NewElements : TRUE

\* The render function of the node on top has run and returns.
RenderReturns(n) ==
  /\ Top.eff = n /\ ClientRuns /\ Local.at = "render"
  /\ BalancedBatches => batch = Top.base
  /\ NewElements # {}

\* The render function of a node runs in the frame on top.
Renders == Top.eff \in Nodes /\ ClientRuns /\ Local.at = "render"

\* Nodes whose render function is active somewhere on the C stack.
Rendering == {calls[i].eff : i \in {j \in DOMAIN calls : locals[j].at = "render"}}

FlowInit ==
  /\ Init
  /\ window = {}
  /\ child = [n \in Shows |-> NoElement]
  /\ children = [n \in Fors |-> <<>>]
  /\ count = [n \in Fors |-> 0]
  /\ locals = <<At("start", 0, 0)>>

-----------------------------------------------------------------------------

\* show_effect_fn up to the call of render_fn: a child that is not to be shown
\* is removed, one that is shown already stays.
ShowReads(n) ==
  /\ Top.eff = n /\ Local.at = "start"
  /\ SignalGet(SignalOf[n])
  /\ LET shown == value[SignalOf[n]] # 0
     IN /\ locals' = NowAt(At(IF shown /\ child[n] = NoElement THEN "render" ELSE "done", 0, 0))
        /\ window' = IF shown THEN window ELSE window \ {child[n]}
        /\ child' = IF shown THEN child ELSE [child EXCEPT ![n] = NoElement]
  /\ UNCHANGED <<children, count>>

\* render_fn returns: whatever the condition is by now, the child is shown.
ShowRendered(n) ==
  /\ RenderReturns(n)
  /\ child' = [child EXCEPT ![n] = NewElement]
  /\ window' = window \cup {NewElement}
  /\ locals' = NowAt(At("done", 0, 0))
  /\ UNCHANGED <<vars, children, count>>

\* The array of the children, replaced by a larger one, zeroed by calloc, when
\* more of them are to come than it has room for.
Grown(n, total) ==
  IF total <= Len(children[n]) THEN children[n]
  ELSE [i \in 1..total |-> NoElement]

\* bug: an empty list returns before the old children are removed
ForReadsEmptyEarly(n) ==
  /\ Top.eff = n /\ Local.at = "start"
  /\ SignalGet(SignalOf[n])
  /\ LET total == value[SignalOf[n]]
     IN /\ locals' = NowAt(At(IF total > 0 THEN "render" ELSE "done", 1, total))
        /\ children' = [children EXCEPT ![n] = Grown(n, total)]
        /\ window' = IF total > 0 THEN window \ Recorded(n) ELSE window
        /\ count' = IF total > 0 THEN [count EXCEPT ![n] = 0] ELSE count
  /\ UNCHANGED child

\* for_effect_fn up to the first call of render_fn: all children are removed.
ForReads(n) ==
  /\ Top.eff = n /\ Local.at = "start"
  /\ SignalGet(SignalOf[n])
  /\ LET total == value[SignalOf[n]]
     IN /\ locals' = NowAt(At(IF total > 0 THEN "render" ELSE "done", 1, total))
        /\ children' = [children EXCEPT ![n] = Grown(n, total)]
  /\ window' = window \ Recorded(n)
  /\ count' = [count EXCEPT ![n] = 0]
  /\ UNCHANGED child

\* render_fn returns one child; after the last one the children count.
ForRendered(n) ==
  /\ RenderReturns(n)
  /\ children' = [children EXCEPT ![n][Local.item] = NewElement]
  /\ window' = window \cup {NewElement}
  /\ IF Local.item = Local.total
     THEN /\ count' = [count EXCEPT ![n] = Local.total]
          /\ locals' = NowAt(At("done", 0, 0))
     ELSE /\ locals' = NowAt(At("render", Local.item + 1, Local.total))
          /\ UNCHANGED count
  /\ UNCHANGED <<vars, child>>

\* bug: the children of a disposed node stay in the window
NodeDisposeKeeps(n) ==
  /\ EffectDispose(n)
  /\ UNCHANGED <<guiVars, locals>>

\* solite_show_dispose and solite_for_dispose.
NodeDispose(n) ==
  /\ PureRenders => n \notin Rendering
  /\ EffectDispose(n)
  /\ window' = window \ Recorded(n)
  /\ count' = IF n \in Fors THEN [count EXCEPT ![n] = 0] ELSE count
  /\ UNCHANGED <<child, children, locals>>

\* A node's signal outlives the node.
InUse(s) == \E n \in Nodes : Alive(n) /\ SignalOf[n] = s

\* Writing s would schedule a node that is rendering.
Disturbs(s) == PureRenders /\ Elements(subs[s]) \cap Rendering # {}

\* What client code calls: the main program, the bodies of other effects, and
\* render functions.
FlowClient ==
  \/ \E s \in Signals, v \in Values :
       SignalCreate(s, v) \/ (~Disturbs(s) /\ SignalSet(s, v))
  \/ \E s \in Signals : SignalGet(s) \/ (~InUse(s) /\ SignalDispose(s))
  \/ \E e \in Effects \ Nodes : EffectCreate(e) \/ EffectDispose(e)
  \/ \E n \in Nodes : SignalOf[n] \in allocated /\ EffectCreate(n)
  \/ BatchStart
  \/ BatchEnd
  \/ FlushCall

NodeStep ==
  \/ \E n \in Shows : ShowReads(n) \/ ShowRendered(n)
  \/ \E n \in Fors : ForReads(n) \/ ForRendered(n)

\* The body of a node has come to its end.
FlowReturn == BodyReturn /\ (Top.eff \in Nodes => Local.at = "done")

ClientMayCall == Top.eff \in Nodes => Renders

ClientStep ==
  /\ ClientMayCall
  /\ \/ FlowClient /\ LocalsFollow /\ UNCHANGED guiVars
     \/ \E n \in Nodes : NodeDispose(n)

FlowLibrary == Library /\ LocalsFollow /\ UNCHANGED guiVars

BodyEnds == FlowReturn /\ LocalsFollow /\ UNCHANGED guiVars

FlowNext == ClientStep \/ NodeStep \/ FlowLibrary \/ BodyEnds

FlowSpec == FlowInit /\ [][FlowNext]_flowVars

-----------------------------------------------------------------------------

\* When the main program has control outside a batch, a live <Show> has a child
\* exactly if its condition holds and a live <For> one child for each element
\* of its list (solite_control_flow.h: "When when_signal is truthy, render_fn
\* is called and the result is appended to parent. When falsy, the child is
\* removed").
NodesMatch ==
  Quiet => \A n \in Nodes :
    status[n] = "live" =>
      LET v == value[SignalOf[n]]
      IN Cardinality(Recorded(n)) = IF n \in Fors THEN v ELSE IF v = 0 THEN 0 ELSE 1

\* Whenever the main program has control, a batch open or not, the window
\* shows what the live nodes have recorded and nothing else: no child is lost
\* in the window, shown twice, or left behind by a disposed node.
WindowIsRecorded ==
  Depth = 0 /\ ClientRuns =>
    window = UNION {Recorded(n) : n \in {m \in Nodes : status[m] = "live"}}
=============================================================================
