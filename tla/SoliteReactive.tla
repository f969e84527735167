--------------------------- MODULE SoliteReactive ---------------------------
(***************************************************************************)
(* The reactive core of the Solite runtime: signals, effects and batching  *)
(* (solite_runtime/src/solite_signal.c and solite_effect.c).               *)
(*                                                                         *)
(* Everything runs on one thread, but every call into the library may call *)
(* back into client code, which calls the library again: writing a signal  *)
(* flushes the pending queue, flushing runs effect bodies, and a body may  *)
(* read and write signals, open and close batches, create and dispose      *)
(* effects.  The state therefore holds the C call stack.  calls[1] is the  *)
(* main program and calls[i], i > 1, the i-th nested effect body; each     *)
(* frame says which library call its code is inside of (op) and what that  *)
(* call still has to do (rest).  The client code itself is arbitrary: any  *)
(* frame that is not inside a library call may make any legal call next.   *)
(*                                                                         *)
(* A definition marked "bug" is a wrong version of the one after it.  No   *)
(* specification uses it; the README says which property detects it.       *)
(***************************************************************************)
EXTENDS Naturals, Sequences, FiniteSets

CONSTANTS
  Signals,          \* addresses solite_create_signal can return
  Effects,          \* addresses solite_create_effect can return
  Values,           \* the CalyndaRtWord values written to signals
  NoValue,          \* "not read yet" (history only)
  Main,             \* the main program, which is no effect
  ObserverMax,      \* SOLID_OBSERVER_STACK_MAX
  PendingMax,       \* SOLID_PENDING_MAX
  InitialSubs,      \* SOLID_SIGNAL_INITIAL_SUBS
  AllocFails,       \* may calynda_gc_alloc return NULL when a list grows?
  BalancedBatches,  \* does every body close exactly the batches it opened?
  MaxDepth,         \* bound: effect bodies nested on the C stack
  MaxBatch          \* bound: nested solite_batch_start calls

ASSUME ConstantsAssumption ==
  /\ Main \notin Effects
  /\ NoValue \notin Values
  /\ ObserverMax \in Nat \ {0}
  /\ PendingMax \in Nat \ {0}
  /\ InitialSubs \in Nat \ {0}
  /\ AllocFails \in BOOLEAN
  /\ BalancedBatches \in BOOLEAN
  /\ MaxDepth \in Nat \ {0}
  /\ MaxBatch \in Nat

VARIABLES
  \* solite_signal.c
  allocated,  \* signals created and not disposed
  value,      \* SoliteSignal.value
  subs,       \* SoliteSignal.subscribers, in subscription order
  cap,        \* SoliteSignal.subscriber_cap
  observers,  \* observer_stack[0 .. observer_depth)
  \* solite_effect.c
  status,     \* life cycle of an effect; "disposed" is SoliteEffect.disposed
  pending,    \* SoliteEffect.pending
  queue,      \* pending_queue[0 .. pending_count)
  batch,      \* batch_depth
  \* the C stack
  calls,
  \* history, read by the properties only
  seen        \* what an effect read since its latest activation began

signalVars == <<allocated, value, subs, cap>>
vars == <<signalVars, observers, status, pending, queue, batch, calls, seen>>

Ops == {"none", "set", "flush", "create"}

Frame == [eff : Effects \cup {Main}, op : Ops, rest : Seq(Effects),
          base : 0..MaxBatch]

Enter(e) == [eff |-> e, op |-> "none", rest |-> <<>>, base |-> batch]

Top == calls[Len(calls)]
Depth == Len(calls) - 1

Elements(q) == {q[i] : i \in DOMAIN q}

\* A frame goes on with operation op, which still has rest to do.
GoesOn(frame, op, rest) ==
  [eff |-> frame.eff, op |-> op, rest |-> rest, base |-> frame.base]

TopGoesOn(op, rest) == [calls EXCEPT ![Len(calls)] = GoesOn(Top, op, rest)]

NothingSeen == [s \in Signals |-> NoValue]

Alive(e) == status[e] \in {"creating", "live"}

Init ==
  /\ allocated = {}
  /\ value = [s \in Signals |-> NoValue]
  /\ subs = [s \in Signals |-> <<>>]
  /\ cap = [s \in Signals |-> InitialSubs]
  /\ observers = <<>>
  /\ status = [e \in Effects |-> "none"]
  /\ pending = [e \in Effects |-> FALSE]
  /\ queue = <<>>
  /\ batch = 0
  /\ calls = <<[eff |-> Main, op |-> "none", rest |-> <<>>, base |-> 0]>>
  /\ seen = [e \in Effects |-> NothingSeen]

-----------------------------------------------------------------------------
(* solite_signal.c *)

\* solid_observer_push drops the effect when the stack is full ...
ObserverPush(e) ==
  IF Len(observers) < ObserverMax THEN Append(observers, e) ELSE observers

\* bug: a body that returns stays on the stack
ObserverKept == observers

\* ... and solid_observer_pop pops all the same.
ObserverPop == SubSeq(observers, 1, IF observers = <<>> THEN 0 ELSE Len(observers) - 1)

\* bug: reads are attributed to the outermost body
ObserverOutermost == IF observers = <<>> THEN Main ELSE observers[1]

ObserverCurrent == IF observers = <<>> THEN Main ELSE observers[Len(observers)]

\* Client code runs: the frame on top is not inside a library call.
ClientRuns == Top.op = "none"

\* A client call that may run effect bodies, one level further down the stack.
MayNest == ClientRuns /\ Depth < MaxDepth

SignalCreate(s, v) ==
  /\ ClientRuns
  /\ s \notin allocated
  /\ allocated' = allocated \cup {s}
  /\ value' = [value EXCEPT ![s] = v]
  /\ subs' = [subs EXCEPT ![s] = <<>>]
  /\ cap' = [cap EXCEPT ![s] = InitialSubs]
  /\ seen' = [e \in Effects |-> [seen[e] EXCEPT ![s] = NoValue]]
  /\ UNCHANGED <<observers, status, pending, queue, batch, calls>>

SignalDispose(s) ==
  /\ ClientRuns
  /\ s \in allocated
  /\ allocated' = allocated \ {s}
  /\ UNCHANGED <<value, subs, cap, observers, status, pending, queue, batch,
                 calls, seen>>

\* signal_subscribe: no duplicates, and the list doubles when it is full.  A
\* growth that finds no memory drops the subscription.
Subscribe(s, e) ==
  \/ /\ e \in Elements(subs[s]) \/ e = Main
     /\ UNCHANGED <<subs, cap>>
  \/ /\ e \notin Elements(subs[s]) \cup {Main}
     /\ subs' = [subs EXCEPT ![s] = Append(@, e)]
     /\ cap' = [cap EXCEPT ![s] = IF Len(subs[s]) >= @ THEN 2 * @ ELSE @]
  \/ /\ e \notin Elements(subs[s]) \cup {Main}
     /\ AllocFails /\ Len(subs[s]) >= cap[s]
     /\ UNCHANGED <<subs, cap>>

SignalGet(s) ==
  /\ ClientRuns
  /\ s \in allocated
  /\ Subscribe(s, ObserverCurrent)
  /\ seen' = IF Top.eff = Main THEN seen
             ELSE [seen EXCEPT ![Top.eff] = [@ EXCEPT ![s] = value[s]]]
  /\ UNCHANGED <<allocated, value, observers, status, pending, queue, batch,
                 calls>>

\* Writing the value a signal already has returns early and changes nothing.
SignalSet(s, v) ==
  /\ MayNest
  /\ s \in allocated
  /\ value[s] # v
  /\ value' = [value EXCEPT ![s] = v]
  /\ calls' = TopGoesOn("set", subs[s])
  /\ UNCHANGED <<allocated, subs, cap, observers, status, pending, queue,
                 batch, seen>>

-----------------------------------------------------------------------------
(* solite_effect.c *)

\* bug: an effect that waits already is queued again
CanScheduleAgain(e) == status[e] # "disposed"

CanSchedule(e) == status[e] # "disposed" /\ ~pending[e]

\* bug: the flag is not set
EffectScheduleUnflagged ==
  /\ Top.op = "set" /\ Top.rest # <<>>
  /\ queue' = IF CanSchedule(Head(Top.rest)) THEN Append(queue, Head(Top.rest)) ELSE queue
  /\ calls' = TopGoesOn("set", Tail(Top.rest))
  /\ UNCHANGED <<signalVars, observers, status, pending, batch, seen>>

\* One iteration of the notification loop: solite_effect_schedule.  A full
\* queue drops the effect and leaves it not pending.
EffectSchedule ==
  /\ Top.op = "set" /\ Top.rest # <<>>
  /\ LET e == Head(Top.rest)
         enqueue == CanSchedule(e) /\ Len(queue) < PendingMax
     IN /\ pending' = [pending EXCEPT ![e] = @ \/ enqueue]
        /\ queue' = IF enqueue THEN Append(queue, e) ELSE queue
  /\ calls' = TopGoesOn("set", Tail(Top.rest))
  /\ UNCHANGED <<signalVars, observers, status, batch, seen>>

\* bug: a flush does not look at the batch depth
FlushOpAlways(depth) == "flush"

\* What solite_effect_flush_pending does first: nothing inside a batch.
FlushOp(depth) == IF depth > 0 THEN "none" ELSE "flush"

\* bug: signal_set schedules but does not flush
NotifyDoneSilently ==
  /\ Top.op = "set" /\ Top.rest = <<>>
  /\ calls' = TopGoesOn("none", <<>>)
  /\ UNCHANGED <<signalVars, observers, status, pending, queue, batch, seen>>

NotifyDone ==
  /\ Top.op = "set" /\ Top.rest = <<>>
  /\ calls' = TopGoesOn(FlushOp(batch), <<>>)
  /\ UNCHANGED <<signalVars, observers, status, pending, queue, batch, seen>>

\* The explicit flush of the frame loop.
FlushCall ==
  /\ MayNest
  /\ calls' = TopGoesOn(FlushOp(batch), <<>>)
  /\ UNCHANGED <<signalVars, observers, status, pending, queue, batch, seen>>

\* The outer loop copies the queue to the stack and empties it.
FlushSnapshot ==
  /\ Top.op = "flush" /\ Top.rest = <<>> /\ queue # <<>>
  /\ calls' = TopGoesOn("flush", queue)
  /\ queue' = <<>>
  /\ UNCHANGED <<signalVars, observers, status, pending, batch, seen>>

\* The body of e starts on top of the stack; its caller goes on with op, rest.
RunBody(e, op, rest) ==
  /\ calls' = Append(TopGoesOn(op, rest), Enter(e))
  /\ observers' = ObserverPush(e)
  /\ seen' = [seen EXCEPT ![e] = NothingSeen]

\* bug: effect_run does not look at disposed
FlushNextDisposed ==
  /\ Top.op = "flush" /\ Top.rest # <<>>
  /\ pending' = [pending EXCEPT ![Head(Top.rest)] = FALSE]
  /\ RunBody(Head(Top.rest), "flush", Tail(Top.rest))
  /\ UNCHANGED <<signalVars, status, queue, batch>>

\* The inner loop clears the flag of the next effect, then runs it.
FlushNext ==
  /\ Top.op = "flush" /\ Top.rest # <<>>
  /\ LET e == Head(Top.rest)
     IN /\ pending' = [pending EXCEPT ![e] = FALSE]
        /\ \/ /\ status[e] # "disposed"
              /\ RunBody(e, "flush", Tail(Top.rest))
           \/ /\ status[e] = "disposed"
              /\ calls' = TopGoesOn("flush", Tail(Top.rest))
              /\ UNCHANGED <<observers, seen>>
  /\ UNCHANGED <<signalVars, status, queue, batch>>

FlushReturn ==
  /\ Top.op = "flush" /\ Top.rest = <<>> /\ queue = <<>>
  /\ calls' = TopGoesOn("none", <<>>)
  /\ UNCHANGED <<signalVars, observers, status, pending, queue, batch, seen>>

BatchStart ==
  /\ MayNest
  /\ batch < MaxBatch
  /\ batch' = batch + 1
  /\ UNCHANGED <<signalVars, observers, status, pending, queue, calls, seen>>

\* bug: an unmatched solite_batch_end underflows the depth
BatchEndUnguarded ==
  /\ MayNest
  /\ batch' = batch - 1
  /\ calls' = TopGoesOn(FlushOp(batch'), <<>>)
  /\ UNCHANGED <<signalVars, observers, status, pending, queue, seen>>

\* bug: the outermost solite_batch_end does not flush
BatchEndSilently ==
  /\ MayNest
  /\ batch' = IF batch > 0 THEN batch - 1 ELSE 0
  /\ UNCHANGED <<signalVars, observers, status, pending, queue, calls, seen>>

BatchEnd ==
  /\ MayNest
  /\ BalancedBatches => batch > Top.base
  /\ batch' = IF batch > 0 THEN batch - 1 ELSE 0
  /\ calls' = TopGoesOn(FlushOp(batch'), <<>>)
  /\ UNCHANGED <<signalVars, observers, status, pending, queue, seen>>

\* solite_create_effect: the first run happens before the caller gets the
\* handle.
EffectCreate(e) ==
  /\ MayNest
  /\ status[e] = "none"
  /\ status' = [status EXCEPT ![e] = "creating"]
  /\ RunBody(e, "create", <<>>)
  /\ UNCHANGED <<signalVars, pending, queue, batch>>

\* Only an effect whose handle was returned can be disposed.  Its queue
\* entries and subscriptions stay.
EffectDispose(e) ==
  /\ ClientRuns
  /\ status[e] = "live"
  /\ status' = [status EXCEPT ![e] = "disposed"]
  /\ UNCHANGED <<signalVars, observers, pending, queue, batch, calls, seen>>

\* The body returns: into the flush loop, or out of solite_create_effect.
BodyReturn ==
  /\ Depth > 0
  /\ ClientRuns
  /\ BalancedBatches => batch = Top.base
  /\ observers' = ObserverPop
  /\ LET below == SubSeq(calls, 1, Len(calls) - 1)
     IN \/ /\ below[Depth].op = "create"
           /\ calls' = [below EXCEPT ![Depth] = GoesOn(@, "none", <<>>)]
           /\ status' = [status EXCEPT ![Top.eff] = "live"]
        \/ /\ below[Depth].op # "create"
           /\ calls' = below
           /\ UNCHANGED status
  /\ UNCHANGED <<signalVars, pending, queue, batch, seen>>

-----------------------------------------------------------------------------

\* What client code chooses to do ...
Client ==
  \/ \E s \in Signals, v \in Values : SignalCreate(s, v) \/ SignalSet(s, v)
  \/ \E s \in Signals : SignalGet(s) \/ SignalDispose(s)
  \/ \E e \in Effects : EffectCreate(e) \/ EffectDispose(e)
  \/ BatchStart
  \/ BatchEnd
  \/ FlushCall

\* ... and what the library does inside a call.
Library ==
  \/ EffectSchedule
  \/ NotifyDone
  \/ FlushSnapshot
  \/ FlushNext
  \/ FlushReturn

Next == Client \/ Library \/ BodyReturn

Spec == Init /\ [][Next]_vars

\* The library makes progress, and no effect body runs for ever: a body that
\* is again and again back in its own code returns in the end, and where bodies
\* close the batches they open it does so before.
Fairness ==
  /\ WF_vars(Library)
  /\ \A d \in 1..MaxDepth : SF_vars(Depth = d /\ BodyReturn)
  /\ BalancedBatches =>
       \A d \in 1..MaxDepth, b \in 1..MaxBatch :
         SF_vars(Depth = d /\ batch = b /\ BatchEnd)

FairSpec == Spec /\ Fairness

-----------------------------------------------------------------------------
(* Properties *)

\* Types of the state of both files and of the C stack.
TypeOK ==
  /\ allocated \subseteq Signals
  /\ value \in [Signals -> Values \cup {NoValue}]
  /\ subs \in [Signals -> Seq(Effects)]
  /\ cap \in [Signals -> Nat \ {0}]
  /\ observers \in Seq(Effects)
  /\ status \in [Effects -> {"none", "creating", "live", "disposed"}]
  /\ pending \in [Effects -> BOOLEAN]
  /\ queue \in Seq(Effects)
  /\ batch \in 0..MaxBatch
  /\ calls \in Seq(Frame)
  /\ seen \in [Effects -> [Signals -> Values \cup {NoValue}]]

\* solid_observer_push and solid_observer_pop keep the observer stack in step
\* with the bodies on the C stack, whatever they call: a read is attributed to
\* the effect whose code makes it (solite_signal.h: "If called inside an
\* effect, the effect is automatically subscribed").
ObserversMatch ==
  /\ Len(observers) = Depth
  /\ \A i \in 1..Depth : observers[i] = calls[i + 1].eff

\* What waits to be run: the queue, and what each flush on the C stack has
\* still to visit of its snapshot.
Backlog(k) ==
  IF k = 0 THEN queue
  ELSE IF calls[k].op = "flush" THEN calls[k].rest ELSE <<>>

\* The pending flag of solite_effect_schedule is exact although flushes nest:
\* an effect is flagged iff it waits in the queue or in the unvisited part of
\* a snapshot, and it waits in one place only, so that it runs once however
\* many writes and flushes happen in between.
WaitsOnce ==
  \A k, l \in 0..Len(calls) : \A i \in DOMAIN Backlog(k), j \in DOMAIN Backlog(l) :
    Backlog(k)[i] = Backlog(l)[j] => k = l /\ i = j

PendingExact ==
  /\ WaitsOnce
  /\ \A e \in Effects :
       pending[e] <=> \E k \in 0..Len(calls) : e \in Elements(Backlog(k))

\* Effect e read s since its latest activation began and s has changed since.
Stale(e, s) ==
  /\ s \in allocated
  /\ seen[e][s] \notin {NoValue, value[s]}

\* Effect e is in the part of a notification loop that is still to come.
BeingNotified(e) == Top.op = "set" /\ e \in Elements(Top.rest)

\* No update is lost: an effect that lives and has read a value that is no
\* longer the signal's is pending, or signal_set is about to schedule it
\* (solite_effect.h: "The effect re-runs whenever any signal read during its
\* execution changes").
NoLostUpdate ==
  \A e \in Effects, s \in Signals :
    Alive(e) /\ Stale(e, s) => pending[e] \/ BeingNotified(e)

\* The main program is in its own code and no batch is open.
Quiet == Depth = 0 /\ ClientRuns /\ batch = 0

\* When every call has returned and no batch is open, no effect waits to be
\* run, and every live effect saw the current value of each signal it read.
QuietIsFresh ==
  Quiet => \A e \in Effects :
             /\ ~pending[e]
             /\ Alive(e) => \A s \in Signals : ~Stale(e, s)

\* A disposed effect starts no run, even if it was disposed while it waited in
\* the snapshot of a flush further down the C stack.
DisposedNeverRuns ==
  [][Len(calls') > Len(calls) => status[calls'[Len(calls')].eff] # "disposed"]_vars

\* Effects scheduled inside a batch wait for the end of it: while a batch is
\* open no flush takes a snapshot or runs an effect (solite_effect.h: "Signal
\* changes during a batch are deferred until solite_batch_end() is called").
BatchDefers ==
  [][batch > 0 => ~FlushSnapshot /\ ~FlushNext]_vars

\* The promise of the two headers, refined: an effect owes a run while it is
\* alive and pending, or about to be scheduled by the write in progress.
Promise == INSTANCE ReactivePromise WITH
  alive <- {e \in Effects : Alive(e)},
  deps <- [e \in Effects |-> {s \in allocated : seen[e][s] # NoValue}],
  owed <- {e \in Effects : Alive(e) /\ (pending[e] \/ BeingNotified(e))},
  quiet <- Quiet

\* Every behaviour of the library keeps the promise, whatever client code
\* calls and from where: a write reaches every dependent of the signal, no
\* effect re-runs that does not owe a run, and none owes one at the end.
KeepsPromise == Promise!Spec

\* Every scheduled effect is visited by a flush, unless the main program keeps
\* a batch open.
PendingIsServed ==
  \A e \in Effects :
    pending[e] ~> ~pending[e] \/ (Depth = 0 /\ ClientRuns /\ batch > 0)
=============================================================================
