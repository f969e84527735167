--------------------------- MODULE ReactivePromise ---------------------------
(***************************************************************************)
(* What solite_signal.h and solite_effect.h promise to client code, with   *)
(* no queue, no stack and no subscriber lists.  An effect depends on the   *)
(* signals it has read since its latest run began.  A write to a signal    *)
(* makes every dependent owe a run; an effect runs when it is created and, *)
(* after that, only when it owes a run; nothing is owed when the main      *)
(* program has control outside a batch.                                    *)
(***************************************************************************)
CONSTANTS Signals, Effects

VARIABLES
  alive,   \* effects created and not disposed
  deps,    \* deps[e]: the signals e read since its latest run began
  owed,    \* the effects that owe a run
  quiet    \* control is in the main program and no batch is open

vars == <<alive, deps, owed, quiet>>

Dependents(s) == {e \in alive : s \in deps[e]}

Init ==
  /\ alive = {}
  /\ deps = [e \in Effects |-> {}]
  /\ owed = {}
  /\ quiet = TRUE

\* Creating the effect runs it at once.
Create(e) ==
  /\ e \notin alive
  /\ alive' = alive \cup {e}
  /\ deps' = [deps EXCEPT ![e] = {}]
  /\ UNCHANGED owed

\* A re-run discharges what e owes, never more than it owes.
Rerun(e) ==
  /\ e \in alive \cap owed
  /\ owed' = owed \ {e}
  /\ deps' = [deps EXCEPT ![e] = {}]
  /\ UNCHANGED alive

\* Also a disposed effect may read, while its last run ends.
Read(e, s) ==
  /\ deps' = [deps EXCEPT ![e] = @ \cup {s}]
  /\ UNCHANGED <<alive, owed>>

\* An effect that depended on s in an earlier run may be scheduled as well.
Write(s) ==
  /\ \E more \in SUBSET alive : owed' = owed \cup Dependents(s) \cup more
  /\ UNCHANGED <<alive, deps>>

\* The dependencies on a signal end with the signal.
Forget(s) ==
  /\ deps' = [e \in Effects |-> deps[e] \ {s}]
  /\ UNCHANGED <<alive, owed>>

Dispose(e) ==
  /\ e \in alive
  /\ alive' = alive \ {e}
  /\ owed' = owed \ {e}
  /\ UNCHANGED deps

\* Control moves between the main program, the bodies and the library.
Control == UNCHANGED <<alive, deps, owed>>

Next ==
  /\ \/ \E e \in Effects : Create(e) \/ Rerun(e) \/ Dispose(e)
     \/ \E e \in Effects, s \in Signals : Read(e, s)
     \/ \E s \in Signals : Write(s) \/ Forget(s)
     \/ Control
  /\ quiet' \in BOOLEAN
  /\ quiet' => owed' = {}

Spec == Init /\ [][Next]_vars
=============================================================================
