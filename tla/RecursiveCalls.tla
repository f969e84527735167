--------------------------- MODULE RecursiveCalls ---------------------------
(***************************************************************************)
(* What a lambda of the language does when its body ends in a call: the    *)
(* promise that the C emitted for it is held to in TailCalls.  The         *)
(* statements of the body run in order on the parameters; the call         *)
(* evaluates every argument before the callee sees any of them, and the    *)
(* name of the callee means a parameter or a local binding of the lambda   *)
(* before it means the binding the lambda initialises.                     *)
(***************************************************************************)
EXTENDS Naturals, Sequences

CONSTANTS
  Arity,    \* how many parameters a lambda has
  Values,   \* what a parameter holds
  Lambdas   \* the lambdas, records as IsLambda says

Params == 1 .. Arity
Vectors == [Params -> Values]

\* An expression reads some parameters and is a function of what they hold.
IsExpression(e) ==
  e.reads \subseteq Params /\ e.of \in [[e.reads -> Values] -> Values]

Eval(e, args) == e.of[[p \in e.reads |-> args[p]]]

\* A statement assigns to a parameter or returns.
IsStatement(s) == s.returns \/ (s.to \in Params /\ IsExpression(s.value))

\* before: the statements before the last.  The last calls the name callee,
\* as an expression or, when returned holds, in a return.  owner is the name
\* of the binding a lambda initialises, and of none for a nested one; taken
\* are the names its parameters and local bindings have.
IsLambda(l) ==
  /\ Len(l.before) \in Nat
  /\ \A i \in 1 .. Len(l.before) : IsStatement(l.before[i])
  /\ \A p \in Params : IsExpression(l.arguments[p])
  /\ l.returned \in BOOLEAN

VARIABLES
  lambda,   \* the lambda that is called
  args,     \* what its parameters hold
  at,       \* the statement that is next
  outcome   \* "running", "returned", or "called" when it left to another

vars == <<lambda, args, at, outcome>>

Init ==
  /\ lambda \in Lambdas
  /\ args \in Vectors
  /\ at = 1
  /\ outcome = "running"

Statement == lambda.before[at]

Assigns ==
  /\ at <= Len(lambda.before) /\ ~Statement.returns
  /\ args' = [args EXCEPT ![Statement.to] = Eval(Statement.value, args)]
  /\ at' = at + 1
  /\ UNCHANGED outcome

Returns ==
  /\ at <= Len(lambda.before) /\ Statement.returns
  /\ outcome' = "returned"
  /\ UNCHANGED <<args, at>>

CallsItself(l) == l.callee = l.owner /\ l.callee \notin l.taken

\* A call to itself begins again, one to another is the end of this account.
Calls ==
  /\ at > Len(lambda.before)
  /\ args' = [p \in Params |-> Eval(lambda.arguments[p], args)]
  /\ IF CallsItself(lambda) THEN at' = 1 /\ UNCHANGED outcome
     ELSE outcome' = "called" /\ UNCHANGED at

Next ==
  /\ outcome = "running"
  /\ UNCHANGED lambda
  /\ Assigns \/ Returns \/ Calls

Spec == Init /\ [][Next]_vars
=============================================================================
