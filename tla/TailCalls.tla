----------------------------- MODULE TailCalls ------------------------------
(***************************************************************************)
(* The C function emitted for a lambda (compiler/src/c_emit/               *)
(* c_emit_closure.c) and how it runs.  A call to itself at the end of the  *)
(* body, recognised by the name of the callee, becomes a loop: the         *)
(* parameters are assigned one after another and the body begins again.    *)
(* Any other call goes through __calynda_rt_call_callable with its         *)
(* arguments in an array.                                                  *)
(***************************************************************************)
EXTENDS Naturals, Sequences

CONSTANTS Arity, Values, Lambdas   \* see RecursiveCalls

VARIABLES
  lambda,    \* the lambda the function was emitted for
  locals,    \* its parameters, C variables
  pc,        \* the C statement that is next
  outcome    \* as in RecursiveCalls

callVars == <<lambda, locals, pc, outcome>>

R == INSTANCE RecursiveCalls WITH args <- locals, at <- pc

ASSUME CallsAssumption == Arity \in Nat /\ \A l \in Lambdas : R!IsLambda(l)

Params == 1 .. Arity

-----------------------------------------------------------------------------
(* What is emitted *)

\* detect_tail_recursive_call: the last statement is an expression, a call
\* through the name of the binding that owns the lambda.
Detected(l) == ~l.returned /\ l.callee = l.owner

C(op, to, value) == [op |-> op, to |-> to, value |-> value]
NoValue == [reads |-> {}, of |-> <<>>]

\* bug: the assignments in the other order.
LastFirst(l, i) == C("set", Arity + 1 - i, l.arguments[Arity + 1 - i])

\* The i-th of the assignments that make the call.
Reassignment(l, i) == C("set", i, l.arguments[i])

\* c_emit_lambda_functions: the i-th statement of the function.
Emitted(l, i) ==
  LET before == Len(l.before)
  IN  CASE i <= before /\ l.before[i].returns -> C("return", 0, NoValue)
        [] i <= before /\ ~l.before[i].returns ->
             C("set", l.before[i].to, l.before[i].value)
        [] i > before /\ ~Detected(l) -> C("call", 0, NoValue)
        [] i > before /\ Detected(l) ->
             IF i - before \in Params THEN Reassignment(l, i - before)
             ELSE C("loop", 0, NoValue)

-----------------------------------------------------------------------------
(* How it runs *)

CallInit ==
  /\ lambda \in Lambdas
  /\ locals \in R!Vectors
  /\ pc = 1
  /\ outcome = "running"

This == Emitted(lambda, pc)

SetParameter ==
  /\ This.op = "set"
  /\ locals' = [locals EXCEPT ![This.to] = R!Eval(This.value, locals)]
  /\ pc' = pc + 1
  /\ UNCHANGED outcome

ReturnValue ==
  /\ This.op = "return"
  /\ outcome' = "returned"
  /\ UNCHANGED <<locals, pc>>

Loop ==
  /\ This.op = "loop"
  /\ pc' = 1
  /\ UNCHANGED <<locals, outcome>>

\* The closure found under the callee's name runs on a copy of the arguments.
CallCallable ==
  /\ This.op = "call"
  /\ locals' = [p \in Params |-> R!Eval(lambda.arguments[p], locals)]
  /\ IF R!CallsItself(lambda) THEN pc' = 1 /\ UNCHANGED outcome
     ELSE outcome' = "called" /\ UNCHANGED pc

CallNext ==
  /\ outcome = "running"
  /\ UNCHANGED lambda
  /\ SetParameter \/ ReturnValue \/ Loop \/ CallCallable

CallSpec == CallInit /\ [][CallNext]_callVars

-----------------------------------------------------------------------------
(* Properties *)

\* The lambdas a loop is right for: the name of the callee is not taken by a
\* parameter or a local binding, and no argument reads a parameter that is
\* assigned before it.
LoopIsRight(l) ==
  Detected(l) =>
    /\ l.callee \notin l.taken
    /\ \A p, q \in Params : q < p => q \notin l.arguments[p].reads

\* Some parameters have their new value and the call counts as made.
Reassigning == Detected(lambda) /\ pc > Len(lambda.before) + 1
Assigned(p) == p < pc - Len(lambda.before)

\* The vector of the call: the values assigned, and those still to come.
CallVector ==
  IF ~Reassigning THEN locals
  ELSE [p \in Params |-> IF Assigned(p) THEN locals[p]
                         ELSE R!Eval(lambda.arguments[p], locals)]

ByValue == INSTANCE RecursiveCalls WITH
             args <- CallVector, at <- IF Reassigning THEN 1 ELSE pc

\* c_emit_lambda_functions: the function that is emitted does what calls by
\* value do, the loop that stands for a call to itself included.
CallsByValue == ByValue!Spec
=============================================================================
