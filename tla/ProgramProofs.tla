--------------------------- MODULE ProgramProofs ---------------------------
(***************************************************************************)
(* Compiled programs.                                                      *)
(*                                                                         *)
(* TailCalls: the loop emitted for a call to itself implements the call,   *)
(* for lambdas with any number of parameters and any expressions, as long  *)
(* as the name of the callee is its own and no argument reads a parameter  *)
(* that is assigned before it.                                             *)
(*                                                                         *)
(* CalyndaProgram: for programs of any size, circles of bindings are found *)
(* and code stops only at what is not initialised.                         *)
(***************************************************************************)
EXTENDS TailCalls, CalyndaProgram, TLAPS

Before == Len(lambda.before)

CallInv ==
  /\ lambda \in Lambdas
  /\ locals \in [Params -> Values]
  /\ pc \in Nat /\ pc >= 1
  /\ pc <= Before + Arity + 1
  /\ pc > Before + 1 => Detected(lambda)

\* What an expression gives is a value, and depends on what it reads alone.
LEMMA EvalIsValue ==
  ASSUME NEW e, R!IsExpression(e), NEW v \in [Params -> Values]
  PROVE  R!Eval(e, v) \in Values
<1>1. [p \in e.reads |-> v[p]] \in [e.reads -> Values]
  BY DEF R!IsExpression, R!Params, Params
<1> QED BY <1>1 DEF R!Eval, R!IsExpression

LEMMA EvalReads ==
  ASSUME NEW e, NEW v, NEW w, \A p \in e.reads : v[p] = w[p]
  PROVE  R!Eval(e, v) = R!Eval(e, w)
<1>1. [p \in e.reads |-> v[p]] = [p \in e.reads |-> w[p]]
  OBVIOUS
<1> QED BY <1>1 DEF R!Eval

LEMMA CallInvInit == CallInit => CallInv
<1> SUFFICES ASSUME CallInit PROVE CallInv
  OBVIOUS
<1>1. R!IsLambda(lambda) /\ Arity \in Nat
  BY CallsAssumption DEF CallInit
<1>2. Before \in Nat
  BY <1>1 DEF R!IsLambda, Before
<1> QED BY <1>1, <1>2 DEF CallInit, CallInv, Params, R!Vectors, R!Params

\* What is known of a lambda.
LEMMA Shape ==
  ASSUME NEW l \in Lambdas
  PROVE  /\ Arity \in Nat /\ Len(l.before) \in Nat
         /\ \A i \in 1 .. Len(l.before) :
              ~l.before[i].returns =>
                l.before[i].to \in Params /\ R!IsExpression(l.before[i].value)
         /\ \A p \in Params : R!IsExpression(l.arguments[p])
  BY CallsAssumption DEF R!IsLambda, R!IsStatement, Params, R!Params

\* Where the function is and what its statement is.
LEMMA SetMeans ==
  ASSUME CallInv, This.op = "set"
  PROVE  \/ /\ pc <= Before /\ ~lambda.before[pc].returns
            /\ This.to = lambda.before[pc].to
            /\ This.value = lambda.before[pc].value
         \/ /\ pc > Before /\ Detected(lambda) /\ pc - Before \in Params
            /\ This.to = pc - Before
            /\ This.value = lambda.arguments[pc - Before]
<1>1. Before \in Nat /\ pc \in Nat
  BY Shape DEF CallInv, Before
<1>2. CASE pc <= Before /\ lambda.before[pc].returns
  BY <1>1, <1>2 DEF This, Emitted, C, Before
<1>3. CASE pc <= Before /\ ~lambda.before[pc].returns
  BY <1>1, <1>3 DEF This, Emitted, C, Before
<1>4. CASE pc > Before /\ ~Detected(lambda)
  BY <1>1, <1>4 DEF This, Emitted, C, Before
<1>5. CASE pc > Before /\ Detected(lambda)
  BY <1>1, <1>5 DEF This, Emitted, C, Before, Reassignment
<1> QED BY <1>1, <1>2, <1>3, <1>4, <1>5

LEMMA ReturnMeans ==
  ASSUME CallInv, This.op = "return"
  PROVE  pc <= Before /\ lambda.before[pc].returns
<1>1. Before \in Nat /\ pc \in Nat
  BY Shape DEF CallInv, Before
<1>2. CASE pc <= Before /\ ~lambda.before[pc].returns
  BY <1>1, <1>2 DEF This, Emitted, C, Before
<1>3. CASE pc > Before /\ ~Detected(lambda)
  BY <1>1, <1>3 DEF This, Emitted, C, Before
<1>4. CASE pc > Before /\ Detected(lambda)
  BY <1>1, <1>4 DEF This, Emitted, C, Before, Reassignment
<1> QED BY <1>1, <1>2, <1>3, <1>4

LEMMA LoopMeans ==
  ASSUME CallInv, This.op = "loop"
  PROVE  Detected(lambda) /\ pc = Before + Arity + 1
<1>1. Before \in Nat /\ pc \in Nat /\ Arity \in Nat
  BY Shape DEF CallInv, Before
<1>2. CASE pc <= Before /\ lambda.before[pc].returns
  BY <1>1, <1>2 DEF This, Emitted, C, Before
<1>3. CASE pc <= Before /\ ~lambda.before[pc].returns
  BY <1>1, <1>3 DEF This, Emitted, C, Before
<1>4. CASE pc > Before /\ ~Detected(lambda)
  BY <1>1, <1>4 DEF This, Emitted, C, Before
<1>5. CASE pc > Before /\ Detected(lambda)
  <2>1. pc - Before \notin Params
    BY <1>1, <1>5 DEF This, Emitted, C, Before, Reassignment
  <2> QED BY <1>1, <1>5, <2>1 DEF CallInv, Params
<1> QED BY <1>1, <1>2, <1>3, <1>4, <1>5

LEMMA CallMeans ==
  ASSUME CallInv, This.op = "call"
  PROVE  ~Detected(lambda) /\ pc = Before + 1
<1>1. Before \in Nat /\ pc \in Nat /\ Arity \in Nat
  BY Shape DEF CallInv, Before
<1>2. CASE pc <= Before /\ lambda.before[pc].returns
  BY <1>1, <1>2 DEF This, Emitted, C, Before
<1>3. CASE pc <= Before /\ ~lambda.before[pc].returns
  BY <1>1, <1>3 DEF This, Emitted, C, Before
<1>4. CASE pc > Before /\ ~Detected(lambda)
  BY <1>1, <1>4 DEF CallInv
<1>5. CASE pc > Before /\ Detected(lambda)
  BY <1>1, <1>5 DEF This, Emitted, C, Before, Reassignment
<1> QED BY <1>1, <1>2, <1>3, <1>4, <1>5

LEMMA CallInvStep ==
  ASSUME CallInv, [CallNext]_callVars
  PROVE  CallInv'
<1>1. /\ Arity \in Nat /\ Before \in Nat /\ pc \in Nat
      /\ lambda \in Lambdas /\ locals \in [Params -> Values]
  BY Shape DEF CallInv, Before
<1>2. CASE UNCHANGED callVars
  BY <1>2 DEF CallInv, callVars, Before
<1>3. CASE CallNext
  <2>1. UNCHANGED lambda /\ Before' = Before
    BY <1>3 DEF CallNext, Before
  <2>2. CASE SetParameter
    <3>1. R!IsExpression(This.value) /\ This.to \in Params
      <4>1. This.op = "set"
        BY <2>2 DEF SetParameter
      <4>2. CASE /\ pc <= Before /\ ~lambda.before[pc].returns
                 /\ This.to = lambda.before[pc].to
                 /\ This.value = lambda.before[pc].value
        <5>1. pc \in 1 .. Len(lambda.before)
          BY <1>1, <4>2 DEF CallInv, Before
        <5> QED BY <1>1, <4>2, <5>1, Shape
      <4>3. CASE /\ pc - Before \in Params
                 /\ This.to = pc - Before
                 /\ This.value = lambda.arguments[pc - Before]
        BY <1>1, <4>3, Shape
      <4> QED BY <4>1, <4>2, <4>3, SetMeans
    <3>2. locals' \in [Params -> Values]
      BY <1>1, <2>2, <3>1, EvalIsValue DEF SetParameter
    <3>3. pc' = pc + 1 /\ (pc <= Before \/ (Detected(lambda) /\ pc - Before \in Params))
      BY <2>2, SetMeans DEF SetParameter
    <3> QED BY <1>1, <2>1, <3>2, <3>3 DEF CallInv, Params, Detected
  <2>3. CASE ReturnValue
    BY <2>1, <2>3 DEF ReturnValue, CallInv, Detected
  <2>4. CASE Loop
    BY <1>1, <2>1, <2>4 DEF Loop, CallInv, Detected
  <2>5. CASE CallCallable
    <3>1. locals' \in [Params -> Values]
      BY <1>1, <2>5, EvalIsValue, Shape DEF CallCallable
    <3>2. pc' = 1 \/ pc' = pc
      BY <2>5 DEF CallCallable
    <3> QED BY <1>1, <2>1, <3>1, <3>2 DEF CallInv, Detected
  <2> QED BY <1>3, <2>2, <2>3, <2>4, <2>5 DEF CallNext
<1> QED BY <1>2, <1>3

\* The assignment of parameter i, when it stands for the call or a part of it.
LEMMA AssignmentSimulates ==
  ASSUME CallInv, LoopIsRight(lambda), CallNext, SetParameter, pc > Before
  PROVE  ByValue!Next \/ UNCHANGED ByValue!vars
<1> DEFINE i == pc - Before
           arg(p) == lambda.arguments[p]
<1>1. /\ Arity \in Nat /\ Before \in Nat /\ pc \in Nat
      /\ lambda \in Lambdas /\ locals \in [Params -> Values]
  BY Shape DEF CallInv, Before
<1>2. /\ Detected(lambda) /\ i \in Params
      /\ locals' = [locals EXCEPT ![i] = R!Eval(arg(i), locals)]
      /\ pc' = pc + 1 /\ UNCHANGED <<lambda, outcome>> /\ outcome = "running"
  <2>1. /\ Detected(lambda) /\ i \in Params
        /\ This.to = i /\ This.value = arg(i)
    BY <1>1, SetMeans DEF SetParameter
  <2>2. locals' = [locals EXCEPT ![This.to] = R!Eval(This.value, locals)]
    BY DEF SetParameter
  <2>3. pc' = pc + 1 /\ UNCHANGED <<lambda, outcome>> /\ outcome = "running"
    BY DEF SetParameter, CallNext
  <2> QED BY <2>1, <2>2, <2>3
<1>3. \A p \in Params : p > i => R!Eval(arg(p), locals') = R!Eval(arg(p), locals)
  <2> SUFFICES ASSUME NEW p \in Params, p > i
               PROVE  R!Eval(arg(p), locals') = R!Eval(arg(p), locals)
    OBVIOUS
  <2>1. i \notin arg(p).reads
    BY <1>2 DEF LoopIsRight
  <2>2. \A q \in arg(p).reads : locals'[q] = locals[q]
    <3>1. arg(p).reads \subseteq Params
      BY <1>1, Shape DEF R!IsExpression, R!Params, Params
    <3> QED BY <1>1, <1>2, <2>1, <3>1
  <2> QED BY <2>2, EvalReads
<1>4. Before' = Before /\ Reassigning'
  BY <1>1, <1>2 DEF Reassigning, Before, Detected, Params
<1>5. CallVector' = [p \in Params |-> IF p < i + 1 THEN locals'[p]
                                      ELSE R!Eval(arg(p), locals')]
  <2>1. \A p \in Params : Assigned(p)' <=> p < i + 1
    BY <1>1, <1>2, <1>4 DEF Assigned, Before, Params
  <2>2. lambda' = lambda
    BY <1>2
  <2>3. CallVector' = [p \in Params |-> IF Assigned(p)' THEN locals'[p]
                                        ELSE R!Eval(lambda.arguments[p], locals')]
    BY ONLY <1>4, <2>2 DEF CallVector, R!Eval, Params
  <2> QED BY ONLY <2>1, <2>3
<1>6. CallVector' = [p \in Params |-> IF p < i THEN locals[p]
                                      ELSE R!Eval(arg(p), locals)]
  <2>1. ASSUME NEW p \in Params
        PROVE  (IF p < i + 1 THEN locals'[p] ELSE R!Eval(arg(p), locals'))
                 = (IF p < i THEN locals[p] ELSE R!Eval(arg(p), locals))
    <3>1. CASE p < i
      BY <1>1, <1>2, <3>1 DEF Params
    <3>2. CASE p = i
      BY <1>1, <1>2, <3>2 DEF Params
    <3>3. CASE p > i
      <4>1. ~(p < i + 1) /\ ~(p < i)
        BY <1>1, <1>2, <3>3 DEF Params
      <4>2. R!Eval(arg(p), locals') = R!Eval(arg(p), locals)
        BY <1>3, <3>3
      <4> QED BY <4>1, <4>2
    <3> QED BY <1>1, <1>2, <3>1, <3>2, <3>3 DEF Params
  <2> QED BY <1>5, <2>1
<1>7. CASE i = 1
  <2>1. ~Reassigning /\ CallVector = locals
    BY <1>1, <1>7 DEF Reassigning, CallVector, Before
  <2>2. CallVector' = [p \in Params |-> ByValue!Eval(arg(p), CallVector)]
    <3>1. \A p \in Params : ~(p < i)
      BY <1>7 DEF Params
    <3> QED BY <1>6, <2>1, <3>1 DEF R!Eval, ByValue!Eval
  <2>3. ByValue!CallsItself(lambda)
    BY <1>2 DEF ByValue!CallsItself, LoopIsRight, Detected
  <2>4. ByValue!Calls
    BY <1>1, <1>2, <1>4, <1>7, <2>1, <2>2, <2>3 DEF ByValue!Calls, ByValue!Params, Params, Before
  <2> QED BY <1>2, <2>4 DEF ByValue!Next
<1>8. CASE i > 1
  <2>1. Reassigning
    BY <1>1, <1>2, <1>8 DEF Reassigning, Before
  <2>2. CallVector = [p \in Params |-> IF p < i THEN locals[p]
                                       ELSE R!Eval(arg(p), locals)]
    BY <2>1 DEF CallVector, Assigned, Before
  <2> QED BY <1>2, <1>4, <1>6, <2>1, <2>2 DEF ByValue!vars
<1> QED BY <1>1, <1>2, <1>7, <1>8 DEF Params

\* Every step is one of calls by value, or none.
LEMMA StepSimulates ==
  ASSUME CallInv, CallInv', LoopIsRight(lambda), [CallNext]_callVars
  PROVE  [ByValue!Next]_(ByValue!vars)
<1>1. /\ Arity \in Nat /\ Before \in Nat /\ pc \in Nat
      /\ lambda \in Lambdas /\ locals \in [Params -> Values]
  BY Shape DEF CallInv, Before
<1>2. CASE UNCHANGED callVars
  BY <1>2 DEF callVars, ByValue!vars, CallVector, Reassigning, Assigned, Detected, R!Eval
<1>3. CASE CallNext
  <2>1. UNCHANGED lambda /\ Before' = Before /\ outcome = "running"
    BY <1>3 DEF CallNext, Before
  <2>2. CASE SetParameter
    <3>1. CASE pc > Before
      BY <1>3, <2>2, <3>1, AssignmentSimulates
    <3>2. CASE pc <= Before
      <4>1. /\ ~lambda.before[pc].returns
            /\ This.to = lambda.before[pc].to
            /\ This.value = lambda.before[pc].value
        BY <1>1, <2>2, <3>2, SetMeans DEF SetParameter
      <4>2. ~Reassigning /\ ~Reassigning'
        BY <1>1, <2>1, <2>2, <3>2 DEF Reassigning, SetParameter, Before
      <4>3. CallVector = locals /\ CallVector' = locals'
        BY <4>2 DEF CallVector
      <4>4. ByValue!Assigns
        BY <2>2, <3>2, <4>1, <4>2, <4>3
           DEF SetParameter, ByValue!Assigns, ByValue!Statement, ByValue!Eval, R!Eval, Before
      <4> QED BY <2>1, <4>4 DEF ByValue!Next
    <3> QED BY <1>1, <3>1, <3>2
  <2>3. CASE ReturnValue
    <3>1. pc <= Before /\ lambda.before[pc].returns
      BY <2>3, ReturnMeans DEF ReturnValue
    <3>2. ~Reassigning /\ ~Reassigning'
      BY <1>1, <2>1, <2>3, <3>1 DEF Reassigning, ReturnValue, Before
    <3>3. ByValue!Returns
      BY <2>3, <3>1, <3>2 DEF ReturnValue, CallVector, ByValue!Returns, ByValue!Statement, Before
    <3> QED BY <2>1, <3>3 DEF ByValue!Next
  <2>4. CASE Loop
    <3>1. Detected(lambda) /\ pc = Before + Arity + 1 /\ pc' = 1 /\ UNCHANGED <<locals, outcome>>
      BY <2>4, LoopMeans DEF Loop
    <3>2. ~Reassigning' /\ CallVector' = locals
      BY <1>1, <2>1, <3>1 DEF Reassigning, CallVector, Before
    <3>3. CASE Arity = 0
      <4>1. ~Reassigning /\ CallVector = locals
        BY <1>1, <3>1, <3>3 DEF Reassigning, CallVector, Before
      <4>2. CallVector' = [p \in Params |-> ByValue!Eval(lambda.arguments[p], CallVector)]
        <5>1. Params = {}
          BY <3>3 DEF Params
        <5> QED BY <1>1, <3>2, <5>1
      <4>3. ByValue!CallsItself(lambda)
        BY <3>1 DEF ByValue!CallsItself, LoopIsRight, Detected
      <4>4. ByValue!Calls
        BY <1>1, <3>1, <3>2, <3>3, <4>1, <4>2, <4>3
           DEF ByValue!Calls, ByValue!Params, Params, Before
      <4> QED BY <2>1, <4>4 DEF ByValue!Next
    <3>4. CASE Arity > 0
      <4>1. Reassigning
        BY <1>1, <3>1, <3>4 DEF Reassigning, Before
      <4>2. \A p \in Params : Assigned(p)
        BY <1>1, <3>1 DEF Assigned, Params, Before
      <4>3. CallVector = locals
        BY <1>1, <4>1, <4>2 DEF CallVector
      <4> QED BY <2>1, <3>1, <3>2, <4>1, <4>3 DEF ByValue!vars
    <3> QED BY <1>1, <3>3, <3>4
  <2>5. CASE CallCallable
    <3>1. ~Detected(lambda) /\ pc = Before + 1
      BY <2>5, CallMeans DEF CallCallable
    <3>2. ~Reassigning /\ ~Reassigning'
      BY <2>1, <3>1 DEF Reassigning, Detected
    <3>3. CallVector = locals /\ CallVector' = locals'
      BY <3>2 DEF CallVector
    <3>4. locals' = [p \in Params |-> ByValue!Eval(lambda.arguments[p], locals)]
      BY <2>5 DEF CallCallable, R!Eval, ByValue!Eval
    <3>5. ByValue!CallsItself(lambda) <=> R!CallsItself(lambda)
      BY DEF ByValue!CallsItself, R!CallsItself
    <3>6. ByValue!Calls
      BY <1>1, <2>5, <3>1, <3>2, <3>3, <3>4, <3>5
         DEF CallCallable, ByValue!Calls, ByValue!Params, Params, Before
    <3> QED BY <2>1, <3>6 DEF ByValue!Next
  <2> QED BY <1>3, <2>2, <2>3, <2>4, <2>5 DEF CallNext
<1> QED BY <1>2, <1>3

\* c_emit_lambda_functions, detect_tail_recursive_call: for any lambdas whose
\* calls to themselves do not read a parameter after it was assigned, and do
\* not take a parameter for themselves, the C that is emitted does what calls
\* by value do.
THEOREM LoopMakesTheCall ==
  ASSUME \A l \in Lambdas : LoopIsRight(l)
  PROVE  CallSpec => CallsByValue
<1>1. CallInit => ByValue!Init
  <2> SUFFICES ASSUME CallInit PROVE ByValue!Init
    OBVIOUS
  <2>1. CallInv
    BY CallInvInit
  <2>2. Before \in Nat
    BY <2>1, Shape DEF CallInv, Before
  <2>3. ~Reassigning
    BY <2>2 DEF CallInit, Reassigning, Before
  <2> QED BY <2>3 DEF CallInit, CallVector, ByValue!Init, ByValue!Vectors, ByValue!Params,
                      R!Vectors, R!Params
<1>2. CallInv /\ [CallNext]_callVars => CallInv'
  BY CallInvStep
<1>3. CallInv /\ CallInv' /\ [CallNext]_callVars => [ByValue!Next]_(ByValue!vars)
  BY StepSimulates DEF CallInv
<1> QED BY <1>1, <1>2, <1>3, CallInvInit, PTL DEF CallSpec, CallsByValue, ByValue!Spec

-----------------------------------------------------------------------------
(* The bindings of a program *)

Code == Seq(UsesIn(source))
Stack == Seq([of : Nat, left : Code])
NumberOfBindings == Len(source.bindings)

\* What is checked and executed is code of the program.
ProgramTypes ==
  /\ source \in Sources
  /\ verdict \in {"checking", "accepted", "rejected"}
  /\ mark \in [Bindings -> {"unseen", "resolving", "resolved"}]
  /\ next \in Nat \ {0}
  /\ frames \in Stack

LEMMA ProgramShape ==
  ASSUME source \in Sources
  PROVE  /\ source.mode \in {"boot", "start"} /\ source.body \in Code
         /\ NumberOfBindings \in Nat /\ Bindings = 1 .. NumberOfBindings
         /\ \A b \in Bindings :
              /\ Kind(b) \in {"lambda", "array", "number"}
              /\ Uses(b) \in Code
<1>1. /\ source.mode \in {"boot", "start"} /\ source.body \in Code
      /\ source.bindings \in Seq(BindingsIn(source))
  BY SourcesAssumption DEF Code
<1>2. /\ NumberOfBindings \in Nat /\ Bindings = 1 .. NumberOfBindings
      /\ \A b \in Bindings : source.bindings[b] \in BindingsIn(source)
  BY <1>1 DEF Bindings, NumberOfBindings
<1> QED
  BY <1>1, <1>2 DEF BindingsIn, Code, Kind, Uses

LEMMA UseShape ==
  ASSUME source \in Sources, NEW u \in UsesIn(source)
  PROVE  \/ u.what = "binding" /\ u.n \in Bindings /\ u = G(u.n)
         \/ u.what = "callable" /\ u.n \in Kinds /\ u = X(u.n)
BY DEF UsesIn, Bindings, G, X

\* The frames below the one on top, and the frame on top without its first use.
LEMMA CallersShape ==
  ASSUME frames \in Stack, frames # <<>>
  PROVE  /\ Len(frames) \in Nat \ {0} /\ DOMAIN frames = 1 .. Len(frames)
         /\ TopFrame \in [of : Nat, left : Code]
         /\ Callers \in Stack /\ Len(Callers) = Len(frames) - 1
         /\ DOMAIN Callers = 1 .. (Len(frames) - 1)
         /\ \A i \in DOMAIN Callers : Callers[i] = frames[i]
<1> DEFINE S == [of : Nat, left : Code]
<1>1. frames \in Seq(S)
  BY DEF Stack
<1> HIDE DEF S
<1>2. Len(frames) \in Nat \ {0} /\ DOMAIN frames = 1 .. Len(frames) /\ frames[Len(frames)] \in S
  BY <1>1
<1>3. /\ Callers \in Seq(S) /\ Len(Callers) = Len(frames) - 1
      /\ DOMAIN Callers = 1 .. (Len(frames) - 1)
      /\ \A i \in DOMAIN Callers : Callers[i] = frames[i]
  BY <1>1, <1>2 DEF Callers
<1> QED
  BY <1>2, <1>3 DEF S, Stack, TopFrame

\* The stack with a frame pushed.
LEMMA PushShape ==
  ASSUME NEW st \in Stack, NEW fr \in [of : Nat, left : Code]
  PROVE  /\ Append(st, fr) \in Stack /\ Len(st) \in Nat
         /\ Len(Append(st, fr)) = Len(st) + 1
         /\ DOMAIN Append(st, fr) = DOMAIN st \cup {Len(st) + 1}
         /\ DOMAIN st = 1 .. Len(st)
         /\ Append(st, fr)[Len(st) + 1] = fr
         /\ \A i \in DOMAIN st : Append(st, fr)[i] = st[i]
<1> DEFINE S == [of : Nat, left : Code]
<1>1. st \in Seq(S) /\ fr \in S
  BY DEF Stack
<1> HIDE DEF S
<1>2. /\ Append(st, fr) \in Seq(S) /\ Len(st) \in Nat
      /\ Len(Append(st, fr)) = Len(st) + 1
      /\ DOMAIN st = 1 .. Len(st)
      /\ DOMAIN Append(st, fr) = 1 .. (Len(st) + 1)
  BY <1>1
<1>3. Append(st, fr)[Len(st) + 1] = fr
  BY <1>1
<1>4. \A i \in 1 .. Len(st) : Append(st, fr)[i] = st[i]
  BY <1>1
<1>5. 1 .. (Len(st) + 1) = 1 .. Len(st) \cup {Len(st) + 1}
  BY <1>2
<1> QED
  BY <1>2, <1>3, <1>4, <1>5 DEF S, Stack

LEMMA UsedShape ==
  ASSUME source \in Sources, frames \in Stack, UsesLeft
  PROVE  /\ Use \in UsesIn(source)
         /\ Used \in Stack /\ Len(Used) = Len(frames) /\ DOMAIN Used = DOMAIN frames
         /\ DOMAIN frames = 1 .. Len(frames) /\ Len(frames) \in Nat \ {0}
         /\ Used[Len(frames)] = [of |-> TopFrame.of, left |-> Tail(TopFrame.left)]
         /\ \A i \in 1 .. (Len(frames) - 1) : Used[i] = frames[i]
         /\ \A k \in DOMAIN Tail(TopFrame.left) :
              k + 1 \in DOMAIN TopFrame.left /\ Tail(TopFrame.left)[k] = TopFrame.left[k + 1]
         /\ \A k \in DOMAIN TopFrame.left :
              k = 1 \/ (k - 1 \in DOMAIN Tail(TopFrame.left)
                         /\ Tail(TopFrame.left)[k - 1] = TopFrame.left[k])
         /\ 1 \in DOMAIN TopFrame.left /\ TopFrame.left[1] = Use
<1>1. /\ Len(frames) \in Nat \ {0} /\ DOMAIN frames = 1 .. Len(frames)
      /\ TopFrame \in [of : Nat, left : Code]
      /\ Callers \in Stack /\ Len(Callers) = Len(frames) - 1
      /\ DOMAIN Callers = 1 .. (Len(frames) - 1)
      /\ \A i \in DOMAIN Callers : Callers[i] = frames[i]
  BY CallersShape DEF UsesLeft
<1> DEFINE left == TopFrame.left
<1>2. left \in Code /\ TopFrame.of \in Nat /\ left # <<>>
  BY <1>1 DEF UsesLeft
<1> HIDE DEF left
<1>3. /\ Head(left) \in UsesIn(source) /\ Tail(left) \in Code
      /\ \A k \in DOMAIN Tail(left) : k + 1 \in DOMAIN left /\ Tail(left)[k] = left[k + 1]
      /\ \A k \in DOMAIN left :
              k = 1 \/ (k - 1 \in DOMAIN Tail(left) /\ Tail(left)[k - 1] = left[k])
      /\ 1 \in DOMAIN left /\ left[1] = Head(left)
  <2> DEFINE S == UsesIn(source)
  <2>1. left \in Seq(S) /\ left # <<>>
    BY <1>2 DEF Code
  <2> HIDE DEF S
  <2>2. /\ Head(left) \in S /\ Tail(left) \in Seq(S) /\ Len(left) \in Nat /\ Len(left) >= 1
        /\ Len(Tail(left)) = Len(left) - 1 /\ left[1] = Head(left)
        /\ DOMAIN left = 1 .. Len(left) /\ DOMAIN Tail(left) = 1 .. (Len(left) - 1)
    BY <2>1
  <2>3. \A k \in 1 .. (Len(left) - 1) : Tail(left)[k] = left[k + 1]
    BY <2>1
  <2> QED
    BY <2>2, <2>3 DEF S, Code
<1> DEFINE rest == [of |-> TopFrame.of, left |-> Tail(left)]
<1>4. rest \in [of : Nat, left : Code]
  BY <1>2, <1>3
<1>5. Used = Append(Callers, rest)
  BY DEF Used, Frame, left
<1> HIDE DEF rest
<1>6. /\ Used \in Stack /\ Len(Used) = Len(Callers) + 1
      /\ DOMAIN Used = DOMAIN Callers \cup {Len(Callers) + 1}
      /\ Used[Len(Callers) + 1] = rest
      /\ \A i \in DOMAIN Callers : Used[i] = Callers[i]
  <2>1. Callers \in Stack
    BY <1>1
  <2> QED
    BY <2>1, <1>4, <1>5, PushShape
<1>7. /\ Len(Used) = Len(frames) /\ DOMAIN Used = DOMAIN frames
      /\ Used[Len(frames)] = rest
      /\ \A i \in 1 .. (Len(frames) - 1) : Used[i] = frames[i]
  <2>1. Len(Callers) + 1 = Len(frames)
    BY <1>1
  <2>2. 1 .. (Len(frames) - 1) \cup {Len(frames)} = 1 .. Len(frames)
    BY <1>1
  <2>3. DOMAIN Used = DOMAIN frames
    BY <1>1, <1>6, <2>1, <2>2
  <2>4. Len(Used) = Len(frames) /\ Used[Len(frames)] = rest
    BY <1>6, <2>1
  <2>5. \A i \in 1 .. (Len(frames) - 1) : Used[i] = frames[i]
    BY <1>1, <1>6
  <2> QED
    BY <2>3, <2>4, <2>5
<1>8. Use = Head(left)
  BY DEF Use, left
<1>9. DOMAIN frames = 1 .. Len(frames) /\ Len(frames) \in Nat \ {0} /\ Used \in Stack
  BY <1>1, <1>6
<1>10. rest = [of |-> TopFrame.of, left |-> Tail(TopFrame.left)]
  BY DEF rest, left
<1> QED
  BY <1>3, <1>7, <1>8, <1>9, <1>10, SMTT(60) DEF left

-----------------------------------------------------------------------------
(* The type checker *)

ValueBindings == {b \in Bindings : ~IsLambda(b)}
Done(b) == mark[b] = "resolved"

\* What is resolved has no circle through values: the values it uses were
\* resolved before.
ResolvedOK ==
  \A b \in ValueBindings :
    Done(b) => ~Circular(b, ValueBindings) /\ \A c \in UsedBy(b) \cap ValueBindings : Done(c)

\* The stack holds what is being resolved, each binding used by the one below.
ResolvingOK ==
  /\ \A b \in Bindings : mark[b] = "resolving" => \E i \in DOMAIN frames : frames[i].of = b
  /\ \A i \in DOMAIN frames : frames[i].of \in Bindings /\ mark[frames[i].of] = "resolving"
  /\ \A i, j \in DOMAIN frames : frames[i].of = frames[j].of => i = j
  /\ \A i, j \in DOMAIN frames : i < j => frames[j].of \in DependsOn(frames[i].of, Bindings)

\* A frame still has the uses of its binding that were not checked.
FramesOK ==
  \A i \in DOMAIN frames :
    LET f == frames[i] IN
      /\ \A k \in DOMAIN f.left : f.left[k].what = "binding" => f.left[k].n \in UsedBy(f.of)
      /\ \A c \in UsedBy(f.of) \cap ValueBindings : Done(c) \/ \E k \in DOMAIN f.left : f.left[k] = G(c)

CheckInv ==
  /\ ProgramTypes
  /\ verdict = "rejected" => \E b \in ValueBindings : Circular(b, Bindings)
  /\ verdict = "accepted" => \A b \in ValueBindings : ~Circular(b, ValueBindings)
  /\ verdict = "checking" =>
       /\ \A b \in Bindings : b < next => mark[b] # "unseen"
       /\ ResolvedOK /\ ResolvingOK /\ FramesOK

\* A dependency is a use or a use by a dependency.
LEMMA Dependencies ==
  ASSUME NEW b, NEW S
  PROVE  /\ \A c \in UsedBy(b) \cap Bindings : c \in DependsOn(b, S)
         /\ \A d \in DependsOn(b, S) \cap S : \A c \in UsedBy(d) \cap Bindings : c \in DependsOn(b, S)
         /\ \A T \in SUBSET Bindings :
              UsedBy(b) \subseteq T /\ (\A d \in T \cap S : UsedBy(d) \subseteq T)
                => DependsOn(b, S) \subseteq T
BY DEF DependsOn

LEMMA UsedAreBindings ==
  ASSUME source \in Sources, NEW b \in Bindings
  PROVE  /\ UsedBy(b) \subseteq Bindings
         /\ \A k \in DOMAIN Uses(b) : Uses(b)[k].what = "binding" => Uses(b)[k].n \in UsedBy(b)
         /\ \A c \in UsedBy(b) : \E k \in DOMAIN Uses(b) : Uses(b)[k] = G(c)
<1>1. Uses(b) \in Seq(UsesIn(source))
  BY ProgramShape DEF Code
<1>2. \A k \in DOMAIN Uses(b) : Uses(b)[k] \in UsesIn(source)
  BY <1>1
<1>3. \A k \in DOMAIN Uses(b) :
        Uses(b)[k].what = "binding" => Uses(b)[k].n \in Bindings /\ Uses(b)[k] = G(Uses(b)[k].n)
  BY <1>2, UseShape
<1> QED
  BY <1>3 DEF UsedBy

LEMMA InitChecks == ProgramInit => CheckInv
<1> SUFFICES ASSUME ProgramInit PROVE CheckInv
  OBVIOUS
<1>1. /\ source \in Sources /\ verdict = "checking" /\ next = 1 /\ frames = <<>>
      /\ mark = [b \in Bindings |-> "unseen"]
  BY DEF ProgramInit
<1>2. ProgramTypes
  BY <1>1 DEF ProgramTypes, Stack
<1>3. Bindings = 1 .. NumberOfBindings /\ NumberOfBindings \in Nat
  BY <1>1, ProgramShape
<1> QED
  BY <1>1, <1>2, <1>3 DEF CheckInv, ResolvedOK, ResolvingOK, FramesOK, Done, ValueBindings

\* A binding that is met for the first time goes on the stack.
LEMMA ResolveChecks ==
  ASSUME CheckInv, verdict = "checking", NEW b \in Bindings, Resolve(b), source' = source,
         next' \in Nat \ {0},
         \A c \in Bindings : c < next' => c < next \/ c = b,
         frames = <<>> \/ (frames # <<>> /\ b \in UsedBy(TopFrame.of))
  PROVE  CheckInv'
<1> DEFINE n == Len(frames) + 1
<1>1. /\ source \in Sources /\ frames \in Stack /\ verdict' = verdict
      /\ mark \in [Bindings -> {"unseen", "resolving", "resolved"}]
      /\ mark[b] = "unseen" /\ mark' = [mark EXCEPT ![b] = "resolving"]
      /\ ResolvedOK /\ ResolvingOK /\ FramesOK
      /\ \A c \in Bindings : c < next => mark[c] # "unseen"
  BY DEF CheckInv, ProgramTypes, Resolve
<1>2. Frame(b, Uses(b)) \in [of : Nat, left : Code] /\ Frame(b, Uses(b)).of = b
      /\ Frame(b, Uses(b)).left = Uses(b)
  BY <1>1, ProgramShape DEF Frame
<1>3. /\ frames' \in Stack /\ DOMAIN frames' = DOMAIN frames \cup {n}
      /\ DOMAIN frames = 1 .. Len(frames) /\ Len(frames) \in Nat
      /\ frames'[n] = Frame(b, Uses(b))
      /\ \A i \in DOMAIN frames : frames'[i] = frames[i]
  BY <1>1, <1>2, PushShape DEF Resolve
<1>4. Bindings' = Bindings /\ ValueBindings' = ValueBindings
  BY DEF Bindings, ValueBindings, IsLambda, Kind
<1>5. /\ mark' \in [Bindings -> {"unseen", "resolving", "resolved"}]
      /\ mark'[b] = "resolving" /\ \A c \in Bindings \ {b} : mark'[c] = mark[c]
      /\ \A c \in Bindings : Done(c)' <=> Done(c)
  BY <1>1 DEF Done
<1>6. \A c, S : /\ UsedBy(c)' = UsedBy(c)
                /\ DependsOn(c, S)' = DependsOn(c, S)
                /\ (Circular(c, S)' <=> Circular(c, S))
  BY <1>4 DEF UsedBy, DependsOn, Circular, Uses
<1>7. ProgramTypes'
  BY <1>1, <1>3, <1>4, <1>5 DEF ProgramTypes, Code, Stack, UsesIn
<1>8. ResolvedOK'
  BY <1>1, <1>4, <1>5, <1>6, ZenonT(60) DEF ResolvedOK, ValueBindings
<1>9. ResolvingOK'
  <2>1. \A c \in Bindings : mark'[c] = "resolving" => \E i \in DOMAIN frames' : frames'[i].of = c
    BY <1>1, <1>2, <1>3, <1>5 DEF ResolvingOK
  <2>2. \A i \in DOMAIN frames' : frames'[i].of \in Bindings /\ mark'[frames'[i].of] = "resolving"
    BY <1>1, <1>2, <1>3, <1>5 DEF ResolvingOK
  <2>3. \A i, j \in DOMAIN frames' : frames'[i].of = frames'[j].of => i = j
    BY <1>1, <1>2, <1>3, <1>5 DEF ResolvingOK
  <2>4. ASSUME NEW i \in DOMAIN frames', NEW j \in DOMAIN frames', i < j
        PROVE  frames'[j].of \in DependsOn(frames'[i].of, Bindings)
    <3>1. i \in DOMAIN frames /\ frames'[i] = frames[i] /\ i \in 1 .. Len(frames)
      BY <2>4, <1>3
    <3>2. CASE j \in DOMAIN frames
      BY <3>1, <3>2, <2>4, <1>1, <1>3 DEF ResolvingOK
    <3>3. CASE j = n
      <4>1. /\ frames'[j].of = b /\ TopFrame = frames[Len(frames)]
            /\ Len(frames) \in DOMAIN frames /\ b \in UsedBy(TopFrame.of)
        BY <3>1, <3>3, <1>2, <1>3 DEF TopFrame
      <4>2. CASE i = Len(frames)
        BY <3>1, <4>1, <4>2, Dependencies
      <4>3. CASE i # Len(frames)
        <5>1. TopFrame.of \in DependsOn(frames[i].of, Bindings) /\ TopFrame.of \in Bindings
          BY <3>1, <4>1, <4>3, <1>1, <1>3 DEF ResolvingOK
        <5> QED
          BY <3>1, <4>1, <5>1, Dependencies
      <4> QED
        BY <4>2, <4>3
    <3> QED
      BY <3>2, <3>3, <1>3
  <2> QED
    BY <2>1, <2>2, <2>3, <2>4, <1>4, <1>6 DEF ResolvingOK
<1>10. FramesOK'
  <2>1. ASSUME NEW i \in DOMAIN frames
        PROVE  /\ \A k \in DOMAIN frames'[i].left :
                    frames'[i].left[k].what = "binding" => frames'[i].left[k].n \in UsedBy(frames'[i].of)
               /\ \A c \in UsedBy(frames'[i].of) \cap ValueBindings :
                    Done(c)' \/ \E k \in DOMAIN frames'[i].left : frames'[i].left[k] = G(c)
    <3>1. frames'[i] = frames[i]
      BY <1>3
    <3> QED
      BY <3>1, <1>1, <1>5 DEF FramesOK, ValueBindings
  <2>2. /\ \A k \in DOMAIN frames'[n].left :
             frames'[n].left[k].what = "binding" => frames'[n].left[k].n \in UsedBy(frames'[n].of)
        /\ \A c \in UsedBy(frames'[n].of) \cap ValueBindings :
             Done(c)' \/ \E k \in DOMAIN frames'[n].left : frames'[n].left[k] = G(c)
    <3>1. frames'[n].of = b /\ frames'[n].left = Uses(b)
      BY <1>2, <1>3
    <3> QED
      BY <3>1, <1>1, UsedAreBindings
  <2> QED
    BY <2>1, <2>2, <1>3, <1>4, <1>6 DEF FramesOK, G
<1> QED
  BY <1>1, <1>4, <1>5, <1>7, <1>8, <1>9, <1>10 DEF CheckInv

\* What depends on the source and the marks alone.
LEMMA SameProgram ==
  ASSUME source' = source
  PROVE  /\ Bindings' = Bindings /\ ValueBindings' = ValueBindings /\ Stack' = Stack
         /\ \A b, S : (Circular(b, S)' <=> Circular(b, S)) /\ DependsOn(b, S)' = DependsOn(b, S)
         /\ \A b : UsedBy(b)' = UsedBy(b)
BY DEF Bindings, ValueBindings, IsLambda, Kind, UsedBy, DependsOn, Circular, Uses, Stack, Code, UsesIn

\* A use of what is no binding, or of a binding that was met before.
LEMMA PassedUseChecks ==
  ASSUME CheckInv, CheckUse, ~(Use.what = "binding" /\ mark[Use.n] = "unseen")
  PROVE  CheckInv'
<1> DEFINE n == Len(frames)
<1>1. /\ source \in Sources /\ frames \in Stack /\ verdict = "checking" /\ UsesLeft
      /\ source' = source /\ mark' = mark /\ next' = next /\ frames' = Used
      /\ verdict' = IF Use.what = "binding" /\ mark[Use.n] = "resolving"
                    THEN MetAgain(Use.n) ELSE verdict
      /\ mark \in [Bindings -> {"unseen", "resolving", "resolved"}]
      /\ ResolvedOK /\ ResolvingOK /\ FramesOK
      /\ next \in Nat \ {0}
  BY DEF CheckUse, Checking, CheckInv, ProgramTypes
<1>2. /\ Use \in UsesIn(source)
      /\ frames' \in Stack /\ Len(frames') = n /\ DOMAIN frames' = DOMAIN frames
      /\ DOMAIN frames = 1 .. n /\ n \in Nat \ {0}
      /\ frames'[n] = [of |-> TopFrame.of, left |-> Tail(TopFrame.left)]
      /\ \A i \in 1 .. (n - 1) : frames'[i] = frames[i]
      /\ \A k \in DOMAIN Tail(TopFrame.left) :
           k + 1 \in DOMAIN TopFrame.left /\ Tail(TopFrame.left)[k] = TopFrame.left[k + 1]
      /\ \A k \in DOMAIN TopFrame.left :
           k = 1 \/ (k - 1 \in DOMAIN Tail(TopFrame.left)
                      /\ Tail(TopFrame.left)[k - 1] = TopFrame.left[k])
      /\ 1 \in DOMAIN TopFrame.left /\ TopFrame.left[1] = Use
  BY <1>1, UsedShape
<1>3. TopFrame = frames[n] /\ n \in DOMAIN frames
  BY <1>2 DEF TopFrame
<1>4. /\ Bindings' = Bindings /\ ValueBindings' = ValueBindings /\ Stack' = Stack
      /\ \A b, S : (Circular(b, S)' <=> Circular(b, S)) /\ DependsOn(b, S)' = DependsOn(b, S)
      /\ \A b : UsedBy(b)' = UsedBy(b)
      /\ \A b : Done(b)' <=> Done(b)
  BY <1>1, SameProgram DEF Done
<1>5. \/ Use.what = "binding" /\ Use.n \in Bindings /\ Use = G(Use.n)
      \/ Use.what = "callable" /\ Use = X(Use.n)
  BY <1>1, <1>2, UseShape
<1>6. ASSUME Use.what = "binding" PROVE Use.n \in UsedBy(TopFrame.of)
  BY <1>6, <1>1, <1>2, <1>3 DEF FramesOK
<1>7. \A i \in DOMAIN frames : frames'[i].of = frames[i].of
  BY <1>2, <1>3
<1>8. verdict' \in {"checking", "rejected"}
  BY <1>1 DEF MetAgain
<1>9. ProgramTypes'
  BY <1>1, <1>2, <1>4, <1>8 DEF ProgramTypes
<1>10. CASE verdict' = "rejected"
  <2>1. Use.what = "binding" /\ mark[Use.n] = "resolving" /\ ~IsLambda(Use.n)
    BY <1>1, <1>10 DEF MetAgain
  <2> DEFINE c == Use.n
  <2>2. c \in ValueBindings /\ c \in Bindings
    BY <2>1, <1>5 DEF ValueBindings
  <2>3. PICK i \in DOMAIN frames : frames[i].of = c
    BY <1>1, <2>1, <2>2 DEF ResolvingOK
  <2>4. c \in DependsOn(c, Bindings)
    <3>1. CASE i = n
      BY <3>1, <2>1, <2>2, <2>3, <1>3, <1>6, Dependencies
    <3>2. CASE i # n
      <4>1. TopFrame.of \in DependsOn(c, Bindings) /\ TopFrame.of \in Bindings
        <5>1. i < n
          BY <3>2, <1>2
        <5> HIDE DEF n, c
        <5> QED
          BY <5>1, <2>3, <1>1, <1>3 DEF ResolvingOK
      <4> QED
        BY <4>1, <2>1, <2>2, <1>6, Dependencies
    <3> QED
      BY <3>1, <3>2
  <2>5. Circular(c, Bindings)
    BY <2>2, <2>4 DEF Circular
  <2> QED
    BY <1>4, <1>9, <1>10, <2>2, <2>5 DEF CheckInv
<1>11. CASE verdict' = "checking"
  <2>1. Use.what = "binding" /\ Use.n \in ValueBindings => Done(Use.n)
    <3> SUFFICES ASSUME Use.what = "binding", Use.n \in ValueBindings PROVE Done(Use.n)
      OBVIOUS
    <3>1. ~IsLambda(Use.n) /\ Use.n \in Bindings
      BY DEF ValueBindings
    <3>2. mark[Use.n] # "resolving"
      BY <3>1, <1>1, <1>11 DEF MetAgain
    <3> QED
      BY <3>1, <3>2, <1>1 DEF Done
  <2>2. ResolvedOK'
    BY <1>1, <1>4 DEF ResolvedOK
  <2>3. ResolvingOK'
    <3>1. \A b \in Bindings : mark[b] = "resolving" => \E i \in DOMAIN frames' : frames'[i].of = b
      BY <1>1, <1>2, <1>7 DEF ResolvingOK
    <3>2. ASSUME NEW i \in DOMAIN frames
          PROVE  frames'[i].of \in Bindings /\ mark[frames'[i].of] = "resolving"
      BY <1>1, <1>7 DEF ResolvingOK
    <3>3. ASSUME NEW i \in DOMAIN frames, NEW j \in DOMAIN frames
          PROVE  /\ frames'[i].of = frames'[j].of => i = j
                 /\ i < j => frames'[j].of \in DependsOn(frames'[i].of, Bindings)
      <4>1. frames'[i].of = frames[i].of /\ frames'[j].of = frames[j].of
        BY <1>7
      <4> HIDE DEF n
      <4> QED
        BY <4>1, <1>1 DEF ResolvingOK
    <3> QED
      BY <3>1, <3>2, <3>3, <1>1, <1>2, <1>4 DEF ResolvingOK
  <2>4. ASSUME NEW i \in DOMAIN frames
        PROVE  /\ \A k \in DOMAIN frames'[i].left :
                    frames'[i].left[k].what = "binding" => frames'[i].left[k].n \in UsedBy(frames'[i].of)
               /\ \A c \in UsedBy(frames'[i].of) \cap ValueBindings :
                    Done(c) \/ \E k \in DOMAIN frames'[i].left : frames'[i].left[k] = G(c)
    <3>1. CASE i # n
      <4>1. frames'[i] = frames[i]
        BY <3>1, <1>2
      <4> QED
        BY <4>1, <1>1 DEF FramesOK
    <3>2. CASE i = n
      <4>1. frames'[i].left = Tail(TopFrame.left) /\ frames'[i].of = TopFrame.of
        BY <3>2, <1>2
      <4>2. /\ \A k \in DOMAIN TopFrame.left :
                 TopFrame.left[k].what = "binding" => TopFrame.left[k].n \in UsedBy(TopFrame.of)
            /\ \A c \in UsedBy(TopFrame.of) \cap ValueBindings :
                 Done(c) \/ \E k \in DOMAIN TopFrame.left : TopFrame.left[k] = G(c)
        BY <1>1, <1>3 DEF FramesOK
      <4>3. ASSUME NEW c \in UsedBy(TopFrame.of) \cap ValueBindings, ~Done(c)
            PROVE  \E k \in DOMAIN Tail(TopFrame.left) : Tail(TopFrame.left)[k] = G(c)
        <5>1. PICK k \in DOMAIN TopFrame.left : TopFrame.left[k] = G(c)
          BY <4>2, <4>3
        <5>2. k # 1
          <6>1. G(c).what = "binding" /\ G(c).n = c
            BY DEF G
          <6> QED
            BY <5>1, <6>1, <4>3, <2>1, <1>2
        <5>3. k - 1 \in DOMAIN Tail(TopFrame.left) /\ Tail(TopFrame.left)[k - 1] = TopFrame.left[k]
          BY <5>2, <1>2
        <5> QED
          BY <5>1, <5>3
      <4> QED
        BY <4>1, <4>2, <4>3, <1>2
    <3> QED
      BY <3>1, <3>2
  <2>5. FramesOK'
    BY <2>4, <1>2, <1>4 DEF FramesOK, G
  <2> QED
    BY <1>1, <1>4, <1>9, <1>11, <2>2, <2>3, <2>5 DEF CheckInv
<1> QED
  BY <1>8, <1>10, <1>11

\* All uses of a binding were checked: its values were resolved before it, so
\* that nothing it depends on through values is the binding itself.
LEMMA ResolvedChecks ==
  ASSUME CheckInv, Resolved
  PROVE  CheckInv'
<1> DEFINE n == Len(frames)
<1> DEFINE b == TopFrame.of
<1>1. /\ source \in Sources /\ frames \in Stack /\ verdict = "checking" /\ verdict' = "checking"
      /\ UsesDone /\ frames # <<>> /\ TopFrame.left = <<>>
      /\ source' = source /\ next' = next /\ frames' = Callers
      /\ mark' = [mark EXCEPT ![b] = "resolved"]
      /\ mark \in [Bindings -> {"unseen", "resolving", "resolved"}]
      /\ ResolvedOK /\ ResolvingOK /\ FramesOK /\ next \in Nat \ {0}
      /\ \A c \in Bindings : c < next => mark[c] # "unseen"
  BY DEF Resolved, UsesDone, Checking, CheckInv, ProgramTypes
<1>2. /\ n \in Nat \ {0} /\ DOMAIN frames = 1 .. n
      /\ frames' \in Stack
      /\ DOMAIN frames' = 1 .. (n - 1)
      /\ \A i \in 1 .. (n - 1) : frames'[i] = frames[i]
  BY <1>1, CallersShape
<1>3. /\ n \in DOMAIN frames /\ TopFrame = frames[n] /\ b \in Bindings /\ mark[b] = "resolving"
      /\ \A i \in 1 .. (n - 1) : i \in DOMAIN frames /\ i # n /\ frames[i].of # b
  <2>1. n \in DOMAIN frames /\ TopFrame = frames[n]
    BY <1>2 DEF TopFrame
  <2>2. b \in Bindings /\ mark[b] = "resolving"
    BY <2>1, <1>1 DEF ResolvingOK
  <2>3. ASSUME NEW i \in 1 .. (n - 1) PROVE i \in DOMAIN frames /\ i # n /\ frames[i].of # b
    <3>1. i \in DOMAIN frames /\ i # n
      BY <1>2
    <3> QED
      BY <3>1, <2>1, <1>1 DEF ResolvingOK
  <2> QED
    BY <2>1, <2>2, <2>3
<1>4. /\ Bindings' = Bindings /\ ValueBindings' = ValueBindings /\ Stack' = Stack
      /\ \A c, S : (Circular(c, S)' <=> Circular(c, S)) /\ DependsOn(c, S)' = DependsOn(c, S)
      /\ \A c : UsedBy(c)' = UsedBy(c)
  BY <1>1, SameProgram
<1> HIDE DEF b
<1>5. /\ mark'[b] = "resolved" /\ \A c \in Bindings \ {b} : mark'[c] = mark[c]
      /\ mark' \in [Bindings -> {"unseen", "resolving", "resolved"}]
      /\ \A c \in Bindings : Done(c)' <=> (Done(c) \/ c = b)
      /\ ~Done(b)
  BY <1>1, <1>3 DEF Done
<1>6. ProgramTypes'
  BY <1>1, <1>2, <1>4, <1>5 DEF ProgramTypes
<1>7. \A c \in UsedBy(b) \cap ValueBindings : Done(c)
  <2>1. DOMAIN TopFrame.left = {}
    BY <1>1
  <2> QED
    BY <2>1, <1>1, <1>3 DEF FramesOK, b
<1>8. ASSUME b \in ValueBindings PROVE ~Circular(b, ValueBindings)
  <2> DEFINE T == (Bindings \ ValueBindings) \cup {c \in ValueBindings : Done(c)}
  <2>1. T \in SUBSET Bindings /\ b \notin T
    BY <1>5, <1>8 DEF ValueBindings
  <2>2. \A c \in Bindings : UsedBy(c) \subseteq Bindings
    BY <1>1, UsedAreBindings
  <2>3. UsedBy(b) \subseteq T
    BY <1>3, <1>7, <2>2
  <2>4. \A d \in T \cap ValueBindings : UsedBy(d) \subseteq T
    BY <2>1, <2>2, <1>1 DEF ResolvedOK
  <2> HIDE DEF T
  <2> QED
    BY <2>1, <2>3, <2>4, Dependencies DEF Circular
<1>9. ResolvedOK'
  BY <1>1, <1>4, <1>5, <1>7, <1>8 DEF ResolvedOK, ValueBindings
<1>10. ResolvingOK'
  <2>1. ASSUME NEW c \in Bindings, mark'[c] = "resolving"
        PROVE  \E i \in DOMAIN frames' : frames'[i].of = c
    <3>1. c # b /\ mark[c] = "resolving"
      BY <2>1, <1>5
    <3>2. PICK i \in DOMAIN frames : frames[i].of = c
      BY <3>1, <1>1 DEF ResolvingOK
    <3>3. i # n
      BY <3>1, <3>2, <1>3 DEF b
    <3> QED
      BY <3>2, <3>3, <1>2
  <2>2. \A i \in DOMAIN frames' : frames'[i].of \in Bindings /\ mark'[frames'[i].of] = "resolving"
    <3> SUFFICES ASSUME NEW i \in DOMAIN frames'
                 PROVE  frames'[i].of \in Bindings /\ mark'[frames'[i].of] = "resolving"
      OBVIOUS
    <3>1. i \in DOMAIN frames /\ frames'[i] = frames[i] /\ frames[i].of # b
      BY <1>2, <1>3
    <3> QED
      BY <3>1, <1>1, <1>5 DEF ResolvingOK
  <2>3. ASSUME NEW i \in DOMAIN frames', NEW j \in DOMAIN frames'
        PROVE  /\ frames'[i].of = frames'[j].of => i = j
               /\ i < j => frames'[j].of \in DependsOn(frames'[i].of, Bindings)
    <3>1. /\ i \in DOMAIN frames /\ frames'[i] = frames[i]
          /\ j \in DOMAIN frames /\ frames'[j] = frames[j]
      BY <1>2, <1>3
    <3>2. ResolvingOK
      BY <1>1
    <3> QED
      BY <3>1, <3>2, SMTT(60) DEF ResolvingOK
  <2> QED
    BY <2>1, <2>2, <2>3, <1>4 DEF ResolvingOK
<1>11. FramesOK'
  <2>1. ASSUME NEW i \in DOMAIN frames'
        PROVE  /\ \A k \in DOMAIN frames'[i].left :
                    frames'[i].left[k].what = "binding" => frames'[i].left[k].n \in UsedBy(frames'[i].of)
               /\ \A c \in UsedBy(frames'[i].of) \cap ValueBindings :
                    Done(c)' \/ \E k \in DOMAIN frames'[i].left : frames'[i].left[k] = G(c)
    <3>1. i \in DOMAIN frames /\ frames'[i] = frames[i]
      BY <1>2, <1>3
    <3> QED
      BY <3>1, <1>1, <1>5, SMTT(60) DEF FramesOK, ValueBindings
  <2> QED
    BY <2>1, <1>4 DEF FramesOK, G
<1> QED
  BY <1>1, <1>4, <1>5, <1>6, <1>9, <1>10, <1>11 DEF CheckInv

\* When all declarations were checked every binding is resolved.
LEMMA AcceptChecks ==
  ASSUME CheckInv, Accept
  PROVE  CheckInv'
<1>1. /\ source \in Sources /\ verdict = "checking" /\ verdict' = "accepted"
      /\ frames = <<>> /\ frames' = frames /\ next \notin Bindings /\ next' = 1
      /\ source' = source /\ mark' = mark
      /\ mark \in [Bindings -> {"unseen", "resolving", "resolved"}]
      /\ ResolvedOK /\ ResolvingOK /\ next \in Nat \ {0} /\ frames \in Stack
      /\ \A c \in Bindings : c < next => mark[c] # "unseen"
  BY DEF Accept, CheckInv, ProgramTypes
<1>2. Bindings = 1 .. NumberOfBindings /\ NumberOfBindings \in Nat
  BY <1>1, ProgramShape
<1>3. /\ Bindings' = Bindings /\ ValueBindings' = ValueBindings /\ Stack' = Stack
      /\ \A c, S : Circular(c, S)' <=> Circular(c, S)
  BY <1>1, SameProgram
<1>4. ASSUME NEW c \in ValueBindings PROVE ~Circular(c, ValueBindings)
  <2>1. c \in Bindings /\ c < next
    BY <1>1, <1>2 DEF ValueBindings
  <2>2. mark[c] # "unseen" /\ mark[c] # "resolving"
    BY <2>1, <1>1 DEF ResolvingOK
  <2> QED
    BY <2>1, <2>2, <1>1 DEF ResolvedOK, Done
<1> QED
  BY <1>1, <1>3, <1>4 DEF CheckInv, ProgramTypes

-----------------------------------------------------------------------------
(* The process *)

Running ==
  \/ InitRuntime \/ InitGlobal \/ GlobalSet \/ GlobalsSet \/ RunEntry
  \/ Perform \/ CallClosure \/ ClosureReturns \/ EntryReturns \/ Fail

\* What calynda_program_main can have left to do.
Remaining ==
  IF source.mode = "boot"
  THEN {<<"init", "globals", "body">>, <<"globals", "body">>, <<"body">>, <<>>}
  ELSE {<<"globals", "init", "body">>, <<"init", "body">>, <<"body">>, <<>>}

Initialised == todo = <<>> \/ Head(todo) = "body" \/ (source.mode = "boot" /\ Head(todo) = "globals")
GlobalsDone == todo = <<>> \/ Head(todo) = "body" \/ (source.mode = "start" /\ Head(todo) = "init")

\* What a global holds is 0 or an object of its kind.
WordsOK ==
  \A b \in Bindings :
    \/ word[b] = 0
    \/ word[b] \in DOMAIN objects \cap registered /\ objects[word[b]] = Kind(b)

\* The globals above the next one are set.
SetOK == \A b \in Bindings : b < next /\ Kind(b) # "number" => word[b] # 0

\* Code runs in the initialiser of the next global or in the entry.
CodeOK ==
  frames # <<>> =>
    /\ todo # <<>>
    /\ \/ Head(todo) = "globals" /\ next \in Bindings
       \/ Head(todo) = "body"

\* In a program without uses of a later binding, code uses what is set.
UsesOK ==
  InOrder =>
    \A i \in DOMAIN frames : \A k \in DOMAIN frames[i].left :
      frames[i].left[k].what = "binding" => frames[i].left[k].n < next

RunInv ==
  /\ objects \in Seq({"lambda", "array", "number"})
  /\ word \in [Bindings -> Int]
  /\ WordsOK
  /\ verdict # "accepted" => report = Fine
  /\ verdict = "accepted" =>
       /\ todo \in Remaining
       /\ Initialised => Statics \subseteq registered
       /\ GlobalsDone => next \notin Bindings
       /\ SetOK /\ CodeOK /\ UsesOK
  /\ StopsOnlyForUnset

\* Each callable belongs to one package, and the dispatch finds it.
LEMMA DispatchFinds ==
  ASSUME NEW k \in Kinds
  PROVE  PackageOf(k) \in Packages /\ Dispatch(k) = PackageOf(k)
<1>1. /\ LastKind(0) = 0 /\ LastKind(100) = 118 /\ LastKind(200) = 240
      /\ LastKind(300) = 332 /\ LastKind(400) = 427 /\ LastKind(500) = 535
  BY DEF LastKind, Mii
<1>2. PICK p \in Packages : k \in p .. LastKind(p)
  BY DEF Kinds
<1>3. PackageOf(k) \in Packages /\ k \in PackageOf(k) .. LastKind(PackageOf(k))
  BY <1>2 DEF PackageOf
<1>4. ASSUME NEW q \in Packages, k \in q .. LastKind(q)
      PROVE  Dispatch(k) = q
  <2>1. /\ k \in Int /\ q <= k
        /\ \A r \in Packages : r \in Int /\ (r <= k => r <= q)
    <3>1. \A r \in Packages : r \in Int
      BY DEF Packages, Mii
    <3>2. q = 0 => k = 0
      BY <1>1, <1>4
    <3>3. q # 0 => k < q + 100
      BY <1>1, <1>4 DEF Packages, Mii
    <3>4. q # 0 => \A r \in Packages : r <= q \/ r >= q + 100
      BY DEF Packages, Mii
    <3>5. k \in Int /\ q <= k
      BY <1>1, <1>4 DEF Packages, Mii
    <3>6. \A r \in Packages : r >= 0
      BY DEF Packages, Mii
    <3> HIDE DEF LastKind
    <3> QED
      BY <3>1, <3>2, <3>3, <3>4, <3>5, <3>6
  <2>2. ASSUME NEW p2 \in Packages, p2 <= k, \A r \in Packages : r <= k => r <= p2
        PROVE  p2 = q
    <3>1. p2 \in Int /\ q \in Int /\ p2 <= q /\ q <= p2
      BY <2>1, <2>2
    <3> QED
      BY <3>1
  <2>3. Dispatch(k) \in Packages /\ Dispatch(k) <= k /\ \A r \in Packages : r <= k => r <= Dispatch(k)
    BY <2>1 DEF Dispatch
  <2> QED
    BY <2>2, <2>3
<1> QED
  BY <1>3, <1>4

\* With its statics registered the runtime runs any callable of a package.
LEMMA CallablesRun ==
  ASSUME Statics \subseteq registered, NEW k \in Kinds
  PROVE  Report(X(k)) = "none"
<1>1. PackageOf(k) \in Packages /\ Dispatch(k) = PackageOf(k)
  BY DispatchFinds
<1>2. Packages \subseteq Nat /\ Kinds \subseteq Nat
  <2>1. \A p \in Packages : p \in Nat /\ LastKind(p) \in Nat
    BY DEF Packages, LastKind, Mii
  <2> QED
    BY <2>1 DEF Kinds
<1>3. IsObject(PackageAt(PackageOf(k)))
  <2>1. PackageAt(PackageOf(k)) # 0
    <3>1. PackageOf(k) \in Nat
      BY <1>1, <1>2
    <3> HIDE DEF PackageOf
    <3> QED
      BY <3>1 DEF PackageAt
  <2>2. PackageOf(k) # 0 => PackageAt(PackageOf(k)) \in registered
    BY <1>1 DEF Statics
  <2>3. PackageOf(k) = 0 => PackageAt(PackageOf(k)) \in AlwaysKnown
    BY <1>1 DEF AlwaysKnown, Mii
  <2> QED
    BY <2>1, <2>2, <2>3 DEF IsObject
<1>4. IsObject(CallableAt(k))
  <2>1. CallableAt(k) # 0
    BY <1>2 DEF CallableAt
  <2>2. k # 0 => CallableAt(k) \in registered
    BY DEF Statics
  <2>3. k = 0 => CallableAt(k) \in AlwaysKnown
    BY DEF AlwaysKnown
  <2> QED
    BY <2>1, <2>2, <2>3 DEF IsObject
<1>5. X(k).what = "callable" /\ X(k).n = k
  BY DEF X
<1> QED
  BY <1>1, <1>3, <1>4, <1>5 DEF Report

\* A global that is set, or holds a number, is what its uses take it for.
LEMMA GlobalsServe ==
  ASSUME WordsOK, NEW b \in Bindings, Kind(b) = "number" \/ word[b] # 0
  PROVE  Report(G(b)) = "none"
<1>1. G(b).what = "binding" /\ G(b).n = b
  BY DEF G
<1>2. CASE Kind(b) = "number"
  BY <1>1, <1>2 DEF Report, IsLambda
<1>3. CASE word[b] # 0
  <2>1. word[b] \in DOMAIN objects \cap registered /\ objects[word[b]] = Kind(b)
    BY <1>3 DEF WordsOK
  <2>2. IsA(word[b], Kind(b))
    BY <1>3, <2>1 DEF IsA, IsObject
  <2> QED
    BY <1>1, <2>2 DEF Report, IsLambda
<1> QED
  BY <1>2, <1>3

LEMMA InitRuns == ProgramInit => RunInv
<1> SUFFICES ASSUME ProgramInit PROVE RunInv
  OBVIOUS
<1>1. /\ objects = <<>> /\ word = [b \in Bindings |-> 0] /\ verdict = "checking" /\ report = Fine
  BY DEF ProgramInit
<1> QED
  BY <1>1 DEF RunInv, WordsOK, StopsOnlyForUnset

\* The checker leaves the process alone.
LEMMA CheckerRuns ==
  ASSUME RunInv, CheckUse \/ Resolved \/ CheckDeclaration, verdict' # "accepted"
  PROVE  RunInv'
<1>1. /\ verdict = "checking" /\ source' = source /\ word' = word /\ objects' = objects
      /\ registered' = registered /\ report' = report
  BY DEF CheckUse, Resolved, CheckDeclaration, Checking, heapVars
<1>2. report = Fine
  BY <1>1 DEF RunInv
<1> QED
  BY <1>1, <1>2 DEF RunInv, WordsOK, StopsOnlyForUnset, Bindings, Kind

LEMMA AcceptRuns ==
  ASSUME RunInv, CheckInv, Accept
  PROVE  RunInv'
<1>1. /\ verdict = "checking" /\ verdict' = "accepted" /\ frames = <<>> /\ frames' = <<>>
      /\ next' = 1 /\ todo' = ToDo(source.mode) /\ source' = source
      /\ word' = word /\ objects' = objects /\ registered' = registered /\ report' = report
      /\ source \in Sources
  BY DEF Accept, heapVars, CheckInv, ProgramTypes
<1>2. report = Fine
  BY <1>1 DEF RunInv
<1>3. source.mode \in {"boot", "start"} /\ Bindings = 1 .. NumberOfBindings /\ NumberOfBindings \in Nat
  BY <1>1, ProgramShape
<1>4. /\ Bindings' = Bindings /\ \A b : Kind(b)' = Kind(b)
  BY <1>1 DEF Bindings, Kind
<1>5. todo' \in Remaining' /\ ~Initialised' /\ ~GlobalsDone'
  BY <1>1, <1>3 DEF ToDo, Remaining, Initialised, GlobalsDone
<1>6. SetOK' /\ CodeOK' /\ UsesOK'
  BY <1>1, <1>3, <1>4 DEF SetOK, CodeOK, UsesOK
<1>7. WordsOK' /\ StopsOnlyForUnset'
  BY <1>1, <1>2, <1>4 DEF RunInv, WordsOK, StopsOnlyForUnset
<1> QED
  BY <1>1, <1>4, <1>5, <1>6, <1>7 DEF RunInv

\* What the next thing to do leaves.
LEMMA Progress ==
  ASSUME source.mode \in {"boot", "start"}, todo \in Remaining, todo # <<>>
  PROVE  /\ Tail(todo) \in Remaining
         /\ Head(todo) = "globals" =>
              /\ ~GlobalsDone
              /\ \/ Tail(todo) = <<"body">> /\ Initialised
                 \/ Tail(todo) = <<"init", "body">> /\ source.mode = "start"
         /\ Head(todo) = "init" =>
              /\ ~Initialised
              /\ \/ Tail(todo) = <<"globals", "body">> /\ source.mode = "boot"
                 \/ Tail(todo) = <<"body">> /\ GlobalsDone
         /\ Head(todo) = "body" => Initialised /\ GlobalsDone /\ Tail(todo) = <<>>
<1>1. CASE todo = <<"init", "globals", "body">> /\ source.mode = "boot"
  BY <1>1 DEF Remaining, Initialised, GlobalsDone
<1>2. CASE todo = <<"globals", "body">> /\ source.mode = "boot"
  BY <1>2 DEF Remaining, Initialised, GlobalsDone
<1>3. CASE todo = <<"globals", "init", "body">> /\ source.mode = "start"
  BY <1>3 DEF Remaining, Initialised, GlobalsDone
<1>4. CASE todo = <<"init", "body">> /\ source.mode = "start"
  BY <1>4 DEF Remaining, Initialised, GlobalsDone
<1>5. CASE todo = <<"body">>
  BY <1>5 DEF Remaining, Initialised, GlobalsDone
<1> QED
  BY <1>1, <1>2, <1>3, <1>4, <1>5 DEF Remaining

\* A running process changes nothing the checker left behind.
LEMMA RunningChecks ==
  ASSUME CheckInv, Running
  PROVE  CheckInv'
<1>1. /\ source' = source /\ verdict = "accepted" /\ verdict' = verdict /\ mark' = mark
      /\ source \in Sources /\ frames \in Stack /\ next \in Nat \ {0}
  BY DEF Running, InitRuntime, InitGlobal, GlobalSet, GlobalsSet, RunEntry, Perform,
         CallClosure, ClosureReturns, EntryReturns, Fail, Doing, Executing, checkVars,
         CheckInv, ProgramTypes
<1>2. /\ Bindings' = Bindings /\ ValueBindings' = ValueBindings /\ Stack' = Stack
      /\ \A c, S : Circular(c, S)' <=> Circular(c, S)
  BY <1>1, SameProgram
<1>3. Bindings = 1 .. NumberOfBindings /\ NumberOfBindings \in Nat
  BY <1>1, ProgramShape
<1>4. ASSUME NEW n \in Nat, NEW code \in Code
      PROVE  Frame(n, code) \in [of : Nat, left : Code] /\ <<Frame(n, code)>> \in Stack
  <2>1. Frame(n, code) \in [of : Nat, left : Code]
    BY <1>4 DEF Frame
  <2> QED
    BY <2>1 DEF Stack
<1>5. <<>> \in Stack /\ <<>> \in Code
  BY DEF Stack, Code
<1>6. frames' \in Stack /\ next' \in Nat \ {0}
  <2>1. CASE InitRuntime \/ GlobalsSet \/ Fail
    BY <2>1, <1>1 DEF InitRuntime, GlobalsSet, Fail
  <2>2. CASE InitGlobal
    <3>1. next \in Bindings /\ next' = next
          /\ frames' = <<Frame(next, IF IsLambda(next) THEN <<>> ELSE Uses(next))>>
      BY <2>2 DEF InitGlobal
    <3>2. (IF IsLambda(next) THEN <<>> ELSE Uses(next)) \in Code
      BY <3>1, <1>1, <1>5, ProgramShape
    <3> QED
      BY <3>1, <3>2, <1>1, <1>4
  <2>3. CASE GlobalSet \/ EntryReturns
    BY <2>3, <1>1, <1>5 DEF GlobalSet, EntryReturns
  <2>4. CASE RunEntry
    <3>1. source.body \in Code
      BY <1>1, ProgramShape
    <3> QED
      BY <2>4, <3>1, <1>1, <1>4 DEF RunEntry, TheBody
  <2>5. CASE Perform
    <3>1. UsesLeft /\ frames' = Used /\ next' = next
      BY <2>5 DEF Perform
    <3> QED
      BY <3>1, <1>1, UsedShape
  <2>6. CASE CallClosure
    <3>1. UsesLeft /\ frames' = Append(Used, Frame(Use.n, Uses(Use.n))) /\ next' = next
          /\ Use.what = "binding"
      BY <2>6 DEF CallClosure
    <3>2. Used \in Stack /\ Use \in UsesIn(source)
      BY <3>1, <1>1, UsedShape
    <3>3. Use.n \in Bindings
      BY <3>1, <3>2, <1>1, UseShape
    <3>4. Uses(Use.n) \in Code /\ Use.n \in Nat
      BY <3>3, <1>1, <1>3, ProgramShape
    <3>5. Frame(Use.n, Uses(Use.n)) \in [of : Nat, left : Code]
      BY <3>4, <1>4
    <3> QED
      BY <3>1, <3>2, <3>5, <1>1, PushShape
  <2>7. CASE ClosureReturns
    <3>1. frames # <<>> /\ frames' = Callers /\ next' = next
      BY <2>7 DEF ClosureReturns, UsesDone
    <3> QED
      BY <3>1, <1>1, CallersShape
  <2> QED
    BY <2>1, <2>2, <2>3, <2>4, <2>5, <2>6, <2>7 DEF Running
<1> QED
  BY <1>1, <1>2, <1>6 DEF CheckInv, ProgramTypes

\* A step that leaves the heap and the next global as they are.
LEMMA HeapKept ==
  ASSUME RunInv, verdict = "accepted", verdict' = "accepted", source' = source,
         UNCHANGED heapVars, next' = next, report' = Fine,
         todo' \in Remaining, Initialised' => Initialised, GlobalsDone' => next \notin Bindings,
         CodeOK', UsesOK'
  PROVE  RunInv'
<1>1. /\ word' = word /\ objects' = objects /\ registered' = registered /\ Bindings' = Bindings
      /\ \A b : Kind(b)' = Kind(b)
  BY DEF heapVars, Bindings, Kind
<1>2. WordsOK' /\ SetOK' /\ StopsOnlyForUnset'
  BY <1>1 DEF RunInv, WordsOK, SetOK, StopsOnlyForUnset
<1> QED
  BY <1>1, <1>2 DEF RunInv, Remaining

\* Steps that start and end the code of a global or of the entry.
LEMMA PhasesRun ==
  ASSUME RunInv, CheckInv,
         InitGlobal \/ GlobalsSet \/ RunEntry \/ EntryReturns
  PROVE  RunInv'
<1>1. /\ source' = source /\ verdict = "accepted" /\ verdict' = "accepted" /\ report = Fine
      /\ report' = Fine /\ source \in Sources /\ next \in Nat \ {0} /\ next' = next
      /\ UNCHANGED heapVars /\ todo # <<>>
  BY DEF InitGlobal, GlobalsSet, RunEntry, EntryReturns, Doing, Executing, checkVars,
         CheckInv, ProgramTypes
<1>2. /\ todo \in Remaining /\ (GlobalsDone => next \notin Bindings)
  BY <1>1 DEF RunInv
<1>3. source.mode \in {"boot", "start"} /\ Bindings = 1 .. NumberOfBindings /\ NumberOfBindings \in Nat
  BY <1>1, ProgramShape
<1>4. Bindings' = Bindings /\ (InOrder' <=> InOrder)
  BY <1>1, SameProgram DEF InOrder, IsLambda, Kind
<1>5. CASE InitGlobal
  <2>1. /\ Head(todo) = "globals" /\ next \in Bindings /\ todo' = todo
        /\ frames' = <<Frame(next, IF IsLambda(next) THEN <<>> ELSE Uses(next))>>
    BY <1>5 DEF InitGlobal, Doing
  <2>2. CodeOK'
    BY <1>1, <1>4, <2>1 DEF CodeOK
  <2>3. UsesOK'
    <3> SUFFICES ASSUME InOrder,
                        NEW k \in DOMAIN frames'[1].left, frames'[1].left[k].what = "binding"
                 PROVE  frames'[1].left[k].n < next
      BY <1>1, <1>4, <2>1 DEF UsesOK
    <3>1. frames'[1].left = IF IsLambda(next) THEN <<>> ELSE Uses(next)
      BY <2>1 DEF Frame
    <3>2. ~IsLambda(next) /\ frames'[1].left = Uses(next)
      BY <3>1
    <3>3. Uses(next)[k].n \in UsedBy(next)
      BY <3>2, <2>1, <1>1, UsedAreBindings
    <3> QED
      BY <3>2, <3>3, <2>1 DEF InOrder
  <2> QED
    BY <1>1, <1>2, <2>1, <2>2, <2>3, HeapKept DEF Initialised, GlobalsDone
<1>6. CASE GlobalsSet
  <2>1. /\ Head(todo) = "globals" /\ next \notin Bindings /\ todo' = Tail(todo)
        /\ frames = <<>> /\ frames' = <<>>
    BY <1>6 DEF GlobalsSet, Doing
  <2>2. todo' \in Remaining /\ (Initialised' => Initialised)
    <3>1. /\ Tail(todo) \in Remaining
          /\ \/ Tail(todo) = <<"body">> /\ Initialised
             \/ Tail(todo) = <<"init", "body">> /\ source.mode = "start"
      BY <1>1, <1>2, <1>3, <2>1, Progress
    <3>2. CASE todo' = <<"init", "body">>
      <4>1. Head(todo') = "init" /\ todo' # <<>>
        BY <3>2
      <4> QED
        BY <2>1, <3>1, <4>1 DEF Initialised
    <3> QED
      BY <2>1, <3>1, <3>2
  <2>3. CodeOK' /\ UsesOK'
    BY <2>1 DEF CodeOK, UsesOK
  <2> QED
    BY <1>1, <1>2, <2>1, <2>2, <2>3, HeapKept
<1>7. CASE RunEntry
  <2>1. /\ Head(todo) = "body" /\ todo' = todo /\ frames' = <<Frame(TheBody, source.body)>>
    BY <1>7 DEF RunEntry, Doing
  <2>2. CodeOK'
    BY <1>1, <2>1 DEF CodeOK
  <2>3. next \notin Bindings
    BY <1>2, <2>1 DEF GlobalsDone
  <2>4. UsesOK'
    <3> SUFFICES ASSUME NEW k \in DOMAIN frames'[1].left, frames'[1].left[k].what = "binding"
                 PROVE  frames'[1].left[k].n < next
      BY <1>1, <2>1 DEF UsesOK
    <3>1. frames'[1].left = source.body
      BY <2>1 DEF Frame
    <3>2. source.body \in Code
      BY <1>1, ProgramShape
    <3>3. source.body[k] \in UsesIn(source)
      BY <3>1, <3>2 DEF Code
    <3>4. source.body[k].n \in Bindings
      BY <3>1, <3>3, <1>1, UseShape
    <3> QED
      BY <3>1, <3>4, <2>3, <1>1, <1>3
  <2> QED
    BY <1>1, <1>2, <2>1, <2>2, <2>4, HeapKept DEF Initialised, GlobalsDone
<1>8. CASE EntryReturns
  <2>1. Head(todo) = "body" /\ frames' = <<>> /\ todo' = <<>>
    BY <1>8 DEF EntryReturns, Doing
  <2>2. todo' \in Remaining
    BY <2>1 DEF Remaining
  <2>3. Initialised /\ next \notin Bindings
    BY <1>2, <2>1 DEF Initialised, GlobalsDone
  <2>4. CodeOK' /\ UsesOK'
    BY <2>1 DEF CodeOK, UsesOK
  <2> QED
    BY <1>1, <2>2, <2>3, <2>4, HeapKept
<1> QED
  BY <1>5, <1>6, <1>7, <1>8
\* Steps of code.
LEMMA CodeRuns ==
  ASSUME RunInv, CheckInv,
         Perform \/ CallClosure \/ ClosureReturns
  PROVE  RunInv'
<1> DEFINE n == Len(frames)
<1>1. /\ source' = source /\ verdict = "accepted" /\ verdict' = "accepted" /\ report = Fine
      /\ report' = Fine /\ source \in Sources /\ frames \in Stack /\ next' = next
      /\ next \in Nat \ {0}
      /\ UNCHANGED heapVars /\ todo' = todo /\ frames # <<>>
  BY DEF Perform, CallClosure, ClosureReturns, Executing, checkVars, UsesLeft, UsesDone,
         CheckInv, ProgramTypes
<1>2. todo \in Remaining /\ (GlobalsDone => next \notin Bindings) /\ CodeOK /\ UsesOK
  BY <1>1 DEF RunInv
<1>3. Bindings' = Bindings /\ (InOrder' <=> InOrder)
  BY <1>1, SameProgram DEF InOrder, IsLambda, Kind
<1>4. Bindings = 1 .. NumberOfBindings /\ NumberOfBindings \in Nat
  BY <1>1, ProgramShape
<1>5. CodeOK'
  BY <1>1, <1>2, <1>3 DEF CodeOK
<1>6. ASSUME UsesLeft, InOrder
      PROVE  /\ \A i \in DOMAIN Used : \A k \in DOMAIN Used[i].left :
                  Used[i].left[k].what = "binding" => Used[i].left[k].n < next
             /\ Use.what = "binding" => Use.n < next
  <2>1. /\ DOMAIN Used = DOMAIN frames /\ DOMAIN frames = 1 .. n /\ n \in Nat \ {0}
        /\ Used[n] = [of |-> TopFrame.of, left |-> Tail(TopFrame.left)]
        /\ \A i \in 1 .. (n - 1) : Used[i] = frames[i]
        /\ \A k \in DOMAIN Tail(TopFrame.left) :
             k + 1 \in DOMAIN TopFrame.left /\ Tail(TopFrame.left)[k] = TopFrame.left[k + 1]
        /\ 1 \in DOMAIN TopFrame.left /\ TopFrame.left[1] = Use
    BY <1>1, <1>6, UsedShape
  <2>2. TopFrame = frames[n] /\ n \in DOMAIN frames
    BY <2>1 DEF TopFrame
  <2>3. ASSUME NEW i \in DOMAIN Used, NEW k \in DOMAIN Used[i].left,
               Used[i].left[k].what = "binding"
        PROVE  Used[i].left[k].n < next
    <3>1. CASE i = n
      BY <3>1, <2>1, <2>2, <2>3, <1>2, <1>6 DEF UsesOK
    <3>2. CASE i # n
      <4>1. Used[i] = frames[i] /\ i \in DOMAIN frames
        BY <3>2, <2>1
      <4> QED
        BY <4>1, <2>3, <1>2, <1>6 DEF UsesOK
    <3> QED
      BY <3>1, <3>2
  <2>4. Use.what = "binding" => Use.n < next
    BY <2>1, <2>2, <1>2, <1>6 DEF UsesOK
  <2> QED
    BY <2>3, <2>4
<1>7. CASE Perform
  <2>1. frames' = Used /\ UsesLeft
    BY <1>7 DEF Perform
  <2>2. UsesOK'
    BY <2>1, <1>1, <1>3, <1>6 DEF UsesOK
  <2> QED
    BY <1>1, <1>2, <1>5, <2>2, HeapKept DEF Initialised, GlobalsDone
<1>8. CASE CallClosure
  <2> DEFINE new == Frame(Use.n, Uses(Use.n))
  <2>1. /\ frames' = Append(Used, new) /\ UsesLeft /\ Use.what = "binding" /\ IsLambda(Use.n)
    BY <1>8 DEF CallClosure
  <2>2. Used \in Stack /\ Use \in UsesIn(source)
    BY <2>1, <1>1, UsedShape
  <2>3. Use.n \in Bindings
    BY <2>1, <2>2, <1>1, UseShape
  <2>4. Uses(Use.n) \in Code /\ Use.n \in Nat
    BY <2>3, <1>1, <1>4, ProgramShape
  <2>5. new \in [of : Nat, left : Code] /\ new.left = Uses(Use.n)
    BY <2>4 DEF Frame
  <2> HIDE DEF new
  <2>6. /\ DOMAIN frames' = DOMAIN Used \cup {Len(Used) + 1}
        /\ frames'[Len(Used) + 1] = new
        /\ \A i \in DOMAIN Used : frames'[i] = Used[i]
    BY <2>1, <2>2, <2>5, PushShape
  <2>7. ASSUME InOrder, NEW k \in DOMAIN Uses(Use.n), Uses(Use.n)[k].what = "binding"
        PROVE  Uses(Use.n)[k].n < next
    <3>1. Uses(Use.n)[k].n \in UsedBy(Use.n) /\ UsedBy(Use.n) \subseteq Bindings
      BY <2>3, <2>7, <1>1, UsedAreBindings
    <3>2. Uses(Use.n)[k].n <= Use.n
      BY <2>3, <2>7, <3>1, <1>4 DEF InOrder
    <3>3. Use.n < next
      BY <2>1, <2>7, <1>6
    <3> QED
      BY <2>3, <3>1, <3>2, <3>3, <1>1, <1>4
  <2>8. UsesOK'
    BY <2>1, <2>5, <2>6, <2>7, <1>1, <1>3, <1>6 DEF UsesOK
  <2> QED
    BY <1>1, <1>2, <1>5, <2>8, HeapKept DEF Initialised, GlobalsDone
<1>9. CASE ClosureReturns
  <2>1. frames' = Callers
    BY <1>9 DEF ClosureReturns
  <2>2. \A i \in DOMAIN frames' : i \in DOMAIN frames /\ frames'[i] = frames[i]
    BY <2>1, <1>1, CallersShape
  <2>3. UsesOK'
    BY <2>2, <1>1, <1>2, <1>3 DEF UsesOK
  <2> QED
    BY <1>1, <1>2, <1>5, <2>3, HeapKept DEF Initialised, GlobalsDone
<1> QED
  BY <1>7, <1>8, <1>9

\* An object more, registered at once.
LEMMA ObjectAdded ==
  ASSUME objects \in Seq({"lambda", "array", "number"}), NEW kind \in {"lambda", "array", "number"},
         objects' = Append(objects, kind)
  PROVE  /\ objects' \in Seq({"lambda", "array", "number"})
         /\ Len(objects) + 1 \in DOMAIN objects' /\ objects'[Len(objects) + 1] = kind
         /\ \A i \in DOMAIN objects : i \in DOMAIN objects' /\ objects'[i] = objects[i]
         /\ Len(objects) \in Nat
BY DEF ObjectAt

\* calynda_rt_init registers the statics; start_process boxes the arguments.
LEMMA InitRuntimeRuns ==
  ASSUME RunInv, CheckInv, InitRuntime
  PROVE  RunInv'
<1>1. /\ source' = source /\ verdict = "accepted" /\ verdict' = "accepted" /\ report = Fine
      /\ report' = Fine /\ source \in Sources /\ next' = next /\ word' = word
      /\ frames' = frames /\ todo # <<>> /\ Head(todo) = "init" /\ todo' = Tail(todo)
      /\ registered \cup Statics \subseteq registered'
      /\ objects' = objects \/ objects' = Append(objects, "array")
  BY DEF InitRuntime, Doing, Executing, checkVars, CheckInv, ProgramTypes
<1>2. /\ todo \in Remaining /\ (GlobalsDone => next \notin Bindings) /\ CodeOK /\ UsesOK
      /\ WordsOK /\ SetOK /\ objects \in Seq({"lambda", "array", "number"})
      /\ word \in [Bindings -> Int]
  BY <1>1 DEF RunInv
<1>3. source.mode \in {"boot", "start"}
  BY <1>1, ProgramShape
<1>4. Bindings' = Bindings /\ (\A b : Kind(b)' = Kind(b)) /\ (InOrder' <=> InOrder)
      /\ Remaining' = Remaining
  BY <1>1, SameProgram DEF InOrder, IsLambda, Kind, Remaining
<1>5. frames = <<>>
  BY <1>1, <1>2 DEF CodeOK
<1>6. /\ objects' \in Seq({"lambda", "array", "number"})
      /\ \A i \in DOMAIN objects : i \in DOMAIN objects' /\ objects'[i] = objects[i]
  BY <1>1, <1>2, ObjectAdded
<1>7. WordsOK' /\ SetOK' /\ CodeOK' /\ UsesOK' /\ StopsOnlyForUnset'
  BY <1>1, <1>2, <1>4, <1>5, <1>6 DEF WordsOK, SetOK, CodeOK, UsesOK, StopsOnlyForUnset
<1>8. todo' \in Remaining /\ (GlobalsDone' => GlobalsDone)
  <2>1. /\ Tail(todo) \in Remaining
        /\ \/ Tail(todo) = <<"globals", "body">> /\ source.mode = "boot"
           \/ Tail(todo) = <<"body">> /\ GlobalsDone
    BY <1>1, <1>2, <1>3, Progress
  <2>2. CASE todo' = <<"globals", "body">> /\ source.mode = "boot"
    <3>1. Head(todo') = "globals" /\ todo' # <<>>
      BY <2>2
    <3> QED
      BY <1>1, <2>1, <2>2, <3>1 DEF GlobalsDone
  <2> QED
    BY <1>1, <2>1, <2>2
<1> QED
  BY <1>1, <1>2, <1>4, <1>6, <1>7, <1>8 DEF RunInv, Statics

\* The global that is set holds an object of its kind, or a number.
LEMMA GlobalSetRuns ==
  ASSUME RunInv, CheckInv, GlobalSet
  PROVE  RunInv'
<1>1. /\ source' = source /\ verdict = "accepted" /\ verdict' = "accepted" /\ report = Fine
      /\ report' = Fine /\ source \in Sources /\ next' = next + 1 /\ next \in Nat \ {0}
      /\ frames # <<>> /\ frames' = <<>> /\ todo # <<>> /\ Head(todo) = "globals" /\ todo' = todo
  BY DEF GlobalSet, Doing, Executing, checkVars, UsesDone, CheckInv, ProgramTypes
<1>2. /\ todo \in Remaining /\ (Initialised => Statics \subseteq registered) /\ CodeOK
      /\ WordsOK /\ SetOK /\ objects \in Seq({"lambda", "array", "number"})
      /\ word \in [Bindings -> Int]
  BY <1>1 DEF RunInv
<1>3. source.mode \in {"boot", "start"} /\ Bindings = 1 .. NumberOfBindings /\ NumberOfBindings \in Nat
      /\ \A b \in Bindings : Kind(b) \in {"lambda", "array", "number"}
  BY <1>1, ProgramShape
<1>4. Bindings' = Bindings /\ (\A b : Kind(b)' = Kind(b)) /\ Remaining' = Remaining
  BY <1>1 DEF Bindings, Kind, Remaining
<1>5. next \in Bindings
  BY <1>1, <1>2 DEF CodeOK
<1>6. ~GlobalsDone'
  <2>1. ~GlobalsDone
    BY <1>1, <1>2, <1>3, Progress
  <2> QED
    BY <1>1, <2>1 DEF GlobalsDone
<1>7. CodeOK' /\ UsesOK' /\ StopsOnlyForUnset'
  BY <1>1 DEF CodeOK, UsesOK, StopsOnlyForUnset
<1>8. CASE Kind(next) = "number"
  <2>1. word' = word /\ objects' = objects /\ registered' = registered
    BY <1>8 DEF GlobalSet, heapVars
  <2>2. WordsOK' /\ SetOK'
    <3>1. \A b \in Bindings : b < next + 1 => b < next \/ b = next
      BY <1>1, <1>3
    <3> QED
      BY <1>1, <1>2, <1>4, <1>8, <2>1, <3>1 DEF WordsOK, SetOK
  <2> QED
    BY <1>1, <1>2, <1>4, <1>6, <1>7, <2>1, <2>2 DEF RunInv, Initialised, Statics
<1>9. CASE Kind(next) # "number"
  <2> DEFINE at == Len(objects) + 1
  <2>1. /\ objects' = Append(objects, Kind(next)) /\ registered' = registered \cup {at}
        /\ word' = [word EXCEPT ![next] = at]
    BY <1>9 DEF GlobalSet, NewObject, ObjectAt
  <2>2. /\ objects' \in Seq({"lambda", "array", "number"})
        /\ at \in DOMAIN objects' /\ objects'[at] = Kind(next)
        /\ \A i \in DOMAIN objects : i \in DOMAIN objects' /\ objects'[i] = objects[i]
        /\ at \in Int /\ at # 0
    <3>1. Kind(next) \in {"lambda", "array", "number"}
      BY <1>3, <1>5
    <3> HIDE DEF Kind
    <3> QED
      BY <1>2, <2>1, <3>1, ObjectAdded
  <2> HIDE DEF at
  <2>3. /\ word' \in [Bindings -> Int] /\ word'[next] = at
        /\ \A b \in Bindings \ {next} : word'[b] = word[b]
    BY <1>2, <1>5, <2>1, <2>2
  <2>4. WordsOK'
    <3> SUFFICES ASSUME NEW b \in Bindings
                 PROVE  \/ word'[b] = 0
                        \/ word'[b] \in DOMAIN objects' \cap registered' /\ objects'[word'[b]] = Kind(b)
      BY <1>4 DEF WordsOK
    <3>1. CASE b = next
      BY <3>1, <2>1, <2>2, <2>3
    <3>2. CASE b # next
      BY <3>2, <1>2, <2>1, <2>2, <2>3 DEF WordsOK
    <3> QED
      BY <3>1, <3>2
  <2>5. SetOK'
    <3> SUFFICES ASSUME NEW b \in Bindings, b < next + 1, Kind(b) # "number"
                 PROVE  word'[b] # 0
      BY <1>1, <1>4 DEF SetOK
    <3>1. b = next \/ b < next
      BY <1>1, <1>3
    <3> QED
      BY <3>1, <1>2, <2>2, <2>3 DEF SetOK
  <2> QED
    BY <1>1, <1>2, <1>4, <1>6, <1>7, <2>1, <2>2, <2>3, <2>4, <2>5 DEF RunInv, Initialised, Statics
<1> QED
  BY <1>8, <1>9

\* The runtime reports an error: the binding was not set, or a package is used
\* before calynda_rt_init has run.
LEMMA FailRuns ==
  ASSUME RunInv, CheckInv, Fail
  PROVE  RunInv'
<1>1. /\ source' = source /\ verdict = "accepted" /\ verdict' = "accepted" /\ report = Fine
      /\ source \in Sources /\ frames \in Stack /\ next' = next /\ frames' = frames
      /\ todo' = todo /\ word' = word /\ objects' = objects /\ registered' = registered
      /\ UsesLeft /\ Report(Use) # "none" /\ report'.by = Use
  BY DEF Fail, Executing, checkVars, heapVars, CheckInv, ProgramTypes
<1>2. /\ todo \in Remaining /\ (Initialised => Statics \subseteq registered) /\ CodeOK
      /\ (GlobalsDone => next \notin Bindings) /\ UsesOK
      /\ WordsOK /\ SetOK /\ objects \in Seq({"lambda", "array", "number"})
      /\ word \in [Bindings -> Int]
  BY <1>1 DEF RunInv
<1>3. source.mode \in {"boot", "start"}
  BY <1>1, ProgramShape
<1>4. /\ Bindings' = Bindings /\ (\A b : Kind(b)' = Kind(b)) /\ (InOrder' <=> InOrder)
      /\ Remaining' = Remaining
  BY <1>1, SameProgram DEF InOrder, IsLambda, Kind, Remaining
<1>5. /\ Use \in UsesIn(source) /\ DOMAIN frames = 1 .. Len(frames) /\ Len(frames) \in Nat \ {0}
      /\ 1 \in DOMAIN TopFrame.left /\ TopFrame.left[1] = Use
  BY <1>1, UsedShape
<1>6. CASE Use.what = "binding"
  <2>1. Use.n \in Bindings /\ Use = G(Use.n)
    BY <1>1, <1>5, <1>6, UseShape
  <2>2. Kind(Use.n) # "number" /\ word[Use.n] = 0
    BY <1>1, <1>2, <2>1, GlobalsServe
  <2>3. ~InOrder
    <3> SUFFICES ASSUME InOrder PROVE FALSE
      OBVIOUS
    <3>1. TopFrame = frames[Len(frames)] /\ Len(frames) \in DOMAIN frames
      BY <1>5 DEF TopFrame
    <3>2. Use.n < next
      BY <3>1, <1>2, <1>5, <1>6 DEF UsesOK
    <3> QED
      BY <2>1, <2>2, <3>2, <1>2 DEF SetOK
  <2> QED
    BY <1>1, <1>4, <1>6, <2>2, <2>3 DEF StopsOnlyForUnset, RunInv, WordsOK, SetOK, CodeOK,
       UsesOK, Initialised, GlobalsDone, Statics
<1>7. CASE Use.what # "binding"
  <2>1. Use.what = "callable" /\ Use.n \in Kinds /\ Use = X(Use.n)
    BY <1>1, <1>5, <1>7, UseShape
  <2>2. ~Initialised
    BY <1>1, <1>2, <2>1, CallablesRun
  <2>3. Head(todo) = "globals" /\ source.mode = "start"
    BY <1>1, <1>2, <1>3, <2>2 DEF CodeOK, Initialised, UsesLeft
  <2> QED
    BY <1>1, <1>4, <2>1, <2>3 DEF StopsOnlyForUnset, RunInv, WordsOK, SetOK, CodeOK,
       UsesOK, Initialised, GlobalsDone, Statics
<1> QED
  BY <1>6, <1>7

\* Checker and process together.
LEMMA ProgramStep == CheckInv /\ RunInv /\ [ProgramNext]_programVars => (CheckInv /\ RunInv)'
<1> SUFFICES ASSUME CheckInv, RunInv, [ProgramNext]_programVars PROVE CheckInv' /\ RunInv'
  OBVIOUS
<1>1. CASE CheckUse
  <2>1. verdict' # "accepted"
    BY <1>1 DEF CheckUse, Checking, Resolve, MetAgain
  <2>2. RunInv'
    BY <1>1, <2>1, CheckerRuns
  <2>3. CASE Use.what = "binding" /\ mark[Use.n] = "unseen"
    <3>1. /\ source \in Sources /\ frames \in Stack /\ UsesLeft /\ verdict = "checking"
          /\ Resolve(Use.n) /\ source' = source /\ next' = next /\ next \in Nat \ {0}
          /\ FramesOK
      BY <1>1, <2>3 DEF CheckUse, Checking, CheckInv, ProgramTypes
    <3>2. /\ Use \in UsesIn(source) /\ DOMAIN frames = 1 .. Len(frames) /\ Len(frames) \in Nat \ {0}
          /\ 1 \in DOMAIN TopFrame.left /\ TopFrame.left[1] = Use
      BY <3>1, UsedShape
    <3>3. TopFrame = frames[Len(frames)] /\ Len(frames) \in DOMAIN frames
      BY <3>2 DEF TopFrame
    <3>4. Use.n \in UsedBy(TopFrame.of)
      BY <2>3, <3>1, <3>2, <3>3 DEF FramesOK
    <3>5. Use.n \in Bindings
      BY <2>3, <3>1, <3>2, UseShape
    <3>6. frames # <<>>
      BY <3>1 DEF UsesLeft
    <3>7. CheckInv'
      BY <3>1, <3>4, <3>5, <3>6, ResolveChecks
    <3> QED
      BY <2>2, <3>7
  <2>4. CASE ~(Use.what = "binding" /\ mark[Use.n] = "unseen")
    BY <1>1, <2>2, <2>4, PassedUseChecks
  <2> QED
    BY <2>3, <2>4
<1>2. CASE Resolved
  <2>1. verdict' # "accepted"
    BY <1>2 DEF Resolved, Checking
  <2> QED
    BY <1>2, <2>1, ResolvedChecks, CheckerRuns
<1>3. CASE CheckDeclaration
  <2>1. /\ source \in Sources /\ frames = <<>> /\ verdict = "checking" /\ source' = source
        /\ next \in Bindings /\ next' = next + 1 /\ next \in Nat \ {0}
        /\ IF mark[next] = "unseen" THEN Resolve(next) ELSE UNCHANGED <<frames, checkVars>>
    BY <1>3 DEF CheckDeclaration, Checking, CheckInv, ProgramTypes
  <2>2. next' \in Nat \ {0} /\ \A c \in Bindings : c < next' => c < next \/ c = next
    <3>1. Bindings \subseteq Nat
      BY <2>1, ProgramShape
    <3> QED
      BY <2>1, <3>1
  <2>3. CASE mark[next] = "unseen"
    <3>1. Resolve(next)
      BY <2>1, <2>3
    <3>2. CheckInv'
      BY <2>1, <2>2, <3>1, ResolveChecks
    <3>3. verdict' # "accepted"
      BY <2>1, <3>1 DEF Resolve
    <3> QED
      BY <1>3, <3>2, <3>3, CheckerRuns
  <2>4. CASE mark[next] # "unseen"
    <3>1. frames' = frames /\ mark' = mark /\ verdict' = verdict
      BY <2>1, <2>4 DEF checkVars
    <3>2. /\ Bindings' = Bindings /\ ValueBindings' = ValueBindings /\ Stack' = Stack
          /\ \A b, S : (Circular(b, S)' <=> Circular(b, S)) /\ DependsOn(b, S)' = DependsOn(b, S)
          /\ \A b : UsedBy(b)' = UsedBy(b)
          /\ \A b : Done(b)' <=> Done(b)
      BY <2>1, <3>1, SameProgram DEF Done
    <3>3. /\ ProgramTypes /\ ResolvedOK /\ ResolvingOK /\ FramesOK
          /\ \A b \in Bindings : b < next => mark[b] # "unseen"
      BY <2>1 DEF CheckInv
    <3>4. ProgramTypes' /\ ResolvedOK' /\ ResolvingOK' /\ FramesOK'
      BY <2>1, <2>2, <3>1, <3>2, <3>3 DEF ProgramTypes, ResolvedOK, ResolvingOK, FramesOK, G
    <3>5. CheckInv'
      BY <2>1, <2>2, <2>4, <3>1, <3>2, <3>3, <3>4 DEF CheckInv
    <3>6. verdict' # "accepted"
      BY <2>1, <3>1
    <3> QED
      BY <1>3, <3>5, <3>6, CheckerRuns
  <2> QED
    BY <2>3, <2>4
<1>4. CASE Accept
  BY <1>4, AcceptChecks, AcceptRuns
<1>5. CASE Running
  BY <1>5, RunningChecks, PhasesRun, CodeRuns, InitRuntimeRuns, GlobalSetRuns, FailRuns DEF Running
<1>6. CASE UNCHANGED programVars
  <2>1. /\ source' = source /\ verdict' = verdict /\ mark' = mark /\ next' = next
        /\ frames' = frames /\ todo' = todo /\ word' = word /\ objects' = objects
        /\ registered' = registered /\ report' = report
    BY <1>6 DEF programVars
  <2>2. /\ Bindings' = Bindings /\ ValueBindings' = ValueBindings /\ Stack' = Stack
        /\ \A b, S : (Circular(b, S)' <=> Circular(b, S)) /\ DependsOn(b, S)' = DependsOn(b, S)
        /\ \A b : UsedBy(b)' = UsedBy(b)
        /\ \A b : (Done(b)' <=> Done(b)) /\ Kind(b)' = Kind(b)
        /\ (InOrder' <=> InOrder)
    BY <2>1, SameProgram DEF Done, Kind, InOrder, IsLambda
  <2>3. CheckInv'
    BY <2>1, <2>2 DEF CheckInv, ProgramTypes, ResolvedOK, ResolvingOK, FramesOK
  <2>4. RunInv'
    BY <2>1, <2>2 DEF RunInv, WordsOK, SetOK, CodeOK, UsesOK, Remaining, Initialised,
       GlobalsDone, Statics, StopsOnlyForUnset
  <2> QED
    BY <2>3, <2>4
<1> QED
  BY <1>1, <1>2, <1>3, <1>4, <1>5, <1>6 DEF ProgramNext, Running

\* tc_resolve_symbol_info, for programs of any size: what is accepted has no
\* circle of values, and what is rejected has a circle through a value.
THEOREM CirclesAreFoundFirst == ProgramSpec => []CirclesAreFound
<1>1. CheckInv => CirclesAreFound
  BY DEF CheckInv, CirclesAreFound, ValueBindings
<1> QED
  BY InitChecks, InitRuns, ProgramStep, <1>1, PTL DEF ProgramSpec

\* A program that was accepted stops only at a binding that was not initialised
\* yet, or in start mode at a package before calynda_rt_init; a boot program in
\* which no binding uses a later one does not stop.
THEOREM OnlyUnsetStops == ProgramSpec => []StopsOnlyForUnset
<1>1. RunInv => StopsOnlyForUnset
  BY DEF RunInv
<1> QED
  BY InitChecks, InitRuns, ProgramStep, <1>1, PTL DEF ProgramSpec
=============================================================================
