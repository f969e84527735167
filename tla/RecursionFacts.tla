---------------------------- MODULE RecursionFacts --------------------------
(***************************************************************************)
(* Lemmas for proofs about recursive functions: induction stated with sets *)
(* and functions, and the existence of what a recursion defines.           *)
(***************************************************************************)
EXTENDS Integers, Sequences, TLAPS, NaturalsInduction, WellFoundedInduction

\* Induction up to N, over a set.
LEMMA UpTo ==
  ASSUME NEW N \in Nat, NEW P, 0 \in P, \A k \in 1..N : k - 1 \in P => k \in P
  PROVE  \A k \in 0..N : k \in P
<1> DEFINE Bad == (0..N) \ P
<1> SUFFICES ASSUME Bad # {} PROVE FALSE
  OBVIOUS
<1>1. Bad \subseteq Nat
  OBVIOUS
<1>2. PICK n \in Bad : \A m \in Bad : ~(<<m, n>> \in OpToRel(<, Nat))
  BY <1>1, NatLessThanWellFounded, WFMin
<1>3. \A m \in Nat : m < n => m \notin Bad
  BY <1>1, <1>2 DEF OpToRel
<1>4. n \in 1..N /\ n - 1 \in 0..N /\ n - 1 < n
  BY <1>1
<1> QED BY <1>3, <1>4

\* A recursion over 0..N, its step given as a function, defines something.
LEMMA RecursionExists ==
  ASSUME NEW S, NEW zero \in S, NEW N \in Nat, NEW step \in [1..N -> [S -> S]]
  PROVE  \E f \in [0..N -> S] :
           f[0] = zero /\ \A k \in 1..N : f[k] = step[k][f[k - 1]]
<1> DEFINE Good(n, f) == f[0] = zero /\ \A k \in 1..n : f[k] = step[k][f[k - 1]]
           P == {n \in 0..N : \E f \in [0..n -> S] : Good(n, f)}
<1>1. 0 \in P
  <2>1. [k \in 0..0 |-> zero] \in [0..0 -> S] /\ Good(0, [k \in 0..0 |-> zero])
    OBVIOUS
  <2> HIDE DEF Good
  <2>2. \E f \in [0..0 -> S] : Good(0, f)
    BY <2>1
  <2> QED BY <2>2
<1>2. ASSUME NEW n \in 1..N, n - 1 \in P
      PROVE  n \in P
  <2>1. PICK f \in [0..(n - 1) -> S] : Good(n - 1, f)
    BY <1>2
  <2> DEFINE g == [k \in 0..n |-> IF k = n THEN step[n][f[n - 1]] ELSE f[k]]
  <2>2. f[n - 1] \in S /\ step[n][f[n - 1]] \in S
    OBVIOUS
  <2>3. g \in [0..n -> S]
    BY <2>2
  <2>4. Good(n, g)
    <3>1. g[0] = zero
      BY <2>1
    <3>2. ASSUME NEW k \in 1..n PROVE g[k] = step[k][g[k - 1]]
      <4>1. g[k - 1] = f[k - 1]
        OBVIOUS
      <4>2. CASE k = n
        BY <4>1, <4>2
      <4>3. CASE k # n
        <5>1. k \in 1..(n - 1) /\ g[k] = f[k]
          BY <4>3
        <5> QED BY <5>1, <4>1, <2>1
      <4> QED BY <4>2, <4>3
    <3> QED BY <3>1, <3>2
  <2> HIDE DEF Good, g
  <2>5. \E h \in [0..n -> S] : Good(n, h)
    BY <2>3, <2>4
  <2> QED BY <2>5
<1>3. \A n \in 0..N : n \in P
  <2> HIDE DEF P
  <2> QED BY <1>1, <1>2, UpTo
<1> QED BY <1>3 DEF P

\* The same, for a recursion whose parts have been put together.
Recurses(S, zero, N, step) == zero \in S /\ N \in Nat /\ step \in [1..N -> [S -> S]]
Unfolds(f, S, zero, N, step) ==
  f \in [0..N -> S] /\ f[0] = zero /\ \A k \in 1..N : f[k] = step[k][f[k - 1]]

LEMMA RecursionDefines ==
  ASSUME NEW S, NEW zero, NEW N, NEW step, Recurses(S, zero, N, step)
  PROVE  \E f : Unfolds(f, S, zero, N, step)
<1>1. zero \in S /\ N \in Nat /\ step \in [1..N -> [S -> S]]
  BY DEF Recurses
<1>2. \E f \in [0..N -> S] : f[0] = zero /\ \A k \in 1..N : f[k] = step[k][f[k - 1]]
  BY ONLY <1>1, RecursionExists
<1> QED BY <1>2 DEF Unfolds

\* A recursion on D that stops on last, and otherwise goes on to something smaller.
Descends(D, S, N, size, last, base, next, step) ==
  /\ N \in Nat /\ size \in [D -> 0..N]
  /\ base \in [D -> S] /\ next \in [D -> D] /\ step \in [D -> [S -> S]]
  /\ \A x \in D \ last : size[next[x]] < size[x]

\* What it defines.
Follows(f, D, S, last, base, next, step) ==
  /\ f \in [D -> S]
  /\ \A x \in D : f[x] = IF x \in last THEN base[x] ELSE step[x][f[next[x]]]

LEMMA DescentExists ==
  ASSUME NEW D, NEW S, NEW N, NEW size, NEW last, NEW base, NEW next, NEW step,
         Descends(D, S, N, size, last, base, next, step)
  PROVE  \E f : Follows(f, D, S, last, base, next, step)
<1> USE DEF Descends
<1> DEFINE Value(f, x) == IF x \in last THEN base[x] ELSE step[x][f[next[x]]]
           Good(n, f) == \A x \in D : size[x] <= n => f[x] = Value(f, x)
           P == {n \in 0..N : \E f \in [D -> S] : Good(n, f)}
<1>1. 0 \in P
  <2>1. Good(0, base)
    <3> SUFFICES ASSUME NEW x \in D, size[x] <= 0
                 PROVE  base[x] = Value(base, x)
      OBVIOUS
    <3>1. x \in last
      <4>1. size[x] \in 0..N /\ size[next[x]] \in 0..N
        OBVIOUS
      <4> QED BY <4>1
    <3> QED BY <3>1
  <2> HIDE DEF Good
  <2> QED BY <2>1
<1>2. ASSUME NEW n \in 1..N, n - 1 \in P
      PROVE  n \in P
  <2>1. PICK f \in [D -> S] : Good(n - 1, f)
    BY <1>2
  <2> DEFINE g == [x \in D |-> Value(f, x)]
  <2>2. g \in [D -> S]
    <3> SUFFICES ASSUME NEW x \in D PROVE Value(f, x) \in S
      OBVIOUS
    <3>1. f[next[x]] \in S /\ base[x] \in S
      OBVIOUS
    <3> QED BY <3>1
  <2>3. Good(n, g)
    <3> SUFFICES ASSUME NEW x \in D, size[x] <= n
                 PROVE  g[x] = Value(g, x)
      OBVIOUS
    <3>1. CASE x \in last
      BY <3>1
    <3>2. CASE x \notin last
      <4>1. size[next[x]] <= n - 1
        <5>1. size[x] \in 0..N /\ size[next[x]] \in 0..N /\ size[next[x]] < size[x]
          BY <3>2
        <5> QED BY <5>1
      <4>2. g[next[x]] = f[next[x]]
        BY <4>1, <2>1
      <4> QED BY <3>2, <4>2
    <3> QED BY <3>1, <3>2
  <2> HIDE DEF Good, g
  <2> QED BY <2>2, <2>3
<1>3. \A n \in 0..N : n \in P
  <2> HIDE DEF P
  <2> QED BY <1>1, <1>2, UpTo
<1>4. PICK f \in [D -> S] : Good(N, f)
  BY <1>3
<1>5. \A x \in D : size[x] <= N
  OBVIOUS
<1>6. Follows(f, D, S, last, base, next, step)
  BY <1>4, <1>5 DEF Follows
<1> QED BY <1>6

=============================================================================
