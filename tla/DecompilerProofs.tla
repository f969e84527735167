-------------------------- MODULE DecompilerProofs --------------------------
(***************************************************************************)
(* Theorems about the decompiler, for every set of functions.  Of the      *)
(* control-flow graph: its blocks partition the code, the dominators the   *)
(* iteration settles on are the dominators, the irreducible flag is dead   *)
(* code or a switch, the stack of the searches fits and arms meet where a  *)
(* region says.  Of the analysis on it: what is live is what is read, one  *)
(* definition arrives where there is no phi and a folded constant is what  *)
(* the instruction computes.                                               *)
(***************************************************************************)
EXTENDS SsaForm, RecursionFacts, FiniteSetTheorems, SequenceTheorems

-----------------------------------------------------------------------------
(* Graphs *)

\* What is closed holds everything that is reached, and what is reached is closed.
LEMMA WithoutLeast ==
  ASSUME NEW Blocks, NEW E, NEW a, NEW S \in SUBSET Blocks, ClosedWithout(S, E, a)
  PROVE  Without(Blocks, E, a) \subseteq S
BY DEF Without

LEMMA WithoutClosed ==
  ASSUME NEW Blocks, NEW E, NEW a, Entry \in Blocks, \A e \in E : e.to \in Blocks
  PROVE  ClosedWithout(Without(Blocks, E, a), E, a)
<1> DEFINE W == Without(Blocks, E, a)
<1>1. Entry # a => Entry \in W
  BY DEF Without, ClosedWithout
<1>2. ASSUME NEW e \in E, e.from \in W, e.to # a
      PROVE  e.to \in W
  <2> SUFFICES ASSUME NEW S \in SUBSET Blocks, ClosedWithout(S, E, a)
               PROVE  e.to \in S
    BY DEF Without
  <2>1. e.from \in S
    BY <1>2 DEF Without
  <2> QED BY <1>2, <2>1 DEF ClosedWithout
<1> QED BY <1>1, <1>2 DEF ClosedWithout

\* The facts about dominators that the proofs below use.
LEMMA DominatorFacts ==
  ASSUME NEW Blocks, NEW E, Entry \in Blocks, NoBlock \notin Blocks,
         \A e \in E : e.from \in Blocks /\ e.to \in Blocks
  PROVE  /\ Entry \in Reachable(Blocks, E)
         /\ \A e \in E : e.from \in Reachable(Blocks, E) => e.to \in Reachable(Blocks, E)
         /\ \A b \in Reachable(Blocks, E) : Dominates(Blocks, E, b, b)
         /\ \A a \in Blocks : Dominates(Blocks, E, a, Entry) => a = Entry
         /\ \A a \in Blocks, e \in E :
              (Dominates(Blocks, E, a, e.to) /\ a # e.to /\ e.from \in Reachable(Blocks, E))
                => Dominates(Blocks, E, a, e.from)
<1>1. ClosedWithout(Reachable(Blocks, E), E, NoBlock)
  BY WithoutClosed DEF Reachable
<1>2. Entry \in Reachable(Blocks, E)
  BY <1>1 DEF ClosedWithout
<1>3. \A e \in E : e.from \in Reachable(Blocks, E) => e.to \in Reachable(Blocks, E)
  BY <1>1 DEF ClosedWithout
<1>4. ASSUME NEW b \in Reachable(Blocks, E) PROVE Dominates(Blocks, E, b, b)
  <2>1. ClosedWithout(Blocks \ {b}, E, b)
    BY DEF ClosedWithout
  <2>2. b \notin Without(Blocks, E, b)
    BY <2>1, WithoutLeast
  <2> QED BY <2>2 DEF Dominates
<1>5. ASSUME NEW a \in Blocks, Dominates(Blocks, E, a, Entry) PROVE a = Entry
  BY <1>5, WithoutClosed DEF Dominates, ClosedWithout
<1>6. ASSUME NEW a \in Blocks, NEW e \in E, Dominates(Blocks, E, a, e.to), a # e.to,
             e.from \in Reachable(Blocks, E)
      PROVE  Dominates(Blocks, E, a, e.from)
  BY <1>6, WithoutClosed DEF Dominates, ClosedWithout
<1> QED BY <1>2, <1>3, <1>4, <1>5, <1>6

\* dominates: the walk goes on from the immediate dominator, if each is in a
\* smaller place than what it is the dominator of.
LEMMA ChainUnfolds ==
  ASSUME NEW D, NoBlock \notin D, NEW up \in [D -> D \cup {NoBlock}],
         NEW N \in Nat, NEW size \in [D -> 0..N],
         \A x \in D : up[x] \notin {x, NoBlock} => size[up[x]] < size[x]
  PROVE  \A x \in D : /\ Chain(up, x) = IF up[x] \in {x, NoBlock} THEN {x}
                                        ELSE {x} \cup Chain(up, up[x])
                      /\ Chain(up, x) \subseteq D
<1> DEFINE last == {x \in D : up[x] \in {x, NoBlock}}
           next == [x \in D |-> IF x \in last THEN x ELSE up[x]]
           base == [x \in D |-> {x}]
           step == [x \in D |-> [T \in SUBSET D |-> {x} \cup T]]
           Rec(f) == [x \in DOMAIN up |-> IF up[x] \in {x, NoBlock} THEN {x}
                                          ELSE {x} \cup f[up[x]]]
<1>1. next \in [D -> D] /\ base \in [D -> SUBSET D] /\ step \in [D -> [SUBSET D -> SUBSET D]]
  OBVIOUS
<1>2. \A x \in D \ last : size[next[x]] < size[x]
  OBVIOUS
<1>3. PICK f : Follows(f, D, SUBSET D, last, base, next, step)
  <2>1. Descends(D, SUBSET D, N, size, last, base, next, step)
    BY <1>1, <1>2 DEF Descends
  <2> QED BY ONLY <2>1, DescentExists
<1>4. f = Rec(f)
  <2>1. \A x \in D : f[x] = IF up[x] \in {x, NoBlock} THEN {x} ELSE {x} \cup f[up[x]]
    <3> SUFFICES ASSUME NEW x \in D
                 PROVE  f[x] = IF up[x] \in {x, NoBlock} THEN {x} ELSE {x} \cup f[up[x]]
      OBVIOUS
    <3>1. CASE x \in last
      BY <3>1, <1>3 DEF Follows
    <3>2. CASE x \notin last
      <4>1. next[x] = up[x] /\ up[x] \in D /\ f[up[x]] \in SUBSET D
        BY <3>2, <1>3 DEF Follows
      <4>2. step[x][f[up[x]]] = {x} \cup f[up[x]]
        BY <4>1
      <4> QED BY <3>2, <4>1, <4>2, <1>3 DEF Follows
    <3> QED BY <3>1, <3>2
  <2>2. DOMAIN up = D /\ f = [x \in D |-> f[x]]
    BY <1>3 DEF Follows
  <2> HIDE DEF last, next, base, step
  <2> QED BY <2>1, <2>2
<1> DEFINE g == CHOOSE g : g = Rec(g)
<1>5. g = Rec(g)
  BY <1>4
<1>6. \A x \in D : Chain(up, x) = g[x]
  BY DEF Chain
<1>7. \A x \in D : g[x] = IF up[x] \in {x, NoBlock} THEN {x} ELSE {x} \cup g[up[x]]
  <2> HIDE DEF g
  <2> QED BY <1>5
<1>8. \A x \in D : g[x] \subseteq D
  <2> DEFINE P == {n \in 0..N : \A x \in D : size[x] <= n => g[x] \subseteq D}
  <2> HIDE DEF g
  <2>1. ASSUME NEW n \in 0..N, \A x \in D : size[x] <= n - 1 => g[x] \subseteq D
        PROVE  n \in P
    <3> SUFFICES ASSUME NEW x \in D, size[x] <= n PROVE g[x] \subseteq D
      OBVIOUS
    <3>1. CASE up[x] \in {x, NoBlock}
      <4>1. g[x] = {x}
        BY ONLY <3>1, <1>7, x \in D
      <4> QED BY <4>1
    <3>2. CASE up[x] \notin {x, NoBlock}
      <4>1. up[x] \in D /\ size[up[x]] \in 0..N /\ size[x] \in 0..N /\ size[up[x]] < size[x]
        BY <3>2
      <4>2. g[x] = {x} \cup g[up[x]]
        BY ONLY <3>2, <1>7, x \in D
      <4>3. g[up[x]] \subseteq D
        BY <4>1, <2>1
      <4> QED BY <4>2, <4>3
    <3> QED BY <3>1, <3>2
  <2>2. 0 \in P
    <3>1. \A x \in D : ~(size[x] <= 0 - 1)
      <4> SUFFICES ASSUME NEW x \in D PROVE ~(size[x] <= 0 - 1)
        OBVIOUS
      <4>1. size[x] \in 0..N
        OBVIOUS
      <4> QED BY <4>1
    <3> QED BY <2>1, <3>1
  <2>3. \A n \in 1..N : n - 1 \in P => n \in P
    BY <2>1
  <2>4. \A n \in 0..N : n \in P
    <3> HIDE DEF P
    <3> QED BY <2>2, <2>3, UpTo
  <2> QED BY <2>4
<1> QED
  <2> HIDE DEF g
  <2> SUFFICES ASSUME NEW x \in D
               PROVE  /\ Chain(up, x) = IF up[x] \in {x, NoBlock} THEN {x}
                                        ELSE {x} \cup Chain(up, up[x])
                      /\ Chain(up, x) \subseteq D
    OBVIOUS
  <2>1. up[x] \in D \cup {NoBlock}
    OBVIOUS
  <2>2. Chain(up, x) = g[x] /\ Chain(up, x) \subseteq D
    BY <1>6, <1>8
  <2>3. up[x] \notin {x, NoBlock} => Chain(up, up[x]) = g[up[x]]
    BY <1>6, <2>1
  <2>4. g[x] = IF up[x] \in {x, NoBlock} THEN {x} ELSE {x} \cup g[up[x]]
    BY <1>7
  <2> QED BY ONLY <2>2, <2>3, <2>4

-----------------------------------------------------------------------------
(* Lists of edges *)

\* The indices a loop keeps, in their order: h says where each kept element
\* comes from.
IsChoice(list, indices, kept, h) ==
  /\ h \in [1..Len(kept) -> 1..Len(list)]
  /\ \A k \in 1..Len(kept) : h[k] \in indices /\ kept[k] = list[h[k]]
  /\ \A j, k \in 1..Len(kept) : j < k => h[j] < h[k]
  /\ \A i \in 1..Len(list) : i \in indices => \E k \in 1..Len(kept) : h[k] = i

LEMMA ChosenFacts ==
  ASSUME NEW S, NEW list \in Seq(S), NEW indices
  PROVE  /\ Chosen(list, indices) \in Seq(S)
         /\ \E h : IsChoice(list, indices, Chosen(list, indices), h)
<1> DEFINE N == Len(list)
           Rec(f) == [n \in 0..N |->
                        IF n = 0 THEN <<>>
                        ELSE IF n \in indices THEN Append(f[n - 1], list[n]) ELSE f[n - 1]]
           start == <<>>
           lists == Seq(S)
           step == [n \in 1..N |-> [s \in lists |->
                      IF n \in indices THEN Append(s, list[n]) ELSE s]]
<1>1. N \in Nat /\ start \in lists /\ \A n \in 1..N : list[n] \in S
  OBVIOUS
<1>2. PICK f \in [0..N -> lists] : f[0] = start /\ \A n \in 1..N : f[n] = step[n][f[n - 1]]
  <2>1. step \in [1..N -> [lists -> lists]]
    BY <1>1
  <2>2. Recurses(lists, start, N, step)
    BY <1>1, <2>1 DEF Recurses
  <2> HIDE DEF lists, step, N, start
  <2>3. PICK f : Unfolds(f, lists, start, N, step)
    BY ONLY <2>2, RecursionDefines
  <2> QED BY <2>3 DEF Unfolds
<1>3. \A n \in 1..N : f[n] = IF n \in indices THEN Append(f[n - 1], list[n]) ELSE f[n - 1]
  <2> SUFFICES ASSUME NEW n \in 1..N
               PROVE  f[n] = IF n \in indices THEN Append(f[n - 1], list[n]) ELSE f[n - 1]
    OBVIOUS
  <2>1. n - 1 \in 0..N
    BY <1>1
  <2>2. f[n - 1] \in lists
    BY <2>1
  <2>3. f[n] = step[n][f[n - 1]]
    BY <1>2
  <2> HIDE DEF lists
  <2> QED BY <2>2, <2>3
<1>4. f = Rec(f)
  <2>1. \A n \in 0..N : f[n] = IF n = 0 THEN <<>>
                               ELSE IF n \in indices THEN Append(f[n - 1], list[n]) ELSE f[n - 1]
    <3>1. \A n \in 0..N : n = 0 \/ n \in 1..N
      BY <1>1
    <3> HIDE DEF N, lists, step
    <3> QED BY <3>1, <1>2, <1>3
  <2> HIDE DEF N, lists, step
  <2> QED BY <2>1
<1> DEFINE g == CHOOSE g : g = Rec(g)
<1>5. g = Rec(g)
  BY <1>4
<1>6. g[0] = <<>> /\ \A n \in 1..N : g[n] = IF n \in indices THEN Append(g[n - 1], list[n])
                                            ELSE g[n - 1]
  <2> HIDE DEF g
  <2>1. \A n \in 0..N : g[n] = Rec(g)[n]
    BY <1>5
  <2>2. 0 \in 0..N /\ \A n \in 1..N : n \in 0..N /\ n # 0
    BY <1>1
  <2> QED BY <2>1, <2>2
<1>7. Chosen(list, indices) = g[N]
  BY DEF Chosen
<1> DEFINE Fits(n, h) == /\ g[n] \in lists
                         /\ h \in [1..Len(g[n]) -> 1..n]
                         /\ \A k \in 1..Len(g[n]) : h[k] \in indices /\ g[n][k] = list[h[k]]
                         /\ \A j, k \in 1..Len(g[n]) : j < k => h[j] < h[k]
                         /\ \A i \in 1..n : i \in indices => \E k \in 1..Len(g[n]) : h[k] = i
           P == {n \in 0..N : \E h : Fits(n, h)}
<1>8. 0 \in P
  <2> HIDE DEF g
  <2>1. Fits(0, <<>>)
    BY <1>6
  <2> HIDE DEF Fits
  <2> QED BY <1>1, <2>1
<1>9. ASSUME NEW n \in 1..N, n - 1 \in P
      PROVE  n \in P
  <2> HIDE DEF g
  <2>1. PICK h : Fits(n - 1, h)
    BY <1>9
  <2> DEFINE old == g[n - 1]
             m == Len(old)
  <2>2. m \in Nat /\ old \in lists /\ n \in Nat /\ n - 1 \in Nat
    BY <2>1, <1>1
  <2>5. h \in [1..m -> 1..(n - 1)]
    BY <2>1
  <2>6. \A k \in 1..m : h[k] \in indices /\ old[k] = list[h[k]]
    BY <2>1
  <2>7. \A j, k \in 1..m : j < k => h[j] < h[k]
    BY <2>1
  <2>8. \A i \in 1..(n - 1) : i \in indices => \E k \in 1..m : h[k] = i
    BY <2>1
  <2>3. CASE n \notin indices
    <3>1. g[n] = old
      BY <1>6, <2>3
    <3>2. \A i \in 1..n : i \in indices => i \in 1..(n - 1)
      BY <2>2, <2>3
    <3>3. h \in [1..m -> 1..n]
      <4>1. 1..(n - 1) \subseteq 1..n
        BY <2>2
      <4> QED BY ONLY <4>1, <2>5
    <3>4. \A i \in 1..n : i \in indices => \E k \in 1..m : h[k] = i
      BY ONLY <3>2, <2>8
    <3>5. Fits(n, h)
      <4> HIDE DEF lists, m, old
      <4> QED BY <3>1, <3>3, <3>4, <2>2, <2>6, <2>7 DEF m
    <3> HIDE DEF Fits
    <3> QED BY <3>5
  <2>4. CASE n \in indices
    <3> DEFINE e == [k \in 1..(m + 1) |-> IF k = m + 1 THEN n ELSE h[k]]
    <3>1. g[n] = Append(old, list[n])
      BY <1>6, <2>4
    <3>2. g[n] \in lists /\ Len(g[n]) = m + 1 /\ \A k \in 1..m : g[n][k] = old[k]
      BY <3>1, <2>2, <1>1
    <3>10. g[n][m + 1] = list[n]
      BY <3>1, <2>2, <1>1
    <3> HIDE DEF m, old, lists
    <3>3. \A k \in 1..m : e[k] = h[k] /\ h[k] \in 1..(n - 1) /\ k # m + 1
      BY ONLY <2>2, <2>5
    <3>11. e[m + 1] = n /\ m + 1 \in 1..(m + 1) /\ 1..m \subseteq 1..(m + 1)
      BY ONLY <2>2
    <3>4. \A k \in 1..(m + 1) : k \in 1..m \/ k = m + 1
      BY ONLY <2>2
    <3>5. e \in [1..(m + 1) -> 1..n]
      <4> SUFFICES ASSUME NEW k \in 1..(m + 1) PROVE e[k] \in 1..n
        BY DEF e
      <4> HIDE DEF e
      <4> QED BY ONLY <3>3, <3>4, <3>11, <2>2, k \in 1..(m + 1), n \in 1..N
    <3> HIDE DEF e
    <3>6. \A k \in 1..(m + 1) : e[k] \in indices /\ g[n][k] = list[e[k]]
      BY ONLY <3>2, <3>3, <3>4, <3>10, <3>11, <2>6, <2>4
    <3>7. \A j, k \in 1..(m + 1) : j < k => e[j] < e[k]
      <4> SUFFICES ASSUME NEW j \in 1..(m + 1), NEW k \in 1..(m + 1), j < k
                   PROVE  e[j] < e[k]
        OBVIOUS
      <4>1. j \in 1..m
        BY ONLY <2>2, j \in 1..(m + 1), k \in 1..(m + 1), j < k
      <4>2. CASE k = m + 1
        BY ONLY <4>1, <4>2, <3>3, <3>11, <2>2
      <4>3. CASE k \in 1..m
        BY ONLY <4>1, <4>3, <3>3, <2>7, j < k
      <4> QED BY ONLY <4>2, <4>3, <3>4, k \in 1..(m + 1)
    <3>8. ASSUME NEW i \in 1..n, i \in indices
          PROVE  \E k \in 1..(m + 1) : e[k] = i
      <4>1. CASE i = n
        BY ONLY <4>1, <3>11
      <4>2. CASE i # n
        <5>1. i \in 1..(n - 1)
          BY <4>2
        <5>2. PICK k \in 1..m : h[k] = i
          BY <5>1, <3>8, <2>8
        <5> QED BY ONLY <5>2, <3>3, <3>11
      <4> QED BY <4>1, <4>2
    <3>9. Fits(n, e)
      BY ONLY <3>2, <3>5, <3>6, <3>7, <3>8
    <3> HIDE DEF Fits
    <3> QED BY <3>9
  <2> QED BY <2>3, <2>4
<1>10. \A n \in 0..N : n \in P
  <2> HIDE DEF P
  <2> QED BY <1>1, <1>8, <1>9, UpTo
<1>11. PICK h : Fits(N, h)
  <2>1. N \in 0..N
    BY <1>1
  <2>2. N \in P
    <3> HIDE DEF P
    <3> QED BY <2>1, <1>10
  <2> QED BY <2>2
<1> HIDE DEF g
<1>12. IsChoice(list, indices, g[N], h) /\ g[N] \in Seq(S)
  BY <1>11 DEF IsChoice
<1> QED BY <1>7, <1>12

\* The lists of a list, one behind the other.
LEMMA FlattenFacts ==
  ASSUME NEW S, NEW seqs \in Seq(Seq(S)), seqs # <<>>
  PROVE  /\ FlattenSeq(seqs) \in Seq(S)
         /\ \E off \in [1..Len(seqs) -> Nat] :
              \A k \in 1..Len(FlattenSeq(seqs)) : \E i \in 1..Len(seqs) :
                k - off[i] \in 1..Len(seqs[i]) /\ FlattenSeq(seqs)[k] = seqs[i][k - off[i]]
<1> DEFINE N == Len(seqs)
           lists == Seq(S)
           Rec(f) == [i \in 1..N |-> IF i = 1 THEN seqs[i] ELSE f[i - 1] \o seqs[i]]
           start == <<>>
           step == [i \in 1..N |-> [s \in lists |-> s \o seqs[i]]]
<1>1. N \in Nat \ {0} /\ start \in lists /\ \A i \in 1..N : seqs[i] \in lists
  OBVIOUS
<1>2. PICK f \in [0..N -> lists] : f[0] = start /\ \A n \in 1..N : f[n] = step[n][f[n - 1]]
  <2>1. step \in [1..N -> [lists -> lists]]
    BY <1>1
  <2>2. Recurses(lists, start, N, step)
    BY <1>1, <2>1 DEF Recurses
  <2> HIDE DEF lists, step, N, start
  <2>3. PICK f : Unfolds(f, lists, start, N, step)
    BY ONLY <2>2, RecursionDefines
  <2> QED BY <2>3 DEF Unfolds
<1> DEFINE r == [i \in 1..N |-> f[i]]
<1>3. r = Rec(r)
  <2> SUFFICES ASSUME NEW i \in 1..N
               PROVE  f[i] = IF i = 1 THEN seqs[i] ELSE r[i - 1] \o seqs[i]
    OBVIOUS
  <2>1. i - 1 \in 0..N /\ f[i - 1] \in lists /\ seqs[i] \in lists
    <3>1. N \in Nat
      BY <1>1
    <3> HIDE DEF lists, N
    <3>2. i - 1 \in 0..N
      BY <3>1
    <3> QED BY <3>2, <1>1
  <2>2. f[i] = f[i - 1] \o seqs[i]
    <3>1. f[i] = step[i][f[i - 1]]
      BY <1>2
    <3> HIDE DEF lists
    <3> QED BY <3>1, <2>1
  <2>3. CASE i = 1
    <3>1. f[i - 1] = <<>>
      BY <2>3, <1>2
    <3> QED BY <2>3, <2>1, <2>2, <3>1
  <2>4. CASE i # 1
    <3>1. i - 1 \in 1..N
      BY <2>4, <1>1
    <3> HIDE DEF lists, step
    <3> QED BY <2>4, <3>1, <2>2
  <2> QED BY <2>3, <2>4
<1> DEFINE g == CHOOSE g : g = Rec(g)
<1>4. g = Rec(g)
  <2> HIDE DEF r
  <2> QED BY <1>3
<1>5. \A i \in 1..N : g[i] = IF i = 1 THEN seqs[i] ELSE g[i - 1] \o seqs[i]
  <2> HIDE DEF g
  <2> QED BY <1>4
<1>6. FlattenSeq(seqs) = g[N]
  BY <1>1 DEF FlattenSeq
<1> HIDE DEF g, r
<1> DEFINE off == [i \in 1..N |-> IF i = 1 THEN 0 ELSE Len(g[i - 1])]
           Found(n, k) == \E i \in 1..n : k - off[i] \in 1..Len(seqs[i])
                                          /\ g[n][k] = seqs[i][k - off[i]]
           Good(n) == n >= 1 => (g[n] \in lists /\ \A k \in 1..Len(g[n]) : Found(n, k))
           P == {n \in 0..N : Good(n)}
<1> HIDE DEF step, start, Rec, N, lists
<1>7. 0 \in P
  BY <1>1
<1>8. ASSUME NEW n \in 1..N, n - 1 \in P
      PROVE  n \in P
  <2>1. n \in Nat /\ n >= 1 /\ n \in 0..N /\ seqs[n] \in lists
    BY <1>1
  <2>2. CASE n = 1
    <3>1. g[n] = seqs[n] /\ off[n] = 0
      BY <2>2, <1>5
    <3>2. ASSUME NEW k \in 1..Len(g[n]) PROVE Found(n, k)
      <4> HIDE DEF off
      <4>1. k - off[n] = k /\ n \in 1..n
        <5>1. k \in Nat
          OBVIOUS
        <5> QED BY ONLY <5>1, <3>1, <2>1
      <4> QED BY <4>1, <3>1
    <3> HIDE DEF Found
    <3> QED BY <3>1, <3>2, <2>1
  <2>3. CASE n # 1
    <3> DEFINE old == g[n - 1]
               new == seqs[n]
    <3>1. n - 1 \in 1..N /\ n - 1 \in Nat /\ n - 1 >= 1
      BY ONLY <1>1, <2>1, <2>3
    <3>2. g[n] = old \o new
      BY <2>3, <1>5
    <3>3. off[n] = Len(old)
      <4> HIDE DEF Found
      <4> QED BY ONLY <2>3, n \in 1..N
    <3>4. old \in lists /\ \A k \in 1..Len(old) : Found(n - 1, k)
      <4> HIDE DEF Found
      <4> QED BY <1>8, <3>1
    <3>5. /\ g[n] \in lists
          /\ Len(old) \in Nat /\ Len(new) \in Nat /\ Len(g[n]) = Len(old) + Len(new)
          /\ \A k \in 1..Len(old) : g[n][k] = old[k]
          /\ \A k \in (Len(old) + 1)..(Len(old) + Len(new)) : g[n][k] = new[k - Len(old)]
      <4>1. new \in lists /\ old \in lists
        BY <2>1, <3>4
      <4> HIDE DEF old, new
      <4> QED BY ONLY <3>2, <4>1 DEF lists
    <3> HIDE DEF old, new, off
    <3>6. ASSUME NEW k \in 1..Len(g[n]) PROVE Found(n, k)
      <4>1. CASE k <= Len(old)
        <5>1. k \in 1..Len(old)
          BY <4>1, <3>5
        <5>2. PICK i \in 1..(n - 1) : k - off[i] \in 1..Len(seqs[i])
                                      /\ g[n - 1][k] = seqs[i][k - off[i]]
          BY <5>1, <3>4
        <5>3. i \in 1..n /\ g[n][k] = g[n - 1][k]
          BY <3>1, <3>5, <5>1 DEF old
        <5> QED BY <5>2, <5>3
      <4>2. CASE k > Len(old)
        <5>1. k \in (Len(old) + 1)..(Len(old) + Len(new)) /\ k - Len(old) \in 1..Len(new)
          BY <4>2, <3>5
        <5>2. n \in 1..n
          BY <2>1
        <5> QED BY <5>1, <5>2, <3>3, <3>5 DEF new
      <4> QED BY <4>1, <4>2, <3>5
    <3> HIDE DEF Found
    <3> QED BY <3>6, <3>5, <2>1
  <2> QED BY <2>2, <2>3
<1>9. \A n \in 0..N : n \in P
  <2> HIDE DEF P
  <2> QED BY <1>1, <1>7, <1>8, UpTo
<1>10. g[N] \in lists /\ \A k \in 1..Len(g[N]) : Found(N, k)
  <2>1. N \in 0..N /\ N >= 1
    BY <1>1
  <2> HIDE DEF Found
  <2> QED BY <2>1, <1>9
<1>11. off \in [1..N -> Nat]
  <2> SUFFICES ASSUME NEW i \in 1..N, i # 1 PROVE Len(g[i - 1]) \in Nat
    OBVIOUS
  <2>1. i - 1 \in 0..N /\ i - 1 >= 1
    BY <1>1
  <2>2. g[i - 1] \in lists
    <3> HIDE DEF Found
    <3> QED BY <2>1, <1>9
  <2> QED BY <2>2 DEF lists
<1>12. FlattenSeq(seqs) \in Seq(S)
  BY <1>6, <1>10 DEF lists
<1>13. \A k \in 1..Len(FlattenSeq(seqs)) : \E i \in 1..Len(seqs) :
          k - off[i] \in 1..Len(seqs[i]) /\ FlattenSeq(seqs)[k] = seqs[i][k - off[i]]
  <2> HIDE DEF off
  <2> QED BY <1>6, <1>10 DEF N
<1> HIDE DEF off
<1> QED BY <1>11, <1>12, <1>13 DEF N

-----------------------------------------------------------------------------
(* The graph of a function *)

Kinds == {"uncond", "return", "taken", "not_taken", "fall", "unknown", "case"}
EdgeSet == [from : BlockIds, to : BlockIds \cup {NoBlock}, kind : Kinds]

Shape ==
  /\ Len(blocks) \in Nat \ {0}
  /\ BlockIds = 1..Len(blocks)
  /\ edges \in Seq(EdgeSet)
  /\ \A i \in DOMAIN edges : edges[i].kind = "unknown" => edges[i].to = NoBlock
  /\ \A i, j, k \in DOMAIN edges :
       (i < j /\ j < k /\ edges[i].from = edges[j].from /\ edges[j].from = edges[k].from)
         => "case" \in {edges[i].kind, edges[j].kind, edges[k].kind}

NoCases == \A i \in DOMAIN edges : edges[i].kind # "case"

Early == {"wired", "order", "dominance", "dominated", "loops"}
Late == {"switches", "flow", "summary", "live", "phis", "constants", "slots", "ssa"}

ShapeInv ==
  /\ prog \in Programs
  /\ stage \in {"none"} \cup Early \cup Late
  /\ stage # "none" => Shape
  /\ stage \in Early => NoCases

\* A step of the passes over the finished graph.
LaterStep == stage \in Late /\ stage' \in Late
             /\ UNCHANGED <<prog, blocks, edges, path, seen, order, idom, ri, changed,
                            loops, switches, regions>>

LEMMA LaterPasses ==
  ASSUME SsaNext
  PROVE  FlowNext \/ (LaterStep /\ stage # "switches" /\ stage' # "switches")
BY DEF SsaNext, LaterStep, Late, Summarise, SolveLiveness, PlacePhis, FoldPrologue,
       MapStackSlots, ReconstructCalls

LEMMA FunctionIsList ==
  ASSUME NEW n \in Nat, NEW f, f = [i \in 1..n |-> f[i]]
  PROVE  f \in Seq({f[i] : i \in 1..n}) /\ Len(f) = n /\ DOMAIN f = 1..n
<1>1. f \in [1..n -> {f[i] : i \in 1..n}]
  OBVIOUS
<1>2. f \in Seq({f[i] : i \in 1..n})
  BY <1>1
<1>3. DOMAIN f = 1..n
  BY <1>1
<1> QED BY <1>2, <1>3

LEMMA LeadersAreCounted ==
  ASSUME prog \in Programs
  PROVE  Cardinality(Leaders) \in Nat \ {0}
<1>1. Len(code) \in Nat
  BY ProgramsAssumption DEF code
<1>2. Leaders \subseteq 0..Len(code)
  BY <1>1 DEF Leaders, Here
<1>3. IsFiniteSet(0..Len(code))
  BY <1>1, FS_Interval
<1>4. IsFiniteSet(Leaders)
  BY <1>2, <1>3, FS_Subset
<1>5. Leaders # {}
  BY DEF Leaders
<1> QED BY <1>4, <1>5, FS_CardinalityType, FS_EmptySet

\* The edges of a block lead from it, and to blocks; two at most.
LEMMA EdgesFromFacts ==
  ASSUME NEW bs, NEW b \in DOMAIN bs
  PROVE  /\ EdgesFrom(bs, b) \in Seq([from : {b}, to : DOMAIN bs \cup {NoBlock}, kind : Kinds])
         /\ Len(EdgesFrom(bs, b)) <= 2
         /\ \A i \in DOMAIN EdgesFrom(bs, b) :
              /\ EdgesFrom(bs, b)[i].kind # "case"
              /\ EdgesFrom(bs, b)[i].kind = "unknown" => EdgesFrom(bs, b)[i].to = NoBlock
<1> DEFINE E == [from : {b}, to : DOMAIN bs \cup {NoBlock}, kind : Kinds]
           in == At(bs[b].end - 1)
           target == BlockOf(bs, in.to)
           next == BlockOf(bs, bs[b].end)
           Fine(es) == /\ es \in Seq(E) /\ Len(es) <= 2
                       /\ \A i \in DOMAIN es : /\ es[i].kind # "case"
                                               /\ es[i].kind = "unknown" => es[i].to = NoBlock
<1>1. ASSUME NEW va PROVE BlockOf(bs, va) \in DOMAIN bs \cup {NoBlock}
  BY DEF BlockOf
<1>2. target \in DOMAIN bs \cup {NoBlock} /\ next \in DOMAIN bs \cup {NoBlock}
  BY <1>1
<1> HIDE DEF target, next
<1>3. ASSUME NEW e \in E, e.kind # "case", e.kind = "unknown" => e.to = NoBlock
      PROVE  Fine(<<e>>)
  <2> HIDE DEF E
  <2>1. <<e>> \in Seq(E) /\ Len(<<e>>) = 1 /\ DOMAIN <<e>> = {1} /\ <<e>>[1] = e
    OBVIOUS
  <2> QED BY <1>3, <2>1
<1>11. ASSUME NEW to \in DOMAIN bs \cup {NoBlock}
       PROVE  /\ Fine(<<Edge(b, to, "uncond")>>) /\ Fine(<<Edge(b, to, "return")>>)
              /\ Fine(<<Edge(b, to, "taken")>>) /\ Fine(<<Edge(b, to, "not_taken")>>)
              /\ Fine(<<Edge(b, to, "fall")>>) /\ Fine(<<Edge(b, NoBlock, "unknown")>>)
  <2>1. /\ Edge(b, to, "uncond") \in E /\ Edge(b, to, "return") \in E
        /\ Edge(b, to, "taken") \in E /\ Edge(b, to, "not_taken") \in E
        /\ Edge(b, to, "fall") \in E /\ Edge(b, NoBlock, "unknown") \in E
    <3>1. ASSUME NEW kind \in Kinds, NEW dest \in DOMAIN bs \cup {NoBlock}
          PROVE  Edge(b, dest, kind) \in E
      BY DEF Edge
    <3> HIDE DEF E
    <3> QED BY <3>1 DEF Kinds
  <2>2. /\ Edge(b, to, "uncond").kind = "uncond" /\ Edge(b, to, "return").kind = "return"
        /\ Edge(b, to, "taken").kind = "taken" /\ Edge(b, to, "not_taken").kind = "not_taken"
        /\ Edge(b, to, "fall").kind = "fall" /\ Edge(b, NoBlock, "unknown").kind = "unknown"
        /\ Edge(b, NoBlock, "unknown").to = NoBlock
    BY DEF Edge
  <2> HIDE DEF E, Fine
  <2> QED BY <2>1, <2>2, <1>3
<1>4. ASSUME NEW es, NEW fs, Fine(es), Fine(fs), Len(es) <= 1, Len(fs) <= 1
      PROVE  Fine(es \o fs)
  <2> HIDE DEF E
  <2> QED BY <1>4
<1>5. Fine(<<>>)
  <2> HIDE DEF E
  <2> QED OBVIOUS
<1> DEFINE es == EdgesFrom(bs, b)
<1> SUFFICES Fine(es)
  BY DEF es
<1>6. CASE in.op = "B"
  <2>1. es = <<Edge(b, target, IF target = NoBlock THEN "return" ELSE "uncond")>>
    BY <1>6 DEF EdgesFrom, target
  <2> HIDE DEF Fine, es, E
  <2> QED BY <2>1, <1>2, <1>11
<1>7. CASE in.op = "BC"
  <2> DEFINE fst == IF target = NoBlock THEN <<>> ELSE <<Edge(b, target, "taken")>>
             snd == IF next = NoBlock THEN <<>> ELSE <<Edge(b, next, "not_taken")>>
  <2>1. es = fst \o snd
    BY <1>7 DEF EdgesFrom, target, next
  <2>2. Len(fst) <= 1 /\ Len(snd) <= 1
    OBVIOUS
  <2>3. Fine(fst) /\ Fine(snd)
    <3> HIDE DEF Fine, E
    <3>1. Fine(<<Edge(b, target, "taken")>>) /\ Fine(<<Edge(b, next, "not_taken")>>)
      BY <1>2, <1>11
    <3> QED BY <3>1, <1>5
  <2> HIDE DEF Fine, es, fst, snd
  <2> QED BY <2>1, <2>2, <2>3, <1>4
<1>8. CASE in.op = "BLR"
  <2>1. es = <<Edge(b, NoBlock, "return")>>
    BY <1>8 DEF EdgesFrom
  <2> HIDE DEF Fine, es, E
  <2> QED BY <2>1, <1>2, <1>11
<1>9. CASE in.op = "BCTR"
  <2>1. es = <<Edge(b, NoBlock, "unknown")>>
    BY <1>9 DEF EdgesFrom
  <2> HIDE DEF Fine, es, E
  <2> QED BY <2>1, <1>2, <1>11
<1>10. CASE in.op \notin {"B", "BC", "BLR", "BCTR"}
  <2>1. es = <<Edge(b, next, IF next = NoBlock THEN "return" ELSE "fall")>>
    BY <1>10 DEF EdgesFrom, next
  <2> HIDE DEF Fine, es, E
  <2> QED BY <2>1, <1>2, <1>11
<1> HIDE DEF Fine, es
<1> QED BY <1>6, <1>7, <1>8, <1>9, <1>10

LEMMA WiredFacts ==
  ASSUME prog \in Programs, SplitAndWire
  PROVE  Shape' /\ NoCases'
<1> DEFINE n == Cardinality(Leaders)
           bs == Split
           E == [from : 1..n, to : (1..n) \cup {NoBlock}, kind : Kinds]
           seqs == [b \in 1..n |-> EdgesFrom(bs, b)]
           es == FlattenSeq(seqs)
<1>1. n \in Nat \ {0}
  BY LeadersAreCounted
<1>2. bs = [i \in 1..n |-> bs[i]]
  BY DEF Split
<1>3. Len(bs) = n /\ DOMAIN bs = 1..n
  <2> HIDE DEF bs, n
  <2> QED BY <1>1, <1>2, FunctionIsList
<1>4. blocks' = bs /\ edges' = es
  BY <1>3 DEF SplitAndWire
<1> HIDE DEF n, bs
<1>5. ASSUME NEW b \in 1..n
      PROVE  /\ seqs[b] \in Seq(E) /\ Len(seqs[b]) <= 2
             /\ \A i \in 1..Len(seqs[b]) : /\ seqs[b][i].from = b /\ seqs[b][i].kind # "case"
                                           /\ seqs[b][i].kind = "unknown" => seqs[b][i].to = NoBlock
  <2> DEFINE fs == EdgesFrom(bs, b)
             F == [from : {b}, to : DOMAIN bs \cup {NoBlock}, kind : Kinds]
  <2>1. seqs[b] = fs
    OBVIOUS
  <2>2. /\ fs \in Seq(F) /\ Len(fs) <= 2
        /\ \A i \in DOMAIN fs : /\ fs[i].kind # "case"
                                /\ fs[i].kind = "unknown" => fs[i].to = NoBlock
    BY <1>3, EdgesFromFacts
  <2>3. F \subseteq E
    BY <1>3
  <2>4. \A e \in F : e.from = b
    OBVIOUS
  <2> HIDE DEF fs, E, F, seqs
  <2>5. fs \in Seq(E) /\ \A i \in 1..Len(fs) : fs[i] \in F /\ i \in DOMAIN fs
    BY <2>2, <2>3
  <2> QED BY <2>1, <2>2, <2>4, <2>5
<1>6. seqs \in Seq(Seq(E)) /\ seqs # <<>> /\ Len(seqs) = n
  <2> HIDE DEF E
  <2>1. seqs \in [1..n -> Seq(E)]
    BY <1>5
  <2> HIDE DEF seqs
  <2> QED BY <1>1, <2>1
<1>7. PICK off \in [1..n -> Nat] :
        \A k \in 1..Len(es) : \E b \in 1..n :
          k - off[b] \in 1..Len(seqs[b]) /\ es[k] = seqs[b][k - off[b]]
  <2> HIDE DEF E, seqs
  <2> QED BY <1>6, FlattenFacts
<1>8. es \in Seq(E)
  <2> HIDE DEF E, seqs
  <2> QED BY <1>6, FlattenFacts
<1> HIDE DEF seqs, es
<1>9. ASSUME NEW k \in 1..Len(es)
      PROVE  /\ es[k].from \in 1..n
             /\ k - off[es[k].from] \in 1..2
             /\ es[k].kind # "case"
             /\ es[k].kind = "unknown" => es[k].to = NoBlock
  <2>1. PICK b \in 1..n : k - off[b] \in 1..Len(seqs[b]) /\ es[k] = seqs[b][k - off[b]]
    BY <1>7
  <2>2. es[k].from = b /\ es[k].kind # "case" /\ (es[k].kind = "unknown" => es[k].to = NoBlock)
    <3> DEFINE j == k - off[b]
               q == seqs[b]
    <3>1. q[j].from = b /\ q[j].kind # "case" /\ (q[j].kind = "unknown" => q[j].to = NoBlock)
      <4> HIDE DEF j
      <4> QED BY <2>1, <1>5 DEF j
    <3>2. es[k] = q[j]
      BY <2>1
    <3> QED BY ONLY <3>1, <3>2
  <2>3. Len(seqs[b]) \in Nat /\ Len(seqs[b]) <= 2
    <3> HIDE DEF E
    <3> QED BY <1>5
  <2> QED BY <2>1, <2>2, <2>3
<1>10. DOMAIN es = 1..Len(es)
  <2> HIDE DEF E
  <2> QED BY <1>8
<1>11. ASSUME NEW i \in 1..Len(es), NEW j \in 1..Len(es), NEW k \in 1..Len(es),
              i < j, j < k, es[i].from = es[j].from, es[j].from = es[k].from
       PROVE  FALSE
  <2> DEFINE o == off[es[i].from]
  <2>1. o \in Nat /\ i - o \in 1..2 /\ j - o \in 1..2 /\ k - o \in 1..2
    BY <1>9, <1>11
  <2> HIDE DEF o
  <2> QED BY <2>1, <1>11
<1>12. EdgeSet' = E /\ Len(blocks') = n /\ BlockIds' = 1..n
  BY <1>3, <1>4 DEF EdgeSet, BlockIds
<1> HIDE DEF E
<1>13. Shape'
  BY <1>1, <1>4, <1>8, <1>9, <1>10, <1>11, <1>12 DEF Shape
<1>14. NoCases'
  BY <1>4, <1>9, <1>10 DEF NoCases
<1> QED BY <1>13, <1>14

LEMMA CasesAreList ==
  ASSUME prog \in Programs
  PROVE  Cases \in Seq(Int)
<1>1. prog.table \in Seq(Int)
  BY ProgramsAssumption
<1> DEFINE stops == {Len(prog.table) + 1, CasesMax + 1}
                    \cup {i \in DOMAIN prog.table : prog.table[i] < 0}
           first == CHOOSE i \in stops : \A j \in stops : i <= j
<1>2. Len(prog.table) \in Nat /\ Len(prog.table) + 1 \in stops
  BY <1>1
<1>3. stops \subseteq Nat \ {0}
  BY <1>1 DEF CasesMax
<1>4. first \in stops /\ \A j \in stops : first <= j
  <2>1. PICK m \in stops : \A j \in stops : ~(<<j, m>> \in OpToRel(<, Nat))
    <3> HIDE DEF stops
    <3> QED BY <1>2, <1>3, NatLessThanWellFounded, WFMin
  <2>2. \A j \in stops : m <= j
    <3> SUFFICES ASSUME NEW j \in stops PROVE m <= j
      OBVIOUS
    <3>1. j \in Nat /\ m \in Nat
      BY <1>3
    <3>2. ~(j < m)
      <4> HIDE DEF stops
      <4> QED BY <2>1, <3>1 DEF OpToRel
    <3> QED BY <3>1, <3>2
  <2> HIDE DEF stops
  <2> QED BY <2>2
<1>5. Cases = SubSeq(prog.table, 1, first - 1)
  BY DEF Cases
<1> HIDE DEF first, stops
<1>6. first \in Nat \ {0} /\ first <= Len(prog.table) + 1
  BY <1>2, <1>3, <1>4
<1>7. \A k \in 1..(first - 1) : prog.table[k] \in Int
  <2>1. \A k \in 1..(first - 1) : k \in 1..Len(prog.table)
    BY <1>2, <1>6
  <2> QED BY <1>1, <2>1
<1> QED BY <1>1, <1>5, <1>6, <1>7

LEMMA SwitchFacts ==
  ASSUME prog \in Programs, Shape, NoCases, RecoverSwitches
  PROVE  Shape' /\ BlockIds' = BlockIds /\ DominanceGraph' = DominanceGraph
<1> DEFINE kept == Chosen(edges, Unresolved)
           CaseSet == [from : BlockIds, to : BlockIds \cup {NoBlock}, kind : {"case"}]
           seqs == [b \in BlockIds |-> IF b \in Tables THEN CaseEdges(b) ELSE <<>>]
           arms == FlattenSeq(seqs)
           n == Len(blocks)
           L == Len(kept)
<1>1. edges \in Seq(EdgeSet) /\ n \in Nat \ {0} /\ BlockIds = 1..n
  BY DEF Shape
<1>2. edges' = kept \o arms /\ blocks' = blocks
  BY DEF RecoverSwitches
<1>3. ASSUME NEW b \in BlockIds PROVE CaseEdges(b) \in Seq(CaseSet)
  <2> DEFINE all == [i \in DOMAIN Cases |-> Edge(b, BlockOf(blocks, Cases[i]), "case")]
  <2>1. \A va : BlockOf(blocks, va) \in BlockIds \cup {NoBlock}
    BY DEF BlockOf, BlockIds
  <2>2. \A i \in DOMAIN Cases : all[i] \in CaseSet
    BY <2>1 DEF Edge
  <2>3. DOMAIN Cases = 1..Len(Cases) /\ Len(Cases) \in Nat
    BY CasesAreList
  <2>4. all \in Seq(CaseSet)
    <3>1. all \in [1..Len(Cases) -> CaseSet]
      BY <2>2, <2>3
    <3> HIDE DEF all, CaseSet
    <3> QED BY <3>1, <2>3
  <2> HIDE DEF CaseSet
  <2> QED BY <2>4, ChosenFacts DEF CaseEdges
<1>4. seqs \in Seq(Seq(CaseSet)) /\ seqs # <<>>
  <2> HIDE DEF CaseSet
  <2>1. seqs \in [1..n -> Seq(CaseSet)]
    BY <1>1, <1>3
  <2> HIDE DEF seqs, n
  <2> QED BY <1>1, <2>1
<1>5. arms \in Seq(CaseSet)
  <2> HIDE DEF CaseSet, seqs
  <2> QED BY <1>4, FlattenFacts
<1>6. PICK h : IsChoice(edges, Unresolved, kept, h)
  BY <1>1, ChosenFacts
<1>7. kept \in Seq(EdgeSet)
  BY <1>1, ChosenFacts
<1>8. CaseSet \subseteq EdgeSet /\ \A e \in CaseSet : e.kind = "case"
  BY DEF EdgeSet, Kinds
<1> DEFINE es == kept \o arms
<1> HIDE DEF kept, arms, CaseSet, n
<1>9. es \in Seq(EdgeSet) /\ Len(es) = L + Len(arms) /\ L \in Nat /\ Len(arms) \in Nat
      /\ DOMAIN es = 1..Len(es)
  <2>1. arms \in Seq(EdgeSet)
    BY <1>5, <1>8
  <2> QED BY <2>1, <1>7
<1>10. /\ \A k \in 1..L : k \in 1..Len(es) /\ es[k] = kept[k]
       /\ \A k \in 1..Len(es) : k \in 1..L \/ es[k] \in CaseSet
  <2>1. \A k \in 1..L : k \in 1..Len(es) /\ es[k] = kept[k]
    BY <1>9, <1>7, <1>5
  <2>2. ASSUME NEW k \in 1..Len(es), k \notin 1..L PROVE es[k] \in CaseSet
    <3>1. k - L \in 1..Len(arms)
      BY <2>2, <1>9
    <3>2. es[k] = arms[k - L]
      BY <2>2, <1>9, <1>7, <1>5
    <3> QED BY <3>1, <3>2, <1>5
  <2> QED BY <2>1, <2>2
<1> HIDE DEF es
<1>11. ASSUME NEW k \in 1..L
       PROVE  h[k] \in DOMAIN edges /\ es[k] = edges[h[k]]
  BY <1>6, <1>10, <1>1 DEF IsChoice, L
<1>12. ASSUME NEW k \in 1..Len(es), es[k].kind # "case"
       PROVE  k \in 1..L
  BY <1>12, <1>10, <1>8
<1>13. edges' = es /\ EdgeSet' = EdgeSet /\ BlockIds' = BlockIds
  BY <1>2 DEF EdgeSet, BlockIds, es
<1>14. ASSUME NEW k \in DOMAIN es, es[k].kind = "unknown" PROVE es[k].to = NoBlock
  <2>1. k \in 1..L
    BY <1>14, <1>12, <1>9
  <2> QED BY <2>1, <1>14, <1>11 DEF Shape
<1>15. ASSUME NEW i \in DOMAIN es, NEW j \in DOMAIN es, NEW k \in DOMAIN es, i < j, j < k,
              es[i].from = es[j].from, es[j].from = es[k].from
       PROVE  "case" \in {es[i].kind, es[j].kind, es[k].kind}
  <2> SUFFICES ASSUME "case" \notin {es[i].kind, es[j].kind, es[k].kind} PROVE FALSE
    OBVIOUS
  <2>1. i \in 1..L /\ j \in 1..L /\ k \in 1..L
    BY <1>9, <1>12
  <2>2. h[i] < h[j] /\ h[j] < h[k]
    BY <2>1, <1>6, <1>15 DEF IsChoice, L
  <2> QED BY <2>1, <2>2, <1>11, <1>15 DEF Shape
<1>16. Shape'
  BY <1>13, <1>9, <1>14, <1>15, <1>2, <1>1 DEF Shape, n
<1>17. DominanceGraph' \subseteq DominanceGraph
  <2> SUFFICES ASSUME NEW k \in DOMAIN es, es[k].to # NoBlock, es[k].kind # "case"
               PROVE  es[k] \in DominanceGraph
    BY <1>13 DEF DominanceGraph, Arrows
  <2>1. k \in 1..L
    BY <1>12, <1>9
  <2> QED BY <2>1, <1>11 DEF DominanceGraph, Arrows
<1>18. DominanceGraph \subseteq DominanceGraph'
  <2> SUFFICES ASSUME NEW i \in DOMAIN edges, edges[i].to # NoBlock, edges[i].kind # "case"
               PROVE  edges[i] \in DominanceGraph'
    BY DEF DominanceGraph, Arrows
  <2>1. i \in Unresolved /\ i \in 1..Len(edges)
    BY <1>1 DEF Unresolved, Shape
  <2>2. PICK k \in 1..L : h[k] = i
    BY <2>1, <1>6 DEF IsChoice, L
  <2>3. k \in DOMAIN es /\ es[k] = edges[i]
    BY <2>2, <1>10, <1>9, <1>11
  <2> QED BY <2>3, <1>13 DEF DominanceGraph, Arrows
<1> QED BY <1>13, <1>16, <1>17, <1>18

\* What depends on the blocks and edges alone.
LEMMA GraphKept ==
  ASSUME UNCHANGED <<blocks, edges>>
  PROVE  /\ BlockIds' = BlockIds /\ DominanceGraph' = DominanceGraph
         /\ Shape' = Shape /\ NoCases' = NoCases
<1>1. BlockIds' = BlockIds
  BY DEF BlockIds
<1>2. EdgeSet' = EdgeSet
  BY <1>1 DEF EdgeSet
<1>3. DominanceGraph' = DominanceGraph
  BY DEF DominanceGraph, Arrows
<1>4. Shape' = Shape
  BY <1>1, <1>2 DEF Shape
<1>5. NoCases' = NoCases
  BY DEF NoCases
<1> QED BY <1>1, <1>3, <1>4, <1>5

LEMMA ShapeStep ==
  ASSUME ShapeInv, [SsaNext]_vars
  PROVE  ShapeInv'
<1> DEFINE Kept == UNCHANGED <<prog, blocks, edges>>
<1>1. ASSUME Kept, stage # "none", stage' \in Early \cup Late,
             stage' \in Early => stage \in Early
      PROVE  ShapeInv'
  BY <1>1, GraphKept DEF ShapeInv, Early, Late
<1>2. CASE UNCHANGED vars
  BY <1>2, GraphKept DEF ShapeInv, vars, flowVars
<1>3. CASE LaterStep
  BY <1>3, <1>1 DEF LaterStep, Early, Late
<1>4. CASE SplitAndWire
  BY <1>4, WiredFacts DEF ShapeInv, SplitAndWire, Early, Late
<1>5. CASE RecoverSwitches
  BY <1>5, SwitchFacts DEF ShapeInv, RecoverSwitches, Early, Late
<1>6. CASE StartOrder \/ StartDominance
  BY <1>6, <1>1 DEF StartOrder, StartDominance, Early
<1>7. CASE Descend \/ Leave
  BY <1>7, <1>1 DEF Descend, Leave, Early
<1>8. CASE VisitBlock \/ EndRound
  BY <1>8, <1>1 DEF VisitBlock, EndRound, AgainIf, Early
<1>9. CASE ClassifyLoops \/ ClassifyRegions
  BY <1>9, <1>1 DEF ClassifyLoops, ClassifyRegions, Early, Late
<1>10. CASE FlowNext
  BY <1>10, <1>4, <1>5, <1>6, <1>7, <1>8, <1>9 DEF FlowNext
<1> QED BY <1>2, <1>3, <1>10, LaterPasses

\* Every edge the dominators are computed from joins two blocks.
LEMMA GraphFacts ==
  ASSUME Shape
  PROVE  /\ Entry \in BlockIds /\ NoBlock \notin BlockIds /\ BlockIds \subseteq Nat
         /\ \A e \in DominanceGraph : e.from \in BlockIds /\ e.to \in BlockIds
         /\ \A i \in DOMAIN edges : edges[i].from \in BlockIds
                                    /\ edges[i].to \in BlockIds \cup {NoBlock}
<1>1. Entry \in BlockIds /\ NoBlock \notin BlockIds /\ BlockIds \subseteq Nat
  BY DEF Shape, Entry, NoBlock
<1>2. \A i \in DOMAIN edges : edges[i] \in EdgeSet
  BY DEF Shape
<1>3. \A i \in DOMAIN edges : edges[i].from \in BlockIds
                              /\ edges[i].to \in BlockIds \cup {NoBlock}
  BY <1>2 DEF EdgeSet
<1> QED BY <1>1, <1>3 DEF DominanceGraph, Arrows

-----------------------------------------------------------------------------
(* The order of the blocks *)

Members(s) == {s[i] : i \in 1..Len(s)}
Distinct(s) == \A i, j \in 1..Len(s) : s[i] = s[j] => i = j

\* Sequences that grow and shrink by an element.
LEMMA Lists ==
  ASSUME NEW S, NEW s \in Seq(S), NEW x \in S
  PROVE  /\ Append(s, x) \in Seq(S) /\ Len(Append(s, x)) = Len(s) + 1
         /\ Append(s, x)[Len(s) + 1] = x
         /\ \A k \in 1..Len(s) : Append(s, x)[k] = s[k]
         /\ <<x>> \o s \in Seq(S) /\ Len(<<x>> \o s) = Len(s) + 1
         /\ (<<x>> \o s)[1] = x
         /\ \A k \in 2..(Len(s) + 1) : (<<x>> \o s)[k] = s[k - 1]
<1>1. /\ Append(s, x) \in Seq(S) /\ Len(Append(s, x)) = Len(s) + 1
      /\ Append(s, x)[Len(s) + 1] = x
      /\ \A k \in 1..Len(s) : Append(s, x)[k] = s[k]
  OBVIOUS
<1>2. <<x>> \in Seq(S) /\ Len(<<x>>) = 1 /\ <<x>>[1] = x
  OBVIOUS
<1>3. /\ <<x>> \o s \in Seq(S) /\ Len(<<x>> \o s) = Len(s) + 1
      /\ (<<x>> \o s)[1] = x
      /\ \A k \in 2..(Len(s) + 1) : (<<x>> \o s)[k] = s[k - 1]
  <2> DEFINE o == <<x>>
  <2>1. o \in Seq(S) /\ Len(o) = 1 /\ o[1] = x
    BY <1>2
  <2> HIDE DEF o
  <2>2. /\ o \o s \in Seq(S) /\ Len(o \o s) = Len(s) + 1
        /\ (o \o s)[1] = x
        /\ \A k \in 2..(Len(s) + 1) : (o \o s)[k] = s[k - 1]
    <3>1. /\ o \o s \in Seq(S) /\ Len(o \o s) = Len(o) + Len(s)
          /\ \A i \in 1..(Len(o) + Len(s)) :
               (o \o s)[i] = IF i <= Len(o) THEN o[i] ELSE s[i - Len(o)]
      BY ONLY <2>1, s \in Seq(S), ConcatProperties
    <3>2. Len(s) \in Nat
      OBVIOUS
    <3>3. Len(o \o s) = Len(s) + 1 /\ (o \o s)[1] = x
      BY ONLY <3>1, <3>2, <2>1
    <3>4. ASSUME NEW k \in 2..(Len(s) + 1) PROVE (o \o s)[k] = s[k - 1]
      <4>1. k \in 1..(Len(o) + Len(s)) /\ ~(k <= Len(o)) /\ k - Len(o) = k - 1
        BY <2>1, <3>2
      <4>2. (o \o s)[k] = s[k - Len(o)]
        BY ONLY <3>1, <4>1
      <4> QED BY ONLY <4>1, <4>2
    <3> QED BY ONLY <3>1, <3>3, <3>4
  <2> QED BY <2>2 DEF o
<1> QED BY <1>1, <1>3

LEMMA FrontFacts ==
  ASSUME NEW S, NEW s \in Seq(S), s # <<>>
  PROVE  /\ Len(s) \in Nat /\ Len(s) > 0 /\ s[Len(s)] \in S
         /\ Front(s) \in Seq(S) /\ Len(Front(s)) = Len(s) - 1
         /\ \A k \in 1..(Len(s) - 1) : Front(s)[k] = s[k]
         /\ Last(s) = s[Len(s)]
<1>1. Len(s) \in Nat /\ Len(s) > 0 /\ s[Len(s)] \in S
  OBVIOUS
<1>2. \A k \in 1..(Len(s) - 1) : k \in 1..Len(s) /\ s[k] \in S
  BY <1>1
<1> DEFINE m == Len(s) - 1
<1>3. m \in Nat
  BY <1>1
<1> HIDE DEF m
<1>4. SubSeq(s, 1, m) \in Seq(S) /\ Len(SubSeq(s, 1, m)) = m
      /\ \A k \in 1..m : SubSeq(s, 1, m)[k] = s[k]
  <2>1. \A k \in 1..m : s[k] \in S
    BY <1>2 DEF m
  <2>2. /\ SubSeq(s, 1, m) \in Seq(S)
        /\ Len(SubSeq(s, 1, m)) = IF 1 <= m THEN m - 1 + 1 ELSE 0
        /\ \A i \in 1..(m - 1 + 1) : SubSeq(s, 1, m)[i] = s[1 + i - 1]
    BY ONLY <2>1, <1>3, s \in Seq(S), SubSeqProperties
  <2>3. m - 1 + 1 = m /\ \A i \in 1..m : 1 + i - 1 = i
    BY <1>3
  <2>4. Len(SubSeq(s, 1, m)) = m
    BY <2>2, <1>3
  <2> QED BY ONLY <2>2, <2>3, <2>4
<1> QED BY <1>1, <1>4 DEF Front, Last, m

Reached == Reachable(BlockIds, DominanceGraph)

\* In the search: every block it has been in is on the path or in the order;
\* one in the order has no block left to lead to, and comes from one before it.
Searching ==
  /\ path \in Seq(BlockIds) /\ order \in Seq(BlockIds)
  /\ seen = Members(path) \cup Members(order) /\ seen \subseteq Reached
  /\ path # <<>> => path[1] = Entry
  /\ path = <<>> => order # <<>> /\ order[1] = Entry
  /\ Distinct(path) /\ Distinct(order) /\ Members(path) \cap Members(order) = {}
  /\ \A i \in 1..(Len(path) - 1) :
       \E e \in DominanceGraph : e.from = path[i] /\ e.to = path[i + 1]
  /\ \A e \in DominanceGraph : e.from \in Members(order) => e.to \in seen
  /\ \A j \in 1..Len(order) : order[j] # Entry =>
       \E e \in DominanceGraph : /\ e.to = order[j]
                                 /\ \/ e.from \in Members(path)
                                    \/ \E i \in 1..(j - 1) : e.from = order[i]

\* The order holds the blocks that can be reached, each behind one it comes from.
Ordered ==
  /\ order \in Seq(BlockIds) /\ order # <<>> /\ order[1] = Entry
  /\ Distinct(order) /\ Members(order) = Reached
  /\ \A j \in 2..Len(order) : \E e \in DominanceGraph :
       e.to = order[j] /\ \E i \in 1..(j - 1) : e.from = order[i]

OrderInv ==
  /\ stage \in {"none", "wired"} => order = <<>>
  /\ stage = "order" => Searching
  /\ stage \notin {"none", "wired", "order"} => Ordered

LEMMA OrderStarts ==
  ASSUME Shape, order = <<>>, StartOrder
  PROVE  Searching'
<1>1. path' = <<Entry>> /\ seen' = {Entry} /\ order' = <<>>
  BY DEF StartOrder
<1>2. BlockIds' = BlockIds /\ DominanceGraph' = DominanceGraph /\ Reached' = Reached
  BY GraphKept DEF StartOrder, Reached
<1>3. Entry \in BlockIds /\ Entry \in Reached
  BY GraphFacts, DominatorFacts DEF Reached
<1>4. /\ <<Entry>> \in Seq(BlockIds) /\ Len(<<Entry>>) = 1 /\ <<Entry>>[1] = Entry
      /\ <<>> \in Seq(BlockIds) /\ Len(<<>>) = 0 /\ <<Entry>> # <<>>
  BY <1>3
<1>5. Members(path)' = {Entry} /\ Members(order)' = {} /\ Distinct(path)' /\ Distinct(order)'
  BY <1>1, <1>4 DEF Members, Distinct
<1> QED BY <1>1, <1>2, <1>3, <1>4, <1>5 DEF Searching

\* The edges are what the search looks through.
LEMMA LeadsOnFacts ==
  ASSUME Shape, NoCases
  PROVE  /\ \A i \in DOMAIN edges : LeadsOn(i) =>
              edges[i] \in DominanceGraph /\ edges[i].to \in BlockIds \ seen
         /\ (\A i \in DOMAIN edges : ~LeadsOn(i)) =>
              \A e \in DominanceGraph : e.from = Last(path) => e.to \in seen
BY GraphFacts DEF LeadsOn, DominanceGraph, Arrows, NoCases

LEMMA Descends1 ==
  ASSUME Shape, NoCases, Searching, Descend
  PROVE  Searching'
<1>1. PICK i \in DOMAIN edges : LeadsOn(i) /\ path' = Append(path, edges[i].to)
                                /\ seen' = seen \cup {edges[i].to}
  BY DEF Descend
<1> DEFINE b == edges[i].to
           m == Len(path)
<1>2. /\ order' = order /\ BlockIds' = BlockIds /\ DominanceGraph' = DominanceGraph
      /\ Reached' = Reached /\ path # <<>>
  BY GraphKept DEF Descend, Reached
<1>3. b \in BlockIds /\ b \notin seen /\ edges[i] \in DominanceGraph /\ edges[i].from = path[m]
  BY <1>1, LeadsOnFacts DEF LeadsOn, Last
<1>4. /\ path' \in Seq(BlockIds) /\ Len(path') = m + 1 /\ m \in Nat /\ m > 0
      /\ path'[m + 1] = b /\ \A k \in 1..m : path'[k] = path[k]
  BY <1>1, <1>2, <1>3, Lists DEF Searching
<1> HIDE DEF b, m
<1>5. Members(path)' = Members(path) \cup {b}
  <2>1. \A k \in 1..(m + 1) : k \in 1..m \/ k = m + 1
    BY <1>4
  <2>2. m + 1 \in 1..(m + 1) /\ \A k \in 1..m : k \in 1..(m + 1)
    BY <1>4
  <2> QED BY <2>1, <2>2, <1>4 DEF Members, m
<1>6. b \in Reached
  <2>1. path[m] \in Reached
    BY <1>4 DEF Searching, Members, m
  <2> QED BY <1>3, <2>1, GraphFacts, DominatorFacts DEF Reached, b
<1>7. Distinct(path)'
  <2> SUFFICES ASSUME NEW j \in 1..(m + 1), NEW k \in 1..(m + 1), path'[j] = path'[k]
               PROVE  j = k
    BY <1>4 DEF Distinct
  <2>1. \A x \in 1..m : path'[x] # b
    BY <1>3, <1>4 DEF Searching, Members, m
  <2>2. CASE j \in 1..m /\ k \in 1..m
    BY <2>2, <1>4 DEF Searching, Distinct, m
  <2>3. CASE j = m + 1 \/ k = m + 1
    BY <2>1, <2>3, <1>4
  <2> QED BY <2>2, <2>3, <1>4
<1>8. \A k \in 1..m : \E e \in DominanceGraph : e.from = path'[k] /\ e.to = path'[k + 1]
  <2> SUFFICES ASSUME NEW k \in 1..m
               PROVE  \E e \in DominanceGraph : e.from = path'[k] /\ e.to = path'[k + 1]
    OBVIOUS
  <2>1. CASE k = m
    BY <2>1, <1>3, <1>4 DEF b
  <2>2. CASE k # m
    <3>1. k \in 1..(m - 1) /\ k + 1 \in 1..m
      BY <2>2, <1>4
    <3> QED BY <3>1, <1>4 DEF Searching, m
  <2> QED BY <2>1, <2>2
<1>9. path' # <<>> /\ path'[1] = Entry
  BY <1>2, <1>4 DEF Searching
<1>10. Members(order)' = Members(order) /\ Distinct(order)'
  BY <1>2 DEF Members, Distinct, Searching
<1>11. seen' = seen \cup {b}
  BY <1>1 DEF b
<1>12. \A k \in 1..(Len(path') - 1) : k \in 1..m
  BY <1>4
<1>13. seen' = Members(path)' \cup Members(order)' /\ seen' \subseteq Reached'
  BY <1>2, <1>5, <1>6, <1>10, <1>11 DEF Searching
<1>14. Members(path)' \cap Members(order)' = {}
  BY <1>3, <1>5, <1>10 DEF Searching
<1>15. \A e \in DominanceGraph' : e.from \in Members(order)' => e.to \in seen'
  BY <1>2, <1>10, <1>11 DEF Searching
<1>16. \A j \in 1..Len(order') : order'[j] # Entry =>
         \E e \in DominanceGraph' : /\ e.to = order'[j]
                                    /\ \/ e.from \in Members(path)'
                                       \/ \E k \in 1..(j - 1) : e.from = order'[k]
  BY <1>2, <1>5 DEF Searching
<1>17. \A k \in 1..(Len(path') - 1) :
         \E e \in DominanceGraph' : e.from = path'[k] /\ e.to = path'[k + 1]
  BY <1>2, <1>8, <1>12
<1>18. path' \in Seq(BlockIds') /\ order' \in Seq(BlockIds')
  BY <1>2, <1>4 DEF Searching
<1> QED BY <1>7, <1>9, <1>10, <1>13, <1>14, <1>15, <1>16, <1>17, <1>18 DEF Searching

LEMMA Leaves1 ==
  ASSUME Shape, NoCases, Searching, Leave
  PROVE  Searching'
<1> DEFINE m == Len(path)
           p == path[m]
           n == Len(order)
<1>1. /\ seen' = seen /\ BlockIds' = BlockIds /\ DominanceGraph' = DominanceGraph
      /\ Reached' = Reached /\ path # <<>>
      /\ path' = Front(path) /\ order' = <<Last(path)>> \o order
  BY GraphKept DEF Leave, Reached
<1>2. /\ path' \in Seq(BlockIds) /\ Len(path') = m - 1 /\ m \in Nat /\ m > 0
      /\ \A k \in 1..(m - 1) : path'[k] = path[k]
      /\ Last(path) = p /\ p \in BlockIds
  <2>1. path \in Seq(BlockIds)
    BY DEF Searching
  <2> QED BY ONLY <2>1, <1>1, FrontFacts DEF m, p
<1>3. /\ order' \in Seq(BlockIds) /\ Len(order') = n + 1 /\ n \in Nat /\ order'[1] = p
      /\ \A k \in 2..(n + 1) : order'[k] = order[k - 1]
  <2>1. order \in Seq(BlockIds)
    BY DEF Searching
  <2>2. Len(order) \in Nat
    BY <2>1
  <2> QED BY ONLY <2>1, <2>2, <1>1, <1>2, Lists DEF n
<1>4. \A e \in DominanceGraph : e.from = p => e.to \in seen
  <2>1. \A i \in DOMAIN edges : ~LeadsOn(i)
    BY DEF Leave
  <2> QED BY <2>1, <1>2, LeadsOnFacts
<1>5. p = path[m]
  OBVIOUS
<1> HIDE DEF p
<1>6. Members(path) = Members(path)' \cup {p} /\ p \notin Members(path)'
  <2>1. \A k \in 1..m : k \in 1..(m - 1) \/ k = m
    BY <1>2
  <2>2. m \in 1..m /\ \A k \in 1..(m - 1) : k \in 1..m /\ k # m
    BY <1>2
  <2>3. Members(path)' = {path[k] : k \in 1..(m - 1)}
    BY <1>2 DEF Members
  <2>4. \A k \in 1..(m - 1) : path[k] # p
    BY <2>2, <1>5 DEF Searching, Distinct, m
  <2> QED BY <2>1, <2>2, <2>3, <2>4, <1>5 DEF Members, m
<1>7. Members(order)' = Members(order) \cup {p}
  <2>1. \A k \in 1..(n + 1) : k = 1 \/ (k \in 2..(n + 1) /\ k - 1 \in 1..n)
    BY <1>3
  <2>2. 1 \in 1..(n + 1) /\ \A k \in 1..n : k + 1 \in 2..(n + 1) /\ k + 1 \in 1..(n + 1)
                                            /\ k + 1 - 1 = k
    BY <1>3
  <2>3. ASSUME NEW k \in 1..n PROVE order[k] \in Members(order)'
    <3>1. order'[k + 1] = order[k] /\ k + 1 \in 1..Len(order')
      BY <2>2, <1>3
    <3> QED BY <3>1 DEF Members
  <2>4. ASSUME NEW k \in 1..(n + 1) PROVE order'[k] \in Members(order) \cup {p}
    BY <2>1, <1>3 DEF Members, n
  <2>5. p \in Members(order)'
    BY <2>2, <1>3 DEF Members
  <2> QED BY <2>3, <2>4, <2>5, <1>3 DEF Members, n
<1>8. p \notin Members(order)
  BY <1>6 DEF Searching
<1>9. Distinct(order)'
  <2> SUFFICES ASSUME NEW j \in 1..(n + 1), NEW k \in 1..(n + 1), order'[j] = order'[k]
               PROVE  j = k
    BY <1>3 DEF Distinct
  <2>1. \A x \in 2..(n + 1) : x - 1 \in 1..n /\ order'[x] = order[x - 1] /\ order'[x] # p
    <3>1. \A x \in 2..(n + 1) : x - 1 \in 1..n
      BY <1>3
    <3> QED BY <3>1, <1>3, <1>8 DEF Members, n
  <2>2. CASE j \in 2..(n + 1) /\ k \in 2..(n + 1)
    <3>1. j - 1 = k - 1
      BY <2>1, <2>2 DEF Searching, Distinct, n
    <3> QED BY <3>1, <2>2
  <2>3. CASE j = 1 \/ k = 1
    BY <2>1, <2>3, <1>3
  <2> QED BY <2>2, <2>3, <1>3
<1>10. Distinct(path)'
  <2>1. \A k \in 1..(m - 1) : k \in 1..m
    BY <1>2
  <2> QED BY <2>1, <1>2 DEF Searching, Distinct, m
<1>11. ASSUME path' = <<>> PROVE order' # <<>> /\ order'[1] = Entry
  <2>1. m = 1
    BY <1>11, <1>2
  <2> QED BY <2>1, <1>1, <1>3, <1>5 DEF Searching
<1>12. ASSUME path' # <<>> PROVE path'[1] = Entry /\ m - 1 \in 1..(m - 1)
  <2>1. m - 1 > 0
    BY <1>11, <1>12, <1>2
  <2>2. 1 \in 1..(m - 1)
    BY <2>1, <1>2
  <2> QED BY <2>1, <2>2, <1>1, <1>2 DEF Searching
<1>13. \A k \in 1..(Len(path') - 1) :
         \E e \in DominanceGraph' : e.from = path'[k] /\ e.to = path'[k + 1]
  <2> SUFFICES ASSUME NEW k \in 1..(Len(path') - 1)
               PROVE  \E e \in DominanceGraph : e.from = path'[k] /\ e.to = path'[k + 1]
    BY <1>1
  <2>1. k \in 1..(m - 1) /\ k + 1 \in 1..(m - 1)
    BY <1>2
  <2>2. path'[k] = path[k] /\ path'[k + 1] = path[k + 1]
    BY ONLY <2>1, <1>2
  <2> QED BY <2>1, <2>2 DEF Searching, m
<1>14. \A e \in DominanceGraph' : e.from \in Members(order)' => e.to \in seen'
  BY <1>1, <1>4, <1>7 DEF Searching
<1>15. seen' = Members(path)' \cup Members(order)' /\ seen' \subseteq Reached'
       /\ Members(path)' \cap Members(order)' = {}
  BY <1>1, <1>6, <1>7 DEF Searching
<1> DEFINE Comes(j) == \E e \in DominanceGraph' :
                          /\ e.to = order'[j]
                          /\ \/ e.from \in Members(path)'
                             \/ \E k \in 1..(j - 1) : e.from = order'[k]
<1>16. ASSUME NEW j \in 1..(n + 1), order'[j] # Entry PROVE Comes(j)
  <2>1. CASE j = 1
    <3>1. p # Entry
      BY <2>1, <1>3, <1>16
    <3>2. m # 1
      BY <3>1, <1>5, <1>1 DEF Searching
    <3>3. m - 1 \in 1..(m - 1) /\ m - 1 + 1 = m
      BY <3>2, <1>2
    <3>4. PICK e \in DominanceGraph : e.from = path[m - 1] /\ e.to = path[m]
      BY <3>3 DEF Searching, m
    <3>5. e.from \in Members(path)'
      BY <3>3, <3>4, <1>2 DEF Members
    <3> QED BY <3>4, <3>5, <2>1, <1>1, <1>3, <1>5
  <2>2. CASE j # 1
    <3>1. j \in 2..(n + 1) /\ j - 1 \in 1..n /\ order'[j] = order[j - 1]
      BY <2>2, <1>3
    <3>2. PICK e \in DominanceGraph : e.to = order[j - 1] /\
            (e.from \in Members(path) \/ \E k \in 1..(j - 1 - 1) : e.from = order[k])
      BY <3>1, <1>16 DEF Searching, n
    <3>3. CASE e.from \in Members(path)'
      BY <3>1, <3>2, <3>3, <1>1
    <3>4. CASE e.from = p
      <4>1. 1 \in 1..(j - 1)
        BY <3>1
      <4> QED BY <4>1, <3>1, <3>2, <3>4, <1>1, <1>3
    <3>5. ASSUME NEW k \in 1..(j - 1 - 1), e.from = order[k] PROVE Comes(j)
      <4>1. k + 1 \in 1..(j - 1) /\ k + 1 \in 2..(n + 1) /\ k + 1 - 1 = k
        BY <3>1, <1>3
      <4>2. order'[k + 1] = e.from
        BY <4>1, <3>5, <1>3
      <4> QED BY <4>1, <4>2, <3>1, <3>2, <1>1
    <3> HIDE DEF Comes
    <3> QED BY <3>2, <3>3, <3>4, <3>5, <1>6
  <2> QED BY <2>1, <2>2
<1>17. path' \in Seq(BlockIds') /\ order' \in Seq(BlockIds')
  BY <1>1, <1>2, <1>3
<1>18. \A j \in 1..Len(order') : order'[j] # Entry => Comes(j)
  <2> HIDE DEF Comes
  <2> QED BY <1>3, <1>16
<1> QED BY <1>9, <1>10, <1>11, <1>12, <1>13, <1>14, <1>15, <1>17, <1>18 DEF Searching

LEMMA SearchEnds ==
  ASSUME Shape, Searching, path = <<>>
  PROVE  Ordered
<1>1. /\ order \in Seq(BlockIds) /\ order # <<>> /\ order[1] = Entry /\ Distinct(order)
      /\ Len(path) = 0 /\ Members(path) = {}
  BY DEF Searching, Members
<1>2. Members(order) = Reached
  <2>1. seen = Members(order) /\ seen \subseteq Reached
    BY <1>1 DEF Searching
  <2>2. Entry \in Members(order)
    BY <1>1 DEF Members
  <2>3. Members(order) \in SUBSET BlockIds
    BY <1>1 DEF Members
  <2>4. ClosedWithout(Members(order), DominanceGraph, NoBlock)
    BY <2>1, <2>2 DEF Searching, ClosedWithout
  <2> QED BY <2>1, <2>3, <2>4, WithoutLeast DEF Reached, Reachable
<1>3. ASSUME NEW j \in 2..Len(order)
      PROVE  \E e \in DominanceGraph : e.to = order[j] /\ \E i \in 1..(j - 1) : e.from = order[i]
  <2>1. j \in 1..Len(order) /\ 1 \in 1..Len(order) /\ j # 1
    BY <1>1
  <2>2. order[j] # Entry
    BY <2>1, <1>1 DEF Distinct
  <2> QED BY <2>1, <2>2, <1>1 DEF Searching
<1> QED BY <1>1, <1>2, <1>3 DEF Ordered

LEMMA OrderKept ==
  ASSUME order' = order, BlockIds' = BlockIds, DominanceGraph' = DominanceGraph
  PROVE  Ordered' = Ordered /\ Reached' = Reached
<1>1. Reached' = Reached
  BY DEF Reached
<1>2. Members(order)' = Members(order) /\ Distinct(order)' = Distinct(order)
  BY DEF Members, Distinct
<1> QED BY <1>1, <1>2 DEF Ordered

LEMMA OrderStep ==
  ASSUME ShapeInv, OrderInv, [SsaNext]_vars
  PROVE  OrderInv'
<1> USE DEF OrderInv
<1>1. ASSUME order' = order, BlockIds' = BlockIds, DominanceGraph' = DominanceGraph,
             stage \notin {"none", "wired", "order"}, stage' \notin {"none", "wired", "order"}
      PROVE  OrderInv'
  BY <1>1, OrderKept
<1>2. CASE UNCHANGED vars
  <2>1. BlockIds' = BlockIds /\ DominanceGraph' = DominanceGraph /\ order' = order
        /\ path' = path /\ seen' = seen /\ stage' = stage
    BY <1>2, GraphKept DEF vars, flowVars
  <2>2. Searching' = Searching
    <3>1. Reached' = Reached
      BY <2>1 DEF Reached
    <3>2. Members(order)' = Members(order) /\ Distinct(order)' = Distinct(order)
          /\ Members(path)' = Members(path) /\ Distinct(path)' = Distinct(path)
      BY <2>1 DEF Members, Distinct
    <3> QED BY <2>1, <3>1, <3>2 DEF Searching
  <2> QED BY <2>1, <2>2, OrderKept
<1>3. CASE LaterStep
  BY <1>3, <1>1, GraphKept DEF LaterStep, Late
<1>4. CASE SplitAndWire
  BY <1>4 DEF SplitAndWire
<1>5. CASE StartOrder
  BY <1>5, OrderStarts DEF StartOrder, ShapeInv
<1>6. CASE Descend
  BY <1>6, Descends1 DEF Descend, ShapeInv, Early
<1>7. CASE Leave
  BY <1>7, Leaves1 DEF Leave, ShapeInv, Early
<1>8. CASE StartDominance
  BY <1>8, SearchEnds, OrderKept, GraphKept DEF StartDominance, ShapeInv
<1>9. CASE VisitBlock \/ EndRound
  BY <1>9, <1>1, GraphKept DEF VisitBlock, EndRound, AgainIf
<1>10. CASE ClassifyLoops \/ ClassifyRegions
  BY <1>10, <1>1, GraphKept DEF ClassifyLoops, ClassifyRegions
<1>11. CASE RecoverSwitches
  <2>1. BlockIds' = BlockIds /\ DominanceGraph' = DominanceGraph
    BY <1>11, SwitchFacts DEF RecoverSwitches, ShapeInv, Early
  <2> QED BY <2>1, <1>11, <1>1 DEF RecoverSwitches
<1>12. CASE FlowNext
  BY <1>12, <1>4, <1>5, <1>6, <1>7, <1>8, <1>9, <1>10, <1>11 DEF FlowNext
<1> QED BY <1>2, <1>3, <1>12, LaterPasses

-----------------------------------------------------------------------------
(* Immediate dominators *)

Dom(a, b) == Dominates(BlockIds, DominanceGraph, a, b)

\* While the rounds go on, what a block has is above it in the order, and
\* every block that dominates the one dominates the other.
IdomInv ==
  /\ idom \in [BlockIds -> BlockIds \cup {NoBlock}]
  /\ idom[Entry] = Entry /\ Placed \subseteq Reached
  /\ \A b \in Placed \ {Entry} :
       /\ idom[b] \in Placed /\ Position(idom[b]) < Position(b)
       /\ \A a \in BlockIds : (Dom(a, b) /\ a # b) => Dom(a, idom[b])

Settling == Shape /\ Ordered /\ IdomInv

LEMMA PositionFacts ==
  ASSUME Shape, Ordered
  PROVE  /\ \A b \in Reached : /\ Position(b) \in 1..Len(order) /\ order[Position(b)] = b
         /\ \A i \in 1..Len(order) : order[i] \in Reached /\ Position(order[i]) = i
         /\ Entry \in Reached /\ Position(Entry) = 1
         /\ Len(order) \in Nat \ {0}
<1>1. DOMAIN order = 1..Len(order) /\ Len(order) \in Nat \ {0}
  BY DEF Ordered
<1>2. ASSUME NEW b \in Reached
      PROVE  Position(b) \in 1..Len(order) /\ order[Position(b)] = b
  <2>1. \E i \in 1..Len(order) : order[i] = b
    BY DEF Ordered, Members
  <2> QED BY <1>1, <2>1 DEF Position
<1>3. ASSUME NEW i \in 1..Len(order)
      PROVE  order[i] \in Reached /\ Position(order[i]) = i
  <2>1. order[i] \in Reached
    BY DEF Ordered, Members
  <2> QED BY <2>1, <1>2 DEF Ordered, Distinct
<1>4. Entry = order[1] /\ 1 \in 1..Len(order)
  BY <1>1 DEF Ordered
<1> QED BY ONLY <1>1, <1>2, <1>3, <1>4

LEMMA PlacedFacts ==
  ASSUME Settling
  PROVE  /\ Entry \in Placed /\ Placed \subseteq BlockIds /\ Placed \subseteq Reached
         /\ \A b \in Placed : /\ Position(b) \in 1..Len(order) /\ idom[b] \in Placed
                              /\ idom[b] = b <=> b = Entry
                              /\ b # Entry => Position(idom[b]) < Position(b)
         /\ \A b, c \in Placed : Position(b) = Position(c) => b = c
         /\ \A b \in BlockIds \ Placed : idom[b] = NoBlock
         /\ Position(Entry) = 1 /\ Len(order) \in Nat
<1>1. Shape /\ Ordered /\ IdomInv
  BY DEF Settling
<1>2. Entry \in BlockIds /\ NoBlock \notin BlockIds
  BY <1>1, GraphFacts
<1>3. Entry \in Placed /\ Placed \subseteq BlockIds /\ Placed \subseteq Reached
  BY <1>1, <1>2 DEF IdomInv, Placed
<1>4. \A b \in Placed : Position(b) \in 1..Len(order) /\ order[Position(b)] = b
  BY <1>1, <1>3, PositionFacts
<1>5. ASSUME NEW b \in Placed, b # Entry
      PROVE  idom[b] \in Placed /\ Position(idom[b]) < Position(b) /\ idom[b] # b
  <2>1. idom[b] \in Placed /\ Position(idom[b]) < Position(b)
    BY <1>1, <1>5 DEF IdomInv
  <2>2. Position(b) \in Int
    BY <1>4
  <2> QED BY <2>1, <2>2
<1>6. idom[Entry] = Entry
  BY <1>1 DEF IdomInv
<1>7. \A b \in BlockIds \ Placed : idom[b] = NoBlock
  BY DEF Placed
<1>8. \A b \in Placed : /\ Position(b) \in 1..Len(order) /\ idom[b] \in Placed
                        /\ idom[b] = b <=> b = Entry
                        /\ b # Entry => Position(idom[b]) < Position(b)
  BY ONLY <1>3, <1>4, <1>5, <1>6
<1> QED BY <1>1, <1>3, <1>4, <1>7, <1>8, PositionFacts

\* The chain of a placed block holds its dominators.
LEMMA ChainFacts ==
  ASSUME Settling
  PROVE  /\ \A b \in Placed : /\ Chain(idom, b) = IF b = Entry THEN {Entry}
                                                  ELSE {b} \cup Chain(idom, idom[b])
                              /\ Chain(idom, b) \subseteq Placed
                              /\ \A c \in Chain(idom, b) : Position(c) <= Position(b)
                              /\ \A a \in BlockIds : Dom(a, b) => a \in Chain(idom, b)
         /\ \A b \in BlockIds : Chain(idom, b) \subseteq BlockIds
         /\ \A b \in BlockIds \ Placed : Chain(idom, b) = {b}
<1>1. Shape /\ Ordered /\ IdomInv
  BY DEF Settling
<1>2. /\ Entry \in BlockIds /\ NoBlock \notin BlockIds
      /\ \A e \in DominanceGraph : e.from \in BlockIds /\ e.to \in BlockIds
  BY <1>1, GraphFacts
<1>3. idom \in [BlockIds -> BlockIds \cup {NoBlock}]
  BY <1>1 DEF IdomInv
<1> DEFINE N == Len(order)
           size == [b \in BlockIds |-> IF b \in Placed THEN Position(b) ELSE 0]
<1>4. N \in Nat /\ size \in [BlockIds -> 0..N]
  BY PlacedFacts
<1>5. ASSUME NEW b \in BlockIds, idom[b] \notin {b, NoBlock}
      PROVE  size[idom[b]] < size[b]
  <2>1. b \in Placed /\ b # Entry
    BY <1>5, <1>1 DEF Placed, IdomInv
  <2>2. idom[b] \in Placed /\ Position(idom[b]) < Position(b)
    BY <2>1, PlacedFacts
  <2>3. idom[b] \in BlockIds
    BY <2>2, PlacedFacts
  <2> QED BY <2>1, <2>2, <2>3
<1>6. \A b \in BlockIds : /\ Chain(idom, b) = IF idom[b] \in {b, NoBlock} THEN {b}
                                              ELSE {b} \cup Chain(idom, idom[b])
                          /\ Chain(idom, b) \subseteq BlockIds
  <2> HIDE DEF size, N
  <2> QED BY <1>2, <1>3, <1>4, <1>5, ChainUnfolds
<1>7. \A b \in Placed : Chain(idom, b) = IF b = Entry THEN {Entry}
                                         ELSE {b} \cup Chain(idom, idom[b])
  <2> SUFFICES ASSUME NEW b \in Placed
               PROVE  Chain(idom, b) = IF b = Entry THEN {Entry}
                                       ELSE {b} \cup Chain(idom, idom[b])
    OBVIOUS
  <2>1. b \in BlockIds /\ idom[b] # NoBlock /\ (idom[b] = b <=> b = Entry)
    BY PlacedFacts, <1>2
  <2> QED BY <2>1, <1>6
<1> DEFINE Good(b) == /\ Chain(idom, b) \subseteq Placed
                      /\ \A c \in Chain(idom, b) : Position(c) <= Position(b)
                      /\ \A a \in BlockIds : Dom(a, b) => a \in Chain(idom, b)
           P == {n \in 0..N : \A b \in Placed : Position(b) <= n => Good(b)}
<1>8. 0 \in P
  BY PlacedFacts, <1>4
<1>9. ASSUME NEW n \in 1..N, n - 1 \in P
      PROVE  n \in P
  <2> SUFFICES ASSUME NEW b \in Placed, Position(b) <= n PROVE Good(b)
    BY <1>4
  <2>1. CASE b = Entry
    <3>1. Chain(idom, b) = {Entry}
      BY <2>1, <1>7
    <3>2. \A a \in BlockIds : Dom(a, b) => a = Entry
      BY <1>2, <2>1, DominatorFacts DEF Dom
    <3>3. Position(b) \in Int
      BY PlacedFacts
    <3> QED BY <3>1, <3>2, <3>3, <2>1
  <2>2. CASE b # Entry
    <3> DEFINE u == idom[b]
    <3>1. u \in Placed /\ Position(u) < Position(b) /\ Position(u) \in Int /\ Position(b) \in Int
          /\ b \in Placed
      BY <2>2, PlacedFacts
    <3>2. Position(u) <= n - 1
      BY <3>1
    <3>3. Good(u)
      <4> HIDE DEF Good, u
      <4> QED BY <1>9, <3>1, <3>2
    <3>4. Chain(idom, b) = {b} \cup Chain(idom, u)
      BY <2>2, <1>7
    <3>5. \A a \in BlockIds : (Dom(a, b) /\ a # b) => Dom(a, u)
      BY <1>1, <2>2 DEF IdomInv
    <3>6. \A c \in Chain(idom, u) : Position(c) \in Int
      BY <3>3, PlacedFacts
    <3> HIDE DEF u
    <3>7. \A c \in Chain(idom, b) : Position(c) <= Position(b)
      BY ONLY <3>1, <3>3, <3>4, <3>6
    <3>8. \A a \in BlockIds : Dom(a, b) => a \in Chain(idom, b)
      BY ONLY <3>3, <3>4, <3>5
    <3> QED BY ONLY <3>1, <3>3, <3>4, <3>7, <3>8
  <2> QED BY <2>1, <2>2
<1>10. \A n \in 0..N : n \in P
  <2> HIDE DEF P, N
  <2> QED BY <1>4, <1>8, <1>9, UpTo
<1>11. \A b \in Placed : Good(b)
  <2>1. N \in P
    <3>1. N \in 0..N
      BY <1>4
    <3> HIDE DEF P, N
    <3> QED BY <3>1, <1>10
  <2>2. \A b \in Placed : Position(b) <= N
    BY PlacedFacts, <1>4
  <2> HIDE DEF Good, N
  <2> QED BY <2>1, <2>2
<1>12. \A b \in BlockIds \ Placed : Chain(idom, b) = {b}
  BY <1>6, PlacedFacts
<1> QED BY <1>6, <1>7, <1>11, <1>12

\* What two placed blocks meet in.
Meets(b1, b2, z) ==
  /\ z \in Placed /\ Position(z) <= Position(b1) /\ Position(z) <= Position(b2)
  /\ \A a \in BlockIds : (Dom(a, b1) /\ Dom(a, b2)) => Dom(a, z)
  /\ Chain(idom, z) \subseteq Chain(idom, b1) \cap Chain(idom, b2)

LEMMA MeetsSelf ==
  ASSUME Settling, NEW b \in Placed
  PROVE  Meets(b, b, b)
BY PlacedFacts DEF Meets

LEMMA MeetsSwap ==
  ASSUME NEW b1, NEW b2, NEW z, Meets(b1, b2, z)
  PROVE  Meets(b2, b1, z)
BY DEF Meets

\* One finger goes up: the block it is on is not a dominator of the other.
LEMMA MeetsUp ==
  ASSUME Settling, NEW b1 \in Placed, NEW b2 \in Placed, Position(b1) > Position(b2),
         NEW z, Meets(idom[b1], b2, z)
  PROVE  Meets(b1, b2, z)
<1>1. /\ Position(b1) \in Int /\ Position(b2) \in Int /\ Position(b2) >= 1
      /\ Position(Entry) = 1
  BY PlacedFacts
<1>2. b1 # Entry
  BY <1>1
<1>3. /\ idom[b1] \in Placed /\ Position(idom[b1]) < Position(b1)
      /\ \A a \in BlockIds : (Dom(a, b1) /\ a # b1) => Dom(a, idom[b1])
  BY <1>2 DEF Settling, IdomInv
<1>4. Position(z) <= Position(b1)
  <2>1. z \in Placed /\ Position(z) <= Position(b2)
    BY DEF Meets
  <2>2. Position(z) \in Int
    BY <2>1, PlacedFacts
  <2> QED BY <2>1, <2>2, <1>1
<1>5. ASSUME NEW a \in BlockIds, Dom(a, b1), Dom(a, b2) PROVE Dom(a, z)
  <2>1. Position(a) <= Position(b2)
    BY <1>5, ChainFacts
  <2>2. a # b1
    BY <2>1, <1>1
  <2> QED BY <2>2, <1>3, <1>5 DEF Meets
<1>6. Chain(idom, idom[b1]) \subseteq Chain(idom, b1)
  BY <1>2, ChainFacts
<1> QED BY <1>4, <1>5, <1>6 DEF Meets

LEMMA IntersectFacts ==
  ASSUME Settling, NEW b1 \in Placed, NEW b2 \in Placed
  PROVE  Meets(b1, b2, Intersect(b1, b2))
<1> DEFINE D == Placed \X Placed
           N == 2 * Len(order)
           size == [p \in D |-> Position(p[1]) + Position(p[2])]
           last == {p \in D : p[1] = p[2]}
           base == [p \in D |-> p[1]]
           next == [p \in D |-> IF p[1] = p[2] THEN p
                                ELSE IF Position(p[1]) > Position(p[2]) THEN <<idom[p[1]], p[2]>>
                                ELSE <<p[1], idom[p[2]]>>]
           step == [p \in D |-> [b \in Placed |-> b]]
           Rec(f) == [p \in D |-> IF p[1] = p[2] THEN p[1]
                                  ELSE IF Position(p[1]) > Position(p[2]) THEN f[<<idom[p[1]], p[2]>>]
                                  ELSE f[<<p[1], idom[p[2]]>>]]
<1>1. /\ Len(order) \in Nat /\ Position(Entry) = 1
      /\ \A b \in Placed : Position(b) \in 1..Len(order) /\ idom[b] \in Placed
      /\ \A b \in Placed \ {Entry} : Position(idom[b]) < Position(b)
      /\ \A b, c \in Placed : Position(b) = Position(c) => b = c
  BY PlacedFacts
<1>2. ASSUME NEW p \in D
      PROVE  p[1] \in Placed /\ p[2] \in Placed /\ p = <<p[1], p[2]>> /\ size[p] \in 0..N
  <2>1. p[1] \in Placed /\ p[2] \in Placed /\ p = <<p[1], p[2]>>
    OBVIOUS
  <2>2. Position(p[1]) + Position(p[2]) \in 0..N
    BY <2>1, <1>1
  <2> QED BY <2>1, <2>2
<1>3. ASSUME NEW p \in D, p \notin last
      PROVE  next[p] \in D /\ size[next[p]] < size[p] /\ next[p] \in D
  <2> DEFINE x == p[1]
             y == p[2]
  <2>1. x \in Placed /\ y \in Placed /\ x # y
    BY <1>2, <1>3
  <2>2. Position(x) \in Int /\ Position(y) \in Int /\ Position(x) # Position(y)
        /\ Position(x) >= 1 /\ Position(y) >= 1 /\ size[p] = Position(x) + Position(y)
    BY <2>1, <1>1
  <2>3. CASE Position(x) > Position(y)
    <3>1. x # Entry
      BY <2>2, <2>3, <1>1
    <3>2. idom[x] \in Placed /\ Position(idom[x]) < Position(x) /\ Position(idom[x]) \in Int
      BY <3>1, <2>1, <1>1
    <3>3. next[p] = <<idom[x], y>>
      BY <2>1, <2>3
    <3>4. next[p] \in D /\ size[next[p]] = Position(idom[x]) + Position(y)
      BY <3>2, <3>3, <2>1
    <3> HIDE DEF D, next, size, x, y
    <3> QED BY <3>2, <3>4, <2>2
  <2>4. CASE ~(Position(x) > Position(y))
    <3>1. y # Entry
      BY <2>2, <2>4, <1>1
    <3>2. idom[y] \in Placed /\ Position(idom[y]) < Position(y) /\ Position(idom[y]) \in Int
      BY <3>1, <2>1, <1>1
    <3>3. next[p] = <<x, idom[y]>>
      BY <2>1, <2>4
    <3>4. next[p] \in D /\ size[next[p]] = Position(x) + Position(idom[y])
      BY <3>2, <3>3, <2>1
    <3> HIDE DEF D, next, size, x, y
    <3> QED BY <3>2, <3>4, <2>2
  <2> QED BY <2>3, <2>4
<1>4. N \in Nat /\ size \in [D -> 0..N]
  BY <1>1, <1>2
<1>5. base \in [D -> Placed] /\ step \in [D -> [Placed -> Placed]]
  BY <1>2
<1>6. next \in [D -> D]
  <2>1. \A p \in last : next[p] = p
    OBVIOUS
  <2>2. \A p \in D : next[p] \in D
    <3> HIDE DEF next
    <3> QED BY <2>1, <1>3
  <2> QED BY <2>2
<1>7. Descends(D, Placed, N, size, last, base, next, step)
  <2>1. \A p \in D \ last : size[next[p]] < size[p]
    BY <1>3
  <2> HIDE DEF D, N, size, last, base, next, step
  <2> QED BY <2>1, <1>4, <1>5, <1>6 DEF Descends
<1>8. PICK f : Follows(f, D, Placed, last, base, next, step)
  <2> HIDE DEF D, N, size, last, base, next, step
  <2> QED BY ONLY <1>7, DescentExists
<1>9. f = Rec(f)
  <2>1. f \in [D -> Placed]
    BY <1>8 DEF Follows
  <2>2. ASSUME NEW p \in D
        PROVE  f[p] = IF p[1] = p[2] THEN p[1]
                      ELSE IF Position(p[1]) > Position(p[2]) THEN f[<<idom[p[1]], p[2]>>]
                      ELSE f[<<p[1], idom[p[2]]>>]
    <3>1. CASE p \in last
      <4>1. f[p] = base[p]
        BY <3>1, <1>8 DEF Follows
      <4> QED BY <3>1, <4>1
    <3>2. CASE p \notin last
      <4>1. f[p] = step[p][f[next[p]]]
        BY <3>2, <1>8 DEF Follows
      <4>2. f[next[p]] \in Placed
        <5> HIDE DEF D, last, next
        <5> QED BY <2>1, <1>3, <3>2
      <4>3. f[p] = f[next[p]]
        <5> HIDE DEF next
        <5> QED BY <4>1, <4>2
      <4> QED BY <3>2, <4>3
    <3> QED BY <3>1, <3>2
  <2>3. f = [p \in D |-> f[p]]
    BY <2>1
  <2> HIDE DEF D, last, base, next, step
  <2> QED BY <2>2, <2>3
<1> DEFINE g == CHOOSE g : g = Rec(g)
<1>10. g = Rec(g)
  <2> HIDE DEF D
  <2> QED BY <1>9
<1>11. Intersect(b1, b2) = g[<<b1, b2>>]
  BY DEF Intersect
<1>12. ASSUME NEW x \in Placed, NEW y \in Placed
       PROVE  g[<<x, y>>] = IF x = y THEN x
                            ELSE IF Position(x) > Position(y) THEN g[<<idom[x], y>>]
                            ELSE g[<<x, idom[y]>>]
  <2> DEFINE p == <<x, y>>
  <2>1. p \in D /\ p[1] = x /\ p[2] = y
    OBVIOUS
  <2> HIDE DEF p, D, g
  <2>2. g[p] = Rec(g)[p]
    BY <1>10
  <2>3. Rec(g)[p] = IF p[1] = p[2] THEN p[1]
                    ELSE IF Position(p[1]) > Position(p[2]) THEN g[<<idom[p[1]], p[2]>>]
                    ELSE g[<<p[1], idom[p[2]]>>]
    BY <2>1
  <2> QED BY <2>1, <2>2, <2>3 DEF p
<1> HIDE DEF g, D, size, last, base, next, step, Rec
<1> DEFINE P == {n \in 0..N : \A x, y \in Placed :
                   Position(x) + Position(y) <= n => Meets(x, y, g[<<x, y>>])}
<1>13. 0 \in P
  <2>1. \A x, y \in Placed : ~(Position(x) + Position(y) <= 0)
    <3> SUFFICES ASSUME NEW x \in Placed, NEW y \in Placed
                 PROVE  ~(Position(x) + Position(y) <= 0)
      OBVIOUS
    <3>1. Position(x) \in 1..Len(order) /\ Position(y) \in 1..Len(order)
      BY <1>1
    <3> QED BY <3>1, <1>1
  <2> QED BY <2>1, <1>4
<1>14. ASSUME NEW n \in 1..N, n - 1 \in P
       PROVE  n \in P
  <2> SUFFICES ASSUME NEW x \in Placed, NEW y \in Placed, Position(x) + Position(y) <= n
               PROVE  Meets(x, y, g[<<x, y>>])
    BY <1>4
  <2>1. /\ Position(x) \in Int /\ Position(y) \in Int /\ Position(x) >= 1 /\ Position(y) >= 1
        /\ n \in Int /\ (x # y => Position(x) # Position(y))
    BY <1>1, <1>4
  <2>2. CASE x = y
    <3>1. g[<<x, y>>] = x
      BY <2>2, <1>12
    <3> QED BY <2>2, <3>1, MeetsSelf
  <2>3. CASE x # y /\ Position(x) > Position(y)
    <3>1. x # Entry
      BY <2>1, <2>3, <1>1
    <3>2. idom[x] \in Placed /\ Position(idom[x]) < Position(x) /\ Position(idom[x]) \in Int
      BY <3>1, <1>1
    <3>3. Position(idom[x]) + Position(y) <= n - 1
      BY <3>2, <2>1
    <3>4. Meets(idom[x], y, g[<<idom[x], y>>])
      BY <1>14, <3>2, <3>3
    <3>5. g[<<x, y>>] = g[<<idom[x], y>>]
      BY <2>3, <1>12
    <3> QED BY <2>3, <3>4, <3>5, MeetsUp
  <2>4. CASE x # y /\ ~(Position(x) > Position(y))
    <3>1. y # Entry /\ Position(y) > Position(x)
      BY <2>1, <2>4, <1>1
    <3>2. idom[y] \in Placed /\ Position(idom[y]) < Position(y) /\ Position(idom[y]) \in Int
      BY <3>1, <1>1
    <3>3. Position(x) + Position(idom[y]) <= n - 1
      BY <3>2, <2>1
    <3>4. Meets(x, idom[y], g[<<x, idom[y]>>])
      BY <1>14, <3>2, <3>3
    <3>5. g[<<x, y>>] = g[<<x, idom[y]>>]
      BY <2>4, <1>12
    <3>6. Meets(y, x, g[<<x, idom[y]>>])
      BY <3>1, <3>4, MeetsSwap, MeetsUp
    <3> QED BY <3>5, <3>6, MeetsSwap
  <2> QED BY <2>2, <2>3, <2>4
<1>15. \A n \in 0..N : n \in P
  <2> HIDE DEF P, N
  <2> QED BY <1>4, <1>13, <1>14, UpTo
<1>16. N \in 0..N /\ Position(b1) + Position(b2) <= N
  <2>1. Position(b1) \in 1..Len(order) /\ Position(b2) \in 1..Len(order)
    BY <1>1
  <2> QED BY <2>1, <1>1
<1>17. Meets(b1, b2, g[<<b1, b2>>])
  <2> HIDE DEF N
  <2> QED BY <1>15, <1>16
<1> QED BY <1>11, <1>17

\* The edges, up to the n-th, that come to b from a block with a dominator.
Into(b, n) == {i \in 1..n : edges[i].to = b /\ edges[i].from \in Placed}

\* What they agree on.
Agrees(b, n, z) ==
  /\ z \in Placed \cup {NoBlock}
  /\ z = NoBlock <=> Into(b, n) = {}
  /\ z # NoBlock =>
       /\ \A i \in Into(b, n) : /\ Position(z) <= Position(edges[i].from)
                                /\ Chain(idom, z) \subseteq Chain(idom, edges[i].from)
       /\ \A a \in BlockIds : (\A i \in Into(b, n) : Dom(a, edges[i].from)) => Dom(a, z)

LEMMA AgreesOn ==
  ASSUME Settling, NEW b, NEW n \in Nat \ {0}, NEW z, Agrees(b, n - 1, z)
  PROVE  LET from == edges[n].from
             here == edges[n].to = b /\ from \in Placed
         IN  Agrees(b, n, IF ~here THEN z ELSE IF z = NoBlock THEN from ELSE Intersect(from, z))
<1> DEFINE from == edges[n].from
           here == edges[n].to = b /\ from \in Placed
<1>1. /\ Into(b, n) = IF here THEN Into(b, n - 1) \cup {n} ELSE Into(b, n - 1)
  <2>1. \A i \in 1..n : i \in 1..(n - 1) \/ i = n
    OBVIOUS
  <2>2. n \in 1..n /\ \A i \in 1..(n - 1) : i \in 1..n
    OBVIOUS
  <2> QED BY <2>1, <2>2 DEF Into
<1>2. NoBlock \notin Placed
  BY PlacedFacts, GraphFacts DEF Settling
<1> HIDE DEF from, here
<1>3. CASE ~here
  BY <1>1, <1>3 DEF Agrees, from, here
<1>4. CASE here /\ z = NoBlock
  <2>1. Into(b, n) = {n}
    BY <1>1, <1>4 DEF Agrees
  <2>2. from \in Placed /\ from # NoBlock /\ Position(from) \in Int
    BY <1>2, <1>4, PlacedFacts DEF here
  <2>3. Position(from) <= Position(from)
    BY <2>2
  <2>4. Agrees(b, n, from)
    BY <2>1, <2>2, <2>3 DEF Agrees, from
  <2> QED BY <1>4, <2>4 DEF here, from
<1>5. CASE here /\ z # NoBlock
  <2> DEFINE w == Intersect(from, z)
  <2>1. from \in Placed /\ z \in Placed
    BY <1>5 DEF here, Agrees
  <2>2. Meets(from, z, w)
    BY <2>1, IntersectFacts
  <2> HIDE DEF w
  <2>3. w \in Placed /\ w # NoBlock /\ Position(w) \in Int /\ Position(z) \in Int
    BY <2>1, <2>2, <1>2, PlacedFacts DEF Meets
  <2>4. Into(b, n) = Into(b, n - 1) \cup {n}
    BY <1>1, <1>5
  <2>5. ASSUME NEW i \in Into(b, n)
        PROVE  /\ Position(w) <= Position(edges[i].from)
               /\ Chain(idom, w) \subseteq Chain(idom, edges[i].from)
    <3>1. CASE i = n
      BY <3>1, <2>2 DEF Meets, from
    <3>2. CASE i # n
      <4>1. i \in Into(b, n - 1)
        BY <3>2, <2>4
      <4>2. /\ Position(z) <= Position(edges[i].from)
            /\ Chain(idom, z) \subseteq Chain(idom, edges[i].from)
        BY <4>1, <1>5 DEF Agrees
      <4>3. Position(edges[i].from) \in Int
        BY <4>1, PlacedFacts DEF Into
      <4>4. Position(w) <= Position(z) /\ Chain(idom, w) \subseteq Chain(idom, z)
        BY <2>2 DEF Meets
      <4> QED BY <4>2, <4>3, <4>4, <2>3
    <3> QED BY <3>1, <3>2
  <2>6. ASSUME NEW a \in BlockIds, \A i \in Into(b, n) : Dom(a, edges[i].from)
        PROVE  Dom(a, w)
    <3>1. Dom(a, from)
      BY <2>4, <2>6 DEF from
    <3>2. Dom(a, z)
      BY <2>4, <2>6, <1>5 DEF Agrees
    <3> QED BY <3>1, <3>2, <2>2 DEF Meets
  <2>7. Agrees(b, n, w)
    BY <2>3, <2>4, <2>5, <2>6 DEF Agrees
  <2> QED BY <2>7, <1>5 DEF here, from, w
<1> QED BY <1>3, <1>4, <1>5

LEMMA NewIdomFacts ==
  ASSUME Settling, NEW b
  PROVE  Agrees(b, Len(edges), NewIdom(b))
<1> DEFINE N == Len(edges)
           S == Placed \cup {NoBlock}
           zero == NoBlock
           Value(n, z) == IF edges[n].to # b \/ edges[n].from \notin Placed THEN z
                          ELSE IF z = NoBlock THEN edges[n].from
                          ELSE Intersect(edges[n].from, z)
           step == [n \in 1..N |-> [z \in S |-> Value(n, z)]]
           Rec(f) == [n \in 0..N |-> IF n = 0 THEN NoBlock
                        ELSE IF edges[n].to # b \/ edges[n].from \notin Placed THEN f[n - 1]
                        ELSE IF f[n - 1] = NoBlock THEN edges[n].from
                        ELSE Intersect(edges[n].from, f[n - 1])]
<1>1. N \in Nat
  BY DEF Settling, Shape
<1>2. ASSUME NEW n \in 1..N, NEW z \in S PROVE Value(n, z) \in S
  <2>1. ASSUME NEW x \in Placed, NEW y \in Placed PROVE Intersect(x, y) \in Placed
    BY IntersectFacts DEF Meets
  <2> QED BY <2>1
<1> HIDE DEF Value
<1>3. PICK f : Unfolds(f, S, zero, N, step)
  <2>1. step \in [1..N -> [S -> S]]
    BY <1>2
  <2>2. Recurses(S, zero, N, step)
    BY <1>1, <2>1 DEF Recurses
  <2> HIDE DEF S, N, step, zero
  <2> QED BY ONLY <2>2, RecursionDefines
<1>4. f \in [0..N -> S] /\ f[0] = NoBlock /\ \A n \in 1..N : f[n] = Value(n, f[n - 1])
  <2>1. f \in [0..N -> S] /\ f[0] = NoBlock /\ \A n \in 1..N : f[n] = step[n][f[n - 1]]
    BY <1>3 DEF Unfolds
  <2>2. ASSUME NEW n \in 1..N PROVE f[n] = Value(n, f[n - 1])
    <3>1. n - 1 \in 0..N
      BY <1>1
    <3>2. f[n - 1] \in S /\ f[n] = step[n][f[n - 1]]
      <4> HIDE DEF S, N, step
      <4> QED BY <3>1, <2>1
    <3> HIDE DEF S
    <3> QED BY <3>2
  <2> HIDE DEF step
  <2> QED BY <2>1, <2>2
<1> HIDE DEF step
<1>5. f = Rec(f)
  <2>1. \A n \in 0..N : n = 0 \/ n \in 1..N
    BY <1>1
  <2>2. ASSUME NEW n \in 0..N PROVE f[n] = Rec(f)[n]
    BY <2>1, <1>4 DEF Value
  <2>3. f = [n \in 0..N |-> f[n]]
    <3> HIDE DEF N, S
    <3> QED BY <1>4
  <2> HIDE DEF N
  <2> QED BY <2>2, <2>3
<1> DEFINE g == CHOOSE g : g = Rec(g)
<1>6. g = Rec(g)
  <2> HIDE DEF N
  <2> QED BY <1>5
<1>7. NewIdom(b) = g[N]
  BY DEF NewIdom
<1>8. g[0] = NoBlock /\ \A n \in 1..N : g[n] = Value(n, g[n - 1])
  <2> HIDE DEF g
  <2>1. \A n \in 0..N : g[n] = Rec(g)[n]
    BY <1>6
  <2>2. 0 \in 0..N /\ \A n \in 1..N : n \in 0..N /\ n # 0
    BY <1>1
  <2> HIDE DEF N
  <2> QED BY <2>1, <2>2 DEF Value
<1> HIDE DEF g, Rec
<1> DEFINE P == {n \in 0..N : Agrees(b, n, g[n])}
<1>9. 0 \in P
  <2>1. Into(b, 0) = {}
    BY DEF Into
  <2> QED BY <2>1, <1>1, <1>8 DEF Agrees
<1>10. ASSUME NEW n \in 1..N, n - 1 \in P
       PROVE  n \in P
  <2>1. n \in Nat \ {0} /\ n \in 0..N
    BY <1>1
  <2>2. Agrees(b, n - 1, g[n - 1])
    BY <1>10
  <2>3. Agrees(b, n, Value(n, g[n - 1]))
    BY <2>1, <2>2, AgreesOn DEF Value
  <2> QED BY <2>1, <2>3, <1>8
<1>11. \A n \in 0..N : n \in P
  <2> HIDE DEF P, N
  <2> QED BY <1>1, <1>9, <1>10, UpTo
<1>12. N \in 0..N
  BY <1>1
<1> HIDE DEF N
<1>13. Agrees(b, N, g[N])
  BY <1>11, <1>12
<1> QED BY <1>7, <1>13 DEF N

\* A round so far: what it has visited has a dominator, and where nothing has
\* changed what the edges agree on.
Rounds ==
  /\ ri \in 1..(Len(order) + 1) /\ changed \in BOOLEAN
  /\ \A j \in 1..(ri - 1) :
       /\ order[j] \in Placed
       /\ (~changed /\ order[j] # Entry) => Agrees(order[j], Len(edges), idom[order[j]])

Exact ==
  \A b \in BlockIds :
    IF b \in Reached THEN \A a \in BlockIds : IsAbove(a, b) <=> Dom(a, b)
    ELSE idom[b] = NoBlock

DominatorInv ==
  /\ stage \notin {"none", "wired", "order"} => IdomInv
  /\ stage = "dominance" => Rounds
  /\ stage \notin {"none", "wired", "order", "dominance"} => Exact

LEMMA IdomKept ==
  ASSUME idom' = idom, order' = order, BlockIds' = BlockIds, DominanceGraph' = DominanceGraph
  PROVE  /\ IdomInv' = IdomInv /\ Exact' = Exact /\ Placed' = Placed
         /\ \A b : Position(b)' = Position(b)
         /\ edges' = edges => \A b, n, z : Agrees(b, n, z)' = Agrees(b, n, z)
<1>1. Placed' = Placed /\ Reached' = Reached
  BY DEF Placed, Reached
<1>2. \A b : Position(b)' = Position(b)
  BY DEF Position
<1>3. \A a, b : Dom(a, b)' = Dom(a, b)
  BY DEF Dom
<1>4. \A a, b : IsAbove(a, b)' = IsAbove(a, b)
  BY DEF IsAbove
<1>5. IdomInv' = IdomInv
  BY <1>1, <1>2, <1>3 DEF IdomInv
<1>6. Exact' = Exact
  BY <1>1, <1>3, <1>4 DEF Exact
<1>7. ASSUME edges' = edges, NEW b, NEW n, NEW z
      PROVE  Agrees(b, n, z)' = Agrees(b, n, z)
  <2>1. Into(b, n)' = Into(b, n)
    BY <1>1, <1>7 DEF Into
  <2> QED BY <1>1, <1>2, <1>3, <1>7, <2>1 DEF Agrees
<1> QED BY <1>1, <1>2, <1>5, <1>6, <1>7

LEMMA RoundsStart ==
  ASSUME Shape, Ordered, StartDominance
  PROVE  IdomInv' /\ Rounds'
<1>1. Ordered' /\ Shape' /\ BlockIds' = BlockIds /\ Reached' = Reached
  BY GraphKept, OrderKept DEF StartDominance
<1>2. Entry \in BlockIds /\ NoBlock \notin BlockIds /\ Entry \in Reached
  BY GraphFacts, PositionFacts
<1>3. idom' = [b \in BlockIds |-> IF b = Entry THEN Entry ELSE NoBlock]
  BY DEF StartDominance
<1>4. Placed' = {Entry}
  BY <1>1, <1>2, <1>3 DEF Placed
<1>5. IdomInv'
  BY <1>1, <1>2, <1>3, <1>4 DEF IdomInv
<1>6. Rounds'
  <2>1. Len(order') \in Nat
    BY <1>1 DEF Ordered
  <2>2. ri' = 1 /\ changed' = FALSE
    BY DEF StartDominance
  <2>3. \A j \in 1..(ri' - 1) : FALSE
    BY <2>2
  <2>4. ri' \in 1..(Len(order') + 1)
    BY <2>1, <2>2
  <2> QED BY <2>2, <2>3, <2>4 DEF Rounds
<1> QED BY <1>5, <1>6

\* A visited block has an edge from one visited before.
LEMMA ComesFromPlaced ==
  ASSUME Settling, NoCases, NEW j \in 1..Len(order), order[j] # Entry,
         \A i \in 1..(j - 1) : order[i] \in Placed
  PROVE  \E k \in Into(order[j], Len(edges)), i \in 1..(j - 1) : edges[k].from = order[i]
<1>1. j \in 2..Len(order)
  <2>1. order[1] = Entry
    BY DEF Settling, Ordered
  <2> QED BY <2>1
<1>2. PICK e \in DominanceGraph, i \in 1..(j - 1) : e.to = order[j] /\ e.from = order[i]
  BY <1>1 DEF Settling, Ordered
<1>3. PICK k \in DOMAIN edges : e = edges[k]
  BY <1>2 DEF DominanceGraph, Arrows
<1>4. DOMAIN edges = 1..Len(edges)
  BY DEF Settling, Shape
<1> QED BY <1>2, <1>3, <1>4 DEF Into

LEMMA Visits ==
  ASSUME Settling, NoCases, Rounds, VisitBlock
  PROVE  IdomInv' /\ Rounds'
<1> DEFINE b == order[ri]
           z == NewIdom(b)
           n == Len(order)
<1>1. /\ Shape /\ Ordered /\ IdomInv
      /\ ri \in 1..n /\ ri' = ri + 1 /\ n \in Nat /\ order' = order /\ edges' = edges
      /\ BlockIds' = BlockIds /\ DominanceGraph' = DominanceGraph /\ Reached' = Reached
  <2>1. Shape /\ Ordered /\ IdomInv
    BY DEF Settling
  <2>2. n \in Nat
    BY <2>1, PositionFacts
  <2>3. /\ ri \in 1..n /\ ri' = ri + 1 /\ order' = order /\ edges' = edges
    BY <2>2 DEF VisitBlock, Rounds
  <2> QED BY <2>1, <2>2, <2>3, GraphKept, OrderKept DEF VisitBlock
<1>2. b \in Reached /\ Position(b) = ri /\ b \in BlockIds
  <2>1. b \in Reached /\ Position(b) = ri
    BY <1>1, PositionFacts
  <2> QED BY <2>1 DEF Reached, Reachable, Without
<1>3. Agrees(b, Len(edges), z)
  BY NewIdomFacts
<1> HIDE DEF z, b, n
<1>4. ASSUME b # Entry
      PROVE  z \in Placed /\ z # NoBlock /\ Position(z) < ri
  <2>1. PICK k \in Into(b, Len(edges)), i \in 1..(ri - 1) : edges[k].from = order[i]
    BY <1>1, <1>4, ComesFromPlaced DEF Rounds, b, n
  <2>2. z # NoBlock /\ z \in Placed
    BY <2>1, <1>3 DEF Agrees
  <2>3. Position(z) <= Position(order[i])
    BY <2>1, <2>2, <1>3 DEF Agrees
  <2>4. Position(order[i]) = i
    <3>1. i \in 1..Len(order)
      BY <1>1 DEF n
    <3> QED BY <3>1, <1>1, PositionFacts
  <2>5. Position(z) \in Int
    BY <2>2, PlacedFacts
  <2>6. i \in Int /\ ri \in Int /\ i < ri
    BY <1>1
  <2> QED BY <2>2, <2>3, <2>4, <2>5, <2>6
<1>5. ASSUME NEW a \in BlockIds, Dom(a, b), a # b, b # Entry
      PROVE  Dom(a, z)
  <2>1. ASSUME NEW k \in Into(b, Len(edges))
        PROVE  Dom(a, edges[k].from)
    <3>1. k \in DOMAIN edges /\ edges[k].to = b /\ edges[k].from \in Placed
      BY DEF Into, Settling, Shape
    <3>2. edges[k] \in DominanceGraph
      BY <3>1, <1>2, GraphFacts, <1>1 DEF DominanceGraph, Arrows, NoCases
    <3>3. edges[k].from \in Reached
      BY <3>1, PlacedFacts
    <3> QED BY <3>1, <3>2, <3>3, <1>1, <1>5, GraphFacts, DominatorFacts DEF Dom, Reached
  <2> QED BY <2>1, <1>4, <1>3, <1>5 DEF Agrees
<1> DEFINE Changes == b # Entry /\ z \notin {NoBlock, idom[b]}
<1>6. IF Changes THEN idom' = [idom EXCEPT ![b] = z] /\ changed' = TRUE
      ELSE idom' = idom /\ changed' = changed
  BY DEF VisitBlock, z, b
<1>7. \A j \in 1..ri : j \in 1..(ri - 1) \/ j = ri
  BY <1>1
<1>8. ri' \in 1..(n + 1) /\ \A j \in 1..(ri' - 1) : j \in 1..ri
  BY <1>1
<1>9. CASE Changes
  <2>1. idom' = [idom EXCEPT ![b] = z] /\ changed' = TRUE /\ z \in Placed /\ b # Entry
    BY <1>4, <1>6, <1>9
  <2>2. /\ idom' \in [BlockIds -> BlockIds \cup {NoBlock}]
        /\ idom'[b] = z /\ \A x \in BlockIds : x # b => idom'[x] = idom[x]
    <3>1. z \in BlockIds
      BY <2>1, PlacedFacts
    <3>2. idom \in [BlockIds -> BlockIds \cup {NoBlock}]
      BY <1>1 DEF IdomInv
    <3> QED BY <3>1, <3>2, <2>1, <1>2
  <2>3. Placed' = Placed \cup {b}
    BY <2>1, <2>2, <1>1, <1>2, <1>4, <1>9 DEF Placed
  <2>4. /\ \A x : Position(x)' = Position(x)
        /\ \A a, x : Dom(a, x)' = Dom(a, x)
    BY <1>1 DEF Position, Dom
  <2>5. ASSUME NEW x \in Placed' \ {Entry}
        PROVE  /\ idom'[x] \in Placed' /\ Position(idom'[x]) < Position(x)
               /\ \A a \in BlockIds : (Dom(a, x) /\ a # x) => Dom(a, idom'[x])
    <3>1. CASE x = b
      BY <3>1, <2>1, <2>2, <2>3, <1>2, <1>4, <1>5
    <3>2. CASE x # b
      <4>1. x \in Placed \ {Entry} /\ x \in BlockIds
        BY <3>2, <2>3, PlacedFacts
      <4>2. /\ idom[x] \in Placed /\ Position(idom[x]) < Position(x)
            /\ \A a \in BlockIds : (Dom(a, x) /\ a # x) => Dom(a, idom[x])
        BY <4>1, <1>1 DEF IdomInv
      <4> QED BY ONLY <4>1, <4>2, <3>2, <2>2, <2>3
    <3> QED BY <3>1, <3>2
  <2>6. idom'[Entry] = Entry /\ Placed' \subseteq Reached'
    <3>1. Entry \in BlockIds /\ idom[Entry] = Entry /\ Placed \subseteq Reached
      BY <1>1, PlacedFacts DEF IdomInv
    <3> QED BY <3>1, <2>1, <2>2, <2>3, <1>1, <1>2
  <2>7. IdomInv'
    BY <1>1, <2>2, <2>4, <2>5, <2>6 DEF IdomInv
  <2>8. \A j \in 1..(ri' - 1) : order'[j] \in Placed'
    BY <1>1, <1>7, <1>8, <2>3 DEF Rounds, b
  <2>9. Rounds'
    BY <2>1, <2>8, <1>1, <1>8 DEF Rounds, n
  <2> QED BY <2>7, <2>9
<1>10. CASE ~Changes
  <2>1. idom' = idom /\ changed' = changed
    BY <1>6, <1>10
  <2>2. /\ IdomInv' /\ Placed' = Placed
        /\ \A x, k, y : Agrees(x, k, y)' = Agrees(x, k, y)
    BY <2>1, <1>1, IdomKept
  <2>3. b \in Placed /\ (b # Entry => Agrees(b, Len(edges), idom[b]))
    <3>1. CASE b = Entry
      BY <3>1, PlacedFacts
    <3>2. CASE b # Entry
      <4>1. z = idom[b] /\ z # NoBlock
        BY <3>2, <1>4, <1>10
      <4> QED BY <4>1, <1>2, <1>3 DEF Placed
    <3> QED BY <3>1, <3>2
  <2>4. ASSUME NEW j \in 1..(ri' - 1)
        PROVE  /\ order'[j] \in Placed'
               /\ (~changed' /\ order'[j] # Entry) => Agrees(order[j], Len(edges), idom[order[j]])'
    <3>1. CASE j = ri
      BY <3>1, <2>1, <2>2, <2>3, <1>1 DEF b
    <3>2. CASE j \in 1..(ri - 1)
      BY <3>2, <2>1, <2>2, <1>1 DEF Rounds
    <3> QED BY <3>1, <3>2, <1>7, <1>8
  <2>5. Rounds'
    BY <2>1, <2>4, <1>1, <1>8 DEF Rounds, n
  <2> QED BY <2>2, <2>5
<1> QED BY <1>9, <1>10

\* When a round has changed nothing, the chains are the dominators.
LEMMA RoundsEnd ==
  ASSUME Settling, NoCases, Rounds, ri > Len(order), ~changed
  PROVE  Exact
<1>1. Shape /\ Ordered /\ IdomInv
  BY DEF Settling
<1>2. /\ Entry \in BlockIds /\ NoBlock \notin BlockIds /\ Reached \subseteq BlockIds
      /\ \A e \in DominanceGraph : e.from \in BlockIds /\ e.to \in BlockIds
  BY <1>1, GraphFacts DEF Reached, Reachable, Without
<1>3. ASSUME NEW b \in Reached
      PROVE  b \in Placed /\ (b # Entry => Agrees(b, Len(edges), idom[b]))
  <2>1. Position(b) \in 1..Len(order) /\ order[Position(b)] = b /\ Len(order) \in Nat
    BY <1>1, PositionFacts
  <2>2. Position(b) \in 1..(ri - 1)
    <3>1. ri \in Int
      BY <2>1 DEF Rounds
    <3> QED BY <3>1, <2>1
  <2> QED BY <2>1, <2>2 DEF Rounds
<1>4. Placed = Reached
  BY <1>1, <1>3 DEF IdomInv
<1>5. ASSUME NEW a \in BlockIds, NEW c \in Reached, a \in Chain(idom, c)
      PROVE  Dom(a, c)
  <2> DEFINE S == {x \in Reached : a \notin Chain(idom, x)}
  <2>1. Entry # a => Entry \in S
    BY <1>4, PlacedFacts, ChainFacts
  <2>2. ASSUME NEW e \in DominanceGraph, e.from \in S, e.to # a
        PROVE  e.to \in S
    <3> DEFINE p == e.from
               b == e.to
    <3>1. p \in Reached /\ b \in Reached /\ a \notin Chain(idom, p)
      BY <2>2, <1>2, DominatorFacts DEF Reached
    <3>2. CASE b = Entry
      <4>1. Chain(idom, b) = {Entry}
        BY <3>1, <3>2, <1>4, ChainFacts
      <4> QED BY <4>1, <3>1, <3>2, <2>2
    <3>3. CASE b # Entry
      <4>1. PICK k \in DOMAIN edges : e = edges[k]
        BY DEF DominanceGraph, Arrows
      <4>2. k \in Into(b, Len(edges))
        BY <4>1, <3>1, <1>1, <1>4 DEF Into, Shape
      <4>3. Agrees(b, Len(edges), idom[b]) /\ idom[b] # NoBlock
        BY <3>1, <3>3, <1>3 DEF Placed
      <4>4. Chain(idom, idom[b]) \subseteq Chain(idom, p)
        BY <4>1, <4>2, <4>3 DEF Agrees
      <4>5. Chain(idom, b) = {b} \cup Chain(idom, idom[b])
        BY <3>1, <3>3, <1>4, ChainFacts
      <4> QED BY <4>4, <4>5, <3>1, <2>2
    <3> QED BY <3>2, <3>3
  <2>3. S \in SUBSET BlockIds /\ ClosedWithout(S, DominanceGraph, a)
    BY <1>2, <2>1, <2>2 DEF ClosedWithout
  <2>4. c \notin S
    BY <1>5
  <2> HIDE DEF S
  <2>5. c \notin Without(BlockIds, DominanceGraph, a)
    BY <2>3, <2>4, WithoutLeast
  <2> QED BY <2>5 DEF Dom, Dominates, Reached
<1>6. \A a \in BlockIds, c \in Reached : Dom(a, c) => a \in Chain(idom, c)
  BY <1>4, ChainFacts
<1>7. \A b \in BlockIds : b \notin Reached => idom[b] = NoBlock
  BY <1>4 DEF Placed
<1> QED BY <1>5, <1>6, <1>7 DEF Exact, IsAbove

LEMMA DominatorStep ==
  ASSUME ShapeInv, OrderInv, DominatorInv, [SsaNext]_vars
  PROVE  DominatorInv'
<1> DEFINE Kept == /\ idom' = idom /\ order' = order /\ BlockIds' = BlockIds
                   /\ DominanceGraph' = DominanceGraph
<1>1. ASSUME Kept, stage \notin {"none", "wired", "order", "dominance"},
             stage' \notin {"none", "wired", "order", "dominance"}
      PROVE  DominatorInv'
  BY <1>1, IdomKept DEF DominatorInv
<1>2. ASSUME Kept, edges' = edges, ri' = ri, changed' = changed PROVE Rounds' = Rounds
  BY <1>2, IdomKept DEF Rounds
<1>3. CASE UNCHANGED vars
  <2>1. Kept /\ edges' = edges /\ ri' = ri /\ changed' = changed /\ stage' = stage
    BY <1>3, GraphKept DEF vars, flowVars
  <2> QED BY <2>1, <1>2, IdomKept DEF DominatorInv
<1>4. CASE LaterStep
  BY <1>4, <1>1, GraphKept DEF LaterStep, Late
<1>5. CASE SplitAndWire
  BY <1>5 DEF SplitAndWire, DominatorInv
<1>6. CASE StartOrder
  BY <1>6 DEF StartOrder, DominatorInv
<1>7. CASE Descend \/ Leave
  BY <1>7 DEF Descend, Leave, DominatorInv
<1>8. CASE StartDominance
  <2>1. IdomInv' /\ Rounds'
    BY <1>8, SearchEnds, RoundsStart DEF StartDominance, ShapeInv, OrderInv
  <2> QED BY <1>8, <2>1 DEF DominatorInv, StartDominance
<1>9. CASE VisitBlock
  <2>1. stage = "dominance" /\ Settling /\ NoCases /\ Rounds
    BY <1>9 DEF VisitBlock, ShapeInv, OrderInv, DominatorInv, Settling, Early
  <2>2. IdomInv' /\ Rounds'
    BY <2>1, <1>9, Visits
  <2> QED BY <1>9, <2>2, <2>1 DEF DominatorInv, VisitBlock
<1>10. CASE EndRound
  <2>1. stage = "dominance" /\ Settling /\ NoCases /\ Rounds /\ ri > Len(order) /\ Kept
        /\ Ordered
    BY <1>10, GraphKept DEF EndRound, ShapeInv, OrderInv, DominatorInv, Settling, Early
  <2>2. IdomInv'
    BY <2>1, IdomKept DEF Settling
  <2>3. CASE changed
    <3>1. ri' = 1 /\ changed' = FALSE /\ stage' = "dominance"
      BY <1>10, <2>1, <2>3 DEF EndRound, AgainIf
    <3>2. \A j \in 1..(ri' - 1) : FALSE
      BY <3>1
    <3>3. ri' \in 1..(Len(order') + 1)
      BY <2>1, <3>1, PositionFacts DEF Settling
    <3>4. Rounds'
      BY <3>1, <3>2, <3>3 DEF Rounds
    <3> QED BY <2>2, <3>1, <3>4 DEF DominatorInv
  <2>4. CASE ~changed
    <3>1. stage' = "dominated"
      BY <1>10, <2>4 DEF EndRound, AgainIf
    <3>2. Exact'
      BY <2>1, <2>4, RoundsEnd, IdomKept
    <3> QED BY <2>2, <3>1, <3>2 DEF DominatorInv
  <2> QED BY <2>3, <2>4
<1>11. CASE ClassifyLoops \/ ClassifyRegions
  BY <1>11, <1>1, GraphKept DEF ClassifyLoops, ClassifyRegions
<1>12. CASE RecoverSwitches
  <2>1. BlockIds' = BlockIds /\ DominanceGraph' = DominanceGraph
    BY <1>12, SwitchFacts DEF RecoverSwitches, ShapeInv, Early
  <2> QED BY <2>1, <1>12, <1>1 DEF RecoverSwitches
<1>13. CASE FlowNext
  BY <1>13, <1>5, <1>6, <1>7, <1>8, <1>9, <1>10, <1>11, <1>12 DEF FlowNext
<1> QED BY <1>3, <1>4, <1>13, LaterPasses

FlowInv == ShapeInv /\ OrderInv /\ DominatorInv

\* The passes keep the graph, the order and the dominators right, however many
\* rounds the dominators take and whatever comes after them.
THEOREM FlowInvariant == SsaSpec => []FlowInv
<1>1. SsaInit => FlowInv
  BY DEF SsaInit, FlowInit, FlowInv, ShapeInv, OrderInv, DominatorInv, Early, Late
<1>2. FlowInv /\ [SsaNext]_vars => FlowInv'
  BY ShapeStep, OrderStep, DominatorStep DEF FlowInv
<1> QED BY <1>1, <1>2, PTL DEF SsaSpec

\* cfg_compute_dominance: once the rounds have settled, the chain of a block
\* that can be reached holds exactly the blocks no path from the entry avoids,
\* for every function.
THEOREM DominatorsAreExact == SsaSpec => []DominanceExact
<1>1. FlowInv => DominanceExact
  BY DEF FlowInv, DominatorInv, Exact, DominanceExact, Reached, Dom
<1> QED BY <1>1, FlowInvariant, PTL

-----------------------------------------------------------------------------
(* Regions *)

\* detect_irreducible: dead code or the arm of a switch raises the flag, a
\* branch of live code never does.
THEOREM FlagIsDeadCode == SsaSpec => []FlagMeansDeadCode
<1>1. SsaInit => FlagMeansDeadCode
  BY DEF SsaInit, FlowInit, FlagMeansDeadCode
<1>2. ASSUME FlowInv, FlagMeansDeadCode, [SsaNext]_vars
      PROVE  FlagMeansDeadCode'
  <2>1. CASE UNCHANGED vars
    <3>1. BlockIds' = BlockIds /\ DominanceGraph' = DominanceGraph
      BY <2>1, GraphKept DEF vars, flowVars
    <3> QED BY <1>2, <2>1, <3>1 DEF FlagMeansDeadCode, Arrows, vars, flowVars
  <2>2. CASE ClassifyRegions
    <3> SUFFICES ASSUME Irreducible
                 PROVE  (\E e \in Arrows(edges) : e.from \notin Reached \/ e.kind = "case")'
      BY <2>2 DEF FlagMeansDeadCode, ClassifyRegions, Reached
    <3>1. stage = "switches" /\ edges' = edges /\ Reached' = Reached
      BY <2>2, GraphKept DEF ClassifyRegions, Reached
    <3>2. Shape /\ Settling /\ Exact
      BY <1>2, <3>1 DEF FlowInv, ShapeInv, OrderInv, DominatorInv, Settling
    <3>3. /\ \A e \in Arrows(edges) : e.from \in BlockIds /\ e.to \in BlockIds
          /\ Entry \in BlockIds /\ NoBlock \notin BlockIds
          /\ \A e \in DominanceGraph : e.from \in BlockIds /\ e.to \in BlockIds
      BY <3>2, GraphFacts DEF Arrows
    <3>4. PICK h \in loops.headers, e \in Arrows(edges) :
            e.to # h /\ IsAbove(h, e.to) /\ ~IsAbove(h, e.from)
      BY <3>3 DEF Irreducible, EntersLoopBody, IsAbove
    <3>5. h \in BlockIds
      BY <3>2, <3>3, <3>4, ChainFacts DEF IsAbove
    <3>6. ASSUME e.from \in Reached, e.kind # "case" PROVE FALSE
      <4>1. e \in DominanceGraph
        BY <3>6 DEF DominanceGraph
      <4>2. e.to \in Reached
        BY <4>1, <3>6, <3>3, DominatorFacts DEF Reached
      <4>3. Dom(h, e.to)
        BY <4>2, <3>2, <3>3, <3>4, <3>5 DEF Exact
      <4>4. Dom(h, e.from)
        BY <4>1, <4>3, <3>3, <3>4, <3>5, <3>6, DominatorFacts DEF Dom, Reached
      <4> QED BY <4>4, <3>2, <3>3, <3>4, <3>5, <3>6 DEF Exact
    <3> QED BY <3>1, <3>4, <3>6
  <2>3. CASE stage' # "flow"
    BY <2>3 DEF FlagMeansDeadCode
  <2>4. SsaNext => ClassifyRegions \/ stage' # "flow"
    BY DEF SsaNext, FlowNext, SplitAndWire, StartOrder, Descend, Leave, StartDominance,
           VisitBlock, EndRound, AgainIf, ClassifyLoops, RecoverSwitches, Summarise,
           SolveLiveness, PlacePhis, FoldPrologue, MapStackSlots, ReconstructCalls
  <2> QED BY <1>2, <2>1, <2>2, <2>3, <2>4
<1> QED BY <1>1, <1>2, FlowInvariant, PTL DEF SsaSpec

\* Where the edges with these indices lead.
Targets(indices) == Chosen([i \in DOMAIN edges |-> edges[i].to], indices)

LEMMA TargetsFacts ==
  ASSUME Shape, NEW indices \in SUBSET DOMAIN edges, \A i \in indices : edges[i].to # NoBlock
  PROVE  /\ Targets(indices) \in Seq(BlockIds)
         /\ Members(Targets(indices)) = {edges[i].to : i \in indices}
         /\ (\A i, j \in indices : edges[i].to = edges[j].to => i = j)
              => Distinct(Targets(indices))
         /\ \A b : indices \subseteq Forward(b) => Len(Targets(indices)) <= 2
<1> DEFINE list == [i \in DOMAIN edges |-> edges[i].to]
           t == Targets(indices)
           S == BlockIds \cup {NoBlock}
<1>1. DOMAIN edges = 1..Len(edges) /\ Len(edges) \in Nat
  BY DEF Shape
<1>2. list \in Seq(S) /\ Len(list) = Len(edges) /\ \A i \in DOMAIN edges : list[i] = edges[i].to
  <2>1. list \in [1..Len(edges) -> S]
    BY <1>1, GraphFacts
  <2>2. \A i \in DOMAIN edges : list[i] = edges[i].to
    OBVIOUS
  <2> HIDE DEF list, S
  <2> QED BY <1>1, <2>1, <2>2
<1> HIDE DEF list
<1>3. t \in Seq(S) /\ \E h : IsChoice(list, indices, t, h)
  BY <1>2, ChosenFacts DEF Targets, list
<1>4. PICK h : IsChoice(list, indices, t, h)
  BY <1>3
<1> HIDE DEF t, S
<1>5. Len(t) \in Nat /\ DOMAIN t = 1..Len(t)
  BY <1>3
<1>6. ASSUME NEW k \in 1..Len(t)
      PROVE  h[k] \in indices /\ t[k] = edges[h[k]].to /\ t[k] \in BlockIds
  <2>1. h[k] \in indices /\ t[k] = edges[h[k]].to
    BY <1>2, <1>4 DEF IsChoice
  <2> QED BY <2>1, GraphFacts
<1>7. \A i \in indices : \E k \in 1..Len(t) : h[k] = i
  BY <1>1, <1>2, <1>4 DEF IsChoice
<1>8. t \in Seq(BlockIds)
  <2>1. t = [k \in 1..Len(t) |-> t[k]]
    BY <1>3 DEF S
  <2>2. t \in [1..Len(t) -> BlockIds]
    BY <1>6, <2>1
  <2> QED BY <2>2, <1>5
<1>9. Members(t) = {edges[i].to : i \in indices}
  BY <1>6, <1>7 DEF Members
<1>10. \A j, k \in 1..Len(t) : j < k => h[j] < h[k]
  BY <1>4 DEF IsChoice
<1>11. ASSUME \A i, j \in indices : edges[i].to = edges[j].to => i = j
       PROVE  Distinct(t)
  <2> SUFFICES ASSUME NEW j \in 1..Len(t), NEW k \in 1..Len(t), t[j] = t[k]
               PROVE  j = k
    BY DEF Distinct
  <2>1. h[j] = h[k]
    BY <1>6, <1>11
  <2>2. h[j] \in Int
    BY <1>1, <1>6
  <2>3. ~(j < k) /\ ~(k < j)
    BY <2>1, <2>2, <1>10
  <2> QED BY <2>3, <1>5
<1>12. ASSUME NEW b, indices \subseteq Forward(b), ~(Len(t) <= 2) PROVE FALSE
  <2>1. 1 \in 1..Len(t) /\ 2 \in 1..Len(t) /\ 3 \in 1..Len(t)
    BY <1>5, <1>12
  <2>2. h[1] < h[2] /\ h[2] < h[3]
    BY <2>1, <1>10
  <2>3. \A k \in {1, 2, 3} : h[k] \in DOMAIN edges /\ edges[h[k]].from = b
                             /\ edges[h[k]].kind # "case"
    BY <2>1, <1>6, <1>12 DEF Forward, Successors
  <2> QED BY <2>2, <2>3 DEF Shape
<1> QED BY <1>8, <1>9, <1>11, <1>12 DEF t

LEMMA MembersFacts ==
  ASSUME NEW S, NEW s \in Seq(S), NEW t \in Seq(S)
  PROVE  /\ Members(s \o t) = Members(s) \cup Members(t)
         /\ s # <<>> => Members(s) = Members(Front(s)) \cup {Last(s)}
         /\ s # <<>> => Members(s) = {Head(s)} \cup Members(Tail(s))
         /\ Members(s) \subseteq S /\ (Members(s) = {} <=> s = <<>>)
<1> DEFINE m == Len(s)
           n == Len(t)
<1>1. m \in Nat /\ n \in Nat /\ \A k \in 1..m : s[k] \in S
  OBVIOUS
<1>2. Members(s \o t) = Members(s) \cup Members(t)
  <2> DEFINE u == s \o t
  <2>1. /\ Len(u) = m + n
        /\ \A i \in 1..(m + n) : u[i] = IF i <= m THEN s[i] ELSE t[i - m]
    BY ONLY s \in Seq(S), t \in Seq(S), ConcatProperties DEF u, m, n
  <2> HIDE DEF u, m, n
  <2>2. ASSUME NEW i \in 1..(m + n) PROVE u[i] \in Members(s) \cup Members(t)
    <3>1. i \in 1..m \/ i - m \in 1..n
      BY <1>1
    <3>2. CASE i \in 1..m
      BY <3>2, <2>1, <1>1 DEF Members, m
    <3>3. CASE ~(i <= m)
      <4>1. i - m \in 1..n
        BY <3>3, <1>1
      <4> QED BY <3>3, <4>1, <2>1 DEF Members, n
    <3> QED BY <3>2, <3>3, <1>1
  <2>3. ASSUME NEW i \in 1..m PROVE s[i] \in Members(u)
    <3>1. i \in 1..(m + n) /\ i <= m
      BY <1>1
    <3> QED BY <3>1, <2>1 DEF Members
  <2>4. ASSUME NEW i \in 1..n PROVE t[i] \in Members(u)
    <3> DEFINE j == m + i
    <3>1. j \in 1..(m + n) /\ ~(j <= m) /\ j - m = i
      BY <1>1
    <3> HIDE DEF j
    <3>2. u[j] = t[i]
      BY ONLY <3>1, <2>1
    <3> QED BY <3>1, <3>2, <2>1 DEF Members
  <2> QED BY <2>1, <2>2, <2>3, <2>4 DEF Members, u, m, n
<1>3. ASSUME s # <<>> PROVE Members(s) = Members(Front(s)) \cup {Last(s)}
  <2>1. /\ Len(Front(s)) = m - 1 /\ m > 0 /\ Last(s) = s[m]
        /\ \A k \in 1..(m - 1) : Front(s)[k] = s[k]
    BY ONLY <1>3, s \in Seq(S), FrontFacts DEF m
  <2>2. \A k \in 1..m : k \in 1..(m - 1) \/ k = m
    BY <1>1
  <2>3. m \in 1..m /\ \A k \in 1..(m - 1) : k \in 1..m
    BY <1>1, <2>1
  <2> HIDE DEF m
  <2>4. Members(Front(s)) = {s[k] : k \in 1..(m - 1)}
    BY <2>1 DEF Members
  <2>5. Members(s) = {s[k] : k \in 1..m}
    BY DEF Members, m
  <2> QED BY ONLY <2>1, <2>2, <2>3, <2>4, <2>5
<1>4. ASSUME s # <<>> PROVE Members(s) = {Head(s)} \cup Members(Tail(s))
  <2>1. /\ Len(Tail(s)) = m - 1 /\ m > 0 /\ Head(s) = s[1]
        /\ \A k \in 1..(m - 1) : Tail(s)[k] = s[k + 1]
    <3>1. m > 0 /\ Head(s) = s[1]
      BY <1>1, <1>4
    <3>2. Len(Tail(s)) = m - 1 /\ \A k \in 1..Len(Tail(s)) : Tail(s)[k] = s[k + 1]
      BY ONLY s \in Seq(S), <1>4, HeadTailProperties DEF m
    <3> QED BY ONLY <3>1, <3>2
  <2>2. 1 \in 1..m /\ \A k \in 1..(m - 1) : k + 1 \in 1..m
    BY <1>1, <2>1
  <2> HIDE DEF m
  <2>3. Members(Tail(s)) = {s[k + 1] : k \in 1..(m - 1)}
    BY <2>1 DEF Members
  <2>4. Members(s) = {s[k] : k \in 1..m}
    BY DEF Members, m
  <2>5. ASSUME NEW k \in 1..m, k # 1 PROVE s[k] \in Members(Tail(s))
    <3>1. k - 1 \in 1..(m - 1) /\ k - 1 + 1 = k
      BY <2>5, <1>1
    <3> QED BY <3>1, <2>3
  <2> QED BY ONLY <2>1, <2>2, <2>3, <2>4, <2>5
<1>5. Members(s) \subseteq S
  BY <1>1 DEF Members
<1>6. Members(s) = {} <=> s = <<>>
  <2>1. ASSUME s # <<>> PROVE Members(s) # {}
    <3>1. 1 \in 1..m
      BY <2>1
    <3> QED BY <3>1 DEF Members
  <2>2. Members(<<>>) = {}
    BY DEF Members
  <2> QED BY <2>1, <2>2
<1> QED BY <1>2, <1>3, <1>4, <1>5, <1>6

\* What can be gone on to from x is the least set that holds it.
LEMMA OnwardFacts ==
  ASSUME Shape, NEW x \in BlockIds
  PROVE  /\ x \in Onward(x) /\ Onward(x) \subseteq BlockIds
         /\ \A y \in Onward(x) : \A i \in Forward(y) : edges[i].to \in Onward(x)
         /\ \A S \in SUBSET BlockIds :
              (x \in S /\ \A y \in S : \A i \in Forward(y) : edges[i].to \in S)
                => Onward(x) \subseteq S
<1>1. \A y : \A i \in Forward(y) : i \in DOMAIN edges /\ edges[i].to \in BlockIds
  BY GraphFacts DEF Forward, Successors
<1>2. ASSUME NEW y \in Onward(x), NEW i \in Forward(y) PROVE edges[i].to \in Onward(x)
  BY <1>1 DEF Onward
<1> QED BY <1>2 DEF Onward

LEMMA BlocksCounted ==
  ASSUME Shape
  PROVE  /\ IsFiniteSet(BlockIds) /\ Cardinality(BlockIds) = Len(blocks)
         /\ \A M \in SUBSET BlockIds :
              /\ IsFiniteSet(M) /\ Cardinality(M) \in Nat /\ Cardinality(M) <= Len(blocks)
              /\ Cardinality(M) = Len(blocks) => M = BlockIds
              /\ \A b \in BlockIds \ M : Cardinality(M \cup {b}) = Cardinality(M) + 1
<1>1. Len(blocks) \in Nat /\ Len(blocks) > 0 /\ BlockIds = 1..Len(blocks)
  BY DEF Shape
<1>2. IsFiniteSet(BlockIds) /\ Cardinality(BlockIds) = Len(blocks)
  BY <1>1, FS_Interval
<1>3. ASSUME NEW M \in SUBSET BlockIds
      PROVE  /\ IsFiniteSet(M) /\ Cardinality(M) \in Nat /\ Cardinality(M) <= Len(blocks)
             /\ Cardinality(M) = Len(blocks) => M = BlockIds
             /\ \A b \in BlockIds \ M : Cardinality(M \cup {b}) = Cardinality(M) + 1
  <2>1. IsFiniteSet(M) /\ Cardinality(M) <= Len(blocks)
        /\ (Cardinality(M) = Len(blocks) => M = BlockIds)
    BY <1>2, FS_Subset
  <2>2. Cardinality(M) \in Nat
    BY <2>1, FS_CardinalityType
  <2>3. ASSUME NEW b \in BlockIds \ M PROVE Cardinality(M \cup {b}) = Cardinality(M) + 1
    BY <2>1, FS_AddElement
  <2> QED BY <2>1, <2>2, <2>3
<1> QED BY <1>2, <1>3

\* forward_reach after k turns: the stack has a place for each block, what is
\* marked or on it can be gone on to, and what marked blocks lead to is there.
StackStates == [stack : Seq(BlockIds), mark : SUBSET BlockIds, peak : Nat]

Reaches(x, k, s) ==
  /\ s \in StackStates
  /\ x \in s.mark \cup Members(s.stack)
  /\ s.mark \cup Members(s.stack) \subseteq Onward(x)
  /\ \A y \in s.mark : \A i \in Forward(y) : edges[i].to \in s.mark \cup Members(s.stack)
  /\ Len(s.stack) <= Cardinality(s.mark) + 1
  /\ Len(s.stack) <= Len(blocks) /\ s.peak <= Len(blocks)
  /\ s.stack # <<>> => Len(s.stack) + k <= 2 * Cardinality(s.mark) + 1

\* A turn that marks a block.
LEMMA MarksOne ==
  ASSUME Shape, NEW x \in BlockIds, NEW k \in Nat, NEW s, Reaches(x, k, s),
         s.stack # <<>>, Last(s.stack) \notin s.mark
  PROVE  Reaches(x, k + 1, Popped(s))
<1> DEFINE n == Len(blocks)
           b == Last(s.stack)
           rest == Front(s.stack)
           idx == {i \in Forward(b) : edges[i].to \notin s.mark \cup {b}}
           new == Targets(idx)
           grown == rest \o new
           c == Cardinality(s.mark)
           l == Len(s.stack)
<1>1. s.stack \in Seq(BlockIds) /\ s.mark \in SUBSET BlockIds /\ s.peak \in Nat
  BY DEF Reaches, StackStates
<1>2. /\ rest \in Seq(BlockIds) /\ Len(rest) = l - 1 /\ l \in Nat /\ l > 0
      /\ b \in BlockIds /\ Members(s.stack) = Members(rest) \cup {b}
  <2>1. /\ rest \in Seq(BlockIds) /\ Len(rest) = l - 1 /\ l \in Nat /\ l > 0
        /\ s.stack[l] \in BlockIds /\ b = s.stack[l]
    BY ONLY <1>1, s.stack # <<>>, FrontFacts DEF l, b, rest
  <2>2. Members(s.stack) = Members(rest) \cup {b}
    BY <1>1, MembersFacts
  <2> QED BY <2>1, <2>2
<1>3. n \in Nat /\ n > 0 /\ c \in Nat /\ c <= n
      /\ Cardinality(s.mark \cup {b}) = c + 1 /\ c + 1 <= n
      /\ (c + 1 = n => s.mark \cup {b} = BlockIds)
  <2>1. n \in Nat /\ n > 0
    BY DEF Shape
  <2>2. c \in Nat /\ c <= n /\ Cardinality(s.mark \cup {b}) = c + 1
    BY <1>1, <1>2, BlocksCounted
  <2>3. s.mark \cup {b} \in SUBSET BlockIds
    BY <1>1, <1>2
  <2>4. Cardinality(s.mark \cup {b}) <= n
        /\ (Cardinality(s.mark \cup {b}) = n => s.mark \cup {b} = BlockIds)
    BY <2>3, BlocksCounted
  <2> QED BY <2>1, <2>2, <2>4
<1>4. \A i \in Forward(b) : i \in DOMAIN edges /\ edges[i].to # NoBlock /\ edges[i].to \in BlockIds
  BY GraphFacts DEF Forward, Successors
<1>5. /\ new \in Seq(BlockIds) /\ Members(new) = {edges[i].to : i \in idx}
      /\ Len(new) <= 2 /\ Len(new) \in Nat
  <2>1. idx \in SUBSET DOMAIN edges /\ \A i \in idx : edges[i].to # NoBlock
    BY <1>4
  <2>2. idx \subseteq Forward(b)
    OBVIOUS
  <2> HIDE DEF idx, b
  <2>3. new \in Seq(BlockIds) /\ Members(new) = {edges[i].to : i \in idx} /\ Len(new) <= 2
    BY <2>1, <2>2, TargetsFacts
  <2> QED BY <2>3
<1>6. grown \in Seq(BlockIds) /\ Len(grown) = l - 1 + Len(new)
      /\ Members(grown) = Members(rest) \cup Members(new)
  <2>1. grown \in Seq(BlockIds) /\ Len(grown) = Len(rest) + Len(new)
    <3> HIDE DEF rest, new
    <3> QED BY ONLY <1>2, <1>5, ConcatProperties
  <2>2. Members(grown) = Members(rest) \cup Members(new)
    <3> HIDE DEF rest, new
    <3> QED BY <1>2, <1>5, MembersFacts
  <2> QED BY <2>1, <2>2, <1>2
<1>7. Popped(s) = [stack |-> grown, mark |-> s.mark \cup {b},
                   peak |-> IF Len(grown) > s.peak THEN Len(grown) ELSE s.peak]
  BY DEF Popped, Targets
<1> HIDE DEF b, rest, grown, new, c, l, n
<1>8. ASSUME c + 1 = n PROVE Len(new) = 0
  <2>1. idx = {}
    BY <1>3, <1>4, <1>8
  <2>2. new = <<>>
    <3>1. Members(new) = {}
      BY <2>1, <1>5
    <3> QED BY <3>1, <1>5, MembersFacts
  <2> QED BY <2>2
<1>9. l <= c + 1 /\ l <= n /\ s.peak <= n /\ l + k <= 2 * c + 1
  BY DEF Reaches, l, c, n
<1>10. Len(grown) <= c + 2 /\ Len(grown) <= n /\ Len(grown) + k + 1 <= 2 * (c + 1) + 1
  <2>1. /\ l \in Nat /\ l > 0 /\ n \in Nat /\ c \in Nat /\ c + 1 <= n /\ k \in Int
        /\ Len(new) \in Nat /\ Len(new) <= 2 /\ (c + 1 = n => Len(new) = 0)
        /\ Len(grown) = l - 1 + Len(new) /\ l <= c + 1 /\ l + k <= 2 * c + 1
    BY <1>2, <1>3, <1>5, <1>6, <1>8, <1>9
  <2> QED BY ONLY <2>1
<1> DEFINE t == Popped(s)
<1>11. t.stack = grown /\ t.mark = s.mark \cup {b} /\ t.peak <= n /\ t \in StackStates
  <2>1. Len(grown) \in Nat
    BY <1>6
  <2> QED BY <2>1, <1>1, <1>2, <1>6, <1>7, <1>9, <1>10 DEF StackStates
<1> HIDE DEF t
<1>12. t.mark \cup Members(t.stack) = s.mark \cup Members(s.stack) \cup Members(new)
  BY <1>2, <1>6, <1>11
<1>13. Members(new) \subseteq Onward(x)
  BY <1>2, <1>5, OnwardFacts DEF Reaches
<1>14. ASSUME NEW y \in t.mark, NEW i \in Forward(y)
       PROVE  edges[i].to \in t.mark \cup Members(t.stack)
  <2>1. CASE y \in s.mark
    BY <2>1, <1>12, <1>14 DEF Reaches
  <2>2. CASE y = b
    BY <2>2, <1>5, <1>11, <1>12, <1>14
  <2> QED BY <2>1, <2>2, <1>11
<1>15. Reaches(x, k + 1, t)
  <2>1. x \in t.mark \cup Members(t.stack)
    BY <1>12 DEF Reaches
  <2>2. t.mark \cup Members(t.stack) \subseteq Onward(x)
    BY <1>12, <1>13 DEF Reaches
  <2>3. Len(t.stack) <= Cardinality(t.mark) + 1 /\ Len(t.stack) <= n
        /\ Len(t.stack) + (k + 1) <= 2 * Cardinality(t.mark) + 1
    <3>1. Len(grown) \in Nat
      BY <1>6
    <3> QED BY <3>1, <1>3, <1>10, <1>11
  <2> QED BY <2>1, <2>2, <2>3, <1>11, <1>14 DEF Reaches, n
<1> QED BY <1>15 DEF t

LEMMA ReachesOn ==
  ASSUME Shape, NEW x \in BlockIds, NEW k \in Nat, NEW s, Reaches(x, k, s)
  PROVE  Reaches(x, k + 1, Popped(s))
<1>1. CASE s.stack = <<>>
  BY <1>1 DEF Reaches, Popped
<1>2. CASE s.stack # <<>> /\ Last(s.stack) \in s.mark
  <2> DEFINE rest == Front(s.stack)
             t == [s EXCEPT !.stack = rest]
             l == Len(s.stack)
  <2>1. Popped(s) = t
    BY <1>2 DEF Popped
  <2>2. s \in StackStates /\ s.stack \in Seq(BlockIds)
    BY DEF Reaches, StackStates
  <2>3. /\ rest \in Seq(BlockIds) /\ Len(rest) = l - 1 /\ l \in Nat
        /\ Members(s.stack) = Members(rest) \cup {Last(s.stack)}
    <3>1. rest \in Seq(BlockIds) /\ Len(rest) = l - 1 /\ l \in Nat
      BY ONLY <1>2, <2>2, FrontFacts DEF l, rest
    <3> QED BY <3>1, <2>2, <1>2, MembersFacts
  <2> HIDE DEF rest
  <2>4. t \in StackStates /\ t.stack = rest /\ t.mark = s.mark /\ t.peak = s.peak
    BY <2>2, <2>3 DEF StackStates
  <2>5. t.mark \cup Members(t.stack) = s.mark \cup Members(s.stack)
    BY <1>2, <2>3, <2>4
  <2>6. /\ Len(t.stack) <= Cardinality(t.mark) + 1
        /\ Len(t.stack) <= Len(blocks)
        /\ Len(t.stack) + (k + 1) <= 2 * Cardinality(t.mark) + 1
    <3>1. Cardinality(s.mark) \in Nat /\ Len(blocks) \in Nat
      BY <2>2, BlocksCounted DEF StackStates, Shape
    <3>2. l <= Cardinality(s.mark) + 1 /\ l <= Len(blocks) /\ l + k <= 2 * Cardinality(s.mark) + 1
      BY <1>2 DEF Reaches
    <3> HIDE DEF l
    <3> QED BY <3>1, <3>2, <2>3, <2>4
  <2> HIDE DEF t, l
  <2>7. Reaches(x, k + 1, t)
    BY <2>4, <2>5, <2>6 DEF Reaches
  <2> QED BY <2>1, <2>7
<1>3. CASE s.stack # <<>> /\ Last(s.stack) \notin s.mark
  BY <1>3, MarksOne
<1> QED BY <1>1, <1>2, <1>3

\* forward_reach marks what can be gone on to, within its stack.
LEMMA ForwardReachFacts ==
  ASSUME Shape, NEW x \in BlockIds
  PROVE  ForwardReach(x).mark = Onward(x) /\ ForwardReach(x).peak <= Len(blocks)
<1> DEFINE n == Len(blocks)
           N == 2 * Len(blocks) + 1
           S == {s \in StackStates : \E k \in Nat : Reaches(x, k, s)}
           zero == [stack |-> <<x>>, mark |-> {}, peak |-> 1]
           step == [k \in 1..N |-> [s \in S |-> Popped(s)]]
           Rec(f) == [k \in 0..N |-> IF k = 0 THEN [stack |-> <<x>>, mark |-> {}, peak |-> 1]
                                     ELSE Popped(f[k - 1])]
<1>1. n \in Nat /\ n > 0 /\ N \in Nat
  BY DEF Shape
<1>2. Reaches(x, 0, zero)
  <2>1. <<x>> \in Seq(BlockIds) /\ Len(<<x>>) = 1 /\ <<x>>[1] = x
    OBVIOUS
  <2>2. zero \in StackStates /\ zero.stack = <<x>> /\ zero.mark = {} /\ zero.peak = 1
    BY <2>1 DEF StackStates
  <2>3. Members(<<x>>) = {x}
    BY <2>1 DEF Members
  <2>4. Cardinality({}) = 0
    BY FS_EmptySet
  <2>5. x \in Onward(x)
    BY OnwardFacts
  <2> HIDE DEF zero
  <2> QED BY <2>1, <2>2, <2>3, <2>4, <2>5, <1>1 DEF Reaches
<1>3. ASSUME NEW s \in S PROVE Popped(s) \in S
  <2>1. PICK k \in Nat : Reaches(x, k, s)
    OBVIOUS
  <2>2. Reaches(x, k + 1, Popped(s)) /\ k + 1 \in Nat
    BY <2>1, ReachesOn
  <2> QED BY <2>2 DEF Reaches
<1>4. zero \in S
  BY <1>2 DEF Reaches
<1>5. PICK f : Unfolds(f, S, zero, N, step)
  <2>1. step \in [1..N -> [S -> S]]
    <3> HIDE DEF S, N
    <3> QED BY <1>3
  <2>2. Recurses(S, zero, N, step)
    BY <1>1, <1>4, <2>1 DEF Recurses
  <2> HIDE DEF S, N, step, zero
  <2> QED BY ONLY <2>2, RecursionDefines
<1>6. f \in [0..N -> S] /\ f[0] = zero /\ \A k \in 1..N : f[k] = Popped(f[k - 1])
  <2>1. f \in [0..N -> S] /\ f[0] = zero /\ \A k \in 1..N : f[k] = step[k][f[k - 1]]
    BY <1>5 DEF Unfolds
  <2>2. ASSUME NEW k \in 1..N PROVE f[k] = Popped(f[k - 1])
    <3>1. k - 1 \in 0..N
      BY <1>1
    <3>2. f[k - 1] \in S /\ f[k] = step[k][f[k - 1]]
      <4> HIDE DEF S, N, step
      <4> QED BY <3>1, <2>1
    <3> HIDE DEF S
    <3> QED BY <3>2
  <2> HIDE DEF step
  <2> QED BY <2>1, <2>2
<1> HIDE DEF step
<1>7. f = Rec(f)
  <2>1. \A k \in 0..N : k = 0 \/ k \in 1..N
    BY <1>1
  <2>2. f = [k \in 0..N |-> f[k]]
    <3> HIDE DEF N, S
    <3> QED BY <1>6
  <2> HIDE DEF N
  <2>3. ASSUME NEW k \in 0..N PROVE f[k] = Rec(f)[k]
    BY <2>1, <1>6
  <2> QED BY <2>2, <2>3
<1> DEFINE g == CHOOSE g : g = Rec(g)
<1>8. g = Rec(g)
  <2> HIDE DEF N
  <2> QED BY <1>7
<1>9. ForwardReach(x) = g[N]
  BY DEF ForwardReach
<1>10. g[0] = zero /\ \A k \in 1..N : g[k] = Popped(g[k - 1])
  <2> HIDE DEF g
  <2>1. \A k \in 0..N : g[k] = Rec(g)[k]
    BY <1>8
  <2>2. 0 \in 0..N /\ \A k \in 1..N : k \in 0..N /\ k # 0
    BY <1>1
  <2> HIDE DEF N
  <2> QED BY <2>1, <2>2
<1> HIDE DEF g, Rec, zero, S
<1> DEFINE P == {k \in 0..N : Reaches(x, k, g[k])}
<1>11. 0 \in P
  BY <1>1, <1>2, <1>10
<1>12. ASSUME NEW k \in 1..N, k - 1 \in P PROVE k \in P
  <2>1. k - 1 \in Nat /\ k \in 0..N /\ k - 1 + 1 = k
    BY <1>1
  <2>2. Reaches(x, k - 1 + 1, Popped(g[k - 1]))
    BY <1>12, <2>1, ReachesOn
  <2> QED BY <2>1, <2>2, <1>10
<1>13. \A k \in 0..N : k \in P
  <2> HIDE DEF P, N
  <2> QED BY <1>1, <1>11, <1>12, UpTo
<1> DEFINE s == g[N]
<1>14. Reaches(x, N, s)
  <2>1. N \in 0..N
    BY <1>1
  <2> HIDE DEF N
  <2> QED BY <2>1, <1>13
<1> HIDE DEF s
<1>15. s.stack = <<>>
  <2> SUFFICES ASSUME s.stack # <<>> PROVE FALSE
    OBVIOUS
  <2>1. s.stack \in Seq(BlockIds) /\ s.mark \in SUBSET BlockIds
    BY <1>14 DEF Reaches, StackStates
  <2>2. Len(s.stack) \in Nat /\ Len(s.stack) > 0
    BY <2>1
  <2>3. Cardinality(s.mark) \in Nat /\ Cardinality(s.mark) <= n
    BY <2>1, BlocksCounted
  <2>4. Len(s.stack) + N <= 2 * Cardinality(s.mark) + 1
    BY <1>14 DEF Reaches
  <2>5. N = 2 * n + 1
    OBVIOUS
  <2> DEFINE l == Len(s.stack)
             c == Cardinality(s.mark)
  <2>6. l \in Nat /\ l > 0 /\ c \in Nat /\ c <= n /\ l + N <= 2 * c + 1
    BY <2>2, <2>3, <2>4
  <2> HIDE DEF n, N, l, c
  <2> QED BY ONLY <2>5, <2>6, <1>1
<1>16. Members(s.stack) = {}
  BY <1>15 DEF Members
<1>17. s.mark = Onward(x)
  <2>1. /\ s.mark \in SUBSET BlockIds /\ x \in s.mark /\ s.mark \subseteq Onward(x)
        /\ \A y \in s.mark : \A i \in Forward(y) : edges[i].to \in s.mark
    BY <1>14, <1>16 DEF Reaches, StackStates
  <2>2. Onward(x) \subseteq s.mark
    BY <2>1, OnwardFacts
  <2> QED BY <2>1, <2>2
<1> QED BY <1>9, <1>14, <1>17 DEF Reaches, s

\* forward_reach: its stack never grows beyond one place per block.
THEOREM StackAlwaysFits == SsaSpec => []StackFits
<1>1. FlowInv => StackFits
  BY ForwardReachFacts DEF FlowInv, ShapeInv, StackFits, Late, Early
<1> QED BY <1>1, FlowInvariant, PTL

LEMMA DistinctFacts ==
  ASSUME NEW S, NEW s \in Seq(S), NEW t \in Seq(S), Distinct(s)
  PROVE  /\ (Distinct(t) /\ Members(s) \cap Members(t) = {}) => Distinct(s \o t)
         /\ s # <<>> => Distinct(Tail(s)) /\ Head(s) \notin Members(Tail(s))
<1> DEFINE m == Len(s)
           n == Len(t)
<1>1. m \in Nat /\ n \in Nat
  OBVIOUS
<1>2. ASSUME Distinct(t), Members(s) \cap Members(t) = {} PROVE Distinct(s \o t)
  <2> DEFINE u == s \o t
  <2>1. /\ Len(u) = m + n
        /\ \A i \in 1..(m + n) : u[i] = IF i <= m THEN s[i] ELSE t[i - m]
    BY ONLY s \in Seq(S), t \in Seq(S), ConcatProperties DEF u, m, n
  <2> HIDE DEF u, m, n
  <2>2. ASSUME NEW i \in 1..(m + n)
        PROVE  \/ i \in 1..m /\ u[i] = s[i]
               \/ ~(i <= m) /\ i - m \in 1..n /\ u[i] = t[i - m]
    <3>1. CASE i <= m
      BY <3>1, <2>1, <1>1
    <3>2. CASE ~(i <= m)
      <4>1. i - m \in 1..n
        BY <3>2, <1>1
      <4> QED BY <3>2, <4>1, <2>1
    <3> QED BY <3>1, <3>2
  <2>3. ASSUME NEW i \in 1..m, NEW j \in 1..n PROVE s[i] # t[j]
    BY <1>2 DEF Members, m, n
  <2>4. ASSUME NEW i \in 1..(m + n), NEW j \in 1..(m + n), u[i] = u[j] PROVE i = j
    <3>1. CASE i <= m /\ j <= m
      <4>1. i \in 1..m /\ j \in 1..m /\ s[i] = s[j]
        BY <3>1, <2>2, <2>4, <1>1
      <4> QED BY <4>1 DEF Distinct, m
    <3>2. CASE ~(i <= m) /\ ~(j <= m)
      <4>1. i - m \in 1..n /\ j - m \in 1..n /\ t[i - m] = t[j - m]
        BY <3>2, <2>2, <2>4, <1>1
      <4>2. i - m = j - m
        BY <4>1, <1>2 DEF Distinct, n
      <4> QED BY <4>2, <1>1
    <3>3. CASE i <= m /\ ~(j <= m)
      <4>1. i \in 1..m /\ j - m \in 1..n /\ s[i] = t[j - m]
        BY <3>3, <2>2, <2>4, <1>1
      <4> QED BY <4>1, <2>3
    <3>4. CASE ~(i <= m) /\ j <= m
      <4>1. j \in 1..m /\ i - m \in 1..n /\ s[j] = t[i - m]
        BY <3>4, <2>2, <2>4, <1>1
      <4> QED BY <4>1, <2>3
    <3> QED BY <3>1, <3>2, <3>3, <3>4
  <2>5. \A i, j \in 1..Len(u) : u[i] = u[j] => i = j
    BY ONLY <2>1, <2>4
  <2> QED BY <2>5 DEF Distinct, u
<1>3. ASSUME s # <<>> PROVE Distinct(Tail(s)) /\ Head(s) \notin Members(Tail(s))
  <2>1. m > 0 /\ Head(s) = s[1]
    BY <1>1, <1>3
  <2>2. Len(Tail(s)) = m - 1 /\ \A k \in 1..(m - 1) : Tail(s)[k] = s[k + 1]
    <3>1. Len(Tail(s)) = m - 1 /\ \A k \in 1..Len(Tail(s)) : Tail(s)[k] = s[k + 1]
      BY ONLY s \in Seq(S), <1>3, HeadTailProperties DEF m
    <3> QED BY <3>1
  <2> HIDE DEF m
  <2>3. \A k \in 1..(m - 1) : k + 1 \in 1..m /\ k + 1 # 1 /\ 1 \in 1..m
    BY <1>1, <2>1
  <2>4. ASSUME NEW j \in 1..(m - 1), NEW k \in 1..(m - 1), Tail(s)[j] = Tail(s)[k]
        PROVE  j = k
    <3>1. j + 1 = k + 1
      BY <2>2, <2>3, <2>4 DEF Distinct, m
    <3> QED BY <3>1
  <2>5. \A k \in 1..(m - 1) : Tail(s)[k] # Head(s)
    BY <2>1, <2>2, <2>3 DEF Distinct, m
  <2>6. \A j, k \in 1..Len(Tail(s)) : Tail(s)[j] = Tail(s)[k] => j = k
    BY ONLY <2>2, <2>4
  <2> QED BY <2>2, <2>5, <2>6 DEF Distinct, Members
<1> QED BY <1>2, <1>3

\* first_common after k turns, unless it has stopped: k blocks have been taken
\* from the queue, none of them marked, and all they lead to is seen.
QueueStates == [queue : Seq(BlockIds), seen : SUBSET BlockIds]

Searches(x, mark, k, s) ==
  /\ s \in QueueStates
  /\ x \in s.seen /\ s.seen \subseteq Onward(x)
  /\ Members(s.queue) \subseteq s.seen /\ Distinct(s.queue)
  /\ \A y \in s.seen \ Members(s.queue) :
       y \notin mark /\ \A i \in Forward(y) : edges[i].to \in s.seen
  /\ (s.queue # <<>> /\ Head(s.queue) \notin mark) =>
       Cardinality(s.seen \ Members(s.queue)) = k

LEMMA SearchesOn ==
  ASSUME Shape, NEW x \in BlockIds, NEW mark, NEW k \in Nat, NEW s, Searches(x, mark, k, s)
  PROVE  Searches(x, mark, k + 1, Searched(s, mark))
<1>1. s.queue \in Seq(BlockIds) /\ s.seen \in SUBSET BlockIds
  BY DEF Searches, QueueStates
<1>2. CASE s.queue = <<>> \/ Head(s.queue) \in mark
  BY <1>2 DEF Searches, Searched
<1>3. CASE s.queue # <<>> /\ Head(s.queue) \notin mark
  <2> DEFINE b == Head(s.queue)
             rest == Tail(s.queue)
             idx == {i \in Forward(b) : edges[i].to \notin s.seen
                       /\ \A j \in Forward(b) : j < i => edges[j].to # edges[i].to}
             new == Targets(idx)
             t == [queue |-> rest \o new, seen |-> s.seen \cup {edges[i].to : i \in idx}]
  <2>1. Searched(s, mark) = t
    BY <1>3 DEF Searched, Targets
  <2>2. /\ b \in BlockIds /\ rest \in Seq(BlockIds) /\ b \notin Members(rest)
        /\ Members(s.queue) = {b} \cup Members(rest) /\ Distinct(rest)
    <3>1. Distinct(s.queue)
      BY DEF Searches
    <3>2. b \in BlockIds /\ rest \in Seq(BlockIds)
      BY ONLY <1>1, <1>3, HeadTailProperties
    <3> QED BY <3>1, <3>2, <1>1, <1>3, DistinctFacts, MembersFacts
  <2>3. \A i \in Forward(b) : i \in DOMAIN edges /\ i \in Nat
                              /\ edges[i].to # NoBlock /\ edges[i].to \in BlockIds
    <3>1. DOMAIN edges \subseteq Nat
      BY DEF Shape
    <3> QED BY <3>1, GraphFacts DEF Forward, Successors
  <2> HIDE DEF b, rest
  <2>4. \A i, j \in idx : edges[i].to = edges[j].to => i = j
    <3> SUFFICES ASSUME NEW i \in idx, NEW j \in idx, edges[i].to = edges[j].to
                 PROVE  i = j
      OBVIOUS
    <3>1. ~(i < j) /\ ~(j < i) /\ i \in Nat /\ j \in Nat
      BY <2>3
    <3> QED BY <3>1
  <2>5. /\ new \in Seq(BlockIds) /\ Distinct(new)
        /\ Members(new) = {edges[i].to : i \in idx}
    <3>1. idx \in SUBSET DOMAIN edges /\ \A i \in idx : edges[i].to # NoBlock
      BY <2>3
    <3> HIDE DEF idx
    <3> QED BY <3>1, <2>4, TargetsFacts
  <2>6. \A i \in Forward(b) : edges[i].to \in s.seen \cup Members(new)
    <3> SUFFICES ASSUME NEW i \in Forward(b), edges[i].to \notin s.seen
                 PROVE  edges[i].to \in Members(new)
      OBVIOUS
    <3> DEFINE same == {j \in Forward(b) : edges[j].to = edges[i].to}
    <3>1. same \subseteq Nat /\ same # {}
      BY <2>3
    <3>2. PICK j \in same : \A l \in same : ~(<<l, j>> \in OpToRel(<, Nat))
      <4> HIDE DEF same
      <4> QED BY <3>1, NatLessThanWellFounded, WFMin
    <3>3. j \in Nat /\ \A l \in same : ~(l < j)
      <4>1. \A l \in same : l \in Nat
        BY <3>1
      <4> HIDE DEF same
      <4> QED BY <4>1, <3>2 DEF OpToRel
    <3>4. j \in idx
      BY <3>3
    <3> QED BY <3>2, <3>4, <2>5
  <2>7. Members(new) \cap s.seen = {} /\ Members(new) \subseteq BlockIds
    BY <2>3, <2>5
  <2> HIDE DEF idx, new
  <2>8. /\ rest \o new \in Seq(BlockIds) /\ Distinct(rest \o new)
        /\ Members(rest \o new) = Members(rest) \cup Members(new)
    <3>1. Members(rest) \cap Members(new) = {}
      BY <2>2, <2>7 DEF Searches
    <3>2. rest \o new \in Seq(BlockIds)
      BY ONLY <2>2, <2>5, ConcatProperties
    <3> QED BY <3>1, <3>2, <2>2, <2>5, DistinctFacts, MembersFacts
  <2>9. /\ t \in QueueStates /\ t.queue = rest \o new /\ t.seen = s.seen \cup Members(new)
    BY <1>1, <2>5, <2>7, <2>8 DEF QueueStates
  <2> HIDE DEF t
  <2> DEFINE done == s.seen \ Members(s.queue)
  <2>10. b \in s.seen /\ t.seen \ Members(t.queue) = done \cup {b} /\ b \notin done
    BY <2>2, <2>7, <2>8, <2>9 DEF Searches
  <2>11. b \in Onward(x)
    BY <2>10 DEF Searches
  <2>12. Members(new) \subseteq Onward(x)
    <3>1. \A i \in idx : i \in Forward(b)
      BY DEF idx
    <3> QED BY <3>1, <2>5, <2>11, OnwardFacts
  <2>13. ASSUME NEW y \in t.seen \ Members(t.queue)
         PROVE  y \notin mark /\ \A i \in Forward(y) : edges[i].to \in t.seen
    <3>1. CASE y = b
      BY <3>1, <1>3, <2>6, <2>9 DEF b
    <3>2. CASE y \in done
      BY <3>2, <2>9 DEF Searches
    <3> QED BY <3>1, <3>2, <2>10
  <2>14. Cardinality(t.seen \ Members(t.queue)) = k + 1
    <3>1. Cardinality(done) = k
      BY <1>3 DEF Searches
    <3>2. done \in SUBSET BlockIds
      BY <1>1
    <3> HIDE DEF done
    <3> QED BY <3>1, <3>2, <2>2, <2>10, BlocksCounted
  <2>15. Searches(x, mark, k + 1, t)
    <3>1. x \in t.seen /\ t.seen \subseteq Onward(x) /\ Members(t.queue) \subseteq t.seen
      BY <2>2, <2>8, <2>9, <2>12 DEF Searches
    <3> QED BY <3>1, <2>8, <2>9, <2>13, <2>14 DEF Searches
  <2> QED BY <2>1, <2>15
<1> QED BY <1>2, <1>3

\* first_common ends at a marked block that can be gone on to, if there is one.
LEMMA FirstMarkedFacts ==
  ASSUME Shape, NEW x \in BlockIds, NEW mark
  PROVE  IF Onward(x) \cap mark = {} THEN FirstMarked(x, mark) = NoBlock
         ELSE FirstMarked(x, mark) \in Onward(x) \cap mark
<1> DEFINE N == Len(blocks)
           S == {s \in QueueStates : \E k \in Nat : Searches(x, mark, k, s)}
           zero == [queue |-> <<x>>, seen |-> {x}]
           step == [k \in 1..N |-> [s \in S |-> Searched(s, mark)]]
           Rec(f) == [k \in 0..N |-> IF k = 0 THEN [queue |-> <<x>>, seen |-> {x}]
                                     ELSE Searched(f[k - 1], mark)]
<1>1. N \in Nat /\ N > 0
  BY DEF Shape
<1>2. Searches(x, mark, 0, zero)
  <2>1. <<x>> \in Seq(BlockIds) /\ Len(<<x>>) = 1 /\ <<x>>[1] = x
    OBVIOUS
  <2>2. zero \in QueueStates /\ zero.queue = <<x>> /\ zero.seen = {x}
    BY <2>1 DEF QueueStates
  <2>3. Members(<<x>>) = {x}
    BY <2>1 DEF Members
  <2>4. Distinct(<<x>>)
    BY <2>1 DEF Distinct
  <2>5. Cardinality({}) = 0 /\ zero.seen \ Members(zero.queue) = {}
    BY <2>2, <2>3, FS_EmptySet
  <2>6. x \in Onward(x)
    BY OnwardFacts
  <2> HIDE DEF zero
  <2> QED BY <2>2, <2>3, <2>4, <2>5, <2>6 DEF Searches
<1>3. ASSUME NEW s \in S PROVE Searched(s, mark) \in S
  <2>1. PICK k \in Nat : Searches(x, mark, k, s)
    OBVIOUS
  <2>2. Searches(x, mark, k + 1, Searched(s, mark)) /\ k + 1 \in Nat
    BY <2>1, SearchesOn
  <2> QED BY <2>2 DEF Searches
<1>4. zero \in S
  BY <1>2 DEF Searches
<1>5. PICK f : Unfolds(f, S, zero, N, step)
  <2>1. step \in [1..N -> [S -> S]]
    <3> HIDE DEF S, N
    <3> QED BY <1>3
  <2>2. Recurses(S, zero, N, step)
    BY <1>1, <1>4, <2>1 DEF Recurses
  <2> HIDE DEF S, N, step, zero
  <2> QED BY ONLY <2>2, RecursionDefines
<1>6. f \in [0..N -> S] /\ f[0] = zero /\ \A k \in 1..N : f[k] = Searched(f[k - 1], mark)
  <2>1. f \in [0..N -> S] /\ f[0] = zero /\ \A k \in 1..N : f[k] = step[k][f[k - 1]]
    BY <1>5 DEF Unfolds
  <2>2. ASSUME NEW k \in 1..N PROVE f[k] = Searched(f[k - 1], mark)
    <3>1. k - 1 \in 0..N
      BY <1>1
    <3>2. f[k - 1] \in S /\ f[k] = step[k][f[k - 1]]
      <4> HIDE DEF S, N, step
      <4> QED BY <3>1, <2>1
    <3> HIDE DEF S
    <3> QED BY <3>2
  <2> HIDE DEF step
  <2> QED BY <2>1, <2>2
<1> HIDE DEF step
<1>7. f = Rec(f)
  <2>1. \A k \in 0..N : k = 0 \/ k \in 1..N
    BY <1>1
  <2>2. f = [k \in 0..N |-> f[k]]
    <3> HIDE DEF N, S
    <3> QED BY <1>6
  <2> HIDE DEF N
  <2>3. ASSUME NEW k \in 0..N PROVE f[k] = Rec(f)[k]
    BY <2>1, <1>6
  <2> QED BY <2>2, <2>3
<1> DEFINE g == CHOOSE g : g = Rec(g)
<1>8. g = Rec(g)
  <2> HIDE DEF N
  <2> QED BY <1>7
<1>9. FirstMarked(x, mark) = IF g[N].queue = <<>> THEN NoBlock ELSE Head(g[N].queue)
  BY DEF FirstMarked
<1>10. g[0] = zero /\ \A k \in 1..N : g[k] = Searched(g[k - 1], mark)
  <2> HIDE DEF g
  <2>1. \A k \in 0..N : g[k] = Rec(g)[k]
    BY <1>8
  <2>2. 0 \in 0..N /\ \A k \in 1..N : k \in 0..N /\ k # 0
    BY <1>1
  <2> HIDE DEF N
  <2> QED BY <2>1, <2>2
<1> HIDE DEF g, Rec, zero, S
<1> DEFINE P == {k \in 0..N : Searches(x, mark, k, g[k])}
<1>11. 0 \in P
  BY <1>1, <1>2, <1>10
<1>12. ASSUME NEW k \in 1..N, k - 1 \in P PROVE k \in P
  <2>1. k - 1 \in Nat /\ k \in 0..N /\ k - 1 + 1 = k
    BY <1>1
  <2>2. Searches(x, mark, k - 1 + 1, Searched(g[k - 1], mark))
    BY <1>12, <2>1, SearchesOn
  <2> QED BY <2>1, <2>2, <1>10
<1>13. \A k \in 0..N : k \in P
  <2> HIDE DEF P, N
  <2> QED BY <1>1, <1>11, <1>12, UpTo
<1> DEFINE s == g[N]
<1>14. Searches(x, mark, N, s)
  <2>1. N \in 0..N
    BY <1>1
  <2> HIDE DEF N
  <2> QED BY <2>1, <1>13
<1>15. FirstMarked(x, mark) = IF s.queue = <<>> THEN NoBlock ELSE Head(s.queue)
  BY <1>9
<1> HIDE DEF s
<1>16. s.queue \in Seq(BlockIds) /\ s.seen \in SUBSET BlockIds
  BY <1>14 DEF Searches, QueueStates
<1>17. CASE s.queue = <<>>
  <2>1. Members(s.queue) = {}
    BY <1>17 DEF Members
  <2>2. \A y \in s.seen : y \notin mark /\ \A i \in Forward(y) : edges[i].to \in s.seen
    BY <1>14, <2>1 DEF Searches
  <2>3. x \in s.seen
    BY <1>14 DEF Searches
  <2>4. Onward(x) \subseteq s.seen
    BY <1>16, <2>2, <2>3, OnwardFacts
  <2> QED BY <1>15, <1>17, <2>2, <2>4
<1>18. CASE s.queue # <<>>
  <2>1. Head(s.queue) \in Members(s.queue)
    BY <1>16, <1>18, MembersFacts
  <2>2. Head(s.queue) \in Onward(x) /\ Head(s.queue) \in BlockIds
    BY <2>1, <1>14, <1>16 DEF Searches
  <2>3. ASSUME Head(s.queue) \notin mark PROVE FALSE
    <3> DEFINE done == s.seen \ Members(s.queue)
    <3>1. Cardinality(done) = N
      BY <2>3, <1>14, <1>18 DEF Searches
    <3>2. done \in SUBSET BlockIds
      BY <1>16
    <3>3. done = BlockIds
      <4> HIDE DEF done
      <4> QED BY <3>1, <3>2, BlocksCounted
    <3> QED BY <3>3, <2>1, <2>2
  <2> QED BY <1>15, <1>18, <2>2, <2>3
<1> QED BY <1>17, <1>18

LEMMA MergeFacts ==
  ASSUME Shape, NEW b \in BlockIds,
         RegionOf(b).kind \in {"if", "if_else", "unstructured"}
  PROVE  IF Onward(Arms(b)[1]) \cap Onward(Arms(b)[2]) = {}
         THEN RegionOf(b).kind = "unstructured"
         ELSE RegionOf(b).merge \in Onward(Arms(b)[1]) \cap Onward(Arms(b)[2])
<1> DEFINE arms == Arms(b)
           r == FirstCommon(arms[1], arms[2])
<1>1. /\ Len(arms) >= 2
      /\ RegionOf(b) = IF r = NoBlock THEN Region("unstructured", NoBlock)
                       ELSE IF r \in {arms[1], arms[2]} THEN Region("if", r)
                       ELSE Region("if_else", r)
  <2>1. arms \in Seq(BlockIds)
    <3>1. /\ \A i \in Forward(b) : edges[i].to # NoBlock
          /\ Forward(b) \in SUBSET DOMAIN edges
      BY DEF Forward, Successors
    <3>2. Targets(Forward(b)) \in Seq(BlockIds)
      BY <3>1, TargetsFacts
    <3> QED BY <3>2 DEF Arms, Targets
  <2>2. Len(arms) \in Nat
    BY <2>1
  <2>3. CASE b \in switches \/ b \in loops.headers \/ Len(arms) < 2
    BY <2>3 DEF RegionOf, Region
  <2>4. CASE ~(b \in switches \/ b \in loops.headers \/ Len(arms) < 2)
    <3>1. Len(arms) >= 2
      BY <2>2, <2>4
    <3> HIDE DEF r
    <3>2. RegionOf(b) = IF r = NoBlock THEN Region("unstructured", NoBlock)
                        ELSE IF r \in {arms[1], arms[2]} THEN Region("if", r)
                        ELSE Region("if_else", r)
      BY <2>4 DEF RegionOf, r
    <3> QED BY <3>1, <3>2
  <2> QED BY <2>3, <2>4
<1>2. arms[1] \in BlockIds /\ arms[2] \in BlockIds
  <2>1. /\ \A i \in Forward(b) : edges[i].to # NoBlock
        /\ Forward(b) \in SUBSET DOMAIN edges
    BY DEF Forward, Successors
  <2>2. Targets(Forward(b)) \in Seq(BlockIds)
    BY <2>1, TargetsFacts
  <2>3. arms \in Seq(BlockIds)
    BY <2>2 DEF Arms, Targets
  <2> HIDE DEF arms
  <2> QED BY <1>1, <2>3
<1> HIDE DEF arms
<1>3. IF Onward(arms[1]) \cap Onward(arms[2]) = {} THEN r = NoBlock
      ELSE r \in Onward(arms[1]) \cap Onward(arms[2])
  <2>1. r = FirstMarked(arms[2], Onward(arms[1]))
    BY <1>2, ForwardReachFacts DEF FirstCommon
  <2>2. Onward(arms[2]) \cap Onward(arms[1]) = Onward(arms[1]) \cap Onward(arms[2])
    OBVIOUS
  <2> HIDE DEF r
  <2> QED BY <1>2, <2>1, <2>2, FirstMarkedFacts
<1>4. NoBlock \notin Onward(arms[1])
  BY <1>2, OnwardFacts, GraphFacts
<1> HIDE DEF r
<1> QED BY <1>1, <1>3, <1>4 DEF arms, Region

\* first_common: a conditional gets a merge exactly when its arms lead to a
\* common block, and the merge is one.
THEOREM MergesAreCommon == SsaSpec => []ArmsMeetAtMerge
<1>1. SsaInit => ArmsMeetAtMerge
  BY DEF SsaInit, FlowInit, ArmsMeetAtMerge
<1>2. ASSUME FlowInv, ArmsMeetAtMerge, [SsaNext]_vars
      PROVE  ArmsMeetAtMerge'
  <2>1. ASSUME UNCHANGED <<blocks, edges, idom>>
        PROVE  /\ BlockIds' = BlockIds
               /\ \A b : Arms(b)' = Arms(b)
               /\ \A b : Onward(b)' = Onward(b)
    <3>1. BlockIds' = BlockIds /\ \A b : Forward(b)' = Forward(b)
      BY <2>1 DEF BlockIds, Forward, Successors, IsAbove
    <3> QED BY <2>1, <3>1 DEF Arms, Onward
  <2>2. CASE UNCHANGED vars
    <3>1. UNCHANGED <<blocks, edges, idom, regions, stage>>
      BY <2>2 DEF vars, flowVars
    <3> QED BY <1>2, <2>1, <3>1 DEF ArmsMeetAtMerge
  <2>3. CASE ClassifyRegions
    <3>1. UNCHANGED <<blocks, edges, idom>> /\ stage = "switches"
      BY <2>3 DEF ClassifyRegions
    <3>2. Shape
      BY <1>2, <3>1 DEF FlowInv, ShapeInv
    <3>3. ~Irreducible => \A b \in BlockIds : regions'.of[b] = RegionOf(b)
      BY <2>3 DEF ClassifyRegions
    <3>4. regions'.flagged = Irreducible
      BY <2>3 DEF ClassifyRegions
    <3> QED BY <2>1, <3>1, <3>2, <3>3, <3>4, MergeFacts DEF ArmsMeetAtMerge
  <2>4. CASE stage' # "flow"
    BY <2>4 DEF ArmsMeetAtMerge
  <2>5. SsaNext => ClassifyRegions \/ stage' # "flow"
    BY DEF SsaNext, FlowNext, SplitAndWire, StartOrder, Descend, Leave, StartDominance,
           VisitBlock, EndRound, AgainIf, ClassifyLoops, RecoverSwitches, Summarise,
           SolveLiveness, PlacePhis, FoldPrologue, MapStackSlots, ReconstructCalls
  <2> QED BY <1>2, <2>2, <2>3, <2>4, <2>5
<1> QED BY <1>1, <1>2, FlowInvariant, PTL DEF SsaSpec

LEMMA CodeFacts ==
  ASSUME prog \in Programs
  PROVE  /\ Len(code) \in Nat \ {0} /\ Here = 0..(Len(code) - 1)
         /\ \A va \in Here : At(va) \in Instructions
<1>1. code \in Seq(Instructions) /\ code # <<>>
  BY ProgramsAssumption DEF code
<1>2. Len(code) \in Nat \ {0}
  BY <1>1
<1>3. ASSUME NEW va \in Here PROVE At(va) \in Instructions
  <2>1. va + 1 \in 1..Len(code)
    BY <1>2, <1>3 DEF Here
  <2> HIDE DEF code
  <2> QED BY <1>1, <2>1 DEF At
<1> QED BY <1>2, <1>3 DEF Here

\* The first leader from an address on.
LEMMA LeaderFromFacts ==
  ASSUME prog \in Programs, NEW va \in 0..Len(code)
  PROVE  /\ LeaderFrom(va) \in Leaders \cup {Len(code)} /\ LeaderFrom(va) >= va
         /\ \A l \in Leaders : l >= va => LeaderFrom(va) <= l
         /\ LeaderFrom(va) \in Nat /\ LeaderFrom(va) <= Len(code)
<1> DEFINE all == Leaders \cup {Len(code)}
           after == {l \in all : l >= va}
<1>1. Len(code) \in Nat /\ Len(code) \in after /\ \A l \in all : l \in 0..Len(code)
  <2>1. Len(code) \in Nat
    BY CodeFacts
  <2>2. \A l \in Leaders : l \in 0..Len(code)
    BY <2>1 DEF Leaders, Here
  <2> QED BY <2>1, <2>2
<1>2. after \subseteq Nat /\ \A l \in after : l \in Nat
  BY <1>1
<1>3. PICK f \in after : \A l \in after : ~(<<l, f>> \in OpToRel(<, Nat))
  <2> HIDE DEF after
  <2> QED BY <1>1, <1>2, NatLessThanWellFounded, WFMin
<1>4. \A l \in after : f <= l
  <2>1. \A l \in after : l \in Nat /\ ~(l < f) /\ f \in Nat
    <3> HIDE DEF after
    <3> QED BY <1>2, <1>3 DEF OpToRel
  <2> HIDE DEF after
  <2> QED BY <2>1
<1>5. LeaderFrom(va) = CHOOSE l \in after : \A m \in after : l <= m
  BY DEF LeaderFrom
<1> HIDE DEF after
<1>6. LeaderFrom(va) \in after /\ \A m \in after : LeaderFrom(va) <= m
  BY <1>4, <1>5
<1>7. LeaderFrom(va) \in all /\ LeaderFrom(va) >= va
  BY <1>6 DEF after
<1>8. \A l \in Leaders : l >= va => l \in after
  BY DEF after
<1> QED BY <1>1, <1>6, <1>7, <1>8

\* collect_leaders and the split: every leader begins a block, in order.
LEMMA SplitFacts ==
  ASSUME prog \in Programs
  PROVE  LET n == Cardinality(Leaders) IN
         /\ \A i \in 1..n : /\ Split[i].start \in Leaders /\ Split[i].start \in Nat
                            /\ Split[i].end \in Nat /\ Split[i].start < Split[i].end
                            /\ Split[i].end <= Len(code)
         /\ Split[1].start = 0 /\ Split[n].end = Len(code)
         /\ \A i \in 1..(n - 1) : Split[i + 1].start = Split[i].end
<1> DEFINE n == Cardinality(Leaders)
           c == Len(code)
<1>1. /\ n \in Nat \ {0} /\ c \in Nat \ {0} /\ 0 \in Leaders
      /\ IsFiniteSet(Leaders) /\ \A l \in Leaders : l \in Nat /\ l < c
  <2>1. n \in Nat \ {0} /\ c \in Nat \ {0}
    BY LeadersAreCounted, CodeFacts
  <2>2. Leaders \subseteq 0..(c - 1) /\ 0 \in Leaders
    BY <2>1 DEF Leaders, Here
  <2>3. IsFiniteSet(0..(c - 1))
    BY <2>1, FS_Interval
  <2>4. IsFiniteSet(Leaders)
    BY <2>2, <2>3, FS_Subset
  <2>5. \A l \in Leaders : l \in Nat /\ l < c
    <3> HIDE DEF c
    <3> QED BY <2>1, <2>2
  <2> QED BY <2>1, <2>2, <2>4, <2>5
<1>0. ASSUME NEW va \in 0..c
      PROVE  /\ LeaderFrom(va) \in Leaders \cup {c} /\ LeaderFrom(va) >= va
             /\ \A l \in Leaders : l >= va => LeaderFrom(va) <= l
             /\ LeaderFrom(va) \in Nat /\ LeaderFrom(va) <= c
  BY LeaderFromFacts
<1> DEFINE none == -1
<1>22. none \in Int /\ none + 1 = 0 /\ none < 0
  OBVIOUS
<1> HIDE DEF c, none
<1> DEFINE S == {none} \cup Leaders \cup {c}
           Next1(s) == IF s = c THEN c ELSE LeaderFrom(s + 1)
           step == [k \in 1..n |-> [s \in S |-> Next1(s)]]
<1>2. ASSUME NEW s \in S PROVE Next1(s) \in S /\ (s # c => s + 1 \in 0..c)
  <2>1. CASE s = c
    BY <2>1
  <2>2. CASE s # c
    <3>1. s + 1 \in 0..c
      BY <1>1, <1>22, <2>2
    <3> QED BY <2>2, <3>1, <1>0
  <2> QED BY <2>1, <2>2
<1>3. PICK f : Unfolds(f, S, none, n, step)
  <2>1. step \in [1..n -> [S -> S]]
    <3> HIDE DEF S, n
    <3> QED BY <1>2
  <2>2. Recurses(S, none, n, step)
    BY <1>1, <2>1 DEF Recurses
  <2> HIDE DEF S, n, step
  <2> QED BY ONLY <2>2, RecursionDefines
<1>4. f \in [0..n -> S] /\ f[0] = none /\ \A k \in 1..n : f[k] = Next1(f[k - 1])
  <2>1. f \in [0..n -> S] /\ f[0] = none /\ \A k \in 1..n : f[k] = step[k][f[k - 1]]
    BY <1>3 DEF Unfolds
  <2>2. ASSUME NEW k \in 1..n PROVE f[k] = Next1(f[k - 1])
    <3>1. k - 1 \in 0..n
      BY <1>1
    <3>2. f[k - 1] \in S /\ f[k] = step[k][f[k - 1]]
      <4> HIDE DEF S, n, step
      <4> QED BY <3>1, <2>1
    <3> HIDE DEF S, Next1
    <3> QED BY <3>2
  <2> HIDE DEF step
  <2> QED BY <2>1, <2>2
<1> HIDE DEF step
<1> DEFINE Upto(a) == {l \in Leaders : l <= a}
           P == {k \in 0..n : Cardinality(Upto(f[k])) = k /\ (k = 0 \/ f[k] \in Leaders)}
<1>5. ASSUME NEW a PROVE Upto(a) \in SUBSET Leaders /\ IsFiniteSet(Upto(a))
                         /\ (Cardinality(Upto(a)) = n => Upto(a) = Leaders)
  BY <1>1, FS_Subset
<1>6. 0 \in P
  <2>1. Upto(none) = {}
    BY <1>1, <1>22
  <2>2. f[0] = none
    BY <1>4
  <2>3. Upto(f[0]) = {}
    BY <2>1, <2>2
  <2>4. Cardinality({}) = 0
    BY FS_EmptySet
  <2> HIDE DEF Upto, n
  <2> QED BY <2>3, <2>4, <1>1
<1>7. ASSUME NEW k \in 1..n, k - 1 \in P
      PROVE  /\ k \in P /\ f[k] = LeaderFrom(f[k - 1] + 1) /\ f[k - 1] < f[k]
             /\ f[k - 1] # c
  <2> DEFINE a == f[k - 1]
             b == LeaderFrom(a + 1)
  <2>1. a \in S /\ a # c /\ Cardinality(Upto(a)) = k - 1
    <3>1. k - 1 \in 0..n /\ (k - 1 = 0 => a = none)
      BY <1>1, <1>4
    <3>2. a \in S
      <4> HIDE DEF S
      <4> QED BY <3>1, <1>4
    <3>3. a # c
      BY <3>1, <1>1, <1>7, <1>22
    <3> QED BY <3>2, <3>3, <1>7
  <2>2. f[k] = b /\ a + 1 \in 0..c /\ a \in Int
    BY <2>1, <1>1, <1>2, <1>4, <1>22
  <2> HIDE DEF a
  <2>3. Upto(a) # Leaders
    <3> HIDE DEF Upto
    <3> QED BY <1>1, <2>1
  <2>4. PICK l \in Leaders : l >= a + 1
    BY <2>2, <2>3, <1>1
  <2>5. b \in Leaders \cup {c} /\ b >= a + 1 /\ \A m \in Leaders : m >= a + 1 => b <= m
    BY <2>2, <1>0
  <2> HIDE DEF b
  <2>6. b \in Leaders
    BY <2>4, <2>5, <1>1
  <2>7. Upto(b) = Upto(a) \cup {b} /\ b \notin Upto(a)
    BY <2>2, <2>5, <2>6, <1>1
  <2> HIDE DEF Upto
  <2>8. Cardinality(Upto(b)) = k - 1 + 1
    <3>1. IsFiniteSet(Upto(a))
      BY <1>5
    <3>2. Cardinality(Upto(b)) = Cardinality(Upto(a)) + 1
      BY ONLY <3>1, <2>7, FS_AddElement
    <3> QED BY <3>2, <2>1
  <2>9. k - 1 + 1 = k /\ k \in 0..n
    BY <1>1
  <2>10. a < b
    BY <2>2, <2>5, <2>6, <1>1
  <2> QED BY <2>1, <2>2, <2>6, <2>8, <2>9, <2>10 DEF a, b
<1>8. \A k \in 0..n : k \in P
  <2> HIDE DEF P, n
  <2> QED BY <1>1, <1>6, <1>7, UpTo
<1>9. ASSUME NEW k \in 1..n
      PROVE  f[k] \in Leaders /\ f[k] = LeaderFrom(f[k - 1] + 1)
  <2>1. k \in 0..n /\ k # 0 /\ k - 1 \in 0..n
    BY <1>1
  <2>2. k - 1 \in P /\ k \in P
    BY <2>1, <1>8
  <2> QED BY <2>1, <2>2, <1>7
<1>10. \A l \in Leaders : l <= f[n]
  <2>1. n \in P
    <3> HIDE DEF P
    <3> QED BY <1>1, <1>8
  <2>2. Upto(f[n]) = Leaders
    BY <2>1, <1>5
  <2> QED BY <2>2
<1> HIDE DEF P, Upto
<1> DEFINE Rec(s) == [i \in 1..n |-> IF i = 1 THEN LeaderFrom(0) ELSE LeaderFrom(s[i - 1] + 1)]
           g == [i \in 1..n |-> f[i]]
           starts == CHOOSE s : s = Rec(s)
<1>11. g = Rec(g)
  <2>1. ASSUME NEW i \in 1..n PROVE g[i] = Rec(g)[i]
    <3>1. CASE i = 1
      BY <3>1, <1>4, <1>9, <1>22
    <3>2. CASE i # 1
      <4>1. i - 1 \in 1..n
        BY <3>2, <1>1
      <4> HIDE DEF n
      <4>2. g[i - 1] = f[i - 1]
        BY <4>1
      <4> QED BY <3>2, <4>2, <1>9
    <3> QED BY <3>1, <3>2
  <2> HIDE DEF n
  <2> QED BY <2>1
<1>12. starts = Rec(starts)
  <2> HIDE DEF n, g
  <2> QED BY <1>11
<1>13. Split = [i \in 1..n |-> [start |-> starts[i], end |-> LeaderFrom(starts[i] + 1)]]
  BY DEF Split
<1>14. \A i \in 1..n : starts[i] = IF i = 1 THEN LeaderFrom(0) ELSE LeaderFrom(starts[i - 1] + 1)
  <2> HIDE DEF starts
  <2>1. \A i \in 1..n : starts[i] = Rec(starts)[i]
    BY <1>12
  <2> HIDE DEF n
  <2> QED BY <2>1
<1> HIDE DEF starts, Rec, g
<1> DEFINE Q == {k \in 0..n : k = 0 \/ starts[k] = f[k]}
<1>15. ASSUME NEW k \in 1..n, k - 1 \in Q PROVE k \in Q
  <2>1. f[k] = LeaderFrom(f[k - 1] + 1) /\ k \in 0..n
    BY <1>1, <1>9
  <2>2. CASE k = 1
    BY <2>1, <2>2, <1>4, <1>14, <1>22
  <2>3. CASE k # 1
    <3>1. starts[k - 1] = f[k - 1]
      BY <2>3, <1>15
    <3> QED BY <2>1, <2>3, <3>1, <1>14
  <2> QED BY <2>2, <2>3
<1>16. ASSUME NEW k \in 1..n PROVE starts[k] = f[k]
  <2>1. 0 \in Q
    BY <1>1
  <2>2. \A j \in 0..n : j \in Q
    <3> HIDE DEF Q, n
    <3> QED BY <1>1, <1>15, <2>1, UpTo
  <2> QED BY <2>2, <1>1
<1> HIDE DEF Q
<1>17. ASSUME NEW i \in 1..n
       PROVE  /\ Split[i].start = f[i] /\ Split[i].end = LeaderFrom(f[i] + 1)
              /\ f[i] \in Leaders /\ f[i] \in Nat /\ f[i] + 1 \in 0..c
  <2>1. f[i] \in Leaders /\ f[i] \in Nat /\ f[i] + 1 \in 0..c
    BY <1>1, <1>9
  <2> HIDE DEF n
  <2> QED BY <2>1, <1>13, <1>16
<1> HIDE DEF S, n
<1>18. ASSUME NEW i \in 1..n
       PROVE  /\ Split[i].start \in Leaders /\ Split[i].start \in Nat
              /\ Split[i].end \in Nat /\ Split[i].start < Split[i].end
              /\ Split[i].end <= c
  <2>1. /\ LeaderFrom(f[i] + 1) >= f[i] + 1
        /\ LeaderFrom(f[i] + 1) \in Nat /\ LeaderFrom(f[i] + 1) <= c
    BY <1>17, <1>0
  <2> QED BY <2>1, <1>17
<1>19. Split[1].start = 0
  <2>1. f[1] = LeaderFrom(0) /\ 1 \in 1..n
    BY <1>1, <1>4, <1>9, <1>22
  <2>2. LeaderFrom(0) \in Nat /\ LeaderFrom(0) <= 0
    BY <1>1, <1>0
  <2> QED BY <2>1, <2>2, <1>17
<1>20. Split[n].end = c
  <2>1. n \in 1..n
    BY <1>1
  <2>2. LeaderFrom(f[n] + 1) \in Leaders \cup {c} /\ LeaderFrom(f[n] + 1) >= f[n] + 1
    BY <2>1, <1>17, <1>0
  <2>3. LeaderFrom(f[n] + 1) \notin Leaders
    BY <2>1, <2>2, <1>1, <1>10, <1>17
  <2> QED BY <2>1, <2>2, <2>3, <1>17
<1>21. ASSUME NEW i \in 1..(n - 1) PROVE Split[i + 1].start = Split[i].end
  <2>1. i \in 1..n /\ i + 1 \in 1..n /\ (i + 1) - 1 = i
    BY <1>1
  <2> QED BY <2>1, <1>9, <1>17
<1> QED BY <1>18, <1>19, <1>20, <1>21 DEF n, c

\* The blocks lie side by side, from the first instruction to the last.
Laid ==
  /\ \A b \in BlockIds : /\ blocks[b].start \in Nat /\ blocks[b].end \in Nat
                         /\ blocks[b].start < blocks[b].end /\ blocks[b].end <= Len(code)
  /\ \A b, c \in BlockIds : \A va \in Body(b) : va \in Body(c) => b = c
  /\ \A va \in Here : \E b \in BlockIds : va \in Body(b)

LEMMA SplitLaid ==
  ASSUME prog \in Programs, SplitAndWire
  PROVE  Laid'
<1> DEFINE n == Cardinality(Leaders)
           c == Len(code)
           start(i) == Split[i].start
           end(i) == Split[i].end
<1>1. n \in Nat /\ n > 0 /\ c \in Nat /\ c > 0
  BY LeadersAreCounted, CodeFacts
<1>2. /\ \A i \in 1..n : start(i) \in Nat /\ end(i) \in Nat /\ start(i) < end(i) /\ end(i) <= c
      /\ start(1) = 0 /\ end(n) = c /\ \A i \in 1..(n - 1) : start(i + 1) = end(i)
  BY SplitFacts
<1>3. DOMAIN Split = 1..n /\ blocks' = Split /\ prog' = prog
  BY DEF Split, SplitAndWire
<1>4. /\ BlockIds' = 1..n /\ Here' = 0..(c - 1) /\ Len(code)' = c
      /\ \A b : Body(b)' = start(b)..(end(b) - 1)
      /\ \A b : blocks'[b].start = start(b) /\ blocks'[b].end = end(b)
  BY <1>3 DEF Here, code, BlockIds, Body
<1> HIDE DEF n, c, start, end
<1> DEFINE P == {k \in 0..n : \A i \in 1..n : i < k => end(i) <= start(k)}
<1>5. ASSUME NEW k \in 1..n, k - 1 \in P PROVE k \in P
  <2> SUFFICES ASSUME NEW i \in 1..n, i < k PROVE end(i) <= start(k)
    BY <1>1
  <2>1. k - 1 \in 1..(n - 1) /\ k - 1 \in 1..n /\ (k - 1) + 1 = k
    BY <1>1
  <2> DEFINE j == k - 1
  <2>2. j \in 1..(n - 1) /\ j \in 1..n /\ j + 1 = k /\ (i = j \/ i < j)
    BY <2>1
  <2>3. end(j) = start(k) /\ start(j) < end(j) /\ start(j) \in Nat /\ end(j) \in Nat
        /\ end(i) \in Nat
    <3> HIDE DEF j
    <3> QED BY <2>2, <1>2
  <2>4. i < j => end(i) <= start(j)
    BY <1>5
  <2> HIDE DEF j
  <2> QED BY <2>2, <2>3, <2>4
<1>6. \A k \in 0..n : k \in P
  <2>1. 0 \in P
    BY <1>1
  <2> HIDE DEF P
  <2> QED BY <1>1, <1>5, <2>1, UpTo
<1>7. ASSUME NEW i \in 1..n, NEW j \in 1..n, i < j PROVE end(i) <= start(j)
  <2>1. j \in P
    <3> HIDE DEF P
    <3> QED BY <1>1, <1>6
  <2> QED BY <2>1, <1>7
<1> HIDE DEF P
<1>8. ASSUME NEW i \in 1..n, NEW j \in 1..n, NEW va \in start(i)..(end(i) - 1),
             va \in start(j)..(end(j) - 1)
      PROVE  i = j
  <2>1. start(i) \in Nat /\ end(i) \in Nat /\ start(j) \in Nat /\ end(j) \in Nat
    BY <1>2
  <2>2. ~(i < j)
    BY <2>1, <1>7, <1>8
  <2>3. ~(j < i)
    BY <2>1, <1>7, <1>8
  <2> QED BY <2>2, <2>3, <1>1
<1> DEFINE Q == {va \in 0..(c - 1) : \E i \in 1..n : va \in start(i)..(end(i) - 1)}
<1>9. 0 \in Q
  <2>1. 1 \in 1..n /\ 0 \in 0..(c - 1)
    BY <1>1
  <2>2. 0 \in start(1)..(end(1) - 1)
    BY <2>1, <1>2
  <2> QED BY <2>1, <2>2
<1>10. ASSUME NEW va \in 1..(c - 1), va - 1 \in Q PROVE va \in Q
  <2>1. PICK i \in 1..n : va - 1 \in start(i)..(end(i) - 1)
    BY <1>10
  <2>2. start(i) \in Nat /\ end(i) \in Nat /\ va \in 0..(c - 1) /\ va < c
    BY <1>1, <1>2
  <2>3. CASE va # end(i)
    <3>1. va \in start(i)..(end(i) - 1)
      BY <2>1, <2>2, <2>3
    <3> QED BY <3>1, <2>2
  <2>4. CASE va = end(i)
    <3>1. i # n
      BY <2>2, <2>4, <1>1, <1>2
    <3>2. i \in 1..(n - 1) /\ i + 1 \in 1..n
      BY <3>1, <1>1
    <3>3. start(i + 1) = va /\ end(i + 1) \in Nat /\ start(i + 1) < end(i + 1)
      BY <3>2, <2>4, <1>2
    <3>4. va \in start(i + 1)..(end(i + 1) - 1)
      BY <3>3
    <3> QED BY <3>2, <3>4, <2>2
  <2> QED BY <2>3, <2>4
<1>11. \A va \in 0..(c - 1) : va \in Q
  <2> DEFINE m == c - 1
  <2>1. m \in Nat
    BY <1>1
  <2>2. 0 \in Q /\ \A va \in 1..m : va - 1 \in Q => va \in Q
    BY <1>9, <1>10
  <2> HIDE DEF Q, m
  <2>3. \A va \in 0..m : va \in Q
    BY <2>1, <2>2, UpTo
  <2> QED BY <2>3 DEF m
<1>12. \A va \in 0..(c - 1) : \E i \in 1..n : va \in start(i)..(end(i) - 1)
  BY <1>11
<1> HIDE DEF Q
<1>13. /\ \A b \in BlockIds' : /\ blocks'[b].start \in Nat /\ blocks'[b].end \in Nat
                               /\ blocks'[b].start < blocks'[b].end
                               /\ blocks'[b].end <= Len(code)'
  BY <1>2, <1>4
<1>14. \A a, b \in BlockIds' : \A va \in Body(a)' : va \in Body(b)' => a = b
  BY <1>4, <1>8
<1>15. \A va \in Here' : \E b \in BlockIds' : va \in Body(b)'
  BY <1>4, <1>12
<1> QED BY <1>13, <1>14, <1>15 DEF Laid

LaidInv == stage # "none" => Laid

LEMMA LaidStep ==
  ASSUME ShapeInv, LaidInv, [SsaNext]_vars
  PROVE  LaidInv'
<1>1. CASE SplitAndWire
  BY <1>1, SplitLaid DEF LaidInv, ShapeInv
<1>2. CASE UNCHANGED <<prog, blocks>> /\ (stage' # "none" => stage # "none")
  BY <1>2 DEF LaidInv, Laid, BlockIds, Body, Here, code
<1>3. SplitAndWire \/ (UNCHANGED <<prog, blocks>> /\ (stage' # "none" => stage # "none"))
  BY DEF SsaNext, FlowNext, StartOrder, Descend, Leave, StartDominance, VisitBlock, EndRound,
         AgainIf, ClassifyLoops, RecoverSwitches, ClassifyRegions, Summarise, SolveLiveness,
         PlacePhis, FoldPrologue, MapStackSlots, ReconstructCalls, vars, flowVars
<1> QED BY <1>1, <1>2, <1>3

\* ssa_fold_prologue goes through a block from its start.
LEMMA ShadowFacts ==
  ASSUME Laid, NEW b \in BlockIds
  PROVE  /\ Shadow(b)[blocks[b].start] = [r \in 0..31 |-> NoConst]
         /\ \A va \in Body(b) : va # blocks[b].start =>
              Shadow(b)[va] = Known(At(va - 1), Shadow(b)[va - 1])
<1> DEFINE s == blocks[b].start
           m == blocks[b].end - 1 - s
           zero == [r \in 0..31 |-> NoConst]
           Value(f, va) == IF va = s THEN zero ELSE Known(At(va - 1), f[va - 1])
           Good(k, f) == \A va \in s..(s + k) : f[va] = Value(f, va)
           P == {k \in 0..m : \E f : Good(k, f)}
<1>1. s \in Nat /\ m \in Nat /\ Body(b) = s..(s + m) /\ s \in Body(b)
  <2>1. s \in Nat /\ blocks[b].end \in Nat /\ s < blocks[b].end
    BY DEF Laid
  <2> QED BY <2>1 DEF Body
<1> HIDE DEF s, m, zero
<1>2. 0 \in P
  <2> DEFINE f == [va \in {s} |-> zero]
  <2>1. Good(0, f)
    BY <1>1
  <2> HIDE DEF Good, f
  <2> QED BY <2>1, <1>1
<1>3. ASSUME NEW k \in 1..m, k - 1 \in P PROVE k \in P
  <2>1. PICK f : Good(k - 1, f)
    BY <1>3
  <2> DEFINE g == [va \in s..(s + k) |-> IF va = s + k THEN Value(f, va) ELSE f[va]]
  <2>2. ASSUME NEW va \in s..(s + k) PROVE g[va] = Value(g, va)
    <3>1. CASE va = s
      <4>1. va \in s..(s + (k - 1)) /\ va # s + k
        BY <3>1, <1>1
      <4>2. g[va] = f[va] /\ f[va] = zero
        BY <2>1, <3>1, <4>1
      <4> QED BY <3>1, <4>2
    <3>2. CASE va # s
      <4>1. va - 1 \in s..(s + (k - 1)) /\ va - 1 # s + k /\ va - 1 \in s..(s + k)
        BY <3>2, <1>1
      <4>2. g[va - 1] = f[va - 1]
        BY <4>1
      <4>3. Value(g, va) = Value(f, va)
        BY <3>2, <4>2
      <4>4. CASE va = s + k
        BY <4>3, <4>4
      <4>5. CASE va # s + k
        <5>1. va \in s..(s + (k - 1))
          BY <4>5, <1>1
        <5>2. g[va] = f[va] /\ f[va] = Value(f, va)
          BY <2>1, <4>5, <5>1
        <5> QED BY <4>3, <5>2
      <4> QED BY <4>4, <4>5
    <3> QED BY <3>1, <3>2
  <2>3. Good(k, g)
    BY <2>2
  <2> HIDE DEF Good, g
  <2> QED BY <2>3
<1>4. m \in P
  <2> HIDE DEF P
  <2> QED BY <1>1, <1>2, <1>3, UpTo
<1>5. PICK f : Good(m, f)
  BY <1>4
<1> HIDE DEF P
<1> DEFINE h == [va \in Body(b) |-> f[va]]
           Rec(g) == [va \in Body(b) |-> Value(g, va)]
           known == CHOOSE g : g = Rec(g)
<1>6. h = Rec(h)
  <2>1. ASSUME NEW va \in Body(b) PROVE f[va] = Value(h, va)
    <3>1. f[va] = Value(f, va)
      BY <1>1, <1>5
    <3>2. CASE va = s
      BY <3>1, <3>2
    <3>3. CASE va # s
      <4>1. va - 1 \in Body(b)
        BY <3>3, <1>1
      <4> QED BY <3>1, <3>3, <4>1
    <3> QED BY <3>2, <3>3
  <2> HIDE DEF Value
  <2> QED BY <2>1
<1>7. known = Rec(known)
  <2> HIDE DEF h, Rec
  <2> QED BY <1>6
<1>8. Shadow(b) = known
  BY DEF Shadow, s, zero
<1> HIDE DEF known
<1>9. \A va \in Body(b) : known[va] = Value(known, va)
  <2> HIDE DEF Value
  <2> QED BY <1>7
<1> QED BY <1>1, <1>8, <1>9 DEF s, zero

\* The registers before an instruction of a block.
FileBefore(b, va, v) ==
  IF va = blocks[b].start THEN [r \in 0..31 |-> v] ELSE FileAfter(b, va - 1, v)

\* And so does the processor.
LEMMA FileFacts ==
  ASSUME Laid, NEW b \in BlockIds, NEW v
  PROVE  \A va \in Body(b) : FileAfter(b, va, v) = Executed(At(va), FileBefore(b, va, v), v)
<1> DEFINE s == blocks[b].start
           m == blocks[b].end - 1 - s
           zero == [r \in 0..31 |-> v]
           Value(f, va) == Executed(At(va), IF va = s THEN zero ELSE f[va - 1], v)
           Good(k, f) == \A va \in s..(s + k) : f[va] = Value(f, va)
           P == {k \in 0..m : \E f : Good(k, f)}
<1>1. s \in Nat /\ m \in Nat /\ Body(b) = s..(s + m) /\ s \in Body(b)
  <2>1. s \in Nat /\ blocks[b].end \in Nat /\ s < blocks[b].end
    BY DEF Laid
  <2> QED BY <2>1 DEF Body
<1> HIDE DEF s, m, zero
<1>2. 0 \in P
  <2> DEFINE f == [va \in {s} |-> Executed(At(va), zero, v)]
  <2>1. Good(0, f)
    BY <1>1
  <2> HIDE DEF Good, f
  <2> QED BY <2>1, <1>1
<1>3. ASSUME NEW k \in 1..m, k - 1 \in P PROVE k \in P
  <2>1. PICK f : Good(k - 1, f)
    BY <1>3
  <2> DEFINE g == [va \in s..(s + k) |-> IF va = s + k THEN Value(f, va) ELSE f[va]]
  <2>2. ASSUME NEW va \in s..(s + k) PROVE g[va] = Value(g, va)
    <3>1. CASE va = s
      <4>1. va \in s..(s + (k - 1)) /\ va # s + k
        BY <3>1, <1>1
      <4>2. g[va] = f[va] /\ f[va] = Value(f, va)
        BY <2>1, <4>1
      <4> QED BY <3>1, <4>2
    <3>2. CASE va # s
      <4>1. va - 1 \in s..(s + (k - 1)) /\ va - 1 # s + k /\ va - 1 \in s..(s + k)
        BY <3>2, <1>1
      <4>2. g[va - 1] = f[va - 1]
        BY <4>1
      <4>3. Value(g, va) = Value(f, va)
        BY <3>2, <4>2
      <4>4. CASE va = s + k
        BY <4>3, <4>4
      <4>5. CASE va # s + k
        <5>1. va \in s..(s + (k - 1))
          BY <4>5, <1>1
        <5>2. g[va] = f[va] /\ f[va] = Value(f, va)
          BY <2>1, <4>5, <5>1
        <5> QED BY <4>3, <5>2
      <4> QED BY <4>4, <4>5
    <3> QED BY <3>1, <3>2
  <2>3. Good(k, g)
    BY <2>2
  <2> HIDE DEF Good, g
  <2> QED BY <2>3
<1>4. m \in P
  <2> HIDE DEF P
  <2> QED BY <1>1, <1>2, <1>3, UpTo
<1>5. PICK f : Good(m, f)
  BY <1>4
<1> HIDE DEF P
<1> DEFINE h == [va \in Body(b) |-> f[va]]
           Rec(g) == [va \in Body(b) |-> Value(g, va)]
           known == CHOOSE g : g = Rec(g)
<1>6. h = Rec(h)
  <2>1. ASSUME NEW va \in Body(b) PROVE f[va] = Value(h, va)
    <3>1. f[va] = Value(f, va)
      BY <1>1, <1>5
    <3>2. CASE va = s
      BY <3>1, <3>2
    <3>3. CASE va # s
      <4>1. va - 1 \in Body(b)
        BY <3>3, <1>1
      <4> QED BY <3>1, <3>3, <4>1
    <3> QED BY <3>2, <3>3
  <2> HIDE DEF Value
  <2> QED BY <2>1
<1>7. known = Rec(known)
  <2> HIDE DEF h, Rec
  <2> QED BY <1>6
<1>8. \A va : FileAfter(b, va, v) = known[va]
  BY DEF FileAfter, s, zero
<1> HIDE DEF known
<1>9. \A va \in Body(b) : known[va] = Value(known, va)
  <2> HIDE DEF Value
  <2> QED BY <1>7
<1>10. \A va : FileBefore(b, va, v) = IF va = s THEN zero ELSE known[va - 1]
  BY <1>8 DEF FileBefore, s, zero
<1> QED BY <1>8, <1>9, <1>10

\* What is known of the registers in R is so.
Agreed(known, file, R) ==
  /\ DOMAIN known = 0..31 /\ DOMAIN file = 0..31
  /\ \A r \in R : known[r] # NoConst => file[r] = known[r]

\* The effects the processor has and the analysis knows of are what the
\* analysis lists.
LEMMA EffectsListed ==
  ASSUME NEW in \in Instructions
  PROVE  Writes(in) \ Unseen(in) \subseteq GprDef(in)
<1>1. CASE in.op \in Followed
  BY <1>1 DEF Writes, Followed, GprDef, Arithmetic, Loads, WritesRd, WritesRa, WritesBoth
<1>2. CASE in.op = "LMW"
  BY <1>2 DEF Unseen, Followed, GprDef, Arithmetic, Loads
<1>3. CASE in.op \in {"BL", "BLA"}
  BY <1>3 DEF Unseen, Followed, GprDef, Arithmetic, Loads
<1>4. CASE in.op \notin Followed \cup {"LMW", "BL", "BLA"}
  BY <1>4 DEF Unseen
<1> QED BY <1>1, <1>2, <1>3, <1>4

LEMMA FoldedIsComputed ==
  ASSUME NEW in \in Instructions, NEW known, NEW file, Agreed(known, file, GprUses(in)),
         NEW unknown, Folded(in, known) # NoConst
  PROVE  /\ Writes(in) = GprDef(in) /\ GprDef(in) \subseteq 0..31
         /\ \A r \in GprDef(in) : Executed(in, file, unknown)[r] = Folded(in, known)
<1>1. /\ in.rd \in 0..31 /\ in.ra \in 0..31 /\ in.imm \in Int
      /\ Half \in Int /\ in.imm * Half \in Int
  BY HalfAssumption DEF Instructions
<1>2. in.op \in {"ADDIS", "ADDI", "ORI"}
  BY DEF Folded
<1>3. Writes(in) = GprDef(in)
  BY <1>2 DEF Writes, GprDef, Arithmetic, Loads, WritesRd, WritesRa, WritesBoth
<1>4. GprDef(in) \subseteq 0..31
  BY <1>1, <1>2 DEF GprDef, Arithmetic, Loads
<1>5. ASSUME NEW r \in GprDef(in)
      PROVE  Executed(in, file, unknown)[r] = Folded(in, known)
  <2> DEFINE base == IF in.ra = 0 THEN 0 ELSE file[in.ra]
  <2>1. /\ \A w : [q \in DOMAIN file |-> IF q \in Writes(in) THEN w ELSE file[q]][r] = w
    BY <1>3, <1>4, <1>5 DEF Agreed
  <2>2. CASE in.op = "ADDIS"
    <3>1. Executed(in, file, unknown)[r] = (base + in.imm * Half) % Word
      BY <2>1, <2>2 DEF Executed
    <3>2. in.ra = 0 => base + in.imm * Half = in.imm * Half
      BY <1>1
    <3>3. in.ra # 0 => known[in.ra] # NoConst /\ in.ra \in GprUses(in)
      BY <2>2 DEF Folded, GprUses, Arithmetic
    <3>4. in.ra # 0 => base = known[in.ra]
      BY <1>1, <3>3 DEF Agreed
    <3> HIDE DEF base
    <3> QED BY <2>2, <3>1, <3>2, <3>3, <3>4 DEF Folded
  <2>3. CASE in.op = "ADDI"
    <3>1. Executed(in, file, unknown)[r] = (base + in.imm) % Word
      BY <2>1, <2>3 DEF Executed
    <3>2. in.ra = 0 => base + in.imm = in.imm
      BY <1>1
    <3>3. in.ra # 0 => known[in.ra] # NoConst /\ in.ra \in GprUses(in)
      BY <2>3 DEF Folded, GprUses, Arithmetic
    <3>4. in.ra # 0 => base = known[in.ra]
      BY <1>1, <3>3 DEF Agreed
    <3> HIDE DEF base
    <3> QED BY <2>3, <3>1, <3>2, <3>3, <3>4 DEF Folded
  <2>4. CASE in.op = "ORI"
    <3>1. Executed(in, file, unknown)[r] = BitOr(file[in.rd], in.imm)
      BY <2>1, <2>4 DEF Executed
    <3>2. known[in.rd] # NoConst /\ Folded(in, known) = BitOr(known[in.rd], in.imm)
      BY <2>4 DEF Folded
    <3>3. in.rd \in GprUses(in)
      BY <2>4 DEF GprUses, Arithmetic, Loads, Stores
    <3>4. file[in.rd] = known[in.rd]
      BY <3>2, <3>3 DEF Agreed
    <3> QED BY <3>1, <3>2, <3>4
  <2> QED BY <1>2, <2>2, <2>3, <2>4
<1> QED BY <1>3, <1>4, <1>5

\* The registers that are not stale before x.
Fresh(b, x) == {r \in 0..31 : ~Stale(b, x, r)}

\* A register that is fresh after an instruction was written in a way the
\* analysis sees, or not at all and was fresh before.
LEMMA FreshStep ==
  ASSUME prog \in Programs, Laid, NEW b \in BlockIds, NEW y \in Body(b),
         NEW r \in Fresh(b, y + 1), r \notin GprDef(At(y))
  PROVE  r \notin Writes(At(y)) /\ r \in Fresh(b, y)
<1> DEFINE s == blocks[b].start
<1>1. s \in Nat /\ y \in s..y /\ y \in Nat /\ y \in Here
  <2>1. /\ s \in Nat /\ blocks[b].end \in Nat /\ blocks[b].end <= Len(code)
        /\ y \in s..(blocks[b].end - 1)
    BY DEF Laid, Body
  <2>2. Len(code) \in Nat /\ Here = 0..(Len(code) - 1)
    BY CodeFacts
  <2> HIDE DEF s
  <2> QED BY <2>1, <2>2
<1>2. r \notin Writes(At(y)) \ Unseen(At(y))
  BY <1>1, CodeFacts, EffectsListed
<1>3. r \in 0..31 /\ ~Stale(b, y + 1, r)
  BY DEF Fresh
<1> HIDE DEF s
<1>4. r \notin Unseen(At(y))
  <2> SUFFICES ASSUME r \in Unseen(At(y)) PROVE Stale(b, y + 1, r)
    BY <1>3
  <2>1. y \in s .. (y + 1) - 1 /\ \A w \in y + 1 .. (y + 1) - 1 : FALSE
    BY <1>1
  <2> QED BY <2>1 DEF Stale, s
<1>5. ~Stale(b, y, r)
  <2> SUFFICES ASSUME NEW v \in s .. y - 1, r \in Unseen(At(v)),
                      \A w \in v + 1 .. y - 1 : r \notin Writes(At(w)) \ Unseen(At(w))
               PROVE  Stale(b, y + 1, r)
    BY <1>3 DEF Stale, s
  <2>1. v \in s .. (y + 1) - 1
    BY <1>1
  <2>2. ASSUME NEW w \in v + 1 .. (y + 1) - 1
        PROVE  r \notin Writes(At(w)) \ Unseen(At(w))
    <3>1. w = y \/ w \in v + 1 .. y - 1
      BY <1>1
    <3> QED BY <3>1, <1>2
  <2> QED BY <2>1, <2>2 DEF Stale, s
<1> QED BY <1>2, <1>3, <1>4, <1>5 DEF Fresh

\* No instruction before va that gets a constant reads what is stale.
NothingStale(b, va) ==
  \A x \in blocks[b].start .. va - 1 :
    Folded(At(x), Shadow(b)[x]) # NoConst => GprUses(At(x)) \subseteq Fresh(b, x)

LEMMA ShadowIsSo ==
  ASSUME prog \in Programs, Laid, NEW b \in BlockIds, NEW va \in Body(b), NEW v,
         NothingStale(b, va)
  PROVE  Agreed(Shadow(b)[va], FileBefore(b, va, v), Fresh(b, va))
<1> DEFINE s == blocks[b].start
           m == va - s
           P == {k \in 0..m : Agreed(Shadow(b)[s + k], FileBefore(b, s + k, v), Fresh(b, s + k))}
<1>1. /\ s \in Nat /\ va \in Nat /\ m \in Nat /\ s + m = va
      /\ \A k \in 0..m : s + k \in Body(b) /\ s + k \in Here
  <2>1. s \in Nat /\ blocks[b].end \in Nat /\ blocks[b].end <= Len(code)
    BY DEF Laid
  <2>2. va \in s..(blocks[b].end - 1)
    BY DEF Body
  <2>3. Len(code) \in Nat /\ Here = 0..(Len(code) - 1)
    BY CodeFacts
  <2> HIDE DEF s
  <2>4. Body(b) = s..(blocks[b].end - 1)
    BY DEF Body, s
  <2> QED BY <2>1, <2>2, <2>3, <2>4
<1>2. 0 \in P
  <2>1. s + 0 = s
    BY <1>1
  <2>2. Shadow(b)[s] = [r \in 0..31 |-> NoConst] /\ FileBefore(b, s, v) = [r \in 0..31 |-> v]
    BY ShadowFacts DEF FileBefore
  <2> HIDE DEF s
  <2>3. Agreed(Shadow(b)[s], FileBefore(b, s, v), Fresh(b, s))
    BY <2>2 DEF Agreed, Fresh
  <2> HIDE DEF m
  <2> QED BY <2>1, <2>3, <1>1
<1>3. ASSUME NEW k \in 1..m, k - 1 \in P PROVE k \in P
  <2> DEFINE x == s + k
             y == s + (k - 1)
  <2>1. /\ k \in 0..m /\ k - 1 \in 0..m /\ x - 1 = y /\ y + 1 = x /\ x # s
        /\ y \in s..(va - 1)
    BY <1>1
  <2>2. x \in Body(b) /\ y \in Body(b) /\ y \in Here
    BY <1>1, <2>1
  <2>3. Agreed(Shadow(b)[y], FileBefore(b, y, v), Fresh(b, y))
    BY <1>3
  <2>4. Folded(At(y), Shadow(b)[y]) # NoConst => GprUses(At(y)) \subseteq Fresh(b, y)
    BY <2>1 DEF NothingStale
  <2> HIDE DEF x, y, P, m
  <2>5. Shadow(b)[x] = Known(At(y), Shadow(b)[y])
    BY <2>1, <2>2, ShadowFacts
  <2>6. FileBefore(b, x, v) = Executed(At(y), FileBefore(b, y, v), v)
    <3>1. FileBefore(b, x, v) = FileAfter(b, y, v)
      BY <2>1 DEF FileBefore
    <3> QED BY <3>1, <2>2, FileFacts
  <2>7. At(y) \in Instructions
    BY <2>2, CodeFacts
  <2> DEFINE known == Shadow(b)[y]
             file == FileBefore(b, y, v)
  <2>8. DOMAIN Shadow(b)[x] = 0..31 /\ DOMAIN FileBefore(b, x, v) = 0..31
    BY <2>3, <2>5, <2>6 DEF Agreed, Known, Executed
  <2>9. ASSUME NEW r \in Fresh(b, x), Shadow(b)[x][r] # NoConst
        PROVE  FileBefore(b, x, v)[r] = Shadow(b)[x][r]
    <3>1. r \in 0..31 /\ DOMAIN known = 0..31 /\ DOMAIN file = 0..31
      BY <2>3 DEF Agreed, Fresh
    <3>2. CASE r \in GprDef(At(y))
      <4>1. Shadow(b)[x][r] = Folded(At(y), known)
        BY <2>5, <3>1, <3>2 DEF Known
      <4>2. Agreed(known, file, GprUses(At(y)))
        BY <2>3, <2>4, <2>9, <4>1 DEF Agreed
      <4> HIDE DEF known, file
      <4>3. Executed(At(y), file, v)[r] = Folded(At(y), known)
        BY <2>7, <2>9, <3>2, <4>1, <4>2, FoldedIsComputed
      <4> QED BY <4>1, <4>3, <2>6 DEF file
    <3>3. CASE r \notin GprDef(At(y))
      <4>1. r \notin Writes(At(y)) /\ r \in Fresh(b, y)
        BY <2>1, <2>2, <2>9, <3>3, FreshStep
      <4>2. Shadow(b)[x][r] = known[r]
        BY <2>5, <3>1, <3>3 DEF Known
      <4>3. FileBefore(b, x, v)[r] = file[r]
        BY <2>6, <3>1, <4>1 DEF Executed
      <4> QED BY <2>3, <2>9, <4>1, <4>2, <4>3 DEF Agreed
    <3> QED BY <3>2, <3>3
  <2>10. Agreed(Shadow(b)[x], FileBefore(b, x, v), Fresh(b, x))
    BY <2>8, <2>9 DEF Agreed
  <2> QED BY <2>1, <2>10 DEF P, x
<1>4. m \in P
  <2> HIDE DEF P, m
  <2> QED BY <1>1, <1>2, <1>3, UpTo
<1> QED BY <1>1, <1>4

\* Up to va, no instruction with a constant reads a register that is stale.
Guarded(b, va) ==
  \A x \in DOMAIN consts \cap (blocks[b].start .. va) :
    \A q \in GprUses(At(x)) : ~Stale(b, x, q)

Computed ==
  \A b \in BlockIds : \A va \in Body(b) \cap DOMAIN consts : \A r \in Writes(At(va)) :
    Guarded(b, va) => \A v \in {0, 1} : FileAfter(b, va, v)[r] = consts[va]

LEMMA FoldsRight ==
  ASSUME prog \in Programs, Laid, FoldPrologue
  PROVE  Computed'
<1>1. UNCHANGED <<prog, blocks>>
  BY DEF FoldPrologue
<1>2. /\ BlockIds' = BlockIds /\ \A b : Body(b)' = Body(b)
      /\ \A va : At(va)' = At(va)
      /\ \A b, va, v : FileAfter(b, va, v)' = FileAfter(b, va, v)
      /\ \A b, x, q : Stale(b, x, q)' = Stale(b, x, q)
  BY <1>1 DEF BlockIds, Body, At, code, FileAfter, Stale
<1> DEFINE known == [b \in BlockIds |-> Shadow(b)]
           result == [va \in Here |-> LET b == CHOOSE x \in BlockIds : va \in Body(x)
                                      IN  Folded(At(va), known[b][va])]
           told == {va \in Here : result[va] # NoConst}
<1>3. consts' = Restrict(result, told)
  BY DEF FoldPrologue
<1>4. DOMAIN consts' = told /\ \A va \in DOMAIN consts' : consts'[va] = result[va]
  <2>1. told \subseteq DOMAIN result
    OBVIOUS
  <2> HIDE DEF result, told
  <2> QED BY <1>3, <2>1 DEF Restrict
<1>5. ASSUME NEW b \in BlockIds, NEW va \in Body(b), va \in Here
      PROVE  /\ va \in DOMAIN consts' <=> Folded(At(va), Shadow(b)[va]) # NoConst
             /\ va \in DOMAIN consts' => consts'[va] = Folded(At(va), Shadow(b)[va])
             /\ At(va) \in Instructions
  <2>1. b = CHOOSE x \in BlockIds : va \in Body(x)
    BY DEF Laid
  <2>2. result[va] = Folded(At(va), known[b][va])
    BY <1>5, <2>1
  <2>3. known[b][va] = Shadow(b)[va]
    OBVIOUS
  <2>4. va \in told <=> result[va] # NoConst
    BY <1>5
  <2> HIDE DEF result, known, told
  <2> QED BY <1>4, <1>5, <2>2, <2>3, <2>4, CodeFacts
<1> HIDE DEF result, known, told
<1>6. ASSUME NEW b \in BlockIds, NEW va \in Body(b), va \in DOMAIN consts',
             NEW r \in Writes(At(va)), NEW v,
             \A x \in DOMAIN consts' \cap (blocks[b].start .. va) :
               \A q \in GprUses(At(x)) : ~Stale(b, x, q)
      PROVE  FileAfter(b, va, v)[r] = consts'[va]
  <2> DEFINE s == blocks[b].start
  <2>1. /\ \A x \in s..va : x \in Body(b) /\ x \in Here
        /\ va \in s..va /\ \A x \in s..(va - 1) : x \in s..va
    <3>1. s \in Nat /\ blocks[b].end \in Nat /\ blocks[b].end <= Len(code)
      BY DEF Laid
    <3>2. va \in s..(blocks[b].end - 1)
      BY DEF Body
    <3>3. Len(code) \in Nat /\ Here = 0..(Len(code) - 1)
      BY CodeFacts
    <3> HIDE DEF s
    <3>4. Body(b) = s..(blocks[b].end - 1)
      BY DEF Body, s
    <3> QED BY <3>1, <3>2, <3>3, <3>4
  <2>2. \A x \in s..va : At(x) \in Instructions
    BY <2>1, <1>5
  <2>3. \A x \in s..va :
          Folded(At(x), Shadow(b)[x]) # NoConst => GprUses(At(x)) \subseteq Fresh(b, x)
    <3> SUFFICES ASSUME NEW x \in s..va, Folded(At(x), Shadow(b)[x]) # NoConst,
                        NEW q \in GprUses(At(x))
                 PROVE  q \in Fresh(b, x)
      OBVIOUS
    <3>1. x \in DOMAIN consts'
      BY <2>1, <1>5
    <3>2. ~Stale(b, x, q)
      BY <3>1, <1>6
    <3>3. q \in 0..31
      BY <2>2 DEF Instructions, GprUses, Arithmetic, Loads, Stores
    <3> QED BY <3>2, <3>3 DEF Fresh
  <2>4. NothingStale(b, va)
    BY <2>1, <2>3 DEF NothingStale
  <2>5. Agreed(Shadow(b)[va], FileBefore(b, va, v), Fresh(b, va))
    BY <2>4, ShadowIsSo
  <2>6. FileAfter(b, va, v) = Executed(At(va), FileBefore(b, va, v), v)
    BY FileFacts
  <2>7. /\ Folded(At(va), Shadow(b)[va]) # NoConst
        /\ consts'[va] = Folded(At(va), Shadow(b)[va])
    BY <1>5, <1>6, <2>1
  <2>8. Agreed(Shadow(b)[va], FileBefore(b, va, v), GprUses(At(va)))
    BY <2>1, <2>3, <2>5, <2>7 DEF Agreed
  <2>9. At(va) \in Instructions
    BY <2>1, <2>2
  <2> HIDE DEF s
  <2> QED BY <1>6, <2>6, <2>7, <2>8, <2>9, FoldedIsComputed
<1>7. \A b, va : Guarded(b, va)' =
        (\A x \in DOMAIN consts' \cap (blocks[b].start .. va) :
           \A q \in GprUses(At(x)) : ~Stale(b, x, q))
  BY <1>1, <1>2 DEF Guarded
<1>8. \A va : Writes(At(va))' = Writes(At(va))
  BY <1>2 DEF Writes
<1> SUFFICES ASSUME NEW b \in BlockIds, NEW va \in Body(b), va \in DOMAIN consts',
                    NEW r \in Writes(At(va)), Guarded(b, va)', NEW v \in {0, 1}
             PROVE  FileAfter(b, va, v)[r] = consts'[va]
  BY <1>2, <1>8 DEF Computed
<1> QED BY <1>6, <1>7

ConstInv == stage \in {"constants", "slots", "ssa"} => Computed

\* ssa_fold_prologue: the constant attached to an instruction is what the
\* instruction computes, for every function, unless one that got a constant, up
\* to it, reads a register that was changed unseen.
THEOREM ConstantsAreRight == SsaSpec => []ConstantsAreComputed
<1>1. SsaInit => LaidInv /\ ConstInv
  BY DEF SsaInit, FlowInit, LaidInv, ConstInv
<1>2. ASSUME FlowInv, LaidInv, ConstInv, [SsaNext]_vars
      PROVE  LaidInv' /\ ConstInv'
  <2>1. LaidInv'
    BY <1>2, LaidStep DEF FlowInv
  <2> SUFFICES ConstInv'
    BY <2>1
  <2>2. CASE FoldPrologue
    <3>1. Laid /\ prog \in Programs
      BY <1>2, <2>2 DEF FoldPrologue, LaidInv, FlowInv, ShapeInv
    <3> QED BY <2>2, <3>1, FoldsRight DEF ConstInv
  <2>3. CASE stage \in {"constants", "slots", "ssa"} /\ UNCHANGED <<prog, blocks, consts>>
    <3>1. /\ BlockIds' = BlockIds /\ \A b : Body(b)' = Body(b)
          /\ \A va : At(va)' = At(va)
          /\ \A b, va, v : FileAfter(b, va, v)' = FileAfter(b, va, v)
          /\ \A b, va : Guarded(b, va)' = Guarded(b, va)
      BY <2>3 DEF BlockIds, Body, At, code, FileAfter, Guarded, Stale
    <3>2. Computed' = Computed
      BY <2>3, <3>1 DEF Computed
    <3> QED BY <1>2, <2>3, <3>2 DEF ConstInv
  <2>4. CASE stage' \notin {"constants", "slots", "ssa"}
    BY <2>4 DEF ConstInv
  <2>5. \/ FoldPrologue
        \/ stage \in {"constants", "slots", "ssa"} /\ UNCHANGED <<prog, blocks, consts>>
        \/ stage' \notin {"constants", "slots", "ssa"}
    BY <1>2
       DEF SsaNext, FlowNext, SplitAndWire, StartOrder, Descend, Leave, StartDominance,
           VisitBlock, EndRound, AgainIf, ClassifyLoops, RecoverSwitches, ClassifyRegions,
           Summarise, SolveLiveness, PlacePhis, MapStackSlots, ReconstructCalls,
           vars, flowVars, ssaOwn
  <2> QED BY <2>2, <2>3, <2>4, <2>5
<1>3. ConstInv => ConstantsAreComputed
  BY DEF ConstInv, Computed, Guarded, ConstantsAreComputed
<1> QED BY <1>1, <1>2, <1>3, FlowInvariant, PTL DEF SsaSpec

-----------------------------------------------------------------------------
(* Phi functions *)

\* Once the dominators are exact, what has one is what can be reached.
LEMMA ReachedIsPlaced ==
  ASSUME Settling, Exact
  PROVE  Reached = Placed
<1>1. Placed \subseteq Reached /\ Entry \in Placed
  BY PlacedFacts
<1>2. ASSUME NEW b \in Reached PROVE b \in Placed
  <2> SUFFICES ASSUME b \notin Placed PROVE FALSE
    OBVIOUS
  <2>1. b \in BlockIds /\ Entry \in BlockIds /\ NoBlock \notin BlockIds
    BY GraphFacts DEF Reached, Reachable, Without, Settling
  <2>2. Dom(Entry, b)
    <3>1. ClosedWithout({}, DominanceGraph, Entry)
      BY DEF ClosedWithout
    <3>2. b \notin Without(BlockIds, DominanceGraph, Entry)
      BY <3>1, WithoutLeast
    <3> QED BY <3>2 DEF Dom, Dominates, Reached
  <2>3. Entry \in Chain(idom, b)
    BY <2>1, <2>2 DEF Exact, IsAbove
  <2>4. Chain(idom, b) = {b}
    BY <2>1, ChainFacts
  <2> QED BY <2>3, <2>4, <1>1
<1> QED BY <1>1, <1>2

\* The walk of compute_df, one step.
LEMMA BelowFacts ==
  ASSUME Settling, NEW stop
  PROVE  \A x \in Placed :
           Below(x, stop) = IF x = stop THEN {} ELSE IF x = Entry THEN {x}
                            ELSE {x} \cup Below(idom[x], stop)
<1> DEFINE D == BlockIds \cup {NoBlock}
           end(x) == x \in {stop, NoBlock}
           last == {x \in D : end(x) \/ idom[x] = x}
           N == Len(order) + 1
           size == [x \in D |-> IF x = NoBlock THEN 0
                                ELSE IF x \in Placed THEN Position(x) ELSE 1]
           base == [x \in D |-> IF end(x) THEN {} ELSE {x}]
           next == [x \in D |-> IF x \in last THEN x ELSE idom[x]]
           step == [x \in D |-> [T \in SUBSET D |-> {x} \cup T]]
           Rec(f) == [x \in D |-> IF end(x) THEN {} ELSE IF idom[x] = x THEN {x}
                                  ELSE {x} \cup f[idom[x]]]
<1>1. /\ NoBlock \notin BlockIds /\ idom \in [BlockIds -> BlockIds \cup {NoBlock}]
      /\ Placed \subseteq BlockIds
  BY GraphFacts, PlacedFacts DEF Settling, IdomInv
<1>2. N \in Nat /\ size \in [D -> 0..N]
  <2>1. \A x \in Placed : Position(x) \in 1..Len(order)
    BY PlacedFacts
  <2>2. Len(order) \in Nat
    BY PlacedFacts
  <2> QED BY <2>1, <2>2
<1>3. ASSUME NEW x \in D \ last
      PROVE  idom[x] \in D /\ next[x] = idom[x] /\ size[next[x]] < size[x]
  <2>1. x \in BlockIds /\ idom[x] # x /\ idom[x] \in D
    BY <1>1, <1>3
  <2>2. CASE x \in Placed
    <3>1. /\ idom[x] \in Placed /\ Position(idom[x]) < Position(x)
          /\ idom[x] # NoBlock /\ x # NoBlock
      BY <2>1, <2>2, <1>1, PlacedFacts
    <3> QED BY <2>1, <2>2, <3>1, <1>3
  <2>3. CASE x \notin Placed
    <3>1. idom[x] = NoBlock /\ x # NoBlock
      BY <2>1, <2>3, <1>1, PlacedFacts
    <3> QED BY <2>1, <2>3, <3>1, <1>3
  <2> QED BY <2>2, <2>3
<1>4. base \in [D -> SUBSET D] /\ step \in [D -> [SUBSET D -> SUBSET D]]
  OBVIOUS
<1>5. next \in [D -> D]
  <2>1. \A x \in D : x \notin last => idom[x] \in D
    BY <1>3
  <2> HIDE DEF last, D
  <2> QED BY <2>1
<1>6. PICK f : Follows(f, D, SUBSET D, last, base, next, step)
  <2>1. \A x \in D \ last : size[next[x]] < size[x]
    BY <1>3
  <2>2. Descends(D, SUBSET D, N, size, last, base, next, step)
    <3> HIDE DEF D, N, size, last, base, next, step
    <3> QED BY <1>2, <1>4, <1>5, <2>1 DEF Descends
  <2> HIDE DEF D, N, size, last, base, next, step
  <2> QED BY ONLY <2>2, DescentExists
<1>7. f = Rec(f)
  <2>1. ASSUME NEW x \in D PROVE f[x] = Rec(f)[x]
    <3>1. CASE x \in last
      <4>1. f[x] = base[x]
        BY <3>1, <1>6 DEF Follows
      <4> QED BY <3>1, <4>1
    <3>2. CASE x \notin last
      <4>1. next[x] = idom[x] /\ f[idom[x]] \in SUBSET D
        BY <3>2, <1>3, <1>6 DEF Follows
      <4>2. f[x] = step[x][f[next[x]]]
        BY <3>2, <1>6 DEF Follows
      <4> QED BY <3>2, <4>1, <4>2
    <3> QED BY <3>1, <3>2
  <2>2. f = [x \in D |-> f[x]]
    BY <1>6 DEF Follows
  <2> HIDE DEF D, end
  <2> QED BY <2>1, <2>2
<1> DEFINE g == CHOOSE g : g = Rec(g)
<1>8. g = Rec(g)
  <2> HIDE DEF Rec
  <2> QED BY <1>7
<1>9. \A x : Below(x, stop) = g[x]
  BY DEF Below
<1>10. \A x \in D : g[x] = IF end(x) THEN {} ELSE IF idom[x] = x THEN {x}
                          ELSE {x} \cup g[idom[x]]
  <2> HIDE DEF g, end
  <2> QED BY <1>8
<1> HIDE DEF g
<1>11. \A x \in Placed : x \in D /\ x # NoBlock /\ (idom[x] = x <=> x = Entry)
  BY <1>1, PlacedFacts
<1> QED BY <1>9, <1>10, <1>11

\* The definition that holds where a block begins, one step up.
LEMMA AtStartFacts ==
  ASSUME Settling, NEW r
  PROVE  \A x \in Placed \ {Entry} :
           r \notin phis[x] => AtStart(x, r) = AtEnd(idom[x], r)
<1> DEFINE D == BlockIds
           S == {"phi", "caller", "def"} \X BlockIds
           last == {x \in D : r \in phis[x] \/ idom[x] \in {x, NoBlock} \/ r \in defs[idom[x]]}
           N == Len(order)
           size == [x \in D |-> IF x \in Placed THEN Position(x) ELSE 0]
           base == [x \in D |-> IF r \in phis[x] THEN <<"phi", x>>
                                ELSE IF idom[x] \in {x, NoBlock} THEN <<"caller", x>>
                                ELSE <<"def", idom[x]>>]
           next == [x \in D |-> IF x \in last THEN x ELSE idom[x]]
           step == [x \in D |-> [t \in S |-> t]]
           Rec(f) == [x \in D |-> IF r \in phis[x] THEN <<"phi", x>>
                                  ELSE IF idom[x] \in {x, NoBlock} THEN <<"caller", x>>
                                  ELSE IF r \in defs[idom[x]] THEN <<"def", idom[x]>>
                                  ELSE f[idom[x]]]
<1>1. /\ NoBlock \notin BlockIds /\ idom \in [BlockIds -> BlockIds \cup {NoBlock}]
      /\ Placed \subseteq BlockIds
  BY GraphFacts, PlacedFacts DEF Settling, IdomInv
<1>2. N \in Nat /\ size \in [D -> 0..N]
  BY PlacedFacts
<1>3. ASSUME NEW x \in D \ last
      PROVE  idom[x] \in D /\ next[x] = idom[x] /\ size[next[x]] < size[x]
  <2>1. x \in BlockIds /\ idom[x] # x /\ idom[x] # NoBlock /\ idom[x] \in D
    BY <1>1, <1>3
  <2>2. x \in Placed
    BY <2>1 DEF Placed
  <2>3. idom[x] \in Placed /\ Position(idom[x]) < Position(x)
    BY <2>1, <2>2, PlacedFacts
  <2> QED BY <2>1, <2>2, <2>3, <1>3
<1>4. base \in [D -> S] /\ step \in [D -> [S -> S]]
  <2>1. ASSUME NEW x \in D PROVE base[x] \in S
    <3>1. idom[x] \notin {x, NoBlock} => idom[x] \in BlockIds
      BY <1>1
    <3> QED BY <3>1
  <2> HIDE DEF S
  <2> QED BY <2>1
<1>5. next \in [D -> D]
  <2>1. \A x \in D : x \notin last => idom[x] \in D
    BY <1>3
  <2> HIDE DEF last, D
  <2> QED BY <2>1
<1>6. PICK f : Follows(f, D, S, last, base, next, step)
  <2>1. \A x \in D \ last : size[next[x]] < size[x]
    BY <1>3
  <2>2. Descends(D, S, N, size, last, base, next, step)
    <3> HIDE DEF D, N, S, size, last, base, next, step
    <3> QED BY <1>2, <1>4, <1>5, <2>1 DEF Descends
  <2> HIDE DEF D, N, S, size, last, base, next, step
  <2> QED BY ONLY <2>2, DescentExists
<1>7. f = Rec(f)
  <2>1. ASSUME NEW x \in D PROVE f[x] = Rec(f)[x]
    <3>1. CASE x \in last
      <4>1. f[x] = base[x]
        BY <3>1, <1>6 DEF Follows
      <4> QED BY <3>1, <4>1
    <3>2. CASE x \notin last
      <4>1. next[x] = idom[x] /\ f[idom[x]] \in S
        BY <3>2, <1>3, <1>6 DEF Follows
      <4>2. f[x] = step[x][f[next[x]]]
        BY <3>2, <1>6 DEF Follows
      <4> QED BY <3>2, <4>1, <4>2
    <3> QED BY <3>1, <3>2
  <2>2. f = [x \in D |-> f[x]]
    BY <1>6 DEF Follows
  <2> HIDE DEF D
  <2> QED BY <2>1, <2>2
<1> DEFINE g == CHOOSE g : g = Rec(g)
<1>8. g = Rec(g)
  <2> HIDE DEF Rec
  <2> QED BY <1>7
<1>9. \A x : AtStart(x, r) = g[x]
  BY DEF AtStart
<1>10. \A x \in D : g[x] = IF r \in phis[x] THEN <<"phi", x>>
                           ELSE IF idom[x] \in {x, NoBlock} THEN <<"caller", x>>
                           ELSE IF r \in defs[idom[x]] THEN <<"def", idom[x]>>
                           ELSE g[idom[x]]
  <2> HIDE DEF g
  <2> QED BY <1>8
<1> HIDE DEF g
<1>11. \A x \in Placed : x \in D /\ idom[x] # NoBlock /\ (idom[x] = x <=> x = Entry)
  BY <1>1, PlacedFacts
<1> QED BY <1>9, <1>10, <1>11 DEF AtEnd

\* place_for_register after k turns: what has been taken from the worklist has
\* spread, and no block is put on it more than twice.
Work == [work : SUBSET BlockIds, has : SUBSET BlockIds]
Spreads(r, k, s) ==
  /\ s \in Work
  /\ \A b \in BlockIds \ s.work : (r \in defs[b] \/ b \in s.has) =>
       \A n \in Frontier(b) : r \in live[n] => n \in s.has
  /\ s.work # {} => Cardinality(s.work) + k <= Len(blocks) + Cardinality(s.has)

LEMMA SpreadsOn ==
  ASSUME Shape, NEW r, NEW k \in Nat, NEW s, Spreads(r, k, s)
  PROVE  Spreads(r, k + 1, Spread(r, s))
<1>1. s \in Work /\ s.work \in SUBSET BlockIds /\ s.has \in SUBSET BlockIds
  BY DEF Spreads, Work
<1>2. CASE s.work = {}
  BY <1>2 DEF Spreads, Spread
<1>3. CASE s.work # {}
  <2> DEFINE b == CHOOSE x \in s.work : TRUE
             new == {n \in Frontier(b) \ s.has : r \in live[n]}
             t == [work |-> (s.work \ {b}) \cup new, has |-> s.has \cup new]
  <2>1. Spread(r, s) = t
    BY <1>3 DEF Spread
  <2>2. b \in s.work /\ b \in BlockIds
    BY <1>1, <1>3
  <2>3. new \in SUBSET BlockIds /\ new \cap s.has = {}
    BY DEF Frontier
  <2>4. t \in Work /\ t.work = (s.work \ {b}) \cup new /\ t.has = s.has \cup new
    BY <1>1, <2>3 DEF Work
  <2>5. \A n \in Frontier(b) : r \in live[n] => n \in t.has
    BY <2>4
  <2> HIDE DEF b, new, t
  <2>6. ASSUME NEW x \in BlockIds \ t.work, r \in defs[x] \/ x \in t.has,
               NEW n \in Frontier(x), r \in live[n]
        PROVE  n \in t.has
    <3>1. CASE x = b
      BY <3>1, <2>5, <2>6
    <3>2. CASE x # b
      <4>1. x \notin s.work /\ x \notin new
        BY <3>2, <2>4, <2>6
      <4> QED BY <4>1, <2>4, <2>6 DEF Spreads
    <3> QED BY <3>1, <3>2
  <2>7. Cardinality(t.work) + (k + 1) <= Len(blocks) + Cardinality(t.has)
    <3> DEFINE cw == Cardinality(s.work)
               ch == Cardinality(s.has)
               cn == Cardinality(new)
               ct == Cardinality(t.work)
               cu == Cardinality(t.has)
    <3>1. cw \in Nat /\ ch \in Nat /\ cn \in Nat /\ ct \in Nat /\ Len(blocks) \in Nat
          /\ IsFiniteSet(s.work) /\ IsFiniteSet(s.has) /\ IsFiniteSet(new)
      <4>1. t.work \in SUBSET BlockIds /\ Len(blocks) \in Nat
        BY <2>4 DEF Work, Shape
      <4> QED BY <4>1, <1>1, <2>3, BlocksCounted
    <3>2. cw + k <= Len(blocks) + ch
      BY <1>3 DEF Spreads
    <3>3. cu = ch + cn
      <4>1. Cardinality(s.has \cup new) = ch + cn - Cardinality(s.has \cap new)
        BY <3>1, FS_Union
      <4>2. Cardinality(s.has \cap new) = 0
        BY <2>3, FS_EmptySet
      <4> QED BY <4>1, <4>2, <2>4, <3>1
    <3>4. ct <= cw - 1 + cn
      <4> DEFINE rest == s.work \ {b}
      <4>1. IsFiniteSet(rest) /\ Cardinality(rest) = cw - 1
        BY <2>2, <3>1, FS_RemoveElement
      <4>2. IsFiniteSet(rest \cap new)
        BY <4>1, FS_Subset
      <4> HIDE DEF rest
      <4>3. Cardinality(rest \cup new) = cw - 1 + cn - Cardinality(rest \cap new)
        BY <4>1, <3>1, FS_Union
      <4>4. Cardinality(rest \cap new) \in Nat
        BY <4>2, FS_CardinalityType
      <4> QED BY <4>3, <4>4, <2>4, <3>1 DEF rest
    <3> HIDE DEF cw, ch, cn, ct, cu
    <3> QED BY <3>1, <3>2, <3>3, <3>4 DEF ct, cu
  <2>8. Spreads(r, k + 1, t)
    BY <2>4, <2>6, <2>7 DEF Spreads
  <2> QED BY <2>1, <2>8
<1> QED BY <1>2, <1>3

\* A block that defines the register or has a phi gives one to its frontier.
LEMMA PhiBlocksFacts ==
  ASSUME Shape, NEW r
  PROVE  /\ PhiBlocks(r) \subseteq BlockIds
         /\ \A b \in BlockIds : (r \in defs[b] \/ b \in PhiBlocks(r)) =>
              \A n \in Frontier(b) : r \in live[n] => n \in PhiBlocks(r)
<1> DEFINE m == Len(blocks)
           N == 2 * Len(blocks)
           S == {s \in Work : \E k \in Nat : Spreads(r, k, s)}
           zero == [work |-> {b \in BlockIds : r \in defs[b]}, has |-> {}]
           step == [k \in 1..N |-> [s \in S |-> Spread(r, s)]]
           Rec(f) == [k \in 0..N |-> IF k = 0
                                     THEN [work |-> {b \in BlockIds : r \in defs[b]}, has |-> {}]
                                     ELSE Spread(r, f[k - 1])]
<1>1. m \in Nat /\ m > 0 /\ N \in Nat /\ N = 2 * m
  BY DEF Shape
<1>2. Spreads(r, 0, zero)
  <2> DEFINE D == {b \in BlockIds : r \in defs[b]}
  <2>1. zero \in Work /\ zero.work = D /\ zero.has = {}
    BY DEF Work
  <2>2. Cardinality({}) = 0
    BY FS_EmptySet
  <2>3. Cardinality(D) \in Nat /\ Cardinality(D) <= m
    BY BlocksCounted
  <2>4. \A b \in BlockIds : r \in defs[b] => b \in D
    OBVIOUS
  <2> HIDE DEF zero, D
  <2> QED BY <2>1, <2>2, <2>3, <2>4, <1>1 DEF Spreads
<1>3. ASSUME NEW s \in S PROVE Spread(r, s) \in S
  <2>1. PICK k \in Nat : Spreads(r, k, s)
    OBVIOUS
  <2>2. Spreads(r, k + 1, Spread(r, s)) /\ k + 1 \in Nat
    BY <2>1, SpreadsOn
  <2> QED BY <2>2 DEF Spreads
<1>4. zero \in S
  BY <1>2 DEF Spreads
<1>5. PICK f : Unfolds(f, S, zero, N, step)
  <2>1. step \in [1..N -> [S -> S]]
    <3> HIDE DEF S, N
    <3> QED BY <1>3
  <2>2. Recurses(S, zero, N, step)
    BY <1>1, <1>4, <2>1 DEF Recurses
  <2> HIDE DEF S, N, step, zero
  <2> QED BY ONLY <2>2, RecursionDefines
<1>6. f \in [0..N -> S] /\ f[0] = zero /\ \A k \in 1..N : f[k] = Spread(r, f[k - 1])
  <2>1. f \in [0..N -> S] /\ f[0] = zero /\ \A k \in 1..N : f[k] = step[k][f[k - 1]]
    BY <1>5 DEF Unfolds
  <2>2. ASSUME NEW k \in 1..N PROVE f[k] = Spread(r, f[k - 1])
    <3>1. k - 1 \in 0..N
      BY <1>1
    <3>2. f[k - 1] \in S /\ f[k] = step[k][f[k - 1]]
      <4> HIDE DEF S, N, step
      <4> QED BY <3>1, <2>1
    <3> HIDE DEF S
    <3> QED BY <3>2
  <2> HIDE DEF step
  <2> QED BY <2>1, <2>2
<1> HIDE DEF step
<1>7. f = Rec(f)
  <2>1. \A k \in 0..N : k = 0 \/ k \in 1..N
    BY <1>1
  <2>2. f = [k \in 0..N |-> f[k]]
    <3> HIDE DEF N, S
    <3> QED BY <1>6
  <2> HIDE DEF N
  <2>3. ASSUME NEW k \in 0..N PROVE f[k] = Rec(f)[k]
    BY <2>1, <1>6
  <2> QED BY <2>2, <2>3
<1> DEFINE g == CHOOSE g : g = Rec(g)
<1>8. g = Rec(g)
  <2> HIDE DEF N
  <2> QED BY <1>7
<1>9. PhiBlocks(r) = g[N].has
  BY DEF PhiBlocks
<1>10. g[0] = zero /\ \A k \in 1..N : g[k] = Spread(r, g[k - 1])
  <2> HIDE DEF g
  <2>1. \A k \in 0..N : g[k] = Rec(g)[k]
    BY <1>8
  <2>2. 0 \in 0..N /\ \A k \in 1..N : k \in 0..N /\ k # 0
    BY <1>1
  <2> HIDE DEF N
  <2> QED BY <2>1, <2>2
<1> HIDE DEF g, Rec, zero, S
<1> DEFINE P == {k \in 0..N : Spreads(r, k, g[k])}
<1>11. 0 \in P
  BY <1>1, <1>2, <1>10
<1>12. ASSUME NEW k \in 1..N, k - 1 \in P PROVE k \in P
  <2>1. k - 1 \in Nat /\ k \in 0..N /\ k - 1 + 1 = k
    BY <1>1
  <2>2. Spreads(r, k - 1 + 1, Spread(r, g[k - 1]))
    BY <1>12, <2>1, SpreadsOn
  <2> QED BY <2>1, <2>2, <1>10
<1>13. \A k \in 0..N : k \in P
  <2> HIDE DEF P, N
  <2> QED BY <1>1, <1>11, <1>12, UpTo
<1> DEFINE s == g[N]
<1>14. Spreads(r, N, s)
  <2>1. N \in 0..N
    BY <1>1
  <2> HIDE DEF N
  <2> QED BY <2>1, <1>13
<1> HIDE DEF s
<1>15. s.work = {}
  <2> SUFFICES ASSUME s.work # {} PROVE FALSE
    OBVIOUS
  <2> DEFINE w == Cardinality(s.work)
             c == Cardinality(s.has)
  <2>1. s.work \in SUBSET BlockIds /\ s.has \in SUBSET BlockIds
    BY <1>14 DEF Spreads, Work
  <2>2. w \in Nat /\ c \in Nat /\ c <= m
    BY <2>1, BlocksCounted
  <2>3. w > 0
    <3>1. w # 0
      BY <2>1, BlocksCounted, FS_EmptySet
    <3> QED BY <3>1, <2>2
  <2>4. w + N <= m + c
    BY <1>14 DEF Spreads
  <2> HIDE DEF w, c, m, N
  <2> QED BY ONLY <2>2, <2>3, <2>4, <1>1
<1> QED BY <1>9, <1>14, <1>15 DEF Spreads, Work, s

\* Where the register is neither written nor given a phi on the way up, the
\* definition from above arrives.
LEMMA PassedDown ==
  ASSUME Settling, NEW r, NEW d \in Placed
  PROVE  \A x \in Placed :
           (/\ d \in Chain(idom, x)
            /\ \A y \in Below(x, d) \cap Placed : r \notin defs[y] /\ r \notin phis[y])
             => AtEnd(x, r) = AtEnd(d, r)
<1> DEFINE N == Len(order)
           Good(x) == (d \in Chain(idom, x)
                       /\ \A y \in Below(x, d) \cap Placed : r \notin defs[y] /\ r \notin phis[y])
                         => AtEnd(x, r) = AtEnd(d, r)
           P == {n \in 0..N : \A x \in Placed : Position(x) <= n => Good(x)}
<1>1. N \in Nat /\ \A x \in Placed : Position(x) \in 1..N
  BY PlacedFacts
<1>2. 0 \in P
  BY <1>1
<1>3. ASSUME NEW n \in 1..N, n - 1 \in P PROVE n \in P
  <2> SUFFICES ASSUME NEW x \in Placed, Position(x) <= n, x # d, d \in Chain(idom, x),
                      \A y \in Below(x, d) \cap Placed : r \notin defs[y] /\ r \notin phis[y]
               PROVE  AtEnd(x, r) = AtEnd(d, r)
    BY <1>1
  <2> DEFINE u == idom[x]
  <2>1. x # Entry
    BY ChainFacts
  <2>2. u \in Placed /\ Position(u) < Position(x)
    BY <2>1, PlacedFacts
  <2>3. Chain(idom, x) = {x} \cup Chain(idom, u)
    BY <2>1, ChainFacts
  <2>4. Below(x, d) = {x} \cup Below(u, d)
    BY <2>1, BelowFacts
  <2> HIDE DEF u
  <2>5. r \notin defs[x] /\ r \notin phis[x]
        /\ \A y \in Below(u, d) \cap Placed : r \notin defs[y] /\ r \notin phis[y]
    BY <2>4
  <2>6. Position(u) <= n - 1
    BY <2>2, <1>1
  <2>7. AtEnd(u, r) = AtEnd(d, r)
    <3>1. Good(u)
      <4> HIDE DEF Good
      <4> QED BY <1>3, <2>2, <2>6
    <3>2. d \in Chain(idom, u)
      BY <2>3
    <3> QED BY <3>1, <3>2, <2>5
  <2>8. AtEnd(x, r) = AtStart(x, r)
    BY <2>5 DEF AtEnd
  <2>9. AtStart(x, r) = AtEnd(u, r)
    BY <2>1, <2>5, AtStartFacts DEF u
  <2> QED BY <2>7, <2>8, <2>9
<1>4. \A n \in 0..N : n \in P
  <2> HIDE DEF P, N
  <2> QED BY <1>1, <1>2, <1>3, UpTo
<1>5. N \in P
  <2>1. N \in 0..N
    BY <1>1
  <2> HIDE DEF P, N
  <2> QED BY <2>1, <1>4
<1>6. \A x \in Placed : Position(x) <= N
  BY <1>1
<1>7. \A x \in Placed : Good(x)
  <2> HIDE DEF Good, N
  <2> QED BY <1>5, <1>6
<1> QED BY <1>7

\* A block with one way in has the block it is entered from as its dominator.
LEMMA OneWayIn ==
  ASSUME Settling, Exact, NEW e \in DominanceGraph, e.from \in Reached, e.to # Entry,
         \A o \in DominanceGraph : o.to = e.to => o.from = e.from
  PROVE  idom[e.to] = e.from
<1> DEFINE p == e.from
           n == e.to
           d == idom[n]
<1>1. /\ Entry \in BlockIds /\ NoBlock \notin BlockIds
      /\ \A o \in DominanceGraph : o.from \in BlockIds /\ o.to \in BlockIds
  BY GraphFacts DEF Settling
<1>2. n \in Reached /\ p \in Placed /\ n \in Placed
  BY <1>1, DominatorFacts, ReachedIsPlaced DEF Reached
<1>3. n # p
  <2> SUFFICES ASSUME n = p PROVE FALSE
    OBVIOUS
  <2>1. ClosedWithout(BlockIds \ {n}, DominanceGraph, NoBlock)
    BY <1>1, <2>1 DEF ClosedWithout
  <2>2. Reached \subseteq BlockIds \ {n}
    BY <2>1, WithoutLeast DEF Reached, Reachable
  <2> QED BY <1>2, <2>2
<1>4. Dom(p, n)
  <2>1. ClosedWithout(BlockIds \ {n, p}, DominanceGraph, p)
    BY <1>1 DEF ClosedWithout
  <2>2. Without(BlockIds, DominanceGraph, p) \subseteq BlockIds \ {n, p}
    BY <2>1, WithoutLeast
  <2> QED BY <1>2, <2>2 DEF Dom, Dominates, Reached
<1>5. p \in Chain(idom, n) /\ Chain(idom, n) = {n} \cup Chain(idom, d)
      /\ d \in Placed /\ d # n
  BY <1>1, <1>2, <1>4, ChainFacts, PlacedFacts
<1>6. p \in Chain(idom, d) /\ d \in Chain(idom, d) /\ d \in BlockIds
  <2>1. d \in Chain(idom, d)
    BY <1>5, ChainFacts
  <2>2. d \in BlockIds
    BY <1>5, PlacedFacts
  <2> QED BY <2>1, <2>2, <1>3, <1>5
<1>7. Dom(d, n)
  BY <1>1, <1>2, <1>5, <1>6 DEF Exact, IsAbove
<1>8. d \in Chain(idom, p)
  <2>1. Dom(d, p)
    BY <1>1, <1>2, <1>5, <1>6, <1>7, DominatorFacts DEF Dom, Reached
  <2> QED BY <2>1, <1>2, <1>6, ChainFacts
<1>9. Position(p) = Position(d)
  <2>1. Position(p) <= Position(d) /\ Position(d) <= Position(p)
    BY <1>2, <1>5, <1>6, <1>8, ChainFacts
  <2>2. Position(p) \in Int /\ Position(d) \in Int
    BY <1>2, <1>5, PlacedFacts
  <2> QED BY <2>1, <2>2
<1> QED BY <1>2, <1>5, <1>9, PlacedFacts

\* ssa_place_phis: a block that defines a register or has a phi for it gives
\* one to its frontier, where the register is live.
PhiClosed ==
  \A r \in Registers : \A b \in BlockIds : (r \in defs[b] \/ r \in phis[b]) =>
    \A n \in Frontier(b) : r \in live[n] => r \in phis[n]

LEMMA PhisArePlaced ==
  ASSUME Shape, PlacePhis
  PROVE  PhiClosed'
<1>1. /\ BlockIds' = BlockIds /\ Registers' = Registers /\ UNCHANGED <<defs, live>>
      /\ \A b : Frontier(b)' = Frontier(b)
  BY DEF PlacePhis, BlockIds, Registers, Frontier, Predecessors, Below
<1>2. \A b \in BlockIds, r \in Registers : r \in phis'[b] <=> b \in PhiBlocks(r)
  BY DEF PlacePhis
<1>3. ASSUME NEW r \in Registers, NEW b \in BlockIds, r \in defs[b] \/ r \in phis'[b],
             NEW n \in Frontier(b), r \in live[n]
      PROVE  r \in phis'[n]
  <2>1. n \in BlockIds
    BY DEF Frontier
  <2>2. n \in PhiBlocks(r)
    BY <1>2, <1>3, PhiBlocksFacts
  <2> QED BY <2>1, <2>2, <1>2
<1> QED BY <1>1, <1>3 DEF PhiClosed

LEMMA PhisSuffice ==
  ASSUME Settling, Exact, NoCases, PhiClosed,
         NEW e \in Arrows(edges), e.from \in Reached, e.to # Entry,
         NEW r \in live[e.to], r \notin phis[e.to]
  PROVE  AtEnd(e.from, r) = AtStart(e.to, r)
<1> DEFINE p == e.from
           n == e.to
           d == idom[n]
<1>1. /\ NoBlock \notin BlockIds /\ Arrows(edges) = DominanceGraph
      /\ \A o \in DominanceGraph : o.from \in BlockIds /\ o.to \in BlockIds
      /\ DOMAIN edges = 1..Len(edges) /\ Len(edges) \in Nat
  <2>1. Arrows(edges) = DominanceGraph
    BY DEF Arrows, DominanceGraph, NoCases
  <2>2. edges \in Seq(EdgeSet)
    BY DEF Settling, Shape
  <2> QED BY <2>1, <2>2, GraphFacts DEF Settling
<1>2. p \in Placed /\ n \in Placed /\ p \in BlockIds /\ n \in BlockIds
  <2>1. Entry \in BlockIds
    BY GraphFacts DEF Settling
  <2> QED BY <1>1, <2>1, DominatorFacts, ReachedIsPlaced DEF Reached
<1>3. AtStart(n, r) = AtEnd(d, r) /\ d \in Placed /\ d # n
  BY <1>2, AtStartFacts, PlacedFacts
<1>4. d \in Chain(idom, p)
  <2>1. d \in Chain(idom, n) /\ d \in BlockIds
    BY <1>2, <1>3, ChainFacts, PlacedFacts
  <2>2. Dom(d, n)
    BY <2>1, <1>2, ReachedIsPlaced DEF Exact, IsAbove
  <2>3. Dom(d, p)
    <3>1. Entry \in BlockIds
      BY GraphFacts DEF Settling
    <3> QED BY <3>1, <2>1, <2>2, <1>1, <1>3, DominatorFacts DEF Dom, Reached
  <2> QED BY <2>1, <2>3, <1>2, ChainFacts
<1>5. CASE p = d
  BY <1>3, <1>5
<1>6. CASE p # d
  <2>1. PICK o \in DominanceGraph : o.to = n /\ o.from # p
    BY <1>1, <1>6, OneWayIn
  <2>2. PICK i \in DOMAIN edges, j \in DOMAIN edges : edges[i] = e /\ edges[j] = o
    BY <1>1 DEF Arrows
  <2>3. i \in Predecessors(n) /\ j \in Predecessors(n) /\ i # j
    BY <2>1, <2>2 DEF Predecessors
  <2>4. Cardinality(Predecessors(n)) >= 2
    <3>1. IsFiniteSet(DOMAIN edges)
      BY <1>1, FS_Interval
    <3>2. IsFiniteSet(Predecessors(n)) /\ Cardinality(Predecessors(n)) \in Nat
      <4>1. Predecessors(n) \in SUBSET DOMAIN edges
        BY DEF Predecessors
      <4> QED BY <3>1, <4>1, FS_Subset, FS_CardinalityType
    <3>3. Cardinality({i} \cup {j}) = 2
      <4>1. IsFiniteSet({i}) /\ Cardinality({i}) = 1
        BY FS_Singleton
      <4>2. j \notin {i}
        BY <2>3
      <4>3. Cardinality({i} \cup {j}) = 1 + 1
        BY <4>1, <4>2, FS_AddElement
      <4> QED BY <4>3
    <3>4. {i} \cup {j} \in SUBSET Predecessors(n)
      BY <2>3
    <3>5. Cardinality({i} \cup {j}) <= Cardinality(Predecessors(n))
      BY <3>2, <3>4, FS_Subset
    <3> QED BY <3>2, <3>3, <3>5
  <2>5. ASSUME NEW y \in Below(p, d) \cap Placed
        PROVE  r \notin defs[y] /\ r \notin phis[y]
    <3>1. n \in Frontier(y)
      BY <2>2, <2>3, <2>4, <1>2 DEF Frontier
    <3>2. r \in Registers /\ y \in BlockIds
      BY <1>2, PlacedFacts DEF Registers
    <3> QED BY <3>1, <3>2 DEF PhiClosed
  <2>6. AtEnd(p, r) = AtEnd(d, r)
    BY <2>5, <1>2, <1>3, <1>4, PassedDown
  <2> QED BY <2>6, <1>3
<1> QED BY <1>5, <1>6

\* Without a jump table there are no arms of a switch.
SwitchInv == (stage \in Late /\ switches = {}) => NoCases

LEMMA NoTableNoCases ==
  ASSUME prog \in Programs, Shape, NoCases, RecoverSwitches, switches' = {}
  PROVE  NoCases'
<1> DEFINE kept == Chosen(edges, Unresolved)
           seqs == [b \in BlockIds |-> IF b \in Tables THEN CaseEdges(b) ELSE <<>>]
           arms == FlattenSeq(seqs)
           n == Len(blocks)
<1>1. edges \in Seq(EdgeSet) /\ n \in Nat \ {0} /\ BlockIds = 1..n
  BY DEF Shape
<1>2. edges' = kept \o arms /\ Tables = {}
  BY DEF RecoverSwitches
<1>3. seqs = [b \in 1..n |-> <<>>]
  BY <1>1, <1>2
<1> HIDE DEF n
<1>4. seqs \in Seq(Seq(EdgeSet)) /\ Len(seqs) = n /\ seqs # <<>> /\ \A b \in 1..n : Len(seqs[b]) = 0
  <2> HIDE DEF seqs
  <2>1. seqs \in [1..n -> Seq(EdgeSet)] /\ \A b \in 1..n : seqs[b] = <<>>
    BY <1>3
  <2> QED BY <2>1, <1>1
<1> HIDE DEF seqs, kept
<1>5. arms \in Seq(EdgeSet) /\ Len(arms) = 0
  <2>1. arms \in Seq(EdgeSet)
    BY <1>4, FlattenFacts
  <2>2. PICK off \in [1..Len(seqs) -> Nat] :
           \A k \in 1..Len(arms) : \E i \in 1..Len(seqs) : k - off[i] \in 1..Len(seqs[i])
    BY <1>4, FlattenFacts
  <2> HIDE DEF arms
  <2>3. \A k \in 1..Len(arms) : FALSE
    BY <2>2, <1>4
  <2>4. Len(arms) \in Nat
    BY <2>1
  <2> QED BY <2>1, <2>3, <2>4
<1>6. PICK h : IsChoice(edges, Unresolved, kept, h)
  BY <1>1, ChosenFacts DEF kept
<1>7. kept \in Seq(EdgeSet)
  BY <1>1, ChosenFacts DEF kept
<1> HIDE DEF arms
<1>8. arms = <<>>
  BY <1>5
<1>9. edges' = kept
  BY <1>2, <1>7, <1>8
<1>10. \A k \in 1..Len(kept) : kept[k].kind # "case"
  BY <1>1, <1>6 DEF IsChoice, NoCases
<1> QED BY <1>7, <1>9, <1>10 DEF NoCases

PhiInv == stage = "phis" => PhiClosed

\* ssa_place_phis: where a register is live and has no phi, every way in brings
\* the same definition, for every function without a jump table.
THEOREM PhisAreEnough == SsaSpec => []OneDefinitionArrives
<1>1. SsaInit => SwitchInv /\ PhiInv
  BY DEF SsaInit, FlowInit, SwitchInv, PhiInv, Late
<1>2. ASSUME FlowInv, SwitchInv, [SsaNext]_vars
      PROVE  SwitchInv'
  <2>1. CASE RecoverSwitches
    <3>1. prog \in Programs /\ Shape /\ NoCases
      BY <1>2, <2>1 DEF RecoverSwitches, FlowInv, ShapeInv, Early
    <3> QED BY <2>1, <3>1, NoTableNoCases DEF SwitchInv
  <2>2. CASE stage \in Late /\ UNCHANGED <<blocks, edges, switches>>
    <3>1. NoCases' = NoCases
      BY <2>2, GraphKept
    <3> QED BY <1>2, <2>2, <3>1 DEF SwitchInv
  <2>3. CASE stage' \notin Late
    BY <2>3 DEF SwitchInv
  <2>4. \/ RecoverSwitches
        \/ stage \in Late /\ UNCHANGED <<blocks, edges, switches>>
        \/ stage' \notin Late
    BY <1>2
       DEF SsaNext, FlowNext, SplitAndWire, StartOrder, Descend, Leave, StartDominance,
           VisitBlock, EndRound, AgainIf, ClassifyLoops, ClassifyRegions, Summarise,
           SolveLiveness, PlacePhis, FoldPrologue, MapStackSlots, ReconstructCalls,
           vars, flowVars, Late
  <2> QED BY <2>1, <2>2, <2>3, <2>4
<1>3. ASSUME FlowInv, PhiInv, [SsaNext]_vars
      PROVE  PhiInv'
  <2>1. CASE PlacePhis
    <3>1. Shape
      BY <1>3, <2>1 DEF PlacePhis, FlowInv, ShapeInv
    <3> QED BY <2>1, <3>1, PhisArePlaced DEF PhiInv
  <2>2. CASE UNCHANGED vars
    <3>1. UNCHANGED <<stage, blocks, edges, idom, defs, live, phis>>
      BY <2>2 DEF vars, flowVars, ssaOwn
    <3>2. BlockIds' = BlockIds /\ Registers' = Registers /\ \A b : Frontier(b)' = Frontier(b)
      BY <3>1 DEF BlockIds, Registers, Frontier, Predecessors, Below
    <3>3. PhiClosed' = PhiClosed
      BY <3>1, <3>2 DEF PhiClosed
    <3> QED BY <1>3, <3>1, <3>3 DEF PhiInv
  <2>3. CASE stage' # "phis"
    BY <2>3 DEF PhiInv
  <2>4. PlacePhis \/ UNCHANGED vars \/ stage' # "phis"
    BY <1>3
       DEF SsaNext, FlowNext, SplitAndWire, StartOrder, Descend, Leave, StartDominance,
           VisitBlock, EndRound, AgainIf, ClassifyLoops, RecoverSwitches, ClassifyRegions,
           Summarise, SolveLiveness, FoldPrologue, MapStackSlots, ReconstructCalls
  <2> QED BY <2>1, <2>2, <2>3, <2>4
<1>4. ASSUME FlowInv, SwitchInv, PhiInv PROVE OneDefinitionArrives
  <2> SUFFICES ASSUME stage = "phis", switches = {}
               PROVE  \A e \in Arrows(edges) :
                        (e.from \in Reachable(BlockIds, Arrows(edges)) /\ e.to # Entry) =>
                          \A r \in live[e.to] \ phis[e.to] : AtEnd(e.from, r) = AtStart(e.to, r)
    BY DEF OneDefinitionArrives
  <2>1. Settling /\ Exact /\ NoCases /\ PhiClosed
    BY <1>4 DEF FlowInv, ShapeInv, OrderInv, DominatorInv, SwitchInv, PhiInv, Settling, Late
  <2>2. Arrows(edges) = DominanceGraph
    BY <2>1 DEF Arrows, DominanceGraph, NoCases
  <2>3. Reachable(BlockIds, Arrows(edges)) = Reached
    BY <2>2 DEF Reached
  <2> QED BY <2>1, <2>3, PhisSuffice
<1> QED BY <1>1, <1>2, <1>3, <1>4, FlowInvariant, PTL DEF SsaSpec

-----------------------------------------------------------------------------
(* Liveness *)

\* r is read in b, from va on, before it is written; it is not written.
ReadsIn(b, va, r) ==
  \E v \in va .. blocks[b].end - 1 :
    r \in GprUses(At(v)) /\ \A w \in va .. v - 1 : r \notin GprDef(At(w))
KeepsIn(b, va, r) == \A w \in va .. blocks[b].end - 1 : r \notin GprDef(At(w))

\* b leads to a block of M.
LeadsTo(b, M) == \E i \in Successors(b) : edges[i].to \in M

\* No instruction outside S reads r or leads into S without writing it.
NoneBefore(r, S) ==
  \A va \in Here :
    \/ va \in S
    \/ r \notin GprUses(At(va)) /\ (r \in GprDef(At(va)) \/ Following(va) \cap S = {})

LEMMA ReadFromFacts ==
  ASSUME NEW r
  PROVE  /\ ReadFrom(r) \in SUBSET Here /\ NoneBefore(r, ReadFrom(r))
         /\ \A S \in SUBSET Here : NoneBefore(r, S) => ReadFrom(r) \subseteq S
<1>1. \A S \in SUBSET Here : NoneBefore(r, S) => ReadFrom(r) \subseteq S
  BY DEF ReadFrom, NoneBefore
<1>2. ReadFrom(r) \in SUBSET Here
  BY DEF ReadFrom
<1>3. ASSUME NEW va \in Here, va \notin ReadFrom(r)
      PROVE  /\ r \notin GprUses(At(va))
             /\ r \in GprDef(At(va)) \/ Following(va) \cap ReadFrom(r) = {}
  <2>1. PICK S \in SUBSET Here : NoneBefore(r, S) /\ va \notin S
    BY <1>3 DEF ReadFrom, NoneBefore
  <2> QED BY <2>1, <1>1 DEF NoneBefore
<1> QED BY <1>1, <1>2, <1>3 DEF NoneBefore

\* An instruction and the rest of its block.
LEMMA InBlock ==
  ASSUME prog \in Programs, Laid, NEW b \in BlockIds, NEW va \in Body(b), NEW r
  PROVE  LET e == blocks[b].end IN
         /\ va \in Here /\ va \in Nat /\ e \in Nat /\ va < e
         /\ ReadsIn(b, va, r) <=> \/ r \in GprUses(At(va))
                                  \/ /\ r \notin GprDef(At(va)) /\ va + 1 < e
                                     /\ ReadsIn(b, va + 1, r)
         /\ KeepsIn(b, va, r) <=> /\ r \notin GprDef(At(va))
                                  /\ va + 1 < e => KeepsIn(b, va + 1, r)
         /\ va + 1 < e => va + 1 \in Body(b) /\ Following(va) = {va + 1}
         /\ ~(va + 1 < e) => Following(va) = {blocks[edges[i].to].start : i \in Successors(b)}
<1> DEFINE e == blocks[b].end
           s == blocks[b].start
<1>1. /\ s \in Nat /\ e \in Nat /\ va \in s..(e - 1) /\ e <= Len(code)
      /\ Len(code) \in Nat /\ Here = 0..(Len(code) - 1)
  BY CodeFacts DEF Laid, Body
<1>2. va \in Here /\ va \in Nat /\ va < e /\ va \in va..(e - 1)
  BY <1>1
<1>3. b = CHOOSE x \in BlockIds : va \in Body(x)
  BY DEF Laid
<1>4. Following(va) = IF va + 1 < e THEN {va + 1}
                      ELSE {blocks[edges[i].to].start : i \in Successors(b)}
  BY <1>3 DEF Following
<1>5. va + 1 < e => va + 1 \in Body(b)
  BY <1>1, <1>2 DEF Body
<1>6. /\ \A v \in va..(e - 1) : v = va \/ (v \in (va + 1)..(e - 1) /\ va + 1 < e)
      /\ \A v \in (va + 1)..(e - 1) : v \in va..(e - 1)
  BY <1>1, <1>2
<1>7. \A w : ~(w \in va..(va - 1))
  BY <1>2
<1>8. \A v \in (va + 1)..(e - 1) : \A w \in va..(v - 1) : w = va \/ w \in (va + 1)..(v - 1)
  BY <1>1, <1>2
<1>9. \A v \in (va + 1)..(e - 1) : /\ va \in va..(v - 1)
                                   /\ \A w \in (va + 1)..(v - 1) : w \in va..(v - 1)
  BY <1>1, <1>2
<1> DEFINE Uses(v) == r \in GprUses(At(v))
           Defs(w) == r \in GprDef(At(w))
<1>10. ReadsIn(b, va, r) <=> Uses(va) \/ (~Defs(va) /\ va + 1 < e /\ ReadsIn(b, va + 1, r))
  <2>1. \A a : ReadsIn(b, a, r) <=>
               \E v \in a..(e - 1) : Uses(v) /\ \A w \in a..(v - 1) : ~Defs(w)
    BY DEF ReadsIn
  <2> HIDE DEF Uses, Defs, e
  <2>2. ASSUME ReadsIn(b, va, r), ~Uses(va)
        PROVE  ~Defs(va) /\ va + 1 < e /\ ReadsIn(b, va + 1, r)
    <3>1. PICK v \in va..(e - 1) : Uses(v) /\ \A w \in va..(v - 1) : ~Defs(w)
      BY <2>1, <2>2
    <3>2. v \in (va + 1)..(e - 1) /\ va + 1 < e
      BY <3>1, <2>2, <1>6
    <3> QED BY <3>1, <3>2, <2>1, <1>9
  <2>3. ASSUME Uses(va) PROVE ReadsIn(b, va, r)
    BY <2>1, <2>3, <1>2, <1>7
  <2>4. ASSUME ~Defs(va), ReadsIn(b, va + 1, r) PROVE ReadsIn(b, va, r)
    <3>1. PICK v \in (va + 1)..(e - 1) : Uses(v) /\ \A w \in (va + 1)..(v - 1) : ~Defs(w)
      BY <2>1, <2>4
    <3> QED BY <3>1, <2>1, <2>4, <1>6, <1>8
  <2> QED BY <2>2, <2>3, <2>4
<1>11. KeepsIn(b, va, r) <=> ~Defs(va) /\ (va + 1 < e => KeepsIn(b, va + 1, r))
  <2>1. \A a : KeepsIn(b, a, r) <=> \A w \in a..(e - 1) : ~Defs(w)
    BY DEF KeepsIn
  <2> HIDE DEF Uses, Defs, e
  <2> QED BY <2>1, <1>2, <1>6
<1> QED BY <1>1, <1>2, <1>4, <1>5, <1>10, <1>11

\* The blocks are told from their first instruction, and have one each.
LEMMA BlockStarts ==
  ASSUME Laid, NEW b \in BlockIds
  PROVE  /\ blocks[b].start \in Body(b)
         /\ \A c \in BlockIds : blocks[b].start \in Body(c) => c = b
<1>1. blocks[b].start \in Body(b)
  <2> DEFINE s == blocks[b].start
             e == blocks[b].end
  <2>1. s \in Nat /\ e \in Nat /\ s < e
    BY DEF Laid
  <2>2. Body(b) = s..(e - 1)
    BY DEF Body
  <2> HIDE DEF s, e
  <2>3. s \in Body(b)
    BY <2>1, <2>2
  <2> QED BY <2>3 DEF s
<1> QED BY <1>1 DEF Laid

LEMMA SuccessorsFacts ==
  ASSUME Shape, NEW b, NEW i \in Successors(b)
  PROVE  edges[i].to \in BlockIds
BY GraphFacts DEF Successors

\* What is read before it is written, here or in a block that is led to.
LEMMA ReadFromHolds ==
  ASSUME prog \in Programs, Laid, NEW r, NEW b \in BlockIds
  PROVE  \A va \in Body(b) :
           \/ ReadsIn(b, va, r)
           \/ /\ KeepsIn(b, va, r)
              /\ \E i \in Successors(b) : blocks[edges[i].to].start \in ReadFrom(r)
           => va \in ReadFrom(r)
<1> DEFINE F == ReadFrom(r)
           e == blocks[b].end
           out == \E i \in Successors(b) : blocks[edges[i].to].start \in F
           Good(va) == (ReadsIn(b, va, r) \/ (KeepsIn(b, va, r) /\ out)) => va \in F
           P == {k \in 0..e : \A va \in Body(b) : e - va <= k => Good(va)}
<1>1. NoneBefore(r, F)
  BY ReadFromFacts
<1>2. e \in Nat /\ \A va \in Body(b) : va \in Nat /\ va < e
  <2>1. e \in Nat
    BY DEF Laid
  <2> QED BY <2>1, InBlock
<1> HIDE DEF F, e
<1>3. 0 \in P
  BY <1>2
<1>4. ASSUME NEW k \in 1..e, k - 1 \in P PROVE k \in P
  <2> SUFFICES ASSUME NEW va \in Body(b), e - va <= k,
                      ReadsIn(b, va, r) \/ (KeepsIn(b, va, r) /\ out)
               PROVE  va \in F
    BY <1>2
  <2>1. va \in Here /\ va \in Nat
    BY InBlock
  <2>2. CASE r \in GprUses(At(va))
    BY <2>1, <2>2, <1>1 DEF NoneBefore
  <2>3. CASE r \notin GprUses(At(va))
    <3>1. r \notin GprDef(At(va))
      BY <2>3, InBlock
    <3> SUFFICES Following(va) \cap F # {}
      BY <2>1, <3>1, <1>1 DEF NoneBefore
    <3>2. CASE va + 1 < e
      <4>1. va + 1 \in Body(b) /\ Following(va) = {va + 1}
        BY <3>2, InBlock DEF e
      <4>2. e - (va + 1) <= k - 1
        BY <2>1, <1>2
      <4>3. ReadsIn(b, va + 1, r) \/ (KeepsIn(b, va + 1, r) /\ out)
        <5> HIDE DEF out
        <5> QED BY <2>3, <3>2, InBlock DEF e
      <4>4. va + 1 \in F
        <5> HIDE DEF out
        <5> QED BY <1>4, <4>1, <4>2, <4>3
      <4> QED BY <4>1, <4>4
    <3>3. CASE ~(va + 1 < e)
      <4>1. Following(va) = {blocks[edges[i].to].start : i \in Successors(b)}
        BY <3>3, InBlock DEF e
      <4>2. out
        <5> HIDE DEF out
        <5> QED BY <2>3, <3>3, InBlock DEF e
      <4> QED BY <4>1, <4>2
    <3> QED BY <3>2, <3>3
  <2> QED BY <2>2, <2>3
<1>5. e \in P
  <2>1. \A k \in 0..e : k \in P
    <3> HIDE DEF P
    <3> QED BY <1>2, <1>3, <1>4, UpTo
  <2> HIDE DEF P
  <2> QED BY <2>1, <1>2
<1>6. \A va \in Body(b) : e - va <= e
  BY <1>2
<1>7. \A va \in Body(b) : Good(va)
  <2> HIDE DEF Good
  <2> QED BY <1>5, <1>6
<1> QED BY <1>7 DEF F

\* And nothing else, if M holds every block that reads r or leads to M with r kept.
LEMMA ReadFromOnly ==
  ASSUME prog \in Programs, Shape, Laid, NEW r, NEW M \in SUBSET BlockIds,
         \A b \in BlockIds :
           (\/ ReadsIn(b, blocks[b].start, r)
            \/ KeepsIn(b, blocks[b].start, r) /\ LeadsTo(b, M)) => b \in M,
         NEW b \in BlockIds, NEW va \in Body(b), va \in ReadFrom(r)
  PROVE  ReadsIn(b, va, r) \/ (KeepsIn(b, va, r) /\ LeadsTo(b, M))
<1> DEFINE Live(c, x) == ReadsIn(c, x, r) \/ (KeepsIn(c, x, r) /\ LeadsTo(c, M))
           S == {x \in Here : \E c \in BlockIds : x \in Body(c) /\ Live(c, x)}
<1>1. ASSUME NEW x \in Here, x \notin S
      PROVE  r \notin GprUses(At(x)) /\ (r \in GprDef(At(x)) \/ Following(x) \cap S = {})
  <2>1. PICK c \in BlockIds : x \in Body(c)
    BY DEF Laid
  <2> DEFINE e == blocks[c].end
  <2>2. ~Live(c, x)
    <3> HIDE DEF Live
    <3> QED BY <2>1, <1>1
  <2>3. r \notin GprUses(At(x))
    BY <2>1, <2>2, InBlock
  <2> SUFFICES ASSUME r \notin GprDef(At(x)), NEW y \in Following(x), y \in S PROVE FALSE
    BY <2>3
  <2>4. PICK a \in BlockIds : y \in Body(a) /\ Live(a, y)
    <3> HIDE DEF Live
    <3> QED OBVIOUS
  <2>5. CASE x + 1 < e
    <3>1. y = x + 1 /\ y \in Body(c)
      BY <2>1, <2>5, InBlock
    <3>2. a = c
      BY <3>1, <2>4 DEF Laid
    <3> QED BY <2>1, <2>2, <2>4, <2>5, <3>1, <3>2, InBlock
  <2>6. CASE ~(x + 1 < e)
    <3>1. PICK i \in Successors(c) : y = blocks[edges[i].to].start
      BY <2>1, <2>6, InBlock
    <3>2. edges[i].to \in BlockIds
      BY SuccessorsFacts
    <3>3. a = edges[i].to
      BY <3>1, <3>2, <2>4, BlockStarts
    <3>4. a \in M
      BY <3>1, <3>3, <2>4
    <3>5. KeepsIn(c, x, r)
      BY <2>1, <2>6, InBlock
    <3> QED BY <2>2, <3>3, <3>4, <3>5 DEF LeadsTo
  <2> QED BY <2>5, <2>6
<1>2. NoneBefore(r, S)
  <2> HIDE DEF S
  <2> QED BY <1>1 DEF NoneBefore
<1>3. va \in S
  <2>1. S \in SUBSET Here
    OBVIOUS
  <2> HIDE DEF S
  <2> QED BY <2>1, <1>2, ReadFromFacts
<1>4. PICK c \in BlockIds : va \in Body(c) /\ Live(c, va)
  <2> HIDE DEF Live
  <2> QED BY <1>3
<1>5. c = b
  BY <1>4 DEF Laid
<1> QED BY <1>4, <1>5

\* What Summarise has written down, and sets of registers each of which is read
\* by some path from the block it is given for.
Summed ==
  /\ defs = [b \in BlockIds |-> DefsOf(b)]
  /\ uses = [b \in BlockIds |-> UsesBeforeDef(b)]

Sound == {l \in [BlockIds -> SUBSET (0..31)] :
            \A b \in BlockIds : \A r \in l[b] : blocks[b].start \in ReadFrom(r)}

LEMMA WrittenDown ==
  ASSUME prog \in Programs, Laid, NEW b \in BlockIds
  PROVE  /\ UsesBeforeDef(b) \in SUBSET (0..31)
         /\ \A r : r \in UsesBeforeDef(b) <=> ReadsIn(b, blocks[b].start, r)
         /\ \A r : r \in DefsOf(b) <=> ~KeepsIn(b, blocks[b].start, r)
<1> DEFINE s == blocks[b].start
<1>1. \A r : r \in UsesBeforeDef(b) <=> ReadsIn(b, s, r)
  <2>1. \A r : r \in UsesBeforeDef(b) <=>
               \E va \in Body(b) :
                 r \in GprUses(At(va)) /\ \A v \in s..(va - 1) : r \notin GprDef(At(v))
    BY DEF UsesBeforeDef
  <2>2. \A r : ReadsIn(b, s, r) <=>
               \E va \in Body(b) :
                 r \in GprUses(At(va)) /\ \A v \in s..(va - 1) : r \notin GprDef(At(v))
    BY DEF ReadsIn, Body
  <2> QED BY <2>1, <2>2
<1>2. \A r : r \in DefsOf(b) <=> ~KeepsIn(b, s, r)
  BY DEF DefsOf, KeepsIn, Body
<1>3. UsesBeforeDef(b) \subseteq 0..31
  <2> SUFFICES ASSUME NEW va \in Body(b) PROVE GprUses(At(va)) \subseteq 0..31
    BY DEF UsesBeforeDef
  <2>1. At(va) \in Instructions
    <3>1. va \in Here
      BY InBlock
    <3> QED BY <3>1, CodeFacts
  <2>2. At(va).rd \in 0..31 /\ At(va).ra \in 0..31
    BY <2>1 DEF Instructions
  <2> QED BY <2>2 DEF GprUses, Arithmetic, Loads, Stores
<1> QED BY <1>1, <1>2, <1>3

LEMMA SummedFacts ==
  ASSUME prog \in Programs, Laid, Summed, NEW b \in BlockIds
  PROVE  /\ uses[b] \in SUBSET (0..31)
         /\ \A r : r \in uses[b] <=> ReadsIn(b, blocks[b].start, r)
         /\ \A r : r \in defs[b] <=> ~KeepsIn(b, blocks[b].start, r)
BY WrittenDown DEF Summed

LEMMA LiveInFacts ==
  ASSUME prog \in Programs, Shape, Laid, Summed, NEW l \in Sound, NEW b \in BlockIds
  PROVE  /\ LiveIn(l, b) \in SUBSET (0..31)
         /\ \A r \in LiveIn(l, b) : blocks[b].start \in ReadFrom(r)
         /\ [l EXCEPT ![b] = LiveIn(l, b)] \in Sound
<1>1. \A i \in Successors(b) : edges[i].to \in BlockIds
  BY SuccessorsFacts
<1>2. LiveIn(l, b) \in SUBSET (0..31)
  BY <1>1, SummedFacts DEF LiveIn, Leaving, Sound
<1>3. ASSUME NEW r \in LiveIn(l, b) PROVE blocks[b].start \in ReadFrom(r)
  <2>1. ReadsIn(b, blocks[b].start, r)
        \/ (KeepsIn(b, blocks[b].start, r) /\ \E i \in Successors(b) : r \in l[edges[i].to])
    BY SummedFacts DEF LiveIn, Leaving
  <2>2. \A i \in Successors(b) : r \in l[edges[i].to] =>
                                   blocks[edges[i].to].start \in ReadFrom(r)
    BY <1>1 DEF Sound
  <2>3. blocks[b].start \in Body(b)
    BY BlockStarts
  <2> QED BY <2>1, <2>2, <2>3, ReadFromHolds
<1>4. [l EXCEPT ![b] = LiveIn(l, b)] \in Sound
  <2> DEFINE t == [l EXCEPT ![b] = LiveIn(l, b)]
  <2>1. l \in [BlockIds -> SUBSET (0..31)]
    BY DEF Sound
  <2>2. t \in [BlockIds -> SUBSET (0..31)]
        /\ \A c \in BlockIds : t[c] = IF c = b THEN LiveIn(l, b) ELSE l[c]
    BY <1>2, <2>1
  <2> HIDE DEF t
  <2>3. t \in Sound
    BY <2>2, <1>3 DEF Sound
  <2> QED BY <2>3 DEF t
<1> QED BY <1>2, <1>3, <1>4

\* ssa_compute_defuse: a round keeps to what is read; one that changes nothing
\* has found, for each block, what it makes of its successors.
LEMMA SweepFacts ==
  ASSUME prog \in Programs, Shape, Laid, Summed, live \in Sound
  PROVE  /\ Sweep \in Sound
         /\ Sweep = live => \A b \in BlockIds : live[b] = LiveIn(live, b)
<1> DEFINE N == Len(blocks)
           block(k) == N + 1 - k
           Turn(k, l) == [l EXCEPT ![block(k)] = LiveIn(l, block(k))]
           step == [k \in 1..N |-> [l \in Sound |-> Turn(k, l)]]
           Rec(f) == [k \in 0..N |-> IF k = 0 THEN live ELSE Turn(k, f[k - 1])]
<1>1. N \in Nat /\ N > 0 /\ BlockIds = 1..N
  BY DEF Shape
<1>2. ASSUME NEW k \in 1..N PROVE block(k) \in BlockIds /\ k - 1 \in 0..N /\ k \in 0..N /\ k # 0
  BY <1>1
<1> HIDE DEF N, block
<1>3. ASSUME NEW k \in 1..N, NEW l \in Sound PROVE Turn(k, l) \in Sound
  BY <1>2, LiveInFacts
<1>4. PICK f : Unfolds(f, Sound, live, N, step)
  <2>1. step \in [1..N -> [Sound -> Sound]]
    <3> HIDE DEF Turn
    <3> QED BY <1>3
  <2>2. Recurses(Sound, live, N, step)
    <3> HIDE DEF step
    <3> QED BY <1>1, <2>1 DEF Recurses
  <2> HIDE DEF step
  <2> QED BY ONLY <2>2, RecursionDefines
<1>5. f \in [0..N -> Sound] /\ f[0] = live /\ \A k \in 1..N : f[k] = Turn(k, f[k - 1])
  <2>1. f \in [0..N -> Sound] /\ f[0] = live /\ \A k \in 1..N : f[k] = step[k][f[k - 1]]
    BY <1>4 DEF Unfolds
  <2>2. ASSUME NEW k \in 1..N PROVE f[k] = Turn(k, f[k - 1])
    <3>1. f[k - 1] \in Sound /\ f[k] = step[k][f[k - 1]]
      <4> HIDE DEF step
      <4> QED BY <1>2, <2>1
    <3> HIDE DEF Turn
    <3> QED BY <3>1
  <2> HIDE DEF step, Turn
  <2> QED BY <2>1, <2>2
<1> HIDE DEF step, Turn
<1>6. f = Rec(f)
  <2>1. ASSUME NEW k \in 0..N PROVE f[k] = Rec(f)[k]
    <3>1. k = 0 \/ k \in 1..N
      BY <1>1
    <3> QED BY <3>1, <1>5
  <2>2. f = [k \in 0..N |-> f[k]]
    BY <1>5
  <2> QED BY <2>1, <2>2
<1> DEFINE g == CHOOSE g : g = Rec(g)
<1>7. g = Rec(g)
  <2> HIDE DEF Rec
  <2> QED BY <1>6
<1>8. Sweep = g[N]
  BY DEF Sweep, Turn, N, block
<1>9. g[0] = live /\ \A k \in 1..N : g[k] = Turn(k, g[k - 1])
  <2> HIDE DEF g
  <2>1. \A k \in 0..N : g[k] = IF k = 0 THEN live ELSE Turn(k, g[k - 1])
    BY <1>7
  <2>2. 0 \in 0..N
    BY <1>1
  <2> QED BY <2>1, <2>2, <1>2
<1> HIDE DEF g, Rec
<1> DEFINE P == {k \in 0..N : g[k] \in Sound
                  /\ \A n \in 1..k : g[k][block(n)] = LiveIn(g[n - 1], block(n))}
<1>10. 0 \in P
  BY <1>1, <1>9
<1>11. ASSUME NEW k \in 1..N, k - 1 \in P PROVE k \in P
  <2> DEFINE l == g[k - 1]
             b == block(k)
  <2>1. l \in Sound /\ \A n \in 1..(k - 1) : l[block(n)] = LiveIn(g[n - 1], block(n))
    BY <1>11
  <2>2. g[k] = [l EXCEPT ![b] = LiveIn(l, b)] /\ g[k] \in Sound
    BY <2>1, <1>3, <1>9 DEF Turn
  <2>3. l \in [BlockIds -> SUBSET (0..31)]
    BY <2>1 DEF Sound
  <2>4. \A c \in BlockIds : g[k][c] = IF c = b THEN LiveIn(l, b) ELSE l[c]
    <3> HIDE DEF l, b
    <3> QED BY <2>2, <2>3
  <2>5. ASSUME NEW n \in 1..k PROVE g[k][block(n)] = LiveIn(g[n - 1], block(n))
    <3>1. n \in 1..N /\ block(n) \in BlockIds
      <4>1. n \in 1..N
        BY <1>1
      <4> QED BY <4>1, <1>2
    <3>2. CASE n = k
      BY <3>1, <3>2, <2>4
    <3>3. CASE n # k
      <4>1. n \in 1..(k - 1) /\ block(n) # b
        BY <3>3, <1>1 DEF block
      <4> QED BY <3>1, <4>1, <2>1, <2>4
    <3> QED BY <3>2, <3>3
  <2> QED BY <2>2, <2>5, <1>2
<1>12. \A k \in 0..N : k \in P
  <2> HIDE DEF P
  <2> QED BY <1>1, <1>10, <1>11, UpTo
<1>13. \A k \in 0..N : g[k] \in Sound
  BY <1>12
<1>14. \A n \in 1..N : g[N][block(n)] = LiveIn(g[n - 1], block(n))
  <2>1. N \in 0..N
    BY <1>1
  <2> QED BY <2>1, <1>12
<1> HIDE DEF P
<1>15. ASSUME g[N] = live PROVE \A b \in BlockIds : live[b] = LiveIn(live, b)
  <2> DEFINE Q == {k \in 0..N : g[k] = live}
  <2>1. 0 \in Q
    BY <1>1, <1>9
  <2>2. ASSUME NEW k \in 1..N, k - 1 \in Q PROVE k \in Q
    <3> DEFINE b == block(k)
    <3>1. g[k - 1] = live
      BY <2>2
    <3>2. g[k] = [live EXCEPT ![b] = LiveIn(live, b)] /\ LiveIn(live, b) = live[b]
      BY <3>1, <1>9, <1>14, <1>15 DEF Turn
    <3>3. live \in [BlockIds -> SUBSET (0..31)]
      BY DEF Sound
    <3>4. [live EXCEPT ![b] = live[b]] = live
      <4> HIDE DEF b
      <4> QED BY <3>3
    <3> HIDE DEF b
    <3> QED BY <3>2, <3>4, <1>2
  <2>3. \A k \in 0..N : k \in Q
    <3> HIDE DEF Q
    <3> QED BY <1>1, <2>1, <2>2, UpTo
  <2>4. ASSUME NEW b \in BlockIds PROVE live[b] = LiveIn(live, b)
    <3> DEFINE n == N + 1 - b
    <3>1. n \in 1..N /\ block(n) = b
      BY <1>1 DEF block
    <3>2. g[n - 1] = live
      <4> HIDE DEF n
      <4> QED BY <3>1, <1>2, <2>3
    <3> QED BY <3>1, <3>2, <1>14, <1>15
  <2> QED BY <2>4
<1> QED BY <1>1, <1>8, <1>13, <1>15

\* A call's result is used when r3 is read after it.
LEMMA ResultIsRead ==
  ASSUME prog \in Programs, Shape, Laid, NEW b \in BlockIds, NEW va \in Body(b)
  PROVE  ResultUsed(b, va) <=>
           ReadsIn(b, va + 1, 3) \/ (KeepsIn(b, va + 1, 3) /\ 3 \in Leaving(live, b))
BY DEF ResultUsed, ReadsIn, KeepsIn

\* The registers live in each block, and the results said to be used.
Solved == \A b \in BlockIds : live[b] = LiveIn(live, b)
Asked ==
  \A va \in DOMAIN calls :
    va \in Here /\ calls[va].returns = ResultUsed(CHOOSE x \in BlockIds : va \in Body(x), va)

AfterSummary == {"summary", "live", "phis", "constants", "slots", "ssa"}
LiveInv ==
  /\ stage \in AfterSummary => Summed /\ live \in Sound
  /\ stage \in AfterSummary \ {"summary"} => Solved
  /\ stage = "ssa" => Asked

\* What is live is what is read.
LEMMA LiveIsRead ==
  ASSUME prog \in Programs, Shape, Laid, Summed, live \in Sound, Solved,
         NEW r, NEW b \in BlockIds
  PROVE  /\ r \in live[b] <=> blocks[b].start \in ReadFrom(r)
         /\ r \in Leaving(live, b) <=>
              \E i \in Successors(b) : blocks[edges[i].to].start \in ReadFrom(r)
         /\ \A va \in Body(b) :
              va \in ReadFrom(r) <=>
                ReadsIn(b, va, r) \/ (KeepsIn(b, va, r) /\ r \in Leaving(live, b))
<1> DEFINE M == {c \in BlockIds : r \in live[c]}
<1>1. \A c \in BlockIds : LeadsTo(c, M) <=> r \in Leaving(live, c)
  BY SuccessorsFacts DEF LeadsTo, Leaving
<1>2. ASSUME NEW c \in BlockIds
      PROVE  c \in M <=> \/ ReadsIn(c, blocks[c].start, r)
                         \/ KeepsIn(c, blocks[c].start, r) /\ LeadsTo(c, M)
  <2>1. r \in live[c] <=> r \in uses[c] \/ (r \in Leaving(live, c) /\ r \notin defs[c])
    BY DEF Solved, LiveIn
  <2>2. c \in M <=> r \in live[c]
    OBVIOUS
  <2> HIDE DEF M
  <2> QED BY <2>1, <2>2, <1>1, SummedFacts
<1>3. \A c \in BlockIds : r \in live[c] => blocks[c].start \in ReadFrom(r)
  BY DEF Sound
<1>4. ASSUME NEW c \in BlockIds, NEW va \in Body(c), va \in ReadFrom(r)
      PROVE  ReadsIn(c, va, r) \/ (KeepsIn(c, va, r) /\ LeadsTo(c, M))
  <2>1. M \in SUBSET BlockIds
    OBVIOUS
  <2> HIDE DEF M
  <2> QED BY <1>2, <1>4, <2>1, ReadFromOnly
<1>5. \A c \in BlockIds : blocks[c].start \in ReadFrom(r) => r \in live[c]
  <2>1. \A c \in BlockIds : c \in M <=> r \in live[c]
    OBVIOUS
  <2> HIDE DEF M
  <2> QED BY <2>1, <1>2, <1>4, BlockStarts
<1>6. r \in Leaving(live, b) <=>
        \E i \in Successors(b) : blocks[edges[i].to].start \in ReadFrom(r)
  BY <1>3, <1>5, SuccessorsFacts DEF Leaving
<1>7. ASSUME NEW va \in Body(b)
      PROVE  va \in ReadFrom(r) <=>
               ReadsIn(b, va, r) \/ (KeepsIn(b, va, r) /\ r \in Leaving(live, b))
  <2> HIDE DEF M
  <2> QED BY <1>1, <1>4, <1>6, ReadFromHolds
<1> QED BY <1>3, <1>5, <1>6, <1>7

\* A result is used when some path after the call reads it first.
LEMMA UsedIsRead ==
  ASSUME prog \in Programs, Shape, Laid, Summed, live \in Sound, Solved,
         NEW b \in BlockIds, NEW va \in Body(b)
  PROVE  ResultUsed(b, va) <=> Following(va) \cap ReadFrom(3) # {}
<1> DEFINE e == blocks[b].end
<1>1. CASE va + 1 < e
  <2>1. va + 1 \in Body(b) /\ Following(va) = {va + 1}
    BY <1>1, InBlock
  <2>2. va + 1 \in ReadFrom(3) <=>
          ReadsIn(b, va + 1, 3) \/ (KeepsIn(b, va + 1, 3) /\ 3 \in Leaving(live, b))
    BY <2>1, LiveIsRead
  <2> QED BY <2>1, <2>2, ResultIsRead
<1>2. CASE ~(va + 1 < e)
  <2>1. va \in Nat /\ e \in Nat /\ va < e
    BY InBlock
  <2>2. Following(va) = {blocks[edges[i].to].start : i \in Successors(b)}
    BY <1>2, InBlock
  <2>3. \A v : v \notin (va + 1)..(e - 1)
    BY <2>1, <1>2
  <2>4. ~ReadsIn(b, va + 1, 3) /\ KeepsIn(b, va + 1, 3)
    BY <2>3 DEF ReadsIn, KeepsIn
  <2>5. ResultUsed(b, va) <=> 3 \in Leaving(live, b)
    BY <2>4, ResultIsRead
  <2>6. 3 \in Leaving(live, b) <=>
          \E i \in Successors(b) : blocks[edges[i].to].start \in ReadFrom(3)
    BY LiveIsRead
  <2> QED BY <2>2, <2>5, <2>6
<1> QED BY <1>1, <1>2

LEMMA LiveIsExact ==
  ASSUME FlowInv, LaidInv, LiveInv
  PROVE  LivenessExact
<1> SUFFICES ASSUME stage = "ssa", NEW r \in Registers
             PROVE  /\ \A b \in BlockIds : r \in live[b] <=> blocks[b].start \in ReadFrom(r)
                    /\ r = 3 => \A va \in DOMAIN calls :
                                  calls[va].returns <=> Following(va) \cap ReadFrom(r) # {}
  BY DEF LivenessExact
<1>1. prog \in Programs /\ Shape /\ Laid /\ Summed /\ live \in Sound /\ Solved /\ Asked
  BY DEF FlowInv, ShapeInv, LaidInv, LiveInv, AfterSummary
<1>2. \A b \in BlockIds : r \in live[b] <=> blocks[b].start \in ReadFrom(r)
  BY <1>1, LiveIsRead
<1>3. ASSUME r = 3, NEW va \in DOMAIN calls
      PROVE  calls[va].returns <=> Following(va) \cap ReadFrom(r) # {}
  <2> DEFINE b == CHOOSE x \in BlockIds : va \in Body(x)
  <2>1. va \in Here /\ calls[va].returns = ResultUsed(b, va)
    BY <1>1 DEF Asked
  <2>2. b \in BlockIds /\ va \in Body(b)
    BY <1>1, <2>1 DEF Laid
  <2> HIDE DEF b
  <2> QED BY <1>1, <1>3, <2>1, <2>2, UsedIsRead
<1> QED BY <1>2, <1>3

\* What liveness is said of: the function, its blocks and its edges.
LEMMA FlowKept ==
  ASSUME UNCHANGED <<prog, blocks, edges>>
  PROVE  /\ Here' = Here /\ BlockIds' = BlockIds
         /\ \A b : Body(b)' = Body(b) /\ Successors(b)' = Successors(b)
         /\ \A va : At(va)' = At(va) /\ Following(va)' = Following(va)
         /\ \A b : DefsOf(b)' = DefsOf(b) /\ UsesBeforeDef(b)' = UsesBeforeDef(b)
         /\ \A r : ReadFrom(r)' = ReadFrom(r)
<1>1. /\ Here' = Here /\ BlockIds' = BlockIds /\ DOMAIN edges' = DOMAIN edges
      /\ \A va : At(va)' = At(va)
  BY DEF Here, BlockIds, At, code
<1>2. \A b : Body(b)' = Body(b) /\ Successors(b)' = Successors(b)
  BY DEF Body, Successors
<1>3. \A va : Following(va)' = Following(va)
  BY <1>1, <1>2 DEF Following
<1>4. \A b : DefsOf(b)' = DefsOf(b) /\ UsesBeforeDef(b)' = UsesBeforeDef(b)
  BY <1>1, <1>2 DEF DefsOf, UsesBeforeDef
<1>5. \A r : ReadFrom(r)' = ReadFrom(r)
  BY <1>1, <1>3 DEF ReadFrom
<1> QED BY <1>1, <1>2, <1>3, <1>4, <1>5

\* ssa_compute_defuse begins with what each block reads before writing it.
LEMMA SummaryIsSound ==
  ASSUME prog \in Programs, Shape, Laid, Summarise
  PROVE  Summed' /\ (live \in Sound)'
<1>1. UNCHANGED <<prog, blocks, edges>>
  BY DEF Summarise
<1>2. /\ defs' = [b \in BlockIds |-> DefsOf(b)]
      /\ uses' = [b \in BlockIds |-> UsesBeforeDef(b)] /\ live' = uses'
  BY DEF Summarise
<1>3. Summed'
  BY <1>1, <1>2, FlowKept DEF Summed
<1>4. live' = [b \in BlockIds |-> UsesBeforeDef(b)]
  BY <1>2
<1>5. ASSUME NEW b \in BlockIds
      PROVE  /\ UsesBeforeDef(b) \in SUBSET (0..31)
             /\ \A r \in UsesBeforeDef(b) : blocks[b].start \in ReadFrom(r)
  BY WrittenDown, ReadFromHolds, BlockStarts
<1>6. (live \in Sound)'
  <2>1. live' \in [BlockIds -> SUBSET (0..31)]
    BY <1>4, <1>5
  <2>2. \A b \in BlockIds : \A r \in live'[b] : blocks[b].start \in ReadFrom(r)
    BY <1>4, <1>5
  <2> QED BY <1>1, <2>1, <2>2, FlowKept DEF Sound
<1> QED BY <1>3, <1>6

LEMMA LiveStep ==
  ASSUME FlowInv, LaidInv, LiveInv, [SsaNext]_vars
  PROVE  LiveInv'
<1>1. stage # "none" => prog \in Programs /\ Shape /\ Laid
  BY DEF FlowInv, ShapeInv, LaidInv
<1>2. ASSUME UNCHANGED <<prog, blocks, edges, defs, uses>>
      PROVE  Summed' = Summed /\ Sound' = Sound
  BY <1>2, FlowKept DEF Summed, Sound
<1>3. CASE Summarise
  <2>1. Summed' /\ (live \in Sound)' /\ stage' = "summary"
    BY <1>1, <1>3, SummaryIsSound DEF Summarise
  <2> QED BY <2>1 DEF LiveInv, AfterSummary
<1>4. CASE SolveLiveness
  <2>1. Summed /\ live \in Sound /\ stage = "summary"
    BY <1>4 DEF LiveInv, AfterSummary, SolveLiveness
  <2>2. Sweep \in Sound /\ (Sweep = live => Solved)
    BY <1>1, <2>1, SweepFacts DEF Solved
  <2>3. /\ UNCHANGED <<prog, blocks, edges, defs, uses>> /\ live' = Sweep
        /\ stage' = IF Sweep = live THEN "live" ELSE "summary"
    BY <1>4, <2>1 DEF SolveLiveness
  <2>4. Summed' /\ (live \in Sound)'
    BY <1>2, <2>1, <2>2, <2>3
  <2>5. CASE Sweep = live
    <3>1. live' = live
      BY <2>3, <2>5
    <3>2. Solved'
      BY <2>2, <2>3, <2>5, <3>1, FlowKept DEF Solved, LiveIn, Leaving
    <3> QED BY <2>3, <2>4, <2>5, <3>2 DEF LiveInv, AfterSummary
  <2>6. CASE Sweep # live
    BY <2>3, <2>4, <2>6 DEF LiveInv, AfterSummary
  <2> QED BY <2>5, <2>6
<1>5. CASE /\ UNCHANGED <<prog, blocks, edges, defs, uses, live>>
           /\ stage' \in AfterSummary => stage \in AfterSummary
           /\ stage' \in AfterSummary \ {"summary"} => stage \in AfterSummary \ {"summary"}
           /\ stage' = "ssa" => ReconstructCalls \/ (stage = "ssa" /\ UNCHANGED calls)
  <2>1. Summed' = Summed /\ Sound' = Sound /\ live' = live
    BY <1>2, <1>5
  <2>2. Solved' = Solved
    BY <1>5, FlowKept DEF Solved, LiveIn, Leaving
  <2>3. /\ Here' = Here /\ BlockIds' = BlockIds /\ \A b : Body(b)' = Body(b)
        /\ \A va : At(va)' = At(va)
        /\ \A b, va : ResultUsed(b, va)' = ResultUsed(b, va)
    BY <1>5, FlowKept DEF ResultUsed, Leaving
  <2>4. ASSUME stage' = "ssa" PROVE Asked'
    <3>1. CASE ReconstructCalls
      <4>1. \A va \in DOMAIN calls' :
              /\ va \in Here
              /\ calls'[va].returns = ResultUsed(CHOOSE x \in BlockIds : va \in Body(x), va)
        BY <3>1 DEF ReconstructCalls, CallSite
      <4> QED BY <2>3, <4>1 DEF Asked
    <3>2. CASE stage = "ssa" /\ UNCHANGED calls
      <4>1. Asked
        BY <3>2 DEF LiveInv
      <4> QED BY <2>3, <3>2, <4>1 DEF Asked
    <3> QED BY <1>5, <2>4, <3>1, <3>2
  <2> QED BY <1>5, <2>1, <2>2, <2>4 DEF LiveInv
<1>6. CASE stage' \notin AfterSummary
  BY <1>6 DEF LiveInv, AfterSummary
<1>7. CASE UNCHANGED vars
  BY <1>5, <1>7 DEF vars, flowVars, ssaOwn
<1>8. CASE FlowNext /\ UNCHANGED ssaOwn
  BY <1>6, <1>8
     DEF FlowNext, SplitAndWire, StartOrder, Descend, Leave, StartDominance, VisitBlock,
         EndRound, AgainIf, ClassifyLoops, RecoverSwitches, ClassifyRegions, AfterSummary
<1>9. CASE PlacePhis \/ FoldPrologue \/ MapStackSlots \/ ReconstructCalls
  BY <1>5, <1>9 DEF PlacePhis, FoldPrologue, MapStackSlots, ReconstructCalls, AfterSummary
<1> QED BY <1>3, <1>4, <1>7, <1>8, <1>9 DEF SsaNext

\* ssa_compute_defuse, ssa_reconstruct_calls: what is live where a block begins
\* is what some path from there reads first, and a call's result is used when
\* some path after the call reads it first, for every function.
THEOREM LivenessIsExact == SsaSpec => []LivenessExact
<1>1. SsaInit => LaidInv /\ LiveInv
  BY DEF SsaInit, FlowInit, LaidInv, LiveInv, AfterSummary
<1>2. FlowInv /\ LaidInv /\ LiveInv /\ [SsaNext]_vars => LaidInv' /\ LiveInv'
  BY LaidStep, LiveStep DEF FlowInv
<1>3. FlowInv /\ LaidInv /\ LiveInv => LivenessExact
  BY LiveIsExact
<1> QED BY <1>1, <1>2, <1>3, FlowInvariant, PTL DEF SsaSpec

=============================================================================
