---------------------------- MODULE LibraryProofs ---------------------------
(***************************************************************************)
(* Theorems about the libraries, for every size of their tables and every  *)
(* measurement.                                                            *)
(*                                                                         *)
(* Motion: a movement is reported once, as long as the slowest frame is    *)
(* FastEnough; the ring holds the last samples; the two hands are treated  *)
(* alike.                                                                  *)
(***************************************************************************)
EXTENDS MotionGestures, SceneGraph, MiiPackage, RecursionFacts, FiniteSetTheorems

-----------------------------------------------------------------------------
(* Motion: the cooldown *)


MotionTypes ==
  /\ timer \in [Channels -> Int]
  /\ since \in [Channels -> 0..History]
  /\ gap \in [Channels -> Nat]

\* What the cooldown has taken off its duration is at most one SlowestFrame for
\* each update since the gesture.
CooldownRuns ==
  \A c \in Channels :
    since[c] < History => Cooldown <= timer[c] + since[c] * SlowestFrame

MotionInv == MotionTypes /\ CooldownRuns /\ NoSampleReportedTwice

-----------------------------------------------------------------------------
(* Arithmetic *)

LEMMA Products ==
  ASSUME NEW a \in Nat, NEW b \in Nat, NEW m \in Nat, a * m < b * m
  PROVE  a < b
<1>1. SUFFICES ASSUME b <= a PROVE FALSE
  OBVIOUS
<1>2. PICK k \in Nat : a = b + k
  <2>1. a = b + (a - b) /\ a - b \in Nat
    BY <1>1
  <2> QED BY <2>1
<1>3. a * m = b * m + k * m
  BY <1>2
<1>4. k * m >= 0
  OBVIOUS
<1>5. a * m \in Nat /\ b * m \in Nat /\ k * m \in Nat
  OBVIOUS
<1> QED BY <1>3, <1>4, <1>5

\* One frame more.
LEMMA NextProduct ==
  ASSUME NEW a \in Nat, NEW m \in Nat
  PROVE  (a + 1) * m = a * m + m
OBVIOUS

LEMMA LeastFacts ==
  ASSUME NEW m \in Nat, NEW n \in Nat
  PROVE  /\ Least(m, n) \in Nat
         /\ Least(m, n) <= m
         /\ Least(m, n) <= n
         /\ Least(m, n) = m \/ Least(m, n) = n
BY DEF Least
-----------------------------------------------------------------------------
(* The invariant *)

LEMMA InitMotionInv == MotionInit => MotionInv
BY MotionAssumption
DEF MotionInit, MotionInv, MotionTypes, CooldownRuns, NoSampleReportedTwice

\* When the cooldown is over in a frame, at least MaxWindow updates have passed.
LEMMA CooledIsLate ==
  ASSUME MotionInv, FastEnough, NEW c \in Channels, NEW dt \in FrameTimes,
         Cooled(timer[c], dt)
  PROVE  Least(since[c] + 1, History) >= MaxWindow
<1> DEFINE s == since[c]
           m == SlowestFrame
<1>1. s \in Nat /\ s <= History /\ timer[c] \in Int /\ m \in Nat /\ dt \in Nat /\ dt <= m
  BY MotionAssumption DEF MotionInv, MotionTypes
<1>2. MaxWindow \in Nat /\ MaxWindow - 1 \in Nat /\ MaxWindow <= History /\ Cooldown \in Nat
      /\ History \in Nat
  BY MotionAssumption
<1>3. CASE s = History
  BY <1>1, <1>2, <1>3 DEF Least
<1>4. CASE s < History
  <2>1. Cooldown <= timer[c] + s * m
    BY <1>4 DEF MotionInv, CooldownRuns
  <2>2. s * m \in Nat /\ (s + 1) * m \in Nat /\ (MaxWindow - 1) * m \in Nat
    BY <1>1, <1>2
  <2>3. (s + 1) * m = s * m + m
    BY <1>1, NextProduct
  <2>4. timer[c] <= m
    BY <1>1 DEF Cooled
  <2>5. Cooldown <= (s + 1) * m
    BY <2>1, <2>2, <2>3, <2>4, <1>1, <1>2
  <2>6. (MaxWindow - 1) * m < (s + 1) * m
    BY <2>2, <2>5, <1>2 DEF FastEnough
  <2>7. MaxWindow - 1 < s + 1
    <3>1. s + 1 \in Nat
      BY <1>1
    <3> HIDE DEF s, m
    <3> QED BY <2>6, <3>1, <1>1, <1>2, Products
  <2> QED BY <2>7, <1>1, <1>2 DEF Least
<1> QED BY <1>1, <1>2, <1>3, <1>4

LEMMA UpdateKeepsMotionInv ==
  ASSUME MotionInv, NEW c \in Channels, NEW dt \in FrameTimes, MotionUpdate(c, dt)
  PROVE  MotionInv'
<1>1. timer[c] \in Int /\ since[c] \in 0..History /\ gap[c] \in Nat
  BY DEF MotionInv, MotionTypes
<1>2. dt \in Nat /\ dt <= SlowestFrame /\ SlowestFrame \in Nat /\ Cooldown \in Nat
      /\ History \in Nat /\ History > 0
  BY MotionAssumption
<1>3. PICK found :
        /\ found # "none" => Cooled(timer[c], dt)
        /\ timer' = [timer EXCEPT ![c] =
                       IF found # "none" THEN Cooldown
                       ELSE IF timer[c] > 0 THEN timer[c] - dt ELSE timer[c]]
        /\ since' = [since EXCEPT ![c] =
                       IF found # "none" THEN 0 ELSE Least(since[c] + 1, History)]
        /\ gap' = [gap EXCEPT ![c] =
                     IF found # "none" THEN Least(since[c] + 1, History) ELSE gap[c]]
  BY DEF MotionUpdate
<1>4. Least(since[c] + 1, History) \in 0..History
  <2>1. since[c] + 1 \in Nat
    BY <1>1
  <2>2. /\ Least(since[c] + 1, History) \in Nat
        /\ Least(since[c] + 1, History) <= History
    BY ONLY <1>2, <2>1, LeastFacts
  <2>3. QED
    BY ONLY <1>2, <2>2
<1>5. MotionTypes'
  BY <1>1, <1>2, <1>3, <1>4 DEF MotionInv, MotionTypes
<1>6. CooldownRuns'
  <2> SUFFICES ASSUME NEW d \in Channels, since'[d] < History
               PROVE  Cooldown <= timer'[d] + since'[d] * SlowestFrame
    BY DEF CooldownRuns
  <2>1. CASE d # c
    BY <2>1, <1>3 DEF MotionInv, MotionTypes, CooldownRuns
  <2>2. CASE d = c /\ found # "none"
    <3>1. timer'[d] = Cooldown /\ since'[d] = 0
      BY <2>2, <1>3 DEF MotionInv, MotionTypes
    <3> QED BY <3>1, <1>2
  <2>3. CASE d = c /\ found = "none"
    <3>1. since'[d] = Least(since[c] + 1, History)
      BY <2>3, <1>3 DEF MotionInv, MotionTypes
    <3>2. since[c] + 1 < History /\ since'[d] = since[c] + 1
      BY <3>1, <1>1, <1>2 DEF Least
    <3>3. Cooldown <= timer[c] + since[c] * SlowestFrame
      BY <3>2, <1>1, <1>2 DEF MotionInv, CooldownRuns
    <3>4. (since[c] + 1) * SlowestFrame = since[c] * SlowestFrame + SlowestFrame
      BY <1>1, <1>2, NextProduct
    <3>5. timer'[d] >= timer[c] - SlowestFrame /\ timer'[d] \in Int
      BY <2>3, <1>1, <1>2, <1>3 DEF MotionInv, MotionTypes
    <3>6. since[c] * SlowestFrame \in Int
      BY <1>1, <1>2
    <3> QED BY <3>2, <3>3, <3>4, <3>5, <3>6, <1>1, <1>2
  <2> QED BY <2>1, <2>2, <2>3
<1>7. NoSampleReportedTwice'
  <2> SUFFICES ASSUME FastEnough, NEW d \in Channels
               PROVE  gap'[d] >= MaxWindow
    BY DEF NoSampleReportedTwice, FastEnough
  <2>1. CASE d = c /\ found # "none"
    <3>1. gap'[d] = Least(since[c] + 1, History)
      BY <2>1, <1>3 DEF MotionInv, MotionTypes
    <3> QED BY <3>1, <2>1, <1>3, CooledIsLate
  <2>2. CASE ~(d = c /\ found # "none")
    <3>1. gap'[d] = gap[d]
      BY <2>2, <1>3 DEF MotionInv, MotionTypes
    <3> QED BY <3>1 DEF MotionInv, NoSampleReportedTwice
  <2> QED BY <2>1, <2>2
<1> QED BY <1>5, <1>6, <1>7 DEF MotionInv

LEMMA NextKeepsMotionInv ==
  ASSUME MotionInv, [MotionNext]_motionVars
  PROVE  MotionInv'
<1>1. CASE InitMotion
  BY <1>1, MotionAssumption
  DEF InitMotion, MotionInv, MotionTypes, CooldownRuns, NoSampleReportedTwice, FastEnough
<1>2. ASSUME NEW c \in Arguments,
             \/ \E s \in Samples : FeedRaw(c, s)
             \/ FeedIr(c)
             \/ \E t \in Thresholds : SetThresholds(c, t)
      PROVE  MotionInv'
  <2>1. UNCHANGED <<timer, since, gap>>
    BY <1>2 DEF FeedRaw, FeedIr, SetThresholds
  <2> QED
    BY <2>1 DEF MotionInv, MotionTypes, CooldownRuns, NoSampleReportedTwice, FastEnough
<1>3. ASSUME NEW c \in Arguments, NEW dt \in FrameTimes, MotionUpdate(c, dt)
      PROVE  MotionInv'
  <2>1. c \in Channels
    BY <1>3 DEF MotionUpdate, Reaches
  <2> QED BY <2>1, <1>3, UpdateKeepsMotionInv
<1>4. CASE UNCHANGED motionVars
  BY <1>4
  DEF motionVars, MotionInv, MotionTypes, CooldownRuns, NoSampleReportedTwice, FastEnough
<1> QED BY <1>1, <1>2, <1>3, <1>4 DEF MotionNext

\* The samples in which motion_update finds a gesture were not there yet when it
\* found the gesture before.
THEOREM MovementIsReportedOnce == MotionSpec => []NoSampleReportedTwice
<1>1. MotionInit => MotionInv
  BY InitMotionInv
<1>2. MotionInv /\ [MotionNext]_motionVars => MotionInv'
  BY NextKeepsMotionInv
<1>3. MotionInv => NoSampleReportedTwice
  BY DEF MotionInv
<1> QED BY <1>1, <1>2, <1>3, PTL DEF MotionSpec

-----------------------------------------------------------------------------
(* Motion: the ring *)

RingTypes ==
  /\ raw \in [Channels -> Measurements]
  /\ ring \in [Channels -> [0..(History - 1) -> Measurements]]
  /\ index \in [Channels -> 0..(History - 1)]
  /\ filled \in [Channels -> 0..History]
  /\ recent \in [Channels -> Seq(Measurements)]

RingInv == RingTypes /\ RingIsRecent

\* Indexes of the ring go once around it at most.
LEMMA Around ==
  ASSUME NEW x \in Nat, x < History + History
  PROVE  x % History = IF x < History THEN x ELSE x - History
<1>1. History \in Nat \ {0}
  BY MotionAssumption
<1>2. CASE x < History
  BY <1>1, <1>2
<1>3. CASE ~(x < History)
  <2>1. History <= x
    BY <1>1, <1>3
  <2> QED BY <2>1, <1>1, <1>3
<1> QED BY <1>2, <1>3

LEMMA Back ==
  ASSUME NEW i \in 0..(History - 1), NEW k \in 1..History
  PROVE  (i + History - k) % History = IF k <= i THEN i - k ELSE i + History - k
<1>1. History \in Nat \ {0}
  BY MotionAssumption
<1> DEFINE x == i + History - k
<1>2. x \in Nat /\ x < History + History /\ (x < History <=> ~(k <= i)) /\ x - History = i - k
  BY <1>1
<1> HIDE DEF x
<1>3. x % History = IF x < History THEN x ELSE x - History
  BY <1>2, Around
<1>4. x % History = IF k <= i THEN i - k ELSE x
  BY <1>2, <1>3
<1> QED BY <1>4 DEF x

LEMMA WindowTypes ==
  ASSUME NEW r \in [0..(History - 1) -> Measurements], NEW i \in 0..(History - 1),
         NEW n \in 0..History
  PROVE  /\ WindowOf(r, i, n) \in Seq(Measurements)
         /\ Len(WindowOf(r, i, n)) = n
         /\ \A k \in 1..n : WindowOf(r, i, n)[k] = r[(i + History - k) % History]
<1>1. History \in Nat \ {0}
  BY MotionAssumption
<1>2. ASSUME NEW k \in 1..n
      PROVE  (i + History - k) % History \in 0..(History - 1)
  <2>1. i + History - k \in Nat
    BY <1>1
  <2> QED BY <2>1, <1>1
<1>3. n \in Nat
  BY <1>1
<1>4. \A k \in 1..n : r[(i + History - k) % History] \in Measurements
  BY <1>2
<1> QED BY <1>3, <1>4 DEF WindowOf

\* The sample just written comes first, the others move back by one.
\* The window of a ring after a measurement was pushed.
WindowAfter(r, i, s, n) == WindowOf([r EXCEPT ![i] = s], (i + 1) % History, n)

LEMMA WindowMoves ==
  ASSUME NEW r \in [0..(History - 1) -> Measurements], NEW i \in 0..(History - 1),
         NEW s \in Measurements, NEW n \in 1..History
  PROVE  /\ WindowAfter(r, i, s, n)[1] = s
         /\ \A k \in 2..n : WindowAfter(r, i, s, n)[k] = r[(i + History - (k - 1)) % History]
<1> DEFINE q == [r EXCEPT ![i] = s]
           j == (i + 1) % History
<1>1. History \in Nat \ {0} /\ i \in Nat /\ i < History
  BY MotionAssumption
<1>2. j \in 0..(History - 1) /\ j = IF i + 1 < History THEN i + 1 ELSE 0
  <2> DEFINE x == i + 1
  <2>1. x \in Nat /\ x < History + History /\ (x < History \/ x - History = 0)
    BY <1>1
  <2>2. j = x % History
    OBVIOUS
  <2> HIDE DEF x, j
  <2>3. j = IF x < History THEN x ELSE x - History
    BY <2>1, <2>2, Around
  <2>4. j \in 0..(History - 1) /\ j = IF x < History THEN x ELSE 0
    BY <2>1, <2>3, <1>1
  <2> QED BY <2>4 DEF x
<1>3. q \in [0..(History - 1) -> Measurements]
  OBVIOUS
<1>4. n \in 0..History
  BY <1>1
<1>5. \A k \in 1..n : WindowOf(q, j, n)[k] = q[(j + History - k) % History]
  <2> HIDE DEF q, j
  <2> QED BY <1>2, <1>3, <1>4, WindowTypes
<1>6. ASSUME NEW k \in 1..n
      PROVE  (j + History - k) % History
               = IF k = 1 THEN i ELSE (i + History - (k - 1)) % History
  <2> HIDE DEF j
  <2>1. (j + History - k) % History = IF k <= j THEN j - k ELSE j + History - k
    <3>1. k \in 1..History
      BY <1>1
    <3> QED BY <3>1, <1>2, Back
  <2>2. CASE k = 1
    BY <2>1, <2>2, <1>1, <1>2
  <2>3. CASE k # 1
    <3> DEFINE l == k - 1
    <3>1. l \in 1..History
      BY <2>3, <1>1
    <3>2. (i + History - l) % History = IF l <= i THEN i - l ELSE i + History - l
      <4> HIDE DEF l
      <4> QED BY <3>1, Back
    <3> QED BY <2>1, <2>3, <3>2, <1>1, <1>2
  <2> QED BY <2>2, <2>3
<1>7. ASSUME NEW k \in 2..n
      PROVE  (i + History - (k - 1)) % History \in 0..(History - 1) \ {i}
  <2> DEFINE l == k - 1
  <2>1. l \in 1..History /\ l < History
    BY <1>1
  <2>2. (i + History - l) % History = IF l <= i THEN i - l ELSE i + History - l
    <3> HIDE DEF l
    <3> QED BY <2>1, Back
  <2> QED BY <2>1, <2>2, <1>1
<1>8. 1 \in 1..n /\ \A k \in 2..n : k \in 1..n /\ k # 1
  BY <1>1
<1>9. WindowOf(q, j, n)[1] = s
  <2>1. WindowOf(q, j, n)[1] = q[i]
    <3> HIDE DEF q, j
    <3> QED BY <1>5, <1>6, <1>8
  <2> QED BY <2>1
<1>10. ASSUME NEW k \in 2..n
       PROVE  WindowOf(q, j, n)[k] = r[(i + History - (k - 1)) % History]
  <2>1. WindowOf(q, j, n)[k] = q[(i + History - (k - 1)) % History]
    <3> HIDE DEF q, j
    <3> QED BY <1>5, <1>6, <1>8
  <2> QED BY <2>1, <1>7
<1>11. WindowAfter(r, i, s, n) = WindowOf(q, j, n)
  BY DEF WindowAfter
<1> HIDE DEF q, j
<1> QED BY <1>9, <1>10, <1>11

LEMMA InitRing == MotionInit => RingInv
<1> SUFFICES ASSUME MotionInit PROVE RingInv
  OBVIOUS
<1>1. Still \in Measurements
  BY DEF Still, Measurements, Vectors
<1>2. History \in Nat \ {0} /\ MaxWindow \in 1..History
  BY MotionAssumption
<1>3. RingTypes
  BY <1>1, <1>2 DEF MotionInit, RingTypes
<1>4. ASSUME NEW c \in Channels
      PROVE  recent[c] = WindowOf(ring[c], index[c], Least(filled[c], MaxWindow))
  <2>1. recent[c] = <<>> /\ filled[c] = 0
    BY DEF MotionInit
  <2>2. Least(filled[c], MaxWindow) = 0
    BY <2>1, <1>2 DEF Least
  <2> QED BY <2>1, <2>2 DEF WindowOf
<1> QED BY <1>3, <1>4 DEF RingInv, RingIsRecent

\* A sample put before the others, and the sequence cut off after n of them.
LEMMA PushedFacts ==
  ASSUME NEW S, NEW s \in S, NEW list \in Seq(S), NEW n \in 1..(Len(list) + 1)
  PROVE  LET v == SubSeq(<<s>> \o list, 1, n)
         IN  /\ v \in Seq(S)
             /\ Len(v) = n
             /\ v[1] = s
             /\ \A k \in 2..n : v[k] = list[k - 1]
<1> DEFINE all == <<s>> \o list
<1>1. all \in Seq(S) /\ Len(all) = Len(list) + 1 /\ Len(list) \in Nat
  OBVIOUS
<1>2. all[1] = s /\ \A k \in 2..(Len(list) + 1) : all[k] = list[k - 1]
  OBVIOUS
<1> HIDE DEF all
<1>3. SubSeq(all, 1, n) \in Seq(S) /\ Len(SubSeq(all, 1, n)) = n
  BY <1>1
<1>4. \A k \in 1..n : SubSeq(all, 1, n)[k] = all[k]
  BY <1>1
<1>5. SubSeq(all, 1, n)[1] = s
  BY <1>1, <1>2, <1>4
<1>6. \A k \in 2..n : SubSeq(all, 1, n)[k] = list[k - 1]
  BY <1>1, <1>2, <1>4
<1> QED BY <1>3, <1>5, <1>6 DEF all

LEMMA UpdateKeepsRing ==
  ASSUME RingInv, NEW c \in Channels, NEW dt \in FrameTimes, MotionUpdate(c, dt)
  PROVE  RingInv'
<1> DEFINE q == [ring[c] EXCEPT ![index[c]] = raw[c]]
           j == (index[c] + 1) % History
           f == Least(filled[c] + 1, History)
           n == Least(f, MaxWindow)
           old == Least(filled[c], MaxWindow)
           kept == Least(Len(recent[c]) + 1, MaxWindow)
<1>1. History \in Nat \ {0} /\ MaxWindow \in 1..History
  BY MotionAssumption
<1>2. /\ raw[c] \in Measurements
      /\ ring[c] \in [0..(History - 1) -> Measurements]
      /\ index[c] \in 0..(History - 1)
      /\ filled[c] \in 0..History
      /\ recent[c] = WindowOf(ring[c], index[c], old)
  BY DEF RingInv, RingTypes, RingIsRecent
<1>3. /\ raw' = raw
      /\ ring' = [ring EXCEPT ![c] = q]
      /\ index' = [index EXCEPT ![c] = j]
      /\ filled' = [filled EXCEPT ![c] = f]
      /\ recent' = [recent EXCEPT ![c] = SubSeq(<<raw[c]>> \o recent[c], 1, kept)]
  BY DEF MotionUpdate
<1>4. j \in 0..(History - 1) /\ f \in 1..History /\ n \in 1..History /\ old \in 0..History
      /\ n = Least(old + 1, MaxWindow) /\ n <= old + 1
  <2>1. j \in 0..(History - 1)
    BY <1>1, <1>2
  <2>2. f \in 1..History /\ n \in 1..History /\ old \in 0..History
        /\ n = Least(old + 1, MaxWindow) /\ n <= old + 1
    <3> HIDE DEF j
    <3> QED BY <1>1, <1>2 DEF Least
  <2> QED BY <2>1, <2>2
<1>5. recent[c] \in Seq(Measurements) /\ Len(recent[c]) = old
      /\ \A k \in 1..old : recent[c][k] = ring[c][(index[c] + History - k) % History]
  <2>1. /\ ring[c] \in [0..(History - 1) -> Measurements]
        /\ index[c] \in 0..(History - 1) /\ old \in 0..History
        /\ recent[c] = WindowOf(ring[c], index[c], old)
    BY <1>2, <1>4
  <2> HIDE DEF old
  <2> QED BY <2>1, WindowTypes
<1>6. kept = n
  BY <1>4, <1>5
<1> DEFINE w == WindowOf(q, j, n)
           v == SubSeq(<<raw[c]>> \o recent[c], 1, kept)
<1>7. /\ v \in Seq(Measurements)
      /\ Len(v) = n
      /\ v[1] = raw[c]
      /\ \A k \in 2..n : v[k] = recent[c][k - 1]
  <2> HIDE DEF n, kept, old
  <2>1. n \in 1..(Len(recent[c]) + 1)
    BY <1>4, <1>5
  <2> QED BY <2>1, <1>2, <1>5, <1>6, PushedFacts
<1>8. v = w
  <2>1. w \in Seq(Measurements) /\ Len(w) = n
    <3>1. q \in [0..(History - 1) -> Measurements] /\ n \in 0..History
      BY <1>1, <1>2, <1>4, SMTT(60)
    <3> HIDE DEF q, j, n
    <3> QED BY <3>1, <1>4, WindowTypes
  <2>2. w[1] = raw[c]
        /\ \A k \in 2..n : w[k] = ring[c][(index[c] + History - (k - 1)) % History]
    <3> DEFINE r == ring[c]
               i == index[c]
               s == raw[c]
    <3>1. /\ r \in [0..(History - 1) -> Measurements] /\ i \in 0..(History - 1)
          /\ s \in Measurements /\ n \in 1..History
      BY <1>2, <1>4
    <3>2. w = WindowAfter(r, i, s, n)
      BY DEF WindowAfter
    <3> HIDE DEF w, n, q, j, r, i, s
    <3> DEFINE x == WindowAfter(r, i, s, n)
    <3>3. x[1] = s /\ \A k \in 2..n : x[k] = r[(i + History - (k - 1)) % History]
      BY <3>1, WindowMoves, ZenonT(60)
    <3> HIDE DEF x
    <3> QED BY <3>2, <3>3 DEF r, i, s, x
  <2> HIDE DEF v, w, n, old
  <2>3. ASSUME NEW k \in 1..n PROVE v[k] = w[k]
    <3>1. CASE k = 1
      BY <3>1, <2>2, <1>7
    <3>2. CASE k # 1
      <4>1. k \in 2..n /\ k - 1 \in 1..old
        BY <3>2, <1>1, <1>4
      <4> QED BY <4>1, <2>2, <1>5, <1>7
    <3> QED BY <3>1, <3>2
  <2> QED BY <2>1, <2>3, <1>7
<1>9. RingIsRecent'
  <2> SUFFICES ASSUME NEW d \in Channels
               PROVE  recent'[d] = WindowOf(ring'[d], index'[d], Least(filled'[d], MaxWindow))
    BY DEF RingIsRecent, WindowOf, Least
  <2>1. CASE d = c
    <3>1. recent'[d] = v /\ ring'[d] = q /\ index'[d] = j /\ filled'[d] = f
      BY <2>1, <1>3 DEF RingInv, RingTypes
    <3> QED BY <3>1, <1>8
  <2>2. CASE d # c
    <3>1. recent'[d] = recent[d] /\ ring'[d] = ring[d] /\ index'[d] = index[d]
          /\ filled'[d] = filled[d]
      BY <2>2, <1>3 DEF RingInv, RingTypes
    <3> QED BY <3>1 DEF RingInv, RingIsRecent
  <2> QED BY <2>1, <2>2
<1>10. RingTypes'
  <2>1. recent' = [recent EXCEPT ![c] = v]
    BY <1>3
  <2>2. q \in [0..(History - 1) -> Measurements]
    BY <1>2
  <2> HIDE DEF v, q, j, f
  <2>3. v \in Seq(Measurements) /\ f \in 0..History /\ j \in 0..(History - 1)
    BY <1>1, <1>4, <1>7
  <2> QED BY <2>1, <2>2, <2>3, <1>3 DEF RingInv, RingTypes
<1> QED BY <1>9, <1>10 DEF RingInv

LEMMA NextKeepsRing ==
  ASSUME RingInv, [MotionNext]_motionVars
  PROVE  RingInv'
<1>1. CASE InitMotion
  <2>1. Still \in Measurements
    BY DEF Still, Measurements, Vectors
  <2>2. History \in Nat \ {0} /\ MaxWindow \in 1..History
    BY MotionAssumption
  <2>3. RingTypes'
    BY <1>1, <2>1, <2>2 DEF InitMotion, RingTypes
  <2>4. ASSUME NEW c \in Channels
        PROVE  recent'[c] = WindowOf(ring'[c], index'[c], Least(filled'[c], MaxWindow))
    <3>1. recent'[c] = <<>> /\ filled'[c] = 0
      BY <1>1 DEF InitMotion
    <3>2. Least(filled'[c], MaxWindow) = 0
      BY <3>1, <2>2 DEF Least
    <3> QED BY <3>1, <3>2 DEF WindowOf
  <2> QED BY <2>3, <2>4 DEF RingInv, RingIsRecent, WindowOf, Least
<1>2. ASSUME NEW c \in Arguments,
             \/ \E s \in Samples : FeedRaw(c, s)
             \/ FeedIr(c)
             \/ \E t \in Thresholds : SetThresholds(c, t)
      PROVE  RingInv'
  <2>1. UNCHANGED <<ring, index, filled, recent>> /\ raw' \in [Channels -> Measurements]
    BY <1>2, MotionAssumption
    DEF FeedRaw, FeedIr, SetThresholds, RingInv, RingTypes, Reaches
  <2> QED
    BY <2>1 DEF RingInv, RingTypes, RingIsRecent, WindowOf, Least
<1>3. ASSUME NEW c \in Arguments, NEW dt \in FrameTimes, MotionUpdate(c, dt)
      PROVE  RingInv'
  <2>1. c \in Channels
    BY <1>3 DEF MotionUpdate, Reaches
  <2> QED BY <2>1, <1>3, UpdateKeepsRing
<1>4. CASE UNCHANGED motionVars
  BY <1>4 DEF motionVars, RingInv, RingTypes, RingIsRecent, WindowOf, Least
<1> QED BY <1>1, <1>2, <1>3, <1>4 DEF MotionNext

\* The window detect_gestures looks at is made of the samples of the last
\* updates, the newest first, wherever in the ring they are.
THEOREM WindowIsRecent == MotionSpec => []RingIsRecent
<1>1. MotionInit => RingInv
  BY InitRing
<1>2. RingInv /\ [MotionNext]_motionVars => RingInv'
  BY NextKeepsRing
<1>3. RingInv => RingIsRecent
  BY DEF RingInv
<1> QED BY <1>1, <1>2, <1>3, PTL DEF MotionSpec

-----------------------------------------------------------------------------
(* Motion: the two hands *)

\* Scripts set no negative threshold for a twist.
TwistsNotNegative == \A t \in Thresholds \cup {DefaultLimits} : t.twist \in Nat

LEMMA PeakUnfolds ==
  ASSUME NEW list \in Seq(Vectors)
  PROVE  \E best \in [0..Len(list) -> Vectors] :
           /\ best[0] = <<0, 0, 0>>
           /\ \A k \in 1..Len(list) :
                best[k] = IF Dot(list[k], list[k]) > Dot(best[k - 1], best[k - 1])
                          THEN list[k] ELSE best[k - 1]
           /\ Peak(list) = best[Len(list)]
<1> DEFINE N == Len(list)
           zero == <<0, 0, 0>>
           step == [k \in 1..N |-> [v \in Vectors |->
                      IF Dot(list[k], list[k]) > Dot(v, v) THEN list[k] ELSE v]]
           Rec(f) == [n \in 0..N |->
                        IF n = 0 THEN zero
                        ELSE IF Dot(list[n], list[n]) > Dot(f[n - 1], f[n - 1])
                             THEN list[n] ELSE f[n - 1]]
<1>1. N \in Nat /\ zero \in Vectors /\ \A k \in 1..N : list[k] \in Vectors
  BY DEF Vectors
<1>2. step \in [1..N -> [Vectors -> Vectors]]
  BY <1>1
<1>3. PICK f \in [0..N -> Vectors] :
        f[0] = zero /\ \A k \in 1..N : f[k] = step[k][f[k - 1]]
  <2> HIDE DEF step, N, zero, Rec
  <2>1. N \in Nat
    BY <1>1
  <2>2. zero \in Vectors
    BY <1>1
  <2> QED BY <2>1, <2>2, <1>2, RecursionExists, SMTT(60)
<1>4. ASSUME NEW k \in 1..N
      PROVE  f[k] = IF Dot(list[k], list[k]) > Dot(f[k - 1], f[k - 1])
                    THEN list[k] ELSE f[k - 1]
  <2>1. f[k - 1] \in Vectors
    BY <1>1, SMTT(60)
  <2> QED BY <2>1, <1>3
<1>5. f = Rec(f)
  BY <1>1, <1>3, <1>4
<1>6. PICK g : g = Rec(g) /\ Peak(list) = g[N]
  BY <1>5 DEF Peak
<1>7. /\ g[0] = zero
      /\ \A k \in 1..N : g[k] = IF Dot(list[k], list[k]) > Dot(g[k - 1], g[k - 1])
                                THEN list[k] ELSE g[k - 1]
  <2>1. \A n \in 0..N : g[n] = IF n = 0 THEN zero
                                ELSE IF Dot(list[n], list[n]) > Dot(g[n - 1], g[n - 1])
                                     THEN list[n] ELSE g[n - 1]
    <3> HIDE DEF N, zero
    <3> QED BY <1>6
  <2> QED BY <1>1, <2>1
<1>8. \A k \in 0..N : g[k] \in Vectors
  <2> DEFINE P == {k \in 0..N : g[k] \in Vectors}
  <2>1. 0 \in P
    BY <1>1, <1>7
  <2>2. \A k \in 1..N : k - 1 \in P => k \in P
    BY <1>1, <1>7, SMTT(60)
  <2>3. \A k \in 0..N : k \in P
    <3> HIDE DEF P
    <3> QED BY <1>1, <2>1, <2>2, UpTo
  <2> QED BY <2>3
<1>9. g \in [0..N -> Vectors]
  BY <1>6, <1>8
<1> QED BY <1>6, <1>7, <1>9

\* So do running sums.
LEMMA SumExists ==
  ASSUME NEW N \in Nat, NEW c, \A k \in 1..N : c[k] \in Int
  PROVE  \E f \in [0..N -> Int] :
           f[0] = 0 /\ \A k \in 1..N : f[k] = f[k - 1] + c[k]
<1> DEFINE step == [k \in 1..N |-> [x \in Int |-> x + c[k]]]
<1>1. PICK numbers, nought : numbers = Int /\ nought = 0
  OBVIOUS
<1>2. step \in [1..N -> [numbers -> numbers]] /\ nought \in numbers
  BY <1>1
<1>3. PICK f \in [0..N -> numbers] : f[0] = nought /\ \A k \in 1..N : f[k] = step[k][f[k - 1]]
  <2> HIDE DEF step
  <2>1. N \in Nat
    OBVIOUS
  <2> QED BY ONLY <2>1, <1>2, RecursionExists
<1>4. f \in [0..N -> Int] /\ f[0] = 0
  BY <1>1, <1>3
<1>5. ASSUME NEW k \in 1..N PROVE f[k] = f[k - 1] + c[k]
  <2>1. k - 1 \in 0..N
    OBVIOUS
  <2>2. f[k - 1] \in Int
    BY <1>4, <2>1
  <2>3. f[k] = step[k][f[k - 1]]
    BY <1>3
  <2> QED BY <2>2, <2>3
<1> QED BY <1>4, <1>5

LEMMA PlusDotTypes ==
  ASSUME NEW u \in Vectors, NEW v \in Vectors
  PROVE  Plus(u, v) \in Vectors /\ Dot(u, v) \in Int
<1>1. /\ u[1] \in Int /\ u[2] \in Int /\ u[3] \in Int
      /\ v[1] \in Int /\ v[2] \in Int /\ v[3] \in Int
  BY DEF Vectors
<1>2. Plus(u, v) \in Vectors
  <2>1. u[1] + v[1] \in Int /\ u[2] + v[2] \in Int /\ u[3] + v[3] \in Int
    BY <1>1
  <2> QED BY <2>1 DEF Plus, Vectors
<1>3. Dot(u, v) \in Int
  <2>1. u[1] * v[1] \in Int /\ u[2] * v[2] \in Int /\ u[3] * v[3] \in Int
    BY <1>1
  <2> QED BY <2>1 DEF Dot
<1> QED BY <1>2, <1>3

LEMMA VarianceUnfolds ==
  ASSUME NEW list \in Seq(Vectors)
  PROVE  \E total \in [0..Len(list) -> Vectors], squares \in [0..Len(list) -> Int] :
           /\ total[0] = <<0, 0, 0>>
           /\ \A k \in 1..Len(list) : total[k] = Plus(total[k - 1], list[k])
           /\ squares[0] = 0
           /\ \A k \in 1..Len(list) : squares[k] = squares[k - 1] + Dot(list[k], list[k])
           /\ ScaledVariance(list)
                = IF Len(list) < 2 THEN 0
                  ELSE Len(list) * squares[Len(list)]
                         - Dot(total[Len(list)], total[Len(list)])
<1> DEFINE N == Len(list)
           zero == <<0, 0, 0>>
           add == [k \in 1..N |-> [v \in Vectors |-> Plus(v, list[k])]]
           Total(f) == [k \in 0..N |-> IF k = 0 THEN zero ELSE Plus(f[k - 1], list[k])]
           Squares(f) == [k \in 0..N |-> IF k = 0 THEN 0
                                         ELSE f[k - 1] + Dot(list[k], list[k])]
<1>1. N \in Nat /\ zero \in Vectors
      /\ \A k \in 1..N : list[k] \in Vectors /\ Dot(list[k], list[k]) \in Int
  <2>1. N \in Nat /\ zero \in Vectors /\ \A k \in 1..N : list[k] \in Vectors
    BY DEF Vectors
  <2> QED BY <2>1, PlusDotTypes
<1>2. PICK total \in [0..N -> Vectors] :
        total[0] = zero /\ \A k \in 1..N : total[k] = Plus(total[k - 1], list[k])
  <2>1. add \in [1..N -> [Vectors -> Vectors]]
    BY <1>1, PlusDotTypes
  <2>2. PICK f \in [0..N -> Vectors] :
          f[0] = zero /\ \A k \in 1..N : f[k] = add[k][f[k - 1]]
    <3> HIDE DEF add, N, zero, Total, Squares
    <3>1. N \in Nat
      BY <1>1
    <3>2. zero \in Vectors
      BY <1>1
    <3> QED BY ONLY <3>1, <3>2, <2>1, RecursionExists, SMTT(30)
  <2>3. ASSUME NEW k \in 1..N PROVE f[k] = Plus(f[k - 1], list[k])
    <3>1. f[k - 1] \in Vectors
      BY <1>1, SMTT(60)
    <3> QED BY <3>1, <2>2
  <2> QED BY <2>2, <2>3
<1>3. PICK squares \in [0..N -> Int] :
        squares[0] = 0
        /\ \A k \in 1..N : squares[k] = squares[k - 1] + Dot(list[k], list[k])
  <2> DEFINE c == [k \in 1..N |-> Dot(list[k], list[k])]
  <2>1. \A k \in 1..N : c[k] \in Int
    BY <1>1
  <2>2. \E f \in [0..N -> Int] : f[0] = 0 /\ \A k \in 1..N : f[k] = f[k - 1] + c[k]
    <3> HIDE DEF c, N
    <3>1. N \in Nat
      BY <1>1
    <3> QED BY ONLY <3>1, <2>1, SumExists
  <2> QED BY <2>2
<1>4. total = Total(total) /\ squares = Squares(squares)
  BY <1>1, <1>2, <1>3
<1> DEFINE t == CHOOSE f : f = Total(f)
           q == CHOOSE f : f = Squares(f)
<1>5. ScaledVariance(list) = IF N < 2 THEN 0 ELSE N * q[N] - Dot(t[N], t[N])
  BY DEF ScaledVariance
<1> HIDE DEF t, q
<1>6. /\ t = Total(t)
      /\ t[0] = zero
      /\ \A k \in 1..N : t[k] = Plus(t[k - 1], list[k])
  <2>1. t = Total(t)
    <3> HIDE DEF Total
    <3> QED BY <1>4, Zenon DEF t
  <2>2. \A k \in 0..N : t[k] = IF k = 0 THEN zero ELSE Plus(t[k - 1], list[k])
    <3> HIDE DEF N, zero
    <3> SUFFICES ASSUME NEW k \in 0..N
                 PROVE  t[k] = IF k = 0 THEN zero ELSE Plus(t[k - 1], list[k])
      OBVIOUS
    <3>1. t[k] = Total(t)[k]
      <4> HIDE DEF Total
      <4> QED BY ONLY <2>1, Zenon
    <3>2. Total(t)[k] = IF k = 0 THEN zero ELSE Plus(t[k - 1], list[k])
      OBVIOUS
    <3>3. QED
      <4> HIDE DEF Total
      <4> QED BY ONLY <3>1, <3>2
  <2> HIDE DEF N, zero, Total
  <2>3. t[0] = zero
    BY <1>1, <2>2
  <2>4. \A k \in 1..N : t[k] = Plus(t[k - 1], list[k])
    BY <1>1, <2>2
  <2> QED BY <2>1, <2>3, <2>4
<1>7. /\ q = Squares(q)
      /\ q[0] = 0
      /\ \A k \in 1..N : q[k] = q[k - 1] + Dot(list[k], list[k])
  <2>1. q = Squares(q)
    <3> HIDE DEF Squares
    <3> QED BY <1>4, Zenon DEF q
  <2>2. \A k \in 0..N : q[k] = IF k = 0 THEN 0 ELSE q[k - 1] + Dot(list[k], list[k])
    <3> HIDE DEF N
    <3> QED BY <2>1
  <2> HIDE DEF N, Squares
  <2>3. q[0] = 0
    BY <1>1, <2>2
  <2>4. \A k \in 1..N : q[k] = q[k - 1] + Dot(list[k], list[k])
    BY <1>1, <2>2
  <2> QED BY <2>1, <2>3, <2>4
<1>8. \A k \in 0..N : t[k] \in Vectors /\ q[k] \in Int
  <2> DEFINE P == {k \in 0..N : t[k] \in Vectors /\ q[k] \in Int}
  <2>1. 0 \in P
    <3>1. t[0] \in Vectors /\ q[0] \in Int /\ 0 \in 0..N
      <4> HIDE DEF N, zero
      <4> QED BY <1>1, <1>6, <1>7
    <3> QED BY <3>1
  <2>2. ASSUME NEW k \in 1..N, k - 1 \in P PROVE k \in P
    <3>1. t[k - 1] \in Vectors /\ q[k - 1] \in Int
      BY <2>2
    <3>2. t[k] \in Vectors
      BY <3>1, <1>1, <1>6, PlusDotTypes
    <3>3. q[k] \in Int
      <4> HIDE DEF N, zero, Total, Squares, add
      <4>1. q[k] = q[k - 1] + Dot(list[k], list[k]) /\ Dot(list[k], list[k]) \in Int
        BY <1>1, <1>7
      <4> QED BY <3>1, <4>1
    <3> QED BY <3>2, <3>3
  <2>3. \A k \in 0..N : k \in P
    <3> HIDE DEF P
    <3> QED BY <1>1, <2>1, <2>2, UpTo
  <2> QED BY <2>3
<1>9. t \in [0..N -> Vectors] /\ q \in [0..N -> Int]
  BY <1>6, <1>7, <1>8
<1> HIDE DEF Total, Squares
<1> QED BY <1>5, <1>6, <1>7, <1>9

LEMMA VarianceIsInt ==
  ASSUME NEW list \in Seq(Vectors)
  PROVE  ScaledVariance(list) \in Int
<1> DEFINE N == Len(list)
<1>1. PICK t \in [0..N -> Vectors], q \in [0..N -> Int] :
        ScaledVariance(list) = IF N < 2 THEN 0 ELSE N * q[N] - Dot(t[N], t[N])
  BY VarianceUnfolds
<1>2. N \in Nat /\ N \in 0..N
  OBVIOUS
<1>3. t[N] \in Vectors /\ q[N] \in Int
  BY <1>2
<1>4. Dot(t[N], t[N]) \in Int /\ N * q[N] \in Int
  BY <1>2, <1>3, PlusDotTypes
<1> QED BY <1>1, <1>4

LEMMA MirrorPeak ==
  ASSUME NEW a \in Seq(Vectors), NEW b \in Seq(Vectors), Len(a) = Len(b),
         NEW M \in [Vectors -> Vectors], M[<<0, 0, 0>>] = <<0, 0, 0>>,
         \A v \in Vectors : Dot(M[v], M[v]) = Dot(v, v),
         \A k \in 1..Len(a) : b[k] = M[a[k]]
  PROVE  Peak(a) \in Vectors /\ Peak(b) = M[Peak(a)]
<1> DEFINE N == Len(a)
<1>1. N \in Nat /\ \A k \in 1..N : a[k] \in Vectors
  OBVIOUS
<1>2. PICK f \in [0..N -> Vectors] :
        /\ f[0] = <<0, 0, 0>>
        /\ \A k \in 1..N : f[k] = IF Dot(a[k], a[k]) > Dot(f[k - 1], f[k - 1])
                                  THEN a[k] ELSE f[k - 1]
        /\ Peak(a) = f[N]
  BY PeakUnfolds
<1>3. PICK g \in [0..N -> Vectors] :
        /\ g[0] = <<0, 0, 0>>
        /\ \A k \in 1..N : g[k] = IF Dot(b[k], b[k]) > Dot(g[k - 1], g[k - 1])
                                  THEN b[k] ELSE g[k - 1]
        /\ Peak(b) = g[N]
  BY PeakUnfolds, ZenonT(60)
<1> DEFINE P == {k \in 0..N : g[k] = M[f[k]]}
<1>4. 0 \in P
  <2>1. g[0] = M[f[0]] /\ 0 \in 0..N
    <3> HIDE DEF N
    <3> QED BY <1>1, <1>2, <1>3
  <2> QED BY <2>1
<1>5. ASSUME NEW k \in 1..N, k - 1 \in P PROVE k \in P
  <2>1. k - 1 \in 0..N /\ g[k - 1] = M[f[k - 1]] /\ f[k - 1] \in Vectors
    BY <1>1, <1>5
  <2>2. Dot(b[k], b[k]) = Dot(a[k], a[k])
        /\ Dot(g[k - 1], g[k - 1]) = Dot(f[k - 1], f[k - 1])
    BY <2>1, <1>1
  <2>3. g[k] = M[f[k]]
    BY <2>1, <2>2, <1>1, <1>2, <1>3
  <2> QED BY <2>3
<1>6. \A k \in 0..N : k \in P
  <2> HIDE DEF P, N
  <2> QED BY <1>1, <1>4, <1>5, UpTo
<1> QED BY <1>1, <1>2, <1>3, <1>6

LEMMA MirrorVariance ==
  ASSUME NEW a \in Seq(Vectors), NEW b \in Seq(Vectors), Len(a) = Len(b),
         NEW M \in [Vectors -> Vectors], M[<<0, 0, 0>>] = <<0, 0, 0>>,
         \A v \in Vectors : Dot(M[v], M[v]) = Dot(v, v),
         \A u, v \in Vectors : M[Plus(u, v)] = Plus(M[u], M[v]),
         \A k \in 1..Len(a) : b[k] = M[a[k]]
  PROVE  ScaledVariance(b) = ScaledVariance(a)
<1> DEFINE N == Len(a)
<1>1. N \in Nat /\ \A k \in 1..N : a[k] \in Vectors
  OBVIOUS
<1>2. PICK s \in [0..N -> Vectors], p \in [0..N -> Int] :
        /\ s[0] = <<0, 0, 0>>
        /\ \A k \in 1..N : s[k] = Plus(s[k - 1], a[k])
        /\ p[0] = 0
        /\ \A k \in 1..N : p[k] = p[k - 1] + Dot(a[k], a[k])
        /\ ScaledVariance(a) = IF N < 2 THEN 0 ELSE N * p[N] - Dot(s[N], s[N])
  BY VarianceUnfolds
<1>3. PICK t \in [0..Len(b) -> Vectors], q \in [0..Len(b) -> Int] :
        /\ t[0] = <<0, 0, 0>>
        /\ \A k \in 1..Len(b) : t[k] = Plus(t[k - 1], b[k])
        /\ q[0] = 0
        /\ \A k \in 1..Len(b) : q[k] = q[k - 1] + Dot(b[k], b[k])
        /\ ScaledVariance(b)
             = IF Len(b) < 2 THEN 0
               ELSE Len(b) * q[Len(b)] - Dot(t[Len(b)], t[Len(b)])
  BY VarianceUnfolds
<1> DEFINE P == {k \in 0..N : t[k] = M[s[k]] /\ q[k] = p[k]}
<1>4. 0 \in P
  <2>1. t[0] = M[s[0]] /\ q[0] = p[0] /\ 0 \in 0..N
    <3> HIDE DEF N
    <3> QED BY <1>1, <1>2, <1>3
  <2> QED BY <2>1
<1>5. ASSUME NEW k \in 1..N, k - 1 \in P PROVE k \in P
  <2>1. k - 1 \in 0..N /\ t[k - 1] = M[s[k - 1]] /\ q[k - 1] = p[k - 1]
        /\ s[k - 1] \in Vectors
    BY <1>1, <1>5
  <2>2. Dot(b[k], b[k]) = Dot(a[k], a[k])
    BY <1>1
  <2>3. t[k] = M[s[k]]
    BY <2>1, <1>1, <1>2, <1>3, SMTT(60)
  <2>4. q[k] = p[k]
    BY <2>1, <2>2, <1>2, <1>3
  <2> QED BY <2>3, <2>4
<1>6. \A k \in 0..N : k \in P
  <2> HIDE DEF P, N
  <2> QED BY <1>1, <1>4, <1>5, UpTo
<1>7. t[N] = M[s[N]] /\ q[N] = p[N] /\ s[N] \in Vectors
  BY <1>1, <1>6
<1>8. Dot(t[N], t[N]) = Dot(s[N], s[N])
  BY <1>7
<1> QED BY <1>2, <1>3, <1>7, <1>8

\* The mirror images of accelerations and of angular velocities.
Sideways == [v \in Vectors |-> <<-v[1], v[2], v[3]>>]
Turned == [v \in Vectors |-> <<v[1], v[2], -v[3]>>]

LEMMA MirrorFacts ==
  ASSUME NEW M \in {Sideways, Turned}
  PROVE  /\ M \in [Vectors -> Vectors]
         /\ M[<<0, 0, 0>>] = <<0, 0, 0>>
         /\ \A v \in Vectors : Dot(M[v], M[v]) = Dot(v, v)
         /\ \A u, v \in Vectors : M[Plus(u, v)] = Plus(M[u], M[v])
<1>1. \A v \in Vectors : v[1] \in Int /\ v[2] \in Int /\ v[3] \in Int
  BY DEF Vectors
<1>2. M \in [Vectors -> Vectors]
  BY <1>1 DEF Sideways, Turned, Vectors
<1>3. <<0, 0, 0>> \in Vectors /\ M[<<0, 0, 0>>] = <<0, 0, 0>>
  <2>1. <<0, 0, 0>> \in Vectors
    BY DEF Vectors
  <2>2. Sideways[<<0, 0, 0>>] = <<-0, 0, 0>> /\ Turned[<<0, 0, 0>>] = <<0, 0, -0>>
    BY <2>1 DEF Sideways, Turned
  <2> QED BY <2>1, <2>2
<1>4. ASSUME NEW v \in Vectors PROVE Dot(M[v], M[v]) = Dot(v, v)
  <2>1. \A x \in Int : (-x) * (-x) = x * x
    OBVIOUS
  <2>2. v[1] \in Int /\ v[2] \in Int /\ v[3] \in Int
    BY <1>1
  <2>3. \/ M[v][1] = -v[1] /\ M[v][2] = v[2] /\ M[v][3] = v[3]
        \/ M[v][1] = v[1] /\ M[v][2] = v[2] /\ M[v][3] = -v[3]
    BY DEF Sideways, Turned
  <2>4. M[v][1] * M[v][1] = v[1] * v[1] /\ M[v][2] * M[v][2] = v[2] * v[2]
        /\ M[v][3] * M[v][3] = v[3] * v[3]
    BY <2>1, <2>2, <2>3
  <2> QED BY <2>4 DEF Dot
<1>5. ASSUME NEW u \in Vectors, NEW v \in Vectors
      PROVE  M[Plus(u, v)] = Plus(M[u], M[v])
  <2>1. /\ u[1] \in Int /\ u[2] \in Int /\ u[3] \in Int
        /\ v[1] \in Int /\ v[2] \in Int /\ v[3] \in Int
    BY <1>1
  <2>2. Plus(u, v) \in Vectors
    BY PlusDotTypes
  <2>3. CASE M = Sideways
    <3>1. M[Plus(u, v)] = <<-(u[1] + v[1]), u[2] + v[2], u[3] + v[3]>>
      BY <2>2, <2>3 DEF Sideways, Plus
    <3>2. Plus(M[u], M[v]) = <<(-u[1]) + (-v[1]), u[2] + v[2], u[3] + v[3]>>
      BY <2>3 DEF Sideways, Plus
    <3>3. -(u[1] + v[1]) = (-u[1]) + (-v[1])
      BY <2>1
    <3> QED BY <3>1, <3>2, <3>3
  <2>4. CASE M = Turned
    <3>1. M[Plus(u, v)] = <<u[1] + v[1], u[2] + v[2], -(u[3] + v[3])>>
      BY <2>2, <2>4 DEF Turned, Plus
    <3>2. Plus(M[u], M[v]) = <<u[1] + v[1], u[2] + v[2], (-u[3]) + (-v[3])>>
      BY <2>4 DEF Turned, Plus
    <3>3. -(u[3] + v[3]) = (-u[3]) + (-v[3])
      BY <2>1
    <3> QED BY <3>1, <3>2, <3>3
  <2> QED BY <2>3, <2>4
<1> QED BY <1>2, <1>3, <1>4, <1>5

LEMMA AbsFacts ==
  ASSUME NEW x \in Int
  PROVE  Abs(x) \in Nat /\ Abs(-x) = Abs(x) /\ (Abs(x) = 0 <=> x = 0)
BY DEF Abs

LEMMA MirrorSwing ==
  ASSUME NEW p \in Vectors, NEW limit
  PROVE  Swing(Sideways[p], limit) = MirrorName(Swing(p, limit))
<1>1. p[1] \in Int /\ p[2] \in Int /\ p[3] \in Int
  BY DEF Vectors
<1>2. Sideways[p][1] = -p[1] /\ Sideways[p][2] = p[2] /\ Sideways[p][3] = p[3]
  BY DEF Sideways
<1>3. Abs(Sideways[p][1]) = Abs(p[1])
  BY <1>1, <1>2, AbsFacts
<1>4. Abs(p[1]) > Abs(p[2]) => (-p[1] > 0 <=> ~(p[1] > 0))
  BY <1>1 DEF Abs
<1> QED BY <1>2, <1>3, <1>4, <1>1 DEF Swing, MirrorName

LEMMA MirrorClassify ==
  ASSUME NEW w \in Seq(Measurements), NEW limit, limit.twist \in Nat
  PROVE  Classify([i \in 1..Len(w) |-> MirrorSample(w[i])], limit)
           = MirrorName(Classify(w, limit))
<1> DEFINE n == Len(w)
           v == [i \in 1..n |-> MirrorSample(w[i])]
           a == [i \in 1..n |-> w[i].accel]
           b == [i \in 1..n |-> v[i].accel]
           g == [i \in 1..n |-> w[i].gyro]
           h == [i \in 1..n |-> v[i].gyro]
<1>1. n \in Nat /\ \A i \in 1..n : w[i].accel \in Vectors /\ w[i].gyro \in Vectors
  <2>1. n \in Nat /\ \A i \in 1..n : w[i] \in Measurements
    OBVIOUS
  <2>2. \A m \in Measurements : m.accel \in Vectors /\ m.gyro \in Vectors
    BY DEF Measurements
  <2> QED BY <2>1, <2>2
<1>2. Len(v) = n
  BY <1>1
<1>3. \A i \in 1..n : b[i] = Sideways[a[i]] /\ h[i] = Turned[g[i]]
  BY <1>1 DEF MirrorSample, Sideways, Turned
<1>4. a \in Seq(Vectors) /\ g \in Seq(Vectors) /\ Len(a) = n /\ Len(g) = n
  BY <1>1
<1>5. b \in Seq(Vectors) /\ h \in Seq(Vectors) /\ Len(b) = n /\ Len(h) = n
  <2>1. \A i \in 1..n : b[i] \in Vectors /\ h[i] \in Vectors
    <3> HIDE DEF b, h, v
    <3>1. \A i \in 1..n : a[i] \in Vectors /\ g[i] \in Vectors
      BY <1>1
    <3> QED BY <1>3, <3>1, MirrorFacts
  <2> QED BY <1>1, <2>1
<1> HIDE DEF a, b, g, h
<1>6. Peak(a) \in Vectors /\ Peak(b) = Sideways[Peak(a)]
      /\ ScaledVariance(b) = ScaledVariance(a)
  <2> DEFINE M == Sideways
  <2>1. /\ M \in [Vectors -> Vectors] /\ M[<<0, 0, 0>>] = <<0, 0, 0>>
        /\ \A u \in Vectors : Dot(M[u], M[u]) = Dot(u, u)
        /\ \A u, x \in Vectors : M[Plus(u, x)] = Plus(M[u], M[x])
    BY MirrorFacts
  <2>2. Len(a) = Len(b) /\ \A k \in 1..Len(a) : b[k] = M[a[k]]
    BY <1>3, <1>4, <1>5
  <2> HIDE DEF M, n, v
  <2>3. Peak(a) \in Vectors /\ Peak(b) = M[Peak(a)]
    BY <2>1, <2>2, <1>4, <1>5, MirrorPeak
  <2>4. ScaledVariance(b) = ScaledVariance(a)
    BY <2>1, <2>2, <1>4, <1>5, MirrorVariance
  <2> QED BY <2>3, <2>4 DEF M
<1>7. Peak(g) \in Vectors /\ Peak(h) = Turned[Peak(g)]
  <2> DEFINE M == Turned
  <2>1. /\ M \in [Vectors -> Vectors] /\ M[<<0, 0, 0>>] = <<0, 0, 0>>
        /\ \A u \in Vectors : Dot(M[u], M[u]) = Dot(u, u)
    BY MirrorFacts
  <2>2. Len(g) = Len(h) /\ \A k \in 1..Len(g) : h[k] = M[g[k]]
    BY <1>3, <1>4, <1>5
  <2> HIDE DEF M, n, v
  <2>3. Peak(g) \in Vectors /\ Peak(h) = M[Peak(g)]
    BY <2>1, <2>2, <1>4, <1>5, MirrorPeak
  <2> QED BY <2>3 DEF M
<1> DEFINE t == Peak(g)[3]
           shaken == ScaledVariance(a) > Shake * Shake * n * n
           still == ScaledVariance(a) <= Shake * Shake * n * n
           slow == Dot(Peak(a), Peak(a)) < limit.swing * limit.swing
<1>8. t \in Int /\ Peak(h)[3] = -t
  BY <1>7 DEF Vectors, Turned
<1>9. Dot(Peak(b), Peak(b)) = Dot(Peak(a), Peak(a))
      /\ Swing(Peak(b), limit) = MirrorName(Swing(Peak(a), limit))
  BY <1>6, MirrorFacts, MirrorSwing
<1>10. Classify(w, limit)
         = CASE shaken -> "shake"
             [] still /\ Abs(t) > limit.twist -> IF t > 0 THEN "twist ccw" ELSE "twist cw"
             [] OTHER -> IF slow THEN "none" ELSE Swing(Peak(a), limit)
  BY DEF Classify, a, g
<1>11. Classify(v, limit)
         = CASE shaken -> "shake"
             [] still /\ Abs(t) > limit.twist -> IF -t > 0 THEN "twist ccw" ELSE "twist cw"
             [] OTHER -> IF slow THEN "none" ELSE Swing(Peak(b), limit)
  <2>1. Classify(v, limit)
          = CASE ScaledVariance(b) > Shake * Shake * n * n -> "shake"
              [] ScaledVariance(b) <= Shake * Shake * n * n /\ Abs(Peak(h)[3]) > limit.twist
                   -> IF Peak(h)[3] > 0 THEN "twist ccw" ELSE "twist cw"
              [] OTHER -> IF Dot(Peak(b), Peak(b)) < limit.swing * limit.swing THEN "none"
                          ELSE Swing(Peak(b), limit)
    <3> HIDE DEF v
    <3> QED BY <1>2 DEF Classify, b, h
  <2> QED BY <2>1, <1>6, <1>8, <1>9, AbsFacts
<1>12. Abs(t) > limit.twist => (-t > 0 <=> ~(t > 0))
  BY <1>8 DEF Abs
<1>13. Classify(v, limit) = MirrorName(Classify(w, limit))
  <2>4. ~(shaken /\ still)
    <3>1. ScaledVariance(a) \in Int
      BY <1>4, VarianceIsInt
    <3>2. Shake * Shake * n * n \in Int
      BY <1>1, MotionAssumption
    <3> HIDE DEF n
    <3> QED BY <3>1, <3>2
  <2> HIDE DEF shaken, still, slow, v, t
  <2>1. CASE shaken
    <3>1. ~still
      BY <2>1, <2>4
    <3> QED BY <1>10, <1>11, <2>1, <3>1 DEF MirrorName
  <2>2. CASE ~shaken /\ still /\ Abs(t) > limit.twist
    BY <1>10, <1>11, <1>12, <2>2 DEF MirrorName
  <2>3. CASE ~shaken /\ ~(still /\ Abs(t) > limit.twist)
    BY <1>9, <1>10, <1>11, <2>3 DEF MirrorName
  <2> QED BY <2>1, <2>2, <2>3
<1> QED BY <1>13

LimitTypes ==
  limits \in [Channels -> Thresholds \cup {DefaultLimits, [swing |-> 0, thrust |-> 0, twist |-> 0]}]

\* detect_gestures names the mirror image of a movement as the mirror image of
\* its gesture, whatever is measured.
THEOREM HandsAreAlike ==
  ASSUME TwistsNotNegative
  PROVE  MotionSpec => []MirrorImage
<1>1. MotionInit => LimitTypes
  BY DEF MotionInit, LimitTypes
<1>2. LimitTypes /\ [MotionNext]_motionVars => LimitTypes'
  BY ZenonT(60) DEF LimitTypes, MotionNext, InitMotion, FeedRaw, FeedIr, SetThresholds, MotionUpdate,
         motionVars, Reaches
<1>3. RingInv /\ LimitTypes => MirrorImage
  <2> SUFFICES ASSUME RingInv, LimitTypes, NEW c \in Channels
               PROVE  Classify([i \in 1..Len(recent[c]) |-> MirrorSample(recent[c][i])],
                               limits[c])
                        = MirrorName(Classify(recent[c], limits[c]))
    BY DEF MirrorImage
  <2>1. recent[c] \in Seq(Measurements)
    BY DEF RingInv, RingTypes
  <2>2. limits[c].twist \in Nat
    BY DEF LimitTypes, TwistsNotNegative
  <2> QED BY <2>1, <2>2, MirrorClassify
<1>4. MotionInit => RingInv
  BY InitRing
<1>5. RingInv /\ [MotionNext]_motionVars => RingInv'
  BY NextKeepsRing
<1> QED BY <1>1, <1>2, <1>3, <1>4, <1>5, PTL DEF MotionSpec

-----------------------------------------------------------------------------
(* Miis: the answer load_remote waits for *)

Reads == [buf : Bufs, own : BOOLEAN]

\* The outstanding reads are those of requests made before, and at most one of
\* them, only while load_remote waits, is its own.
OneOwnRead ==
  \A c, d \in Remotes : \A i \in DOMAIN reads[c], j \in DOMAIN reads[d] :
    reads[c][i].own /\ reads[d][j].own => c = d /\ i = j

MiiInv ==
  /\ free \subseteq Bufs
  /\ wait \in {Idle} \cup [left : Nat, buf : Bufs]
  /\ reads \in [Remotes -> Seq(Reads)]
  /\ OneOwnRead
  /\ OwnRead => Waiting
  /\ OwnAnswerUnlessStrayed

LEMMA IdleIsNoWait ==
  ASSUME NEW w \in [left : Nat, buf : Bufs]
  PROVE  w # Idle
<1>1. w.left \in Nat /\ Idle.left = -1
  BY DEF Idle
<1> QED BY <1>1

LEMMA InitMii == MiiInit => MiiInv
<1> SUFFICES ASSUME MiiInit PROVE MiiInv
  OBVIOUS
<1>1. \A c \in Remotes : reads[c] = <<>>
  BY DEF MiiInit
<1>2. ~OwnRead /\ OneOwnRead
  BY <1>1 DEF OwnRead, OneOwnRead
<1>3. wait = Idle /\ reads \in [Remotes -> Seq(Reads)] /\ free \subseteq Bufs
  BY DEF MiiInit
<1> QED BY <1>2, <1>3 DEF MiiInv, OwnAnswerUnlessStrayed

\* Without reads of its own there is nothing to keep.
LEMMA NoOwnRead ==
  ASSUME free' \subseteq Bufs, wait' \in {Idle} \cup [left : Nat, buf : Bufs],
         reads' \in [Remotes -> Seq(Reads)],
         \A c \in Remotes : \A i \in DOMAIN reads'[c] : ~reads'[c][i].own
  PROVE  MiiInv'
BY DEF MiiInv, OwnRead, OneOwnRead, OwnAnswerUnlessStrayed

LEMMA StartReadKeeps ==
  ASSUME MiiInv, NEW c \in Remotes, StartRead(c)
  PROVE  MiiInv'
<1> DEFINE own(buf) == [buf |-> buf, own |-> TRUE]
<1>1. PICK buf \in free :
        /\ wait' = [left |-> MaxWait, buf |-> buf]
        /\ reads' = [reads EXCEPT ![c] = Append(@, own(buf))]
        /\ free' = free \ {buf}
  BY DEF StartRead
<1>2. ~OwnRead /\ reads \in [Remotes -> Seq(Reads)] /\ buf \in Bufs /\ free' \subseteq Bufs
  BY <1>1 DEF MiiInv, StartRead
<1>3. ~done'
  BY DEF StartRead, Cleared
<1>4. wait' \in [left : Nat, buf : Bufs]
  BY <1>1, <1>2, MiiAssumption
<1>5. Waiting'
  BY <1>4, IdleIsNoWait DEF Waiting, Idle
<1> DEFINE n == Len(reads[c]) + 1
<1>6. /\ n \in Nat
      /\ reads'[c] \in Seq(Reads) /\ Len(reads'[c]) = n
      /\ \A i \in 1..(n - 1) : reads'[c][i] = reads[c][i]
  <2>1. own(buf) \in Reads
    BY <1>2 DEF Reads
  <2> HIDE DEF own
  <2>2. reads[c] \in Seq(Reads) /\ reads'[c] = Append(reads[c], own(buf))
    BY <1>1, <1>2
  <2> QED BY <2>1, <2>2
<1>7. \A d \in Remotes : d # c => reads'[d] = reads[d]
  BY <1>1, <1>2
<1>8. reads' \in [Remotes -> Seq(Reads)]
  BY <1>1, <1>2, <1>6
<1>9. ASSUME NEW d \in Remotes, NEW i \in DOMAIN reads'[d], reads'[d][i].own
      PROVE  d = c /\ i = n
  <2>1. CASE d # c
    BY <2>1, <1>2, <1>7, <1>9 DEF OwnRead
  <2>2. CASE d = c /\ i # n
    <3>1. i \in 1..(n - 1) /\ i \in DOMAIN reads[c]
      BY <2>2, <1>2, <1>6
    <3> QED BY <3>1, <2>2, <1>2, <1>6, <1>9 DEF OwnRead
  <2> QED BY <2>1, <2>2
<1>10. OneOwnRead'
  <2> HIDE DEF n
  <2> QED BY <1>9 DEF OneOwnRead
<1> QED BY <1>2, <1>3, <1>4, <1>5, <1>8, <1>10 DEF MiiInv, OwnAnswerUnlessStrayed

\* The answer is that of the only own read, or it strayed.
LEMMA AnswerReadKeeps ==
  ASSUME MiiInv, NEW c \in Remotes, AnswerRead(c)
  PROVE  MiiInv'
<1>1. /\ reads[c] # <<>>
      /\ reads' = [reads EXCEPT ![c] = Tail(@)]
      /\ strayed' = (strayed \/ (Waiting /\ ~Head(reads[c]).own))
      /\ UNCHANGED <<wait, free>>
  BY DEF AnswerRead
<1>2. reads \in [Remotes -> Seq(Reads)] /\ OneOwnRead /\ (OwnRead => Waiting)
      /\ wait \in {Idle} \cup [left : Nat, buf : Bufs] /\ free \subseteq Bufs
  BY DEF MiiInv
<1>3. /\ reads'[c] \in Seq(Reads)
      /\ Head(reads[c]) = reads[c][1] /\ 1 \in DOMAIN reads[c]
      /\ \A i \in DOMAIN reads'[c] :
           i + 1 \in DOMAIN reads[c] /\ reads'[c][i] = reads[c][i + 1] /\ i \in Nat /\ i > 0
  BY <1>1, <1>2
<1>4. \A d \in Remotes : d # c => reads'[d] = reads[d]
  BY <1>1, <1>2
<1>5. reads' \in [Remotes -> Seq(Reads)]
  BY <1>1, <1>2, <1>3
<1>6. OwnRead' => OwnRead
  BY <1>3, <1>4 DEF OwnRead
<1>7. OneOwnRead'
  <2> SUFFICES ASSUME NEW d \in Remotes, NEW e \in Remotes,
                      NEW i \in DOMAIN reads'[d], NEW j \in DOMAIN reads'[e],
                      reads'[d][i].own, reads'[e][j].own
               PROVE  d = e /\ i = j
    BY DEF OneOwnRead
  <2> DEFINE k == IF d = c THEN i + 1 ELSE i
             l == IF e = c THEN j + 1 ELSE j
  <2>1. k \in DOMAIN reads[d] /\ reads[d][k].own
    BY <1>3, <1>4
  <2>2. l \in DOMAIN reads[e] /\ reads[e][l].own
    BY <1>3, <1>4
  <2>3. d = e /\ k = l
    <3> HIDE DEF k, l
    <3> QED BY <2>1, <2>2, <1>2 DEF OneOwnRead
  <2> QED BY <2>3, <1>3
<1>8. Head(reads[c]).own => ~OwnRead'
  <2> SUFFICES ASSUME reads[c][1].own, NEW d \in Remotes, NEW i \in DOMAIN reads'[d],
                      reads'[d][i].own
               PROVE  FALSE
    BY <1>3 DEF OwnRead
  <2>1. CASE d = c
    <3>1. i + 1 = 1
      BY <2>1, <1>2, <1>3 DEF OneOwnRead
    <3> QED BY <3>1, <2>1, <1>3
  <2>2. CASE d # c
    BY <2>2, <1>2, <1>3, <1>4 DEF OneOwnRead
  <2> QED BY <2>1, <2>2
<1>9. OwnAnswerUnlessStrayed'
  BY <1>1, <1>8 DEF OwnAnswerUnlessStrayed, Waiting, Idle
<1>10. (OwnRead => Waiting)'
  BY <1>1, <1>2, <1>6 DEF Waiting, Idle
<1> QED BY <1>1, <1>2, <1>5, <1>7, <1>9, <1>10 DEF MiiInv, Idle

LEMMA NextKeepsMiiInv ==
  ASSUME MiiInv, [MiiNext]_miiVars
  PROVE  MiiInv'
<1>1. CASE Load
  BY <1>1 DEF Load, MiiInv, OneOwnRead, OwnRead, OwnAnswerUnlessStrayed, Waiting, Idle
<1>2. ASSUME NEW c \in Remotes, StartRead(c) PROVE MiiInv'
  BY <1>2, StartReadKeeps
<1>3. CASE RefuseRead
  BY <1>3 DEF RefuseRead, MiiInv, OneOwnRead, OwnRead, OwnAnswerUnlessStrayed, Waiting, Idle
<1>4. CASE WaitFrame
  <2>1. wait \in [left : Nat, buf : Bufs] /\ wait.left > 0 /\ ~done /\ ~done'
        /\ wait' = [wait EXCEPT !.left = @ - 1] /\ UNCHANGED <<reads, free>>
    BY <1>4 DEF WaitFrame, MiiInv, Waiting
  <2>2. wait' \in [left : Nat, buf : Bufs]
    BY <2>1
  <2>3. Waiting'
    BY <2>2, IdleIsNoWait DEF Waiting, Idle
  <2> QED BY <2>1, <2>2, <2>3 DEF MiiInv, OneOwnRead, OwnRead, OwnAnswerUnlessStrayed
<1>5. CASE TimeOut \/ Finish
  <2>1. wait' = Idle /\ reads' = Abandoned /\ free' = free \cup {wait.buf} /\ Waiting
    BY <1>5 DEF TimeOut, Finish
  <2>2. reads \in [Remotes -> Seq(Reads)] /\ wait \in [left : Nat, buf : Bufs]
        /\ free \subseteq Bufs
    BY <2>1 DEF MiiInv, Waiting
  <2> DEFINE given(r) == [r EXCEPT !.own = FALSE]
  <2>3. \A r \in Reads : given(r) \in Reads /\ ~given(r).own
    BY DEF Reads
  <2>4. ASSUME NEW c \in Remotes
        PROVE  /\ reads'[c] \in Seq(Reads)
               /\ \A i \in DOMAIN reads'[c] : ~reads'[c][i].own
    <3>1. reads'[c] = [i \in DOMAIN reads[c] |-> given(reads[c][i])]
      BY <2>1 DEF Abandoned
    <3> HIDE DEF given
    <3>2. /\ reads[c] \in Seq(Reads) /\ DOMAIN reads[c] = 1..Len(reads[c])
          /\ \A i \in DOMAIN reads[c] : reads[c][i] \in Reads
      BY <2>2
    <3>3. Len(reads[c]) \in Nat
      BY <3>2
    <3>4. \A i \in 1..Len(reads[c]) : reads'[c][i] \in Reads /\ ~reads'[c][i].own
      BY <3>1, <3>2, <2>3
    <3>5. DOMAIN reads'[c] = 1..Len(reads[c])
      BY <3>1, <3>2
    <3>6. reads'[c] \in [1..Len(reads[c]) -> Reads]
      BY <3>1, <3>2, <3>4
    <3>7. reads'[c] \in Seq(Reads)
      BY <3>3, <3>6
    <3> QED BY <3>4, <3>5, <3>7
  <2>5. reads' \in [Remotes -> Seq(Reads)]
    BY <2>1, <2>4 DEF Abandoned
  <2>6. free' \subseteq Bufs /\ wait' \in {Idle} \cup [left : Nat, buf : Bufs]
    BY <2>1, <2>2
  <2>7. \A c \in Remotes : \A i \in DOMAIN reads'[c] : ~reads'[c][i].own
    BY <2>4
  <2> QED BY <2>5, <2>6, <2>7, NoOwnRead, ZenonT(60)
<1>6. ASSUME NEW c \in Remotes, AnswerRead(c) PROVE MiiInv'
  BY <1>6, AnswerReadKeeps
<1>7. CASE UNCHANGED miiVars
  BY <1>7 DEF miiVars, MiiInv, OneOwnRead, OwnRead, OwnAnswerUnlessStrayed, Waiting, Idle
<1> QED BY <1>1, <1>2, <1>3, <1>4, <1>5, <1>6, <1>7 DEF MiiNext

\* load_remote takes no other answer for its own, unless a read it gave up before
\* is answered during the wait.
THEOREM AnswerIsOwn == MiiSpec => []OwnAnswerUnlessStrayed
<1>1. MiiInit => MiiInv
  BY InitMii
<1>2. MiiInv /\ [MiiNext]_miiVars => MiiInv'
  BY NextKeepsMiiInv
<1>3. MiiInv => OwnAnswerUnlessStrayed
  BY DEF MiiInv
<1> QED BY <1>1, <1>2, <1>3, PTL DEF MiiSpec

-----------------------------------------------------------------------------
(* Scene: what is below a node, as a function of the lists of children *)

ClosedIn(kids, S) == \A p \in S : ToSet(kids[p]) \subseteq S

Below(kids, n) ==
  {m \in Nodes : \A S \in SUBSET Nodes : n \in S /\ ClosedIn(kids, S) => m \in S}

LEMMA SubtreeIsBelow ==
  /\ \A n : Subtree(n) = Below(children, n)
  /\ \A n : Subtree(n)' = Below(children', n)
BY DEF Subtree, Closed, Below, ClosedIn

LEMMA InSet ==
  ASSUME NEW list \in Seq(Nodes)
  PROVE  /\ ToSet(list) \subseteq Nodes
         /\ \A i \in 1..Len(list) : list[i] \in ToSet(list)
         /\ \A m \in ToSet(list) : \E i \in 1..Len(list) : list[i] = m
BY DEF ToSet

\* The least set that holds n and is closed.
LEMMA BelowLeast ==
  ASSUME NEW kids, NEW n, NEW S \in SUBSET Nodes, n \in S, ClosedIn(kids, S)
  PROVE  Below(kids, n) \subseteq S
BY DEF Below

LEMMA BelowClosed ==
  ASSUME NEW kids \in [Nodes -> Seq(Nodes)], NEW n \in Nodes
  PROVE  /\ n \in Below(kids, n)
         /\ Below(kids, n) \subseteq Nodes
         /\ ClosedIn(kids, Below(kids, n))
<1>1. n \in Below(kids, n) /\ Below(kids, n) \subseteq Nodes
  BY DEF Below
<1>2. ASSUME NEW p \in Below(kids, n), NEW c \in ToSet(kids[p])
      PROVE  c \in Below(kids, n)
  <2>1. c \in Nodes
    BY <1>1, InSet
  <2>2. ASSUME NEW S \in SUBSET Nodes, n \in S, ClosedIn(kids, S) PROVE c \in S
    BY <2>2 DEF Below, ClosedIn
  <2> QED BY <2>1, <2>2 DEF Below
<1> QED BY <1>1, <1>2 DEF ClosedIn

\* What is below a node below n is below n.
LEMMA BelowTransitive ==
  ASSUME NEW kids \in [Nodes -> Seq(Nodes)], NEW n \in Nodes, NEW m \in Below(kids, n)
  PROVE  Below(kids, m) \subseteq Below(kids, n)
BY BelowClosed, BelowLeast

LEMMA TakenFacts ==
  ASSUME NEW list \in Seq(Nodes), IsInjective(list), NEW i \in 1..Len(list)
  PROVE  /\ Taken(list, i) \in Seq(Nodes)
         /\ Len(Taken(list, i)) = Len(list) - 1
         /\ IsInjective(Taken(list, i))
         /\ ToSet(Taken(list, i)) = ToSet(list) \ {list[i]}
<1> DEFINE n == Len(list)
           t == Taken(list, i)
<1>1. n \in Nat /\ n - 1 \in Nat /\ \A k \in 1..n : list[k] \in Nodes
  OBVIOUS
<1>2. Front(list) \in Seq(Nodes) /\ Len(Front(list)) = n - 1
      /\ \A k \in 1..(n - 1) : Front(list)[k] = list[k]
  <2> DEFINE m == n - 1
             f == SubSeq(list, 1, m)
  <2>1. m \in Nat /\ m <= Len(list) /\ \A k \in 1..m : k \in 1..n
    BY <1>1
  <2>2. Front(list) = f
    BY DEF Front
  <2> HIDE DEF m, n
  <2>3. \A k \in 1..m : list[k] \in Nodes
    BY <1>1, <2>1
  <2>4. f = [k \in 1..m |-> list[k]]
    BY <2>1, <2>3
  <2> HIDE DEF f
  <2>5. f \in Seq(Nodes) /\ Len(f) = m /\ \A k \in 1..m : f[k] = list[k]
    BY <2>1, <2>3, <2>4
  <2> QED BY <2>2, <2>5 DEF m
<1>3. t \in Seq(Nodes) /\ Len(t) = n - 1
      /\ \A k \in 1..(n - 1) : t[k] = IF k = i THEN list[n] ELSE list[k]
  <2>1. CASE i = n
    BY <2>1, <1>1, <1>2 DEF Taken
  <2>2. CASE i # n
    <3>1. t = [Front(list) EXCEPT ![i] = list[n]] /\ i \in 1..(n - 1)
      BY <2>2, <1>1 DEF Taken, Last
    <3>2. list[n] \in Nodes
      BY <1>1
    <3> DEFINE f == Front(list)
    <3>3. f \in Seq(Nodes) /\ Len(f) = n - 1 /\ \A k \in 1..(n - 1) : f[k] = list[k]
      BY <1>2
    <3>4. t = [f EXCEPT ![i] = list[n]] /\ n - 1 \in Nat
      BY <3>1, <1>1
    <3> HIDE DEF t, n, f
    <3>5. f \in [1..(n - 1) -> Nodes]
      BY <3>3
    <3>6. t \in [1..(n - 1) -> Nodes] /\ \A k \in 1..(n - 1) : t[k] = IF k = i THEN list[n] ELSE f[k]
      BY <3>1, <3>2, <3>4, <3>5
    <3> QED BY <3>3, <3>4, <3>6
  <2> QED BY <2>1, <2>2
<1> HIDE DEF t
<1>4. \A k, l \in 1..n : list[k] = list[l] => k = l
  BY DEF IsInjective
<1>5. DOMAIN t = 1..(n - 1)
  BY <1>3
<1>6. \A k, l \in 1..(n - 1) : t[k] = t[l] => k = l
  BY <1>1, <1>3, <1>4
<1>7. IsInjective(t)
  BY <1>5, <1>6 DEF IsInjective
<1>8. ASSUME NEW m \in ToSet(t) PROVE m \in ToSet(list) \ {list[i]}
  <2>1. PICK k \in 1..(n - 1) : t[k] = m
    BY <1>5, <1>8 DEF ToSet
  <2>2. m = list[IF k = i THEN n ELSE k]
    BY <2>1, <1>3
  <2>3. (IF k = i THEN n ELSE k) \in 1..n /\ (IF k = i THEN n ELSE k) # i
    BY <1>1
  <2> QED BY <2>2, <2>3, <1>4, InSet
<1>9. ASSUME NEW m \in ToSet(list) \ {list[i]} PROVE m \in ToSet(t)
  <2>1. PICK k \in 1..n : list[k] = m /\ k # i
    BY <1>9, InSet
  <2>2. \E l \in 1..(n - 1) : t[l] = m
    <3>1. CASE k = n
      <4>1. i \in 1..(n - 1) /\ t[i] = m
        BY <3>1, <2>1, <1>1, <1>3
      <4> QED BY <4>1
    <3>2. CASE k # n
      <4>1. k \in 1..(n - 1) /\ t[k] = m
        BY <3>2, <2>1, <1>1, <1>3
      <4> QED BY <4>1
    <3> QED BY <3>1, <3>2
  <2> QED BY <2>2, <1>5 DEF ToSet
<1>10. ToSet(t) = ToSet(list) \ {list[i]}
  BY <1>8, <1>9
<1> QED BY <1>3, <1>7, <1>10 DEF t

-----------------------------------------------------------------------------
(* Scene: the tree *)

SceneTypes ==
  /\ live \subseteq Nodes
  /\ parent \in [Nodes -> Nodes \cup {NoNode}]
  /\ children \in [Nodes -> Seq(Nodes)]

\* The conjuncts of TreeShape.
ListsAgree(p) ==
  /\ Len(children[p]) <= MaxChildren
  /\ IsInjective(children[p])
  /\ \A c \in ToSet(children[p]) : c \in live /\ parent[c] = p

IsListed(c) == parent[c] # NoNode => parent[c] \in live /\ c \in ToSet(children[parent[c]])

HangsBelowRoot(n) == \E r \in live : parent[r] = NoNode /\ n \in Below(children, r)

TreeInv ==
  /\ SceneTypes
  /\ \A n \in live : ListsAgree(n) /\ IsListed(n) /\ HangsBelowRoot(n)

LEMMA InitTree == SceneInit => TreeInv
BY DEF SceneInit, TreeInv, SceneTypes

\* Below a live node are live nodes, and their parents up to it.
LEMMA BelowLive ==
  ASSUME TreeInv, NEW n \in live
  PROVE  /\ Below(children, n) \subseteq live
         /\ \A m \in Below(children, n) : m # n => parent[m] \in Below(children, n)
<1>1. n \in Nodes /\ children \in [Nodes -> Seq(Nodes)] /\ live \in SUBSET Nodes
  BY DEF TreeInv, SceneTypes
<1>2. Below(children, n) \subseteq live
  <2>1. ClosedIn(children, live)
    BY DEF ClosedIn, TreeInv, ListsAgree
  <2> QED BY <2>1, <1>1, BelowLeast
<1> DEFINE B == Below(children, n)
           S == {m \in B : m = n \/ parent[m] \in B}
<1>3. n \in B /\ B \subseteq Nodes /\ ClosedIn(children, B)
  BY <1>1, BelowClosed
<1>4. S \in SUBSET Nodes /\ n \in S
  BY <1>3
<1>5. ClosedIn(children, S)
  <2> SUFFICES ASSUME NEW p \in S, NEW c \in ToSet(children[p]) PROVE c \in S
    BY DEF ClosedIn
  <2>1. p \in B /\ p \in live
    BY <1>2
  <2>2. c \in B
    BY <2>1, <1>3 DEF ClosedIn
  <2>3. parent[c] = p
    BY <2>1 DEF TreeInv, ListsAgree
  <2> QED BY <2>1, <2>2, <2>3
<1>6. B \subseteq S
  <2> HIDE DEF S
  <2> QED BY <1>4, <1>5, BelowLeast
<1> QED BY <1>2, <1>6

LEMMA CreateKeepsTree ==
  ASSUME TreeInv, NEW n \in Nodes, NodeCreate(n)
  PROVE  TreeInv'
<1>1. /\ n \notin live
      /\ live' = live \cup {n}
      /\ parent' = [parent EXCEPT ![n] = NoNode]
      /\ children' = [children EXCEPT ![n] = <<>>]
  BY DEF NodeCreate
<1>2. SceneTypes
  BY DEF TreeInv
<1>3. SceneTypes'
  BY <1>1, <1>2 DEF SceneTypes
<1>4. /\ \A m \in live : m # n /\ m \in Nodes /\ parent'[m] = parent[m] /\ children'[m] = children[m]
      /\ parent'[n] = NoNode /\ children'[n] = <<>>
  BY <1>1, <1>2 DEF SceneTypes
<1>5. ASSUME NEW p \in live' PROVE ListsAgree(p)'
  <2>1. CASE p = n
    <3>1. Len(<<>>) <= MaxChildren /\ IsInjective(<<>>) /\ ToSet(<<>>) = {}
      BY SceneAssumption DEF IsInjective, ToSet
    <3> QED BY <3>1, <2>1, <1>4 DEF ListsAgree
  <2>2. CASE p # n
    <3>1. p \in live /\ ListsAgree(p)
      BY <2>2, <1>1 DEF TreeInv
    <3> QED BY <3>1, <1>1, <1>4 DEF ListsAgree
  <2> QED BY <2>1, <2>2
<1>6. ASSUME NEW c \in live' PROVE IsListed(c)'
  <2>1. CASE c = n
    BY <2>1, <1>4 DEF IsListed
  <2>2. CASE c # n
    <3>1. c \in live /\ IsListed(c)
      BY <2>2, <1>1 DEF TreeInv
    <3> QED BY <3>1, <1>1, <1>4 DEF IsListed
  <2> QED BY <2>1, <2>2
<1>7. ASSUME NEW m \in live' PROVE HangsBelowRoot(m)'
  <2>1. CASE m = n
    <3>1. n \in Below(children', n)
      BY <1>3, BelowClosed DEF SceneTypes
    <3> QED BY <3>1, <2>1, <1>1, <1>4 DEF HangsBelowRoot
  <2>2. CASE m # n
    <3>1. PICK r \in live : parent[r] = NoNode /\ m \in Below(children, r)
      BY <2>2, <1>1 DEF TreeInv, HangsBelowRoot
    <3> DEFINE T == Below(children', r) \cap live
    <3>2. /\ r \in Below(children', r) /\ Below(children', r) \subseteq Nodes
          /\ ClosedIn(children', Below(children', r))
      BY <3>1, <1>3, <1>4, BelowClosed DEF SceneTypes
    <3>3. ClosedIn(children, T)
      <4> SUFFICES ASSUME NEW p \in T, NEW c \in ToSet(children[p]) PROVE c \in T
        BY DEF ClosedIn
      <4>1. c \in live
        BY DEF TreeInv, ListsAgree
      <4>2. c \in Below(children', r)
        BY <3>2, <1>4 DEF ClosedIn
      <4> QED BY <4>1, <4>2
    <3>4. Below(children, r) \subseteq T
      BY <3>2, <3>3, <3>1, BelowLeast
    <3> QED BY <3>1, <3>4, <1>1, <1>4 DEF HangsBelowRoot
  <2> QED BY <2>1, <2>2
<1> QED BY <1>3, <1>5, <1>6, <1>7 DEF TreeInv

LEMMA DestroyKeepsTree ==
  ASSUME TreeInv, NEW n \in Nodes, NodeDestroy(n)
  PROVE  TreeInv'
<1> DEFINE B == Below(children, n)
<1>1. n \in live /\ parent[n] = NoNode /\ live' = live \ B /\ parent' = parent
      /\ children' = children
  BY SubtreeIsBelow DEF NodeDestroy
<1>2. SceneTypes /\ SceneTypes'
  BY <1>1 DEF TreeInv, SceneTypes
<1>3. n \in B /\ ClosedIn(children, B)
  BY <1>2, BelowClosed DEF SceneTypes
<1>4. \A m \in B : m # n => parent[m] \in B
  BY <1>1, BelowLive
<1> HIDE DEF B
<1>5. ASSUME NEW p \in live' PROVE ListsAgree(p)'
  <2>1. p \in live /\ p \notin B /\ ListsAgree(p) /\ p \in Nodes
    BY <1>1, <1>2 DEF TreeInv, SceneTypes
  <2>2. ASSUME NEW c \in ToSet(children[p]) PROVE c \notin B
    <3>1. parent[c] = p /\ p # NoNode
      BY <2>1, SceneAssumption DEF ListsAgree
    <3> QED BY <3>1, <2>1, <1>1, <1>4
  <2> QED BY <2>1, <2>2, <1>1 DEF ListsAgree
<1>6. ASSUME NEW c \in live' PROVE IsListed(c)'
  <2>1. c \in live /\ c \notin B /\ IsListed(c)
    BY <1>1 DEF TreeInv
  <2>2. parent[c] # NoNode => parent[c] \notin B
    BY <2>1, <1>3 DEF IsListed, ClosedIn
  <2> QED BY <2>1, <2>2, <1>1 DEF IsListed
<1>7. ASSUME NEW m \in live' PROVE HangsBelowRoot(m)'
  <2>1. PICK r \in live : parent[r] = NoNode /\ m \in Below(children, r)
    BY <1>1 DEF TreeInv, HangsBelowRoot
  <2>2. r \notin B
    BY <2>1, <1>1, <1>2, BelowTransitive DEF B, SceneTypes
  <2> QED BY <2>1, <2>2, <1>1 DEF HangsBelowRoot
<1> QED BY <1>2, <1>5, <1>6, <1>7 DEF TreeInv

LEMMA AppendFacts ==
  ASSUME NEW list \in Seq(Nodes), IsInjective(list), NEW c \in Nodes, c \notin ToSet(list)
  PROVE  /\ Append(list, c) \in Seq(Nodes)
         /\ Len(Append(list, c)) = Len(list) + 1
         /\ IsInjective(Append(list, c))
         /\ ToSet(Append(list, c)) = ToSet(list) \cup {c}
<1> DEFINE n == Len(list)
           t == Append(list, c)
<1>1. n \in Nat /\ t \in Seq(Nodes) /\ Len(t) = n + 1 /\ t[n + 1] = c
      /\ \A k \in 1..n : t[k] = list[k]
  OBVIOUS
<1> HIDE DEF t
<1>2. DOMAIN t = 1..(n + 1) /\ DOMAIN list = 1..n
  BY <1>1
<1>3. \A k \in 1..n : list[k] # c
  BY InSet
<1>4. \A k, l \in 1..n : list[k] = list[l] => k = l
  BY <1>2 DEF IsInjective
<1>5. \A k, l \in 1..(n + 1) : t[k] = t[l] => k = l
  BY <1>1, <1>3, <1>4
<1>6. IsInjective(t)
  BY <1>2, <1>5 DEF IsInjective
<1>7. ASSUME NEW m \in ToSet(t) PROVE m \in ToSet(list) \cup {c}
  <2>1. PICK k \in 1..(n + 1) : t[k] = m
    BY <1>2 DEF ToSet
  <2>2. CASE k = n + 1
    BY <2>1, <2>2, <1>1
  <2>3. CASE k # n + 1
    <3>1. k \in 1..n /\ list[k] = m
      BY <2>1, <2>3, <1>1
    <3> QED BY <3>1, InSet
  <2> QED BY <2>2, <2>3
<1>8. ASSUME NEW m \in ToSet(list) \cup {c} PROVE m \in ToSet(t)
  <2>1. \E k \in 1..(n + 1) : t[k] = m
    <3>1. CASE m = c
      BY <3>1, <1>1
    <3>2. CASE m # c
      <4>1. PICK k \in 1..n : list[k] = m
        BY <3>2, InSet
      <4> QED BY <4>1, <1>1
    <3> QED BY <3>1, <3>2
  <2> QED BY <2>1, <1>2 DEF ToSet
<1>9. ToSet(t) = ToSet(list) \cup {c}
  BY <1>7, <1>8
<1> QED BY <1>1, <1>6, <1>9 DEF t

LEMMA AddKeepsTree ==
  ASSUME TreeInv, NEW p \in Nodes, NEW c \in Nodes, NodeAddChild(p, c)
  PROVE  TreeInv'
<1>1. /\ p \in live /\ c \in live /\ parent[c] = NoNode
      /\ p \notin Below(children, c)
      /\ Len(children[p]) < MaxChildren
      /\ parent' = [parent EXCEPT ![c] = p]
      /\ children' = [children EXCEPT ![p] = Append(children[p], c)]
      /\ live' = live
  BY SubtreeIsBelow DEF NodeAddChild
<1>2. SceneTypes /\ ListsAgree(p)
  BY <1>1 DEF TreeInv
<1>3. p # c
  BY <1>1, <1>2, BelowClosed DEF SceneTypes
<1>4. \A q \in live : c \notin ToSet(children[q]) /\ q # NoNode
  BY <1>1, <1>2, SceneAssumption DEF TreeInv, ListsAgree, SceneTypes
<1>5. /\ children'[p] \in Seq(Nodes)
      /\ Len(children'[p]) = Len(children[p]) + 1
      /\ IsInjective(children'[p])
      /\ ToSet(children'[p]) = ToSet(children[p]) \cup {c}
  <2>1. children'[p] = Append(children[p], c) /\ children[p] \in Seq(Nodes)
    BY <1>1, <1>2 DEF SceneTypes
  <2> QED BY <2>1, <1>1, <1>2, <1>4, AppendFacts DEF ListsAgree
<1>6. /\ \A q \in Nodes : q # p => children'[q] = children[q]
      /\ \A m \in Nodes : m # c => parent'[m] = parent[m]
      /\ parent'[c] = p
  BY <1>1, <1>2 DEF SceneTypes
<1>7. SceneTypes'
  BY <1>1, <1>2, <1>5 DEF SceneTypes
<1>8. \A q \in Nodes : ToSet(children[q]) \subseteq ToSet(children'[q])
  BY <1>5, <1>6
<1>9. ASSUME NEW q \in live' PROVE ListsAgree(q)'
  <2>1. q \in live /\ q \in Nodes /\ ListsAgree(q)
    BY <1>1, <1>2 DEF TreeInv, SceneTypes
  <2>2. ASSUME NEW m \in ToSet(children'[q]) PROVE m \in live /\ parent'[m] = q
    <3>1. CASE m = c
      <4>1. q = p
        BY <3>1, <2>1, <2>2, <1>4, <1>6
      <4> QED BY <4>1, <3>1, <1>1, <1>6
    <3>2. CASE m # c
      <4>1. m \in ToSet(children[q])
        BY <3>2, <2>1, <2>2, <1>5, <1>6
      <4>2. m \in live /\ parent[m] = q
        BY <4>1, <2>1 DEF ListsAgree
      <4> QED BY <4>2, <3>2, <1>2, <1>6 DEF SceneTypes
    <3> QED BY <3>1, <3>2
  <2>3. Len(children'[q]) <= MaxChildren /\ IsInjective(children'[q])
    <3>1. CASE q = p
      <4>1. Len(children[p]) \in Nat /\ MaxChildren \in Nat
        BY <1>2, SceneAssumption DEF SceneTypes
      <4> QED BY <4>1, <3>1, <1>1, <1>5
    <3>2. CASE q # p
      BY <3>2, <2>1, <1>6 DEF ListsAgree
    <3> QED BY <3>1, <3>2
  <2> QED BY <2>2, <2>3, <1>1 DEF ListsAgree
<1>10. ASSUME NEW m \in live' PROVE IsListed(m)'
  <2>1. m \in live /\ m \in Nodes /\ IsListed(m)
    BY <1>1, <1>2 DEF TreeInv, SceneTypes
  <2>2. CASE m = c
    BY <2>2, <1>1, <1>5, <1>6 DEF IsListed
  <2>3. CASE m # c
    BY <2>1, <2>3, <1>1, <1>2, <1>6, <1>8 DEF IsListed, SceneTypes
  <2> QED BY <2>2, <2>3
<1>11. ASSUME NEW r \in Nodes PROVE Below(children, r) \subseteq Below(children', r)
  <2>1. /\ r \in Below(children', r) /\ Below(children', r) \subseteq Nodes
        /\ ClosedIn(children', Below(children', r))
    BY <1>7, BelowClosed DEF SceneTypes
  <2>2. ClosedIn(children, Below(children', r))
    BY <2>1, <1>8 DEF ClosedIn
  <2> QED BY <2>1, <2>2, BelowLeast
<1>12. ASSUME NEW m \in live' PROVE HangsBelowRoot(m)'
  <2>1. PICK r \in live : parent[r] = NoNode /\ m \in Below(children, r)
    BY <1>1 DEF TreeInv, HangsBelowRoot
  <2>2. r \in Nodes /\ m \in Below(children', r)
    BY <2>1, <1>2, <1>11 DEF SceneTypes
  <2>3. CASE r # c
    BY <2>1, <2>2, <2>3, <1>1, <1>6 DEF HangsBelowRoot
  <2>4. CASE r = c
    <3>1. PICK q \in live : parent[q] = NoNode /\ p \in Below(children, q)
      BY <1>1 DEF TreeInv, HangsBelowRoot
    <3>2. q # c /\ q \in Nodes
      BY <3>1, <1>1, <1>2 DEF SceneTypes
    <3>3. p \in Below(children', q) /\ ClosedIn(children', Below(children', q))
      BY <3>1, <3>2, <1>7, <1>11, BelowClosed DEF SceneTypes
    <3>4. c \in Below(children', q)
      BY <3>3, <1>5 DEF ClosedIn
    <3>5. m \in Below(children', q)
      BY <3>2, <3>4, <2>2, <2>4, <1>7, BelowTransitive DEF SceneTypes
    <3> QED BY <3>1, <3>2, <3>5, <1>1, <1>6 DEF HangsBelowRoot
  <2> QED BY <2>3, <2>4
<1> QED BY <1>7, <1>9, <1>10, <1>12 DEF TreeInv

LEMMA RemoveKeepsTree ==
  ASSUME TreeInv, NEW p \in Nodes, NEW c \in Nodes, NodeRemoveChild(p, c)
  PROVE  TreeInv'
<1> DEFINE first(j) == children[p][j] = c /\ \A k \in 1..(j - 1) : children[p][k] # c
           i == CHOOSE j \in DOMAIN children[p] : first(j)
<1>1. /\ p \in live /\ c \in live /\ c \in ToSet(children[p])
      /\ parent' = [parent EXCEPT ![c] = NoNode]
      /\ children' = [children EXCEPT ![p] = Taken(children[p], i)]
      /\ live' = live
  BY DEF NodeRemoveChild
<1>2. SceneTypes /\ ListsAgree(p)
  BY <1>1 DEF TreeInv
<1>3. children[p] \in Seq(Nodes) /\ DOMAIN children[p] = 1..Len(children[p])
  BY <1>2 DEF SceneTypes
<1>4. i \in 1..Len(children[p]) /\ children[p][i] = c
  <2>1. PICK j \in 1..Len(children[p]) : children[p][j] = c
    BY <1>1, <1>3, InSet
  <2>2. \A k \in 1..Len(children[p]) : children[p][k] = c => k = j
    BY <2>1, <1>2, <1>3 DEF ListsAgree, IsInjective
  <2>3. \A k \in 1..(j - 1) : k \in 1..Len(children[p]) /\ k # j
    BY <2>1, <1>3
  <2>4. first(j)
    BY <2>1, <2>2, <2>3
  <2>5. i \in DOMAIN children[p] /\ first(i)
    <3> HIDE DEF first
    <3> QED BY <2>1, <2>4, <1>3
  <2> QED BY <2>5, <1>3
<1> HIDE DEF i
<1>5. /\ children'[p] \in Seq(Nodes)
      /\ Len(children'[p]) = Len(children[p]) - 1
      /\ IsInjective(children'[p])
      /\ ToSet(children'[p]) = ToSet(children[p]) \ {c}
  <2>1. children'[p] = Taken(children[p], i)
    BY <1>1, <1>2 DEF SceneTypes
  <2> QED BY <2>1, <1>2, <1>3, <1>4, TakenFacts DEF ListsAgree
<1>6. /\ \A q \in Nodes : q # p => children'[q] = children[q]
      /\ \A m \in Nodes : m # c => parent'[m] = parent[m]
      /\ parent'[c] = NoNode
  BY <1>1, <1>2 DEF SceneTypes
<1>7. SceneTypes'
  BY <1>1, <1>2, <1>5 DEF SceneTypes
<1>8. parent[c] = p /\ p # NoNode
  BY <1>1, <1>2, SceneAssumption DEF ListsAgree
<1>9. ASSUME NEW q \in live' PROVE ListsAgree(q)'
  <2>1. q \in live /\ q \in Nodes /\ ListsAgree(q)
    BY <1>1, <1>2 DEF TreeInv, SceneTypes
  <2>2. ASSUME NEW m \in ToSet(children'[q]) PROVE m \in live /\ parent'[m] = q
    <3>1. m \in ToSet(children[q])
      BY <2>1, <2>2, <1>5, <1>6
    <3>2. m \in live /\ parent[m] = q /\ m \in Nodes
      BY <3>1, <2>1, <1>2 DEF ListsAgree, SceneTypes
    <3>3. m # c
      BY <3>1, <3>2, <2>2, <1>5, <1>8
    <3> QED BY <3>2, <3>3, <1>6
  <2>3. Len(children'[q]) <= MaxChildren /\ IsInjective(children'[q])
    <3>1. CASE q = p
      <4>1. Len(children[p]) \in Nat /\ MaxChildren \in Nat
        BY <1>3, SceneAssumption
      <4> QED BY <4>1, <3>1, <1>2, <1>5 DEF ListsAgree
    <3>2. CASE q # p
      BY <3>2, <2>1, <1>6 DEF ListsAgree
    <3> QED BY <3>1, <3>2
  <2> QED BY <2>2, <2>3, <1>1 DEF ListsAgree
<1>10. ASSUME NEW m \in live' PROVE IsListed(m)'
  <2>1. m \in live /\ m \in Nodes /\ IsListed(m)
    BY <1>1, <1>2 DEF TreeInv, SceneTypes
  <2>2. CASE m = c
    BY <2>2, <1>6 DEF IsListed
  <2>3. CASE m # c
    BY <2>1, <2>3, <1>1, <1>2, <1>5, <1>6 DEF IsListed, SceneTypes
  <2> QED BY <2>2, <2>3
<1>11. ASSUME NEW m \in live' PROVE HangsBelowRoot(m)'
  <2>1. PICK r \in live : parent[r] = NoNode /\ m \in Below(children, r)
    BY <1>1 DEF TreeInv, HangsBelowRoot
  <2> DEFINE U == Below(children', r) \cup Below(children', c)
  <2>2. r \in Nodes /\ r # c
    BY <2>1, <1>2, <1>8 DEF SceneTypes
  <2>3. /\ r \in Below(children', r) /\ Below(children', r) \subseteq Nodes
        /\ ClosedIn(children', Below(children', r))
        /\ c \in Below(children', c) /\ Below(children', c) \subseteq Nodes
        /\ ClosedIn(children', Below(children', c))
    BY <2>2, <1>7, BelowClosed DEF SceneTypes
  <2>4. ClosedIn(children, U)
    <3> SUFFICES ASSUME NEW q \in U, NEW d \in ToSet(children[q]) PROVE d \in U
      BY DEF ClosedIn
    <3>1. d = c \/ d \in ToSet(children'[q])
      BY <2>3, <1>5, <1>6
    <3> QED BY <3>1, <2>3 DEF ClosedIn
  <2>5. m \in U
    BY <2>1, <2>3, <2>4, BelowLeast
  <2> QED BY <2>1, <2>2, <2>5, <1>1, <1>6 DEF HangsBelowRoot
<1> QED BY <1>7, <1>9, <1>10, <1>11 DEF TreeInv

LEMMA NextKeepsTree ==
  ASSUME TreeInv, [SceneNext]_sceneVars
  PROVE  TreeInv'
<1>1. CASE UNCHANGED <<live, parent, children>>
  <2>1. live' = live /\ parent' = parent /\ children' = children
    BY <1>1
  <2>2. SceneTypes'
    BY <2>1 DEF TreeInv, SceneTypes
  <2>3. ASSUME NEW n \in live PROVE ListsAgree(n)' /\ IsListed(n)' /\ HangsBelowRoot(n)'
    <3>1. ListsAgree(n) /\ IsListed(n) /\ HangsBelowRoot(n)
      BY DEF TreeInv
    <3>2. ListsAgree(n)' /\ IsListed(n)'
      BY <2>1, <3>1 DEF ListsAgree, IsListed
    <3>3. HangsBelowRoot(n)'
      BY <2>1, <3>1 DEF HangsBelowRoot
    <3> QED BY <3>2, <3>3
  <2> QED BY <2>1, <2>2, <2>3 DEF TreeInv
<1>2. ASSUME NEW n \in Nodes, NodeCreate(n) \/ NodeDestroy(n) PROVE TreeInv'
  BY <1>2, CreateKeepsTree, DestroyKeepsTree
<1>3. ASSUME NEW p \in Nodes, NEW c \in Nodes, NodeAddChild(p, c) \/ NodeRemoveChild(p, c)
      PROVE  TreeInv'
  BY <1>3, AddKeepsTree, RemoveKeepsTree
<1>4. ASSUME \/ \E n \in Nodes, m \in Meshes : NodeSetMesh(n, m)
             \/ \E n \in live : \E seen \in SUBSET WithMesh(n) : NodeCull(n, seen)
             \/ \E n \in live, far \in [Nodes -> Distances] : NodeRender(n, far)
             \/ UNCHANGED sceneVars
      PROVE  TreeInv'
  BY <1>1, <1>4 DEF NodeSetMesh, NodeCull, NodeRender, sceneVars
<1> QED BY <1>2, <1>3, <1>4 DEF SceneNext

\* The nodes stay a forest that parents and lists of children agree on, without
\* freed nodes, whatever is created, linked, unlinked and destroyed.
THEOREM TreeIsKept == SceneSpec => []TreeShape
<1>1. SceneInit => TreeInv
  BY InitTree
<1>2. TreeInv /\ [SceneNext]_sceneVars => TreeInv'
  BY NextKeepsTree
<1>3. TreeInv => TreeShape
  BY SubtreeIsBelow DEF TreeInv, ListsAgree, IsListed, HangsBelowRoot, TreeShape
<1> QED BY <1>1, <1>2, <1>3, PTL DEF SceneSpec

-----------------------------------------------------------------------------
(* Miis: what is below the count *)

\* A loop over raw Miis moves some of them to the front, and nothing else.
LEMMA KeptFacts ==
  ASSUME NEW list \in Seq(Raws), NEW slots
  PROVE  /\ Kept(list, slots) \in Seq(Raws)
         /\ Len(Kept(list, slots)) <= Len(list)
         /\ \A k \in 1..Len(Kept(list, slots)) :
              \E i \in 1..Len(list) : i \in slots /\ Kept(list, slots)[k] = list[i]
<1> DEFINE N == Len(list)
           front(n) == {s \in Seq(Raws) :
                          /\ Len(s) <= n
                          /\ \A k \in 1..Len(s) : \E i \in 1..N : i \in slots /\ s[k] = list[i]}
           Rec(f) == [n \in 0..N |->
                        IF n = 0 THEN << >>
                        ELSE IF n \in slots THEN Append(f[n - 1], list[n]) ELSE f[n - 1]]
           step == [n \in 1..N |-> [s \in Seq(Raws) |->
                      IF n \in slots THEN Append(s, list[n]) ELSE s]]
           start == << >>
<1>1. N \in Nat /\ start \in Seq(Raws) /\ \A n \in 1..N : list[n] \in Raws
  OBVIOUS
<1>2. PICK f \in [0..N -> Seq(Raws)] :
        f[0] = start /\ \A n \in 1..N : f[n] = step[n][f[n - 1]]
  <2> DEFINE lists == Seq(Raws)
  <2>1. step \in [1..N -> [lists -> lists]]
    BY <1>1
  <2> HIDE DEF lists, step, N, start, Rec, front
  <2>2. N \in Nat
    BY <1>1
  <2>3. start \in lists
    BY <1>1 DEF lists
  <2>4. \E f \in [0..N -> lists] :
          f[0] = start /\ \A n \in 1..N : f[n] = step[n][f[n - 1]]
    BY ONLY <2>1, <2>2, <2>3, RecursionExists, SMTT(60)
  <2> QED BY <2>4 DEF lists
<1>3. \A n \in 1..N : f[n] = IF n \in slots THEN Append(f[n - 1], list[n]) ELSE f[n - 1]
  <2> SUFFICES ASSUME NEW n \in 1..N
               PROVE  f[n] = IF n \in slots THEN Append(f[n - 1], list[n]) ELSE f[n - 1]
    OBVIOUS
  <2>1. n - 1 \in 0..N
    BY <1>1
  <2>2. f[n - 1] \in Seq(Raws)
    BY <2>1
  <2> QED BY <2>2, <1>2
<1>4. f = Rec(f)
  <2>1. \A n \in 0..N : f[n] = IF n = 0 THEN start
                             ELSE IF n \in slots THEN Append(f[n - 1], list[n]) ELSE f[n - 1]
    <3>1. N \in Nat
      BY <1>1
    <3> HIDE DEF step, start, N
    <3> SUFFICES ASSUME NEW n \in 0..N
                 PROVE  f[n] = IF n = 0 THEN start
                               ELSE IF n \in slots THEN Append(f[n - 1], list[n]) ELSE f[n - 1]
      OBVIOUS
    <3>2. CASE n = 0
      BY <3>2, <1>2
    <3>3. CASE n # 0
      <4>1. n \in 1..N
        BY <3>1, <3>3
      <4> QED BY <4>1, <3>3, <1>3
    <3> QED BY <3>2, <3>3
  <2> HIDE DEF step, N
  <2> QED BY <2>1
<1> DEFINE g == CHOOSE h : h = Rec(h)
<1>5. Kept(list, slots) = g[N]
  BY DEF Kept
<1>6. g = Rec(g)
  <2> HIDE DEF Rec
  <2> QED BY <1>4, Zenon
<1> HIDE DEF g, step
<1>7. \A n \in 0..N : g[n] = IF n = 0 THEN start
                           ELSE IF n \in slots THEN Append(g[n - 1], list[n]) ELSE g[n - 1]
  <2> HIDE DEF N
  <2> QED BY <1>6
<1> HIDE DEF Rec
<1> DEFINE P == {n \in 0..N : g[n] \in front(n)}
<1>8. 0 \in P
  <2>1. start \in front(0)
    BY <1>1
  <2> HIDE DEF front, start
  <2> QED BY <2>1, <1>1, <1>7
<1>9. ASSUME NEW n \in 1..N, n - 1 \in P PROVE n \in P
  <2>1. n \in 0..N /\ n # 0 /\ list[n] \in Raws
    BY <1>1
  <2>2. g[n - 1] \in front(n - 1)
    BY <1>9
  <2>3. g[n - 1] \in Seq(Raws) /\ Len(g[n - 1]) <= n - 1 /\ Len(g[n - 1]) \in Nat
        /\ \A k \in 1..Len(g[n - 1]) : \E i \in 1..N : i \in slots /\ g[n - 1][k] = list[i]
    BY <2>2
  <2>4. CASE n \notin slots
    <3>1. g[n] = g[n - 1]
      BY <2>1, <2>4, <1>7
    <3>2. Len(g[n]) <= n
      BY <3>1, <2>1, <2>3
    <3> QED BY <3>1, <3>2, <2>1, <2>3
  <2>5. CASE n \in slots
    <3> DEFINE t == Append(g[n - 1], list[n])
               l == Len(g[n - 1])
    <3>1. g[n] = t
      BY <2>1, <2>5, <1>7
    <3>2. t \in Seq(Raws) /\ Len(t) = l + 1 /\ t[l + 1] = list[n]
          /\ \A k \in 1..l : t[k] = g[n - 1][k]
      BY <2>1, <2>3
    <3> HIDE DEF t
    <3>3. ASSUME NEW k \in 1..Len(t)
          PROVE  \E i \in 1..N : i \in slots /\ t[k] = list[i]
      <4>1. CASE k = l + 1
        BY <4>1, <3>2, <2>5
      <4>2. CASE k # l + 1
        <5>1. k \in 1..l
          BY <4>2, <3>2, <2>3
        <5> QED BY <5>1, <3>2, <2>3
      <4> QED BY <4>1, <4>2
    <3>4. Len(t) <= n
      BY <3>2, <2>3, <2>1
    <3> QED BY <3>1, <3>2, <3>3, <3>4, <2>1
  <2> QED BY <2>4, <2>5
<1>10. N \in 0..N /\ \A n \in 0..N : n \in P
  <2>1. N \in Nat /\ N \in 0..N
    BY <1>1
  <2> HIDE DEF P, N
  <2> QED BY <2>1, <1>8, <1>9, UpTo
<1>11. g[N] \in front(N)
  BY <1>10
<1> QED BY <1>5, <1>11

\* After a load the kept Miis come first, whatever is behind them.
\* The static array after Miis were copied to its front.
CopiedTo(old, kept) == kept \o SubSeq(old, Len(kept) + 1, Len(old))

LEMMA FrontIsNamed ==
  ASSUME NEW list \in Seq(Raws), NEW slots, slots \subseteq NamedSlots(list),
         NEW old \in Seq(Raws)
  PROVE  /\ CopiedTo(old, Kept(list, slots)) \in Seq(Raws)
         /\ Len(Kept(list, slots)) <= Len(CopiedTo(old, Kept(list, slots)))
         /\ \A k \in 1..Len(Kept(list, slots)) : Named(CopiedTo(old, Kept(list, slots))[k])
<1> DEFINE kept == Kept(list, slots)
           all == CopiedTo(old, kept)
           rest == SubSeq(old, Len(kept) + 1, Len(old))
<1>0. all = kept \o rest
  BY DEF CopiedTo
<1>1. /\ kept \in Seq(Raws)
      /\ \A k \in 1..Len(kept) : \E i \in 1..Len(list) : i \in slots /\ kept[k] = list[i]
  BY KeptFacts
<1> HIDE DEF kept, all
<1>2. rest \in Seq(Raws)
  <2> DEFINE a == Len(kept) + 1
             b == Len(old)
  <2>1. a \in Nat /\ a > 0 /\ b \in Nat /\ \A k \in 1..b : old[k] \in Raws
    BY <1>1
  <2> HIDE DEF a
  <2>2. \A k \in a..b : old[k] \in Raws
    BY <2>1
  <2> QED BY <2>1, <2>2
<1> HIDE DEF rest
<1>3. all \in Seq(Raws) /\ Len(kept) <= Len(all)
      /\ \A k \in 1..Len(kept) : all[k] = kept[k]
  BY <1>0, <1>1, <1>2
<1>4. \A k \in 1..Len(kept) : Named(kept[k])
  BY <1>1 DEF NamedSlots
<1>5. \A k \in 1..Len(kept) : Named(all[k])
  BY <1>3, <1>4
<1> QED BY <1>3, <1>5 DEF all, kept

\* There is a header that gives most Miis.
LEMMA HeaderIsOne ==
  ASSUME NEW block \in [Headers -> Seq(Raws)]
  PROVE  Header(block) \in Headers
<1> DEFINE at(h) == Cardinality(NamedSlots(block[h]))
           best(h) == \A other \in Headers :
                        \/ at(h) > at(other)
                        \/ at(h) = at(other) /\ h <= other
<1>1. ASSUME NEW h \in Headers PROVE at(h) \in Nat
  <2>1. block[h] \in Seq(Raws) /\ Len(block[h]) \in Int /\ 1 \in Int
    OBVIOUS
  <2>2. IsFiniteSet(1..Len(block[h])) /\ NamedSlots(block[h]) \subseteq 1..Len(block[h])
    BY <2>1, FS_Interval DEF NamedSlots
  <2>3. IsFiniteSet(NamedSlots(block[h]))
    BY <2>2, FS_Subset
  <2> QED BY <2>3, FS_CardinalityType
<1> HIDE DEF at
<1>2. \E h \in Headers : best(h)
  <2>1. at(4) \in Nat /\ at(6) \in Nat /\ at(8) \in Nat
    BY <1>1 DEF Headers
  <2>2. CASE at(4) >= at(6) /\ at(4) >= at(8)
    BY <2>1, <2>2 DEF Headers
  <2>3. CASE at(6) > at(4) /\ at(6) >= at(8)
    BY <2>1, <2>3 DEF Headers
  <2>4. CASE at(8) > at(4) /\ at(8) > at(6)
    BY <2>1, <2>4 DEF Headers
  <2> QED BY <2>1, <2>2, <2>3, <2>4
<1>3. Header(block) = CHOOSE h \in Headers : best(h)
  BY DEF Header, at
<1> HIDE DEF best
<1> QED BY <1>2, <1>3

CountInv ==
  /\ loaded_miis \in {"none", "console", "remote"}
  /\ miis \in Seq(Raws) /\ remote_miis \in Seq(Raws)
  /\ free \subseteq Bufs
  /\ wait \in {Idle} \cup [left : Nat, buf : Bufs]
  /\ content \in [Bufs -> Blocks \cup {NoData}]
  /\ EveryIndexIsAMii

LEMMA LoadKeepsCount ==
  ASSUME CountInv, Load
  PROVE  CountInv'
<1>1. UNCHANGED <<remote_miis, wait, reads, content, free>>
  BY DEF Load
<1>2. CASE loaded_miis' = "none" /\ UNCHANGED <<mii_count, miis>>
  BY <1>1, <1>2 DEF CountInv, EveryIndexIsAMii, Idle
<1>3. CASE \E file \in Files :
             /\ loaded_miis' = "console"
             /\ miis' = Compacted(file)
             /\ mii_count' = Len(Kept(file, ValidSlots(file)))
  <2>1. PICK file \in Files :
          /\ loaded_miis' = "console"
          /\ miis' = Compacted(file)
          /\ mii_count' = Len(Kept(file, ValidSlots(file)))
    BY <1>3
  <2>2. file \in Seq(Raws) /\ ValidSlots(file) \subseteq NamedSlots(file)
    BY MiiAssumption DEF ValidSlots
  <2>3. /\ miis' \in Seq(Raws)
        /\ mii_count' <= Len(miis')
        /\ \A k \in 1..mii_count' : Named(miis'[k])
    BY <2>1, <2>2, FrontIsNamed DEF Compacted, CopiedTo
  <2>4. EveryIndexIsAMii'
    BY <2>1, <2>3 DEF EveryIndexIsAMii, Loaded, Named
  <2> QED BY <2>1, <2>3, <2>4, <1>1 DEF CountInv, Idle
<1> QED BY <1>2, <1>3 DEF Load

LEMMA FinishKeepsCount ==
  ASSUME CountInv, Finish
  PROVE  CountInv'
<1> DEFINE block == content[wait.buf]
           raws == block[Header(block)]
           found == IF block = NoData THEN << >> ELSE Kept(raws, NamedSlots(raws))
<1>1. /\ Waiting
      /\ remote_miis' = found \o SubSeq(remote_miis, Len(found) + 1, Len(remote_miis))
      /\ mii_count' = Len(found)
      /\ loaded_miis' = "remote"
      /\ free' = free \cup {wait.buf}
      /\ content' = [content EXCEPT ![wait.buf] = NoData]
      /\ wait' = Idle
      /\ reads' = Abandoned
      /\ miis' = miis
  BY DEF Finish
<1>2. wait \in [left : Nat, buf : Bufs] /\ wait.buf \in Bufs
      /\ block \in Blocks \cup {NoData} /\ remote_miis \in Seq(Raws)
  <2>1. wait \in [left : Nat, buf : Bufs] /\ content \in [Bufs -> Blocks \cup {NoData}]
        /\ remote_miis \in Seq(Raws)
    BY <1>1 DEF CountInv, Waiting
  <2>2. wait.buf \in Bufs
    BY <2>1
  <2>3. block \in Blocks \cup {NoData}
    BY <2>1, <2>2
  <2> HIDE DEF block
  <2> QED BY <2>1, <2>2, <2>3, SMTT(60)
<1>3. /\ remote_miis' \in Seq(Raws)
      /\ mii_count' <= Len(remote_miis')
      /\ \A k \in 1..mii_count' : Named(remote_miis'[k])
  <2>1. CASE block = NoData
    <3> DEFINE none == << >>
               all == none \o SubSeq(remote_miis, Len(none) + 1, Len(remote_miis))
    <3>1. found = none /\ Len(none) = 0
      BY <2>1
    <3>2. all = remote_miis
      BY <1>2
    <3>3. remote_miis' = all /\ mii_count' = 0
      <4> HIDE DEF found
      <4> QED BY <1>1, <3>1
    <3>4. Len(remote_miis) \in Nat
      BY <1>2
    <3> QED BY <3>2, <3>3, <3>4, <1>2
  <2>2. CASE block # NoData
    <3>1. block \in [Headers -> Seq(Raws)]
      BY <2>2, <1>2, MiiAssumption
    <3> HIDE DEF block
    <3>2. raws \in Seq(Raws)
      BY <3>1, HeaderIsOne
    <3>3. found = Kept(raws, NamedSlots(raws))
      BY <2>2
    <3>4. remote_miis \in Seq(Raws) /\ mii_count' = Len(found)
          /\ remote_miis' = CopiedTo(remote_miis, found)
      <4> HIDE DEF found
      <4> QED BY <1>1, <1>2 DEF CopiedTo
    <3> HIDE DEF raws, found
    <3>5. remote_miis' \in Seq(Raws) /\ Len(found) <= Len(remote_miis')
          /\ \A k \in 1..Len(found) : Named(remote_miis'[k])
      <4> DEFINE kept == Kept(raws, NamedSlots(raws))
                 all == CopiedTo(remote_miis, kept)
      <4>1. all \in Seq(Raws) /\ Len(kept) <= Len(all) /\ \A k \in 1..Len(kept) : Named(all[k])
        BY <3>2, <3>4, FrontIsNamed
      <4>2. found = kept /\ remote_miis' = all
        BY <3>3, <3>4, SMTT(60)
      <4> HIDE DEF kept, all
      <4> QED BY <4>1, <4>2
    <3> QED BY <3>4, <3>5
  <2> HIDE DEF block, raws, found
  <2> QED BY <2>1, <2>2
<1>4. EveryIndexIsAMii'
  BY <1>1, <1>3, ZenonT(60) DEF EveryIndexIsAMii, Loaded, Named
<1>5. content' \in [Bufs -> Blocks \cup {NoData}]
  BY <1>1, <1>2 DEF CountInv
<1> HIDE DEF block, raws, found
<1>6. wait' \in {Idle} \cup [left : Nat, buf : Bufs] /\ free' \subseteq Bufs
  BY <1>1, <1>2 DEF CountInv
<1>7. miis' \in Seq(Raws) /\ remote_miis' \in Seq(Raws) /\ loaded_miis' = "remote"
  BY <1>1, <1>3 DEF CountInv
<1> QED BY <1>4, <1>5, <1>6, <1>7, SMTT(60) DEF CountInv

LEMMA NextKeepsCount ==
  ASSUME CountInv, [MiiNext]_miiVars
  PROVE  CountInv'
<1>1. ASSUME UNCHANGED <<loaded_miis, mii_count, miis, remote_miis>>,
             free' \subseteq Bufs, wait' \in {Idle} \cup [left : Nat, buf : Bufs],
             content' \in [Bufs -> Blocks \cup {NoData}]
      PROVE  CountInv'
  BY <1>1 DEF CountInv, EveryIndexIsAMii, Loaded, Idle
<1>2. /\ free \subseteq Bufs /\ wait \in {Idle} \cup [left : Nat, buf : Bufs]
      /\ content \in [Bufs -> Blocks \cup {NoData}]
  BY DEF CountInv
<1>3. CASE Load
  BY <1>3, LoadKeepsCount
<1>4. ASSUME NEW c \in Remotes, StartRead(c) PROVE CountInv'
  <2>1. PICK buf \in free :
          /\ wait' = [left |-> MaxWait, buf |-> buf]
          /\ content' = [content EXCEPT ![buf] = NoData]
          /\ free' = free \ {buf}
    BY <1>4 DEF StartRead
  <2>2. UNCHANGED <<loaded_miis, mii_count, miis, remote_miis>>
    BY <1>4 DEF StartRead
  <2>3. wait' \in [left : Nat, buf : Bufs]
    BY <2>1, <1>2, MiiAssumption
  <2> QED BY <2>1, <2>2, <2>3, <1>1, <1>2
<1>5. CASE RefuseRead
  BY <1>5, <1>1, <1>2 DEF RefuseRead
<1>6. CASE WaitFrame
  <2>1. wait \in [left : Nat, buf : Bufs] /\ wait.left > 0
        /\ wait' = [wait EXCEPT !.left = @ - 1]
        /\ UNCHANGED <<loaded_miis, mii_count, miis, remote_miis, content, free>>
    BY <1>6, <1>2 DEF WaitFrame, Waiting
  <2>2. wait' \in [left : Nat, buf : Bufs]
    BY <2>1
  <2> QED BY <2>1, <2>2, <1>1, <1>2
<1>7. CASE TimeOut
  <2>1. wait \in [left : Nat, buf : Bufs] /\ wait' = Idle
        /\ free' = free \cup {wait.buf}
        /\ content' = [content EXCEPT ![wait.buf] = NoData]
        /\ UNCHANGED <<loaded_miis, mii_count, miis, remote_miis>>
    BY <1>7, <1>2 DEF TimeOut, Waiting
  <2> QED BY <2>1, <1>1, <1>2
<1>8. CASE Finish
  BY <1>8, FinishKeepsCount
<1>9. ASSUME NEW c \in Remotes, AnswerRead(c) PROVE CountInv'
  <2>1. content' = content
        \/ \E block \in Blocks : content' = [content EXCEPT ![Head(reads[c]).buf] = block]
    BY <1>9 DEF AnswerRead
  <2>2. content' \in [Bufs -> Blocks \cup {NoData}]
    BY <2>1, <1>2
  <2> QED BY <2>2, <1>9, <1>1, <1>2 DEF AnswerRead
<1>10. CASE UNCHANGED miiVars
  BY <1>10, <1>1, <1>2 DEF miiVars
<1> QED BY <1>3, <1>4, <1>5, <1>6, <1>7, <1>8, <1>9, <1>10 DEF MiiNext

\* Every index below mii.count() is a Mii with a name, after any sequence of
\* loads, whatever the console and the remotes hold.
THEOREM CountedAreMiis == MiiSpec => []EveryIndexIsAMii
<1>1. MiiInit => CountInv
  <2> SUFFICES ASSUME MiiInit PROVE CountInv
    OBVIOUS
  <2>1. loaded_miis = "none" /\ miis = << >> /\ remote_miis = << >> /\ wait = Idle
        /\ content = [b \in Bufs |-> NoData] /\ free = Bufs
    BY DEF MiiInit
  <2>2. << >> \in Seq(Raws)
    OBVIOUS
  <2>3. content \in [Bufs -> Blocks \cup {NoData}]
    BY <2>1
  <2> QED BY <2>1, <2>2, <2>3 DEF CountInv, EveryIndexIsAMii
<1>2. CountInv /\ [MiiNext]_miiVars => CountInv'
  BY NextKeepsCount
<1>3. CountInv => EveryIndexIsAMii
  BY DEF CountInv
<1> QED BY <1>1, <1>2, <1>3, PTL DEF MiiSpec
=============================================================================
