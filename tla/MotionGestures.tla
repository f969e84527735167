--------------------------- MODULE MotionGestures ---------------------------
(***************************************************************************)
(* Gesture detection (libs/calynda_motion/calynda_motion.c) as a game      *)
(* script reaches it, through the motion package of the runtime            *)
(* (compiler/src/c_runtime/calynda_motion_bridge.c).                       *)
(*                                                                         *)
(* Vectors are triples of integers: accelerations in units of g/2, angular *)
(* velocities in units of 100 degrees per second, so that the thresholds   *)
(* of the code are integers.  Time is in ticks.  Orientation, the infrared *)
(* pointer and the intensity of a gesture are numeric and left out.        *)
(***************************************************************************)
EXTENDS Integers, Sequences

CONSTANTS
  Channels,       \* 0 .. MOTION_MAX_CHANNELS - 1
  Arguments,      \* the channel numbers scripts pass, good or bad
  Samples,        \* what a remote measures: [accel, gyro]
  Thresholds,     \* what scripts set: [swing, thrust, twist]
  DefaultLimits,  \* the thresholds motion_init sets
  Shake,          \* shake_threshold
  History,        \* MOTION_GESTURE_HISTORY
  MinHistory,     \* samples needed before anything is detected (5)
  MaxWindow,      \* samples looked at (10)
  Cooldown,       \* cooldown_duration
  FrameTimes,     \* the dt scripts pass
  SlowestFrame    \* the longest of them

Vectors == Int \X Int \X Int
Measurements == [accel : Vectors, gyro : Vectors]

ASSUME MotionAssumption ==
  /\ Samples \subseteq Measurements
  /\ Shake \in Nat
  /\ History \in Nat \ {0}
  /\ MinHistory \in Nat
  /\ MaxWindow \in 1..History
  /\ Cooldown \in Nat
  /\ SlowestFrame \in Nat
  /\ FrameTimes \subseteq 0..SlowestFrame

\* The frame rate is high enough for the cooldown to outlast the window.
FastEnough == (MaxWindow - 1) * SlowestFrame < Cooldown

VARIABLES
  inited,   \* g_motion_inited
  active,   \* MotionChannel.active
  raw,      \* MotionChannel.raw
  ring,     \* accel_history and gyro_history
  index,    \* history_index
  filled,    \* history_count
  limits,   \* the thresholds of the detector
  timer,    \* cooldown_timer
  gesture,  \* last_gesture.type; last_gesture.active is that it is not "none"
  \* history, read by the properties only
  since,    \* updates since the last gesture was reported, up to History
  gap,      \* updates from the gesture before the last to the last, up to History
  recent    \* the samples of the last updates, the newest first, up to MaxWindow

motionVars == <<inited, active, raw, ring, index, filled, limits, timer, gesture,
                since, gap, recent>>

Still == [accel |-> <<0, 0, 0>>, gyro |-> <<0, 0, 0>>]

\* The static MotionSystem is zero until motion.init is called.
MotionInit ==
  /\ inited = FALSE
  /\ active = [c \in Channels |-> FALSE]
  /\ raw = [c \in Channels |-> Still]
  /\ ring = [c \in Channels |-> [i \in 0..(History - 1) |-> Still]]
  /\ index = [c \in Channels |-> 0]
  /\ filled = [c \in Channels |-> 0]
  /\ limits = [c \in Channels |-> [swing |-> 0, thrust |-> 0, twist |-> 0]]
  /\ timer = [c \in Channels |-> 0]
  /\ gesture = [c \in Channels |-> "none"]
  /\ since = [c \in Channels |-> History]
  /\ gap = [c \in Channels |-> History]
  /\ recent = [c \in Channels |-> <<>>]

\* motion.init, also in the middle of a game: everything starts again.
InitMotion ==
  /\ inited' = TRUE
  /\ active' = [c \in Channels |-> FALSE]
  /\ raw' = [c \in Channels |-> Still]
  /\ ring' = [c \in Channels |-> [i \in 0..(History - 1) |-> Still]]
  /\ index' = [c \in Channels |-> 0]
  /\ filled' = [c \in Channels |-> 0]
  /\ limits' = [c \in Channels |-> DefaultLimits]
  /\ timer' = [c \in Channels |-> 0]
  /\ gesture' = [c \in Channels |-> "none"]
  /\ since' = [c \in Channels |-> History]
  /\ gap' = [c \in Channels |-> History]
  /\ recent' = [c \in Channels |-> <<>>]

\* The bridge ignores every call before motion.init or for another channel.
Reaches(c) == inited /\ c \in Channels

FeedRaw(c, s) ==
  /\ Reaches(c)
  /\ active' = [active EXCEPT ![c] = TRUE]
  /\ raw' = [raw EXCEPT ![c] = s]
  /\ UNCHANGED <<inited, ring, index, filled, limits, timer, gesture, since, gap, recent>>

\* Infrared data alone also makes the channel active.
FeedIr(c) ==
  /\ Reaches(c)
  /\ active' = [active EXCEPT ![c] = TRUE]
  /\ UNCHANGED <<inited, raw, ring, index, filled, limits, timer, gesture, since, gap, recent>>

SetThresholds(c, t) ==
  /\ Reaches(c)
  /\ limits' = [limits EXCEPT ![c] = t]
  /\ UNCHANGED <<inited, active, raw, ring, index, filled, timer, gesture, since, gap, recent>>

-----------------------------------------------------------------------------
(* Vectors *)

Dot(v, w) == v[1] * w[1] + v[2] * w[2] + v[3] * w[3]
Plus(v, w) == <<v[1] + w[1], v[2] + w[2], v[3] + w[3]>>
Abs(x) == IF x < 0 THEN -x ELSE x

\* history_peak: the longest vector, the newest of several.  The vectors are
\* given the newest first.
Peak(vectors) ==
  LET best[n \in 0..Len(vectors)] ==
        IF n = 0 THEN <<0, 0, 0>>
        ELSE IF Dot(vectors[n], vectors[n]) > Dot(best[n - 1], best[n - 1])
             THEN vectors[n] ELSE best[n - 1]
  IN best[Len(vectors)]

\* history_variance times the square of the number of vectors.
ScaledVariance(vectors) ==
  LET n == Len(vectors)
      total[k \in 0..n] == IF k = 0 THEN <<0, 0, 0>> ELSE Plus(total[k - 1], vectors[k])
      squares[k \in 0..n] ==
        IF k = 0 THEN 0 ELSE squares[k - 1] + Dot(vectors[k], vectors[k])
  IN IF n < 2 THEN 0 ELSE n * squares[n] - Dot(total[n], total[n])

-----------------------------------------------------------------------------
(* detect_gestures *)

\* bug: a swing to the left is compared with its sign
SwingSigned(p, limit) ==
  LET ay == Abs(p[2])
      az == Abs(p[3])
  IN IF az > p[1] /\ az > ay /\ az > limit.thrust
     THEN IF p[2] > 1 /\ p[3] < 0 THEN "throw" ELSE "thrust"
     ELSE IF p[1] > ay THEN IF p[1] > 0 THEN "swing right" ELSE "swing left"
     ELSE IF p[2] > 0 THEN "swing up" ELSE "swing down"

\* The direction of a swing: the dominant axis of the peak.
Swing(p, limit) ==
  LET ax == Abs(p[1])
      ay == Abs(p[2])
      az == Abs(p[3])
  IN IF az > ax /\ az > ay /\ az > limit.thrust
     THEN IF p[2] > 1 /\ p[3] < 0 THEN "throw" ELSE "thrust"
     ELSE IF ax > ay THEN IF p[1] > 0 THEN "swing right" ELSE "swing left"
     ELSE IF p[2] > 0 THEN "swing up" ELSE "swing down"

\* What the last samples amount to: a shake before a twist before a swing.
Classify(window, limit) ==
  LET n == Len(window)
      accel == [i \in 1..n |-> window[i].accel]
      twist == Peak([i \in 1..n |-> window[i].gyro])[3]
      peak == Peak(accel)
  IN CASE ScaledVariance(accel) > Shake * Shake * n * n -> "shake"
       [] ScaledVariance(accel) <= Shake * Shake * n * n /\ Abs(twist) > limit.twist
            -> IF twist > 0 THEN "twist ccw" ELSE "twist cw"
       [] OTHER -> IF Dot(peak, peak) < limit.swing * limit.swing THEN "none"
                   ELSE Swing(peak, limit)

\* bug: the window starts at the slot to be written next
WindowAhead(r, i, n) == [k \in 1..n |-> r[(i + 1 + History - k) % History]]

\* The n newest samples of a ring whose next free slot is i, the newest first.
WindowOf(r, i, n) == [k \in 1..n |-> r[(i + History - k) % History]]

\* bug: the frame is taken off the timer in the test once more
CooledEarly(t, dt) == t <= 0 \/ t - dt - dt <= 0

\* Is the cooldown over after this frame?
Cooled(t, dt) == t <= 0 \/ t - dt <= 0

Least(m, n) == IF m < n THEN m ELSE n

\* motion_update on an active channel.  The sample is the last one fed, which
\* may be the one of the update before.
MotionUpdate(c, dt) ==
  LET newRing == [ring[c] EXCEPT ![index[c]] = raw[c]]
      newIndex == (index[c] + 1) % History
      newCount == Least(filled[c] + 1, History)
      window == WindowOf(newRing, newIndex, Least(newCount, MaxWindow))
      late == Cooled(timer[c], dt)
      found == IF late /\ newCount >= MinHistory THEN Classify(window, limits[c])
               ELSE "none"
  IN /\ Reaches(c)
     /\ active[c]
     /\ ring' = [ring EXCEPT ![c] = newRing]
     /\ index' = [index EXCEPT ![c] = newIndex]
     /\ filled' = [filled EXCEPT ![c] = newCount]
     /\ gesture' = [gesture EXCEPT ![c] = found]
     /\ timer' = [timer EXCEPT ![c] =
                    IF found # "none" THEN Cooldown ELSE IF @ > 0 THEN @ - dt ELSE @]
     /\ since' = [since EXCEPT ![c] = IF found # "none" THEN 0 ELSE Least(@ + 1, History)]
     /\ gap' = [gap EXCEPT ![c] =
                  IF found # "none" THEN Least(since[c] + 1, History) ELSE @]
     /\ recent' = [recent EXCEPT ![c] =
                     SubSeq(<<raw[c]>> \o @, 1, Least(Len(@) + 1, MaxWindow))]
     /\ UNCHANGED <<inited, active, raw, limits>>

\* calynda_motion_dispatch, of the calls that change something.
MotionNext ==
  \/ InitMotion
  \/ \E c \in Arguments :
       \/ \E s \in Samples : FeedRaw(c, s)
       \/ FeedIr(c)
       \/ \E t \in Thresholds : SetThresholds(c, t)
       \/ \E dt \in FrameTimes : MotionUpdate(c, dt)

MotionSpec == MotionInit /\ [][MotionNext]_motionVars

-----------------------------------------------------------------------------
(* Properties *)

\* The ring of detect_gestures, with its index arithmetic, gives exactly the
\* samples of the last updates, the newest first.
RingIsRecent ==
  \A c \in Channels :
    recent[c] = WindowOf(ring[c], index[c], Least(filled[c], MaxWindow))

\* The window in which a gesture is found has no sample of the window of the
\* gesture before: a movement is reported once, however long the samples of
\* it stay in the history, if frames are short enough (cooldown_timer is there
\* to "prevent rapid-fire detections", calynda_motion.h:91).
NoSampleReportedTwice ==
  FastEnough => \A c \in Channels : gap[c] >= MaxWindow

MirrorName(name) ==
  CASE name = "swing left" -> "swing right"
    [] name = "swing right" -> "swing left"
    [] name = "twist cw" -> "twist ccw"
    [] name = "twist ccw" -> "twist cw"
    [] OTHER -> name

MirrorSample(s) ==
  [accel |-> <<-s.accel[1], s.accel[2], s.accel[3]>>,
   gyro |-> <<s.gyro[1], s.gyro[2], -s.gyro[3]>>]

\* The movement of a left hand is the mirror image of that of a right hand: the
\* comparisons of detect_gestures treat both sides alike.
MirrorImage ==
  \A c \in Channels :
    LET n == Len(recent[c])
    IN n > 0 =>
         Classify([i \in 1..n |-> MirrorSample(recent[c][i])], limits[c])
           = MirrorName(Classify(recent[c], limits[c]))
=============================================================================
