----------------------------- MODULE MiiPackage -----------------------------
(***************************************************************************)
(* The Mii package of the runtime (compiler/src/c_runtime/calynda_mii.c):  *)
(* mii.load reads the console's database through libmii (mii.c),           *)
(* mii.load_remote reads the memory of a Wii remote, and the getters       *)
(* answer from what was loaded last.                                       *)
(*                                                                         *)
(* A raw Mii is the set of its bits that are set, bit 8 * byte + position. *)
(* A read of a remote's memory is asynchronous: wiiuse answers it later,   *)
(* from the frame loop, into the buffer it was given.                      *)
(***************************************************************************)
EXTENDS Integers, Sequences, FiniteSets, SequencesExt, Functions

CONSTANTS
  Remotes,    \* the remotes
  Files,      \* what RFL_DB.dat can hold: sequences of raw Miis
  Blocks,     \* what a remote can hold: for each header size, the raw Miis it gives
  Bufs,       \* the buffers memalign can return
  NoData,     \* a cleared buffer
  MaxWait,    \* frames load_remote waits for the answer
  MaxReads    \* bound: reads wiiuse has outstanding

Headers == {4, 6, 8}  \* hdr_candidates
Raws == SUBSET Nat

ASSUME MiiAssumption ==
  /\ Files \subseteq Seq(Raws)
  /\ Blocks \subseteq [Headers -> Seq(Raws)]
  /\ NoData \notin Blocks
  /\ Bufs # {}
  /\ MaxWait \in Nat
  /\ MaxReads \in Nat

VARIABLES
  loaded_miis,  \* "none", "console" or "remote": the array the pointer points to
  mii_count,
  miis,         \* the static array of loadMiis
  remote_miis,  \* the static array of load_miis_from_remote
  wait,         \* the load_remote that waits, or Idle
  done,         \* _mii_read_done
  reads,        \* outstanding reads of each remote: <<[buf, own], ...>>
  content,      \* what each buffer holds; of a free one it is not read, and kept at NoData
  free,         \* the buffers that are not allocated
  strayed       \* history: an answer to an abandoned read came during this wait

miiVars == <<loaded_miis, mii_count, miis, remote_miis, wait, done, reads, content,
             free, strayed>>

Idle == [left |-> -1, buf |-> CHOOSE b \in Bufs : TRUE]
Waiting == wait # Idle

-----------------------------------------------------------------------------
(* One Mii *)

Run(byte, bit, width) == [k \in 1..width |-> 8 * byte + bit + k - 1]

\* The bits of each number of a Mii, the lowest first (loadMii_from_raw).
\* The flag mole is cleared and never set.
Figure == [
  day |-> <<13, 14, 15, 0, 1>>, month |-> Run(0, 2, 4), female |-> Run(0, 6, 1),
  invalid |-> Run(0, 7, 1), favorite |-> Run(1, 0, 1), favColor |-> Run(1, 1, 4),
  height |-> Run(22, 0, 8), weight |-> Run(23, 0, 8), miiID |-> Run(24, 0, 32),
  systemID |-> Run(28, 0, 32), faceShape |-> Run(32, 0, 3), skinColor |-> Run(32, 3, 3),
  facialFeature |-> Run(32, 6, 4), downloaded |-> Run(33, 5, 1), mole |-> << >>]

\* bug: the highest bit of the colour, in the next byte, is not read.
HairCut == [
  hairType |-> Run(34, 0, 7), hairColor |-> Run(34, 7, 2), hairPart |-> Run(35, 7, 1),
  eyebrowType |-> Run(36, 0, 5), eyebrowColor |-> Run(38, 0, 3),
  eyeType |-> Run(40, 0, 6), eyeColor |-> Run(42, 0, 3)]

Hair == [
  hairType |-> Run(34, 0, 7), hairColor |-> Run(34, 7, 3), hairPart |-> Run(35, 7, 1),
  eyebrowType |-> Run(36, 0, 5), eyebrowRotation |-> Run(36, 6, 4),
  eyebrowColor |-> Run(38, 0, 3), eyebrowSize |-> Run(38, 3, 4),
  eyebrowVertPos |-> Run(38, 7, 5), eyebrowHorizSpacing |-> Run(39, 4, 4),
  eyeType |-> Run(40, 0, 6), eyeRotation |-> Run(41, 0, 3), eyeVertPos |-> Run(41, 3, 5),
  eyeColor |-> Run(42, 0, 3), eyeSize |-> Run(42, 4, 3), eyeHorizSpacing |-> Run(42, 7, 4)]

Face == [
  noseType |-> Run(44, 0, 4), noseSize |-> Run(44, 4, 4), noseVertPos |-> Run(45, 0, 5),
  lipType |-> Run(46, 0, 5), lipColor |-> Run(46, 5, 2), lipSize |-> Run(46, 7, 4),
  lipVertPos |-> Run(47, 3, 5), glassesType |-> Run(48, 0, 4),
  glassesColor |-> Run(48, 4, 3), glassesSize |-> Run(48, 7, 3),
  glassesVertPos |-> Run(49, 3, 5), mustacheType |-> Run(50, 0, 2),
  beardType |-> Run(50, 2, 2), facialHairColor |-> Run(50, 4, 3),
  mustacheSize |-> Run(50, 7, 4), mustacheVertPos |-> Run(51, 3, 5),
  moleSize |-> Run(52, 1, 4), moleVertPos |-> Run(52, 5, 5), moleHorizPos |-> Run(53, 2, 5)]

Layout == Figure @@ Hair @@ Face

\* A number, as the set of the powers of two it is the sum of.
Number(raw, field) == {k \in DOMAIN Layout[field] : Layout[field][k] \in raw}

\* The first character of the name, the low byte of a UTF-16 unit.
Named(raw) == \E bit \in 24..31 : bit \in raw
Invalid(raw) == Number(raw, "invalid") # {}

-----------------------------------------------------------------------------
(* What was loaded *)

Loaded == IF loaded_miis = "remote" THEN remote_miis ELSE miis

\* The numbers calynda_mii_dispatch has a getter for: the places, sizes and
\* angles of the parts, the dates and the identifiers have none.
Exposed == {
  "female", "favorite", "height", "weight", "favColor", "faceShape", "skinColor",
  "facialFeature", "hairType", "hairColor", "hairPart", "eyeType", "eyeColor",
  "eyebrowType", "eyebrowColor", "noseType", "lipType", "lipColor", "glassesType",
  "glassesColor", "mustacheType", "beardType", "facialHairColor", "mole"}

\* The getter of an exposed number: nothing without an array or for an index
\* that is out of range.  Indexes are those of the C array.
Answer(index, field) ==
  IF loaded_miis = "none" \/ index < 0 \/ index >= mii_count
  THEN {}
  ELSE Number(Loaded[index + 1], field)

\* The raw Miis a loop keeps, in their order.
Kept(raws, slots) ==
  LET kept[n \in 0..Len(raws)] ==
        IF n = 0 THEN << >>
        ELSE IF n \in slots THEN Append(kept[n - 1], raws[n]) ELSE kept[n - 1]
  IN  kept[Len(raws)]

NamedSlots(raws) == {i \in DOMAIN raws : Named(raws[i])}
ValidSlots(raws) == {i \in NamedSlots(raws) : ~Invalid(raws[i])}

\* bug: the count is right but nothing is moved.
LeftInPlace(file) == file

\* The valid Miis moved to the front; what is behind them is left as it was.
Compacted(file) ==
  LET valid == Kept(file, ValidSlots(file))
  IN  valid \o SubSeq(file, Len(valid) + 1, Len(file))

\* mii.load.
Load ==
  /\ ~Waiting
  /\ UNCHANGED <<remote_miis, wait, done, reads, content, free, strayed>>
  /\ \/ \* the file system, the file, the memory or the RNOD magic is missing
        /\ loaded_miis' = "none"
        /\ UNCHANGED <<mii_count, miis>>
     \/ \E file \in Files :
          /\ loaded_miis' = "console"
          /\ miis' = Compacted(file)
          /\ mii_count' = Len(Kept(file, ValidSlots(file)))

-----------------------------------------------------------------------------
(* mii.load_remote *)

\* bug: the flag keeps the answer to the read before.
LeftSet == done

\* _mii_read_done when a read is started.
Cleared == FALSE

\* A remote is there, a buffer is allocated and the read is started.
StartRead(c) ==
  /\ ~Waiting
  /\ Len(reads[c]) < MaxReads
  /\ \E buf \in free :
       /\ wait' = [left |-> MaxWait, buf |-> buf]
       /\ reads' = [reads EXCEPT ![c] = Append(@, [buf |-> buf, own |-> TRUE])]
       /\ content' = [content EXCEPT ![buf] = NoData]
       /\ free' = free \ {buf}
  /\ done' = Cleared
  /\ strayed' = FALSE
  /\ UNCHANGED <<loaded_miis, mii_count, miis, remote_miis>>

\* wiiuse does not start the read: the buffer is freed again, but the flag is
\* cleared.  A channel that is out of range or has no remote, or no
\* memory, changes nothing.
RefuseRead ==
  /\ ~Waiting
  /\ free # {}
  /\ done' = FALSE
  /\ UNCHANGED <<loaded_miis, mii_count, miis, remote_miis, wait, reads, content, free,
                 strayed>>

\* A frame of the busy-wait.
WaitFrame ==
  /\ Waiting /\ ~done
  /\ wait.left > 0
  /\ wait' = [wait EXCEPT !.left = @ - 1]
  /\ UNCHANGED <<loaded_miis, mii_count, miis, remote_miis, done, reads, content, free,
                 strayed>>

\* The call returns: a read that is still outstanding is nobody's.
Abandoned ==
  [c \in Remotes |-> [i \in DOMAIN reads[c] |-> [reads[c][i] EXCEPT !.own = FALSE]]]

\* The buffer is freed, but wiiuse keeps its address.
TimeOut ==
  /\ Waiting /\ ~done
  /\ wait.left = 0
  /\ free' = free \cup {wait.buf}
  /\ content' = [content EXCEPT ![wait.buf] = NoData]
  /\ wait' = Idle
  /\ reads' = Abandoned
  /\ UNCHANGED <<loaded_miis, mii_count, miis, remote_miis, done, strayed>>

\* The header that gives most named Miis, the smallest of several.
Header(block) ==
  LET NamedAt(h) == Cardinality(NamedSlots(block[h]))
  IN  CHOOSE h \in Headers : \A other \in Headers :
        \/ NamedAt(h) > NamedAt(other)
        \/ NamedAt(h) = NamedAt(other) /\ h <= other

\* The answer is there: the named Miis replace what was loaded.
Finish ==
  /\ Waiting /\ done
  /\ LET block == content[wait.buf]
         raws == block[Header(block)]
         found == IF block = NoData THEN << >> ELSE Kept(raws, NamedSlots(raws))
     IN  /\ remote_miis' = found \o SubSeq(remote_miis, Len(found) + 1, Len(remote_miis))
         /\ mii_count' = Len(found)
  /\ loaded_miis' = "remote"
  /\ free' = free \cup {wait.buf}
  /\ content' = [content EXCEPT ![wait.buf] = NoData]
  /\ wait' = Idle
  /\ reads' = Abandoned
  /\ UNCHANGED <<miis, done, strayed>>

-----------------------------------------------------------------------------
(* wiiuse: the oldest read of a remote is answered, at any time, in a wait    *)
(* or in the frames of the game.  Reads that failed are not answered at all.  *)
AnswerRead(c) ==
  /\ reads[c] # << >>
  /\ IF Head(reads[c]).buf \in free
     THEN content' = content
     ELSE \E block \in Blocks : content' = [content EXCEPT ![Head(reads[c]).buf] = block]
  /\ done' = TRUE
  /\ reads' = [reads EXCEPT ![c] = Tail(@)]
  /\ strayed' = (strayed \/ (Waiting /\ ~Head(reads[c]).own))
  /\ UNCHANGED <<loaded_miis, mii_count, miis, remote_miis, wait, free>>

MiiInit ==
  /\ loaded_miis = "none"
  /\ mii_count = 0
  /\ miis = << >>
  /\ remote_miis = << >>
  /\ wait = Idle
  /\ done = FALSE
  /\ reads = [c \in Remotes |-> << >>]
  /\ content = [b \in Bufs |-> NoData]
  /\ free = Bufs
  /\ strayed = FALSE

MiiNext ==
  \/ Load
  \/ \E c \in Remotes : StartRead(c)
  \/ RefuseRead
  \/ WaitFrame
  \/ TimeOut
  \/ Finish
  \/ \E c \in Remotes : AnswerRead(c)

MiiSpec == MiiInit /\ [][MiiNext]_miiVars

-----------------------------------------------------------------------------
(* Properties *)

OwnRead == \E c \in Remotes : \E i \in DOMAIN reads[c] : reads[c][i].own

\* Every index below count() is a Mii with a name, however the loads from the
\* console and from the remotes alternate and whatever the static arrays held
\* before (the compaction of mii.load, the copy of load_miis_from_remote).
EveryIndexIsAMii ==
  loaded_miis # "none" =>
    /\ mii_count <= Len(Loaded)
    /\ \A i \in 1..mii_count : Named(Loaded[i])

\* The bits of a raw Mii that a program may ask for: sex, favourite and colour;
\* height and weight; face, skin and feature; hair; hair parting; type and
\* colour of eyebrows, eyes, nose and lip; glasses; moustache and beard.
ShownBits == UNION {
  {6}, 8..12, 176..191, 256..265, 272..281, {287}, 288..292, 304..306, 320..325,
  336..338, 352..355, 368..374, 384..390, 400..406}

\* Two Miis answer alike exactly if they agree in the bits that are shown: none
\* is dropped or read twice where a number goes over from one byte to the next
\* (loadMii_from_raw), and Miis that differ only in what has no getter, such as
\* the size of the lip, look the same (calynda_mii_dispatch).
ToldApart ==
  loaded_miis # "none" =>
    \A i, j \in 1..mii_count :
      Loaded[i] \cap ShownBits = Loaded[j] \cap ShownBits
        <=> \A field \in Exposed : Answer(i - 1, field) = Answer(j - 1, field)

\* A load_remote stops waiting because its own read was answered, unless a
\* read given up earlier was answered during the wait
\* (_mii_read_done is cleared before each read).
OwnAnswerUnlessStrayed == Waiting /\ done => ~OwnRead \/ strayed
=============================================================================
