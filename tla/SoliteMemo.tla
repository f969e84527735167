----------------------------- MODULE SoliteMemo -----------------------------
(***************************************************************************)
(* Memos, the cached derivations of solite_effect.c, on top of             *)
(* SoliteReactive.  A memo is identified with its tracking effect, whose   *)
(* body is memo_recompute_cb: it calls the memo's function and stores the  *)
(* result in cached_value.  The function is a derivation: it reads the     *)
(* signals in MemoReads and does nothing else.  Its result stands for any  *)
(* function of what it read, so it is represented by what it read.         *)
(***************************************************************************)
EXTENDS SoliteReactive

CONSTANTS
  Memos,     \* the tracking effects of memos
  MemoReads  \* the signals the function of a memo reads

ASSUME MemosAssumption == Memos \subseteq Effects /\ MemoReads \subseteq Signals

VARIABLES
  cached,  \* SoliteMemo.cached_value
  got      \* history: what an effect got from memos in its latest run

memoVars == <<vars, cached, got>>

NothingGot == [m \in Memos |-> NothingSeen]

MemoInit ==
  /\ Init
  /\ cached = [m \in Memos |-> NothingSeen]
  /\ got = [e \in Effects |-> NothingGot]

\* A signal created at an address is not the one that was read there before.
WithoutNewSignals(read) ==
  [s \in Signals |-> IF s \in allocated' \ allocated THEN NoValue ELSE read[s]]

\* A body that a step starts has got nothing from memos yet.
GotAfterStep ==
  [e \in Effects |->
     IF Len(calls') > Len(calls) /\ calls'[Len(calls')].eff = e
     THEN NothingGot
     ELSE [m \in Memos |-> WithoutNewSignals(got[e][m])]]

\* Everything but the functions of memos calls the library freely; EffectCreate
\* of a memo is solid_create_memo and EffectDispose is solite_memo_dispose.
ReactiveStep ==
  /\ \/ Top.eff \notin Memos /\ (Client \/ BodyReturn)
     \/ Top.eff \in Memos /\ \E s \in MemoReads : SignalGet(s)
     \/ Library
  /\ got' = GotAfterStep
  /\ cached' = [m \in Memos |-> WithoutNewSignals(cached[m])]

\* bug: the function is called only while the memo is dirty
MemoRecomputeDirty ==
  /\ Top.eff \in Memos
  /\ \A s \in MemoReads \cap allocated : seen[Top.eff][s] # NoValue
  /\ BodyReturn
  /\ cached' = IF status[Top.eff] = "live" THEN cached
               ELSE [cached EXCEPT ![Top.eff] = seen[Top.eff]]
  /\ UNCHANGED got

\* memo_recompute_cb: the function returns and its result is cached.
MemoRecompute ==
  /\ Top.eff \in Memos
  /\ \A s \in MemoReads \cap allocated : seen[Top.eff][s] # NoValue
  /\ BodyReturn
  /\ cached' = [cached EXCEPT ![Top.eff] = seen[Top.eff]]
  /\ UNCHANGED got

\* solite_memo_get returns the cache and subscribes nobody.
MemoGet(m) ==
  /\ ClientRuns
  /\ status[m] = "live"
  /\ Top.eff \notin Memos
  /\ got' = IF Top.eff = Main THEN got
            ELSE [got EXCEPT ![Top.eff] = [@ EXCEPT ![m] = cached[m]]]
  /\ UNCHANGED <<vars, cached>>

MemoNext == ReactiveStep \/ MemoRecompute \/ \E m \in Memos : MemoGet(m)

MemoSpec == MemoInit /\ [][MemoNext]_memoVars

\* m cached a value computed from s that s no longer has.
StaleCache(m, s) ==
  /\ status[m] = "live" /\ s \in allocated
  /\ cached[m][s] \notin {NoValue, value[s]}

\* When the main program has control outside a batch, what a live memo caches
\* was computed from the current values of every signal it read, although
\* solite_memo_get never recomputes (solite_effect.h: "a cached derivation that
\* recomputes when dependencies change").
MemoIsFresh ==
  Quiet => \A m \in Memos, s \in Signals : ~StaleCache(m, s)

\* When the main program has control outside a batch, a live effect that read
\* a live memo in its latest run got what the memo caches now (the comment in
\* solite_memo_get: "if we're inside an effect, subscribe via the inner
\* tracking effect's signal subscriptions (inherited)").
MemoReadersAreFresh ==
  Quiet => \A e \in Effects, m \in Memos :
             Alive(e) /\ status[m] = "live" =>
               got[e][m] \in {NothingSeen, cached[m]}
=============================================================================
