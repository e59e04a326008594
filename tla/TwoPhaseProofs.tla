--------------------------- MODULE TwoPhaseProofs ---------------------------
(***************************************************************************)
(* Proofs about the two-phase prepare, for any pipelines, providers,       *)
(* answers, multipliers and grants, and any number of rounds and reports.  *)
(*                                                                         *)
(* The argument: a walk along a pipeline only shortens (WalkShortens), the *)
(* plan and the real walk are the same up to the semantic step             *)
(* (PlanForesees), and what a commit returns is what it computed from one  *)
(* multiplier and one set of answers (PreparedAsComputed).                 *)
(***************************************************************************)
EXTENDS TwoPhase, CountingProofs

-----------------------------------------------------------------------------
(* Numbers.                                                                *)

(* Max and Min are members of their sets.                                  *)
LEMMA MaxIsGreatest ==
  ASSUME NEW n \in Nat, NEW T \in SUBSET (0 .. n), T # {}
  PROVE  Max(T) \in T /\ \A y \in T : Max(T) >= y
<1> DEFINE R == {n - t : t \in T}
<1>1. R \in SUBSET Nat
  OBVIOUS
<1>2. PICK s \in R : TRUE
  OBVIOUS
<1>3. PICK r \in R : \A j \in R : r <= j
  BY <1>1, <1>2, LeastNat
<1>4. PICK t \in T : r = n - t
  OBVIOUS
<1>5. \A y \in T : t >= y
  <2>1. SUFFICES ASSUME NEW y \in T PROVE t >= y
    OBVIOUS
  <2>2. n - y \in R
    OBVIOUS
  <2>3. n - t <= n - y
    BY <1>3, <1>4, <2>2
  <2>4. QED
    BY <2>3
<1>6. QED
  BY <1>5 DEF Max

LEMMA MinIsLeast ==
  ASSUME NEW T \in SUBSET Nat, T # {}
  PROVE  Min(T) \in T
<1>1. PICK n \in T : TRUE
  OBVIOUS
<1>2. \E i \in T : \A j \in T : i =< j
  BY <1>1, LeastNat
<1>3. QED
  BY <1>2 DEF Min

-----------------------------------------------------------------------------
(* Counting and the local steps.                                           *)

Counters == [mode : Modes, multiplier : Nat]

(* Counts are numbers.                                                     *)
LEMMA CountTextNat ==
  ASSUME NEW size \in Nat, NEW c \in Counters
  PROVE  CountText(size, c) \in Nat
<1>1. CASE c.mode = "host"
  BY <1>1 DEF CountText
<1>2. CASE c.mode # "host"
  <2>1. c.multiplier \in Nat /\ Unit \in Nat \ {0}
    BY ReclaimAssumption DEF Counters
  <2>2. size * c.multiplier \in Nat
    BY <2>1
  <2> DEFINE p == size * c.multiplier
  <2> HIDE DEF p
  <2>3. p \in Nat => (p + Unit - 1) \div Unit \in Nat
    BY <2>1
  <2>4. QED
    BY <1>2, <2>2, <2>3 DEF CountText, CeilDiv, p
<1>3. QED
  BY <1>1, <1>2

(* Whatever a local step makes of a text is a text.                        *)
LEMMA TruncateText ==
  ASSUME NEW text \in Text, NEW target \in Int, NEW c \in Counters, NEW depth \in Nat
  PROVE  Truncate(text, target, c, depth) \in Text
<1> DEFINE d == IF c.mode = "char" THEN [c EXCEPT !.multiplier = Unit] ELSE c
           S == {0} \cup Fitting(text, target, d)
<1>1. text.size \in Nat /\ text.kept \in BOOLEAN
  BY DEF Text
<1>2. S \in SUBSET (0 .. text.size) /\ S # {}
  BY <1>1 DEF Fitting
<1>2m. \A n \in S : n \in Nat
  BY <1>1 DEF Fitting
<1>3. Truncate(text, target, c, depth) = Prefix(text, Max(S), depth)
  BY DEF Truncate
<1> HIDE DEF S
<1>4. Max(S) \in S
  BY <1>1, <1>2, MaxIsGreatest
<1>4m. Max(S) \in Nat
  BY <1>2m, <1>4
<1>5. QED
  BY <1>1, <1>3, <1>4m DEF Prefix, Text

(* Selecting whole sentences yields a text.                                *)
LEMMA SelectSentencesText ==
  ASSUME NEW text \in Text, NEW target \in Int, NEW c \in Counters, NEW depth \in Nat
  PROVE  SelectSentences(text, target, c, depth) \in Text
<1> DEFINE whole == {n \in Fitting(text, target, c) : n % Sentence = 0 \/ n = text.size}
           S == {0} \cup whole
<1>1. text.size \in Nat /\ text.kept \in BOOLEAN
  BY DEF Text
<1>2. S \in SUBSET (0 .. text.size) /\ S # {} /\ whole \in SUBSET (0 .. text.size)
  BY <1>1 DEF Fitting
<1>2m. \A n \in whole : n \in Nat
  BY <1>1 DEF Fitting
<1>3. SelectSentences(text, target, c, depth) =
        IF Max(S) = 0 THEN Truncate(text, target, c, depth) ELSE Prefix(text, Max(whole), depth)
  BY DEF SelectSentences
<1>4. S = {0} \cup whole
  OBVIOUS
<1> HIDE DEF whole, S
<1>5. Max(S) \in S
  BY <1>1, <1>2, MaxIsGreatest
<1>6. CASE Max(S) = 0
  BY <1>3, <1>6, TruncateText
<1>7. CASE Max(S) # 0
  <2>1. whole # {}
    BY <1>4, <1>5, <1>7
  <2>2. Max(whole) \in whole
    BY <1>1, <1>2, <2>1, MaxIsGreatest
  <2>2m. Max(whole) \in Nat
    BY <1>2m, <2>2
  <2>3. QED
    BY <1>1, <1>3, <1>7, <2>2m DEF Prefix, Text
<1>8. QED
  BY <1>6, <1>7

(* So does squeezing one.                                                  *)
LEMMA SqueezeText ==
  ASSUME NEW text \in Text
  PROVE  Squeeze(text) \in Text
<1> DEFINE S == {0, text.size - 1}
           T == {n \in S : n >= 0}
<1>1. text.size \in Nat
  BY DEF Text
<1>2. Max(S) \in Nat
  <2>1. CASE text.size = 0
    <3>1. \A x \in S : (\A y \in S : x >= y) => x = 0
      BY <2>1
    <3>2. 0 \in S /\ \A y \in S : 0 >= y
      BY <2>1
    <3>3. Max(S) = 0
      BY <3>1, <3>2 DEF Max
    <3>4. QED
      BY <3>3
  <2>2. CASE text.size # 0
    <3>1. S \in SUBSET (0 .. text.size) /\ S # {}
      BY <1>1, <2>2
    <3>2. Max(S) \in S
      BY <1>1, <3>1, MaxIsGreatest
    <3>3. QED
      BY <3>1, <3>2
  <2>3. QED
    BY <2>1, <2>2
<1>3. Squeeze(text) = [text EXCEPT !.size = Max(S)]
  BY DEF Squeeze
<1> HIDE DEF S
<1>4. QED
  BY <1>2, <1>3 DEF Text

(* What an accepted candidate is of the text it replaces.                  *)
Shortens(new, old, c) ==
  /\ CountText(new.size, c) <= CountText(old.size, c)
  /\ old.kept => new.kept

(* A local step never lets a text grow or lose its required terms.         *)
LEMMA LocalStepShortens ==
  ASSUME NEW step \in Steps, NEW text \in Text, NEW target \in Int, NEW c \in Counters,
         NEW depth \in Nat
  PROVE  /\ LocalStep(step, text, target, c, depth) \in Text
         /\ Shortens(LocalStep(step, text, target, c, depth), text, c)
<1> DEFINE candidate == CompressText(step, text, target, c, depth)
<1>1. candidate \in Text
  BY TruncateText, SelectSentencesText, SqueezeText DEF CompressText
<1>2. LocalStep(step, text, target, c, depth) = IF Accepts(candidate, text, c) THEN candidate ELSE text
  BY DEF LocalStep
<1> HIDE DEF candidate
<1>3. CountText(text.size, c) \in Nat
  BY CountTextNat DEF Text
<1>4. QED
  BY <1>1, <1>2, <1>3 DEF Accepts, Shortens

-----------------------------------------------------------------------------
(* The walk along a reclaim pipeline.                                      *)

Walkings == [stop : {"no", "ask", "failed"}, text : Text]

(* What the k-th step of a pipeline makes of what was before.              *)
Stepped(pipeline, k, before, target, c, depth, semantic) ==
  IF before.stop # "no" \/ CountText(before.text.size, c) <= target THEN before
  ELSE IF pipeline[k] = "semantic" THEN semantic[before.text]
  ELSE Going(LocalStep(pipeline[k], before.text, target, c, depth))

(* A step of the walk is a walk again.                                     *)
LEMMA SteppedWalking ==
  ASSUME NEW pipeline \in Seq(Steps), NEW k \in 1 .. Len(pipeline), NEW before \in Walkings,
         NEW target \in Int, NEW c \in Counters, NEW depth \in Nat,
         NEW semantic \in [Text -> Walkings]
  PROVE  Stepped(pipeline, k, before, target, c, depth, semantic) \in Walkings
<1>1. pipeline[k] \in Steps /\ before.text \in Text
  BY DEF Walkings
<1>2. LocalStep(pipeline[k], before.text, target, c, depth) \in Text
  BY <1>1, LocalStepShortens
<1>3. \A text \in Text : Going(text) \in Walkings
  BY DEF Going, Walkings
<1>4. semantic[before.text] \in Walkings
  BY <1>1
<1>5. QED
  BY <1>2, <1>3, <1>4 DEF Stepped

(* f holds the walk after each step.                                       *)
WalksAs(f, pipeline, source, target, c, depth, semantic) ==
  /\ f \in [0 .. Len(pipeline) -> Walkings]
  /\ f[0] = Going(source)
  /\ \A k \in 1 .. Len(pipeline) :
       f[k] = Stepped(pipeline, k, f[k - 1], target, c, depth, semantic)
  /\ Walk(pipeline, source, target, c, depth, semantic) = f[Len(pipeline)]

(* The recursion of Walk has a solution, step by step.                     *)
LEMMA Walked ==
  ASSUME NEW pipeline \in Seq(Steps), NEW source \in Text, NEW target \in Int,
         NEW c \in Counters, NEW depth \in Nat, NEW semantic \in [Text -> Walkings]
  PROVE  \E f : WalksAs(f, pipeline, source, target, c, depth, semantic)
<1> DEFINE body(f, k) == IF k = 0 THEN Going(source)
                         ELSE Stepped(pipeline, k, f[k - 1], target, c, depth, semantic)
           Satisfies(f, n) == f = [k \in 0 .. n |-> body(f, k)]
           Solved == {n \in Nat : n <= Len(pipeline) =>
                        \E f \in [0 .. n -> Walkings] : \A k \in 0 .. n : f[k] = body(f, k)}
<1>1. Len(pipeline) \in Nat
  OBVIOUS
<1>2. Going(source) \in Walkings
  BY DEF Going, Walkings
<1>3. 0 \in Solved
  <2> DEFINE f == [k \in 0 .. 0 |-> Going(source)]
  <2>1. f \in [0 .. 0 -> Walkings] /\ \A k \in 0 .. 0 : k = 0 /\ f[k] = Going(source)
    BY <1>2
  <2>2. \A k \in 0 .. 0 : f[k] = body(f, k)
    BY <2>1
  <2>3. QED
    BY <2>1, <2>2
<1>4. ASSUME NEW n \in Nat, n \in Solved PROVE n + 1 \in Solved
  <2>1. SUFFICES ASSUME n + 1 <= Len(pipeline)
                 PROVE  \E g \in [0 .. n + 1 -> Walkings] : \A k \in 0 .. n + 1 : g[k] = body(g, k)
    OBVIOUS
  <2>2. PICK f \in [0 .. n -> Walkings] : \A k \in 0 .. n : f[k] = body(f, k)
    BY <1>1, <1>4, <2>1
  <2> DEFINE last == Stepped(pipeline, n + 1, f[n], target, c, depth, semantic)
             g == [k \in 0 .. n + 1 |-> IF k <= n THEN f[k] ELSE last]
  <2>3. last \in Walkings
    <3>1. n + 1 \in 1 .. Len(pipeline) /\ f[n] \in Walkings
      BY <1>1, <2>1
    <3>2. QED
      BY <3>1, SteppedWalking
  <2>4. \A k \in 0 .. n : g[k] = f[k]
    OBVIOUS
  <2>5. g[n + 1] = last
    BY <1>1
  <2>6. \A k \in 0 .. n + 1 : k \in 0 .. n \/ k = n + 1
    OBVIOUS
  <2>7. g \in [0 .. n + 1 -> Walkings]
    <3>1. \A k \in 0 .. n + 1 : g[k] \in Walkings
      BY <2>3, <2>4, <2>5, <2>6
    <3>2. g = [k \in 0 .. n + 1 |-> g[k]]
      OBVIOUS
    <3> HIDE DEF g
    <3>3. QED
      BY <3>1, <3>2
  <2> HIDE DEF g
  <2>8. \A k \in 0 .. n + 1 : g[k] = body(g, k)
    <3>1. SUFFICES ASSUME NEW k \in 0 .. n + 1 PROVE g[k] = body(g, k)
      OBVIOUS
    <3>2. CASE k = 0
      BY <2>2, <2>4, <3>2
    <3>3. CASE k # 0 /\ k \in 0 .. n
      <4>1. k - 1 \in 0 .. n
        BY <3>3
      <4>2. g[k - 1] = f[k - 1] /\ g[k] = f[k] /\ f[k] = body(f, k)
        BY <2>2, <2>4, <3>3, <4>1
      <4>3. QED
        BY <3>3, <4>2
    <3>4. CASE k = n + 1
      <4>1. g[k - 1] = f[n] /\ k # 0
        BY <2>4, <3>4
      <4>2. QED
        BY <2>5, <3>4, <4>1
    <3>5. QED
      BY <2>6, <3>2, <3>3, <3>4
  <2>9. QED
    BY <2>7, <2>8
<1> HIDE DEF Solved
<1>5. Len(pipeline) \in Solved
  BY <1>1, <1>3, <1>4, NatSetInduction
<1> DEFINE after == CHOOSE f : Satisfies(f, Len(pipeline))
<1>6. PICK f \in [0 .. Len(pipeline) -> Walkings] : \A k \in 0 .. Len(pipeline) : f[k] = body(f, k)
  BY <1>1, <1>5 DEF Solved
<1>7. Satisfies(f, Len(pipeline))
  <2>1. f = [k \in 0 .. Len(pipeline) |-> f[k]]
    OBVIOUS
  <2>2. [k \in 0 .. Len(pipeline) |-> f[k]] = [k \in 0 .. Len(pipeline) |-> body(f, k)]
    BY <1>6
  <2>3. QED
    BY <2>1, <2>2
<1>8. Satisfies(after, Len(pipeline))
  BY <1>7
<1>9. Walk(pipeline, source, target, c, depth, semantic) = after[Len(pipeline)]
  BY DEF Walk, Stepped
<1>10. /\ after = [k \in 0 .. Len(pipeline) |-> after[k]]
       /\ \A k \in 0 .. Len(pipeline) : after[k] = body(after, k)
  <2> HIDE DEF after
  <2>1. after = [k \in 0 .. Len(pipeline) |-> body(after, k)]
    BY <1>8
  <2>2. \A k \in 0 .. Len(pipeline) : after[k] = body(after, k)
    BY <2>1
  <2>3. QED
    BY <2>1, <2>2
<1> DEFINE Typed == {n \in Nat : n <= Len(pipeline) => after[n] \in Walkings}
<1> HIDE DEF after
<1>11. 0 \in Typed
  BY <1>1, <1>2, <1>10
<1>12. ASSUME NEW n \in Nat, n \in Typed PROVE n + 1 \in Typed
  <2>1. SUFFICES ASSUME n + 1 <= Len(pipeline) PROVE after[n + 1] \in Walkings
    OBVIOUS
  <2>2. n + 1 \in 1 .. Len(pipeline) /\ n + 1 \in 0 .. Len(pipeline) /\ n + 1 # 0
        /\ n + 1 - 1 = n /\ after[n] \in Walkings
    BY <1>1, <1>12, <2>1
  <2>3. after[n + 1] = body(after, n + 1)
    BY <1>10, <2>2, Zenon
  <2>3m. after[n + 1] = Stepped(pipeline, n + 1, after[n], target, c, depth, semantic)
    BY <2>2, <2>3
  <2>4. QED
    BY <2>2, <2>3m, SteppedWalking
<1> HIDE DEF Typed
<1>13. \A n \in Nat : n \in Typed
  BY <1>11, <1>12, NatSetInduction
<1>14. after \in [0 .. Len(pipeline) -> Walkings]
  <2>1. \A k \in 0 .. Len(pipeline) : after[k] \in Walkings
    BY <1>13 DEF Typed
  <2>2. QED
    BY <1>10, <2>1
<1>15. after[0] = Going(source)
  BY <1>1, <1>10
<1>16. \A k \in 1 .. Len(pipeline) :
         after[k] = Stepped(pipeline, k, after[k - 1], target, c, depth, semantic)
  <2>1. SUFFICES ASSUME NEW k \in 1 .. Len(pipeline)
                 PROVE  after[k] = Stepped(pipeline, k, after[k - 1], target, c, depth, semantic)
    OBVIOUS
  <2>2. k # 0 /\ k \in 0 .. Len(pipeline)
    BY <1>1
  <2>3. after[k] = body(after, k)
    BY <1>10, <2>2, Zenon
  <2>4. QED
    BY <2>2, <2>3
<1> HIDE DEF body, Satisfies, after
<1>17. WalksAs(after, pipeline, source, target, c, depth, semantic)
  BY <1>9, <1>14, <1>15, <1>16 DEF WalksAs
<1>18. QED
  BY <1>17

(* Whatever semantic steps do to shorten the text, the walk only shortens. *)
LEMMA WalkShortens ==
  ASSUME NEW pipeline \in Seq(Steps), NEW source \in Text, NEW target \in Int,
         NEW c \in Counters, NEW depth \in Nat, NEW semantic \in [Text -> Walkings],
         \A text \in Text : Shortens(semantic[text].text, text, c)
  PROVE  /\ Walk(pipeline, source, target, c, depth, semantic) \in Walkings
         /\ Shortens(Walk(pipeline, source, target, c, depth, semantic).text, source, c)
<1>1p. PICK f : WalksAs(f, pipeline, source, target, c, depth, semantic)
  BY Walked
<1>1. /\ f \in [0 .. Len(pipeline) -> Walkings]
      /\ f[0] = Going(source)
      /\ \A k \in 1 .. Len(pipeline) :
           f[k] = Stepped(pipeline, k, f[k - 1], target, c, depth, semantic)
      /\ Walk(pipeline, source, target, c, depth, semantic) = f[Len(pipeline)]
  BY <1>1p DEF WalksAs
<1>2. Len(pipeline) \in Nat
  OBVIOUS
<1>3. \A text \in Text : CountText(text.size, c) \in Nat
  BY CountTextNat DEF Text
<1> DEFINE Shorter == {n \in Nat : n <= Len(pipeline) => Shortens(f[n].text, source, c)}
<1>4. 0 \in Shorter
  BY <1>1, <1>3 DEF Going, Shortens
<1>5. ASSUME NEW n \in Nat, n \in Shorter PROVE n + 1 \in Shorter
  <2>1. SUFFICES ASSUME n + 1 <= Len(pipeline) PROVE Shortens(f[n + 1].text, source, c)
    OBVIOUS
  <2>2. n + 1 \in 1 .. Len(pipeline) /\ n + 1 - 1 = n /\ f[n] \in Walkings /\ f[n + 1] \in Walkings
    BY <1>1, <1>2, <2>1
  <2> DEFINE old == f[n]
             new == f[n + 1]
  <2>3. old \in Walkings /\ old.text \in Text /\ new.text \in Text
    BY <2>2 DEF Walkings
  <2>4. Shortens(old.text, source, c)
    BY <1>2, <1>5, <2>1
  <2>5. new = Stepped(pipeline, n + 1, old, target, c, depth, semantic) /\ pipeline[n + 1] \in Steps
    BY <1>1, <2>2
  <2> HIDE DEF old, new
  <2>6. Shortens(new.text, old.text, c)
    <3>1. CASE new = old
      BY <1>3, <2>3, <3>1 DEF Shortens
    <3>2. CASE new = semantic[old.text]
      BY <2>3, <3>2
    <3>3. CASE new = Going(LocalStep(pipeline[n + 1], old.text, target, c, depth))
      <4>1. new.text = LocalStep(pipeline[n + 1], old.text, target, c, depth)
        BY <3>3 DEF Going
      <4>2. QED
        BY <2>3, <2>5, <4>1, LocalStepShortens
    <3>4. QED
      BY <2>5, <3>1, <3>2, <3>3 DEF Stepped
  <2>7. /\ CountText(new.text.size, c) \in Nat /\ CountText(old.text.size, c) \in Nat
        /\ CountText(source.size, c) \in Nat
    BY <1>3, <2>3
  <2>8. Shortens(new.text, source, c)
    BY <2>4, <2>6, <2>7 DEF Shortens
  <2>9. QED
    BY <2>8 DEF new
<1> HIDE DEF Shorter
<1>6. Len(pipeline) \in Shorter
  BY <1>2, <1>4, <1>5, NatSetInduction
<1>7. QED
  BY <1>1, <1>2, <1>6 DEF Shorter

(* What the plan of a pipeline knows of the real walk: as long as nothing  *)
(* is asked the two are the same; and when the one semantic step has an    *)
(* answer, the walk goes on to the end.                                    *)
Asking == [text \in Text |-> [stop |-> "ask", text |-> text]]

LEMMA PlanForesees ==
  ASSUME NEW pipeline \in Seq(Steps), NEW source \in Text, NEW target \in Int,
         NEW c \in Counters, NEW depth \in Nat, NEW semantic \in [Text -> Walkings],
         \A i, j \in 1 .. Len(pipeline) :
           pipeline[i] = "semantic" /\ pipeline[j] = "semantic" => i = j,
         NEW plan, plan = Walk(pipeline, source, target, c, depth, Asking),
         NEW taken, taken = Walk(pipeline, source, target, c, depth, semantic)
  PROVE  /\ plan \in Walkings /\ plan.stop \in {"no", "ask"}
         /\ plan.stop = "no" => taken = plan
         /\ plan.stop = "ask" =>
              /\ ~(CountText(plan.text.size, c) <= target)
              /\ semantic[plan.text].stop = "no" => taken.stop = "no"
<1>1. Asking \in [Text -> Walkings]
  BY DEF Asking, Walkings
<1>2p. PICK f : WalksAs(f, pipeline, source, target, c, depth, Asking)
  BY <1>1, Walked
<1>2. /\ f \in [0 .. Len(pipeline) -> Walkings]
      /\ f[0] = Going(source)
      /\ \A k \in 1 .. Len(pipeline) :
           f[k] = Stepped(pipeline, k, f[k - 1], target, c, depth, Asking)
      /\ Walk(pipeline, source, target, c, depth, Asking) = f[Len(pipeline)]
  BY <1>2p DEF WalksAs
<1>3p. PICK g : WalksAs(g, pipeline, source, target, c, depth, semantic)
  BY Walked
<1>3. /\ g \in [0 .. Len(pipeline) -> Walkings]
      /\ g[0] = Going(source)
      /\ \A k \in 1 .. Len(pipeline) :
           g[k] = Stepped(pipeline, k, g[k - 1], target, c, depth, semantic)
      /\ Walk(pipeline, source, target, c, depth, semantic) = g[Len(pipeline)]
  BY <1>3p DEF WalksAs
<1>4. Len(pipeline) \in Nat
  OBVIOUS
<1> DEFINE Over(t) == ~(CountText(t.size, c) <= target)
           Alike(a, b) == a.stop = "no" /\ b = a
           Asked(n, a, b) ==
             /\ a.stop = "ask" /\ Over(a.text)
             /\ \E i \in 1 .. n : pipeline[i] = "semantic"
             /\ semantic[a.text].stop = "no" => b.stop = "no"
           Foreseen == {n \in Nat : n <= Len(pipeline) => Alike(f[n], g[n]) \/ Asked(n, f[n], g[n])}
<1>5. 0 \in Foreseen
  <2>1. f[0].stop = "no" /\ g[0] = f[0]
    BY <1>2, <1>3 DEF Going
  <2>2. Alike(f[0], g[0])
    BY <2>1
  <2> HIDE DEF Alike, Asked
  <2>3. QED
    BY <2>2
<1>6. ASSUME NEW n \in Nat, n \in Foreseen PROVE n + 1 \in Foreseen
  <2>1. SUFFICES ASSUME n + 1 <= Len(pipeline)
                 PROVE  Alike(f[n + 1], g[n + 1]) \/ Asked(n + 1, f[n + 1], g[n + 1])
    OBVIOUS
  <2>2. n + 1 \in 1 .. Len(pipeline) /\ n + 1 - 1 = n
    BY <1>4, <2>1
  <2>2m. f[n] \in Walkings /\ g[n] \in Walkings
    BY <1>2, <1>3, <1>4, <2>1
  <2> DEFINE a == f[n]
             b == g[n]
             a1 == f[n + 1]
             b1 == g[n + 1]
  <2>3. a \in Walkings /\ b \in Walkings /\ a.text \in Text
    BY <2>2m DEF Walkings
  <2>4. Alike(a, b) \/ Asked(n, a, b)
    BY <1>4, <1>6, <2>1
  <2>5. a1 = Stepped(pipeline, n + 1, a, target, c, depth, Asking)
    BY <1>2, <2>2
  <2>6. b1 = Stepped(pipeline, n + 1, b, target, c, depth, semantic)
    BY <1>3, <2>2
  <2>7. Asking[a.text] = [stop |-> "ask", text |-> a.text]
    BY <2>3 DEF Asking
  <2> HIDE DEF a, b, a1, b1
  <2> SUFFICES Alike(a1, b1) \/ Asked(n + 1, a1, b1)
    BY DEF a1, b1
  <2>8. CASE Alike(a, b) /\ ~Over(a.text)
    BY <2>5, <2>6, <2>8 DEF Stepped
  <2>9. CASE Alike(a, b) /\ Over(a.text) /\ pipeline[n + 1] = "semantic"
    <3>1. a1 = [stop |-> "ask", text |-> a.text]
      BY <2>5, <2>7, <2>9 DEF Stepped
    <3>2. b1 = semantic[a.text]
      BY <2>6, <2>9 DEF Stepped
    <3>3. n + 1 \in 1 .. n + 1
      OBVIOUS
    <3>4. a1.stop = "ask" /\ a1.text = a.text
      BY <3>1
    <3>5. QED
      BY <2>9, <3>2, <3>3, <3>4
  <2>10. CASE Alike(a, b) /\ Over(a.text) /\ pipeline[n + 1] # "semantic"
    <3>1. a1 = Going(LocalStep(pipeline[n + 1], a.text, target, c, depth)) /\ b1 = a1
      BY <2>5, <2>6, <2>10 DEF Stepped
    <3>2. QED
      BY <3>1 DEF Going
  <2>11. CASE Asked(n, a, b)
    <3>1. a1 = a
      BY <2>5, <2>11 DEF Stepped
    <3>2. pipeline[n + 1] # "semantic"
      <4>1. PICK i \in 1 .. n : pipeline[i] = "semantic"
        BY <2>11
      <4>2. i \in 1 .. Len(pipeline) /\ i # n + 1
        BY <2>2
      <4>3. QED
        BY <2>2, <4>1, <4>2
    <3>3. b.stop = "no" => b1.stop = "no"
      BY <2>6, <3>2 DEF Stepped, Going
    <3>4. \E i \in 1 .. n + 1 : pipeline[i] = "semantic"
      <4>1. PICK i \in 1 .. n : pipeline[i] = "semantic"
        BY <2>11
      <4>2. i \in 1 .. n + 1
        OBVIOUS
      <4>3. QED
        BY <4>1, <4>2
    <3>5. QED
      BY <2>11, <3>1, <3>3, <3>4
  <2>12. QED
    BY <2>4, <2>8, <2>9, <2>10, <2>11
<1> HIDE DEF Foreseen
<1>7. Len(pipeline) \in Foreseen
  BY <1>4, <1>5, <1>6, NatSetInduction
<1>8. Alike(plan, taken) \/ Asked(Len(pipeline), plan, taken)
  <2>1. plan = f[Len(pipeline)] /\ taken = g[Len(pipeline)]
    BY <1>2, <1>3
  <2>2. Len(pipeline) <= Len(pipeline)
    BY <1>4
  <2> HIDE DEF Alike, Asked
  <2>3. Alike(f[Len(pipeline)], g[Len(pipeline)])
          \/ Asked(Len(pipeline), f[Len(pipeline)], g[Len(pipeline)])
    BY <1>7, <2>2 DEF Foreseen
  <2>4. QED
    BY <2>1, <2>3
<1>9. plan \in Walkings
  BY <1>2, <1>4
<1>10. QED
  BY <1>8, <1>9

(* A host tokenizer does not look at the multiplier, so neither does what  *)
(* is decided by its counts.                                               *)
LEMMA HostSteps ==
  ASSUME NEW c \in Counters, NEW d \in Counters, c.mode = "host", d.mode = "host",
         NEW step \in Steps, NEW text \in Text, NEW target \in Int, NEW depth \in Nat
  PROVE  LocalStep(step, text, target, c, depth) = LocalStep(step, text, target, d, depth)
<1>1. \A n : CountText(n, c) = n /\ CountText(n, d) = n
  BY DEF CountText
<1>2. \A t : Fitting(t, target, c) = Fitting(t, target, d)
  BY <1>1 DEF Fitting
<1>3. Truncate(text, target, c, depth) = Truncate(text, target, d, depth)
  BY <1>2 DEF Truncate
<1>4. SelectSentences(text, target, c, depth) = SelectSentences(text, target, d, depth)
  <2> DEFINE whole(x) == {n \in Fitting(text, target, x) : n % Sentence = 0 \/ n = text.size}
             from(x, w) == IF Max({0} \cup w) = 0 THEN Truncate(text, target, x, depth)
                           ELSE Prefix(text, Max(w), depth)
  <2>1. whole(c) = whole(d)
    BY <1>2
  <2>2. /\ SelectSentences(text, target, c, depth) = from(c, whole(c))
        /\ SelectSentences(text, target, d, depth) = from(d, whole(d))
    BY DEF SelectSentences
  <2> HIDE DEF whole
  <2>3. QED
    BY <1>3, <2>1, <2>2
<1>5. CompressText(step, text, target, c, depth) = CompressText(step, text, target, d, depth)
  BY <1>3, <1>4 DEF CompressText
<1>6. \A t : Accepts(t, text, c) <=> Accepts(t, text, d)
  BY <1>1 DEF Accepts
<1>7. QED
  BY <1>5, <1>6 DEF LocalStep

LEMMA HostWalks ==
  ASSUME NEW c \in Counters, NEW d \in Counters, c.mode = "host", d.mode = "host",
         NEW pipeline \in Seq(Steps), NEW source \in Text, NEW target \in Int,
         NEW depth \in Nat, NEW semantic \in [Text -> Walkings]
  PROVE  Walk(pipeline, source, target, c, depth, semantic)
           = Walk(pipeline, source, target, d, depth, semantic)
<1>1p. PICK f : WalksAs(f, pipeline, source, target, c, depth, semantic)
  BY Walked
<1>1. /\ f \in [0 .. Len(pipeline) -> Walkings]
      /\ f[0] = Going(source)
      /\ \A k \in 1 .. Len(pipeline) :
           f[k] = Stepped(pipeline, k, f[k - 1], target, c, depth, semantic)
      /\ Walk(pipeline, source, target, c, depth, semantic) = f[Len(pipeline)]
  BY <1>1p DEF WalksAs
<1>2p. PICK g : WalksAs(g, pipeline, source, target, d, depth, semantic)
  BY Walked
<1>2. /\ g \in [0 .. Len(pipeline) -> Walkings]
      /\ g[0] = Going(source)
      /\ \A k \in 1 .. Len(pipeline) :
           g[k] = Stepped(pipeline, k, g[k - 1], target, d, depth, semantic)
      /\ Walk(pipeline, source, target, d, depth, semantic) = g[Len(pipeline)]
  BY <1>2p DEF WalksAs
<1>3. Len(pipeline) \in Nat
  OBVIOUS
<1>4. \A k \in 1 .. Len(pipeline) : \A before \in Walkings :
        Stepped(pipeline, k, before, target, c, depth, semantic)
          = Stepped(pipeline, k, before, target, d, depth, semantic)
  <2>1. SUFFICES ASSUME NEW k \in 1 .. Len(pipeline), NEW before \in Walkings
                 PROVE  Stepped(pipeline, k, before, target, c, depth, semantic)
                          = Stepped(pipeline, k, before, target, d, depth, semantic)
    OBVIOUS
  <2>2. CountText(before.text.size, c) = CountText(before.text.size, d)
    BY DEF CountText
  <2>3. pipeline[k] \in Steps /\ before.text \in Text
    BY DEF Walkings
  <2>4. LocalStep(pipeline[k], before.text, target, c, depth)
          = LocalStep(pipeline[k], before.text, target, d, depth)
    BY <2>3, HostSteps
  <2>5. QED
    BY <2>2, <2>4 DEF Stepped
<1> DEFINE Same == {n \in Nat : n <= Len(pipeline) => f[n] = g[n]}
<1>5. 0 \in Same
  BY <1>1, <1>2
<1>6. ASSUME NEW n \in Nat, n \in Same PROVE n + 1 \in Same
  <2>1. SUFFICES ASSUME n + 1 <= Len(pipeline) PROVE f[n + 1] = g[n + 1]
    OBVIOUS
  <2>2. n + 1 \in 1 .. Len(pipeline) /\ n + 1 - 1 = n
    BY <1>3, <2>1
  <2>3. f[n] = g[n] /\ f[n] \in Walkings
    BY <1>1, <1>3, <1>6, <2>1
  <2>4. f[n + 1] = Stepped(pipeline, n + 1, f[n], target, c, depth, semantic)
    BY <1>1, <2>2
  <2>5. g[n + 1] = Stepped(pipeline, n + 1, g[n], target, d, depth, semantic)
    BY <1>2, <2>2
  <2>6. QED
    BY <1>4, <2>2, <2>3, <2>4, <2>5
<1> HIDE DEF Same
<1>7. Len(pipeline) \in Same
  BY <1>3, <1>5, <1>6, NatSetInduction
<1>8. QED
  BY <1>1, <1>2, <1>3, <1>7 DEF Same

-----------------------------------------------------------------------------
(* One module of a request.                                                *)

Asks == [module : Modules, provider : STRING, target : Int, text : Text]
Told == [told : Asks, content : Text]

Requested == request \in Request /\ granted \in [Multipliers -> Grants]

(* The types of what is computed for a module.                             *)
LEMMA ModuleTypes ==
  ASSUME Requested, NEW m \in Modules, NEW x \in Multipliers
  PROVE  /\ Counting(x) \in Counters /\ Source(m) \in Text
         /\ request.size[m] \in Nat /\ request.depth[m] \in Nat
         /\ PinnedTokens(m, x) \in Nat /\ granted[x][m] \in Nat /\ Target(m, x) \in Int
         /\ Pipelines[m] \in Seq(Steps) /\ Providers[m] \in Seq(STRING) /\ Providers[m] # <<>>
<1>1. x \in Nat /\ request.mode \in Modes
  BY TwoPhaseAssumption DEF Requested, Request
<1>2. Counting(x) \in Counters
  BY <1>1 DEF Counting, Counters
<1>3. request.size[m] \in Nat /\ request.depth[m] \in Nat /\ request.pinned[m] \in Nat
  BY DEF Requested, Request
<1>4. Source(m) \in Text
  BY <1>3 DEF Source, Text
<1>5. PinnedTokens(m, x) \in Nat
  BY <1>2, <1>3, CountTextNat DEF PinnedTokens
<1>6. granted[x] \in [Modules -> Nat]
  BY TwoPhaseAssumption DEF Requested
<1>7. granted[x][m] \in Nat
  BY <1>6
<1>8. Target(m, x) \in Int
  BY <1>5, <1>7 DEF Target
<1>9. Pipelines[m] \in Seq(Steps)
  BY TwoPhaseAssumption DEF Modules
<1>10. Providers[m] \in Seq(STRING) \ {<<>>}
  BY TwoPhaseAssumption
<1>11. QED
  BY <1>2, <1>3, <1>4, <1>5, <1>7, <1>8, <1>9, <1>10

(* A pipeline has one semantic step at most.                               *)
LEMMA OneSemanticStep ==
  ASSUME NEW m \in Modules,
         NEW i \in 1 .. Len(Pipelines[m]), NEW j \in 1 .. Len(Pipelines[m]),
         Pipelines[m][i] = "semantic", Pipelines[m][j] = "semantic"
  PROVE  i = j
<1> DEFINE K == {k \in DOMAIN Pipelines[m] : Pipelines[m][k] = "semantic"}
<1>1. Pipelines[m] \in Seq(Steps)
  BY TwoPhaseAssumption DEF Modules
<1>2. DOMAIN Pipelines[m] = 1 .. Len(Pipelines[m]) /\ Len(Pipelines[m]) \in Nat
  BY <1>1
<1>3. i \in K /\ j \in K
  BY <1>2
<1>4. K \subseteq 1 .. Len(Pipelines[m])
  BY <1>2
<1>5. IsFiniteSet(1 .. Len(Pipelines[m]))
  BY <1>2, FS_Interval
<1>6. Cardinality(K) <= 1
  BY TwoPhaseAssumption
<1> HIDE DEF K
<1>7. IsFiniteSet(K) /\ Cardinality(K) \in Nat
  BY <1>4, <1>5, FS_Subset, FS_CardinalityType
<1>8. Cardinality(K) # 0
  BY <1>3, <1>7, FS_EmptySet
<1>9. Cardinality(K) = 1
  BY <1>6, <1>7, <1>8
<1>10. \E y : K = {y}
  BY <1>7, <1>9, FS_Singleton
<1>11. QED
  BY <1>3, <1>10

(* An answer that is considered was asked for.                             *)
LEMMA CandidateShape ==
  ASSUME NEW m, NEW x, NEW text, NEW answers,
         NEW a \in Candidates(m, x, text, answers)
  PROVE  /\ a \in answers /\ a.told \in SemanticRequests(m, x, text)
         /\ Accepts(a.content, text, Counting(x))
BY DEF Candidates, Fingerprint

(* A candidate has a place among the providers.                            *)
LEMMA RankNat ==
  ASSUME Requested, NEW m \in Modules, NEW x \in Multipliers, NEW text,
         NEW a, a.told \in SemanticRequests(m, x, text)
  PROVE  Rank(m, a) \in Nat
<1>1. /\ Providers[m] \in Seq(STRING)
      /\ DOMAIN Providers[m] = 1 .. Len(Providers[m]) /\ Len(Providers[m]) \in Nat
  BY ModuleTypes
<1>2. a.told.provider \in Range(Providers[m])
  BY DEF SemanticRequests
<1> DEFINE K == {k \in DOMAIN Providers[m] : Providers[m][k] = a.told.provider}
<1>3. \A k \in DOMAIN Providers[m] : k \in Nat
  BY <1>1
<1>4. K \in SUBSET Nat
  BY <1>3
<1>5. PICK n \in K : TRUE
  BY <1>2 DEF Range
<1>6. PICK k \in K : \A j \in K : k <= j
  BY <1>4, <1>5, LeastNat
<1>7. \A j \in 1 .. k - 1 : Providers[m][j] # a.told.provider
  <2>1. SUFFICES ASSUME NEW j \in 1 .. k - 1, Providers[m][j] = a.told.provider PROVE FALSE
    OBVIOUS
  <2>2. k \in 1 .. Len(Providers[m])
    BY <1>1
  <2>3. j \in DOMAIN Providers[m] /\ ~(k <= j)
    BY <1>1, <2>2
  <2>4. QED
    BY <1>6, <2>1, <2>3
<1>8. \E l \in DOMAIN Providers[m] :
        /\ Providers[m][l] = a.told.provider
        /\ \A j \in 1 .. l - 1 : Providers[m][j] # a.told.provider
  BY <1>7
<1>9. Rank(m, a) \in DOMAIN Providers[m]
  BY <1>8 DEF Rank
<1>10. QED
  BY <1>3, <1>9

(* The best of the candidates exists.                                      *)
LEMMA BestIsCandidate ==
  ASSUME Requested, NEW m \in Modules, NEW x \in Multipliers, NEW text,
         NEW answers \in SUBSET Told, NEW candidates,
         candidates = Candidates(m, x, text, answers), candidates # {}
  PROVE  Best(m, x, candidates) \in candidates
<1> DEFINE tokens(a) == CountText(a.content.size, Counting(x))
           Sizes == {tokens(a) : a \in candidates}
<1>1. \A a \in candidates : tokens(a) \in Nat
  <2>1. SUFFICES ASSUME NEW a \in candidates PROVE tokens(a) \in Nat
    OBVIOUS
  <2>2. a \in Told
    BY CandidateShape
  <2>3. a.content.size \in Nat
    BY <2>2 DEF Told, Text
  <2>4. QED
    BY <2>3, ModuleTypes, CountTextNat
<1>2. \A a \in candidates : Rank(m, a) \in Nat
  BY CandidateShape, RankNat
<1> HIDE DEF tokens
<1>3. Sizes \in SUBSET Nat
  BY <1>1
<1>4. PICK s \in Sizes : TRUE
  OBVIOUS
<1>5. PICK least \in Sizes : \A t \in Sizes : least <= t
  BY <1>3, <1>4, LeastNat
<1> DEFINE Places == {Rank(m, a) : a \in {b \in candidates : tokens(b) = least}}
<1>6. Places \in SUBSET Nat
  BY <1>2
<1>7. PICK r \in Places : TRUE
  OBVIOUS
<1>8. PICK first \in Places : \A t \in Places : first <= t
  BY <1>6, <1>7, LeastNat
<1>9. PICK a \in candidates : tokens(a) = least /\ Rank(m, a) = first
  BY <1>8
<1>10. \A b \in candidates :
         \/ tokens(a) < tokens(b)
         \/ tokens(a) = tokens(b) /\ Rank(m, a) <= Rank(m, b)
  <2>1. SUFFICES ASSUME NEW b \in candidates
                 PROVE  \/ tokens(a) < tokens(b)
                        \/ tokens(a) = tokens(b) /\ Rank(m, a) <= Rank(m, b)
    OBVIOUS
  <2>2. tokens(a) <= tokens(b) /\ tokens(a) \in Nat /\ tokens(b) \in Nat
    BY <1>1, <1>5, <1>9
  <2>3. tokens(a) = tokens(b) => Rank(m, a) <= Rank(m, b)
    BY <1>8, <1>9
  <2>4. QED
    BY <2>2, <2>3
<1>11. QED
  BY <1>10 DEF Best, tokens

(* What a semantic step of module m does with the answers of a call.       *)
Answering(m, x, answers) ==
  [text \in Text |->
    LET candidates == Candidates(m, x, text, answers)
    IN IF candidates = {} THEN [stop |-> "failed", text |-> text]
       ELSE Going(Best(m, x, candidates).content)]

(* Neither does a semantic step, with any answers.                         *)
LEMMA AnsweringShortens ==
  ASSUME Requested, NEW m \in Modules, NEW x \in Multipliers, NEW answers \in SUBSET Told
  PROVE  /\ Answering(m, x, answers) \in [Text -> Walkings]
         /\ \A text \in Text :
              /\ Shortens(Answering(m, x, answers)[text].text, text, Counting(x))
              /\ Candidates(m, x, text, answers) # {}
                   => Answering(m, x, answers)[text].stop = "no"
<1> DEFINE made(text) == IF Candidates(m, x, text, answers) = {} THEN [stop |-> "failed", text |-> text]
                         ELSE Going(Best(m, x, Candidates(m, x, text, answers)).content)
<1>1. ASSUME NEW text \in Text
      PROVE  /\ made(text) \in Walkings
             /\ Shortens(made(text).text, text, Counting(x))
             /\ Candidates(m, x, text, answers) # {} => made(text).stop = "no"
  <2>1. CASE Candidates(m, x, text, answers) = {}
    <3>1. made(text) = [stop |-> "failed", text |-> text]
      BY <2>1
    <3>2. CountText(text.size, Counting(x)) \in Nat
      BY ModuleTypes, CountTextNat DEF Text
    <3> HIDE DEF made
    <3>3. made(text) \in Walkings /\ made(text).text = text
      BY <3>1 DEF Walkings
    <3>4. Shortens(text, text, Counting(x))
      BY <3>2 DEF Shortens
    <3>5. QED
      BY <2>1, <3>3, <3>4
  <2>2. CASE Candidates(m, x, text, answers) # {}
    <3> DEFINE candidates == Candidates(m, x, text, answers)
               best == Best(m, x, candidates)
    <3>1. candidates # {} /\ made(text) = Going(best.content)
      BY <2>2
    <3> HIDE DEF made, candidates
    <3>2. best \in candidates
      BY <3>1, BestIsCandidate DEF candidates
    <3> HIDE DEF best
    <3>3. best \in answers /\ Accepts(best.content, text, Counting(x))
      BY <3>2, CandidateShape DEF candidates
    <3>4. best.content \in Text
      BY <3>3 DEF Told
    <3>5. made(text).text = best.content /\ made(text).stop = "no" /\ made(text) \in Walkings
      BY <3>1, <3>4 DEF Going, Walkings
    <3>6. Shortens(best.content, text, Counting(x))
      BY <3>3 DEF Accepts, Shortens
    <3>7. QED
      BY <3>5, <3>6
  <2>3. QED
    BY <2>1, <2>2
<1>2. Answering(m, x, answers) = [text \in Text |-> made(text)]
  BY DEF Answering
<1> HIDE DEF made
<1>3. QED
  BY <1>1, <1>2

(* Nor, therefore, the pipeline of a module.                               *)
LEMMA ReclaimedShortens ==
  ASSUME Requested, NEW m \in Modules, NEW x \in Multipliers, NEW answers \in SUBSET Told
  PROVE  /\ Reclaimed(m, x, answers) \in Walkings
         /\ Shortens(Reclaimed(m, x, answers).text, Source(m), Counting(x))
<1> DEFINE walk == Walk(Pipelines[m], Source(m), Target(m, x), Counting(x), request.depth[m],
                        Answering(m, x, answers))
<1>1. Reclaimed(m, x, answers) = IF Reclaims(m, x) THEN walk ELSE Going(Source(m))
  BY DEF Reclaimed, WalkOf, Answering
<1>2. walk \in Walkings /\ Shortens(walk.text, Source(m), Counting(x))
  BY ModuleTypes, AnsweringShortens, WalkShortens
<1>3. Source(m) \in Text /\ CountText(Source(m).size, Counting(x)) \in Nat
  BY ModuleTypes, CountTextNat DEF Text
<1>4. Going(Source(m)) \in Walkings /\ Going(Source(m)).text = Source(m)
  BY <1>3 DEF Going, Walkings
<1>5. Shortens(Source(m), Source(m), Counting(x))
  BY <1>3 DEF Shortens
<1> HIDE DEF walk
<1>6. QED
  BY <1>1, <1>2, <1>4, <1>5

(* The plan of a module and what its commit computes.                      *)
LEMMA PlanShape ==
  ASSUME Requested, NEW m \in Modules, NEW x \in Multipliers, NEW answers \in SUBSET Told
  PROVE  /\ Plan(m, x) \in Walkings
         /\ Plan(m, x).stop # "ask" => Reclaimed(m, x, answers).stop = "no"
         /\ Plan(m, x).stop = "ask" =>
              /\ Reclaims(m, x)
              /\ ~(CountText(Plan(m, x).text.size, Counting(x)) <= Target(m, x))
              /\ Candidates(m, x, Plan(m, x).text, answers) # {}
                   => Reclaimed(m, x, answers).stop = "no"
<1> DEFINE plan == Walk(Pipelines[m], Source(m), Target(m, x), Counting(x), request.depth[m], Asking)
           taken == Walk(Pipelines[m], Source(m), Target(m, x), Counting(x), request.depth[m],
                         Answering(m, x, answers))
<1>1. Reclaimed(m, x, answers) = IF Reclaims(m, x) THEN taken ELSE Going(Source(m))
  BY DEF Reclaimed, WalkOf, Answering
<1>2. Plan(m, x) = IF Reclaims(m, x) THEN plan ELSE Going(Source(m))
  BY DEF Plan, WalkOf, Asking
<1>3. /\ Source(m) \in Text /\ Counting(x) \in Counters /\ Target(m, x) \in Int
      /\ request.depth[m] \in Nat /\ Pipelines[m] \in Seq(Steps)
  BY ModuleTypes
<1>4. Going(Source(m)) \in Walkings /\ Going(Source(m)).stop = "no"
  BY <1>3 DEF Going, Walkings
<1>5. Answering(m, x, answers) \in [Text -> Walkings]
  BY AnsweringShortens
<1>6. \A i, j \in 1 .. Len(Pipelines[m]) :
        Pipelines[m][i] = "semantic" /\ Pipelines[m][j] = "semantic" => i = j
  BY OneSemanticStep
<1>7. /\ plan \in Walkings /\ plan.stop \in {"no", "ask"}
      /\ plan.stop = "no" => taken = plan
      /\ plan.stop = "ask" =>
           /\ ~(CountText(plan.text.size, Counting(x)) <= Target(m, x))
           /\ Answering(m, x, answers)[plan.text].stop = "no" => taken.stop = "no"
  <2> DEFINE answering == Answering(m, x, answers)
             p == Pipelines[m]
             s == Source(m)
             t == Target(m, x)
             c == Counting(x)
             d == request.depth[m]
  <2>1. /\ plan = Walk(p, s, t, c, d, Asking)
        /\ taken = Walk(p, s, t, c, d, answering)
    OBVIOUS
  <2>2. /\ s \in Text /\ c \in Counters /\ t \in Int /\ d \in Nat /\ p \in Seq(Steps)
        /\ answering \in [Text -> Walkings]
        /\ \A i, j \in 1 .. Len(p) : p[i] = "semantic" /\ p[j] = "semantic" => i = j
    BY <1>3, <1>5, <1>6
  <2> HIDE DEF plan, taken, answering, p, s, t, c, d
  <2>3. /\ plan \in Walkings /\ plan.stop \in {"no", "ask"}
        /\ plan.stop = "no" => taken = plan
        /\ plan.stop = "ask" =>
             /\ ~(CountText(plan.text.size, c) <= t)
             /\ answering[plan.text].stop = "no" => taken.stop = "no"
    BY <2>1, <2>2, PlanForesees
  <2>4. QED
    BY <2>3 DEF answering, t, c
<1> HIDE DEF plan, taken
<1>8. plan.text \in Text
  BY <1>7 DEF Walkings
<1>9. Candidates(m, x, plan.text, answers) # {} => Answering(m, x, answers)[plan.text].stop = "no"
  BY <1>8, AnsweringShortens
<1>10. CASE Reclaims(m, x)
  BY <1>1, <1>2, <1>7, <1>9, <1>10
<1>11. CASE ~Reclaims(m, x)
  BY <1>1, <1>2, <1>4, <1>11
<1>12. QED
  BY <1>10, <1>11

(* Under a host tokenizer, plans do not depend on the multiplier.          *)
HostGrants == request.mode = "host" => \A x, y \in Multipliers : granted[x] = granted[y]

(* Nor do the requests that are planned.                                   *)
LEMMA HostPlans ==
  ASSUME Requested, HostGrants, request.mode = "host",
         NEW x \in Multipliers, NEW y \in Multipliers
  PROVE  PlanRefused(x) = PlanRefused(y) /\ Planned(x) = Planned(y)
<1>1. \A n : CountText(n, Counting(x)) = n /\ CountText(n, Counting(y)) = n
  BY DEF CountText, Counting
<1>2. granted[x] = granted[y]
  BY DEF HostGrants
<1>3. \A m \in Modules : /\ Target(m, x) = Target(m, y) /\ Reclaims(m, x) = Reclaims(m, y)
  BY <1>1, <1>2 DEF Target, Reclaims, Before, PinnedTokens
<1>4. \A m \in Modules : PinnedExceeds(m, x) = PinnedExceeds(m, y)
  BY <1>3 DEF PinnedExceeds
<1>5. Asking \in [Text -> Walkings]
  BY DEF Asking, Walkings
<1>6. ASSUME NEW m \in Modules PROVE Plan(m, x) = Plan(m, y)
  <2>1. /\ Source(m) \in Text /\ Counting(x) \in Counters /\ Counting(y) \in Counters
        /\ Target(m, x) \in Int /\ request.depth[m] \in Nat /\ Pipelines[m] \in Seq(Steps)
    BY ModuleTypes
  <2>2. Counting(x).mode = "host" /\ Counting(y).mode = "host"
    BY DEF Counting
  <2>3. Walk(Pipelines[m], Source(m), Target(m, x), Counting(x), request.depth[m], Asking)
          = Walk(Pipelines[m], Source(m), Target(m, x), Counting(y), request.depth[m], Asking)
    BY <1>5, <2>1, <2>2, HostWalks
  <2>4. QED
    BY <1>3, <2>3 DEF Plan, WalkOf, Asking
<1>7. PlanRefused(x) = PlanRefused(y)
  BY <1>4 DEF PlanRefused
<1>8. {n \in Modules : Plan(n, x).stop = "ask"} = {n \in Modules : Plan(n, y).stop = "ask"}
  BY <1>6
<1>9. \A m \in Modules : SemanticRequests(m, x, Plan(m, x).text) = SemanticRequests(m, y, Plan(m, y).text)
  BY <1>3, <1>6 DEF SemanticRequests
<1>10. Planned(x) = Planned(y)
  BY <1>8, <1>9 DEF Planned
<1>11. QED
  BY <1>7, <1>10

-----------------------------------------------------------------------------
(* The inductive invariant.                                                *)

Types ==
  /\ request \in Request /\ granted \in [Multipliers -> Grants]
  /\ multiplier \in Multipliers /\ at \in Multipliers
  /\ pc \in {"idle", "asked", "planned", "done"} /\ quiet \in BOOLEAN
  /\ asked \in SUBSET Asks /\ held \in SUBSET Told /\ results \in SUBSET Told

(* The context of a committed prepare is that of its multiplier and its    *)
(* answers, and nothing that happens afterwards changes it.                *)
PreparedAsComputed ==
  outcome = "committed" =>
    \A m \in Modules :
      /\ Verdict(m, at, results) = "fits"
      /\ final[m] = Reclaimed(m, at, results).text
      /\ chosen[m] = ChosenOf(m, at, results)

AskedToShorten == \A r \in asked : r.target >= 0

(* As long as no report interferes, what was asked is what is planned.     *)
PlanKept ==
  pc \in {"asked", "planned"} /\ quiet =>
    ~PlanRefused(multiplier) /\ asked = Planned(multiplier)

Inv ==
  /\ Types /\ HostGrants /\ PreparedAsComputed /\ AskedToShorten /\ PlanKept
  /\ QuietCommitAccepted

(* What is planned is what some module asks for.                           *)
LEMMA PlannedShape ==
  ASSUME Requested, NEW x \in Multipliers, NEW r \in Planned(x)
  PROVE  /\ r \in Asks
         /\ \E m \in Modules :
              /\ Plan(m, x).stop = "ask" /\ r \in SemanticRequests(m, x, Plan(m, x).text)
              /\ r.module = m /\ r.target = Target(m, x) /\ r.text = Plan(m, x).text
<1>1. PICK m \in Modules : Plan(m, x).stop = "ask" /\ r \in SemanticRequests(m, x, Plan(m, x).text)
  BY DEF Planned
<1>2. PICK p \in Range(Providers[m]) :
        r = [module |-> m, provider |-> p, target |-> Target(m, x), text |-> Plan(m, x).text]
  BY <1>1 DEF SemanticRequests
<1>3. Plan(m, x) \in Walkings
  BY PlanShape
<1>4. Plan(m, x).text \in Text /\ Target(m, x) \in Int
  BY <1>3, ModuleTypes DEF Walkings
<1>5. p \in STRING
  <2>1. Providers[m] \in Seq(STRING)
    BY ModuleTypes
  <2>2. QED
    BY <2>1 DEF Range
<1>6. r \in Asks
  BY <1>2, <1>4, <1>5 DEF Asks
<1>7. r.module = m /\ r.target = Target(m, x) /\ r.text = Plan(m, x).text
  BY <1>2
<1>8. QED
  BY <1>1, <1>6, <1>7

(* Nobody is asked to shorten a text to less than nothing.                 *)
LEMMA PlannedToShorten ==
  ASSUME Requested, NEW x \in Multipliers, ~PlanRefused(x), NEW r \in Planned(x)
  PROVE  r.target >= 0
<1>1. PICK m \in Modules : Plan(m, x).stop = "ask" /\ r.target = Target(m, x)
  BY PlannedShape
<1>2. Reclaims(m, x) /\ Target(m, x) \in Int
  <2>1. {} \in SUBSET Told
    OBVIOUS
  <2>2. QED
    BY <1>1, <2>1, PlanShape, ModuleTypes
<1>3. ~PinnedExceeds(m, x)
  BY DEF PlanRefused
<1>4. QED
  BY <1>1, <1>2, <1>3 DEF PinnedExceeds

(* The invariant holds initially.                                          *)
LEMMA InitInv == Init => Inv
<1> SUFFICES ASSUME Init PROVE Inv
  OBVIOUS
<1>1. Types
  BY TwoPhaseAssumption DEF Init, Types
<1>2. HostGrants /\ PreparedAsComputed /\ AskedToShorten /\ PlanKept /\ QuietCommitAccepted
  BY DEF Init, HostGrants, PreparedAsComputed, AskedToShorten, PlanKept, QuietCommitAccepted
<1>3. QED
  BY <1>1, <1>2 DEF Inv

(* Every step keeps the types.                                             *)
LEMMA TypesStep ==
  ASSUME Inv, [Next]_vars
  PROVE  Types'
<1> USE DEF Inv, Types
<1>1. CASE UNCHANGED vars
  BY <1>1 DEF vars
<1>2. CASE Begin
  <2>1. Planned(multiplier) \in SUBSET Asks
    BY PlannedShape DEF Requested
  <2>2. Unit \in Multipliers
    BY TwoPhaseAssumption
  <2>3. asked' \in SUBSET Asks
    BY <1>2, <2>1 DEF Begin
  <2>4. QED
    BY <1>2, <2>2, <2>3 DEF Begin
<1>3. CASE Prepare
  BY <1>3 DEF Prepare
<1>4. ASSUME NEW r \in asked, NEW content \in Answers, Answer(r, content) PROVE Types'
  <2>1. content \in Text
    BY TwoPhaseAssumption
  <2>2. [told |-> r, content |-> content] \in Told
    BY <2>1 DEF Told
  <2>3. held' \in SUBSET Told
    BY <1>4, <2>2 DEF Answer
  <2>4. QED
    BY <1>4, <2>3 DEF Answer
<1>5. ASSUME NEW answers \in SUBSET held, Submit(answers) PROVE Types'
  BY <1>5 DEF Submit
<1>6. ASSUME NEW x \in Multipliers, Report(x) PROVE Types'
  BY <1>6 DEF Report
<1>7. QED
  BY <1>1, <1>2, <1>3, <1>4, <1>5, <1>6 DEF Next

(* The request and the grants never change.                                *)
LEMMA RequestKept ==
  ASSUME [Next]_vars
  PROVE  UNCHANGED <<request, granted>>
BY DEF Next, vars, Begin, Prepare, Answer, Submit, Report

(* Only Prepare makes a committed context, and nothing changes it until    *)
(* the next prepare_begin.                                                 *)
LEMMA PreparedStep ==
  ASSUME Inv, [Next]_vars
  PROVE  PreparedAsComputed'
<1> SUFFICES ASSUME outcome' = "committed", NEW m \in Modules
             PROVE  /\ Verdict(m, at, results)' = "fits"
                    /\ final'[m] = Reclaimed(m, at, results)'.text
                    /\ chosen'[m] = ChosenOf(m, at, results)'
  BY DEF PreparedAsComputed
<1>1. UNCHANGED <<request, granted>>
  BY RequestKept
<1>2. /\ Verdict(m, at, results)' = Verdict(m, at', results')
      /\ Reclaimed(m, at, results)' = Reclaimed(m, at', results')
      /\ ChosenOf(m, at, results)' = ChosenOf(m, at', results')
  BY <1>1 DEF Verdict, Reclaimed, ChosenOf, MeetsTarget, Plan, WalkOf, Candidates, Best, Rank,
              SemanticRequests, PinnedExceeds, Reclaims, Before, Target, PinnedTokens, Counting,
              Source
<1>3. CASE UNCHANGED <<outcome, at, results, final, chosen>>
  <2>1. /\ Verdict(m, at, results) = "fits"
        /\ final[m] = Reclaimed(m, at, results).text
        /\ chosen[m] = ChosenOf(m, at, results)
    BY <1>3 DEF Inv, PreparedAsComputed
  <2>2. QED
    BY <1>2, <1>3, <2>1
<1>4. CASE Begin
  BY <1>4 DEF Begin
<1>5. CASE Prepare
  <2>1. at' = multiplier /\ results' = results /\ PrepareOutcome(multiplier, results) = "committed"
        /\ final' = [n \in Modules |-> Reclaimed(n, multiplier, results).text]
        /\ chosen' = [n \in Modules |-> ChosenOf(n, multiplier, results)]
    BY <1>5 DEF Prepare
  <2>2. Verdict(m, multiplier, results) = "fits"
    <3> DEFINE refused == {n \in Modules : Verdict(n, multiplier, results) # "fits"}
    <3>1. \A n \in Modules : Verdict(n, multiplier, results) # "committed"
      BY DEF Verdict
    <3>2. refused # {} => Min(refused) \in refused
      <4>1. refused \in SUBSET Nat
        <5>1. Modules \subseteq Nat
          BY TwoPhaseAssumption DEF Modules
        <5>2. QED
          BY <5>1
      <4> HIDE DEF refused
      <4>2. QED
        BY <4>1, MinIsLeast
    <3>3. PrepareOutcome(multiplier, results)
            = IF refused = {} THEN "committed" ELSE Verdict(Min(refused), multiplier, results)
      BY DEF PrepareOutcome
    <3>4. refused = {}
      BY <2>1, <3>1, <3>2, <3>3
    <3>5. QED
      BY <3>4
  <2>3. QED
    BY <1>2, <2>1, <2>2
<1>6. ASSUME NEW answers \in SUBSET held, Submit(answers) PROVE FALSE
  BY <1>6 DEF Submit
<1>7. ASSUME NEW r \in asked, NEW content \in Answers, Answer(r, content)
      PROVE  UNCHANGED <<outcome, at, results, final, chosen>>
  BY <1>7 DEF Answer
<1>8. ASSUME NEW x \in Multipliers, Report(x)
      PROVE  UNCHANGED <<outcome, at, results, final, chosen>>
  BY <1>8 DEF Report
<1>9. CASE UNCHANGED vars
  BY <1>3, <1>9 DEF vars
<1>10. QED
  BY <1>3, <1>4, <1>5, <1>6, <1>7, <1>8, <1>9 DEF Next

(* What was planned, in the next state.                                    *)
LEMMA PlannedNext ==
  ASSUME UNCHANGED <<request, granted>>
  PROVE  PlanRefused(multiplier)' = PlanRefused(multiplier') /\ Planned(multiplier)' = Planned(multiplier')
BY DEF PlanRefused, Planned, Plan, WalkOf, SemanticRequests, PinnedExceeds, Reclaims, Before,
       Target, PinnedTokens, Counting, Source

(* Only a report changes the plan, unless a host tokenizer counts.         *)
LEMMA PlanStep ==
  ASSUME Inv, [Next]_vars
  PROVE  PlanKept' /\ AskedToShorten' /\ HostGrants'
<1>1. UNCHANGED <<request, granted>>
  BY RequestKept
<1>2. HostGrants'
  BY <1>1 DEF Inv, HostGrants
<1>3. Requested /\ multiplier \in Multipliers
  BY DEF Inv, Types, Requested
<1>4. ASSUME pc' \in {"asked", "planned"}, quiet'
      PROVE  ~PlanRefused(multiplier') /\ asked' = Planned(multiplier')
  <2>1. CASE UNCHANGED <<multiplier, asked, quiet>> /\ pc \in {"asked", "planned"}
    BY <1>4, <2>1 DEF Inv, PlanKept
  <2>2. CASE Begin
    BY <1>4, <2>2 DEF Begin
  <2>3. CASE Prepare
    BY <1>4, <2>3 DEF Prepare
  <2>4. ASSUME NEW answers \in SUBSET held, Submit(answers)
        PROVE  UNCHANGED <<multiplier, asked, quiet>> /\ pc \in {"asked", "planned"}
    BY <2>4 DEF Submit
  <2>5. ASSUME NEW r \in asked, NEW content \in Answers, Answer(r, content)
        PROVE  UNCHANGED <<multiplier, asked, quiet>> /\ pc \in {"asked", "planned"}
    BY <2>5 DEF Answer
  <2>6. ASSUME NEW x \in Multipliers, Report(x)
        PROVE  ~PlanRefused(multiplier') /\ asked' = Planned(multiplier')
    <3>1. /\ multiplier' = x /\ request.mode = "host" /\ quiet /\ pc' = pc /\ asked' = asked
      BY <1>4, <2>6 DEF Report, Inv, Types
    <3>2. ~PlanRefused(multiplier) /\ asked = Planned(multiplier)
      BY <1>4, <3>1 DEF Inv, PlanKept
    <3>3. PlanRefused(x) = PlanRefused(multiplier) /\ Planned(x) = Planned(multiplier)
      BY <1>3, <3>1, HostPlans DEF Inv
    <3>4. QED
      BY <3>1, <3>2, <3>3
  <2>7. CASE UNCHANGED vars
    BY <1>4, <2>1, <2>7 DEF vars
  <2>8. QED
    BY <2>1, <2>2, <2>3, <2>4, <2>5, <2>6, <2>7 DEF Next
<1>5. PlanKept'
  BY <1>1, <1>4, PlannedNext DEF PlanKept
<1>6. AskedToShorten'
  <2>1. CASE Begin
    <3>1. asked' = {} \/ (~PlanRefused(multiplier) /\ asked' = Planned(multiplier))
      BY <2>1 DEF Begin
    <3>2. QED
      BY <1>3, <3>1, PlannedToShorten DEF AskedToShorten
  <2>2. CASE asked' = asked
    BY <2>2 DEF Inv, AskedToShorten
  <2>3. QED
    BY <2>1, <2>2 DEF Next, vars, Prepare, Answer, Submit, Report
<1>7. QED
  BY <1>2, <1>5, <1>6

(* A host that answers what it was asked gives each module that needs an   *)
(* answer one that is taken.                                               *)
LEMMA AnswerTaken ==
  ASSUME Requested, multiplier \in Multipliers, results \in SUBSET Told,
         asked = Planned(multiplier), Complete(results),
         NEW m \in Modules, Plan(m, multiplier).stop = "ask"
  PROVE  Candidates(m, multiplier, Plan(m, multiplier).text, results) # {}
<1> DEFINE x == multiplier
           text == Plan(m, x).text
<1>1. PICK p \in Range(Providers[m]) : TRUE
  <2>1. Providers[m] \in Seq(STRING) /\ Providers[m] # <<>>
    BY ModuleTypes
  <2>2. 1 \in DOMAIN Providers[m]
    BY <2>1
  <2>3. QED
    BY <2>2 DEF Range
<1> DEFINE r == [module |-> m, provider |-> p, target |-> Target(m, x), text |-> text]
<1>2. r \in asked
  BY DEF SemanticRequests, Planned
<1>3. PICK a \in results : a.told.module = m /\ Solves(a, a.told)
  BY <1>2 DEF Complete
<1>4. a.told \in asked
  BY DEF Complete
<1>5. a.told \in SemanticRequests(m, x, text) /\ a.told.target = Target(m, x)
  BY <1>3, <1>4, PlannedShape
<1>6. /\ a.content.size > 0 /\ a.content.kept
      /\ CountText(a.content.size, Counting(x)) <= Target(m, x)
  BY <1>3, <1>5 DEF Solves
<1>7. a.content.size \in Nat
  BY DEF Told, Text
<1>8. {} \in SUBSET Told
  OBVIOUS
<1>9. ~(CountText(text.size, Counting(x)) <= Target(m, x)) /\ text \in Text
  BY <1>8, PlanShape DEF Walkings
<1>10. /\ CountText(a.content.size, Counting(x)) \in Nat
       /\ CountText(text.size, Counting(x)) \in Nat /\ Target(m, x) \in Int
  BY <1>7, <1>9, ModuleTypes, CountTextNat DEF Text
<1>11. Accepts(a.content, text, Counting(x))
  BY <1>6, <1>9, <1>10 DEF Accepts
<1>12. a \in Candidates(m, x, text, results)
  BY <1>5, <1>6, <1>11 DEF Candidates, Fingerprint
<1>13. QED
  BY <1>12

(* Each way to end a call, without a report since its beginning.           *)
LEMMA QuietStep ==
  ASSUME Inv, [Next]_vars
  PROVE  QuietCommitAccepted'
<1> SUFFICES ASSUME pc' = "done", quiet', Complete(results)'
             PROVE  outcome' \notin {"pinned", "duplicate", "unexpected", "semantic"}
  BY DEF QuietCommitAccepted
<1>1. UNCHANGED <<request, granted>>
  BY RequestKept
<1>2. Requested /\ multiplier \in Multipliers /\ results \in SUBSET Told
  BY DEF Inv, Types, Requested
<1>3. CASE UNCHANGED vars
  <2>1. Complete(results)
    BY <1>3 DEF Complete, Solves, Duplicates, Counting, vars
  <2>2. QED
    BY <1>3, <2>1 DEF Inv, QuietCommitAccepted, vars
<1>4. CASE Begin
  BY <1>4 DEF Begin
<1>5. CASE Prepare
  <2>1. /\ pc = "planned" /\ quiet /\ outcome' = PrepareOutcome(multiplier, results)
        /\ UNCHANGED <<multiplier, asked, results>>
    BY <1>5 DEF Prepare
  <2>2. Complete(results)
    BY <1>1, <2>1 DEF Complete, Solves, Duplicates, Counting
  <2>3. ~PlanRefused(multiplier) /\ asked = Planned(multiplier)
    BY <2>1 DEF Inv, PlanKept
  <2>4. ASSUME NEW m \in Modules PROVE Verdict(m, multiplier, results) \in {"fits", "target"}
    <3>1. ~PinnedExceeds(m, multiplier)
      BY <2>3 DEF PlanRefused
    <3>2. Reclaimed(m, multiplier, results).stop = "no"
      BY <1>2, <2>2, <2>3, AnswerTaken, PlanShape
    <3>3. QED
      BY <3>1, <3>2 DEF Verdict
  <2>5. PrepareOutcome(multiplier, results) \in {"committed", "fits", "target"}
    <3> DEFINE refused == {n \in Modules : Verdict(n, multiplier, results) # "fits"}
    <3>1. refused \in SUBSET Nat
      <4>1. Modules \subseteq Nat
        BY TwoPhaseAssumption DEF Modules
      <4>2. QED
        BY <4>1
    <3>2. PrepareOutcome(multiplier, results)
            = IF refused = {} THEN "committed" ELSE Verdict(Min(refused), multiplier, results)
      BY DEF PrepareOutcome
    <3>3. \A n \in refused : n \in Modules
      OBVIOUS
    <3> HIDE DEF refused
    <3>4. refused # {} => Min(refused) \in refused
      BY <3>1, MinIsLeast
    <3>5. QED
      BY <2>4, <3>2, <3>3, <3>4
  <2>6. QED
    BY <2>1, <2>5
<1>6. ASSUME NEW answers \in SUBSET held, Submit(answers) PROVE FALSE
  <2>1. pc = "asked" /\ quiet /\ results' = answers /\ UNCHANGED <<multiplier, asked>>
    BY <1>6 DEF Submit
  <2>2. ~PlanRefused(multiplier) /\ asked = Planned(multiplier)
    BY <2>1 DEF Inv, PlanKept
  <2>3. ~Duplicates(answers) /\ {a.told : a \in answers} \subseteq asked
    BY <2>1 DEF Complete, Duplicates
  <2>4. Expected(answers)
    BY <2>2, <2>3 DEF Expected, Fingerprint
  <2>5. QED
    BY <1>6, <2>2, <2>3, <2>4 DEF Submit
<1>7. ASSUME NEW r \in asked, NEW content \in Answers, Answer(r, content) PROVE FALSE
  BY <1>7 DEF Answer
<1>8. ASSUME NEW x \in Multipliers, Report(x)
      PROVE  outcome' \notin {"pinned", "duplicate", "unexpected", "semantic"}
  <2>1. /\ pc = "done" /\ quiet /\ request.mode = "host"
        /\ UNCHANGED <<outcome, asked, results>>
    BY <1>8 DEF Report, Inv, Types
  <2>2. \A n : CountText(n, Counting(multiplier)) = n /\ CountText(n, Counting(multiplier))' = n
    BY <1>1, <2>1 DEF CountText, Counting
  <2>3. Complete(results)
    BY <1>1, <2>1, <2>2 DEF Complete, Solves, Duplicates
  <2>4. QED
    BY <2>1, <2>3 DEF Inv, QuietCommitAccepted
<1>9. QED
  BY <1>3, <1>4, <1>5, <1>6, <1>7, <1>8 DEF Next

(* The invariant is inductive.                                             *)
THEOREM TwoPhaseInvariant == Spec => []Inv
<1>1. Inv /\ [Next]_vars => Inv'
  BY TypesStep, PreparedStep, PlanStep, QuietStep DEF Inv
<1>2. QED
  BY InitInv, <1>1, PTL DEF Spec

(* Whatever the multipliers, grants, pipelines, providers and answers, and *)
(* whenever reports come: what is committed fits its allocation, has not   *)
(* grown and keeps its required terms.                                     *)
THEOREM ContractKept == Spec => []CompressionContract
<1>1. Inv => CompressionContract
  <2> SUFFICES ASSUME Inv, outcome = "committed", NEW m \in Modules
               PROVE  /\ Reclaims(m, at) =>
                           PinnedTokens(m, at) + CountText(final[m].size, Counting(at)) <= granted[at][m]
                      /\ CountText(final[m].size, Counting(at)) <= CountText(request.size[m], Counting(at))
                      /\ Source(m).kept => final[m].kept
    BY DEF CompressionContract
  <2> DEFINE text == Reclaimed(m, at, results).text
  <2>1. Requested /\ at \in Multipliers /\ results \in SUBSET Told
    BY DEF Inv, Types, Requested
  <2>2. Verdict(m, at, results) = "fits" /\ final[m] = text
    BY DEF Inv, PreparedAsComputed
  <2>3. MeetsTarget(m, at, text)
    BY <2>2 DEF Verdict
  <2>4. text \in Text /\ Shortens(text, Source(m), Counting(at))
    BY <2>1, ReclaimedShortens DEF Walkings
  <2> HIDE DEF text
  <2>5. /\ CountText(text.size, Counting(at)) \in Nat
        /\ PinnedTokens(m, at) \in Nat /\ granted[at][m] \in Nat
    BY <2>1, <2>4, ModuleTypes, CountTextNat DEF Text
  <2>6. Reclaims(m, at) => CountText(text.size, Counting(at)) <= granted[at][m] - PinnedTokens(m, at)
    BY <2>3 DEF MeetsTarget, Target
  <2>7. Source(m).size = request.size[m]
    BY DEF Source
  <2>8. QED
    BY <2>2, <2>4, <2>5, <2>6, <2>7 DEF Shortens
<1>2. QED
  BY TwoPhaseInvariant, <1>1, PTL

(* An answer is used only for the text and the target it was asked for,    *)
(* and no host is asked for a negative number of tokens.                   *)
THEOREM AnswersUsedAsAsked == Spec => []AnswersAsAsked
<1>1. Inv => AnswersAsAsked
  <2> SUFFICES ASSUME Inv, outcome = "committed", NEW m \in Modules, chosen[m] # None
               PROVE  /\ chosen[m].module = m /\ chosen[m].target = Target(m, at)
                      /\ chosen[m].text = Plan(m, at).text
    BY DEF AnswersAsAsked, Inv, AskedToShorten
  <2> DEFINE text == Plan(m, at).text
             candidates == Candidates(m, at, text, results)
  <2>1. Requested /\ at \in Multipliers /\ results \in SUBSET Told
    BY DEF Inv, Types, Requested
  <2>2. chosen[m] = ChosenOf(m, at, results)
    BY DEF Inv, PreparedAsComputed
  <2>3. candidates # {} /\ chosen[m] = Best(m, at, candidates).told
    BY <2>2 DEF ChosenOf
  <2> HIDE DEF candidates
  <2>4. Best(m, at, candidates) \in candidates
    BY <2>1, <2>3, BestIsCandidate DEF candidates
  <2>5. Best(m, at, candidates).told \in SemanticRequests(m, at, text)
    BY <2>4, CandidateShape DEF candidates
  <2>6. QED
    BY <2>3, <2>5 DEF SemanticRequests
<1>2. QED
  BY TwoPhaseInvariant, <1>1, PTL

(* Without a report in between, a host that answers what it was asked is   *)
(* not refused.                                                            *)
THEOREM QuietCommits == Spec => []QuietCommitAccepted
<1>1. Inv => QuietCommitAccepted
  BY DEF Inv
<1>2. QED
  BY TwoPhaseInvariant, <1>1, PTL
=============================================================================
