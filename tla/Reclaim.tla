------------------------------ MODULE Reclaim ------------------------------
(***************************************************************************)
(* How the content of a module is counted and shortened: the estimators,   *)
(* the built-in algorithms and the walk along the reclaim pipeline that    *)
(* plan_semantic_requests and prepare have in common                       *)
(* (rust/contextlease-core/src/lib.rs).                                    *)
(*                                                                         *)
(* A text is what decides its fate: how many tokens it has by the bare     *)
(* count, and whether it holds the required terms.  In a prefix the terms  *)
(* are there from `depth' tokens on.  A counting is a mode and a           *)
(* multiplier: "host" counts with the host tokenizer, "words" with the     *)
(* regex estimator, "char" with the character estimator.                   *)
(***************************************************************************)
EXTENDS Integers, Sequences, FiniteSetsExt

CONSTANTS
  Unit,      \* the multiplier 1.0
  Sentence   \* tokens in a sentence

ASSUME ReclaimAssumption == Unit \in Nat \ {0} /\ Sentence \in Nat \ {0}

Modes == {"host", "words", "char"}
Steps == {"squeeze", "sentences", "truncate", "other", "semantic"}

Text == [size : Nat, kept : BOOLEAN]

CeilDiv(a, b) == (a + b - 1) \div b

CountText(size, c) ==
  IF c.mode = "host" THEN size ELSE CeilDiv(size * c.multiplier, Unit)

Prefix(text, n, depth) ==
  [size |-> n, kept |-> text.kept /\ (n = text.size \/ n >= depth)]

Fitting(text, target, c) == {n \in 0 .. text.size : CountText(n, c) <= target}

Truncate(text, target, c, depth) ==
  LET bare == [c EXCEPT !.multiplier = Unit]
  IN Prefix(text, Max({0} \cup Fitting(text, target, IF c.mode = "char" THEN bare ELSE c)), depth)

(* Whole sentences, or a prefix if not one fits.                           *)
SelectSentences(text, target, c, depth) ==
  LET whole == {n \in Fitting(text, target, c) : n % Sentence = 0 \/ n = text.size}
  IN IF Max({0} \cup whole) = 0
     THEN Truncate(text, target, c, depth)
     ELSE Prefix(text, Max(whole), depth)

(* Whitespace normalisation and block deduplication: one redundant token.  *)
Squeeze(text) == [text EXCEPT !.size = Max({0, @ - 1})]

CompressText(step, text, target, c, depth) ==
  CASE step = "squeeze"   -> Squeeze(text)
    [] step = "sentences" -> SelectSentences(text, target, c, depth)
    [] step = "truncate"  -> Truncate(text, target, c, depth)
    [] OTHER              -> text

(* Mutant: required terms may be lost.                                     *)
AcceptsAnyShorter(candidate, text, c) == CountText(candidate.size, c) <= CountText(text.size, c)

Accepts(candidate, text, c) ==
  CountText(candidate.size, c) <= CountText(text.size, c) /\ candidate.kept

LocalStep(step, text, target, c, depth) ==
  LET candidate == CompressText(step, text, target, c, depth)
  IN IF Accepts(candidate, text, c) THEN candidate ELSE text

Going(text) == [stop |-> "no", text |-> text]

(* The loop over reclaim_pipeline: it ends when the text fits, or at a     *)
(* semantic step that stops it; `semantic' is what such a step does.       *)
Walk(pipeline, source, target, c, depth, semantic) ==
  LET after[k \in 0 .. Len(pipeline)] ==
        IF k = 0 THEN Going(source)
        ELSE LET before == after[k - 1]
             IN IF before.stop # "no" \/ CountText(before.text.size, c) <= target THEN before
                ELSE IF pipeline[k] = "semantic" THEN semantic[before.text]
                ELSE Going(LocalStep(pipeline[k], before.text, target, c, depth))
  IN after[Len(pipeline)]
=============================================================================
