---------------------------- MODULE Subsequences ---------------------------
(***************************************************************************)
(* The members of a sequence that a filter keeps, in their order: the list *)
(* comprehension of ObservationStore.events_after, the retain of the       *)
(* core's VecDeque; a set in the order of a sort key; and a loop over a    *)
(* sequence.  As the totals of TokenSums they are defined by cardinalities *)
(* or with functions, not by recursive operators and LAMBDAs, so that they *)
(* can be reasoned about (CountingProofs).                                 *)
(***************************************************************************)
EXTENDS Naturals, Sequences, FiniteSets

(* The place of i among the members of I, smallest first.                  *)
Place(I, i) == Cardinality({j \in I : j <= i})

AtPlace(I, k) == CHOOSE i \in I : Place(I, i) = k

(* The members of s at the positions I.                                    *)
Selected(s, I) == [k \in 1 .. Cardinality(I) |-> s[AtPlace(I, k)]]

(* The members of S, sorted; before is the set of pairs in order.          *)
RankIn(S, before, x) == Cardinality({y \in S : y = x \/ <<y, x>> \in before})

InOrder(S, before) ==
  [k \in 1 .. Cardinality(S) |-> CHOOSE x \in S : RankIn(S, before, x) = k]

(* A loop over s that starts with base and does step[so far][member].      *)
Folded(step, base, s) ==
  LET after[k \in 0 .. Len(s)] == IF k = 0 THEN base ELSE step[after[k - 1]][s[k]]
  IN after[Len(s)]
=============================================================================
