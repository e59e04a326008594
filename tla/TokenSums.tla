----------------------------- MODULE TokenSums -----------------------------
(***************************************************************************)
(* Totals of token counts.  The core adds up i32 token counts of modules   *)
(* (`values().sum()`, `iter().map(..).sum()`) in half a dozen places.      *)
(* Token counts are naturals, so a total is the number of individual       *)
(* tokens: a token is a pair of its holder and its rank at that holder.    *)
(* Defining the total as a cardinality, not by recursion, is what makes    *)
(* the conservation laws of Allocation provable (CountingProofs).          *)
(***************************************************************************)
EXTENDS Naturals, FiniteSets

(* The tokens of holder h of ranks low + 1 to high.                        *)
Ranks(h, low, high) == {h} \X (low + 1 .. high)

(* The individual tokens of the members of S, when s holds count[s].       *)
TokensOf(count, S) == UNION {Ranks(s, 0, count[s]) : s \in S}

(* The number of tokens held by the members of S together.                 *)
TotalOver(count, S) == Cardinality(TokensOf(count, S))

=============================================================================
