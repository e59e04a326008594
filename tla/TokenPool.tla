----------------------------- MODULE TokenPool -----------------------------
(***************************************************************************)
(* What the allocator promises of one call, whatever policy it follows: a  *)
(* pool of tokens is opened with some of them already with the holders,    *)
(* and from then on tokens only move from the pool to a holder, one holder *)
(* at a time.  Nothing is taken back from a holder, created or lost.       *)
(***************************************************************************)
EXTENDS Integers

CONSTANT Holders

VARIABLES
  held,   \* held[h]: the tokens of holder h
  free,   \* the tokens still in the pool
  open    \* the pool has been opened

vars == <<held, free, open>>

Init == held = [h \in Holders |-> 0] /\ free = 0 /\ open = FALSE

Open ==
  /\ ~open /\ open'
  /\ held' \in [Holders -> Nat]
  /\ free' \in Nat

Give(h) ==
  /\ open /\ UNCHANGED open
  /\ free' \in 0 .. free - 1
  /\ held' = [held EXCEPT ![h] = @ + (free - free')]

Next == Open \/ \E h \in Holders : Give(h)

Spec == Init /\ [][Next]_vars
=============================================================================
