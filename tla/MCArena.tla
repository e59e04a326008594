------------------------------ MODULE MCArena ------------------------------
(* Small instances of Arena.                                               *)
EXTENDS Arena

CONSTANTS x, donorA, donorB

(* Ids of the host: one of its own and one that looks like the id of the   *)
(* arena's second request.                                                 *)
MCExplicitIds == {x, 2}

Lease(id, tokens) == [id |-> id, tokens |-> tokens]

(* No lease; one; it shrinks while another appears; two with one id.       *)
MCLeaseOutcomes ==
  {<<>>, <<Lease(donorA, 2)>>, <<Lease(donorA, 1), Lease(donorB, 1)>>,
   <<Lease(donorA, 2), Lease(donorA, 1)>>}

Symmetry == Permutations(Threads)
=============================================================================
