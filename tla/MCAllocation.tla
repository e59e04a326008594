---------------------------- MODULE MCAllocation ----------------------------
(* Small instances of Allocation.                                          *)
EXTENDS PyAllocation

Shape(f, t, x) == [floor |-> f, target |-> t, max |-> x]

Module(shape, weight, lend, borrow, ord) ==
  [floor |-> shape.floor, target |-> shape.target, max |-> shape.max,
   weight |-> weight, order |-> ord, canLend |-> lend, canBorrow |-> borrow]

(* Arenas of three modules.  Shapes with a floor, with no room above the   *)
(* target and with much of it; even and skewed weights; modules that lend, *)
(* borrow, do both or neither.  The order field runs against the ids.      *)
MCShapes == {
  <<Shape(0, 2, 4), Shape(1, 2, 2), Shape(0, 1, 3)>>,
  <<Shape(1, 1, 4), Shape(0, 3, 3), Shape(0, 1, 4)>>,
  <<Shape(0, 3, 4), Shape(0, 1, 4), Shape(0, 4, 4)>>}

MCWeights == {<<1, 1, 1>>, <<1, 1, 8>>, <<3, 1, 2>>}

MCLenders == {{1, 2, 3}, {2}, {1, 3}}

MCBorrowers == {{1, 2, 3}, {1, 3}}

MCDefinitions ==
  {[m \in Modules |-> Module(shape[m], weight[m], m \in lenders, m \in borrowers, 4 - m)] :
      shape \in MCShapes, weight \in MCWeights, lenders \in MCLenders, borrowers \in MCBorrowers}
=============================================================================
