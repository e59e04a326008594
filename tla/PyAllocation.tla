---------------------------- MODULE PyAllocation ----------------------------
(***************************************************************************)
(* The Python allocator (src/contextlease/allocation.py with the admission *)
(* check of layout.py): a second implementation of the allocator that      *)
(* Allocation models step by step.  Here it is a function of the inputs of *)
(* the same call, so that every call of the core can be compared with it.  *)
(* A loop of the code is a fold over the list it iterates; a loop that the *)
(* code leaves early has nothing more to do in its other iterations.       *)
(***************************************************************************)
EXTENDS Allocation, Subsequences

(* validate_model_budget of layout.py raises no LayoutValidationError.     *)
PyAdmits ==
  LET totalFloor == TotalOver([m \in Modules |-> def[m].floor], Modules)
  IN ~(available <= 0) /\ ~(totalFloor > available)

(* sorted of module ids.                                                   *)
ById == {pair \in Modules \X Modules : pair[1] < pair[2]}

-----------------------------------------------------------------------------

(* What the modules hold, and what is left.                                *)
PyFilling == [held : [Modules -> Int], left : Int]

(* Mutant: the shares of a round are taken of what is left, not of what    *)
(* there was when the round began.                                         *)
PyShareOfLeft(s, m, budget, total) == MaxOf(1, (s.left * def[m].weight) \div total)

(* int of the quotient, where f64 is exact.                                *)
PyShare(s, m, budget, total) == MaxOf(1, (budget * def[m].weight) \div total)

(* One pass of the inner loop of _weighted_fill.                           *)
PyGrant(s, m, budget, total) ==
  LET tokens == MinOf3(Cap(m) - s.held[m], PyShare(s, m, budget, total), s.left)
  IN [held |-> [s.held EXCEPT ![m] = @ + tokens], left |-> s.left - tokens]

PyGrants(budget, total) ==
  [s \in PyFilling |-> [m \in Modules |-> PyGrant(s, m, budget, total)]]

(* One round: the modules below their cap, by id.                          *)
PyRound(s) ==
  IF s.left <= 0 THEN s
  ELSE Folded(PyGrants(s.left, WeightOver(BelowCap(s.held))), s, InOrder(BelowCap(s.held), ById))

PyRounds == [s \in PyFilling |-> [i \in Nat |-> PyRound(s)]]

(* Every round but the last hands out a token, so there are at most as     *)
(* many as there are tokens.                                               *)
PyWeightedFill(s) == Folded(PyRounds, s, [i \in 1 .. s.left |-> i])

-----------------------------------------------------------------------------

PyLenders == {m \in Modules : def[m].canLend}

PyBorrowers(held) ==
  {m \in Modules : def[m].canBorrow /\ demand[m] > def[m].target /\ held[m] < def[m].max}

(* The sort key (-weight, order, module_id).                               *)
PyBorrowOrder == {pair \in Modules \X Modules : ServedBefore(pair[1], pair[2])}

(* What the leases so far have come to.                                    *)
PyLending ==
  [held : [Modules -> Int], left : Int, donors : [PyLenders -> Int], slack : Int,
   borrowed : [Modules -> Int], lent : [Modules -> Int],
   leases : Seq([donor : Modules \cup {Slack}, borrower : Modules, tokens : Int])]

PyNeed(s, b) == MinOf(demand[b], def[b].max) - s.held[b]

(* A lease of tokens from a donor or the slack.                            *)
PyLease(s, b, donor, tokens) ==
  [s EXCEPT !.left = @ - tokens,
            !.held[b] = @ + tokens,
            !.borrowed[b] = @ + tokens,
            !.leases = Append(@, [donor |-> donor, borrower |-> b, tokens |-> tokens])]

PyFromDonor(s, b, d) ==
  LET tokens == MinOf3(PyNeed(s, b), s.donors[d], s.left)
  IN IF d = b \/ tokens <= 0 THEN s
     ELSE [PyLease(s, b, d, tokens) EXCEPT !.donors[d] = @ - tokens, !.lent[d] = @ + tokens]

PyFromDonors(b) == [s \in PyLending |-> [d \in PyLenders |-> PyFromDonor(s, b, d)]]

PyFromSlack(s, b) ==
  LET tokens == MinOf3(PyNeed(s, b), s.slack, s.left)
  IN IF tokens <= 0 THEN s ELSE [PyLease(s, b, Slack, tokens) EXCEPT !.slack = @ - tokens]

(* One borrower: the donors in id order, then the slack.                   *)
PyServe(s, b) == PyFromSlack(Folded(PyFromDonors(b), s, InOrder(PyLenders, ById)), b)

PyServes == [s \in PyLending |-> [b \in Modules |-> PyServe(s, b)]]

(* Before the first borrower is served.                                    *)
PyLendFrom(filled) ==
  LET donors == [d \in PyLenders |-> MaxOf(0, def[d].target - filled.held[d])]
  IN [held |-> filled.held, left |-> filled.left, donors |-> donors,
      slack |-> MaxOf(0, filled.left - TotalOver(donors, PyLenders)),
      borrowed |-> None, lent |-> None, leases |-> <<>>]

PySeed ==
  LET held == [m \in Modules |-> MinOf(def[m].floor, demand[m])]
  IN [held |-> held, left |-> available - TotalOver(held, Modules)]

(* allocate_budget.                                                        *)
PyAllocate ==
  LET filled == PyWeightedFill(PySeed)
  IN Folded(PyServes, PyLendFrom(filled), InOrder(PyBorrowers(filled.held), PyBorrowOrder))

-----------------------------------------------------------------------------

(* The two allocators are one: for every definition, demand and budget     *)
(* Python admits the calls the core admits and then, if f64 is exact on    *)
(* the weights, arrives at the same allocations, the same leases in the    *)
(* same order and the same rest, although it works by whole rounds over    *)
(* dicts and sorted lists (the layout of a Python host planned without the *)
(* native library must match).  On other weights it need not: it sums them *)
(* in the order of a set, the core in the order of the ids.                *)
PythonAgrees ==
  /\ phase = "rejected" => ~PyAdmits
  /\ phase = "done" => PyAdmits
  /\ phase = "done" /\ arithmetic = "exact" =>
       LET python == PyAllocate
       IN /\ python.held = current /\ python.left = remaining
          /\ python.borrowed = borrowed /\ python.lent = lent
          /\ python.leases = leases
=============================================================================
