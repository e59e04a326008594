----------------------------- MODULE Allocation -----------------------------
(***************************************************************************)
(* The capacity allocator of the core: allocate and weighted_fill of       *)
(* rust/contextlease-core/src/lib.rs, behind the admission check of        *)
(* validate_model_budget.  One behaviour is one call: the definition of    *)
(* the arena, the demands and the input budget are chosen in Init, and     *)
(* every loop iteration of the code is one step, so that the loop          *)
(* invariants are state invariants.                                        *)
(*                                                                         *)
(* Modules are naturals because the code orders module ids (BTreeSet,      *)
(* sort_by).  Weights are f64: a positive one is a natural number of the   *)
(* least of them, and so are weights here.  What the code makes of them is *)
(* f64 arithmetic: a quotient of sums and products that may be rounded at  *)
(* every step, or exceed the largest f64, and is then truncated.           *)
(***************************************************************************)
EXTENDS Integers, Sequences, TokenSums

CONSTANTS
  Modules,       \* the module ids of the arena
  Definitions,   \* the validated module definitions, one function per arena
  Demands,       \* the demands a module may have, in tokens
  Budgets,       \* the values of input_budget - framework_reserve_tokens
  Precision,     \* a rounded quotient is wrong by at most 1 / Precision
  Slack          \* the donor id of capacity that belongs to no module

(* What validate_definition lets through about one module.  An infinite    *)
(* weight, as only a Rust host can give it, is one that overflows.         *)
ValidModule(d) ==
  /\ d.floor \in Nat /\ d.target \in Nat /\ d.max \in Nat
  /\ d.floor <= d.target /\ d.target <= d.max
  /\ d.weight \in Nat \ {0}
  /\ d.order \in Nat
  /\ d.canLend \in BOOLEAN /\ d.canBorrow \in BOOLEAN

ASSUME ModulesAssumption ==
  /\ Modules \subseteq Nat /\ Modules # {} /\ IsFiniteSet(Modules)
  /\ Slack \notin Modules

ASSUME DefinitionsAssumption ==
  \A def \in Definitions : DOMAIN def = Modules /\ \A m \in Modules : ValidModule(def[m])

ASSUME InputsAssumption == Demands \subseteq Nat /\ Budgets \subseteq Int

(* A quotient of a product and of a sum of n weights is wrong by a factor  *)
(* of about (n + 2) / 2^53, and a budget is below 2^31: by (n + 2) / 2^22, *)
(* which is less than 1 / n for up to two thousand modules.                *)
ASSUME PrecisionAssumption == Precision \in Nat /\ Cardinality(Modules) <= Precision

VARIABLES
  def,         \* the arena definition
  demand,      \* demand[m]: tokens module m wants
  available,   \* the tokens there are to hand out
  arithmetic,  \* what f64 does with these weights: see Arithmetics
  phase,       \* where the call is
  current,     \* current[m]: tokens allocated to m so far
  remaining,   \* tokens not handed out yet
  active,      \* weighted_fill: modules still below their cap
  round,       \* weighted_fill: the tokens remaining when the round began
  todo,        \* weighted_fill: modules still to be served in this round
  donorLeft,   \* donorLeft[m]: tokens m can still lend
  slack,       \* shared_slack: tokens no donor accounts for
  waiting,     \* borrowers not served yet
  borrowed,    \* borrowed[m]: tokens m holds on lease
  lent,        \* lent[m]: tokens of m's target held by others
  leases       \* the leases granted, in order

inputs == <<def, demand, available, arithmetic>>
lending == <<donorLeft, slack, waiting, borrowed, lent, leases>>
filling == <<active, round, todo>>
vars == <<inputs, phase, current, remaining, filling, lending>>

Phases == {"start", "fill", "borrow", "done", "rejected"}

(* "exact": multiples of a power of two that are small enough, such as 1.0 *)
(* or 0.75; sums and products are exact and no quotient is rounded past an *)
(* integer.  "rounded": weights such as 0.1, whose sum depends on the      *)
(* order.  "overflow": sums or products of these may be infinite.          *)
Arithmetics == {"exact", "rounded", "overflow"}

-----------------------------------------------------------------------------

MinOf(a, b) == IF a <= b THEN a ELSE b
MaxOf(a, b) == IF a >= b THEN a ELSE b
MinOf3(a, b, c) == MinOf(MinOf(a, b), c)

None == [m \in Modules |-> 0]

(* What a module holds before anything is shared out.                      *)
Seed == [m \in Modules |-> MinOf(def[m].floor, demand[m])]

(* caps: the weighted fill serves a module up to its target or its demand. *)
Cap(m) == MinOf(def[m].target, demand[m])

BelowCap(held) == {m \in Modules : held[m] < Cap(m)}

(* What a borrower may hold at most.                                       *)
Ceiling(m) == MinOf(demand[m], def[m].max)

WeightOver(S) == TotalOver([m \in Modules |-> def[m].weight], S)

(* The integers a truncated f64 quotient of part and total may be.         *)
Rounded(part, total) ==
  LET exact == part \div total
  IN {q \in {exact - 1, exact, exact + 1} \cap Nat :
        /\ Precision * q * total <= Precision * part + total
        /\ Precision * part < Precision * (q + 1) * total + total}

(* As i32, infinity is the largest and more than the round has, and not a  *)
(* number is 0.                                                            *)
Truncated(part, total) ==
  CASE arithmetic = "exact" -> {part \div total}
    [] arithmetic = "rounded" -> Rounded(part, total)
    [] arithmetic = "overflow" -> Rounded(part, total) \cup {0, round}

(* Mutant: the share ignores the weights.                                  *)
EqualShares(m) == {MaxOf(1, round \div Cardinality(active))}

(* A module's part of a round: its weighted share, but at least one token. *)
Shares(m) == {MaxOf(1, q) : q \in Truncated(round * def[m].weight, WeightOver(active))}

(* Mutant: the grant is not limited by what remains.                       *)
GrantPastBudget(m, share) == MinOf(Cap(m) - current[m], share)

(* Mutant: the grant is not limited by the module's cap.                   *)
GrantPastCap(m, share) == MinOf(share, remaining)

FillGrant(m, share) == MinOf3(Cap(m) - current[m], share, remaining)

Least(m, S) == m \in S /\ \A other \in S : m <= other

(* Mutant: sort_by with the weights compared the wrong way round.          *)
LightestFirst(m, other) == def[m].weight < def[other].weight

(* The order in which borrowers are served.                                *)
ServedBefore(m, other) ==
  \/ def[m].weight > def[other].weight
  \/ /\ def[m].weight = def[other].weight
     /\ \/ def[m].order < def[other].order
        \/ def[m].order = def[other].order /\ m < other

FirstServed(m, S) == m \in S /\ \A other \in S \ {m} : ServedBefore(m, other)

-----------------------------------------------------------------------------

Init ==
  /\ def \in Definitions
  /\ demand \in [Modules -> Demands]
  /\ available \in Budgets
  /\ arithmetic \in Arithmetics
  /\ phase = "start"
  /\ current = None
  /\ remaining = 0
  /\ active = {} /\ round = 0 /\ todo = {}
  /\ donorLeft = None /\ slack = 0 /\ waiting = {}
  /\ borrowed = None /\ lent = None /\ leases = <<>>

FloorTotal == TotalOver([m \in Modules |-> def[m].floor], Modules)

BudgetHoldsFloors == available > 0 /\ FloorTotal <= available

(* validate_model_budget accepts, and allocate hands out the floors.       *)
Admit ==
  /\ phase = "start"
  /\ BudgetHoldsFloors
  /\ phase' = "fill"
  /\ current' = Seed
  /\ remaining' = available - TotalOver(Seed, Modules)
  /\ active' = BelowCap(Seed)
  /\ UNCHANGED <<inputs, round, todo, lending>>

(* validate_model_budget: layout_validation_error.                         *)
Reject ==
  /\ phase = "start"
  /\ ~BudgetHoldsFloors
  /\ phase' = "rejected"
  /\ UNCHANGED <<inputs, current, remaining, filling, lending>>

(* Mutant: the loop runs as long as tokens remain, satisfied modules or not. *)
OverWhenSpent == remaining = 0

(* weighted_fill leaves its loop: nothing is left, nobody needs anything,  *)
(* or the last round made no progress.                                     *)
FillOver == remaining = 0 \/ active = {} \/ round = remaining

(* A round of weighted_fill begins.                                        *)
StartRound ==
  /\ phase = "fill" /\ todo = {}
  /\ ~FillOver
  /\ round' = remaining
  /\ todo' = active
  /\ UNCHANGED <<inputs, phase, current, remaining, active, lending>>

(* Mutant: one round only.                                                 *)
RetainNobody(held) == {}

(* active.retain at the end of a round.                                    *)
Retain(held) == active \cap BelowCap(held)

(* The inner loop of weighted_fill serves the next module.  It leaves the  *)
(* loop when nothing remains; either way the round ends with active.retain. *)
Fill(m) ==
  /\ phase = "fill"
  /\ Least(m, todo)
  /\ \E share \in Shares(m) :
       /\ current' = [current EXCEPT ![m] = @ + FillGrant(m, share)]
       /\ remaining' = remaining - FillGrant(m, share)
  /\ todo' = IF remaining' = 0 THEN {} ELSE todo \ {m}
  /\ active' = IF todo' = {} THEN Retain(current') ELSE active
  /\ UNCHANGED <<inputs, phase, round, lending>>

(* Mutant: the donor's floor counts as what it uses.                       *)
AmountAboveFloor(m) == IF def[m].canLend THEN MaxOf(0, def[m].target - Seed[m]) ELSE 0

(* Mutant: modules that do not lend count as donors in donor_total.        *)
UnusedTargets == TotalOver([m \in Modules |-> MaxOf(0, def[m].target - current[m])], Modules)

DonorAmount(m) == IF def[m].canLend THEN MaxOf(0, def[m].target - current[m]) ELSE 0

DonorTotal == TotalOver([m \in Modules |-> DonorAmount(m)], Modules)

Borrowers ==
  {m \in Modules : def[m].canBorrow /\ demand[m] > def[m].target /\ current[m] < def[m].max}

(* weighted_fill returns; donors, slack and borrowers are worked out.      *)
EndFill ==
  /\ phase = "fill" /\ todo = {}
  /\ FillOver
  /\ phase' = "borrow"
  /\ donorLeft' = [m \in Modules |-> DonorAmount(m)]
  /\ slack' = MaxOf(0, remaining - DonorTotal)
  /\ waiting' = Borrowers
  /\ UNCHANGED <<inputs, current, remaining, filling, borrowed, lent, leases>>

Need(b) == Ceiling(b) - current[b]

WantsMore(b) ==
  /\ phase = "borrow"
  /\ FirstServed(b, waiting)
  /\ Need(b) > 0 /\ remaining > 0

DonorsFor(b) == {d \in Modules \ {b} : donorLeft[d] > 0}

(* Mutant: the lease is not taken off what remains.                        *)
GrantFromNothing(b, source, tokens) ==
  /\ UNCHANGED remaining
  /\ current' = [current EXCEPT ![b] = @ + tokens]
  /\ borrowed' = [borrowed EXCEPT ![b] = @ + tokens]
  /\ leases' = Append(leases, [donor |-> source, borrower |-> b, tokens |-> tokens])

(* Mutant: the lease replaces what the borrower holds.                     *)
GrantInstead(b, source, tokens) ==
  /\ remaining' = remaining - tokens
  /\ current' = [current EXCEPT ![b] = tokens]
  /\ borrowed' = [borrowed EXCEPT ![b] = @ + tokens]
  /\ leases' = Append(leases, [donor |-> source, borrower |-> b, tokens |-> tokens])

Grant(b, source, tokens) ==
  /\ remaining' = remaining - tokens
  /\ current' = [current EXCEPT ![b] = @ + tokens]
  /\ borrowed' = [borrowed EXCEPT ![b] = @ + tokens]
  /\ leases' = Append(leases, [donor |-> source, borrower |-> b, tokens |-> tokens])

BookLent(d, tokens) == lent' = [lent EXCEPT ![d] = @ + tokens]

(* The donor loop: the first donor with tokens left, in id order.  A donor *)
(* passed over before is exhausted, so the loop never returns to it.       *)
LendFromDonor(b, d) ==
  /\ WantsMore(b)
  /\ Least(d, DonorsFor(b))
  /\ LET tokens == MinOf3(Need(b), donorLeft[d], remaining)
     IN /\ Grant(b, d, tokens)
        /\ donorLeft' = [donorLeft EXCEPT ![d] = @ - tokens]
        /\ BookLent(d, tokens)
  /\ UNCHANGED <<inputs, phase, filling, slack, waiting>>

(* After the donors, the slack; it ends the borrower's turn.               *)
LendFromSlack(b) ==
  /\ WantsMore(b)
  /\ DonorsFor(b) = {} /\ slack > 0
  /\ LET tokens == MinOf3(Need(b), slack, remaining)
     IN Grant(b, Slack, tokens) /\ slack' = slack - tokens
  /\ waiting' = waiting \ {b}
  /\ UNCHANGED <<inputs, phase, filling, donorLeft, lent>>

(* Nothing (more) for this borrower.                                       *)
NextBorrower(b) ==
  /\ phase = "borrow"
  /\ FirstServed(b, waiting)
  /\ Need(b) > 0 /\ remaining > 0 => DonorsFor(b) = {} /\ slack = 0
  /\ waiting' = waiting \ {b}
  /\ UNCHANGED <<inputs, phase, current, remaining, filling, donorLeft, slack,
                 borrowed, lent, leases>>

Finish ==
  /\ phase = "borrow" /\ waiting = {}
  /\ phase' = "done"
  /\ UNCHANGED <<inputs, current, remaining, filling, lending>>

Step ==
  \/ Admit \/ Reject \/ StartRound \/ EndFill \/ Finish
  \/ \E m \in Modules : Fill(m) \/ LendFromSlack(m) \/ NextBorrower(m)
  \/ \E b, d \in Modules : LendFromDonor(b, d)

(* The call has returned.                                                  *)
Returned == phase \in {"done", "rejected"} /\ UNCHANGED vars

Next == Step \/ Returned

(* The call runs on one thread without waiting for anything.               *)
Spec == Init /\ [][Next]_vars /\ WF_vars(Step)

-----------------------------------------------------------------------------
(* Properties.                                                             *)

(* Every variable keeps its type; in particular no i32 of the code that    *)
(* counts tokens ever goes below zero after admission, which is why the    *)
(* "module floors exceed budget" error of allocate is never returned.      *)
TypeOK ==
  /\ def \in Definitions /\ demand \in [Modules -> Demands] /\ available \in Budgets
  /\ arithmetic \in Arithmetics
  /\ phase \in Phases
  /\ current \in [Modules -> Nat] /\ remaining \in Nat
  /\ active \subseteq Modules /\ todo \subseteq active /\ round \in Nat
  /\ donorLeft \in [Modules -> Nat] /\ slack \in Nat /\ waiting \subseteq Modules
  /\ borrowed \in [Modules -> Nat] /\ lent \in [Modules -> Nat]
  /\ leases \in Seq([donor : Modules \cup {Slack}, borrower : Modules, tokens : Nat])

Allocating == phase \in {"fill", "borrow", "done"}

(* No token of the budget is lost or handed out twice: what the modules    *)
(* hold and what remains add up to the available budget at every moment,   *)
(* through rounding, caps, early exits and lending.                        *)
Conservation == Allocating => TotalOver(current, Modules) + remaining = available

(* No module is pushed below its floor (or its demand, if that is less),   *)
(* and none gets more than it demands or than its maximum allows.          *)
GrantBounds ==
  Allocating => \A m \in Modules : Seed[m] <= current[m] /\ current[m] <= Ceiling(m)

(* Only unused capacity is lent: a lender has all it demands, and what it  *)
(* holds, has lent and can still lend is exactly its target.               *)
LendOnlyUnused ==
  \A m \in Modules : lent[m] > 0 =>
    /\ def[m].canLend
    /\ current[m] = demand[m]
    /\ current[m] + lent[m] + donorLeft[m] = def[m].target

(* Leasing starts only when no module is below its own share: while some   *)
(* module lacks tokens of its target that it demands, nothing is borrowed. *)
TargetsBeforeLeases ==
  (\E b \in Modules : borrowed[b] > 0) => \A m \in Modules : current[m] >= Cap(m)

(* Work conservation: the call returns with tokens in hand only if every   *)
(* module has what it may have: its demand up to its target, and up to its *)
(* maximum where it may borrow.                                            *)
NoTokenStranded ==
  phase = "done" /\ remaining > 0 =>
    \A m \in Modules :
      current[m] = IF def[m].canBorrow THEN Ceiling(m) ELSE Cap(m)

(* Borrowers are served in order of weight, and of the order field among   *)
(* equals: nobody leases anything while a module that comes before it      *)
(* wants more.                                                             *)
BorrowPriority ==
  \A b, first \in Modules :
    /\ borrowed[b] > 0 /\ def[first].canBorrow
    /\ \/ def[first].weight > def[b].weight
       \/ def[first].weight = def[b].weight /\ def[first].order < def[b].order
    => current[first] = Ceiling(first)

FillBudget == available - TotalOver(Seed, Modules)
Contenders == BelowCap(Seed)
FirstShare(m) == (FillBudget * def[m].weight) \div WeightOver(Contenders)

(* What rounding may cost a module.                                        *)
RoundedOff == IF arithmetic = "exact" THEN 0 ELSE 1

(* Weighted fairness: when the fill ends, a module still short of its cap  *)
(* got its weighted share of the tokens that were shared out, less at most *)
(* one token for each module before it whose share rounds down to nothing  *)
(* (those get one token all the same), and less one where f64 rounds.      *)
(* Nothing is promised to weights so large that f64 overflows.             *)
WeightedFairness ==
  phase \in {"borrow", "done"} /\ arithmetic # "overflow" =>
    \A m \in Contenders : current[m] - borrowed[m] < Cap(m) =>
      LET favoured == {o \in Contenders : o < m /\ FirstShare(o) = 0}
      IN current[m] - Seed[m] >= FirstShare(m) - RoundedOff - Cardinality(favoured)

(* The call returns, whatever the definition, the demands and the budget:  *)
(* neither the rounds of weighted_fill nor the donor loop go on forever.   *)
Termination == <>(phase \in {"done", "rejected"})

(* Tokens move one way during a call: from the pool to the modules.        *)
Pool == INSTANCE TokenPool WITH
  Holders <- Modules,
  held <- current,
  free <- IF phase \in {"start", "rejected"} THEN 0 ELSE remaining,
  open <- phase \notin {"start", "rejected"}

ImplementsPool == Pool!Spec
=============================================================================
