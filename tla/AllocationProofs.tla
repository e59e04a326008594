-------------------------- MODULE AllocationProofs --------------------------
(***************************************************************************)
(* Proofs about Allocation for every arena, demand and budget.             *)
(***************************************************************************)
EXTENDS PyAllocation, CountingProofs

(* While the fill runs: nothing is leased, nobody is above its cap, who    *)
(* left the active set is at its cap, and a round in progress has tokens   *)
(* to hand out and only unsatisfied modules to serve.                      *)
FillInv ==
  phase = "fill" =>
    /\ borrowed = None /\ lent = None /\ leases = <<>>
    /\ \A m \in Modules : Seed[m] <= current[m] /\ current[m] <= Cap(m)
    /\ \A m \in Modules \ active : current[m] = Cap(m)
    /\ \A m \in todo : current[m] < Cap(m)
    /\ todo = {} => \A m \in active : current[m] < Cap(m)
    /\ todo # {} => remaining > 0 /\ remaining <= round
    /\ todo = {} /\ remaining > 0 => round # remaining

Filled == \A m \in Modules : Cap(m) <= current[m]

(* While borrowers are served: either the fill used everything up and no   *)
(* lease is granted, or every module has its share, and then whoever has   *)
(* lent or may lend has all it demands and its target accounts for it.     *)
BorrowInv ==
  phase \in {"borrow", "done"} =>
    /\ \A m \in Modules : Seed[m] <= current[m] /\ current[m] <= Ceiling(m)
    /\ \A b \in waiting : def[b].canBorrow /\ demand[b] > def[b].target
    /\ \/ remaining = 0 /\ borrowed = None /\ lent = None
       \/ /\ Filled
          /\ \A m \in Modules : lent[m] + donorLeft[m] > 0 =>
               /\ def[m].canLend
               /\ demand[m] <= def[m].target
               /\ current[m] = demand[m]
               /\ current[m] + lent[m] + donorLeft[m] = def[m].target

(* Before admission nothing has been handed out.                           *)
StartInv ==
  phase \in {"start", "rejected"} =>
    /\ active = {} /\ todo = {} /\ round = 0
    /\ borrowed = None /\ lent = None /\ leases = <<>>

IndInv == TypeOK /\ StartInv /\ FillInv /\ BorrowInv /\ Conservation

-----------------------------------------------------------------------------

(* Validated inputs: the bounds of a module are ordered naturals.          *)
LEMMA Bounds ==
  ASSUME TypeOK, NEW m \in Modules
  PROVE  /\ ValidModule(def[m]) /\ demand[m] \in Nat
         /\ Seed[m] \in Nat /\ Cap(m) \in Nat /\ Ceiling(m) \in Nat
         /\ Seed[m] <= Cap(m) /\ Cap(m) <= Ceiling(m)
         /\ Cap(m) <= demand[m] /\ Cap(m) <= def[m].target
<1>1. ValidModule(def[m])
  BY DefinitionsAssumption DEF TypeOK
<1>2. demand[m] \in Nat
  BY InputsAssumption DEF TypeOK
<1>3. QED
  BY <1>1, <1>2 DEF ValidModule, Seed, Cap, Ceiling, MinOf

LEMMA InputsStable ==
  ASSUME UNCHANGED inputs
  PROVE  /\ Seed' = Seed
         /\ \A m \in Modules : Cap(m)' = Cap(m) /\ Ceiling(m)' = Ceiling(m)
BY DEF inputs, Seed, Cap, Ceiling

LEMMA SeedTotal ==
  ASSUME TypeOK
  PROVE  /\ Seed \in [Modules -> Nat]
         /\ TotalOver(Seed, Modules) \in Nat
         /\ TotalOver(Seed, Modules) <= FloorTotal
<1> DEFINE floors == [m \in Modules |-> def[m].floor]
<1>1. Seed \in [Modules -> Nat]
  <2>1. \A m \in Modules : Seed[m] \in Nat
    BY Bounds
  <2>2. QED
    BY <2>1 DEF Seed
<1>2. \A m \in Modules : Seed[m] \in Nat /\ floors[m] \in Nat /\ Seed[m] <= floors[m]
  <2>1. SUFFICES ASSUME NEW m \in Modules
                 PROVE  Seed[m] \in Nat /\ floors[m] \in Nat /\ Seed[m] <= floors[m]
    OBVIOUS
  <2>2. QED
    BY Bounds DEF Seed, MinOf, ValidModule
<1>3. IsFiniteSet(Modules)
  BY ModulesAssumption
<1>4. TotalOver(Seed, Modules) <= TotalOver(floors, Modules)
  BY <1>2, <1>3, TotalMonotone
<1>5. TotalOver(Seed, Modules) \in Nat
  BY <1>2, <1>3, TotalNat
<1>6. QED
  BY <1>1, <1>4, <1>5 DEF FloorTotal

(* A round serves somebody: the weights it divides by are positive.        *)
LEMMA ActiveWeights ==
  ASSUME TypeOK, NEW m \in active
  PROVE  /\ round * def[m].weight \in Nat
         /\ WeightOver(active) \in Nat /\ WeightOver(active) > 0
<1> DEFINE weights == [o \in Modules |-> def[o].weight]
<1>1. active \subseteq Modules /\ m \in Modules /\ IsFiniteSet(active)
  BY ModulesAssumption, FS_Subset DEF TypeOK
<1>2. \A o \in active : weights[o] \in Nat /\ weights[o] > 0
  <2>1. SUFFICES ASSUME NEW o \in active PROVE weights[o] \in Nat /\ weights[o] > 0
    OBVIOUS
  <2>2. o \in Modules
    BY <1>1
  <2>3. QED
    BY <2>2, Bounds DEF ValidModule
<1>3. WeightOver(active) \in Nat
  BY <1>1, <1>2, TotalNat DEF WeightOver
<1>4. weights[m] <= WeightOver(active)
  BY <1>1, <1>2, TotalBoundsMember DEF WeightOver
<1>5. WeightOver(active) > 0
  BY <1>2, <1>3, <1>4
<1>6. round * def[m].weight \in Nat
  <2>1. round \in Nat /\ def[m].weight \in Nat
    BY <1>1, Bounds DEF TypeOK, ValidModule
  <2>2. QED
    BY <2>1
<1>7. QED
  BY <1>3, <1>5, <1>6

(* However f64 rounds: a share is a number, and at least one token.        *)
LEMMA SharesPositive ==
  ASSUME TypeOK, NEW m \in active, NEW share \in Shares(m)
  PROVE  share \in Nat /\ share >= 1
<1> DEFINE part == round * def[m].weight
           total == WeightOver(active)
<1>1. part \in Nat /\ total \in Nat /\ total > 0
  BY ActiveWeights
<1>2. PICK q \in Truncated(part, total) : share = MaxOf(1, q)
  BY DEF Shares
<1>3. part \div total \in Int
  BY <1>1
<1>4. q \in Int
  <2> HIDE DEF part, total
  <2> QED
    BY <1>2, <1>3 DEF Truncated, Rounded, TypeOK, Arithmetics
<1>5. QED
  BY <1>2, <1>4 DEF MaxOf

LEMMA FillGrantBounds ==
  ASSUME IndInv, phase = "fill", NEW m \in todo, NEW share \in Shares(m)
  PROVE  /\ m \in Modules
         /\ FillGrant(m, share) \in Nat /\ FillGrant(m, share) >= 1
         /\ FillGrant(m, share) <= Cap(m) - current[m]
         /\ FillGrant(m, share) <= remaining
<1>1. m \in active /\ m \in Modules
  BY DEF IndInv, TypeOK
<1>2. Cap(m) \in Nat /\ current[m] \in Nat /\ remaining \in Nat
  BY <1>1, Bounds DEF IndInv, TypeOK
<1>3. current[m] < Cap(m) /\ remaining > 0
  BY DEF IndInv, FillInv
<1>4. share \in Nat /\ share >= 1
  BY <1>1, SharesPositive DEF IndInv
<1>5. QED
  BY <1>1, <1>2, <1>3, <1>4 DEF FillGrant, MinOf3, MinOf

-----------------------------------------------------------------------------

LEMMA InitInv == Init => IndInv
<1> SUFFICES ASSUME Init PROVE IndInv
  OBVIOUS
<1> USE DEF Init
<1>1. TypeOK
  BY DEF TypeOK, None, Phases
<1>2. StartInv /\ FillInv /\ BorrowInv /\ Conservation
  BY DEF StartInv, FillInv, BorrowInv, Conservation, Allocating
<1>3. QED
  BY <1>1, <1>2 DEF IndInv

LEMMA AdmitInv == IndInv /\ Admit => IndInv'
<1> SUFFICES ASSUME IndInv, Admit PROVE IndInv'
  OBVIOUS
<1> USE DEF IndInv, Admit, lending
<1>1. Seed' = Seed /\ \A m \in Modules : Cap(m)' = Cap(m)
  BY InputsStable
<1>2. \A m \in Modules : /\ Seed[m] \in Nat /\ Cap(m) \in Nat /\ Seed[m] <= Cap(m)
  BY Bounds
<1>3. available \in Int /\ FloorTotal <= available
  BY InputsAssumption DEF TypeOK, BudgetHoldsFloors
<1>4. /\ Seed \in [Modules -> Nat]
      /\ TotalOver(Seed, Modules) \in Nat
      /\ TotalOver(Seed, Modules) <= FloorTotal
  BY SeedTotal
<1>5. FloorTotal \in Nat
  <2>1. \A m \in Modules : [o \in Modules |-> def[o].floor][m] \in Nat
    BY Bounds DEF ValidModule
  <2>2. QED
    BY <2>1, ModulesAssumption, TotalNat DEF FloorTotal
<1>6. remaining' \in Nat /\ TotalOver(current', Modules) + remaining' = available
  BY <1>3, <1>4, <1>5
<1>7. TypeOK'
  BY <1>4, <1>6 DEF TypeOK, StartInv, inputs, BelowCap, Phases
<1>8. FillInv'
  BY <1>1, <1>2, <1>6 DEF FillInv, StartInv, BelowCap, None
<1>9. StartInv' /\ BorrowInv'
  BY DEF StartInv, BorrowInv
<1>10. Conservation'
  BY <1>6 DEF Conservation, inputs
<1>11. QED
  BY <1>7, <1>8, <1>9, <1>10

LEMMA RejectInv == IndInv /\ Reject => IndInv'
<1> SUFFICES ASSUME IndInv, Reject PROVE IndInv'
  OBVIOUS
<1> USE DEF IndInv, Reject, inputs, filling, lending
<1>1. TypeOK'
  BY DEF TypeOK, Phases
<1>2. StartInv' /\ FillInv' /\ BorrowInv' /\ Conservation'
  BY DEF StartInv, FillInv, BorrowInv, Conservation, Allocating
<1>3. QED
  BY <1>1, <1>2

LEMMA StartRoundInv == IndInv /\ StartRound => IndInv'
<1> SUFFICES ASSUME IndInv, StartRound PROVE IndInv'
  OBVIOUS
<1> USE DEF IndInv, StartRound, lending
<1>1. Seed' = Seed /\ \A m \in Modules : Cap(m)' = Cap(m)
  BY InputsStable
<1>2. remaining \in Nat /\ remaining > 0 /\ active # {}
  BY DEF FillOver, TypeOK
<1>3. TypeOK'
  BY DEF TypeOK, inputs
<1>4. FillInv'
  BY <1>1, <1>2 DEF FillInv, TypeOK
<1>5. StartInv' /\ BorrowInv'
  BY DEF StartInv, BorrowInv
<1>6. Conservation'
  BY DEF Conservation, Allocating, inputs
<1>7. QED
  BY <1>3, <1>4, <1>5, <1>6

(* TotalAdd over the modules.                                              *)
LEMMA ModulesTotalAdd ==
  ASSUME NEW f, NEW g, NEW m \in Modules,
         \A o \in Modules : f[o] \in Nat /\ g[o] \in Nat,
         f[m] <= g[m],
         \A o \in Modules \ {m} : g[o] = f[o]
  PROVE  TotalOver(g, Modules) = TotalOver(f, Modules) + (g[m] - f[m])
<1>1. IsFiniteSet(Modules)
  BY ModulesAssumption
<1>2. QED
  BY <1>1, TotalAdd

(* current gains tokens at m only: the step both fills and leases take.    *)
LEMMA GainAt ==
  ASSUME TypeOK, NEW m \in Modules, NEW d \in Nat, d <= remaining,
         current' = [current EXCEPT ![m] = @ + d], remaining' = remaining - d
  PROVE  /\ current' \in [Modules -> Nat] /\ remaining' \in Nat
         /\ current'[m] = current[m] + d
         /\ \A o \in Modules : o # m => current'[o] = current[o]
         /\ TotalOver(current', Modules) + remaining' = TotalOver(current, Modules) + remaining
<1>1. current \in [Modules -> Nat] /\ remaining \in Nat
  BY DEF TypeOK
<1>2. /\ current' \in [Modules -> Nat] /\ remaining' \in Nat
      /\ current'[m] = current[m] + d
      /\ \A o \in Modules : o # m => current'[o] = current[o]
  BY <1>1
<1>3. /\ IsFiniteSet(Modules)
      /\ \A o \in Modules : current[o] \in Nat /\ current'[o] \in Nat
      /\ current[m] <= current'[m] /\ current'[m] - current[m] = d
      /\ \A o \in Modules \ {m} : current'[o] = current[o]
  BY <1>1, <1>2, ModulesAssumption
<1>4. TotalOver(current', Modules) = TotalOver(current, Modules) + d
  <2>1. TotalOver(current', Modules) = TotalOver(current, Modules) + (current'[m] - current[m])
    BY <1>3, ModulesTotalAdd
  <2>2. QED
    BY <1>3, <2>1
<1>5. TotalOver(current, Modules) \in Nat
  BY <1>1, ModulesAssumption, TotalNat
<1>6. QED
  BY <1>1, <1>2, <1>4, <1>5

LEMMA FillStepInv == ASSUME NEW m \in Modules PROVE IndInv /\ Fill(m) => IndInv'
<1> SUFFICES ASSUME IndInv, Fill(m) PROVE IndInv'
  OBVIOUS
<1> USE DEF IndInv, Fill, lending
<1>1. Seed' = Seed /\ \A o \in Modules : Cap(o)' = Cap(o)
  BY InputsStable
<1>2. phase = "fill" /\ m \in todo
  BY DEF Least
<1> PICK share \in Shares(m) :
      /\ current' = [current EXCEPT ![m] = @ + FillGrant(m, share)]
      /\ remaining' = remaining - FillGrant(m, share)
  OBVIOUS
<1>3. /\ FillGrant(m, share) \in Nat /\ FillGrant(m, share) >= 1
      /\ FillGrant(m, share) <= Cap(m) - current[m]
      /\ FillGrant(m, share) <= remaining
  BY <1>2, FillGrantBounds
<1>4. /\ current' \in [Modules -> Nat] /\ remaining' \in Nat
      /\ current'[m] = current[m] + FillGrant(m, share)
      /\ \A o \in Modules : o # m => current'[o] = current[o]
      /\ TotalOver(current', Modules) + remaining' = TotalOver(current, Modules) + remaining
  BY <1>3, GainAt
<1>5. todo' \subseteq todo /\ m \notin todo' /\ active' \subseteq active
  BY DEF Retain
<1>6. remaining' < remaining
  BY <1>3, <1>4 DEF TypeOK
<1>7. TypeOK'
  <2>1. todo' \subseteq active'
    BY <1>5 DEF TypeOK
  <2>2. QED
    BY <1>4, <1>5, <2>1 DEF TypeOK, inputs
<1>8. FillInv'
  <2>1. borrowed' = None /\ lent' = None /\ leases' = <<>>
    BY <1>2 DEF FillInv, None
  <2>2. ASSUME NEW o \in Modules
        PROVE  /\ Seed'[o] <= current'[o] /\ current'[o] <= Cap(o)'
               /\ current'[o] >= current[o]
    <3>1. /\ Seed[o] <= current[o] /\ current[o] <= Cap(o)
          /\ Seed[o] \in Nat /\ Cap(o) \in Nat /\ current[o] \in Nat
      BY <1>2, Bounds DEF FillInv, TypeOK
    <3>2. CASE o = m
      BY <1>1, <1>3, <1>4, <3>1, <3>2
    <3>3. CASE o # m
      BY <1>1, <1>4, <3>1, <3>3
    <3>4. QED
      BY <3>2, <3>3
  <2>3. ASSUME NEW o \in Modules \ active'
        PROVE  current'[o] = Cap(o)'
    <3>1. current'[o] <= Cap(o)' /\ Cap(o)' = Cap(o) /\ Cap(o) \in Nat /\ current'[o] \in Nat
      BY <2>2, <1>1, <1>4, Bounds
    <3>2. CASE o \notin active
      <4>1. current[o] = Cap(o) /\ current'[o] >= current[o]
        BY <1>2, <2>2, <3>2 DEF FillInv
      <4>2. QED
        BY <3>1, <4>1
    <3>3. CASE o \in active
      <4>1. o \notin BelowCap(current')
        BY <3>3, <2>3 DEF Retain
      <4>2. ~(current'[o] < Cap(o))
        BY <4>1 DEF BelowCap
      <4>3. QED
        BY <3>1, <4>2
    <3>4. QED
      BY <3>2, <3>3
  <2>4. ASSUME NEW o \in todo'
        PROVE  current'[o] < Cap(o)'
    <3>1. o \in todo /\ o # m /\ o \in Modules
      BY <1>5 DEF TypeOK
    <3>2. QED
      BY <3>1, <1>1, <1>2, <1>4 DEF FillInv
  <2>5. todo' = {} => \A o \in active' : current'[o] < Cap(o)'
    BY <1>1, <1>5 DEF Retain, BelowCap, TypeOK
  <2>6. remaining <= round /\ round' = round /\ round \in Nat
    BY <1>2 DEF FillInv, TypeOK
  <2>7. todo' # {} => remaining' > 0 /\ remaining' <= round'
    BY <1>4, <1>6, <2>6 DEF TypeOK
  <2>8. todo' = {} /\ remaining' > 0 => round' # remaining'
    BY <1>4, <1>6, <2>6 DEF TypeOK
  <2>9. QED
    BY <2>1, <2>2, <2>3, <2>4, <2>5, <2>7, <2>8 DEF FillInv
<1>9. StartInv' /\ BorrowInv'
  BY <1>2 DEF StartInv, BorrowInv
<1>10. Conservation'
  BY <1>2, <1>4 DEF Conservation, Allocating, inputs
<1>11. QED
  BY <1>7, <1>8, <1>9, <1>10

LEMMA EndFillInv == IndInv /\ EndFill => IndInv'
<1> SUFFICES ASSUME IndInv, EndFill PROVE IndInv'
  OBVIOUS
<1> USE DEF IndInv, EndFill, filling
<1>1. /\ Seed' = Seed
      /\ \A m \in Modules : Cap(m)' = Cap(m) /\ Ceiling(m)' = Ceiling(m)
  BY InputsStable
<1>2. \A m \in Modules : DonorAmount(m) \in Nat
  <2>1. SUFFICES ASSUME NEW m \in Modules PROVE DonorAmount(m) \in Nat
    OBVIOUS
  <2>2. def[m].target \in Nat /\ current[m] \in Nat
    BY Bounds DEF TypeOK, ValidModule
  <2>3. QED
    BY <2>2 DEF DonorAmount, MaxOf
<1>3. TypeOK'
  <2>1. donorLeft' \in [Modules -> Nat]
    BY <1>2
  <2>2. DonorTotal \in Nat
    <3>1. \A m \in Modules : [o \in Modules |-> DonorAmount(o)][m] \in Nat
      BY <1>2
    <3>2. QED
      BY <3>1, ModulesAssumption, TotalNat DEF DonorTotal
  <2>3. slack' \in Nat
    BY <2>2 DEF MaxOf, TypeOK
  <2>4. QED
    BY <2>1, <2>3 DEF TypeOK, inputs, Borrowers, Phases
<1>4. BorrowInv'
  <2>1. ASSUME NEW m \in Modules
        PROVE  Seed'[m] <= current'[m] /\ current'[m] <= Ceiling(m)'
    BY <1>1, Bounds DEF FillInv, TypeOK
  <2>2. \A b \in waiting' : def'[b].canBorrow /\ demand'[b] > def'[b].target
    BY DEF Borrowers, inputs
  <2>3. CASE remaining = 0
    BY <2>1, <2>2, <2>3 DEF BorrowInv, FillInv, None
  <2>4. CASE remaining # 0
    <3>1. \A m \in Modules : current[m] = Cap(m)
      BY <2>4 DEF FillOver, FillInv, TypeOK
    <3>2. Filled'
      BY <3>1, <1>1, Bounds DEF Filled
    <3>3. ASSUME NEW m \in Modules, lent'[m] + donorLeft'[m] > 0
          PROVE  /\ def'[m].canLend
                 /\ demand'[m] <= def'[m].target
                 /\ current'[m] = demand'[m]
                 /\ current'[m] + lent'[m] + donorLeft'[m] = def'[m].target
      <4>1. lent'[m] = 0 /\ donorLeft'[m] = DonorAmount(m)
        BY DEF FillInv, None
      <4>2. DonorAmount(m) > 0
        BY <3>3, <4>1, <1>2
      <4>3. demand[m] \in Nat /\ def[m].target \in Nat /\ current[m] = Cap(m)
        BY <3>1, Bounds DEF ValidModule
      <4>4. def[m].canLend /\ current[m] < def[m].target
            /\ DonorAmount(m) = def[m].target - current[m]
        BY <4>2, <4>3, Bounds DEF DonorAmount, MaxOf
      <4>5. current[m] = demand[m] /\ demand[m] <= def[m].target
        BY <4>3, <4>4 DEF Cap, MinOf
      <4>6. QED
        BY <4>1, <4>3, <4>4, <4>5 DEF inputs
    <3>4. QED
      BY <2>1, <2>2, <3>2, <3>3 DEF BorrowInv
  <2>5. QED
    BY <2>3, <2>4
<1>5. StartInv' /\ FillInv'
  BY DEF StartInv, FillInv
<1>6. Conservation'
  BY DEF Conservation, Allocating, inputs
<1>7. QED
  BY <1>3, <1>4, <1>5, <1>6

(* A lease of t tokens to b from a module or the slack, whichever way the  *)
(* tokens are accounted for: what both lending steps have in common.       *)
LEMMA LeaseStep ==
  ASSUME IndInv, NEW b \in Modules, WantsMore(b), UNCHANGED <<inputs, filling>>,
         NEW t \in Nat, t <= Need(b), t <= remaining,
         NEW source \in Modules \cup {Slack}, Grant(b, source, t)
  PROVE  /\ current' \in [Modules -> Nat] /\ remaining' \in Nat
         /\ borrowed' \in [Modules -> Nat]
         /\ leases' \in Seq([donor : Modules \cup {Slack}, borrower : Modules, tokens : Nat])
         /\ \A m \in Modules : Seed'[m] <= current'[m] /\ current'[m] <= Ceiling(m)'
         /\ Filled /\ Filled'
         /\ \A m \in Modules : m # b => current'[m] = current[m]
         /\ lent[b] = 0 /\ donorLeft[b] = 0
         /\ TotalOver(current', Modules) + remaining' = available
<1> USE DEF IndInv
<1>1. /\ Seed' = Seed
      /\ \A m \in Modules : Cap(m)' = Cap(m) /\ Ceiling(m)' = Ceiling(m)
  BY InputsStable
<1>2. phase = "borrow" /\ b \in waiting /\ remaining > 0
  BY DEF WantsMore, FirstServed
<1>3. Filled
  BY <1>2 DEF BorrowInv
<1>4. lent[b] = 0 /\ donorLeft[b] = 0
  <2>1. def[b].target \in Nat /\ demand[b] \in Nat /\ lent[b] \in Nat /\ donorLeft[b] \in Nat
    BY Bounds DEF TypeOK, ValidModule
  <2>2. demand[b] > def[b].target
    BY <1>2 DEF BorrowInv
  <2>3. lent[b] + donorLeft[b] > 0 => demand[b] <= def[b].target
    BY <1>2 DEF BorrowInv
  <2>4. QED
    BY <2>1, <2>2, <2>3
<1>5. current' = [current EXCEPT ![b] = @ + t] /\ remaining' = remaining - t
  BY DEF Grant
<1>6. /\ current' \in [Modules -> Nat] /\ remaining' \in Nat
      /\ current'[b] = current[b] + t
      /\ \A m \in Modules : m # b => current'[m] = current[m]
      /\ TotalOver(current', Modules) + remaining' = TotalOver(current, Modules) + remaining
  BY <1>5, GainAt
<1>7. borrowed' \in [Modules -> Nat]
  BY DEF TypeOK, Grant
<1>8. leases' \in Seq([donor : Modules \cup {Slack}, borrower : Modules, tokens : Nat])
  BY DEF TypeOK, Grant
<1>9. ASSUME NEW m \in Modules
      PROVE  /\ Seed'[m] <= current'[m] /\ current'[m] <= Ceiling(m)'
             /\ Cap(m)' <= current'[m]
  <2>1. /\ Seed[m] <= current[m] /\ current[m] <= Ceiling(m) /\ Cap(m) <= current[m]
        /\ Seed[m] \in Nat /\ Cap(m) \in Nat /\ Ceiling(m) \in Nat /\ current[m] \in Nat
    BY <1>2, <1>3, Bounds DEF BorrowInv, Filled, TypeOK
  <2>2. CASE m = b
    <3>1. t <= Ceiling(b) - current[b]
      BY DEF Need
    <3>2. QED
      BY <1>1, <1>6, <2>1, <2>2, <3>1
  <2>3. CASE m # b
    BY <1>1, <1>6, <2>1, <2>3
  <2>4. QED
    BY <2>2, <2>3
<1>10. TotalOver(current, Modules) + remaining = available
  BY <1>2 DEF Conservation, Allocating
<1>11. QED
  BY <1>3, <1>4, <1>6, <1>7, <1>8, <1>9, <1>10 DEF Filled

LEMMA LendFromDonorInv ==
  ASSUME NEW b \in Modules, NEW d \in Modules
  PROVE  IndInv /\ LendFromDonor(b, d) => IndInv'
<1> SUFFICES ASSUME IndInv, LendFromDonor(b, d) PROVE IndInv'
  OBVIOUS
<1> DEFINE t == MinOf3(Need(b), donorLeft[d], remaining)
<1> USE DEF IndInv, LendFromDonor
<1>1. WantsMore(b) /\ phase = "borrow" /\ remaining > 0 /\ Need(b) > 0
  BY DEF WantsMore
<1>2. d # b /\ donorLeft[d] > 0
  BY DEF Least, DonorsFor
<1>3. Need(b) \in Int /\ donorLeft[d] \in Nat /\ remaining \in Nat /\ lent[d] \in Nat
  <2>1. donorLeft[d] \in Nat /\ remaining \in Nat /\ lent[d] \in Nat /\ current[b] \in Nat
    BY DEF TypeOK
  <2>2. Ceiling(b) \in Nat
    BY Bounds
  <2>3. QED
    BY <2>1, <2>2 DEF Need
<1>4. t \in Nat /\ t <= Need(b) /\ t <= donorLeft[d] /\ t <= remaining
  BY <1>1, <1>2, <1>3 DEF MinOf3, MinOf
<1>5. Grant(b, d, t) /\ UNCHANGED <<inputs, filling>>
  OBVIOUS
<1>6. /\ current' \in [Modules -> Nat] /\ remaining' \in Nat
      /\ borrowed' \in [Modules -> Nat]
      /\ leases' \in Seq([donor : Modules \cup {Slack}, borrower : Modules, tokens : Nat])
      /\ \A m \in Modules : Seed'[m] <= current'[m] /\ current'[m] <= Ceiling(m)'
      /\ Filled /\ Filled'
      /\ \A m \in Modules : m # b => current'[m] = current[m]
      /\ lent[b] = 0 /\ donorLeft[b] = 0
      /\ TotalOver(current', Modules) + remaining' = available
  <2> HIDE DEF t, LendFromDonor
  <2>1. QED
    BY <1>1, <1>4, <1>5, LeaseStep
<1>7. donorLeft' = [donorLeft EXCEPT ![d] = @ - t] /\ lent' = [lent EXCEPT ![d] = @ + t]
  BY DEF BookLent
<1>8. donorLeft' \in [Modules -> Nat] /\ lent' \in [Modules -> Nat]
  <2> HIDE DEF t
  <2>1. donorLeft' \in [Modules -> Nat]
    BY <1>3, <1>4, <1>7 DEF TypeOK
  <2>2. lent' \in [Modules -> Nat]
    BY <1>3, <1>4, <1>7 DEF TypeOK
  <2>3. QED
    BY <2>1, <2>2
<1>9. TypeOK'
  BY <1>6, <1>8 DEF TypeOK, inputs, filling
<1>10. \A m \in Modules : lent'[m] + donorLeft'[m] = lent[m] + donorLeft[m]
  <2> HIDE DEF t
  <2>1. QED
    BY <1>3, <1>4, <1>7 DEF TypeOK
<1>11. BorrowInv'
  <2>1. ASSUME NEW m \in Modules, lent'[m] + donorLeft'[m] > 0
        PROVE  /\ def'[m].canLend
               /\ demand'[m] <= def'[m].target
               /\ current'[m] = demand'[m]
               /\ current'[m] + lent'[m] + donorLeft'[m] = def'[m].target
    <3>1. m # b
      BY <1>6, <1>10, <2>1
    <3>2. /\ def[m].canLend
          /\ demand[m] <= def[m].target
          /\ current[m] = demand[m]
          /\ current[m] + lent[m] + donorLeft[m] = def[m].target
      BY <1>1, <1>10, <2>1 DEF BorrowInv
    <3>3. /\ current[m] \in Nat /\ lent[m] \in Nat /\ donorLeft[m] \in Nat
          /\ lent'[m] \in Nat /\ donorLeft'[m] \in Nat
      BY <1>8 DEF TypeOK
    <3>4. current'[m] = current[m] /\ lent'[m] + donorLeft'[m] = lent[m] + donorLeft[m]
      BY <1>6, <1>10, <3>1
    <3>5. current'[m] + lent'[m] + donorLeft'[m] = current[m] + lent[m] + donorLeft[m]
      BY <3>3, <3>4
    <3>6. def' = def /\ demand' = demand
      BY DEF inputs
    <3>7. QED
      BY <3>2, <3>4, <3>5, <3>6
  <2>2. \A o \in waiting' : def'[o].canBorrow /\ demand'[o] > def'[o].target
    BY <1>1 DEF BorrowInv, inputs
  <2>3. QED
    BY <1>6, <2>1, <2>2 DEF BorrowInv
<1>12. StartInv' /\ FillInv' /\ Conservation'
  BY <1>1, <1>6 DEF StartInv, FillInv, Conservation, inputs
<1>13. QED
  BY <1>9, <1>11, <1>12

LEMMA LendFromSlackInv ==
  ASSUME NEW b \in Modules
  PROVE  IndInv /\ LendFromSlack(b) => IndInv'
<1> SUFFICES ASSUME IndInv, LendFromSlack(b) PROVE IndInv'
  OBVIOUS
<1> DEFINE t == MinOf3(Need(b), slack, remaining)
<1> USE DEF IndInv, LendFromSlack
<1>1. WantsMore(b) /\ phase = "borrow" /\ remaining > 0 /\ Need(b) > 0 /\ slack > 0
  BY DEF WantsMore
<1>2. Need(b) \in Int /\ slack \in Nat /\ remaining \in Nat
  BY Bounds DEF Need, TypeOK
<1>3. t \in Nat /\ t <= Need(b) /\ t <= slack /\ t <= remaining
  BY <1>1, <1>2 DEF MinOf3, MinOf
<1>4. Grant(b, Slack, t) /\ UNCHANGED <<inputs, filling>> /\ slack' = slack - t
  OBVIOUS
<1>5. /\ current' \in [Modules -> Nat] /\ remaining' \in Nat
      /\ borrowed' \in [Modules -> Nat]
      /\ leases' \in Seq([donor : Modules \cup {Slack}, borrower : Modules, tokens : Nat])
      /\ \A m \in Modules : Seed'[m] <= current'[m] /\ current'[m] <= Ceiling(m)'
      /\ Filled /\ Filled'
      /\ \A m \in Modules : m # b => current'[m] = current[m]
      /\ lent[b] = 0 /\ donorLeft[b] = 0
      /\ TotalOver(current', Modules) + remaining' = available
  <2> HIDE DEF t, LendFromSlack
  <2>1. QED
    BY <1>1, <1>3, <1>4, LeaseStep
<1>6. TypeOK'
  <2>1. slack' \in Nat
    BY <1>2, <1>3, <1>4
  <2>2. QED
    BY <1>5, <2>1 DEF TypeOK, inputs, filling
<1>7. BorrowInv'
  <2>1. ASSUME NEW m \in Modules, lent'[m] + donorLeft'[m] > 0
        PROVE  /\ def'[m].canLend
               /\ demand'[m] <= def'[m].target
               /\ current'[m] = demand'[m]
               /\ current'[m] + lent'[m] + donorLeft'[m] = def'[m].target
    <3>1. m # b
      BY <1>5, <2>1
    <3>2. QED
      BY <1>1, <1>5, <2>1, <3>1 DEF BorrowInv, inputs
  <2>2. \A o \in waiting' : def'[o].canBorrow /\ demand'[o] > def'[o].target
    BY <1>1 DEF BorrowInv, inputs
  <2>3. QED
    BY <1>5, <2>1, <2>2 DEF BorrowInv
<1>8. StartInv' /\ FillInv' /\ Conservation'
  BY <1>1, <1>5 DEF StartInv, FillInv, Conservation, inputs
<1>9. QED
  BY <1>6, <1>7, <1>8

LEMMA NextBorrowerInv ==
  ASSUME NEW b \in Modules
  PROVE  IndInv /\ NextBorrower(b) => IndInv'
<1> SUFFICES ASSUME IndInv, NextBorrower(b) PROVE IndInv'
  OBVIOUS
<1> USE DEF IndInv, NextBorrower, inputs, filling
<1>1. Seed' = Seed /\ \A m \in Modules : Cap(m)' = Cap(m) /\ Ceiling(m)' = Ceiling(m)
  BY InputsStable
<1>2. TypeOK'
  BY DEF TypeOK
<1>3. StartInv' /\ FillInv' /\ Conservation'
  BY DEF StartInv, FillInv, Conservation, Allocating
<1>4. BorrowInv'
  BY <1>1 DEF BorrowInv, Filled
<1>5. QED
  BY <1>2, <1>3, <1>4

LEMMA FinishInv == IndInv /\ Finish => IndInv'
<1> SUFFICES ASSUME IndInv, Finish PROVE IndInv'
  OBVIOUS
<1> USE DEF IndInv, Finish, inputs, filling, lending
<1>1. Seed' = Seed /\ \A m \in Modules : Cap(m)' = Cap(m) /\ Ceiling(m)' = Ceiling(m)
  BY InputsStable
<1>2. TypeOK'
  BY DEF TypeOK, Phases
<1>3. StartInv' /\ FillInv' /\ Conservation'
  BY DEF StartInv, FillInv, Conservation, Allocating
<1>4. BorrowInv'
  BY <1>1 DEF BorrowInv, Filled
<1>5. QED
  BY <1>2, <1>3, <1>4

LEMMA StutterInv == IndInv /\ UNCHANGED vars => IndInv'
<1> SUFFICES ASSUME IndInv, UNCHANGED vars PROVE IndInv'
  OBVIOUS
<1> USE DEF IndInv, vars, inputs, filling, lending
<1>1. Seed' = Seed /\ \A m \in Modules : Cap(m)' = Cap(m) /\ Ceiling(m)' = Ceiling(m)
  BY InputsStable
<1>2. TypeOK' /\ Conservation'
  BY DEF TypeOK, Conservation, Allocating
<1>3. StartInv'
  BY DEF StartInv
<1>4. FillInv'
  BY <1>1 DEF FillInv, TypeOK
<1>5. BorrowInv'
  BY <1>1 DEF BorrowInv, Filled
<1>6. QED
  BY <1>2, <1>3, <1>4, <1>5

(* The inductive invariant holds of every call.                            *)
THEOREM Inductive == Spec => []IndInv
<1>1. IndInv /\ [Next]_vars => IndInv'
  <2> SUFFICES ASSUME IndInv, [Next]_vars PROVE IndInv'
    OBVIOUS
  <2>1. CASE Admit
    BY <2>1, AdmitInv
  <2>2. CASE Reject
    BY <2>2, RejectInv
  <2>3. CASE StartRound
    BY <2>3, StartRoundInv
  <2>4. CASE EndFill
    BY <2>4, EndFillInv
  <2>5. CASE Finish
    BY <2>5, FinishInv
  <2>6. CASE \E m \in Modules : Fill(m) \/ LendFromSlack(m) \/ NextBorrower(m)
    BY <2>6, FillStepInv, LendFromSlackInv, NextBorrowerInv
  <2>7. CASE \E b, d \in Modules : LendFromDonor(b, d)
    BY <2>7, LendFromDonorInv
  <2>8. CASE Returned \/ UNCHANGED vars
    BY <2>8, StutterInv DEF Returned
  <2>9. QED
    BY <2>1, <2>2, <2>3, <2>4, <2>5, <2>6, <2>7, <2>8 DEF Next, Step
<1>2. QED
  BY <1>1, InitInv, PTL DEF Spec

-----------------------------------------------------------------------------

(* No counter of the allocator leaves its type: what remains, the slack    *)
(* and the donors' amounts never go below zero.                            *)
THEOREM TypeCorrect == Spec => []TypeOK
<1>1. IndInv => TypeOK
  BY DEF IndInv
<1>2. QED
  BY <1>1, Inductive, PTL

(* The budget is conserved: current and remaining always add up to it.     *)
THEOREM BudgetConserved == Spec => []Conservation
<1>1. IndInv => Conservation
  BY DEF IndInv
<1>2. QED
  BY <1>1, Inductive, PTL

(* Every module keeps its floor and stays within its demand and maximum.   *)
THEOREM GrantsBounded == Spec => []GrantBounds
<1>1. IndInv => GrantBounds
  <2> SUFFICES ASSUME IndInv, Allocating, NEW m \in Modules
               PROVE  Seed[m] <= current[m] /\ current[m] <= Ceiling(m)
    BY DEF GrantBounds
  <2>1. CASE phase = "fill"
    <3>1. Seed[m] <= current[m] /\ current[m] <= Cap(m)
      BY <2>1 DEF IndInv, FillInv
    <3>2. Cap(m) <= Ceiling(m) /\ Cap(m) \in Nat /\ Ceiling(m) \in Nat /\ current[m] \in Nat
      BY Bounds DEF IndInv, TypeOK
    <3>3. QED
      BY <3>1, <3>2
  <2>2. CASE phase \in {"borrow", "done"}
    BY <2>2 DEF IndInv, BorrowInv
  <2>3. QED
    BY <2>1, <2>2 DEF Allocating
<1>2. QED
  BY <1>1, Inductive, PTL

(* Nothing is lent before the borrowers' turn.                             *)
LEMMA NoLeaseBeforeBorrow ==
  ASSUME IndInv, phase \notin {"borrow", "done"}, NEW m \in Modules
  PROVE  lent[m] = 0 /\ borrowed[m] = 0
<1>1. phase \in {"start", "rejected", "fill"}
  BY DEF IndInv, TypeOK, Phases
<1>2. lent = None /\ borrowed = None
  BY <1>1 DEF IndInv, StartInv, FillInv
<1>3. QED
  BY <1>2 DEF None

(* Only unused capacity is lent, and a lender's target accounts for it.    *)
THEOREM LentIsUnused == Spec => []LendOnlyUnused
<1>1. IndInv => LendOnlyUnused
  <2> SUFFICES ASSUME IndInv, NEW m \in Modules, lent[m] > 0
               PROVE  /\ def[m].canLend
                      /\ current[m] = demand[m]
                      /\ current[m] + lent[m] + donorLeft[m] = def[m].target
    BY DEF LendOnlyUnused
  <2>1. lent[m] \in Nat /\ donorLeft[m] \in Nat /\ lent[m] + donorLeft[m] > 0
    BY DEF IndInv, TypeOK
  <2>2. phase \in {"borrow", "done"}
    BY <2>1, NoLeaseBeforeBorrow
  <2>3. lent # None
    BY <2>1 DEF None
  <2>4. QED
    BY <2>1, <2>2, <2>3 DEF IndInv, BorrowInv
<1>2. QED
  BY <1>1, Inductive, PTL

(* A lease exists only when every module has its own share.                *)
THEOREM SharesBeforeLeases == Spec => []TargetsBeforeLeases
<1>1. IndInv => TargetsBeforeLeases
  <2> SUFFICES ASSUME IndInv, NEW b \in Modules, borrowed[b] > 0, NEW m \in Modules
               PROVE  current[m] >= Cap(m)
    BY DEF TargetsBeforeLeases
  <2>1. phase \in {"borrow", "done"}
    BY NoLeaseBeforeBorrow
  <2>2. borrowed # None
    BY DEF None
  <2>3. Filled
    BY <2>1, <2>2 DEF IndInv, BorrowInv
  <2>4. current[m] \in Nat /\ Cap(m) \in Nat
    BY Bounds DEF IndInv, TypeOK
  <2>5. QED
    BY <2>3, <2>4 DEF Filled
<1>2. QED
  BY <1>1, Inductive, PTL

-----------------------------------------------------------------------------
(* The borrowers' turns.                                                   *)

(* What a module holds when nothing stands in its way.                     *)
Entitled(m) == IF def[m].canBorrow THEN Ceiling(m) ELSE Cap(m)

(* While borrowers are served, the donors and the slack account for what   *)
(* remains; as long as something remains, only those still waiting lack    *)
(* anything; and who has leased was served after everybody before it had   *)
(* all it may have.                                                        *)
ServedInv ==
  phase \in {"borrow", "done"} =>
    /\ phase = "done" => waiting = {}
    /\ remaining <= TotalOver(donorLeft, Modules) + slack
    /\ remaining > 0 => \A m \in Modules \ waiting : current[m] = Entitled(m)
    /\ \A b, first \in Modules :
         borrowed[b] > 0 /\ def[first].canBorrow /\ ServedBefore(first, b)
           => current[first] = Ceiling(first)

(* The order of the borrowers is one: nobody comes before a module that    *)
(* comes before it.                                                        *)
LEMMA ServedBeforeAsymmetric ==
  ASSUME TypeOK, NEW m \in Modules, NEW other \in Modules, ServedBefore(m, other)
  PROVE  ~ServedBefore(other, m)
<1>1. /\ def[m].weight \in Nat /\ def[other].weight \in Nat
      /\ def[m].order \in Nat /\ def[other].order \in Nat
  BY Bounds DEF ValidModule
<1>2. m \in Nat /\ other \in Nat
  BY ModulesAssumption
<1>3. QED
  BY <1>1, <1>2 DEF ServedBefore

LEMMA EntitledStable ==
  ASSUME UNCHANGED inputs
  PROVE  /\ \A m \in Modules : Entitled(m)' = Entitled(m) /\ Ceiling(m)' = Ceiling(m)
         /\ \A m, other \in Modules : ServedBefore(m, other)' = ServedBefore(m, other)
BY InputsStable DEF inputs, Entitled, ServedBefore

(* Who need not borrow has all it may have once the targets are filled.    *)
LEMMA EndFillServes ==
  ASSUME IndInv, EndFill
  PROVE  ServedInv'
<1>1. UNCHANGED inputs /\ UNCHANGED <<current, remaining, borrowed>> /\ phase' = "borrow"
  BY DEF EndFill
<1>2. \A m \in Modules : Entitled(m)' = Entitled(m)
  BY <1>1, EntitledStable
<1>3. phase = "fill" /\ todo = {} /\ FillOver /\ borrowed = None
  BY DEF EndFill, IndInv, FillInv
<1>4. remaining' <= TotalOver(donorLeft', Modules) + slack'
  <2>1. \A m \in Modules : [o \in Modules |-> DonorAmount(o)][m] \in Nat
    <3>1. SUFFICES ASSUME NEW m \in Modules PROVE DonorAmount(m) \in Nat
      OBVIOUS
    <3>2. def[m].target \in Nat /\ current[m] \in Nat
      BY Bounds DEF TypeOK, ValidModule, IndInv
    <3>3. QED
      BY <3>2 DEF DonorAmount, MaxOf
  <2>2. DonorTotal \in Nat
    BY <2>1, ModulesAssumption, TotalNat DEF DonorTotal
  <2>3. TotalOver(donorLeft', Modules) = DonorTotal /\ slack' = MaxOf(0, remaining - DonorTotal)
    BY DEF EndFill, DonorTotal
  <2>4. remaining \in Nat
    BY DEF IndInv, TypeOK
  <2>5. QED
    BY <1>1, <2>2, <2>3, <2>4 DEF MaxOf
<1>5. ASSUME remaining > 0, NEW m \in Modules, m \notin waiting'
      PROVE  current[m] = Entitled(m)
  <2>1. current[m] = Cap(m)
    BY <1>3, <1>5 DEF FillOver, IndInv, FillInv, TypeOK
  <2>2. ~(def[m].canBorrow /\ demand[m] > def[m].target /\ current[m] < def[m].max)
    BY <1>5 DEF EndFill, Borrowers
  <2>3. /\ def[m].target \in Nat /\ def[m].max \in Nat /\ def[m].target <= def[m].max
        /\ demand[m] \in Nat
    BY Bounds DEF IndInv, ValidModule
  <2>4. QED
    BY <2>1, <2>2, <2>3 DEF Entitled, Ceiling, Cap, MinOf
<1>6. \A b \in Modules : borrowed'[b] = 0
  BY <1>1, <1>3 DEF None
<1>7. QED
  BY <1>1, <1>2, <1>4, <1>5, <1>6 DEF ServedInv

(* Who leases comes after nobody that waits; and who comes after it holds  *)
(* no lease yet.                                                           *)
LEMMA LeaseServes ==
  ASSUME IndInv, ServedInv, NEW b \in Modules, WantsMore(b), UNCHANGED inputs,
         NEW t \in Nat, t <= Need(b), t <= remaining,
         NEW source \in Modules \cup {Slack}, Grant(b, source, t)
  PROVE  /\ \A m \in Modules \ {b} : current'[m] = current[m]
         /\ \A o, first \in Modules :
              borrowed'[o] > 0 /\ def'[first].canBorrow /\ ServedBefore(first, o)'
                => current'[first] = Ceiling(first)'
<1>1. /\ phase = "borrow" /\ b \in waiting /\ Need(b) > 0 /\ remaining > 0
      /\ \A other \in waiting \ {b} : ServedBefore(b, other)
  BY DEF WantsMore, FirstServed
<1>2. /\ def' = def
      /\ \A m \in Modules : Ceiling(m)' = Ceiling(m)
      /\ \A m, other \in Modules : ServedBefore(m, other)' = ServedBefore(m, other)
  BY EntitledStable DEF inputs
<1>3. \A m \in Modules \ {b} : current'[m] = current[m] /\ borrowed'[m] = borrowed[m]
  BY DEF Grant, IndInv, TypeOK
<1>4. ASSUME NEW o \in Modules, NEW first \in Modules,
             borrowed'[o] > 0, def[first].canBorrow, ServedBefore(first, o)
      PROVE  current'[first] = Ceiling(first)
  <2>1. CASE o = b
    <3>1. first # b
      BY <1>4, <2>1, ServedBeforeAsymmetric DEF IndInv
    <3>2. first \notin waiting
      BY <1>1, <1>4, <2>1, <3>1, ServedBeforeAsymmetric DEF IndInv, TypeOK
    <3>3. current[first] = Ceiling(first)
      BY <1>1, <1>4, <3>2 DEF ServedInv, Entitled
    <3>4. QED
      BY <1>3, <3>1, <3>3
  <2>2. CASE o # b
    <3>1. borrowed[o] > 0
      BY <1>3, <1>4, <2>2
    <3>2. current[first] = Ceiling(first)
      BY <1>1, <1>4, <3>1 DEF ServedInv
    <3>3. first # b
      BY <1>1, <3>2, Bounds DEF Need, IndInv, TypeOK
    <3>4. QED
      BY <1>3, <3>2, <3>3
  <2>3. QED
    BY <2>1, <2>2
<1>5. QED
  BY <1>2, <1>3, <1>4

LEMMA LendFromDonorServes ==
  ASSUME IndInv, IndInv', ServedInv,
         NEW b \in Modules, NEW d \in Modules, LendFromDonor(b, d)
  PROVE  ServedInv'
<1> DEFINE t == MinOf3(Need(b), donorLeft[d], remaining)
<1>1. /\ WantsMore(b) /\ phase = "borrow" /\ phase' = "borrow" /\ waiting' = waiting
      /\ slack' = slack /\ UNCHANGED inputs /\ b \in waiting /\ Need(b) > 0 /\ remaining > 0
      /\ d # b /\ donorLeft[d] > 0
      /\ donorLeft' = [donorLeft EXCEPT ![d] = @ - t] /\ Grant(b, d, t)
  BY DEF LendFromDonor, WantsMore, FirstServed, Least, DonorsFor
<1>2. /\ Need(b) \in Int /\ donorLeft \in [Modules -> Nat] /\ remaining \in Nat /\ slack \in Nat
      /\ current \in [Modules -> Nat] /\ donorLeft' \in [Modules -> Nat]
  <2>1. TypeOK
    BY DEF IndInv
  <2>2. Ceiling(b) \in Nat
    BY <2>1, Bounds
  <2>3. donorLeft' \in [Modules -> Nat]
    BY DEF IndInv, TypeOK
  <2>4. current[b] \in Nat /\ Need(b) \in Int
    BY <2>1, <2>2 DEF Need, TypeOK
  <2>5. QED
    BY <2>1, <2>3, <2>4 DEF TypeOK
<1>3. t \in Nat /\ t <= Need(b) /\ t <= remaining /\ t <= donorLeft[d]
  BY <1>1, <1>2 DEF MinOf3, MinOf
<1> HIDE DEF t
<1>4. remaining' = remaining - t
  BY <1>1 DEF Grant
<1>5. /\ \A m \in Modules \ {b} : current'[m] = current[m]
      /\ \A o, first \in Modules :
           borrowed'[o] > 0 /\ def'[first].canBorrow /\ ServedBefore(first, o)'
             => current'[first] = Ceiling(first)'
  BY <1>1, <1>3, LeaseServes
<1>6. TotalOver(donorLeft, Modules) = TotalOver(donorLeft', Modules) + t
  <2>1. /\ \A o \in Modules : donorLeft'[o] \in Nat /\ donorLeft[o] \in Nat
        /\ donorLeft'[d] <= donorLeft[d] /\ donorLeft[d] - donorLeft'[d] = t
        /\ \A o \in Modules \ {d} : donorLeft[o] = donorLeft'[o]
    BY <1>1, <1>2, <1>3
  <2>2. TotalOver(donorLeft, Modules)
          = TotalOver(donorLeft', Modules) + (donorLeft[d] - donorLeft'[d])
    BY <2>1, ModulesTotalAdd
  <2>3. QED
    BY <2>1, <2>2
<1>7. remaining' <= TotalOver(donorLeft', Modules) + slack'
  <2>1. TotalOver(donorLeft', Modules) \in Nat
    BY <1>2, ModulesAssumption, TotalNat
  <2>2. remaining <= TotalOver(donorLeft, Modules) + slack
    BY <1>1 DEF ServedInv
  <2>3. QED
    BY <1>1, <1>2, <1>3, <1>4, <1>6, <2>1, <2>2
<1>8. \A m \in Modules \ waiting' : current'[m] = Entitled(m)'
  BY <1>1, <1>5, EntitledStable DEF ServedInv
<1>9. QED
  BY <1>1, <1>5, <1>7, <1>8 DEF ServedInv

(* A borrower has nothing to lend: when the other donors are exhausted and *)
(* there is no slack, nothing remains.                                     *)
LEMMA SupplyForBorrower ==
  ASSUME IndInv, ServedInv, phase = "borrow", NEW b \in waiting, DonorsFor(b) = {}
  PROVE  remaining <= slack
<1>1. remaining = 0 \/ Filled
  BY DEF IndInv, BorrowInv
<1>2. CASE remaining = 0
  BY <1>2 DEF IndInv, TypeOK
<1>3. CASE remaining > 0
  <2>1. b \in Modules /\ def[b].target \in Nat /\ demand[b] \in Nat /\ demand[b] > def[b].target
    BY Bounds DEF IndInv, TypeOK, BorrowInv, ValidModule
  <2>2. lent[b] + donorLeft[b] > 0 => demand[b] <= def[b].target
    BY <1>3, <2>1 DEF IndInv, BorrowInv
  <2>3. \A d \in Modules : donorLeft[d] \in Nat /\ lent[d] \in Nat
    BY DEF IndInv, TypeOK
  <2>4. donorLeft[b] = 0
    BY <2>1, <2>2, <2>3
  <2>5. \A d \in Modules : donorLeft[d] = 0
    BY <2>3, <2>4 DEF DonorsFor
  <2>6. TokensOf(donorLeft, Modules) = {}
    <3>1. ASSUME NEW u \in TokensOf(donorLeft, Modules) PROVE FALSE
      <4>1. PICK d \in Modules, i \in Nat : 0 < i /\ i <= donorLeft[d]
        BY <2>3, InTokensOf
      <4>2. QED
        BY <2>5, <4>1
    <3>2. QED
      BY <3>1
  <2>7. TotalOver(donorLeft, Modules) = 0
    BY <2>6, FS_EmptySet DEF TotalOver
  <2>8. remaining <= TotalOver(donorLeft, Modules) + slack
    BY DEF ServedInv
  <2>9. slack \in Nat /\ remaining \in Nat
    BY DEF IndInv, TypeOK
  <2>10. QED
    BY <2>7, <2>8, <2>9
<1>4. QED
  BY <1>1, <1>2, <1>3 DEF IndInv, TypeOK

LEMMA LendFromSlackServes ==
  ASSUME IndInv, IndInv', ServedInv, NEW b \in Modules, LendFromSlack(b)
  PROVE  ServedInv'
<1> DEFINE t == MinOf3(Need(b), slack, remaining)
<1>1. /\ WantsMore(b) /\ phase = "borrow" /\ phase' = "borrow" /\ waiting' = waiting \ {b}
      /\ slack' = slack - t /\ UNCHANGED inputs /\ b \in waiting /\ Need(b) > 0
      /\ remaining > 0 /\ slack > 0 /\ DonorsFor(b) = {}
      /\ donorLeft' = donorLeft /\ Grant(b, Slack, t)
  BY DEF LendFromSlack, WantsMore, FirstServed
<1>2. /\ Need(b) \in Int /\ donorLeft \in [Modules -> Nat] /\ remaining \in Nat /\ slack \in Nat
      /\ current \in [Modules -> Nat] /\ Ceiling(b) \in Nat
  <2>1. TypeOK
    BY DEF IndInv
  <2>2. Ceiling(b) \in Nat
    BY <2>1, Bounds
  <2>3. QED
    BY <2>1, <2>2 DEF Need, TypeOK
<1>3. t \in Nat /\ t <= Need(b) /\ t <= remaining /\ t <= slack
      /\ (t = Need(b) \/ t = slack \/ t = remaining)
  BY <1>1, <1>2 DEF MinOf3, MinOf
<1> HIDE DEF t
<1>4. remaining' = remaining - t /\ current'[b] = current[b] + t
  BY <1>1, <1>2 DEF Grant
<1>5. /\ \A m \in Modules \ {b} : current'[m] = current[m]
      /\ \A o, first \in Modules :
           borrowed'[o] > 0 /\ def'[first].canBorrow /\ ServedBefore(first, o)'
             => current'[first] = Ceiling(first)'
  BY <1>1, <1>3, LeaseServes
<1>6. remaining' <= TotalOver(donorLeft', Modules) + slack'
  <2>1. TotalOver(donorLeft, Modules) \in Nat
    BY <1>2, ModulesAssumption, TotalNat
  <2>2. remaining <= TotalOver(donorLeft, Modules) + slack
    BY <1>1 DEF ServedInv
  <2>3. QED
    BY <1>1, <1>2, <1>3, <1>4, <2>1, <2>2
<1>7. ASSUME remaining' > 0, NEW m \in Modules \ waiting'
      PROVE  current'[m] = Entitled(m)'
  <2>1. CASE m = b
    <3>1. remaining <= slack
      BY <1>1, SupplyForBorrower
    <3>2. t = Need(b)
      BY <1>2, <1>3, <1>4, <1>7, <3>1
    <3>3. current'[b] = Ceiling(b)
      BY <1>2, <1>4, <3>2 DEF Need
    <3>4. def[b].canBorrow
      BY <1>1 DEF IndInv, BorrowInv
    <3>5. QED
      BY <1>1, <2>1, <3>3, <3>4, EntitledStable DEF Entitled
  <2>2. CASE m # b
    BY <1>1, <1>5, <2>2, EntitledStable DEF ServedInv
  <2>3. QED
    BY <2>1, <2>2
<1>8. QED
  BY <1>1, <1>5, <1>6, <1>7 DEF ServedInv

LEMMA NextBorrowerServes ==
  ASSUME IndInv, ServedInv, NEW b \in Modules, NextBorrower(b)
  PROVE  ServedInv'
<1>1. /\ phase = "borrow" /\ phase' = "borrow" /\ waiting' = waiting \ {b} /\ b \in waiting
      /\ UNCHANGED inputs /\ UNCHANGED <<current, remaining, donorLeft, slack, borrowed>>
      /\ Need(b) > 0 /\ remaining > 0 => DonorsFor(b) = {} /\ slack = 0
  BY DEF NextBorrower, FirstServed
<1>2. /\ Need(b) \in Int /\ remaining \in Nat /\ slack \in Nat
      /\ current[b] \in Nat /\ Ceiling(b) \in Nat /\ current[b] <= Ceiling(b)
      /\ def[b].canBorrow
  BY <1>1, Bounds DEF Need, IndInv, TypeOK, BorrowInv
<1>3. remaining > 0 => current[b] = Ceiling(b)
  <2>1. CASE Need(b) > 0
    <3>1. remaining > 0 => remaining <= slack /\ slack = 0
      BY <1>1, <2>1, SupplyForBorrower
    <3>2. QED
      BY <1>2, <3>1
  <2>2. CASE ~(Need(b) > 0)
    BY <1>2, <2>2 DEF Need
  <2>3. QED
    BY <2>1, <2>2
<1>4. QED
  BY <1>1, <1>2, <1>3, EntitledStable DEF ServedInv, Entitled, inputs

(* Borrowers are served in their order, out of what the donors and the     *)
(* slack account for.                                                      *)
LEMMA ServedAlways == Spec => []ServedInv
<1>1. Init => ServedInv
  BY DEF Init, ServedInv
<1>2. ASSUME IndInv, IndInv', ServedInv, [Next]_vars
      PROVE  ServedInv'
  <2>1. CASE Admit \/ Reject \/ StartRound
    BY <2>1 DEF Admit, Reject, StartRound, ServedInv
  <2>2. CASE EndFill
    BY <1>2, <2>2, EndFillServes
  <2>3. ASSUME NEW m \in Modules, Fill(m) PROVE ServedInv'
    BY <2>3 DEF Fill, ServedInv
  <2>4. CASE \E m \in Modules : LendFromSlack(m) \/ NextBorrower(m)
    BY <1>2, <2>4, LendFromSlackServes, NextBorrowerServes
  <2>5. CASE \E b, d \in Modules : LendFromDonor(b, d)
    BY <1>2, <2>5, LendFromDonorServes
  <2>6. CASE Finish
    BY <1>2, <2>6, EntitledStable DEF Finish, lending, inputs, ServedInv
  <2>7. CASE Returned \/ UNCHANGED vars
    BY <1>2, <2>7, EntitledStable DEF Returned, vars, lending, inputs, ServedInv
  <2>8. QED
    BY <1>2, <2>1, <2>2, <2>3, <2>4, <2>5, <2>6, <2>7 DEF Next, Step
<1>3. QED
  BY <1>1, <1>2, Inductive, PTL DEF Spec

(* Tokens stay in hand only when everybody has what it may have.           *)
THEOREM NothingStranded == Spec => []NoTokenStranded
<1>1. IndInv /\ ServedInv => NoTokenStranded
  BY DEF ServedInv, NoTokenStranded, Entitled
<1>2. QED
  BY <1>1, Inductive, ServedAlways, PTL

(* Nobody leases while a module of more weight, or earlier in the order    *)
(* among equals, wants more.                                               *)
THEOREM BorrowersInOrder == Spec => []BorrowPriority
<1>1. IndInv /\ ServedInv => BorrowPriority
  <2> SUFFICES ASSUME IndInv, ServedInv, NEW b \in Modules, NEW first \in Modules,
                      borrowed[b] > 0, def[first].canBorrow,
                      \/ def[first].weight > def[b].weight
                      \/ def[first].weight = def[b].weight /\ def[first].order < def[b].order
               PROVE  current[first] = Ceiling(first)
    BY DEF BorrowPriority
  <2>1. phase \in {"borrow", "done"}
    BY NoLeaseBeforeBorrow
  <2>2. ServedBefore(first, b)
    BY DEF ServedBefore
  <2>3. QED
    BY <2>1, <2>2 DEF ServedInv
<1>2. QED
  BY <1>1, Inductive, ServedAlways, PTL

-----------------------------------------------------------------------------
(* The weighted shares.                                                    *)

(* What the shares of the modules of S can come to, rounded up or down.    *)
Handed(S) ==
  (Precision * (FillBudget * WeightOver(S)) + RoundedOff * Cardinality(S) * WeightOver(Contenders))
    \div (Precision * WeightOver(Contenders))

(* The largest quotient f64 may make of a module's share.                  *)
UpTo(m) ==
  (Precision * (FillBudget * def[m].weight) + RoundedOff * WeightOver(Contenders))
    \div (Precision * WeightOver(Contenders))

(* Who gets a token although its share rounds down to nothing.             *)
Overpaid(S) == {o \in S : FirstShare(o) = 0}

Favoured(m) == {o \in Contenders : o < m /\ FirstShare(o) = 0}

GotShare(m) ==
  current[m] - Seed[m] >= FirstShare(m) - RoundedOff - Cardinality(Favoured(m))

FairShare(m) == current[m] < Cap(m) => GotShare(m)

(* The modules served in the round in progress, when it is the first.      *)
Served == Contenders \ todo

BeforeRounds ==
  round = 0 => todo = {} /\ current = Seed /\ remaining = FillBudget /\ active = Contenders

(* During the first round: those served come before those to serve, took   *)
(* no more than their shares come to and one token for each of no share,   *)
(* and got their shares.                                                   *)
FirstRound ==
  todo # {} /\ round = FillBudget =>
    /\ active = Contenders
    /\ \A m \in todo : current[m] = Seed[m] /\ \A o \in Served : o < m
    /\ round - remaining <= Handed(Served) + Cardinality(Overpaid(Served))
    /\ \A m \in Served : FairShare(m)

LaterRounds ==
  round > 0 /\ (todo = {} \/ round # FillBudget) =>
    /\ round <= FillBudget /\ remaining < FillBudget
    /\ \A m \in Contenders : FairShare(m)

FairInv ==
  /\ phase = "fill" => BeforeRounds /\ FirstRound /\ LaterRounds
  /\ phase \in {"borrow", "done"} =>
       \A m \in Contenders : current[m] - borrowed[m] < Cap(m) => GotShare(m)

(* Rounding down the parts of a number loses no less than rounding down    *)
(* the number.                                                             *)
LEMMA DivSplit ==
  ASSUME NEW a \in Nat, NEW b \in Nat, NEW w \in Nat \ {0}
  PROVE  (a \div w) + (b \div w) <= (a + b) \div w
<1>1. a \div w \in Nat /\ b \div w \in Nat /\ (a + b) \div w \in Nat
  OBVIOUS
<1>2. PICK p \in Nat, q \in Nat, r \in Nat : p = a \div w /\ q = b \div w /\ r = (a + b) \div w
  BY <1>1
<1>3. w * p <= a /\ w * q <= b /\ a + b < w * r + w
  BY <1>2
<1>4. w * (p + q) = w * p + w * q
  OBVIOUS
<1>5. w * (p + q) < w * (r + 1)
  <2>1. w * (r + 1) = w * r + w
    OBVIOUS
  <2>2. w * p \in Nat /\ w * q \in Nat /\ w * r \in Nat
    OBVIOUS
  <2>3. QED
    BY <1>3, <1>4, <2>1, <2>2
<1>6. p + q <= r
  <2>1. SUFFICES ASSUME p + q >= r + 1 PROVE FALSE
    OBVIOUS
  <2>2. w * (p + q) >= w * (r + 1)
    BY <2>1
  <2>3. w * (p + q) \in Int /\ w * (r + 1) \in Int
    OBVIOUS
  <2>4. QED
    BY <2>2, <2>3, <1>5
<1>7. QED
  BY <1>2, <1>6

(* Of b tokens, a part x of all the weights and one more part w: what n    *)
(* quotients may come to, each wrong by up to 1 / p where slop is 1, grows *)
(* by as much as one of them and leaves room for the exact share of w.     *)
LEMMA SharesFit ==
  ASSUME NEW b \in Nat, NEW x \in Nat, NEW w \in Nat, NEW all \in Nat \ {0}, x + w <= all,
         NEW p \in Nat, NEW n \in Nat, n < p, NEW slop \in {0, 1}
  PROVE  /\ p * all \in Nat \ {0} /\ (b * w) \div all \in Nat
         /\ (p * (b * x) + slop * n * all) \div (p * all) \in Nat
         /\ (p * (b * w) + slop * all) \div (p * all) \in Nat
         /\ (p * (b * (x + w)) + slop * (n + 1) * all) \div (p * all) \in Nat
         /\ ((p * (b * x) + slop * n * all) \div (p * all))
              + ((p * (b * w) + slop * all) \div (p * all))
              <= (p * (b * (x + w)) + slop * (n + 1) * all) \div (p * all)
         /\ ((p * (b * x) + slop * n * all) \div (p * all)) + ((b * w) \div all) <= b
<1> DEFINE d == p * all
           bx == b * x
           bw == b * w
           pbx == p * bx
           pbw == p * bw
           an == slop * n * all
           a1 == slop * all
<1>1. bx \in Nat /\ bw \in Nat /\ pbx \in Nat /\ pbw \in Nat /\ an \in Nat /\ a1 \in Nat
  OBVIOUS
<1>2. d \in Nat \ {0}
  <2>1. p >= 1 /\ all >= 1
    OBVIOUS
  <2>2. d >= all
    BY <2>1
  <2>3. QED
    BY <2>1, <2>2
<1>3. p * (b * (x + w)) + slop * (n + 1) * all = (pbx + an) + (pbw + a1)
  <2>1. b * (x + w) = bx + bw
    OBVIOUS
  <2>2. p * (bx + bw) = pbx + pbw
    BY <1>1
  <2>3. slop * (n + 1) * all = an + a1
    BY slop = 0 \/ slop = 1
  <2>4. QED
    BY <1>1, <2>1, <2>2, <2>3
<1>4. bw \div all \in Nat
  BY <1>1
<1>5. PICK h \in Nat, f \in Nat : h = (pbx + an) \div d /\ f = bw \div all
  <2> HIDE DEF d, pbx, an, bw
  <2> QED
    BY <1>1, <1>2, <1>4
<1>6. d * h <= pbx + an /\ all * f <= bw
  <2> HIDE DEF d, pbx, an, bw
  <2> QED
    BY <1>1, <1>2, <1>5
<1>7. d * (h + f) <= p * (b * all) + an
  <2>1. d * (h + f) = d * h + d * f /\ d * h \in Nat /\ d * f \in Nat
    BY <1>2
  <2>2. d * f = p * (all * f) /\ all * f \in Nat
    OBVIOUS
  <2>3. p * (all * f) <= p * bw
    BY <1>1, <1>6, <2>2
  <2>4. pbx + pbw = p * (bx + bw) /\ bx + bw = b * (x + w)
    BY <1>1
  <2>5. b * (x + w) <= b * all /\ b * (x + w) \in Nat /\ b * all \in Nat
    OBVIOUS
  <2>6. p * (b * (x + w)) <= p * (b * all) /\ p * (b * all) \in Nat
    BY <2>5
  <2>7. p * (bx + bw) <= p * (b * all)
    BY <2>4, <2>6
  <2>8. d * f <= pbw
    BY <2>2, <2>3
  <2> HIDE DEF d, bx, bw, pbx, pbw, an
  <2>9. pbx + pbw <= p * (b * all)
    BY <2>4, <2>7
  <2>10. QED
    BY <1>1, <1>6, <2>1, <2>6, <2>8, <2>9
<1>8. an < d
  <2>1. n * all \in Nat /\ an <= n * all
    BY slop = 0 \/ slop = 1
  <2>2. (n + 1) * all <= d
    OBVIOUS
  <2>3. (n + 1) * all = n * all + all
    OBVIOUS
  <2> HIDE DEF an, d
  <2>4. QED
    BY <1>1, <1>2, <2>1, <2>2, <2>3
<1>9. h + f <= b
  <2>1. SUFFICES ASSUME h + f >= b + 1 PROVE FALSE
    OBVIOUS
  <2>2. d * (h + f) >= d * (b + 1)
    BY <1>2, <2>1
  <2>3. d * (b + 1) = p * (b * all) + d /\ p * (b * all) \in Nat /\ d * (h + f) \in Nat
    OBVIOUS
  <2> HIDE DEF an, d
  <2>4. QED
    BY <1>1, <1>2, <1>7, <1>8, <2>2, <2>3
<1>10. /\ (pbx + an) \div d \in Nat /\ (pbw + a1) \div d \in Nat
       /\ ((pbx + an) + (pbw + a1)) \div d \in Nat
       /\ ((pbx + an) \div d) + ((pbw + a1) \div d) <= ((pbx + an) + (pbw + a1)) \div d
  <2> HIDE DEF d, pbx, an, pbw, a1
  <2> QED
    BY <1>1, <1>2, DivSplit
<1>11. QED
  BY <1>2, <1>3, <1>4, <1>5, <1>9, <1>10

LEMMA SharesStable ==
  ASSUME UNCHANGED inputs
  PROVE  /\ FillBudget' = FillBudget /\ Contenders' = Contenders /\ Seed' = Seed
         /\ RoundedOff' = RoundedOff
         /\ \A m \in Modules : /\ FirstShare(m)' = FirstShare(m) /\ Cap(m)' = Cap(m)
                               /\ Favoured(m)' = Favoured(m)
         /\ \A S \in SUBSET Modules : Handed(S)' = Handed(S) /\ Overpaid(S)' = Overpaid(S)
<1>1. Seed' = Seed /\ \A m \in Modules : Cap(m)' = Cap(m)
  BY InputsStable
<1>2. FillBudget' = FillBudget /\ Contenders' = Contenders
  BY <1>1 DEF FillBudget, Contenders, BelowCap, inputs
<1>3. /\ \A S : WeightOver(S)' = WeightOver(S)
      /\ WeightOver(Contenders)' = WeightOver(Contenders)
  BY <1>2 DEF WeightOver, inputs
<1>4. \A m \in Modules : FirstShare(m)' = FirstShare(m)
  BY <1>2, <1>3 DEF FirstShare, inputs
<1>5. Contenders \subseteq Modules
  BY DEF Contenders, BelowCap
<1>6. RoundedOff' = RoundedOff
  BY DEF RoundedOff, inputs
<1>7. QED
  BY <1>1, <1>2, <1>3, <1>4, <1>5, <1>6 DEF Handed, Overpaid, Favoured

LEMMA FillBudgetNat ==
  ASSUME IndInv, phase \in {"fill", "borrow", "done"}
  PROVE  FillBudget \in Nat /\ remaining <= FillBudget
<1>1. \A m \in Modules : Seed[m] \in Nat /\ current[m] \in Nat /\ Seed[m] <= current[m]
  BY Bounds DEF IndInv, TypeOK, FillInv, BorrowInv
<1>2. TotalOver(Seed, Modules) <= TotalOver(current, Modules)
  BY <1>1, ModulesAssumption, TotalMonotone
<1>3. TotalOver(Seed, Modules) \in Nat /\ TotalOver(current, Modules) \in Nat
  BY <1>1, ModulesAssumption, TotalNat
<1>4. TotalOver(current, Modules) + remaining = available /\ remaining \in Nat
  BY DEF IndInv, TypeOK, Conservation, Allocating
<1>5. QED
  BY <1>2, <1>3, <1>4 DEF FillBudget

LEMMA RoundedOffIs == RoundedOff \in {0, 1}
BY DEF RoundedOff

(* The shares of the modules served and of one more fit into the budget.   *)
LEMMA HandedStep ==
  ASSUME TypeOK, FillBudget \in Nat,
         NEW S \in SUBSET Contenders, NEW m \in Contenders \ S
  PROVE  /\ FirstShare(m) \in Nat /\ UpTo(m) \in Nat
         /\ Handed(S) \in Nat /\ Handed(S \cup {m}) \in Nat
         /\ Handed(S) + UpTo(m) <= Handed(S \cup {m})
         /\ Handed(S) + FirstShare(m) <= FillBudget
<1> DEFINE weights == [o \in Modules |-> def[o].weight]
           more == S \cup {m}
<1>1. Contenders \subseteq Modules /\ IsFiniteSet(Contenders) /\ IsFiniteSet(S)
  BY ModulesAssumption, FS_Subset DEF Contenders, BelowCap
<1>2. \A o \in Modules : weights[o] \in Nat /\ weights[o] > 0 /\ weights[o] = def[o].weight
  <2>1. SUFFICES ASSUME NEW o \in Modules
                 PROVE  weights[o] \in Nat /\ weights[o] > 0 /\ weights[o] = def[o].weight
    OBVIOUS
  <2>2. QED
    BY Bounds DEF ValidModule
<1>3. \A T : WeightOver(T) = TotalOver(weights, T)
  BY DEF WeightOver
<1> HIDE DEF weights
<1>4. /\ WeightOver(S) \in Nat
      /\ WeightOver(more) = WeightOver(S) + weights[m]
  <2>1. \A o \in more : weights[o] \in Nat
    BY <1>1, <1>2
  <2>2. m \notin S
    OBVIOUS
  <2>3. TotalOver(weights, more) = TotalOver(weights, S) + weights[m]
    BY <1>1, <2>1, <2>2, TotalInsert
  <2>4. TotalOver(weights, S) \in Nat
    BY <1>1, <2>1, TotalNat
  <2>5. QED
    BY <1>3, <2>3, <2>4
<1>5. WeightOver(more) <= WeightOver(Contenders) /\ WeightOver(Contenders) \in Nat
  <2>1. more \in SUBSET Contenders /\ \A o \in Contenders : weights[o] \in Nat
    BY <1>1, <1>2
  <2>2. TotalOver(weights, more) <= TotalOver(weights, Contenders)
    BY <1>1, <2>1, TotalOfSome
  <2>3. TotalOver(weights, Contenders) \in Nat
    BY <1>1, <2>1, TotalNat
  <2>4. QED
    BY <1>3, <2>2, <2>3
<1>6. PICK w \in Nat, x \in Nat, all \in Nat :
        w = weights[m] /\ x = WeightOver(S) /\ all = WeightOver(Contenders)
  BY <1>1, <1>2, <1>4, <1>5
<1>7. all \in Nat \ {0} /\ x + w <= all /\ x <= all /\ w <= all /\ x + w \in Nat
  BY <1>1, <1>2, <1>4, <1>5, <1>6
<1>8. PICK b \in Nat, p \in Nat, n \in Nat, slop \in {0, 1} :
        b = FillBudget /\ p = Precision /\ n = Cardinality(S) /\ slop = RoundedOff
  BY <1>1, RoundedOffIs, PrecisionAssumption, FS_CardinalityType
<1>9. Cardinality(more) = n + 1 /\ n < p
  <2>1. Cardinality(more) = n + 1
    BY <1>1, <1>8, FS_AddElement
  <2>2. more \in SUBSET Modules /\ IsFiniteSet(Modules)
    BY <1>1, ModulesAssumption
  <2>3. Cardinality(more) <= Cardinality(Modules) /\ Cardinality(Modules) \in Nat
    BY <2>2, FS_Subset, FS_CardinalityType
  <2>4. QED
    BY <1>8, <2>1, <2>3, PrecisionAssumption
<1>10. /\ FirstShare(m) = (b * w) \div all
       /\ UpTo(m) = (p * (b * w) + slop * all) \div (p * all)
       /\ Handed(S) = (p * (b * x) + slop * n * all) \div (p * all)
       /\ Handed(more) = (p * (b * (x + w)) + slop * (n + 1) * all) \div (p * all)
  BY <1>1, <1>2, <1>4, <1>6, <1>8, <1>9 DEF FirstShare, UpTo, Handed
<1>11. /\ (b * w) \div all \in Nat
       /\ (p * (b * x) + slop * n * all) \div (p * all) \in Nat
       /\ (p * (b * w) + slop * all) \div (p * all) \in Nat
       /\ (p * (b * (x + w)) + slop * (n + 1) * all) \div (p * all) \in Nat
       /\ ((p * (b * x) + slop * n * all) \div (p * all))
            + ((p * (b * w) + slop * all) \div (p * all))
            <= (p * (b * (x + w)) + slop * (n + 1) * all) \div (p * all)
       /\ ((p * (b * x) + slop * n * all) \div (p * all)) + ((b * w) \div all) <= b
  BY <1>7, <1>9, SharesFit
<1>12. /\ FirstShare(m) \in Nat /\ UpTo(m) \in Nat
       /\ Handed(S) \in Nat /\ Handed(more) \in Nat
       /\ Handed(S) + UpTo(m) <= Handed(more)
       /\ Handed(S) + FirstShare(m) <= b
  <2> HIDE DEF more
  <2> QED
    BY <1>10, <1>11
<1>13. QED
  BY <1>8, <1>12

(* What the code may make of a share of the first round.                   *)
LEMMA FirstShares ==
  ASSUME TypeOK, FillBudget \in Nat, arithmetic # "overflow",
         active = Contenders, round = FillBudget,
         NEW m \in Contenders, NEW share \in Shares(m)
  PROVE  /\ share \in Nat /\ share >= 1 /\ share >= FirstShare(m) - RoundedOff
         /\ FirstShare(m) = 0 => share = 1
         /\ FirstShare(m) # 0 => share <= UpTo(m)
<1> DEFINE part == FillBudget * def[m].weight
           total == WeightOver(Contenders)
<1>1. part \in Nat /\ total \in Nat /\ total > 0
  BY ActiveWeights
<1>2. PICK q \in Truncated(part, total) : share = MaxOf(1, q)
  BY DEF Shares
<1>3. FirstShare(m) = part \div total
  BY DEF FirstShare
<1>4. /\ Precision \in Nat /\ Precision >= 1
  <2>1. m \in Modules /\ IsFiniteSet(Modules)
    BY ModulesAssumption DEF Contenders, BelowCap
  <2>2. Cardinality(Modules) \in Nat /\ Cardinality(Modules) # 0
    BY <2>1, FS_CardinalityType, FS_EmptySet
  <2>3. QED
    BY <2>2, PrecisionAssumption
<1> HIDE DEF part, total
<1>5. PICK f \in Nat : f = part \div total /\ total * f <= part /\ part < total * f + total
  <2>1. part \div total \in Nat
    BY <1>1
  <2>2. QED
    BY <1>1, <2>1
<1>6. UpTo(m) = (Precision * part + RoundedOff * total) \div (Precision * total)
  BY DEF UpTo, part, total
<1>7. PICK p \in Nat, slop \in {0, 1} : p = Precision /\ slop = RoundedOff /\ p >= 1
  BY <1>4, RoundedOffIs
<1>8. PICK above \in Nat, d \in Nat \ {0} :
        above = p * part + slop * total /\ d = p * total
  <2>1. p * part \in Nat /\ slop * total \in Nat /\ p * total \in Nat
    BY <1>1
  <2>2. p * total >= total
    BY <1>1, <1>7
  <2>3. QED
    BY <1>1, <2>1, <2>2
<1>9. ASSUME NEW k \in Nat, d * k <= above PROVE k <= UpTo(m)
  <2>1. PICK u \in Nat : u = above \div d /\ above < d * u + d
    <3>1. above \div d \in Nat
      BY <1>8
    <3>2. QED
      BY <1>8, <3>1
  <2>2. SUFFICES ASSUME k >= u + 1 PROVE FALSE
    BY <1>6, <1>7, <1>8, <2>1
  <2>3. d * k >= d * (u + 1)
    BY <1>8, <2>2
  <2>4. d * (u + 1) = d * u + d /\ d * u \in Nat /\ d * k \in Nat
    BY <1>8
  <2>5. QED
    BY <1>8, <1>9, <2>1, <2>3, <2>4
<1>10. f <= UpTo(m)
  <2>1. p * (total * f) <= p * part /\ p * (total * f) = d * f
    BY <1>1, <1>5, <1>7, <1>8
  <2>2. p * part <= above
    BY <1>1, <1>7, <1>8
  <2>3. d * f <= above
    <3>1. p * part \in Nat /\ d * f \in Nat
      BY <1>1, <1>7, <1>8
    <3>2. QED
      BY <2>1, <2>2, <3>1, <1>8
  <2>4. QED
    BY <1>9, <2>3
<1>11. CASE arithmetic = "exact"
  <2>1. q = f /\ RoundedOff = 0
    BY <1>2, <1>5, <1>11 DEF Truncated, RoundedOff
  <2>2. UpTo(m) \in Int
    BY <1>6, <1>7, <1>8
  <2>3. QED
    BY <1>2, <1>3, <1>5, <1>10, <2>1, <2>2 DEF MaxOf
<1>12. CASE arithmetic = "rounded"
  <2>1. q \in Rounded(part, total) /\ RoundedOff = 1
    BY <1>2, <1>12 DEF Truncated, RoundedOff
  <2>2. /\ q \in {f - 1, f, f + 1} /\ q \in Nat
        /\ p * q * total <= p * part + total
    BY <1>5, <1>7, <2>1 DEF Rounded
  <2>3. d * q <= above
    <3>1. p * q * total = (p * total) * q
      BY <1>1, <2>2
    <3>2. above = p * part + total
      BY <1>1, <1>7, <1>8, <2>1
    <3>3. QED
      BY <1>8, <2>2, <3>1, <3>2
  <2>4. q <= UpTo(m)
    BY <1>9, <2>2, <2>3
  <2>5. UpTo(m) \in Int
    BY <1>6, <1>7, <1>8
  <2>6. QED
    BY <1>2, <1>3, <1>5, <1>10, <2>1, <2>2, <2>4, <2>5 DEF MaxOf
<1>13. QED
  BY <1>11, <1>12 DEF TypeOK, Arithmetics

(* The numbers a module's share is made of.                                *)
LEMMA ShareTypes ==
  ASSUME TypeOK, FillBudget \in Nat, NEW m \in Contenders
  PROVE  /\ m \in Modules /\ current[m] \in Nat /\ Seed[m] \in Nat /\ Cap(m) \in Nat
         /\ FirstShare(m) \in Nat /\ FirstShare(m) <= FillBudget
         /\ Cardinality(Favoured(m)) \in Nat
         /\ \A S \in SUBSET Contenders :
              /\ IsFiniteSet(Overpaid(S)) /\ Cardinality(Overpaid(S)) \in Nat
              /\ (\A o \in S : o < m) => Cardinality(Overpaid(S)) <= Cardinality(Favoured(m))
<1>1. Contenders \subseteq Modules /\ IsFiniteSet(Contenders)
  BY ModulesAssumption, FS_Subset DEF Contenders, BelowCap
<1>2. m \in Modules /\ current[m] \in Nat /\ Seed[m] \in Nat /\ Cap(m) \in Nat
  BY <1>1, Bounds DEF TypeOK
<1>3. FirstShare(m) \in Nat /\ FirstShare(m) <= FillBudget
  <2>1. {} \in SUBSET Contenders /\ m \in Contenders \ {}
    OBVIOUS
  <2>2. /\ FirstShare(m) \in Nat /\ Handed({}) \in Nat
        /\ Handed({}) + FirstShare(m) <= FillBudget
    BY <2>1, HandedStep
  <2>3. QED
    BY <2>2
<1>4. Favoured(m) \in SUBSET Contenders
  BY DEF Favoured
<1>5. IsFiniteSet(Favoured(m)) /\ Cardinality(Favoured(m)) \in Nat
  BY <1>1, <1>4, FS_Subset, FS_CardinalityType
<1>6. ASSUME NEW S \in SUBSET Contenders
      PROVE  /\ IsFiniteSet(Overpaid(S)) /\ Cardinality(Overpaid(S)) \in Nat
             /\ (\A o \in S : o < m) => Cardinality(Overpaid(S)) <= Cardinality(Favoured(m))
  <2>1. Overpaid(S) \in SUBSET Contenders
    BY DEF Overpaid
  <2>2. IsFiniteSet(Overpaid(S)) /\ Cardinality(Overpaid(S)) \in Nat
    BY <1>1, <2>1, FS_Subset, FS_CardinalityType
  <2>3. ASSUME \A o \in S : o < m PROVE Cardinality(Overpaid(S)) <= Cardinality(Favoured(m))
    <3>1. Overpaid(S) \in SUBSET Favoured(m)
      BY <2>3 DEF Overpaid, Favoured
    <3>2. QED
      BY <1>5, <3>1, FS_Subset
  <2>4. QED
    BY <2>2, <2>3
<1>7. QED
  BY <1>2, <1>3, <1>5, <1>6

LEMMA FairShareAfter ==
  ASSUME UNCHANGED inputs, NEW m \in Modules
  PROVE  /\ GotShare(m)' <=>
              current'[m] - Seed[m] >= FirstShare(m) - RoundedOff - Cardinality(Favoured(m))
         /\ FairShare(m)' <=>
              (current'[m] < Cap(m) =>
                 current'[m] - Seed[m] >= FirstShare(m) - RoundedOff - Cardinality(Favoured(m)))
<1>1. /\ Seed' = Seed /\ FirstShare(m)' = FirstShare(m) /\ Cap(m)' = Cap(m)
      /\ Favoured(m)' = Favoured(m) /\ RoundedOff' = RoundedOff
  BY SharesStable
<1>2. QED
  BY <1>1 DEF GotShare, FairShare

(* Who has got its share keeps it when it gets more.                       *)
LEMMA FairShareKept ==
  ASSUME TypeOK, FillBudget \in Nat, UNCHANGED inputs, NEW m \in Contenders,
         current'[m] \in Nat, current[m] <= current'[m]
  PROVE  /\ GotShare(m) => GotShare(m)'
         /\ FairShare(m) => FairShare(m)'
<1>1. /\ m \in Modules /\ current[m] \in Nat /\ Seed[m] \in Nat /\ Cap(m) \in Nat
      /\ FirstShare(m) \in Nat /\ Cardinality(Favoured(m)) \in Nat
  BY ShareTypes
<1>2. QED
  BY <1>1, FairShareAfter, RoundedOffIs DEF GotShare, FairShare

LEMMA AdmitFair ==
  ASSUME IndInv, Admit
  PROVE  FairInv'
<1>1. UNCHANGED inputs /\ phase' = "fill" /\ round' = 0 /\ todo' = {}
  BY DEF Admit, IndInv, StartInv
<1>2. current' = Seed /\ remaining' = FillBudget /\ active' = Contenders
  BY DEF Admit, FillBudget, Contenders
<1>3. Seed' = Seed /\ FillBudget' = FillBudget /\ Contenders' = Contenders
  BY <1>1, SharesStable
<1>4. QED
  BY <1>1, <1>2, <1>3 DEF FairInv, BeforeRounds, FirstRound, LaterRounds

LEMMA StartRoundFair ==
  ASSUME IndInv, FairInv, StartRound
  PROVE  FairInv'
<1>1. /\ UNCHANGED inputs /\ phase = "fill" /\ phase' = "fill" /\ todo = {}
      /\ UNCHANGED <<current, remaining, active>> /\ round' = remaining /\ todo' = active
      /\ remaining # 0 /\ active # {}
  BY DEF StartRound, FillOver
<1>2. FillBudget \in Nat /\ remaining \in Nat /\ remaining <= FillBudget /\ round \in Nat
  BY <1>1, FillBudgetNat DEF IndInv, TypeOK
<1>3. /\ FillBudget' = FillBudget /\ Contenders' = Contenders /\ Seed' = Seed
      /\ \A S \in SUBSET Modules : Handed(S)' = Handed(S) /\ Overpaid(S)' = Overpaid(S)
  BY <1>1, SharesStable
<1>4. ~(round' = 0)
  BY <1>1
<1>5. CASE round = 0
  <2>1. current = Seed /\ remaining = FillBudget /\ active = Contenders
    BY <1>1, <1>5 DEF FairInv, BeforeRounds
  <2>2. Served' = {}
    BY <1>1, <1>3, <2>1 DEF Served
  <2>3. Handed({}) \in Nat /\ Cardinality(Overpaid({})) \in Nat
    <3>1. PICK m \in Contenders : TRUE
      BY <1>1, <2>1
    <3>2. {} \in SUBSET Contenders /\ m \in Contenders \ {}
      OBVIOUS
    <3>3. TypeOK
      BY DEF IndInv
    <3>4. Handed({}) \in Nat
      BY <1>2, <3>2, <3>3, HandedStep
    <3>5. Cardinality(Overpaid({})) \in Nat
      BY <1>2, <3>1, <3>2, <3>3, ShareTypes
    <3>6. QED
      BY <3>4, <3>5
  <2>4. Handed(Served)' = Handed({}) /\ Overpaid(Served)' = Overpaid({})
    <3>1. Handed({})' = Handed({}) /\ Overpaid({})' = Overpaid({})
      BY <1>3
    <3>2. QED
      BY <2>2, <3>1 DEF Handed, Overpaid
  <2>5. round' - remaining' <= Handed(Served)' + Cardinality(Overpaid(Served)')
    BY <1>1, <1>2, <2>3, <2>4
  <2>6. FirstRound'
    BY <1>1, <1>3, <2>1, <2>2, <2>5 DEF FirstRound
  <2>7. LaterRounds'
    BY <1>1, <1>3, <2>1 DEF LaterRounds
  <2>8. QED
    BY <1>1, <1>4, <2>6, <2>7 DEF FairInv, BeforeRounds
<1>6. CASE round # 0
  <2>1. /\ remaining < FillBudget
        /\ \A m \in Contenders : FairShare(m)
    BY <1>1, <1>2, <1>6 DEF FairInv, LaterRounds
  <2>2. round' # FillBudget'
    BY <1>1, <1>2, <1>3, <2>1
  <2>3. ASSUME NEW m \in Contenders PROVE FairShare(m)'
    <3>1. TypeOK
      BY DEF IndInv
    <3>2. m \in Modules /\ current[m] \in Nat
      BY <1>2, <3>1, ShareTypes
    <3>3. QED
      BY <1>1, <1>2, <2>1, <3>1, <3>2, FairShareKept
  <2>4. LaterRounds'
    BY <1>1, <1>2, <1>3, <2>1, <2>3 DEF LaterRounds
  <2>5. QED
    BY <1>1, <1>4, <2>2, <2>4 DEF FairInv, BeforeRounds, FirstRound
<1>7. QED
  BY <1>5, <1>6

(* Serving a module in the first round.                                    *)
LEMMA FirstRoundFair ==
  ASSUME IndInv, FairInv, NEW m \in Modules, Fill(m), round = FillBudget,
         arithmetic # "overflow"
  PROVE  FairInv'
<1> PICK share \in Shares(m) :
      /\ current' = [current EXCEPT ![m] = @ + FillGrant(m, share)]
      /\ remaining' = remaining - FillGrant(m, share)
  BY DEF Fill
<1> DEFINE g == FillGrant(m, share)
           more == Served \cup {m}
<1>1. /\ UNCHANGED inputs /\ phase = "fill" /\ phase' = "fill" /\ round' = round
      /\ m \in todo /\ \A o \in todo : m <= o
      /\ current' = [current EXCEPT ![m] = @ + g] /\ remaining' = remaining - g
      /\ todo' = (IF remaining' = 0 THEN {} ELSE todo \ {m})
  BY DEF Fill, Least
<1>2. /\ active = Contenders /\ todo \subseteq Contenders
      /\ \A o \in todo : current[o] = Seed[o] /\ \A s \in Served : s < o
      /\ round - remaining <= Handed(Served) + Cardinality(Overpaid(Served))
      /\ \A o \in Served : FairShare(o)
  BY <1>1 DEF FairInv, FirstRound, IndInv, TypeOK
<1>3. TypeOK /\ FillBudget \in Nat /\ remaining \in Nat /\ remaining <= FillBudget
  BY <1>1, FillBudgetNat DEF IndInv, TypeOK
<1>4. /\ m \in Contenders /\ m \notin Served /\ Served \subseteq Contenders
      /\ Served \in SUBSET Contenders /\ more \in SUBSET Contenders
      /\ m \in Contenders \ Served
  BY <1>1, <1>2 DEF Served
<1>5. /\ FirstShare(m) \in Nat /\ UpTo(m) \in Nat
      /\ Handed(Served) \in Nat /\ Handed(more) \in Nat
      /\ Handed(Served) + UpTo(m) <= Handed(more)
      /\ Handed(Served) + FirstShare(m) <= FillBudget
  BY <1>3, <1>4, HandedStep
<1>6. /\ current[m] \in Nat /\ Seed[m] \in Nat /\ Cap(m) \in Nat
      /\ Cardinality(Favoured(m)) \in Nat
      /\ \A S \in SUBSET Contenders :
           /\ IsFiniteSet(Overpaid(S)) /\ Cardinality(Overpaid(S)) \in Nat
           /\ (\A o \in S : o < m) => Cardinality(Overpaid(S)) <= Cardinality(Favoured(m))
  BY <1>3, <1>4, ShareTypes
<1>7. /\ share \in Nat /\ share >= 1 /\ share >= FirstShare(m) - RoundedOff
      /\ FirstShare(m) = 0 => share = 1
      /\ FirstShare(m) # 0 => share <= UpTo(m)
      /\ RoundedOff \in {0, 1}
  BY <1>2, <1>3, <1>4, FirstShares, RoundedOffIs
<1>8. /\ g \in Nat /\ g >= 1 /\ g <= Cap(m) - current[m] /\ g <= remaining
  BY <1>1, FillGrantBounds
<1>9. /\ g <= share
      /\ g = Cap(m) - current[m] \/ g = share \/ g = remaining
  <2>1. PICK room \in Int, left \in Int : room = Cap(m) - current[m] /\ left = remaining
    BY <1>3, <1>6
  <2>2. g = MinOf3(room, share, left) /\ share \in Int
    BY <1>7, <2>1 DEF FillGrant
  <2> HIDE DEF g
  <2>3. g <= share /\ (g = room \/ g = share \/ g = left)
    BY <2>2 DEF MinOf3, MinOf
  <2> QED
    BY <2>1, <2>3
<1> HIDE DEF g
<1>10. /\ current'[m] = current[m] + g
       /\ \A o \in Modules : o # m => current'[o] = current[o]
  BY <1>1, <1>3 DEF TypeOK
<1>11. FillBudget - remaining' <= Handed(more) + Cardinality(Overpaid(more))
  <2>1. IsFiniteSet(Overpaid(Served)) /\ Cardinality(Overpaid(Served)) \in Nat
    BY <1>4, <1>6
  <2>2. CASE FirstShare(m) = 0
    <3>1. Overpaid(more) = Overpaid(Served) \cup {m} /\ m \notin Overpaid(Served)
      BY <1>4, <2>2 DEF Overpaid
    <3>2. Cardinality(Overpaid(more)) = Cardinality(Overpaid(Served)) + 1
      BY <2>1, <3>1, FS_AddElement
    <3>3. g <= 1
      BY <1>7, <1>8, <1>9, <2>2
    <3>4. QED
      BY <1>1, <1>2, <1>3, <1>5, <1>8, <2>1, <3>2, <3>3
  <2>3. CASE FirstShare(m) # 0
    <3>1. Overpaid(more) = Overpaid(Served)
      BY <2>3 DEF Overpaid
    <3>2. g <= UpTo(m)
      BY <1>5, <1>7, <1>8, <1>9, <2>3
    <3>3. QED
      BY <1>1, <1>2, <1>3, <1>5, <1>8, <2>1, <3>1, <3>2
  <2>4. QED
    BY <2>2, <2>3
<1>12. FairShare(m)'
  <2>1. SUFFICES ASSUME current'[m] < Cap(m)
                 PROVE  current'[m] - Seed[m] >=
                          FirstShare(m) - RoundedOff - Cardinality(Favoured(m))
    BY <1>1, FairShareAfter
  <2>2. current'[m] - Seed[m] = g
    BY <1>1, <1>2, <1>6, <1>8, <1>10
  <2>3. g # Cap(m) - current[m]
    BY <1>6, <1>8, <1>10, <2>1
  <2>4. CASE g = share
    BY <1>5, <1>6, <1>7, <1>8, <2>2, <2>4
  <2>5. CASE g = remaining
    <3>1. \A o \in Served : o < m
      BY <1>1, <1>2
    <3>2. /\ Cardinality(Overpaid(Served)) <= Cardinality(Favoured(m))
          /\ Cardinality(Overpaid(Served)) \in Nat
      BY <1>4, <1>6, <3>1
    <3>3. QED
      BY <1>2, <1>3, <1>5, <1>6, <1>7, <1>8, <2>2, <2>5, <3>2
  <2>6. QED
    BY <1>9, <2>3, <2>4, <2>5
<1>13. ASSUME NEW o \in Served PROVE FairShare(o)'
  <2>1. o \in Contenders /\ o # m
    BY <1>4
  <2>2. o \in Modules /\ current[o] \in Nat
    BY <1>3, <2>1, ShareTypes
  <2>3. QED
    BY <1>1, <1>2, <1>3, <1>10, <2>1, <2>2, FairShareKept
<1>14. /\ FillBudget' = FillBudget /\ Contenders' = Contenders /\ Seed' = Seed
       /\ \A S \in SUBSET Modules : Handed(S)' = Handed(S) /\ Overpaid(S)' = Overpaid(S)
  BY <1>1, SharesStable
<1>15. Contenders \subseteq Modules
  BY DEF Contenders, BelowCap
<1>16. ~(round' = 0) /\ ~(phase' \in {"borrow", "done"})
  BY <1>1, <1>3, <1>8
<1>17. CASE todo' = {}
  <2>1. ASSUME NEW o \in Contenders PROVE FairShare(o)'
    <3>1. CASE o \in more
      BY <1>12, <1>13, <3>1
    <3>2. CASE o \notin more
      <4>1. o \in todo /\ o # m /\ o \in Modules
        BY <1>15, <2>1, <3>2 DEF Served
      <4>2. remaining' = 0
        BY <1>1, <1>17, <4>1
      <4>3. \A s \in more : s < o
        <5>1. m \in Nat /\ o \in Nat
          BY <4>1, ModulesAssumption
        <5>2. m < o
          BY <1>1, <4>1, <5>1
        <5>3. QED
          BY <1>2, <4>1, <5>2
      <4>4. FirstShare(o) \in Nat /\ Handed(more) + FirstShare(o) <= FillBudget
        <5>1. o \in Contenders \ more
          BY <3>2
        <5>2. QED
          BY <1>3, <1>4, <5>1, HandedStep
      <4>5. /\ Cardinality(Overpaid(more)) \in Nat /\ Cardinality(Favoured(o)) \in Nat
            /\ Cardinality(Overpaid(more)) <= Cardinality(Favoured(o)) /\ Seed[o] \in Nat
        BY <1>3, <1>4, <2>1, <4>3, ShareTypes
      <4>6. current'[o] - Seed[o] = 0
        BY <1>2, <1>10, <4>1, <4>5
      <4>7. FirstShare(o) <= Cardinality(Favoured(o))
        BY <1>3, <1>5, <1>11, <4>2, <4>4, <4>5
      <4>8. 0 >= FirstShare(o) - RoundedOff - Cardinality(Favoured(o))
        BY <1>7, <4>4, <4>5, <4>7
      <4>9. QED
        BY <1>1, <4>1, <4>6, <4>8, FairShareAfter
    <3>3. QED
      BY <3>1, <3>2
  <2>2. LaterRounds'
    BY <1>1, <1>3, <1>8, <1>14, <2>1 DEF LaterRounds
  <2>3. QED
    BY <1>16, <1>17, <2>2 DEF FairInv, BeforeRounds, FirstRound
<1>18. CASE todo' # {}
  <2>1. todo' = todo \ {m} /\ active' = active
    BY <1>1, <1>18 DEF Fill
  <2>2. Served' = more
    BY <1>4, <1>14, <2>1 DEF Served
  <2>3. PICK S \in SUBSET Modules : S = more
    BY <1>4, <1>15
  <2>4. Handed(S)' = Handed(S) /\ Overpaid(S)' = Overpaid(S)
    BY <1>14
  <2>5. Handed(Served)' = Handed(S)' /\ Overpaid(Served)' = Overpaid(S)'
    BY <2>2, <2>3 DEF Handed, WeightOver, Overpaid
  <2>6. Handed(Served)' = Handed(more) /\ Overpaid(Served)' = Overpaid(more)
    BY <2>3, <2>4, <2>5
  <2>7. FillBudget' - remaining' <= Handed(Served)' + Cardinality(Overpaid(Served)')
    BY <1>11, <1>14, <2>6
  <2>8. ASSUME NEW o \in todo' PROVE current'[o] = Seed'[o] /\ \A s \in Served' : s < o
    <3>1. o \in todo /\ o # m /\ o \in Modules
      BY <1>2, <1>15, <2>1, <2>8
    <3>2. current'[o] = Seed'[o]
      BY <1>2, <1>10, <1>14, <3>1
    <3>3. m < o
      BY <1>1, <3>1, ModulesAssumption
    <3>4. QED
      BY <1>2, <2>2, <3>1, <3>2, <3>3
  <2>9. \A o \in Served' : FairShare(o)'
    BY <1>12, <1>13, <2>2
  <2>10. FirstRound'
    BY <1>1, <1>2, <1>14, <2>1, <2>7, <2>8, <2>9 DEF FirstRound
  <2>11. LaterRounds'
    BY <1>1, <1>14, <1>18 DEF LaterRounds
  <2>12. QED
    BY <1>16, <2>10, <2>11 DEF FairInv, BeforeRounds
<1>19. QED
  BY <1>17, <1>18

(* Serving a module in a later round.                                      *)
LEMMA LaterRoundFair ==
  ASSUME IndInv, FairInv, NEW m \in Modules, Fill(m), round # FillBudget
  PROVE  FairInv'
<1> PICK share \in Shares(m) :
      /\ current' = [current EXCEPT ![m] = @ + FillGrant(m, share)]
      /\ remaining' = remaining - FillGrant(m, share)
  BY DEF Fill
<1>1. /\ UNCHANGED inputs /\ phase = "fill" /\ phase' = "fill" /\ round' = round
      /\ m \in todo
      /\ current' = [current EXCEPT ![m] = @ + FillGrant(m, share)]
      /\ remaining' = remaining - FillGrant(m, share)
  BY DEF Fill, Least
<1>2. TypeOK /\ FillBudget \in Nat /\ remaining \in Nat /\ round \in Nat
  BY <1>1, FillBudgetNat DEF IndInv, TypeOK
<1>3. FillGrant(m, share) \in Nat /\ FillGrant(m, share) >= 1 /\ FillGrant(m, share) <= remaining
  BY <1>1, FillGrantBounds
<1>4. round # 0
  BY <1>1 DEF FairInv, BeforeRounds
<1>5. /\ round <= FillBudget /\ remaining < FillBudget
      /\ \A o \in Contenders : FairShare(o)
  BY <1>1, <1>2, <1>4 DEF FairInv, LaterRounds
<1>6. \A o \in Modules : current'[o] \in Nat /\ current[o] <= current'[o]
  BY <1>1, <1>2, <1>3 DEF TypeOK
<1>7. FillBudget' = FillBudget /\ Contenders' = Contenders
  BY <1>1, SharesStable
<1>8. ASSUME NEW o \in Contenders PROVE FairShare(o)'
  <2>1. o \in Modules
    BY <1>2, ShareTypes
  <2>2. QED
    BY <1>1, <1>2, <1>5, <1>6, <2>1, FairShareKept
<1>9. LaterRounds'
  BY <1>1, <1>2, <1>3, <1>5, <1>7, <1>8 DEF LaterRounds
<1>10. QED
  BY <1>1, <1>4, <1>7, <1>9 DEF FairInv, BeforeRounds, FirstRound

LEMMA EndFillFair ==
  ASSUME IndInv, FairInv, EndFill
  PROVE  FairInv'
<1>1. /\ UNCHANGED inputs /\ phase = "fill" /\ phase' = "borrow" /\ todo = {} /\ FillOver
      /\ UNCHANGED <<current, borrowed>> /\ borrowed = None
  BY DEF EndFill, IndInv, FillInv
<1>2. TypeOK /\ FillBudget \in Nat /\ remaining \in Nat /\ round \in Nat
  BY <1>1, FillBudgetNat DEF IndInv, TypeOK
<1>3. Contenders' = Contenders
  BY <1>1, SharesStable
<1>4. ASSUME NEW m \in Contenders PROVE FairShare(m)
  <2>1. CASE round = 0
    <3>1. current = Seed /\ remaining = FillBudget /\ active = Contenders
      BY <1>1, <2>1 DEF FairInv, BeforeRounds
    <3>2. FillBudget = 0
      BY <1>1, <1>4, <2>1, <3>1 DEF FillOver
    <3>3. /\ FirstShare(m) \in Nat /\ FirstShare(m) <= FillBudget
          /\ Seed[m] \in Nat /\ Cardinality(Favoured(m)) \in Nat
      BY <1>2, ShareTypes
    <3>4. QED
      BY <3>1, <3>2, <3>3, RoundedOffIs DEF FairShare, GotShare
  <2>2. CASE round # 0
    BY <1>1, <1>2, <2>2 DEF FairInv, LaterRounds
  <2>3. QED
    BY <2>1, <2>2
<1>5. ASSUME NEW m \in Contenders, current'[m] - borrowed'[m] < Cap(m)' PROVE GotShare(m)'
  <2>1. m \in Modules /\ current[m] \in Nat
    BY <1>2, ShareTypes
  <2>2. borrowed'[m] = 0 /\ Cap(m)' = Cap(m) /\ current' = current
    BY <1>1, <2>1, SharesStable DEF None
  <2>3. current[m] < Cap(m)
    BY <1>5, <2>1, <2>2
  <2>4. GotShare(m)
    BY <1>4, <2>3 DEF FairShare
  <2>5. QED
    BY <1>1, <1>2, <2>1, <2>2, <2>4, FairShareKept
<1>6. QED
  BY <1>1, <1>3, <1>5 DEF FairInv

(* A lease adds as much to what a module borrows as to what it holds.      *)
LEMMA LeaseFair ==
  ASSUME IndInv, FairInv, phase = "borrow", phase' = "borrow", UNCHANGED inputs,
         FillBudget \in Nat,
         NEW b \in Modules, NEW t \in Nat, NEW source, Grant(b, source, t)
  PROVE  FairInv'
<1>1. /\ current' = [current EXCEPT ![b] = @ + t]
      /\ borrowed' = [borrowed EXCEPT ![b] = @ + t]
  BY DEF Grant
<1>2. TypeOK /\ current \in [Modules -> Nat] /\ borrowed \in [Modules -> Nat]
  BY DEF IndInv, TypeOK
<1>3. \A m \in Modules : /\ current'[m] \in Nat /\ current[m] <= current'[m]
                         /\ current'[m] - borrowed'[m] = current[m] - borrowed[m]
  BY <1>1, <1>2
<1>4. Contenders' = Contenders /\ \A m \in Modules : Cap(m)' = Cap(m)
  BY SharesStable
<1>5. ASSUME NEW m \in Contenders, current'[m] - borrowed'[m] < Cap(m)' PROVE GotShare(m)'
  <2>1. m \in Modules
    BY <1>2, ShareTypes
  <2>2. GotShare(m)
    BY <1>3, <1>4, <1>5, <2>1 DEF FairInv
  <2>3. QED
    BY <1>2, <1>3, <2>1, <2>2, FairShareKept
<1>6. QED
  BY <1>4, <1>5 DEF FairInv

(* Every call shares out the budget by weight.                             *)
LEMMA FairAlways == Spec => [](arithmetic # "overflow" => FairInv)
<1>1. Init => FairInv
  BY DEF Init, FairInv
<1>2. ASSUME IndInv, FairInv, arithmetic # "overflow", [Next]_vars
      PROVE  FairInv'
  <2>1. CASE Admit
    BY <1>2, <2>1, AdmitFair
  <2>2. CASE Reject
    BY <2>2 DEF Reject, FairInv
  <2>3. CASE StartRound
    BY <1>2, <2>3, StartRoundFair
  <2>4. CASE EndFill
    BY <1>2, <2>4, EndFillFair
  <2>5. ASSUME NEW m \in Modules, Fill(m) PROVE FairInv'
    BY <1>2, <2>5, FirstRoundFair, LaterRoundFair
  <2>6. ASSUME NEW b \in Modules, LendFromSlack(b) PROVE FairInv'
    <3>1. /\ WantsMore(b) /\ phase = "borrow" /\ phase' = "borrow" /\ UNCHANGED inputs /\ slack > 0
          /\ Grant(b, Slack, MinOf3(Need(b), slack, remaining))
      BY <2>6 DEF LendFromSlack, WantsMore
    <3>2. MinOf3(Need(b), slack, remaining) \in Nat
      <4>1. TypeOK
        BY <1>2 DEF IndInv
      <4>2. slack \in Nat /\ remaining \in Nat /\ current[b] \in Nat
        BY <4>1 DEF TypeOK
      <4>3. Ceiling(b) \in Nat
        BY <4>1, Bounds
      <4>4. Need(b) \in Nat
        BY <3>1, <4>2, <4>3 DEF WantsMore, Need
      <4>5. QED
        BY <4>2, <4>4 DEF MinOf3, MinOf
    <3>3. FillBudget \in Nat
      BY <1>2, <3>1, FillBudgetNat
    <3>4. QED
      BY <1>2, <3>1, <3>2, <3>3, LeaseFair
  <2>7. ASSUME NEW b \in Modules, NEW d \in Modules, LendFromDonor(b, d) PROVE FairInv'
    <3>1. /\ WantsMore(b) /\ phase = "borrow" /\ phase' = "borrow" /\ UNCHANGED inputs
          /\ Grant(b, d, MinOf3(Need(b), donorLeft[d], remaining))
      BY <2>7 DEF LendFromDonor, WantsMore
    <3>2. MinOf3(Need(b), donorLeft[d], remaining) \in Nat
      <4>1. TypeOK
        BY <1>2 DEF IndInv
      <4>2. donorLeft[d] \in Nat /\ remaining \in Nat /\ current[b] \in Nat
        BY <4>1 DEF TypeOK
      <4>3. Ceiling(b) \in Nat
        BY <4>1, Bounds
      <4>4. Need(b) \in Nat
        BY <3>1, <4>2, <4>3 DEF WantsMore, Need
      <4>5. QED
        BY <4>2, <4>4 DEF MinOf3, MinOf
    <3>3. FillBudget \in Nat
      BY <1>2, <3>1, FillBudgetNat
    <3>4. QED
      BY <1>2, <3>1, <3>2, <3>3, LeaseFair
  <2>8. ASSUME UNCHANGED inputs, UNCHANGED <<current, borrowed>>,
               phase \in {"borrow", "done"}, phase' \in {"borrow", "done"}
        PROVE  FairInv'
    <3>1. /\ Contenders' = Contenders /\ Contenders \subseteq Modules
          /\ \A m \in Modules : Cap(m)' = Cap(m)
      BY <2>8, SharesStable DEF Contenders, BelowCap
    <3>2. \A m \in Modules : GotShare(m)' <=> GotShare(m)
      BY <2>8, FairShareAfter DEF GotShare
    <3>3. QED
      BY <1>2, <2>8, <3>1, <3>2 DEF FairInv
  <2>9. CASE Finish
    BY <2>8, <2>9 DEF Finish, lending
  <2>10. ASSUME NEW b \in Modules, NextBorrower(b) PROVE FairInv'
    BY <2>8, <2>10 DEF NextBorrower
  <2>11. CASE Returned \/ UNCHANGED vars
    <3>1. UNCHANGED vars
      BY <2>11 DEF Returned
    <3>2. /\ UNCHANGED inputs
          /\ UNCHANGED <<phase, current, remaining, active, round, todo, borrowed>>
      BY <3>1 DEF vars, filling, lending
    <3>3. CASE phase = "fill"
      <4>1. /\ FillBudget' = FillBudget /\ Contenders' = Contenders /\ Seed' = Seed
            /\ Contenders \subseteq Modules
            /\ \A m \in Modules : FairShare(m)' <=> FairShare(m)
        BY <3>2, SharesStable, FairShareAfter DEF Contenders, BelowCap, FairShare, GotShare
      <4>2. Served' = Served /\ Served \subseteq Contenders
        BY <3>2, <4>1 DEF Served
      <4>3. Handed(Served)' = Handed(Served) /\ Overpaid(Served)' = Overpaid(Served)
        <5>1. PICK S \in SUBSET Modules : S = Served
          BY <4>1, <4>2
        <5>2. Handed(S)' = Handed(S) /\ Overpaid(S)' = Overpaid(S)
          BY <3>2, SharesStable
        <5>3. Handed(Served)' = Handed(S)' /\ Overpaid(Served)' = Overpaid(S)'
          BY <4>2, <5>1 DEF Handed, WeightOver, Overpaid
        <5>4. QED
          BY <5>1, <5>2, <5>3
      <4>4. BeforeRounds'
        BY <1>2, <3>2, <3>3, <4>1 DEF FairInv, BeforeRounds
      <4>5. FirstRound'
        BY <1>2, <3>2, <3>3, <4>1, <4>2, <4>3 DEF FairInv, FirstRound
      <4>6. LaterRounds'
        BY <1>2, <3>2, <3>3, <4>1 DEF FairInv, LaterRounds
      <4>7. QED
        BY <3>2, <3>3, <4>4, <4>5, <4>6 DEF FairInv
    <3>4. CASE phase \in {"borrow", "done"}
      BY <2>8, <3>2, <3>4
    <3>5. CASE phase \notin {"fill", "borrow", "done"}
      BY <3>2, <3>5 DEF FairInv
    <3>6. QED
      BY <3>3, <3>4, <3>5
  <2>12. QED
    BY <1>2, <2>1, <2>2, <2>3, <2>4, <2>5, <2>6, <2>7, <2>9, <2>10, <2>11 DEF Next, Step
<1>3. [Next]_vars => arithmetic' = arithmetic
  BY DEF Next, Step, Admit, Reject, StartRound, Fill, EndFill, LendFromDonor, LendFromSlack,
         NextBorrower, Finish, Returned, vars, inputs
<1>4. (arithmetic # "overflow" => FairInv) /\ IndInv /\ [Next]_vars =>
        (arithmetic # "overflow" => FairInv)'
  BY <1>2, <1>3
<1>5. QED
  BY <1>1, <1>4, Inductive, PTL DEF Spec

(* When the fill ends, a module short of its cap has its weighted share of *)
(* what was shared out, but for a token for each module before it that got *)
(* one without a share, and for one where f64 rounds.                      *)
THEOREM SharesByWeight == Spec => []WeightedFairness
<1>1. (arithmetic # "overflow" => FairInv) => WeightedFairness
  BY DEF FairInv, WeightedFairness, GotShare, Favoured
<1>2. QED
  BY <1>1, FairAlways, PTL

-----------------------------------------------------------------------------

(* A lease moves at least one token out of the pool.                       *)
LEMMA LeaseGives ==
  ASSUME IndInv, NEW b \in Modules, WantsMore(b), phase' = phase,
         NEW amount \in Nat, amount > 0,
         NEW source, Grant(b, source, MinOf3(Need(b), amount, remaining))
  PROVE  Pool!Give(b)
<1> DEFINE t == MinOf3(Need(b), amount, remaining)
<1>1. Need(b) \in Int /\ Need(b) > 0 /\ remaining \in Nat /\ remaining > 0 /\ phase = "borrow"
  BY Bounds DEF IndInv, TypeOK, Need, WantsMore
<1>2. t \in Nat /\ t >= 1 /\ t <= remaining
  BY <1>1 DEF MinOf3, MinOf
<1>3. current' = [current EXCEPT ![b] = @ + t] /\ remaining' = remaining - t
  BY DEF Grant
<1> HIDE DEF t
<1>4. remaining' \in 0 .. remaining - 1 /\ t = remaining - remaining'
  BY <1>1, <1>2, <1>3
<1>5. QED
  BY <1>1, <1>3, <1>4 DEF Pool!Give

(* The allocator implements the token pool: after admission every step     *)
(* moves tokens from the pool to one module or leaves both alone.          *)
THEOREM AllocationImplementsPool == Spec => ImplementsPool
<1>1. Init => Pool!Init
  BY DEF Init, Pool!Init, None
<1>2. IndInv /\ [Next]_vars => [Pool!Next]_(Pool!vars)
  <2> SUFFICES ASSUME IndInv, [Next]_vars PROVE [Pool!Next]_(Pool!vars)
    OBVIOUS
  <2>1. CASE Admit
    <3>1. current' \in [Modules -> Nat] /\ remaining' \in Nat
      BY <2>1, AdmitInv DEF IndInv, TypeOK
    <3>2. Pool!Open
      BY <2>1, <3>1 DEF Admit, Pool!Open
    <3>3. QED
      BY <3>2 DEF Pool!Next
  <2>2. CASE Reject \/ StartRound \/ EndFill \/ Finish \/ Returned \/ UNCHANGED vars
    BY <2>2 DEF Reject, StartRound, EndFill, Finish, Returned, vars, Pool!vars
  <2>3. ASSUME NEW m \in Modules, Fill(m) PROVE Pool!Give(m)
    <3>1. m \in todo /\ phase = "fill" /\ phase' = phase /\ remaining \in Nat
      BY <2>3 DEF Fill, Least, IndInv, TypeOK
    <3>2. PICK share \in Shares(m) :
            /\ current' = [current EXCEPT ![m] = @ + FillGrant(m, share)]
            /\ remaining' = remaining - FillGrant(m, share)
      BY <2>3 DEF Fill
    <3>3. /\ FillGrant(m, share) \in Nat /\ FillGrant(m, share) >= 1
          /\ FillGrant(m, share) <= remaining
      BY <3>1, FillGrantBounds
    <3>4. remaining' \in 0 .. remaining - 1 /\ FillGrant(m, share) = remaining - remaining'
      BY <3>1, <3>2, <3>3
    <3>5. QED
      BY <3>1, <3>2, <3>4 DEF Pool!Give
  <2>4. ASSUME NEW b \in Modules, NEW d \in Modules, LendFromDonor(b, d) PROVE Pool!Give(b)
    <3>1. WantsMore(b) /\ phase' = phase /\ donorLeft[d] \in Nat /\ donorLeft[d] > 0
      BY <2>4 DEF LendFromDonor, Least, DonorsFor, IndInv, TypeOK
    <3>2. Grant(b, d, MinOf3(Need(b), donorLeft[d], remaining))
      BY <2>4 DEF LendFromDonor
    <3>3. QED
      BY <3>1, <3>2, LeaseGives
  <2>5. ASSUME NEW b \in Modules, LendFromSlack(b) PROVE Pool!Give(b)
    <3>1. WantsMore(b) /\ phase' = phase /\ slack \in Nat /\ slack > 0
      BY <2>5 DEF LendFromSlack, IndInv, TypeOK
    <3>2. Grant(b, Slack, MinOf3(Need(b), slack, remaining))
      BY <2>5 DEF LendFromSlack
    <3>3. QED
      BY <3>1, <3>2, LeaseGives
  <2>6. ASSUME NEW b \in Modules, NextBorrower(b) PROVE UNCHANGED Pool!vars
    BY <2>6 DEF NextBorrower, Pool!vars
  <2>7. QED
    BY <2>1, <2>2, <2>3, <2>4, <2>5, <2>6 DEF Next, Step, Pool!Next
<1>3. QED
  BY <1>1, <1>2, Inductive, PTL DEF Spec, ImplementsPool, Pool!Spec

-----------------------------------------------------------------------------

(* PythonAgrees: Python's allocator is a function of the inputs, the core  *)
(* a walk.  The invariant (AgreeInv) places the core, at every step, on    *)
(* the walk that Python's loops take: after k whole rounds and j modules   *)
(* of the next, then after i borrowers and j donors of the next.  Where    *)
(* one of the two leaves a loop earlier, the rest of the other's loop is   *)
(* shown to change nothing (the Idle lemmas).                              *)

(* An order by ids, and the order of the borrowers, leave no two unordered. *)
LEMMA ByIdSorts ==
  ASSUME NEW S \in SUBSET Modules
  PROVE  Sorts(ById, S) /\ IsFiniteSet(S)
<1>1. Modules \subseteq Nat /\ IsFiniteSet(Modules)
  BY ModulesAssumption
<1>2. \A x, y \in S : <<x, y>> \in ById <=> x < y
  BY DEF ById
<1>3. \A x, y, z \in S : /\ ~(x < x) /\ (x < y /\ y < z => x < z)
                         /\ (x # y => x < y \/ y < x)
  BY <1>1
<1> QED BY <1>1, <1>2, <1>3, FS_Subset DEF Sorts

LEMMA BorrowersSort ==
  ASSUME TypeOK, NEW S \in SUBSET Modules
  PROVE  Sorts(PyBorrowOrder, S) /\ IsFiniteSet(S)
<1>1. Modules \subseteq Nat /\ IsFiniteSet(Modules)
  BY ModulesAssumption
<1>2. \A x, y \in S : <<x, y>> \in PyBorrowOrder <=> ServedBefore(x, y)
  BY DEF PyBorrowOrder
<1>3. \A x \in S : x \in Nat /\ def[x].weight \in Nat /\ def[x].order \in Nat
  BY <1>1, Bounds DEF ValidModule
<1>4. \A x, y, z \in S : /\ ~ServedBefore(x, x)
                         /\ (ServedBefore(x, y) /\ ServedBefore(y, z) => ServedBefore(x, z))
                         /\ (x # y => ServedBefore(x, y) \/ ServedBefore(y, x))
  BY <1>3 DEF ServedBefore
<1> QED BY <1>1, <1>2, <1>4, FS_Subset DEF Sorts

-----------------------------------------------------------------------------

(* Python's states are made of integers, whatever it is given.             *)
LEMMA PyGrantTyped ==
  ASSUME TypeOK, NEW s \in PyFilling, NEW m \in Modules, NEW budget \in Int,
         NEW total \in Nat, total > 0
  PROVE  PyGrant(s, m, budget, total) \in PyFilling
<1> DEFINE tokens == MinOf3(Cap(m) - s.held[m], PyShare(s, m, budget, total), s.left)
<1>1. s.held \in [Modules -> Int] /\ s.left \in Int
  BY DEF PyFilling
<1>2. Cap(m) \in Nat /\ def[m].weight \in Nat
  BY Bounds DEF ValidModule
<1>3. budget * def[m].weight \in Int
  BY <1>2
<1>4. (budget * def[m].weight) \div total \in Int
  BY <1>3
<1>5. PyShare(s, m, budget, total) \in Int
  BY <1>4 DEF PyShare, MaxOf
<1>6. tokens \in Int
  BY <1>1, <1>2, <1>5 DEF MinOf3, MinOf
<1> HIDE DEF tokens
<1>7. [s.held EXCEPT ![m] = @ + tokens] \in [Modules -> Int] /\ s.left - tokens \in Int
  BY <1>1, <1>6
<1>8. PyGrant(s, m, budget, total)
        = [held |-> [s.held EXCEPT ![m] = @ + tokens], left |-> s.left - tokens]
  BY DEF PyGrant, tokens
<1> QED BY <1>7, <1>8 DEF PyFilling

(* A round divides by a positive number.                                   *)
LEMMA WeightPositive ==
  ASSUME TypeOK, NEW S \in SUBSET Modules, S # {}
  PROVE  WeightOver(S) \in Nat /\ WeightOver(S) > 0
<1> DEFINE weights == [o \in Modules |-> def[o].weight]
<1>1. IsFiniteSet(S)
  BY ModulesAssumption, FS_Subset
<1>2. \A o \in S : weights[o] \in Nat /\ weights[o] > 0
  BY Bounds DEF ValidModule
<1>3. PICK m \in S : TRUE
  OBVIOUS
<1>4. WeightOver(S) \in Nat /\ weights[m] <= WeightOver(S)
  BY <1>1, <1>2, TotalNat, TotalBoundsMember DEF WeightOver
<1> QED BY <1>2, <1>4

(* The grants of a round that begins with s.                               *)
RoundTo(s, k) ==
  FoldedTo(PyGrants(s.left, WeightOver(BelowCap(s.held))), s, InOrder(BelowCap(s.held), ById), k)

LEMMA RoundSteps ==
  ASSUME TypeOK, NEW s \in PyFilling, NEW S, S = BelowCap(s.held), NEW size, size = Cardinality(S)
  PROVE  /\ RoundTo(s, 0) = s
         /\ \A k \in 0 .. size : RoundTo(s, k) \in PyFilling
         /\ \A k \in 1 .. size :
              RoundTo(s, k) = PyGrant(RoundTo(s, k - 1), InOrder(S, ById)[k], s.left, WeightOver(S))
         /\ s.left > 0 => PyRound(s) = RoundTo(s, size)
         /\ PyRound(s) \in PyFilling
<1> DEFINE step == PyGrants(s.left, WeightOver(S))
           order == InOrder(S, ById)
<1>1. S \in SUBSET Modules /\ s.left \in Int
  BY DEF BelowCap, PyFilling
<1>2. size \in Nat /\ order \in Seq(S) /\ Len(order) = size /\ \A k \in 1 .. size : order[k] \in S
  <2>1. Sorts(ById, S) /\ IsFiniteSet(S)
    BY <1>1, ByIdSorts
  <2> QED BY <2>1, InOrderSorted
<1>3. ASSUME NEW a \in PyFilling, NEW e \in S
      PROVE  step[a][e] = PyGrant(a, e, s.left, WeightOver(S)) /\ step[a][e] \in PyFilling
  <2>1. WeightOver(S) \in Nat /\ WeightOver(S) > 0 /\ e \in Modules
    BY <1>1, <1>3, WeightPositive
  <2>2. step[a][e] = PyGrant(a, e, s.left, WeightOver(S))
    BY <2>1 DEF PyGrants
  <2> QED BY <1>1, <2>1, <2>2, PyGrantTyped
<1> HIDE DEF step, order
<1>4. /\ FoldedTo(step, s, order, 0) = s
      /\ \A k \in 0 .. size : FoldedTo(step, s, order, k) \in PyFilling
      /\ \A k \in 1 .. size :
           FoldedTo(step, s, order, k) = step[FoldedTo(step, s, order, k - 1)][order[k]]
      /\ Folded(step, s, order) = FoldedTo(step, s, order, size)
  <2>1. \A a \in PyFilling, e \in S : step[a][e] \in PyFilling
    BY <1>3
  <2>2. /\ FoldedTo(step, s, order, 0) = s
        /\ \A k \in 0 .. Len(order) : FoldedTo(step, s, order, k) \in PyFilling
        /\ \A k \in 1 .. Len(order) :
             FoldedTo(step, s, order, k) = step[FoldedTo(step, s, order, k - 1)][order[k]]
        /\ Folded(step, s, order) = FoldedTo(step, s, order, Len(order))
    <3>1. Advances(PyFilling, step, s, order)
      BY <1>2, <2>1, FoldedSteps
    <3> QED BY <3>1 DEF Advances
  <2> QED BY <1>2, <2>2
<1>5. \A k : RoundTo(s, k) = FoldedTo(step, s, order, k)
  BY DEF RoundTo, step, order
<1>6. \A k \in 1 .. size : k - 1 \in 0 .. size
  BY <1>2
<1>7. PyRound(s) = IF s.left <= 0 THEN s ELSE Folded(step, s, order)
  BY DEF PyRound, step, order
<1>8. size \in 0 .. size
  BY <1>2
<1>9. \A k \in 1 .. size :
        RoundTo(s, k) = PyGrant(RoundTo(s, k - 1), order[k], s.left, WeightOver(S))
  BY <1>2, <1>3, <1>4, <1>5, <1>6
<1>10. s.left > 0 => PyRound(s) = RoundTo(s, size)
  BY <1>1, <1>4, <1>5, <1>7
<1>11. PyRound(s) \in PyFilling
  BY <1>1, <1>4, <1>7, <1>8
<1> QED BY <1>4, <1>5, <1>9, <1>10, <1>11 DEF order

LEMMA PySeedTyped ==
  ASSUME TypeOK, BudgetHoldsFloors
  PROVE  /\ PySeed = [held |-> Seed, left |-> available - TotalOver(Seed, Modules)]
         /\ PySeed \in PyFilling /\ PySeed.left \in Nat
<1>1. PySeed = [held |-> Seed, left |-> available - TotalOver(Seed, Modules)]
  BY DEF PySeed, Seed
<1>2. /\ Seed \in [Modules -> Nat] /\ TotalOver(Seed, Modules) \in Nat
      /\ TotalOver(Seed, Modules) <= FloorTotal
  BY SeedTotal
<1>3. available \in Int /\ FloorTotal <= available
  BY InputsAssumption DEF TypeOK, BudgetHoldsFloors
<1>4. FloorTotal \in Nat
  <2>1. \A m \in Modules : [o \in Modules |-> def[o].floor][m] \in Nat
    BY Bounds DEF ValidModule
  <2> QED BY <2>1, ModulesAssumption, TotalNat DEF FloorTotal
<1> QED BY <1>1, <1>2, <1>3, <1>4 DEF PyFilling

(* The state after k rounds.                                               *)
RoundsTo(k) == FoldedTo(PyRounds, PySeed, [i \in 1 .. PySeed.left |-> i], k)

PyFilled == PyWeightedFill(PySeed)

LEMMA RoundsSteps ==
  ASSUME TypeOK, BudgetHoldsFloors
  PROVE  /\ RoundsTo(0) = PySeed
         /\ \A k \in 0 .. PySeed.left : RoundsTo(k) \in PyFilling
         /\ \A k \in 1 .. PySeed.left : RoundsTo(k) = PyRound(RoundsTo(k - 1))
         /\ PyFilled = RoundsTo(PySeed.left)
<1> DEFINE s == [i \in 1 .. PySeed.left |-> i]
<1>1. PySeed \in PyFilling /\ PySeed.left \in Nat
  BY PySeedTyped
<1>2. s \in Seq(Nat) /\ Len(s) = PySeed.left /\ \A k \in 1 .. PySeed.left : s[k] \in Nat
  BY <1>1
<1>3. \A a \in PyFilling, i \in Nat : PyRounds[a][i] = PyRound(a) /\ PyRounds[a][i] \in PyFilling
  <2>1. \A a \in PyFilling : PyRound(a) \in PyFilling
    BY RoundSteps
  <2> QED BY <2>1 DEF PyRounds
<1> HIDE DEF s
<1>4. Advances(PyFilling, PyRounds, PySeed, s)
  BY <1>1, <1>2, <1>3, FoldedSteps
<1>5. \A k : RoundsTo(k) = FoldedTo(PyRounds, PySeed, s, k)
  BY DEF RoundsTo, s
<1>6. PyFilled = Folded(PyRounds, PySeed, s)
  BY DEF PyFilled, PyWeightedFill, s
<1>7. \A k \in 1 .. PySeed.left : k - 1 \in 0 .. PySeed.left
  BY <1>1
<1> QED BY <1>2, <1>3, <1>4, <1>5, <1>6, <1>7 DEF Advances

PyCore == [held |-> current, left |-> remaining]

(* The fill is where Python's is: after as many whole rounds, and after    *)
(* the same modules in the round that is on.                               *)
AtRound(k) ==
  /\ RoundsTo(k) = PyCore
  /\ k + remaining <= PySeed.left
  /\ active = BelowCap(current)

InRound(k, j) ==
  /\ RoundsTo(k).left = round
  /\ k + round <= PySeed.left
  /\ active = BelowCap(RoundsTo(k).held)
  /\ RoundTo(RoundsTo(k), j) = PyCore
  /\ todo = RestFrom(active, ById, j)

FillAgrees ==
  phase = "fill" =>
    \E k \in 0 .. PySeed.left :
      IF todo = {} THEN AtRound(k) ELSE \E j \in 0 .. Cardinality(active) : InRound(k, j)

PyLendCore ==
  [held |-> current, left |-> remaining, donors |-> [d \in PyLenders |-> donorLeft[d]],
   slack |-> slack, borrowed |-> borrowed, lent |-> lent, leases |-> leases]

PyWaiting == PyBorrowers(PyFilled.held)

PyServed == InOrder(PyWaiting, PyBorrowOrder)

ServedTo(k) == FoldedTo(PyServes, PyLendFrom(PyFilled), PyServed, k)

(* A borrower's turn that begins with s, after j donors.                   *)
TurnTo(s, b, j) == FoldedTo(PyFromDonors(b), s, InOrder(PyLenders, ById), j)

Passed(b, d) == d = b \/ donorLeft[d] = 0 \/ Need(b) <= 0 \/ remaining = 0

InTurn(i, b, j) ==
  /\ TurnTo(ServedTo(i), b, j) = PyLendCore
  /\ \A n \in 1 .. j : Passed(b, InOrder(PyLenders, ById)[n])

LendAgrees ==
  phase \in {"borrow", "done"} =>
    /\ \A m \in Modules \ PyLenders : donorLeft[m] = 0
    /\ phase = "done" => waiting = {}
    /\ \E i \in 0 .. Cardinality(PyWaiting) :
         /\ waiting = RestFrom(PyWaiting, PyBorrowOrder, i)
         /\ IF i = Cardinality(PyWaiting) THEN ServedTo(i) = PyLendCore
            ELSE \E j \in 0 .. Cardinality(PyLenders) : InTurn(i, PyServed[i + 1], j)

AgreeInv ==
  /\ phase = "rejected" => ~BudgetHoldsFloors
  /\ Allocating => BudgetHoldsFloors
  /\ FillAgrees
  /\ LendAgrees

(* The walks are functions of the inputs, and the inputs stay.             *)
LEMMA FillPlanStable ==
  ASSUME UNCHANGED inputs
  PROVE  /\ BudgetHoldsFloors' = BudgetHoldsFloors
         /\ PySeed' = PySeed /\ PyFilled' = PyFilled
         /\ \A held : BelowCap(held)' = BelowCap(held)
         /\ \A s, k : RoundTo(s, k)' = RoundTo(s, k)
         /\ \A k : RoundsTo(k)' = RoundsTo(k)
<1>1. def' = def /\ demand' = demand /\ available' = available
  BY DEF inputs
<1>2. BudgetHoldsFloors' = BudgetHoldsFloors
  BY <1>1 DEF BudgetHoldsFloors, FloorTotal
<1>3. PySeed' = PySeed
  BY <1>1 DEF PySeed
<1>4. \A held : BelowCap(held)' = BelowCap(held)
  BY <1>1 DEF BelowCap, Cap
<1>5. \A S : WeightOver(S)' = WeightOver(S)
  BY <1>1 DEF WeightOver
<1>6. \A s, m, budget, total : PyGrant(s, m, budget, total)' = PyGrant(s, m, budget, total)
  BY <1>1 DEF PyGrant, PyShare, Cap
<1>7. \A budget, total : PyGrants(budget, total)' = PyGrants(budget, total)
  BY <1>6 DEF PyGrants
<1>8. \A s, k : RoundTo(s, k)' = RoundTo(s, k)
  BY <1>4, <1>5, <1>7 DEF RoundTo
<1>9. \A s : PyRound(s)' = PyRound(s)
  BY <1>4, <1>5, <1>7 DEF PyRound
<1>10. PyRounds' = PyRounds
  BY <1>9 DEF PyRounds
<1>11. \A k : RoundsTo(k)' = RoundsTo(k)
  BY <1>3, <1>10 DEF RoundsTo
<1>12. PyFilled' = PyFilled
  BY <1>3, <1>10 DEF PyFilled, PyWeightedFill
<1> QED BY <1>2, <1>3, <1>4, <1>8, <1>11, <1>12

LEMMA LendPlanStable ==
  ASSUME UNCHANGED inputs
  PROVE  /\ PyLenders' = PyLenders /\ PyWaiting' = PyWaiting /\ PyServed' = PyServed
         /\ PyBorrowOrder' = PyBorrowOrder
         /\ \A k : ServedTo(k)' = ServedTo(k)
         /\ \A s, b, j : TurnTo(s, b, j)' = TurnTo(s, b, j)
         /\ PyAllocate' = PyAllocate
<1>1. def' = def /\ demand' = demand
  BY DEF inputs
<1>2. PyFilled' = PyFilled
  BY FillPlanStable
<1>3. PyLenders' = PyLenders
  BY <1>1 DEF PyLenders
<1>4. \A held : PyBorrowers(held)' = PyBorrowers(held)
  BY <1>1 DEF PyBorrowers
<1>5. PyBorrowOrder' = PyBorrowOrder
  BY <1>1 DEF PyBorrowOrder, ServedBefore
<1>6. PyWaiting' = PyWaiting /\ PyServed' = PyServed
  BY <1>2, <1>4, <1>5 DEF PyWaiting, PyServed
<1>7. PyLending' = PyLending
  BY <1>3 DEF PyLending
<1>8. \A s, b : PyNeed(s, b)' = PyNeed(s, b)
  BY <1>1 DEF PyNeed
<1>9. \A s, b, d : PyFromDonor(s, b, d)' = PyFromDonor(s, b, d)
  <2>1. SUFFICES ASSUME NEW s, NEW b, NEW d PROVE PyFromDonor(s, b, d)' = PyFromDonor(s, b, d)
    OBVIOUS
  <2>2. PyNeed(s, b)' = PyNeed(s, b)
    BY <1>8
  <2> QED BY <2>2, ZenonT(60) DEF PyFromDonor, PyLease
<1>10. \A s, b : PyFromSlack(s, b)' = PyFromSlack(s, b)
  BY <1>8 DEF PyFromSlack
<1>11. \A b : PyFromDonors(b)' = PyFromDonors(b)
  BY <1>3, <1>7, <1>9 DEF PyFromDonors
<1>12. \A s, b : PyServe(s, b)' = PyServe(s, b)
  BY <1>3, <1>10, <1>11 DEF PyServe
<1>13. PyServes' = PyServes
  BY <1>7, <1>12 DEF PyServes
<1>14. \A filled : PyLendFrom(filled)' = PyLendFrom(filled)
  BY <1>1, <1>3 DEF PyLendFrom
<1>15. \A k : ServedTo(k)' = ServedTo(k)
  BY <1>2, <1>6, <1>13, <1>14 DEF ServedTo
<1>16. \A s, b, j : TurnTo(s, b, j)' = TurnTo(s, b, j)
  BY <1>3, <1>11 DEF TurnTo
<1>17. PyAllocate' = Folded(PyServes, PyLendFrom(PyFilled), PyServed)'
  BY DEF PyAllocate, PyFilled, PyServed, PyWaiting
<1>18. PyAllocate = Folded(PyServes, PyLendFrom(PyFilled), PyServed)
  BY DEF PyAllocate, PyFilled, PyServed, PyWaiting
<1>19. PyAllocate' = PyAllocate
  BY <1>2, <1>6, <1>13, <1>14, <1>17, <1>18
<1> QED BY <1>3, <1>5, <1>6, <1>15, <1>16, <1>19

(* The two start alike.                                                    *)
LEMMA AdmitAgrees == IndInv /\ AgreeInv /\ Admit => AgreeInv'
<1> SUFFICES ASSUME IndInv, AgreeInv, Admit PROVE AgreeInv'
  OBVIOUS
<1>1. UNCHANGED inputs /\ BudgetHoldsFloors /\ phase = "start" /\ phase' = "fill" /\ TypeOK
  BY DEF Admit, IndInv
<1>2. /\ BudgetHoldsFloors' = BudgetHoldsFloors /\ PySeed' = PySeed
      /\ \A held : BelowCap(held)' = BelowCap(held)
      /\ \A k : RoundsTo(k)' = RoundsTo(k)
  BY <1>1, FillPlanStable
<1>3. todo' = {}
  BY <1>1 DEF Admit, IndInv, StartInv
<1>4. /\ RoundsTo(0) = PySeed /\ PySeed.left \in Nat
      /\ PySeed = [held |-> Seed, left |-> available - TotalOver(Seed, Modules)]
  BY <1>1, RoundsSteps, PySeedTyped
<1>5. PyCore' = PySeed
  BY <1>4 DEF Admit, PyCore
<1>6. active' = BelowCap(current)' /\ remaining' = PySeed.left
  BY <1>2, <1>4 DEF Admit, BelowCap, Cap, inputs
<1>7. AtRound(0)' /\ 0 \in 0 .. PySeed'.left
  BY <1>2, <1>4, <1>5, <1>6 DEF AtRound
<1>8. FillAgrees'
  BY <1>3, <1>7 DEF FillAgrees
<1> QED BY <1>1, <1>2, <1>8 DEF AgreeInv, LendAgrees

LEMMA StartRoundAgrees == IndInv /\ AgreeInv /\ StartRound => AgreeInv'
<1> SUFFICES ASSUME IndInv, AgreeInv, StartRound PROVE AgreeInv'
  OBVIOUS
<1>1. /\ UNCHANGED <<inputs, phase, current, remaining, active>> /\ phase = "fill" /\ TypeOK
      /\ todo = {} /\ round' = remaining /\ todo' = active /\ active # {}
      /\ BudgetHoldsFloors
  BY DEF StartRound, FillOver, IndInv, AgreeInv, Allocating
<1>2. /\ BudgetHoldsFloors' = BudgetHoldsFloors /\ PySeed' = PySeed
      /\ \A held : BelowCap(held)' = BelowCap(held)
      /\ \A k : RoundsTo(k)' = RoundsTo(k)
      /\ \A s, k : RoundTo(s, k)' = RoundTo(s, k)
  BY <1>1, FillPlanStable
<1>3. PICK k \in 0 .. PySeed.left : AtRound(k)
  BY <1>1 DEF AgreeInv, FillAgrees
<1>4. RoundsTo(k) = PyCore /\ PyCore \in PyFilling /\ k + remaining <= PySeed.left
      /\ active = BelowCap(PyCore.held) /\ PyCore.left = remaining
  BY <1>1, <1>3, RoundsSteps DEF AtRound, PyCore
<1>5. RoundTo(PyCore, 0) = PyCore
  BY <1>1, <1>4, RoundSteps
<1>6. active = RestFrom(active, ById, 0) /\ Cardinality(active) \in Nat
  <2>1. Sorts(ById, active) /\ IsFiniteSet(active)
    BY <1>1, ByIdSorts DEF TypeOK
  <2> QED BY <2>1, AllFromFirst
<1>7. PyCore' = PyCore
  BY <1>1 DEF PyCore
<1>8. InRound(k, 0)'
  BY <1>1, <1>2, <1>4, <1>5, <1>6, <1>7 DEF InRound
<1>9. FillAgrees'
  <2>1. k \in 0 .. PySeed'.left /\ 0 \in 0 .. Cardinality(active') /\ todo' # {}
    BY <1>1, <1>2, <1>6
  <2> QED BY <1>8, <2>1 DEF FillAgrees
<1> QED BY <1>1, <1>2, <1>9 DEF AgreeInv, LendAgrees

(* Nothing is handed out when nothing is left.                             *)
LEMMA IdleGrant ==
  ASSUME TypeOK, NEW s \in PyFilling, s.left = 0, NEW m \in Modules, s.held[m] <= Cap(m),
         NEW budget \in Int, NEW total \in Nat, total > 0
  PROVE  PyGrant(s, m, budget, total) = s
<1>1. s.held \in [Modules -> Int] /\ s = [held |-> s.held, left |-> s.left]
  BY DEF PyFilling
<1>2. Cap(m) \in Nat /\ def[m].weight \in Nat
  BY Bounds DEF ValidModule
<1>3. budget * def[m].weight \in Int
  BY <1>2
<1>4. (budget * def[m].weight) \div total \in Int
  BY <1>3
<1>5. PyShare(s, m, budget, total) \in Int /\ PyShare(s, m, budget, total) >= 1
  BY <1>4 DEF PyShare, MaxOf
<1>6. MinOf3(Cap(m) - s.held[m], PyShare(s, m, budget, total), s.left) = 0
  BY <1>1, <1>2, <1>5 DEF MinOf3, MinOf
<1>7. [s.held EXCEPT ![m] = @ + 0] = s.held
  BY <1>1
<1>8. PyGrant(s, m, budget, total) = [held |-> [s.held EXCEPT ![m] = @ + 0], left |-> s.left - 0]
  BY <1>6 DEF PyGrant
<1> QED BY <1>1, <1>7, <1>8

(* A round has nothing more to do once nothing is left.                    *)
LEMMA RestOfRoundIdle ==
  ASSUME TypeOK, NEW s \in PyFilling, NEW S, S = BelowCap(s.held),
         NEW size, size = Cardinality(S), NEW k \in 0 .. size,
         NEW r, r = RoundTo(s, k), r.left = 0, \A m \in Modules : r.held[m] <= Cap(m)
  PROVE  RoundTo(s, size) = r
<1>1. /\ \A n \in 0 .. size : RoundTo(s, n) \in PyFilling
      /\ \A n \in 1 .. size :
           RoundTo(s, n) = PyGrant(RoundTo(s, n - 1), InOrder(S, ById)[n], s.left, WeightOver(S))
  BY RoundSteps
<1>2. S \in SUBSET Modules /\ s.left \in Int /\ r \in PyFilling
  BY <1>1 DEF BelowCap, PyFilling
<1>3. size \in Nat /\ \A n \in 1 .. size : InOrder(S, ById)[n] \in S
  <2>1. Sorts(ById, S) /\ IsFiniteSet(S)
    BY <1>2, ByIdSorts
  <2> QED BY <2>1, InOrderSorted
<1> DEFINE Idle == {n \in Nat : k + n <= size => RoundTo(s, k + n) = r}
<1>4. 0 \in Idle
  BY <1>3
<1>5. ASSUME NEW n \in Nat, n \in Idle PROVE n + 1 \in Idle
  <2>1. SUFFICES ASSUME k + (n + 1) <= size PROVE RoundTo(s, k + (n + 1)) = r
    OBVIOUS
  <2>2. k + (n + 1) \in 1 .. size /\ k + (n + 1) - 1 = k + n /\ k + n <= size
    BY <1>3, <2>1
  <2> DEFINE m == InOrder(S, ById)[k + (n + 1)]
  <2>3. m \in Modules /\ S # {}
    BY <1>2, <1>3, <2>2
  <2>4. WeightOver(S) \in Nat /\ WeightOver(S) > 0
    BY <1>2, <2>3, WeightPositive
  <2>5. RoundTo(s, k + n) = r
    BY <1>5, <2>2
  <2>6. RoundTo(s, k + (n + 1)) = PyGrant(r, m, s.left, WeightOver(S))
    BY <1>1, <2>2, <2>5
  <2> HIDE DEF m
  <2>7. PyGrant(r, m, s.left, WeightOver(S)) = r
    BY <1>2, <2>3, <2>4, IdleGrant
  <2> QED BY <2>6, <2>7
<1> HIDE DEF Idle
<1>6. \A n \in Nat : n \in Idle
  BY <1>4, <1>5, NatSetInduction
<1>7. size - k \in Nat /\ k + (size - k) = size /\ k + (size - k) <= size
  BY <1>3
<1> QED BY <1>6, <1>7 DEF Idle

(* The core serves the module that is next in Python's round; when it ends *)
(* the round, Python's round is over or idle.                              *)
LEMMA FillAgreesStep ==
  ASSUME NEW m \in Modules, arithmetic = "exact"
  PROVE  IndInv /\ AgreeInv /\ Fill(m) => AgreeInv'
<1> SUFFICES ASSUME IndInv, AgreeInv, Fill(m) PROVE AgreeInv'
  OBVIOUS
<1> DEFINE share == PyShare(PyCore, m, round, WeightOver(active))
<1>. Shares(m) = {share}
  BY DEF Shares, Truncated, PyShare
<1> HIDE DEF share
<1>1. /\ UNCHANGED <<inputs, phase, round>> /\ phase = "fill" /\ TypeOK /\ BudgetHoldsFloors
      /\ Least(m, todo) /\ todo # {} /\ m \in todo /\ todo \subseteq active
  BY DEF Fill, Least, IndInv, TypeOK, AgreeInv, Allocating
<1>2. /\ current' = [current EXCEPT ![m] = @ + FillGrant(m, share)]
      /\ remaining' = remaining - FillGrant(m, share)
      /\ todo' = IF remaining' = 0 THEN {} ELSE todo \ {m}
      /\ active' = IF todo' = {} THEN Retain(current') ELSE active
  BY DEF Fill
<1>3. /\ BudgetHoldsFloors' = BudgetHoldsFloors /\ PySeed' = PySeed
      /\ \A held : BelowCap(held)' = BelowCap(held)
      /\ \A k : RoundsTo(k)' = RoundsTo(k)
      /\ \A s, k : RoundTo(s, k)' = RoundTo(s, k)
  BY <1>1, FillPlanStable
<1>4. /\ TypeOK' /\ FillInv'
      /\ \A o \in Modules : Cap(o)' = Cap(o)
  BY <1>1, FillStepInv, InputsStable DEF IndInv
<1>5. PICK k \in 0 .. PySeed.left, j \in 0 .. Cardinality(active) : InRound(k, j)
  BY <1>1 DEF AgreeInv, FillAgrees
<1> DEFINE s == RoundsTo(k)
           S == active
           size == Cardinality(active)
           order == InOrder(active, ById)
<1>6. /\ s.left = round /\ k + round <= PySeed.left
      /\ S = BelowCap(s.held) /\ RoundTo(s, j) = PyCore
      /\ todo = RestFrom(active, ById, j)
  BY <1>5 DEF InRound
<1>7. s \in PyFilling /\ PySeed.left \in Nat /\ round \in Nat /\ k \in Nat
  <2>1. PySeed.left \in Nat /\ \A n \in 0 .. PySeed.left : RoundsTo(n) \in PyFilling
    BY <1>1, RoundsSteps, PySeedTyped
  <2> QED BY <1>1, <1>5, <2>1 DEF TypeOK
<1>8. /\ RoundTo(s, j) \in PyFilling
      /\ \A n \in 1 .. size :
           RoundTo(s, n) = PyGrant(RoundTo(s, n - 1), order[n], s.left, WeightOver(S))
      /\ s.left > 0 => PyRound(s) = RoundTo(s, size)
  <2> HIDE DEF s
  <2> QED BY <1>1, <1>5, <1>6, <1>7, RoundSteps
<1> HIDE DEF s
<1>9. /\ j + 1 \in 1 .. size /\ m = order[j + 1] /\ m \in S
      /\ todo \ {m} = RestFrom(active, ById, j + 1)
  <2>1. Sorts(ById, S) /\ IsFiniteSet(S)
    BY <1>1, ByIdSorts DEF TypeOK
  <2>2. FirstBy(m, todo, ById)
    <3>1. m \in Modules /\ \A other \in todo : m <= other /\ other \in Modules
      BY <1>1 DEF Least, TypeOK
    <3>2. Modules \subseteq Nat
      BY ModulesAssumption
    <3>3. ASSUME NEW other \in todo PROVE other = m \/ m < other
      <4>1. m \in Nat /\ other \in Nat /\ m <= other
        BY <3>1, <3>2
      <4> QED BY <4>1
    <3>4. \A other \in todo : m < other => <<m, other>> \in ById
      BY <3>1 DEF ById
    <3> QED BY <1>1, <3>3, <3>4 DEF FirstBy
  <2> QED BY <1>5, <1>6, <2>1, <2>2, NextInOrder
<1>10. size \in Nat /\ j \in Nat /\ j + 1 - 1 = j
  <2>1. IsFiniteSet(S)
    BY <1>1, ByIdSorts DEF TypeOK
  <2> QED BY <1>5, <2>1, FS_CardinalityType
<1>11. RoundTo(s, j + 1) = PyCore'
  <2>1. RoundTo(s, j + 1) = PyGrant(PyCore, m, round, WeightOver(active))
    BY <1>6, <1>8, <1>9, <1>10
  <2>3. PyGrant(PyCore, m, round, WeightOver(active))
          = [held |-> [current EXCEPT ![m] = @ + FillGrant(m, share)],
             left |-> remaining - FillGrant(m, share)]
    BY DEF PyGrant, PyCore, FillGrant, share
  <2> QED BY <1>2, <2>1, <2>3 DEF PyCore
<1>12. /\ remaining \in Nat /\ remaining' \in Nat
       /\ remaining' < remaining /\ remaining > 0 /\ remaining <= round
  <2>1. FillGrant(m, share) \in Nat /\ FillGrant(m, share) >= 1 /\ FillGrant(m, share) <= remaining
    BY <1>1, FillGrantBounds
  <2>2. remaining \in Nat /\ remaining > 0 /\ remaining <= round
    BY <1>1 DEF TypeOK, IndInv, FillInv
  <2> QED BY <1>2, <2>1, <2>2
<1>13. CASE todo' # {}
  <2>1. active' = active /\ remaining' # 0 /\ todo' = todo \ {m}
    BY <1>2, <1>13
  <2>2. InRound(k, j + 1)'
    <3>1. RoundsTo(k)' = s /\ RoundTo(RoundsTo(k), j + 1)' = RoundTo(s, j + 1)
      BY <1>3 DEF s
    <3>2. RoundsTo(k)'.left = round' /\ k + round' <= PySeed'.left
      BY <1>1, <1>3, <1>6, <3>1
    <3>3. active' = BelowCap(RoundsTo(k).held)'
      BY <1>3, <1>6, <2>1, <3>1
    <3>4. todo' = RestFrom(active', ById, j + 1)
      BY <1>9, <2>1
    <3> QED BY <1>11, <3>1, <3>2, <3>3, <3>4 DEF InRound
  <2>3. k \in 0 .. PySeed'.left /\ j + 1 \in 0 .. Cardinality(active')
    BY <1>3, <1>5, <1>9, <1>10, <2>1
  <2>4. FillAgrees'
    BY <1>13, <2>2, <2>3 DEF FillAgrees
  <2> QED BY <1>1, <1>3, <2>4 DEF AgreeInv, LendAgrees
<1>14. CASE todo' = {}
  <2>1. \A o \in Modules : current'[o] <= Cap(o)
    BY <1>1, <1>4 DEF FillInv
  <2>2. RoundTo(s, size) = PyCore'
    <3>1. CASE remaining' = 0
      <4>1. PyCore'.left = 0 /\ PyCore'.held = current'
        BY <3>1 DEF PyCore
      <4>2. \A o \in Modules : PyCore'.held[o] <= Cap(o)
        BY <2>1, <4>1
      <4>3. j + 1 \in 0 .. size
        BY <1>9, <1>10
      <4> HIDE DEF S, size
      <4>4. size = Cardinality(S)
        BY DEF S, size
      <4> QED BY <1>1, <1>6, <1>7, <1>11, <4>1, <4>2, <4>3, <4>4, RestOfRoundIdle
    <3>2. CASE remaining' # 0
      <4>1. RestFrom(active, ById, j + 1) = {}
        BY <1>2, <1>9, <1>14, <3>2
      <4>2. j + 1 = size
        <5>1. Sorts(ById, S) /\ IsFiniteSet(S)
          BY <1>1, ByIdSorts DEF TypeOK
        <5> QED BY <1>9, <1>10, <4>1, <5>1, AllFromFirst
      <4> QED BY <1>11, <4>2
    <3> QED BY <3>1, <3>2
  <2>3. k + 1 \in 1 .. PySeed.left /\ k + 1 + remaining' <= PySeed.left
    BY <1>6, <1>7, <1>12
  <2>4. RoundsTo(k + 1) = PyCore'
    <3>1. RoundsTo(k + 1) = PyRound(RoundsTo(k))
      <4>1. k + 1 - 1 = k
        BY <1>7
      <4> QED BY <1>1, <2>3, <4>1, RoundsSteps
    <3>2. s.left > 0
      BY <1>6, <1>7, <1>12
    <3> QED BY <1>8, <2>2, <3>1, <3>2 DEF s
  <2>5. active' = BelowCap(current')
    <3>1. active' = active \cap BelowCap(current')
      BY <1>2, <1>14 DEF Retain
    <3>2. \A o \in Modules : Cap(o) \in Nat
      BY <1>1, Bounds
    <3>3. \A o \in Modules \ active' : current'[o] = Cap(o)
      BY <1>1, <1>4 DEF FillInv
    <3>4. active' \in SUBSET Modules
      BY <1>4 DEF TypeOK
    <3> QED BY <3>1, <3>2, <3>3, <3>4 DEF BelowCap
  <2>6. AtRound(k + 1)'
    <3>1. BelowCap(current)' = BelowCap(current')
      BY <1>4 DEF BelowCap
    <3> QED BY <1>3, <2>3, <2>4, <2>5, <3>1 DEF AtRound
  <2>7. k + 1 \in 0 .. PySeed'.left
    BY <1>3, <1>7, <2>3
  <2>8. FillAgrees'
    BY <1>14, <2>6, <2>7 DEF FillAgrees
  <2> QED BY <1>1, <1>3, <2>8 DEF AgreeInv, LendAgrees
<1> QED BY <1>13, <1>14

(* Once the fill is over, further rounds change nothing.                   *)
LEMMA RestOfRoundsIdle ==
  ASSUME TypeOK, BudgetHoldsFloors, NEW k \in 0 .. PySeed.left, NEW s, s = RoundsTo(k),
         s.left <= 0 \/ BelowCap(s.held) = {}
  PROVE  PyFilled = s
<1>1. /\ PySeed.left \in Nat /\ \A n \in 0 .. PySeed.left : RoundsTo(n) \in PyFilling
      /\ \A n \in 1 .. PySeed.left : RoundsTo(n) = PyRound(RoundsTo(n - 1))
      /\ PyFilled = RoundsTo(PySeed.left)
  BY RoundsSteps, PySeedTyped
<1>2. s \in PyFilling /\ s.left \in Int
  BY <1>1 DEF PyFilling
<1>3. PyRound(s) = s
  <2>1. CASE s.left <= 0
    BY <2>1 DEF PyRound
  <2>2. CASE ~(s.left <= 0)
    <3>1. BelowCap(s.held) = {} /\ Cardinality({}) = 0 /\ s.left > 0
      BY <1>2, <2>2, FS_EmptySet
    <3> QED BY <1>2, <3>1, RoundSteps
  <2> QED BY <2>1, <2>2
<1> DEFINE Idle == {n \in Nat : k + n <= PySeed.left => RoundsTo(k + n) = s}
<1>4. 0 \in Idle
  BY <1>1
<1>5. ASSUME NEW n \in Nat, n \in Idle PROVE n + 1 \in Idle
  <2>1. SUFFICES ASSUME k + (n + 1) <= PySeed.left PROVE RoundsTo(k + (n + 1)) = s
    OBVIOUS
  <2>2. /\ k + (n + 1) \in 1 .. PySeed.left /\ k + (n + 1) - 1 = k + n
        /\ k + n <= PySeed.left
    BY <1>1, <2>1
  <2>3. RoundsTo(k + n) = s
    BY <1>5, <2>2
  <2> QED BY <1>1, <1>3, <2>2, <2>3
<1> HIDE DEF Idle
<1>6. \A n \in Nat : n \in Idle
  BY <1>4, <1>5, NatSetInduction
<1>7. /\ PySeed.left - k \in Nat /\ k + (PySeed.left - k) = PySeed.left
      /\ k + (PySeed.left - k) <= PySeed.left
  BY <1>1
<1>8. PySeed.left - k \in Idle
  BY <1>6, <1>7
<1>9. RoundsTo(k + (PySeed.left - k)) = s
  BY <1>7, <1>8 DEF Idle
<1> QED BY <1>1, <1>7, <1>9

(* What a lease of Python's makes, part by part.                           *)
LEMMA LeaseParts ==
  ASSUME NEW s \in PyLending, NEW b \in Modules, NEW donor, NEW tokens \in Int
  PROVE  PyLease(s, b, donor, tokens) =
           [held |-> [s.held EXCEPT ![b] = @ + tokens], left |-> s.left - tokens,
            donors |-> s.donors, slack |-> s.slack,
            borrowed |-> [s.borrowed EXCEPT ![b] = @ + tokens], lent |-> s.lent,
            leases |-> Append(s.leases, [donor |-> donor, borrower |-> b, tokens |-> tokens])]
<1>1. s = [held |-> s.held, left |-> s.left, donors |-> s.donors, slack |-> s.slack,
           borrowed |-> s.borrowed, lent |-> s.lent, leases |-> s.leases]
  BY DEF PyLending
<1>2. PICK held, left, donors, slk, brw, lnt, lss :
        s = [held |-> held, left |-> left, donors |-> donors, slack |-> slk,
             borrowed |-> brw, lent |-> lnt, leases |-> lss]
  BY <1>1, Zenon
<1>3. PyLease(s, b, donor, tokens) =
        [s EXCEPT !.left = left - tokens,
                  !.held = [held EXCEPT ![b] = @ + tokens],
                  !.borrowed = [brw EXCEPT ![b] = @ + tokens],
                  !.leases = Append(lss, [donor |-> donor, borrower |-> b, tokens |-> tokens])]
  BY <1>2 DEF PyLease
<1> QED BY <1>2, <1>3

LEMMA FromDonorParts ==
  ASSUME NEW s \in PyLending, NEW b \in Modules, NEW d \in PyLenders, d # b,
         NEW tokens \in Int, tokens = MinOf3(PyNeed(s, b), s.donors[d], s.left), tokens > 0
  PROVE  PyFromDonor(s, b, d) =
           [held |-> [s.held EXCEPT ![b] = @ + tokens], left |-> s.left - tokens,
            donors |-> [s.donors EXCEPT ![d] = @ - tokens], slack |-> s.slack,
            borrowed |-> [s.borrowed EXCEPT ![b] = @ + tokens],
            lent |-> [s.lent EXCEPT ![d] = @ + tokens],
            leases |-> Append(s.leases, [donor |-> d, borrower |-> b, tokens |-> tokens])]
<1> DEFINE lease == PyLease(s, b, d, tokens)
<1>1. lease = [held |-> [s.held EXCEPT ![b] = @ + tokens], left |-> s.left - tokens,
               donors |-> s.donors, slack |-> s.slack,
               borrowed |-> [s.borrowed EXCEPT ![b] = @ + tokens], lent |-> s.lent,
               leases |-> Append(s.leases, [donor |-> d, borrower |-> b, tokens |-> tokens])]
  BY LeaseParts, ZenonT(30)
<1>2. PyFromDonor(s, b, d) = [lease EXCEPT !.donors[d] = @ - tokens, !.lent[d] = @ + tokens]
  BY DEF PyFromDonor
<1> HIDE DEF lease
<1> QED BY <1>1, <1>2, ZenonT(60)

LEMMA FromSlackParts ==
  ASSUME NEW s \in PyLending, NEW b \in Modules,
         NEW tokens \in Int, tokens = MinOf3(PyNeed(s, b), s.slack, s.left), tokens > 0
  PROVE  PyFromSlack(s, b) =
           [held |-> [s.held EXCEPT ![b] = @ + tokens], left |-> s.left - tokens,
            donors |-> s.donors, slack |-> s.slack - tokens,
            borrowed |-> [s.borrowed EXCEPT ![b] = @ + tokens], lent |-> s.lent,
            leases |-> Append(s.leases, [donor |-> Slack, borrower |-> b, tokens |-> tokens])]
<1> DEFINE lease == PyLease(s, b, Slack, tokens)
           h == [s.held EXCEPT ![b] = @ + tokens]
           w == [s.borrowed EXCEPT ![b] = @ + tokens]
           e == Append(s.leases, [donor |-> Slack, borrower |-> b, tokens |-> tokens])
           l == s.left - tokens
<1>1. lease = [held |-> h, left |-> l, donors |-> s.donors, slack |-> s.slack,
               borrowed |-> w, lent |-> s.lent, leases |-> e]
  BY LeaseParts, ZenonT(30)
<1>2. PyFromSlack(s, b) = [lease EXCEPT !.slack = @ - tokens]
  BY DEF PyFromSlack
<1> HIDE DEF lease, h, w, e, l
<1>3. PyFromSlack(s, b) =
        [held |-> h, left |-> l, donors |-> s.donors, slack |-> s.slack - tokens,
         borrowed |-> w, lent |-> s.lent, leases |-> e]
  BY <1>1, <1>2
<1> QED BY <1>3, ZenonT(30) DEF h, w, e, l

LEMMA PyNeedTyped ==
  ASSUME TypeOK, NEW s \in PyLending, NEW b \in Modules
  PROVE  PyNeed(s, b) \in Int
<1>1. s.held[b] \in Int
  BY DEF PyLending
<1>2. demand[b] \in Nat /\ def[b].max \in Nat
  BY Bounds DEF ValidModule
<1> QED BY <1>1, <1>2 DEF PyNeed, MinOf

LEMMA LeaseTyped ==
  ASSUME NEW s \in PyLending, NEW b \in Modules, NEW donor \in Modules \cup {Slack},
         NEW tokens \in Int
  PROVE  /\ [s.held EXCEPT ![b] = @ + tokens] \in [Modules -> Int]
         /\ [s.borrowed EXCEPT ![b] = @ + tokens] \in [Modules -> Int]
         /\ s.left - tokens \in Int /\ s.slack - tokens \in Int /\ s.slack \in Int
         /\ s.donors \in [PyLenders -> Int] /\ s.lent \in [Modules -> Int]
         /\ Append(s.leases, [donor |-> donor, borrower |-> b, tokens |-> tokens])
              \in Seq([donor : Modules \cup {Slack}, borrower : Modules, tokens : Int])
<1>1. /\ s.held \in [Modules -> Int] /\ s.borrowed \in [Modules -> Int]
      /\ s.left \in Int /\ s.slack \in Int
      /\ s.donors \in [PyLenders -> Int] /\ s.lent \in [Modules -> Int]
      /\ s.leases \in Seq([donor : Modules \cup {Slack}, borrower : Modules, tokens : Int])
  BY DEF PyLending
<1>2. [donor |-> donor, borrower |-> b, tokens |-> tokens]
        \in [donor : Modules \cup {Slack}, borrower : Modules, tokens : Int]
  OBVIOUS
<1>3. /\ [s.held EXCEPT ![b] = @ + tokens] \in [Modules -> Int]
      /\ [s.borrowed EXCEPT ![b] = @ + tokens] \in [Modules -> Int]
  BY <1>1
<1>4. s.left - tokens \in Int /\ s.slack - tokens \in Int
  BY <1>1
<1>5. Append(s.leases, [donor |-> donor, borrower |-> b, tokens |-> tokens])
        \in Seq([donor : Modules \cup {Slack}, borrower : Modules, tokens : Int])
  <2> DEFINE S == [donor : Modules \cup {Slack}, borrower : Modules, tokens : Int]
             x == [donor |-> donor, borrower |-> b, tokens |-> tokens]
  <2>1. s.leases \in Seq(S) /\ x \in S
    BY <1>1, <1>2
  <2> HIDE DEF S, x
  <2>2. Append(s.leases, x) \in Seq(S)
    BY <2>1
  <2> QED BY <2>2 DEF S, x
<1> QED BY <1>1, <1>3, <1>4, <1>5

LEMMA FromDonorTyped ==
  ASSUME TypeOK, NEW s \in PyLending, NEW b \in Modules, NEW d \in PyLenders
  PROVE  PyFromDonor(s, b, d) \in PyLending
<1> DEFINE tokens == MinOf3(PyNeed(s, b), s.donors[d], s.left)
<1>1. s.donors[d] \in Int /\ s.left \in Int /\ d \in Modules
  BY DEF PyLending, PyLenders
<1>2. tokens \in Int
  BY <1>1, PyNeedTyped DEF MinOf3, MinOf
<1>3. CASE d = b \/ tokens <= 0
  BY <1>3 DEF PyFromDonor
<1>4. CASE d # b /\ ~(tokens <= 0)
  <2> HIDE DEF tokens
  <2>1. tokens > 0
    BY <1>2, <1>4
  <2>2. [s.donors EXCEPT ![d] = @ - tokens] \in [PyLenders -> Int]
        /\ [s.lent EXCEPT ![d] = @ + tokens] \in [Modules -> Int]
    <3>1. s.donors \in [PyLenders -> Int] /\ s.lent \in [Modules -> Int]
      BY DEF PyLending
    <3> QED BY <1>1, <1>2, <3>1
  <2>3. PyFromDonor(s, b, d) =
           [held |-> [s.held EXCEPT ![b] = @ + tokens], left |-> s.left - tokens,
            donors |-> [s.donors EXCEPT ![d] = @ - tokens], slack |-> s.slack,
            borrowed |-> [s.borrowed EXCEPT ![b] = @ + tokens],
            lent |-> [s.lent EXCEPT ![d] = @ + tokens],
            leases |-> Append(s.leases, [donor |-> d, borrower |-> b, tokens |-> tokens])]
    BY <1>2, <1>4, <2>1, FromDonorParts DEF tokens
  <2>4. /\ [s.held EXCEPT ![b] = @ + tokens] \in [Modules -> Int]
        /\ [s.borrowed EXCEPT ![b] = @ + tokens] \in [Modules -> Int]
        /\ s.left - tokens \in Int /\ s.slack \in Int
        /\ Append(s.leases, [donor |-> d, borrower |-> b, tokens |-> tokens])
             \in Seq([donor : Modules \cup {Slack}, borrower : Modules, tokens : Int])
    BY <1>1, <1>2, LeaseTyped
  <2> DEFINE h == [s.held EXCEPT ![b] = @ + tokens]
             n == [s.donors EXCEPT ![d] = @ - tokens]
             w == [s.borrowed EXCEPT ![b] = @ + tokens]
             t == [s.lent EXCEPT ![d] = @ + tokens]
             e == Append(s.leases, [donor |-> d, borrower |-> b, tokens |-> tokens])
  <2>5. /\ h \in [Modules -> Int] /\ s.left - tokens \in Int /\ n \in [PyLenders -> Int]
        /\ s.slack \in Int /\ w \in [Modules -> Int] /\ t \in [Modules -> Int]
        /\ e \in Seq([donor : Modules \cup {Slack}, borrower : Modules, tokens : Int])
    BY <2>2, <2>4
  <2>6. PyFromDonor(s, b, d) =
          [held |-> h, left |-> s.left - tokens, donors |-> n, slack |-> s.slack,
           borrowed |-> w, lent |-> t, leases |-> e]
    BY <2>3
  <2> HIDE DEF h, n, w, t, e
  <2> QED BY <2>5, <2>6 DEF PyLending
<1> QED BY <1>3, <1>4

LEMMA FromSlackTyped ==
  ASSUME TypeOK, NEW s \in PyLending, NEW b \in Modules
  PROVE  PyFromSlack(s, b) \in PyLending
<1> DEFINE tokens == MinOf3(PyNeed(s, b), s.slack, s.left)
<1>1. s.slack \in Int /\ s.left \in Int
  BY DEF PyLending
<1>2. tokens \in Int
  BY <1>1, PyNeedTyped DEF MinOf3, MinOf
<1>3. CASE tokens <= 0
  BY <1>3 DEF PyFromSlack
<1>4. CASE ~(tokens <= 0)
  <2> HIDE DEF tokens
  <2>1. tokens > 0
    BY <1>2, <1>4
  <2>2. PyFromSlack(s, b) =
           [held |-> [s.held EXCEPT ![b] = @ + tokens], left |-> s.left - tokens,
            donors |-> s.donors, slack |-> s.slack - tokens,
            borrowed |-> [s.borrowed EXCEPT ![b] = @ + tokens], lent |-> s.lent,
            leases |-> Append(s.leases, [donor |-> Slack, borrower |-> b, tokens |-> tokens])]
    BY <1>2, <2>1, FromSlackParts DEF tokens
  <2> QED BY <1>2, <2>2, LeaseTyped DEF PyLending
<1> QED BY <1>3, <1>4

LEMMA TurnSteps ==
  ASSUME TypeOK, NEW s \in PyLending, NEW b \in Modules, NEW size, size = Cardinality(PyLenders)
  PROVE  /\ size \in Nat /\ \A j \in 1 .. size : InOrder(PyLenders, ById)[j] \in PyLenders
         /\ TurnTo(s, b, 0) = s
         /\ \A j \in 0 .. size : TurnTo(s, b, j) \in PyLending
         /\ \A j \in 1 .. size :
              TurnTo(s, b, j) = PyFromDonor(TurnTo(s, b, j - 1), b, InOrder(PyLenders, ById)[j])
         /\ PyServe(s, b) = PyFromSlack(TurnTo(s, b, size), b)
         /\ PyServe(s, b) \in PyLending
<1> DEFINE order == InOrder(PyLenders, ById)
           step == PyFromDonors(b)
<1>1. /\ size \in Nat /\ order \in Seq(PyLenders) /\ Len(order) = size
      /\ \A j \in 1 .. size : order[j] \in PyLenders
  <2>1. PyLenders \in SUBSET Modules
    BY DEF PyLenders
  <2>2. Sorts(ById, PyLenders) /\ IsFiniteSet(PyLenders)
    BY <2>1, ByIdSorts
  <2> QED BY <2>2, InOrderSorted
<1>2. \A a \in PyLending, d \in PyLenders :
        step[a][d] = PyFromDonor(a, b, d) /\ step[a][d] \in PyLending
  <2>1. \A a \in PyLending, d \in PyLenders : PyFromDonor(a, b, d) \in PyLending
    BY FromDonorTyped
  <2> QED BY <2>1 DEF PyFromDonors
<1> HIDE DEF order, step
<1>3. Advances(PyLending, step, s, order)
  BY <1>1, <1>2, FoldedSteps
<1>4. \A j : TurnTo(s, b, j) = FoldedTo(step, s, order, j)
  BY DEF TurnTo, step, order
<1>5. PyServe(s, b) = PyFromSlack(Folded(step, s, order), b)
  BY DEF PyServe, step, order
<1>6. \A j \in 1 .. size : j - 1 \in 0 .. size
  BY <1>1
<1>7. size \in 0 .. size
  BY <1>1
<1>8. /\ TurnTo(s, b, 0) = s
      /\ \A j \in 0 .. size : TurnTo(s, b, j) \in PyLending
      /\ \A j \in 1 .. size : TurnTo(s, b, j) = step[TurnTo(s, b, j - 1)][order[j]]
      /\ Folded(step, s, order) = TurnTo(s, b, size)
  BY <1>1, <1>3, <1>4 DEF Advances
<1>9. \A j \in 1 .. size : TurnTo(s, b, j) = PyFromDonor(TurnTo(s, b, j - 1), b, order[j])
  BY <1>1, <1>2, <1>6, <1>8
<1>10. PyServe(s, b) \in PyLending
  BY <1>5, <1>7, <1>8, FromSlackTyped
<1> QED BY <1>1, <1>5, <1>8, <1>9, <1>10 DEF order

LEMMA LendFromTyped ==
  ASSUME TypeOK, NEW filled \in PyFilling
  PROVE  PyLendFrom(filled) \in PyLending
<1> DEFINE donors == [d \in PyLenders |-> MaxOf(0, def[d].target - filled.held[d])]
<1>1. filled.held \in [Modules -> Int] /\ filled.left \in Int
  BY DEF PyFilling
<1>2. PyLenders \in SUBSET Modules /\ IsFiniteSet(PyLenders)
  BY ByIdSorts DEF PyLenders
<1>3. \A d \in PyLenders : donors[d] \in Nat
  <2>1. \A d \in PyLenders : def[d].target \in Nat /\ filled.held[d] \in Int
    BY <1>1, <1>2, Bounds DEF ValidModule
  <2> QED BY <2>1 DEF MaxOf
<1>4. donors \in [PyLenders -> Int]
  BY <1>3
<1>5. TotalOver(donors, PyLenders) \in Nat
  BY <1>2, <1>3, TotalNat
<1>6. MaxOf(0, filled.left - TotalOver(donors, PyLenders)) \in Int
  BY <1>1, <1>5 DEF MaxOf
<1>7. None \in [Modules -> Int]
  BY DEF None
<1>8. PyLendFrom(filled) =
        [held |-> filled.held, left |-> filled.left, donors |-> donors,
         slack |-> MaxOf(0, filled.left - TotalOver(donors, PyLenders)),
         borrowed |-> None, lent |-> None, leases |-> <<>>]
  BY DEF PyLendFrom
<1> HIDE DEF donors
<1>9. <<>> \in Seq([donor : Modules \cup {Slack}, borrower : Modules, tokens : Int])
  OBVIOUS
<1> QED BY <1>1, <1>4, <1>6, <1>7, <1>8, <1>9 DEF PyLending

LEMMA ServedSteps ==
  ASSUME TypeOK, BudgetHoldsFloors, NEW size, size = Cardinality(PyWaiting)
  PROVE  /\ size \in Nat /\ \A i \in 1 .. size : PyServed[i] \in Modules
         /\ ServedTo(0) = PyLendFrom(PyFilled)
         /\ \A i \in 0 .. size : ServedTo(i) \in PyLending
         /\ \A i \in 1 .. size : ServedTo(i) = PyServe(ServedTo(i - 1), PyServed[i])
         /\ PyAllocate = ServedTo(size)
<1>1. PyWaiting \in SUBSET Modules
  BY DEF PyWaiting, PyBorrowers
<1>2. /\ size \in Nat /\ PyServed \in Seq(PyWaiting) /\ Len(PyServed) = size
      /\ \A i \in 1 .. size : PyServed[i] \in PyWaiting
  <2>1. Sorts(PyBorrowOrder, PyWaiting) /\ IsFiniteSet(PyWaiting)
    BY <1>1, BorrowersSort
  <2> QED BY <2>1, InOrderSorted DEF PyServed
<1>3. PyLendFrom(PyFilled) \in PyLending
  <2>1. /\ PyFilled = RoundsTo(PySeed.left) /\ PySeed.left \in Nat
        /\ \A k \in 0 .. PySeed.left : RoundsTo(k) \in PyFilling
    BY RoundsSteps, PySeedTyped
  <2>2. PyFilled \in PyFilling
    BY <2>1
  <2> QED BY <2>2, LendFromTyped
<1>4. \A a \in PyLending, b \in PyWaiting :
        PyServes[a][b] = PyServe(a, b) /\ PyServes[a][b] \in PyLending
  <2>1. \A a \in PyLending, b \in PyWaiting : PyServe(a, b) \in PyLending
    BY <1>1, TurnSteps
  <2> QED BY <1>1, <2>1 DEF PyServes
<1>5. Advances(PyLending, PyServes, PyLendFrom(PyFilled), PyServed)
  BY <1>2, <1>3, <1>4, FoldedSteps
<1>6. \A i : ServedTo(i) = FoldedTo(PyServes, PyLendFrom(PyFilled), PyServed, i)
  BY DEF ServedTo
<1>7. PyAllocate = Folded(PyServes, PyLendFrom(PyFilled), PyServed)
  BY DEF PyAllocate, PyFilled, PyServed, PyWaiting
<1>8. \A i \in 1 .. size : i - 1 \in 0 .. size
  BY <1>2
<1>9. /\ ServedTo(0) = PyLendFrom(PyFilled)
      /\ \A i \in 0 .. size : ServedTo(i) \in PyLending
      /\ \A i \in 1 .. size : ServedTo(i) = PyServes[ServedTo(i - 1)][PyServed[i]]
      /\ PyAllocate = ServedTo(size)
  BY <1>2, <1>5, <1>6, <1>7 DEF Advances
<1>10. \A i \in 1 .. size : ServedTo(i) = PyServe(ServedTo(i - 1), PyServed[i])
  BY <1>2, <1>4, <1>8, <1>9
<1> QED BY <1>1, <1>2, <1>9, <1>10

(* The fill ends: donors, slack and borrowers are the same on both sides.  *)
LEMMA EndFillAgrees == IndInv /\ AgreeInv /\ EndFill => AgreeInv'
<1> SUFFICES ASSUME IndInv, AgreeInv, EndFill PROVE AgreeInv'
  OBVIOUS
<1>1. /\ UNCHANGED <<inputs, current, remaining, filling, borrowed, lent, leases>>
      /\ phase = "fill" /\ phase' = "borrow" /\ TypeOK /\ TypeOK'
      /\ todo = {} /\ FillOver /\ BudgetHoldsFloors
  BY EndFillInv DEF EndFill, IndInv, AgreeInv, Allocating
<1>2. /\ BudgetHoldsFloors' = BudgetHoldsFloors /\ PySeed' = PySeed /\ PyFilled' = PyFilled
      /\ PyLenders' = PyLenders /\ PyWaiting' = PyWaiting /\ PyServed' = PyServed
      /\ PyBorrowOrder' = PyBorrowOrder
      /\ \A k : ServedTo(k)' = ServedTo(k)
      /\ \A s, b, j : TurnTo(s, b, j)' = TurnTo(s, b, j)
  BY <1>1, FillPlanStable, LendPlanStable
<1>3. PyFilled = PyCore
  <2>1. PICK k \in 0 .. PySeed.left : AtRound(k)
    BY <1>1 DEF AgreeInv, FillAgrees
  <2>2. remaining = 0 \/ active = {}
    BY <1>1 DEF FillOver, IndInv, FillInv, TypeOK
  <2>3. RoundsTo(k) = PyCore /\ active = BelowCap(PyCore.held) /\ PyCore.left = remaining
    BY <2>1 DEF AtRound, PyCore
  <2>4. PyCore.left <= 0 \/ BelowCap(PyCore.held) = {}
    BY <2>2, <2>3
  <2> HIDE DEF PyCore
  <2> QED BY <1>1, <2>3, <2>4, RestOfRoundsIdle
<1>4. \A m \in Modules : DonorAmount(m) \in Nat
  <2>1. \A m \in Modules : def[m].target \in Nat /\ current[m] \in Nat
    BY <1>1, Bounds DEF TypeOK, ValidModule
  <2> QED BY <2>1 DEF DonorAmount, MaxOf
<1> DEFINE donors == [d \in PyLenders |-> MaxOf(0, def[d].target - current[d])]
           amounts == [m \in Modules |-> DonorAmount(m)]
<1>5. /\ PyLenders \in SUBSET Modules
      /\ \A d \in PyLenders : donors[d] = DonorAmount(d)
      /\ \A m \in Modules \ PyLenders : DonorAmount(m) = 0
  BY DEF PyLenders, DonorAmount
<1>6. TotalOver(donors, PyLenders) = DonorTotal
  <2>1. TotalOver(amounts, Modules) = TotalOver(donors, PyLenders)
    <3>1. /\ \A m \in Modules : amounts[m] \in Nat
          /\ \A d \in PyLenders : donors[d] = amounts[d]
          /\ \A m \in Modules \ PyLenders : amounts[m] = 0
      BY <1>4, <1>5
    <3> HIDE DEF donors, amounts
    <3> QED BY <1>5, <3>1, TotalWithoutZeros
  <2> QED BY <2>1 DEF DonorTotal
<1>7. PyLendFrom(PyFilled) = PyLendCore'
  <2>1. PyFilled.held = current /\ PyFilled.left = remaining
    BY <1>3 DEF PyCore
  <2>2. borrowed = None /\ lent = None /\ leases = <<>>
    BY <1>1 DEF IndInv, FillInv
  <2>3. PyLendFrom(PyFilled) =
          [held |-> current, left |-> remaining, donors |-> donors,
           slack |-> MaxOf(0, remaining - DonorTotal),
           borrowed |-> borrowed, lent |-> lent, leases |-> leases]
    BY <1>6, <2>1, <2>2 DEF PyLendFrom
  <2>4. donorLeft' = amounts /\ slack' = MaxOf(0, remaining - DonorTotal)
    BY DEF EndFill
  <2>5. [d \in PyLenders' |-> donorLeft'[d]] = donors
    BY <1>2, <1>5, <2>4
  <2> HIDE DEF donors, amounts
  <2> QED BY <1>1, <2>3, <2>4, <2>5 DEF PyLendCore
<1>8. waiting' = PyWaiting
  <2>1. PyFilled.held = current
    BY <1>3 DEF PyCore
  <2> QED BY <2>1 DEF EndFill, Borrowers, PyWaiting, PyBorrowers
<1>9. /\ waiting' = RestFrom(PyWaiting, PyBorrowOrder, 0)
      /\ Cardinality(PyWaiting) \in Nat
  <2>1. PyWaiting \in SUBSET Modules
    BY DEF PyWaiting, PyBorrowers
  <2>2. Sorts(PyBorrowOrder, PyWaiting) /\ IsFiniteSet(PyWaiting)
    BY <1>1, <2>1, BorrowersSort
  <2> QED BY <1>8, <2>2, AllFromFirst
<1>10. ServedTo(0) = PyLendCore' /\ ServedTo(0) \in PyLending
  BY <1>1, <1>7, <1>9, ServedSteps
<1>11. Cardinality(PyWaiting) # 0 => InTurn(0, PyServed[0 + 1], 0)'
  <2>1. SUFFICES ASSUME Cardinality(PyWaiting) # 0 PROVE InTurn(0, PyServed[0 + 1], 0)'
    OBVIOUS
  <2>2. 0 + 1 \in 1 .. Cardinality(PyWaiting)
    BY <1>9, <2>1
  <2>3. PyServed[0 + 1] \in Modules
    BY <1>1, <2>2, ServedSteps
  <2>4. TurnTo(ServedTo(0), PyServed[0 + 1], 0) = ServedTo(0)
    BY <1>1, <1>10, <2>3, TurnSteps
  <2>5. TurnTo(ServedTo(0), PyServed[0 + 1], 0)' = TurnTo(ServedTo(0), PyServed[0 + 1], 0)
    BY <1>2
  <2>6. InTurn(0, PyServed[0 + 1], 0)' <=>
          /\ TurnTo(ServedTo(0), PyServed[0 + 1], 0)' = PyLendCore'
          /\ \A n \in 1 .. 0 : Passed(PyServed[0 + 1], InOrder(PyLenders, ById)[n])'
    BY DEF InTurn
  <2> QED BY <1>10, <2>4, <2>5, <2>6
<1>12. \A m \in Modules \ PyLenders' : donorLeft'[m] = 0
  BY <1>2, <1>5 DEF EndFill
<1>13. 0 \in 0 .. Cardinality(PyLenders')
  BY <1>2, <1>5, ByIdSorts, FS_CardinalityType
<1>14. LendAgrees'
  <2>1. 0 \in 0 .. Cardinality(PyWaiting') /\ waiting' = RestFrom(PyWaiting', PyBorrowOrder', 0)
    BY <1>2, <1>9
  <2>2. IF 0 = Cardinality(PyWaiting') THEN ServedTo(0)' = PyLendCore'
        ELSE \E j \in 0 .. Cardinality(PyLenders') : InTurn(0, PyServed[0 + 1], j)'
    BY <1>2, <1>10, <1>11, <1>13
  <2> QED BY <1>1, <1>12, <2>1, <2>2 DEF LendAgrees, RestFrom
<1> QED BY <1>1, <1>2, <1>14 DEF AgreeInv, FillAgrees

(* The core serves the borrower that is next in Python's list.             *)
LEMMA BorrowerIs ==
  ASSUME TypeOK, BudgetHoldsFloors, LendAgrees, phase = "borrow", NEW b, FirstServed(b, waiting)
  PROVE  /\ b \in Modules
         /\ \E i \in 0 .. Cardinality(PyWaiting) : \E j \in 0 .. Cardinality(PyLenders) :
              /\ i + 1 \in 1 .. Cardinality(PyWaiting) /\ b = PyServed[i + 1]
              /\ waiting = RestFrom(PyWaiting, PyBorrowOrder, i)
              /\ waiting \ {b} = RestFrom(PyWaiting, PyBorrowOrder, i + 1)
              /\ ServedTo(i) \in PyLending /\ ServedTo(i + 1) = PyServe(ServedTo(i), b)
              /\ InTurn(i, b, j)
              /\ PyLendCore \in PyLending
<1>1. PICK i \in 0 .. Cardinality(PyWaiting) :
        /\ waiting = RestFrom(PyWaiting, PyBorrowOrder, i)
        /\ IF i = Cardinality(PyWaiting) THEN ServedTo(i) = PyLendCore
           ELSE \E j \in 0 .. Cardinality(PyLenders) : InTurn(i, PyServed[i + 1], j)
  BY DEF LendAgrees
<1>2. Sorts(PyBorrowOrder, PyWaiting) /\ IsFiniteSet(PyWaiting)
  <2>1. PyWaiting \in SUBSET Modules
    BY DEF PyWaiting, PyBorrowers
  <2> QED BY <2>1, BorrowersSort
<1>3. b \in Modules /\ b \in waiting
  BY DEF FirstServed, TypeOK
<1>4. FirstBy(b, waiting, PyBorrowOrder)
  <2>1. \A other \in waiting : other = b \/ ServedBefore(b, other)
    BY DEF FirstServed
  <2>2. \A other \in waiting : ServedBefore(b, other) => <<b, other>> \in PyBorrowOrder
    BY <1>3 DEF PyBorrowOrder, TypeOK
  <2> QED BY <1>3, <2>1, <2>2 DEF FirstBy
<1>5. /\ i + 1 \in 1 .. Cardinality(PyWaiting) /\ b = PyServed[i + 1]
      /\ waiting \ {b} = RestFrom(PyWaiting, PyBorrowOrder, i + 1)
  BY <1>1, <1>2, <1>4, NextInOrder DEF PyServed
<1>6. /\ Cardinality(PyWaiting) \in Nat
      /\ \A n \in 0 .. Cardinality(PyWaiting) : ServedTo(n) \in PyLending
      /\ \A n \in 1 .. Cardinality(PyWaiting) : ServedTo(n) = PyServe(ServedTo(n - 1), PyServed[n])
  BY ServedSteps
<1>7. ServedTo(i) \in PyLending /\ ServedTo(i + 1) = PyServe(ServedTo(i), b)
  <2>1. i + 1 - 1 = i
    BY <1>6
  <2> QED BY <1>5, <1>6, <2>1
<1>8. PICK j \in 0 .. Cardinality(PyLenders) : InTurn(i, b, j)
  <2>1. i # Cardinality(PyWaiting)
    BY <1>5, <1>6
  <2> QED BY <1>1, <1>5, <2>1
<1>9. PyLendCore \in PyLending
  <2>1. \A n \in 0 .. Cardinality(PyLenders) : TurnTo(ServedTo(i), b, n) \in PyLending
    BY <1>3, <1>7, TurnSteps
  <2> QED BY <1>8, <2>1 DEF InTurn
<1> QED BY <1>1, <1>3, <1>5, <1>7, <1>8, <1>9

(* A donor that is passed over lends nothing in Python either.             *)
LEMMA PassedIdle ==
  ASSUME TypeOK, PyLendCore \in PyLending, NEW b \in Modules, NEW d \in PyLenders, Passed(b, d)
  PROVE  PyFromDonor(PyLendCore, b, d) = PyLendCore
<1>1. /\ PyNeed(PyLendCore, b) = Need(b) /\ PyLendCore.donors[d] = donorLeft[d]
      /\ PyLendCore.left = remaining
  BY DEF PyLendCore, PyNeed, Need, Ceiling
<1>2. Need(b) \in Int /\ donorLeft[d] \in Nat /\ remaining \in Nat
  <2>1. Ceiling(b) \in Nat /\ current[b] \in Nat
    BY Bounds DEF TypeOK
  <2>2. d \in Modules
    BY DEF PyLenders
  <2> QED BY <2>1, <2>2 DEF Need, TypeOK
<1>3. d = b \/ MinOf3(Need(b), donorLeft[d], remaining) <= 0
  BY <1>2 DEF Passed, MinOf3, MinOf
<1> QED BY <1>1, <1>3 DEF PyFromDonor

LEMMA TurnIdle ==
  ASSUME TypeOK, PyLendCore \in PyLending, NEW b \in Modules, NEW s \in PyLending,
         NEW size, size = Cardinality(PyLenders), NEW j \in 0 .. size, NEW k \in j .. size,
         TurnTo(s, b, j) = PyLendCore,
         \A n \in j + 1 .. k : Passed(b, InOrder(PyLenders, ById)[n])
  PROVE  TurnTo(s, b, k) = PyLendCore
<1>1. /\ size \in Nat /\ \A n \in 1 .. size : InOrder(PyLenders, ById)[n] \in PyLenders
      /\ \A n \in 1 .. size :
           TurnTo(s, b, n) = PyFromDonor(TurnTo(s, b, n - 1), b, InOrder(PyLenders, ById)[n])
  BY TurnSteps
<1> DEFINE Idle == {n \in Nat : j + n <= k => TurnTo(s, b, j + n) = PyLendCore}
<1>2. 0 \in Idle
  BY <1>1
<1>3. ASSUME NEW n \in Nat, n \in Idle PROVE n + 1 \in Idle
  <2>1. SUFFICES ASSUME j + (n + 1) <= k PROVE TurnTo(s, b, j + (n + 1)) = PyLendCore
    OBVIOUS
  <2>2. /\ j + (n + 1) \in 1 .. size /\ j + (n + 1) - 1 = j + n /\ j + n <= k
        /\ j + (n + 1) \in j + 1 .. k
    BY <1>1, <2>1
  <2>3. TurnTo(s, b, j + n) = PyLendCore
    BY <1>3, <2>2
  <2> DEFINE d == InOrder(PyLenders, ById)[j + (n + 1)]
  <2>4. d \in PyLenders /\ Passed(b, d)
    BY <1>1, <2>2
  <2>5. TurnTo(s, b, j + (n + 1)) = PyFromDonor(PyLendCore, b, d)
    BY <1>1, <2>2, <2>3
  <2> HIDE DEF d
  <2> QED BY <2>4, <2>5, PassedIdle
<1> HIDE DEF Idle
<1>4. \A n \in Nat : n \in Idle
  BY <1>2, <1>3, NatSetInduction
<1>5. k - j \in Nat /\ j + (k - j) = k /\ j + (k - j) <= k
  BY <1>1
<1> QED BY <1>4, <1>5 DEF Idle

(* The borrower's turn is over, here and there.                            *)
LEMMA NextTurnAgrees ==
  ASSUME TypeOK, TypeOK', BudgetHoldsFloors, LendAgrees,
         UNCHANGED <<inputs, phase, donorLeft>>, phase = "borrow",
         NEW i \in 0 .. Cardinality(PyWaiting), i + 1 \in 1 .. Cardinality(PyWaiting),
         waiting' = RestFrom(PyWaiting, PyBorrowOrder, i + 1), ServedTo(i + 1) = PyLendCore'
  PROVE  LendAgrees'
<1>1. /\ PyLenders' = PyLenders /\ PyWaiting' = PyWaiting /\ PyServed' = PyServed
      /\ PyBorrowOrder' = PyBorrowOrder
      /\ \A k : ServedTo(k)' = ServedTo(k)
      /\ \A s, b, j : TurnTo(s, b, j)' = TurnTo(s, b, j)
  BY LendPlanStable
<1>2. /\ Cardinality(PyWaiting) \in Nat /\ ServedTo(i + 1) \in PyLending
      /\ \A n \in 1 .. Cardinality(PyWaiting) : PyServed[n] \in Modules
  <2>1. i + 1 \in 0 .. Cardinality(PyWaiting)
    OBVIOUS
  <2> QED BY <2>1, ServedSteps
<1>3. Cardinality(PyLenders) \in Nat
  BY ByIdSorts, FS_CardinalityType DEF PyLenders
<1> DEFINE b == PyServed[i + 1 + 1]
<1>4. i + 1 # Cardinality(PyWaiting) => InTurn(i + 1, b, 0)'
  <2>1. SUFFICES ASSUME i + 1 # Cardinality(PyWaiting) PROVE InTurn(i + 1, b, 0)'
    OBVIOUS
  <2>2. b \in Modules
    <3>1. i + 1 + 1 \in 1 .. Cardinality(PyWaiting)
      BY <1>2, <2>1
    <3> QED BY <1>2, <3>1
  <2>3. TurnTo(ServedTo(i + 1), b, 0) = ServedTo(i + 1)
    BY <1>2, <2>2, TurnSteps
  <2>4. TurnTo(ServedTo(i + 1), b, 0)' = TurnTo(ServedTo(i + 1), b, 0)
    BY <1>1
  <2>5. InTurn(i + 1, b, 0)' <=>
          /\ TurnTo(ServedTo(i + 1), b, 0)' = PyLendCore'
          /\ \A n \in 1 .. 0 : Passed(b, InOrder(PyLenders, ById)[n])'
    BY DEF InTurn
  <2> QED BY <2>3, <2>4, <2>5
<1>5. \A m \in Modules \ PyLenders' : donorLeft'[m] = 0
  BY <1>1 DEF LendAgrees
<1>6. /\ i + 1 \in 0 .. Cardinality(PyWaiting')
      /\ waiting' = RestFrom(PyWaiting', PyBorrowOrder', i + 1)
  BY <1>1
<1>7. IF i + 1 = Cardinality(PyWaiting') THEN ServedTo(i + 1)' = PyLendCore'
      ELSE \E j \in 0 .. Cardinality(PyLenders') : InTurn(i + 1, b, j)'
  BY <1>1, <1>3, <1>4
<1> QED BY <1>5, <1>6, <1>7 DEF LendAgrees, RestFrom

(* Whoever has been passed over stays passed over, and the donor that lent *)
(* is exhausted, or the borrower or the budget is.                         *)
LEMMA DonorAgrees ==
  ASSUME NEW b \in Modules, NEW d \in Modules
  PROVE  IndInv /\ AgreeInv /\ LendFromDonor(b, d) => AgreeInv'
<1> SUFFICES ASSUME IndInv, AgreeInv, LendFromDonor(b, d) PROVE AgreeInv'
  OBVIOUS
<1> DEFINE t == MinOf3(Need(b), donorLeft[d], remaining)
           order == InOrder(PyLenders, ById)
           size == Cardinality(PyLenders)
<1>1. /\ UNCHANGED <<inputs, phase, filling, slack, waiting>> /\ phase = "borrow"
      /\ TypeOK /\ TypeOK' /\ BudgetHoldsFloors /\ LendAgrees
      /\ FirstServed(b, waiting) /\ Need(b) > 0 /\ remaining > 0 /\ Least(d, DonorsFor(b))
  BY LendFromDonorInv DEF LendFromDonor, WantsMore, IndInv, AgreeInv, Allocating
<1>2. /\ current' = [current EXCEPT ![b] = @ + t] /\ remaining' = remaining - t
      /\ borrowed' = [borrowed EXCEPT ![b] = @ + t]
      /\ leases' = Append(leases, [donor |-> d, borrower |-> b, tokens |-> t])
      /\ donorLeft' = [donorLeft EXCEPT ![d] = @ - t] /\ lent' = [lent EXCEPT ![d] = @ + t]
  BY DEF LendFromDonor, Grant, BookLent
<1>3. d # b /\ donorLeft[d] > 0 /\ d \in PyLenders
  <2>1. \A m \in Modules \ PyLenders : donorLeft[m] = 0
    BY <1>1 DEF LendAgrees
  <2>2. d # b /\ donorLeft[d] > 0
    BY <1>1 DEF Least, DonorsFor
  <2> QED BY <2>1, <2>2
<1>4. /\ BudgetHoldsFloors' = BudgetHoldsFloors
      /\ PyLenders' = PyLenders /\ PyWaiting' = PyWaiting /\ PyServed' = PyServed
      /\ PyBorrowOrder' = PyBorrowOrder
      /\ \A k : ServedTo(k)' = ServedTo(k)
      /\ \A s, m, j : TurnTo(s, m, j)' = TurnTo(s, m, j)
  BY <1>1, FillPlanStable, LendPlanStable
<1>5. PICK i \in 0 .. Cardinality(PyWaiting), j \in 0 .. size :
        /\ i + 1 \in 1 .. Cardinality(PyWaiting) /\ b = PyServed[i + 1]
        /\ waiting = RestFrom(PyWaiting, PyBorrowOrder, i)
        /\ ServedTo(i) \in PyLending /\ ServedTo(i + 1) = PyServe(ServedTo(i), b)
        /\ InTurn(i, b, j)
        /\ PyLendCore \in PyLending
  BY <1>1, BorrowerIs
<1>6. /\ TurnTo(ServedTo(i), b, j) = PyLendCore
      /\ \A n \in 1 .. j : Passed(b, order[n])
  BY <1>5 DEF InTurn
<1>7. /\ size \in Nat /\ \A n \in 1 .. size : order[n] \in PyLenders
      /\ \A x \in PyLenders : \E n \in 1 .. size : order[n] = x
      /\ \A k, n \in 1 .. size : k < n => order[k] < order[n]
      /\ \A k, n \in 1 .. size : order[k] = order[n] => k = n
  <2>1. Sorts(ById, PyLenders) /\ IsFiniteSet(PyLenders)
    BY ByIdSorts DEF PyLenders
  <2>2. /\ size \in Nat /\ order \in [1 .. size -> PyLenders]
        /\ \A x \in PyLenders : \E n \in 1 .. size : order[n] = x
        /\ \A k, n \in 1 .. size : k < n => <<order[k], order[n]>> \in ById
        /\ \A k, n \in 1 .. size : order[k] = order[n] => k = n
    BY <2>1, InOrderSorted
  <2> HIDE DEF order, size
  <2> QED BY <2>2 DEF ById
<1>8. \A m \in Modules : Need(m) \in Int /\ donorLeft[m] \in Nat
  <2>1. \A m \in Modules : Ceiling(m) \in Nat /\ current[m] \in Nat /\ donorLeft[m] \in Nat
    BY <1>1, Bounds DEF TypeOK
  <2> QED BY <2>1 DEF Need
<1>9. remaining \in Nat
  BY <1>1 DEF TypeOK
<1>10. /\ t \in Nat /\ t > 0 /\ t <= Need(b) /\ t <= donorLeft[d] /\ t <= remaining
       /\ t = Need(b) \/ t = donorLeft[d] \/ t = remaining
  BY <1>1, <1>3, <1>8, <1>9 DEF MinOf3, MinOf
<1> HIDE DEF order, size
<1>11. PICK p \in 1 .. size : order[p] = d
  BY <1>3, <1>7
<1>12. ~Passed(b, d)
  BY <1>1, <1>3, <1>8, <1>9 DEF Passed
<1>13. p > j
  BY <1>5, <1>6, <1>7, <1>11, <1>12
<1>14. \A n \in 1 .. p - 1 :
         /\ order[n] \in Modules /\ order[n] # d
         /\ order[n] = b \/ donorLeft[order[n]] = 0
  <2>1. SUFFICES ASSUME NEW n \in 1 .. p - 1
                 PROVE  /\ order[n] \in Modules /\ order[n] # d
                        /\ order[n] = b \/ donorLeft[order[n]] = 0
    OBVIOUS
  <2>2. n \in 1 .. size /\ n < p
    BY <1>7, <1>11
  <2>3. order[n] < d /\ order[n] \in Modules /\ order[n] \in Nat /\ d \in Nat
    BY <1>7, <1>11, <2>2, ModulesAssumption DEF PyLenders
  <2>4. order[n] \notin DonorsFor(b)
    <3>1. \A other \in DonorsFor(b) : d <= other
      BY <1>1 DEF Least
    <3> QED BY <2>3, <3>1
  <2> QED BY <1>8, <2>3, <2>4 DEF DonorsFor
<1>15. TurnTo(ServedTo(i), b, p - 1) = PyLendCore
  <2>1. \A n \in j + 1 .. p - 1 : Passed(b, order[n])
    <3>1. \A n \in j + 1 .. p - 1 : n \in 1 .. p - 1
      BY <1>5, <1>7
    <3> QED BY <1>14, <3>1 DEF Passed
  <2>2. p - 1 \in j .. size
    BY <1>5, <1>7, <1>11, <1>13
  <2>3. \A n \in j + 1 .. p - 1 : Passed(b, InOrder(PyLenders, ById)[n])
    BY <2>1 DEF order
  <2>4. size = Cardinality(PyLenders)
    BY DEF size
  <2> QED BY <1>1, <1>5, <1>6, <2>2, <2>3, <2>4, TurnIdle
<1>16. TurnTo(ServedTo(i), b, p) = PyFromDonor(PyLendCore, b, d)
  <2>1. TurnTo(ServedTo(i), b, p)
          = PyFromDonor(TurnTo(ServedTo(i), b, p - 1), b, InOrder(PyLenders, ById)[p])
    BY <1>1, <1>5, <1>11, TurnSteps DEF size
  <2> QED BY <1>11, <1>15, <2>1 DEF order
<1>17. PyFromDonor(PyLendCore, b, d) = PyLendCore'
  <2> DEFINE donors == [x \in PyLenders |-> donorLeft[x]]
  <2>1. /\ PyLendCore.held = current /\ PyLendCore.left = remaining /\ PyLendCore.slack = slack
        /\ PyLendCore.donors = donors /\ PyLendCore.borrowed = borrowed
        /\ PyLendCore.lent = lent /\ PyLendCore.leases = leases
    BY DEF PyLendCore
  <2>2. PyNeed(PyLendCore, b) = Need(b) /\ donors[d] = donorLeft[d]
    BY <1>3, <2>1 DEF PyNeed, Need, Ceiling
  <2>3. t = MinOf3(PyNeed(PyLendCore, b), PyLendCore.donors[d], PyLendCore.left) /\ t \in Int
    BY <1>10, <2>1, <2>2
  <2>4. [donors EXCEPT ![d] = @ - t] = [x \in PyLenders' |-> donorLeft'[x]]
    <3>1. \A x \in PyLenders : donorLeft'[x] = IF x = d THEN donorLeft[x] - t ELSE donorLeft[x]
      BY <1>1, <1>2 DEF TypeOK, PyLenders
    <3> HIDE DEF t
    <3> QED BY <1>3, <1>4, <3>1
  <2> HIDE DEF t, donors
  <2>5. PyFromDonor(PyLendCore, b, d) =
          [held |-> [current EXCEPT ![b] = @ + t], left |-> remaining - t,
           donors |-> [donors EXCEPT ![d] = @ - t], slack |-> slack,
           borrowed |-> [borrowed EXCEPT ![b] = @ + t], lent |-> [lent EXCEPT ![d] = @ + t],
           leases |-> Append(leases, [donor |-> d, borrower |-> b, tokens |-> t])]
    <3>1. PyFromDonor(PyLendCore, b, d) =
            [held |-> [PyLendCore.held EXCEPT ![b] = @ + t], left |-> PyLendCore.left - t,
             donors |-> [PyLendCore.donors EXCEPT ![d] = @ - t], slack |-> PyLendCore.slack,
             borrowed |-> [PyLendCore.borrowed EXCEPT ![b] = @ + t],
             lent |-> [PyLendCore.lent EXCEPT ![d] = @ + t],
             leases |-> Append(PyLendCore.leases, [donor |-> d, borrower |-> b, tokens |-> t])]
      <4>1. /\ PyLendCore \in PyLending /\ d \in PyLenders /\ d # b /\ t > 0 /\ t \in Int
            /\ t = MinOf3(PyNeed(PyLendCore, b), PyLendCore.donors[d], PyLendCore.left)
        BY <1>3, <1>5, <1>10, <2>3
      <4> QED BY <4>1, FromDonorParts, ZenonT(60)
    <3> QED BY <2>1, <3>1
  <2>6. slack' = slack
    BY <1>1
  <2> QED BY <1>2, <2>4, <2>5, <2>6 DEF PyLendCore
<1>18. ASSUME NEW n \in 1 .. p PROVE Passed(b, order[n])'
  <2>1. Passed(b, order[n])' <=>
          order'[n] = b \/ donorLeft'[order'[n]] = 0 \/ Need(b)' <= 0 \/ remaining' = 0
    BY DEF Passed, order
  <2>2. order' = order
    BY <1>4 DEF order, ById
  <2>3. CASE n # p
    <3>1. n \in 1 .. p - 1
      BY <1>7, <1>11, <2>3
    <3>2. donorLeft'[order[n]] = donorLeft[order[n]]
      BY <1>1, <1>2, <1>14, <3>1 DEF TypeOK
    <3> QED BY <1>14, <2>1, <2>2, <3>1, <3>2
  <2>4. CASE n = p
    <3>1. donorLeft'[d] = donorLeft[d] - t /\ remaining' = remaining - t
      BY <1>1, <1>2 DEF TypeOK
    <3>2. Need(b)' = Need(b) - t
      <4>1. Ceiling(b)' = Ceiling(b)
        BY <1>1, InputsStable
      <4>2. current'[b] = current[b] + t /\ current[b] \in Nat /\ Ceiling(b) \in Nat
        BY <1>1, <1>2, Bounds DEF TypeOK
      <4> HIDE DEF t
      <4> QED BY <1>10, <4>1, <4>2 DEF Need
    <3>3. donorLeft'[d] = 0 \/ Need(b)' <= 0 \/ remaining' = 0
      <4> HIDE DEF t
      <4> QED BY <1>8, <1>9, <1>10, <3>1, <3>2
    <3> QED BY <1>11, <2>1, <2>2, <2>4, <3>3
  <2> QED BY <2>3, <2>4
<1>19. InTurn(i, b, p)'
  <2>1. InTurn(i, b, p)' <=>
          /\ TurnTo(ServedTo(i), b, p)' = PyLendCore'
          /\ \A n \in 1 .. p : Passed(b, order[n])'
    BY DEF InTurn, order
  <2>2. TurnTo(ServedTo(i), b, p)' = PyLendCore'
    BY <1>4, <1>16, <1>17
  <2> QED BY <1>18, <2>1, <2>2
<1>20. LendAgrees'
  <2>1. \A m \in Modules \ PyLenders' : donorLeft'[m] = 0
    <3>1. \A m \in Modules \ PyLenders : donorLeft[m] = 0 /\ m # d
      BY <1>1, <1>3 DEF LendAgrees
    <3>2. \A m \in Modules : m # d => donorLeft'[m] = donorLeft[m]
      <4> HIDE DEF t
      <4> QED BY <1>1, <1>2 DEF TypeOK
    <3> QED BY <1>4, <3>1, <3>2
  <2>2. /\ i \in 0 .. Cardinality(PyWaiting')
        /\ waiting' = RestFrom(PyWaiting', PyBorrowOrder', i)
    BY <1>1, <1>4, <1>5
  <2>3. IF i = Cardinality(PyWaiting') THEN ServedTo(i)' = PyLendCore'
        ELSE \E k \in 0 .. Cardinality(PyLenders') : InTurn(i, PyServed[i + 1], k)'
    <3>1. i # Cardinality(PyWaiting')
      BY <1>4, <1>5
    <3>2. p \in 0 .. Cardinality(PyLenders')
      BY <1>4, <1>7, <1>11 DEF size
    <3>3. InTurn(i, PyServed[i + 1], p)'
      <4>1. PyServed'[i + 1] = b
        BY <1>4, <1>5
      <4> QED BY <1>19, <4>1 DEF InTurn, TurnTo, Passed, Need, Ceiling
    <3> QED BY <3>1, <3>2, <3>3
  <2> QED BY <1>1, <2>1, <2>2, <2>3 DEF LendAgrees, RestFrom
<1> QED BY <1>1, <1>4, <1>20 DEF AgreeInv, FillAgrees

(* When nobody (else) can lend, the rest of Python's donor loop is idle.   *)
LEMMA DonorsDone ==
  ASSUME TypeOK, LendAgrees, phase = "borrow", NEW b \in Modules,
         NEW i, NEW j \in 0 .. Cardinality(PyLenders), ServedTo(i) \in PyLending, InTurn(i, b, j),
         PyLendCore \in PyLending,
         Need(b) > 0 /\ remaining > 0 => DonorsFor(b) = {}
  PROVE  PyServe(ServedTo(i), b) = PyFromSlack(PyLendCore, b)
<1> DEFINE size == Cardinality(PyLenders)
           order == InOrder(PyLenders, ById)
<1>1. /\ size \in Nat /\ \A n \in 1 .. size : order[n] \in PyLenders
      /\ PyServe(ServedTo(i), b) = PyFromSlack(TurnTo(ServedTo(i), b, size), b)
  BY TurnSteps
<1>2. Need(b) \in Int /\ remaining \in Nat /\ \A m \in Modules : donorLeft[m] \in Nat
  <2>1. Ceiling(b) \in Nat /\ current[b] \in Nat
    BY Bounds DEF TypeOK
  <2> QED BY <2>1 DEF Need, TypeOK
<1>3. \A d \in PyLenders : Passed(b, d)
  <2>1. \A d \in PyLenders : d # b /\ Need(b) > 0 /\ remaining > 0 => donorLeft[d] = 0
    BY <1>2 DEF DonorsFor, PyLenders
  <2> QED BY <1>2, <2>1 DEF Passed
<1>4. TurnTo(ServedTo(i), b, size) = PyLendCore
  <2>1. \A n \in j + 1 .. size : Passed(b, order[n])
    <3>1. \A n \in j + 1 .. size : n \in 1 .. size
      BY <1>1
    <3> QED BY <1>1, <1>3, <3>1
  <2>2. size \in j .. size /\ TurnTo(ServedTo(i), b, j) = PyLendCore
    BY <1>1 DEF InTurn
  <2> QED BY <2>1, <2>2, TurnIdle
<1> QED BY <1>1, <1>4

LEMMA SlackAgrees ==
  ASSUME NEW b \in Modules
  PROVE  IndInv /\ AgreeInv /\ LendFromSlack(b) => AgreeInv'
<1> SUFFICES ASSUME IndInv, AgreeInv, LendFromSlack(b) PROVE AgreeInv'
  OBVIOUS
<1> DEFINE t == MinOf3(Need(b), slack, remaining)
<1>1. /\ UNCHANGED <<inputs, phase, filling, donorLeft, lent>> /\ phase = "borrow"
      /\ TypeOK /\ TypeOK' /\ BudgetHoldsFloors /\ LendAgrees
      /\ FirstServed(b, waiting) /\ Need(b) > 0 /\ remaining > 0 /\ DonorsFor(b) = {} /\ slack > 0
      /\ waiting' = waiting \ {b}
  BY LendFromSlackInv DEF LendFromSlack, WantsMore, IndInv, AgreeInv, Allocating
<1>2. /\ current' = [current EXCEPT ![b] = @ + t] /\ remaining' = remaining - t
      /\ borrowed' = [borrowed EXCEPT ![b] = @ + t]
      /\ leases' = Append(leases, [donor |-> Slack, borrower |-> b, tokens |-> t])
      /\ slack' = slack - t
  BY DEF LendFromSlack, Grant
<1>3. BudgetHoldsFloors' = BudgetHoldsFloors /\ PyLenders' = PyLenders
  BY <1>1, FillPlanStable, LendPlanStable
<1>4. PICK i \in 0 .. Cardinality(PyWaiting), j \in 0 .. Cardinality(PyLenders) :
        /\ i + 1 \in 1 .. Cardinality(PyWaiting) /\ b = PyServed[i + 1]
        /\ waiting \ {b} = RestFrom(PyWaiting, PyBorrowOrder, i + 1)
        /\ ServedTo(i) \in PyLending /\ ServedTo(i + 1) = PyServe(ServedTo(i), b)
        /\ InTurn(i, b, j)
        /\ PyLendCore \in PyLending
  BY <1>1, BorrowerIs
<1>5. ServedTo(i + 1) = PyFromSlack(PyLendCore, b)
  BY <1>1, <1>4, DonorsDone
<1>6. t \in Int /\ t > 0
  <2>1. Ceiling(b) \in Nat /\ current[b] \in Nat /\ slack \in Nat /\ remaining \in Nat
    BY <1>1, Bounds DEF TypeOK
  <2> QED BY <1>1, <2>1 DEF Need, MinOf3, MinOf
<1>7. PyFromSlack(PyLendCore, b) = PyLendCore'
  <2> DEFINE donors == [x \in PyLenders |-> donorLeft[x]]
  <2>1. /\ PyLendCore.held = current /\ PyLendCore.left = remaining /\ PyLendCore.slack = slack
        /\ PyLendCore.donors = donors /\ PyLendCore.borrowed = borrowed
        /\ PyLendCore.lent = lent /\ PyLendCore.leases = leases
    BY DEF PyLendCore
  <2>2. PyNeed(PyLendCore, b) = Need(b)
    BY <2>1 DEF PyNeed, Need, Ceiling
  <2>3. t = MinOf3(PyNeed(PyLendCore, b), PyLendCore.slack, PyLendCore.left)
    BY <2>1, <2>2
  <2>4. donors = [x \in PyLenders' |-> donorLeft'[x]] /\ lent' = lent
    BY <1>1, <1>3
  <2> HIDE DEF t, donors
  <2>5. PyFromSlack(PyLendCore, b) =
          [held |-> [current EXCEPT ![b] = @ + t], left |-> remaining - t,
           donors |-> donors, slack |-> slack - t,
           borrowed |-> [borrowed EXCEPT ![b] = @ + t], lent |-> lent,
           leases |-> Append(leases, [donor |-> Slack, borrower |-> b, tokens |-> t])]
    <3>1. PyFromSlack(PyLendCore, b) =
            [held |-> [PyLendCore.held EXCEPT ![b] = @ + t], left |-> PyLendCore.left - t,
             donors |-> PyLendCore.donors, slack |-> PyLendCore.slack - t,
             borrowed |-> [PyLendCore.borrowed EXCEPT ![b] = @ + t], lent |-> PyLendCore.lent,
             leases |-> Append(PyLendCore.leases, [donor |-> Slack, borrower |-> b, tokens |-> t])]
      <4>1. /\ PyLendCore \in PyLending /\ b \in Modules /\ t > 0 /\ t \in Int
            /\ t = MinOf3(PyNeed(PyLendCore, b), PyLendCore.slack, PyLendCore.left)
        BY <1>4, <1>6, <2>3
      <4> QED BY <4>1, FromSlackParts, ZenonT(60)
    <3> QED BY <2>1, <3>1
  <2> QED BY <1>2, <2>4, <2>5 DEF PyLendCore
<1>8. LendAgrees'
  <2>1. waiting' = RestFrom(PyWaiting, PyBorrowOrder, i + 1) /\ ServedTo(i + 1) = PyLendCore'
    BY <1>1, <1>4, <1>5, <1>7
  <2> QED BY <1>1, <1>4, <2>1, NextTurnAgrees
<1> QED BY <1>1, <1>3, <1>8 DEF AgreeInv, FillAgrees

LEMMA NextBorrowerAgrees ==
  ASSUME NEW b \in Modules
  PROVE  IndInv /\ AgreeInv /\ NextBorrower(b) => AgreeInv'
<1> SUFFICES ASSUME IndInv, AgreeInv, NextBorrower(b) PROVE AgreeInv'
  OBVIOUS
<1>1. /\ UNCHANGED <<inputs, phase, current, remaining, filling, donorLeft, slack,
                     borrowed, lent, leases>>
      /\ phase = "borrow" /\ TypeOK /\ TypeOK' /\ BudgetHoldsFloors /\ LendAgrees
      /\ FirstServed(b, waiting) /\ waiting' = waiting \ {b}
      /\ Need(b) > 0 /\ remaining > 0 => DonorsFor(b) = {} /\ slack = 0
  BY NextBorrowerInv DEF NextBorrower, IndInv, AgreeInv, Allocating
<1>2. BudgetHoldsFloors' = BudgetHoldsFloors /\ PyLenders' = PyLenders
  BY <1>1, FillPlanStable, LendPlanStable
<1>3. PICK i \in 0 .. Cardinality(PyWaiting), j \in 0 .. Cardinality(PyLenders) :
        /\ i + 1 \in 1 .. Cardinality(PyWaiting) /\ b = PyServed[i + 1]
        /\ waiting \ {b} = RestFrom(PyWaiting, PyBorrowOrder, i + 1)
        /\ ServedTo(i) \in PyLending /\ ServedTo(i + 1) = PyServe(ServedTo(i), b)
        /\ InTurn(i, b, j)
        /\ PyLendCore \in PyLending
  BY <1>1, BorrowerIs
<1>4. ServedTo(i + 1) = PyFromSlack(PyLendCore, b)
  BY <1>1, <1>3, DonorsDone
<1>5. PyFromSlack(PyLendCore, b) = PyLendCore
  <2>1. /\ PyNeed(PyLendCore, b) = Need(b) /\ PyLendCore.slack = slack
        /\ PyLendCore.left = remaining
    BY DEF PyLendCore, PyNeed, Need, Ceiling
  <2>2. Need(b) \in Int /\ slack \in Nat /\ remaining \in Nat
    <3>1. Ceiling(b) \in Nat /\ current[b] \in Nat
      BY <1>1, Bounds DEF TypeOK
    <3> QED BY <1>1, <3>1 DEF Need, TypeOK
  <2>3. MinOf3(Need(b), slack, remaining) <= 0
    BY <1>1, <2>2 DEF MinOf3, MinOf
  <2> QED BY <2>1, <2>3 DEF PyFromSlack
<1>6. PyLendCore' = PyLendCore
  BY <1>1, <1>2 DEF PyLendCore
<1>7. LendAgrees'
  <2>1. waiting' = RestFrom(PyWaiting, PyBorrowOrder, i + 1) /\ ServedTo(i + 1) = PyLendCore'
    BY <1>1, <1>3, <1>4, <1>5, <1>6
  <2> QED BY <1>1, <1>3, <2>1, NextTurnAgrees
<1> QED BY <1>1, <1>2, <1>7 DEF AgreeInv, FillAgrees

LEMMA FinishAgrees == IndInv /\ AgreeInv /\ Finish => AgreeInv'
<1> SUFFICES ASSUME IndInv, AgreeInv, Finish PROVE AgreeInv'
  OBVIOUS
<1>1. /\ UNCHANGED <<inputs, current, remaining, filling, lending>>
      /\ phase = "borrow" /\ phase' = "done" /\ waiting = {} /\ TypeOK
      /\ BudgetHoldsFloors /\ LendAgrees
  BY DEF Finish, IndInv, AgreeInv, Allocating
<1>2. /\ BudgetHoldsFloors' = BudgetHoldsFloors
      /\ PyLenders' = PyLenders /\ PyWaiting' = PyWaiting
      /\ PyBorrowOrder' = PyBorrowOrder
      /\ \A k : ServedTo(k)' = ServedTo(k)
  BY <1>1, FillPlanStable, LendPlanStable
<1>3. PICK i \in 0 .. Cardinality(PyWaiting) :
        /\ waiting = RestFrom(PyWaiting, PyBorrowOrder, i)
        /\ IF i = Cardinality(PyWaiting) THEN ServedTo(i) = PyLendCore
           ELSE \E j \in 0 .. Cardinality(PyLenders) : InTurn(i, PyServed[i + 1], j)
  BY <1>1 DEF LendAgrees
<1>4. i = Cardinality(PyWaiting)
  <2>1. PyWaiting \in SUBSET Modules
    BY DEF PyWaiting, PyBorrowers
  <2>2. Sorts(PyBorrowOrder, PyWaiting) /\ IsFiniteSet(PyWaiting)
    BY <1>1, <2>1, BorrowersSort
  <2> QED BY <1>1, <1>3, <2>2, AllFromFirst
<1>5. /\ i \in 0 .. Cardinality(PyWaiting') /\ i = Cardinality(PyWaiting')
      /\ waiting' = RestFrom(PyWaiting', PyBorrowOrder', i)
  BY <1>1, <1>2, <1>3, <1>4 DEF lending
<1>6. ServedTo(i)' = PyLendCore'
  <2>1. PyLendCore' = PyLendCore
    BY <1>1, <1>2 DEF PyLendCore, lending
  <2> QED BY <1>2, <1>3, <1>4, <2>1
<1>7. \A m \in Modules \ PyLenders' : donorLeft'[m] = 0
  BY <1>1, <1>2 DEF LendAgrees, lending
<1>8. LendAgrees'
  BY <1>1, <1>5, <1>6, <1>7 DEF LendAgrees, RestFrom, lending
<1> QED BY <1>1, <1>2, <1>8 DEF AgreeInv, FillAgrees

LEMMA StillAgrees == AgreeInv /\ UNCHANGED vars => AgreeInv'
<1> SUFFICES ASSUME AgreeInv, UNCHANGED vars PROVE AgreeInv'
  OBVIOUS
<1>1. UNCHANGED <<inputs, phase, current, remaining, active, round, todo, donorLeft, slack,
                  waiting, borrowed, lent, leases>>
  BY DEF vars, inputs, filling, lending
<1>2. /\ BudgetHoldsFloors' = BudgetHoldsFloors /\ PySeed' = PySeed
      /\ \A held : BelowCap(held)' = BelowCap(held)
      /\ \A s, k : RoundTo(s, k)' = RoundTo(s, k)
      /\ \A k : RoundsTo(k)' = RoundsTo(k)
  BY <1>1, FillPlanStable
<1>3. /\ PyLenders' = PyLenders /\ PyWaiting' = PyWaiting /\ PyServed' = PyServed
      /\ PyBorrowOrder' = PyBorrowOrder
      /\ \A k : ServedTo(k)' = ServedTo(k)
      /\ \A s, b, j : TurnTo(s, b, j)' = TurnTo(s, b, j)
  BY <1>1, LendPlanStable
<1>4. PyCore' = PyCore /\ PyLendCore' = PyLendCore
  BY <1>1, <1>3 DEF PyCore, PyLendCore
<1>5. \A k : AtRound(k)' = AtRound(k)
  BY <1>1, <1>2, <1>4 DEF AtRound, BelowCap, Cap, inputs
<1>6. \A k, j : InRound(k, j)' = InRound(k, j)
  BY <1>1, <1>2, <1>4 DEF InRound
<1>7. FillAgrees'
  BY <1>1, <1>2, <1>5, <1>6 DEF AgreeInv, FillAgrees
<1>8. \A b : Need(b)' = Need(b)
  BY <1>1 DEF Need, Ceiling, inputs
<1>9. \A i, b, j : InTurn(i, b, j)' = InTurn(i, b, j)
  BY <1>1, <1>3, <1>4, <1>8 DEF InTurn, Passed
<1>10. LendAgrees'
  BY <1>1, <1>3, <1>4, <1>9 DEF AgreeInv, LendAgrees, RestFrom
<1> QED BY <1>1, <1>2, <1>7, <1>10 DEF AgreeInv, Allocating

LEMMA RejectAgrees == AgreeInv /\ Reject => AgreeInv'
<1> SUFFICES ASSUME AgreeInv, Reject PROVE AgreeInv'
  OBVIOUS
<1>1. UNCHANGED inputs /\ phase' = "rejected" /\ ~BudgetHoldsFloors
  BY DEF Reject
<1>2. BudgetHoldsFloors' = BudgetHoldsFloors
  BY <1>1, FillPlanStable
<1> QED BY <1>1, <1>2 DEF AgreeInv, Allocating, FillAgrees, LendAgrees

LEMMA AgreeStep ==
  IndInv /\ AgreeInv /\ arithmetic = "exact" /\ [Next]_vars => AgreeInv'
<1> SUFFICES ASSUME IndInv, AgreeInv, arithmetic = "exact", [Next]_vars PROVE AgreeInv'
  OBVIOUS
<1>1. CASE Admit \/ Reject \/ StartRound \/ EndFill \/ Finish
  BY <1>1, AdmitAgrees, RejectAgrees, StartRoundAgrees, EndFillAgrees, FinishAgrees
<1>2. CASE \E m \in Modules : Fill(m) \/ LendFromSlack(m) \/ NextBorrower(m)
  BY <1>2, FillAgreesStep, SlackAgrees, NextBorrowerAgrees
<1>3. CASE \E b, d \in Modules : LendFromDonor(b, d)
  BY <1>3, DonorAgrees
<1>4. CASE UNCHANGED vars
  BY <1>4, StillAgrees
<1> QED BY <1>1, <1>2, <1>3, <1>4 DEF Next, Step, Returned

(* Whatever f64 does with the weights, a call is admitted by its floors.   *)
AdmissionInv ==
  /\ phase = "rejected" => ~BudgetHoldsFloors
  /\ Allocating => BudgetHoldsFloors

LEMMA AdmissionStep == AdmissionInv /\ [Next]_vars => AdmissionInv'
<1> SUFFICES ASSUME AdmissionInv, [Next]_vars PROVE AdmissionInv'
  OBVIOUS
<1>1. UNCHANGED inputs
  BY DEF Next, Step, Admit, Reject, StartRound, Fill, EndFill, LendFromDonor, LendFromSlack,
         NextBorrower, Finish, Returned, vars, inputs
<1>2. BudgetHoldsFloors' = BudgetHoldsFloors
  BY <1>1, FillPlanStable
<1>3. phase' = "rejected" => phase = "rejected" \/ ~BudgetHoldsFloors
  BY DEF Next, Step, Admit, Reject, StartRound, Fill, EndFill, LendFromDonor, LendFromSlack,
         NextBorrower, Finish, Returned, vars
<1>4. Allocating' => Allocating \/ BudgetHoldsFloors
  BY DEF Allocating, Next, Step, Admit, Reject, StartRound, Fill, EndFill, LendFromDonor,
         LendFromSlack, NextBorrower, WantsMore, Finish, Returned, vars
<1> QED BY <1>2, <1>3, <1>4 DEF AdmissionInv

LEMMA AgreeAlways ==
  Spec => [](IndInv /\ AdmissionInv /\ (arithmetic = "exact" => AgreeInv))
<1>1. Init => AgreeInv /\ AdmissionInv
  BY DEF Init, AgreeInv, AdmissionInv, Allocating, FillAgrees, LendAgrees
<1>2. Spec => []IndInv
  BY Inductive
<1>3. [Next]_vars => arithmetic' = arithmetic
  BY DEF Next, Step, Admit, Reject, StartRound, Fill, EndFill, LendFromDonor, LendFromSlack,
         NextBorrower, Finish, Returned, vars, inputs
<1>4. IndInv /\ (arithmetic = "exact" => AgreeInv) /\ [Next]_vars =>
        (arithmetic = "exact" => AgreeInv)'
  BY <1>3, AgreeStep
<1>5. AdmissionInv /\ [Next]_vars => AdmissionInv'
  BY AdmissionStep
<1> QED BY <1>1, <1>2, <1>4, <1>5, PTL DEF Spec

(* For every arena, demand and budget the Python allocator admits the      *)
(* calls the core admits, and where f64 is exact on the weights its folds  *)
(* over dicts and sorted lists end with the allocations, leases and rest   *)
(* of the core (allocation.py with layout.py against allocate and          *)
(* weighted_fill of lib.rs).                                               *)
THEOREM PythonAllocatesAlike == Spec => []PythonAgrees
<1>1. IndInv /\ AdmissionInv /\ (arithmetic = "exact" => AgreeInv) => PythonAgrees
  <2> SUFFICES ASSUME IndInv, AdmissionInv, arithmetic = "exact" => AgreeInv PROVE PythonAgrees
    OBVIOUS
  <2>1. PyAdmits <=> BudgetHoldsFloors
    <3>1. available \in Int /\ FloorTotal \in Nat
      <4>1. \A m \in Modules : [o \in Modules |-> def[o].floor][m] \in Nat
        BY Bounds DEF ValidModule, IndInv
      <4> QED BY <4>1, InputsAssumption, ModulesAssumption, TotalNat DEF FloorTotal, IndInv, TypeOK
    <3> QED BY <3>1 DEF PyAdmits, BudgetHoldsFloors, FloorTotal
  <2>2. CASE phase = "done" /\ arithmetic = "exact"
    <3>1. BudgetHoldsFloors /\ TypeOK
      BY <2>2 DEF AdmissionInv, Allocating, IndInv
    <3>2. PICK i \in 0 .. Cardinality(PyWaiting) :
            /\ waiting = RestFrom(PyWaiting, PyBorrowOrder, i) /\ waiting = {}
            /\ IF i = Cardinality(PyWaiting) THEN ServedTo(i) = PyLendCore
               ELSE \E j \in 0 .. Cardinality(PyLenders) : InTurn(i, PyServed[i + 1], j)
      BY <2>2 DEF AgreeInv, LendAgrees
    <3>3. i = Cardinality(PyWaiting)
      <4>1. PyWaiting \in SUBSET Modules
        BY DEF PyWaiting, PyBorrowers
      <4>2. Sorts(PyBorrowOrder, PyWaiting) /\ IsFiniteSet(PyWaiting)
        BY <3>1, <4>1, BorrowersSort
      <4> QED BY <3>2, <4>2, AllFromFirst
    <3>4. PyAllocate = PyLendCore
      BY <3>1, <3>2, <3>3, ServedSteps
    <3>5. /\ PyLendCore.held = current /\ PyLendCore.left = remaining
          /\ PyLendCore.borrowed = borrowed /\ PyLendCore.lent = lent /\ PyLendCore.leases = leases
      BY DEF PyLendCore
    <3> QED BY <2>1, <2>2, <3>1, <3>4, <3>5 DEF PythonAgrees
  <2>3. CASE ~(phase = "done" /\ arithmetic = "exact")
    BY <2>1, <2>3 DEF PythonAgrees, AdmissionInv, Allocating
  <2> QED BY <2>2, <2>3
<1> QED BY <1>1, AgreeAlways, PTL
=============================================================================
