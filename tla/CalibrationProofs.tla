------------------------- MODULE CalibrationProofs -------------------------
(***************************************************************************)
(* The calibration loop stays bounded, for every set of prompts and every  *)
(* behaviour of the provider.                                              *)
(***************************************************************************)
EXTENDS Calibration, TLAPS

(* A quotient of naturals is a natural, and its product with the divisor   *)
(* does not exceed the dividend.                                           *)
LEMMA Quotient ==
  ASSUME NEW a \in Nat, NEW b \in Nat, b > 0
  PROVE  a \div b \in Nat /\ (a \div b) * b <= a
OBVIOUS

(* Anything that times the divisor does not exceed the dividend is at most *)
(* the quotient.                                                           *)
LEMMA QuotientGreatest ==
  ASSUME NEW a \in Nat, NEW b \in Nat, b > 0, NEW q \in Nat, q * b <= a
  PROVE  q <= a \div b
OBVIOUS

(* The product of naturals is a natural.                                   *)
LEMMA Product ==
  ASSUME NEW a \in Nat, NEW b \in Nat
  PROVE  a * b \in Nat
OBVIOUS

(* Multiplying by a natural keeps the order.                               *)
LEMMA ProductMonotone ==
  ASSUME NEW a \in Nat, NEW b \in Nat, NEW c \in Nat, b <= c
  PROVE  a * b <= a * c
OBVIOUS

(* A greater divisor gives a smaller quotient.                             *)
LEMMA QuotientAntitone ==
  ASSUME NEW a \in Nat, NEW b \in Nat, NEW c \in Nat, b > 0, b <= c
  PROVE  a \div c <= a \div b
<1> DEFINE q == a \div c
<1>1. q \in Nat /\ q * c <= a
  BY Quotient
<1> HIDE DEF q
<1>2. q * b <= q * c
  BY <1>1, ProductMonotone
<1>3. q * b \in Nat /\ q * c \in Nat
  BY <1>1, Product
<1>4. q <= a \div b
  BY <1>1, <1>2, <1>3, QuotientGreatest
<1> QED
  BY <1>4 DEF q

(* Rounding up gives a natural, zero only for zero, and at least whatever  *)
(* times the divisor does not exceed the dividend.                         *)
LEMMA Ceiling ==
  ASSUME NEW a \in Nat, NEW b \in Nat, b > 0
  PROVE  /\ CeilDiv(a, b) \in Nat
         /\ a = 0 => CeilDiv(a, b) = 0
         /\ \A q \in Nat : q * b <= a => q <= CeilDiv(a, b)
<1>1. a + b - 1 \in Nat
  OBVIOUS
<1>2. (a + b - 1) \div b \in Nat
  BY <1>1, Quotient
<1>3. ASSUME NEW q \in Nat, q * b <= a PROVE q <= (a + b - 1) \div b
  <2>1. q * b <= a + b - 1
    BY <1>3, Product
  <2> QED
    BY <1>1, <2>1, QuotientGreatest
<1>4. a = 0 => (a + b - 1) \div b = 0
  OBVIOUS
<1> QED
  BY <1>2, <1>3, <1>4 DEF CeilDiv

(* A count is raised by the multiplier or is the host's as it stands.      *)
Sound(p) == p.bare <= p.counted /\ (p.bare = 0 => p.counted = 0)

PendingInv == \A s \in Slots : pending[s] # Free => Sound(pending[s])

Inv ==
  /\ TypeOK
  /\ PendingInv
  /\ samples = 0 => ewma = Unit
  /\ EwmaWithinSamples
  /\ multiplier = Larger(ewma, Unit)
  /\ ewma <= Larger(Unit, worst)

(* The invariant holds initially.                                          *)
LEMMA InitInv == Init => Inv
BY CalibrationAssumption DEF Init, Inv, TypeOK, PendingInv, EwmaWithinSamples, Larger

(* What the provider counts, and what the estimator counts, are naturals;  *)
(* the estimate is never below the bare one, and zero only for nothing.    *)
LEMMA CountsNatural ==
  ASSUME TypeOK, NEW raw \in Raws, NEW ratio \in TrueRatios
  PROVE  /\ TrueCount(raw, ratio) \in Nat /\ Estimate(raw) \in Nat
         /\ raw <= Estimate(raw) /\ (raw = 0 => Estimate(raw) = 0)
<1>1. raw \in Nat /\ ratio \in Nat /\ Unit \in Nat /\ Unit > 0
  BY CalibrationAssumption
<1>2. multiplier \in Nat /\ Unit <= multiplier
  BY <1>1 DEF TypeOK
<1>3. TrueCount(raw, ratio) \in Nat
  BY <1>1, Product, Ceiling DEF TrueCount
<1>4. raw * multiplier \in Nat /\ raw * Unit <= raw * multiplier
  BY <1>1, <1>2, Product, ProductMonotone
<1>5. Estimate(raw) \in Nat /\ raw <= Estimate(raw)
  BY <1>1, <1>4, Ceiling DEF Estimate
<1>6. raw = 0 => Estimate(raw) = 0
  BY <1>1, <1>2, <1>4, Ceiling DEF Estimate
<1> QED
  BY <1>3, <1>5, <1>6

(* A prepare adds one pending count and leaves the average alone.          *)
LEMMA PrepareStep ==
  ASSUME Inv, NEW s \in Slots, NEW raw \in Raws, NEW ratio \in TrueRatios,
         PrepareEstimated(s, raw, ratio) \/ PrepareCounted(s, raw, ratio)
  PROVE  Inv'
<1>1. PICK bare \in Nat, counted \in Nat :
        /\ bare <= counted /\ (bare = 0 => counted = 0)
        /\ Prepare(s, bare, TrueCount(raw, ratio), counted)
  <2>1. CASE PrepareEstimated(s, raw, ratio)
    BY <2>1, CountsNatural, CalibrationAssumption DEF Inv, PrepareEstimated
  <2>2. CASE PrepareCounted(s, raw, ratio)
    BY <2>2, CalibrationAssumption DEF PrepareCounted
  <2> QED
    BY <2>1, <2>2
<1> DEFINE new == [bare |-> bare, actual |-> TrueCount(raw, ratio), counted |-> counted]
<1>2. TrueCount(raw, ratio) \in Nat
  BY CountsNatural DEF Inv
<1>3. new \in Pending
  BY <1>2 DEF Pending
<1>4. pending' = [pending EXCEPT ![s] = new]
  BY <1>1 DEF Prepare
<1>5. UNCHANGED <<samples, ewma, multiplier, lowest, highest, worst>>
  BY <1>1 DEF Prepare
<1>6. TypeOK'
  BY <1>3, <1>4, <1>5 DEF Inv, TypeOK
<1>7. PendingInv'
  BY <1>1, <1>4 DEF Inv, TypeOK, PendingInv, Sound
<1> QED
  BY <1>5, <1>6, <1>7 DEF Inv, EwmaWithinSamples

(* What a report compares is a natural, at most 1.0 or what it would be    *)
(* before the multiplier.                                                  *)
LEMMA RatioBounds ==
  ASSUME NEW p \in Pending, Sound(p)
  PROVE  /\ RatioOf(p) \in Nat /\ BareRatio(p) \in Nat
         /\ RatioOf(p) <= Larger(Unit, BareRatio(p))
<1>1. /\ p.bare \in Nat /\ p.counted \in Nat /\ p.actual \in Nat
      /\ Unit \in Nat /\ Unit > 0
  BY CalibrationAssumption DEF Pending
<1>2. p.actual * Unit \in Nat
  BY <1>1, Product
<1>3. BareRatio(p) \in Nat
  BY <1>1, <1>2, Quotient DEF BareRatio
<1>4. CASE p.counted <= 0
  BY <1>1, <1>3, <1>4 DEF RatioOf, Larger
<1>5. CASE p.counted > 0 /\ p.bare > 0 /\ p.bare <= p.counted
  <2>1. RatioOf(p) = (p.actual * Unit) \div p.counted
    BY <1>1, <1>5 DEF RatioOf
  <2>2. RatioOf(p) \in Nat
    BY <1>1, <1>2, <1>5, <2>1, Quotient
  <2>3. BareRatio(p) = (p.actual * Unit) \div p.bare
    BY <1>1, <1>5 DEF BareRatio
  <2>4. RatioOf(p) <= BareRatio(p)
    BY <1>1, <1>2, <1>5, <2>1, <2>3, QuotientAntitone
  <2> QED
    BY <1>1, <1>3, <2>2, <2>4 DEF Larger
<1> QED
  BY <1>1, <1>4, <1>5 DEF Sound

(* A weighted average lies between the two it averages.                    *)
LEMMA BlendBetween ==
  ASSUME NEW a \in Nat, NEW b \in Nat, NEW lo \in Nat, NEW hi \in Nat,
         lo <= a, a <= hi, lo <= b, b <= hi
  PROVE  /\ (2 * a + 8 * b) \div 10 \in Nat
         /\ lo <= (2 * a + 8 * b) \div 10 /\ (2 * a + 8 * b) \div 10 <= hi
OBVIOUS

(* A report keeps the average between the extremes, and below the worst    *)
(* shortfall.                                                              *)
LEMMA ReportStep ==
  ASSUME Inv, NEW s \in Slots, RecordUsage(s)
  PROVE  Inv'
<1> DEFINE p == pending[s]
           r == RatioOf(p)
           e == Blend(r)
           w == Larger(worst, BareRatio(p))
<1>1. /\ p \in Pending /\ Sound(p) /\ pending' = [pending EXCEPT ![s] = Free]
      /\ samples < MaxSamples /\ samples' = samples + 1
  BY DEF Inv, TypeOK, PendingInv, RecordUsage
<1>2. /\ ewma' = e /\ multiplier' = Larger(e, Unit) /\ worst' = w
      /\ lowest' = IF samples = 0 THEN r ELSE Smaller(lowest, r)
      /\ highest' = IF samples = 0 THEN r ELSE Larger(highest, r)
  BY DEF RecordUsage, SafetyMultiplier
<1>3. r \in Nat /\ BareRatio(p) \in Nat /\ r <= Larger(Unit, BareRatio(p))
  BY <1>1, RatioBounds
<1>4. /\ samples \in Nat /\ MaxSamples \in Nat /\ Unit \in Nat
      /\ ewma \in Nat /\ worst \in Nat /\ lowest \in Nat /\ highest \in Nat
      /\ samples > 0 => lowest <= ewma /\ ewma <= highest
      /\ ewma <= Larger(Unit, worst)
  BY CalibrationAssumption DEF Inv, TypeOK, EwmaWithinSamples
<1>5. pending' \in [Slots -> {Free} \cup Pending] /\ PendingInv'
  BY <1>1 DEF Inv, TypeOK, PendingInv
<1>6. e = IF samples = 0 THEN r ELSE (2 * r + 8 * ewma) \div 10
  BY DEF Blend
<1> HIDE DEF r, e, p, w
<1>7. w \in Nat /\ Unit <= Larger(Unit, w) /\ r <= Larger(Unit, w) /\ ewma <= Larger(Unit, w)
      /\ Larger(Unit, w) \in Nat
  BY <1>3, <1>4 DEF w, Larger
<1>8. e \in Nat /\ e <= Larger(Unit, w)
  <2>1. CASE samples = 0
    BY <2>1, <1>3, <1>6, <1>7
  <2>2. CASE samples # 0
    BY <2>2, <1>3, <1>4, <1>6, <1>7, BlendBetween, 0 \in Nat, 0 <= r, 0 <= ewma
  <2> QED
    BY <2>1, <2>2
<1>9. /\ lowest' \in Nat /\ highest' \in Nat
      /\ lowest' <= r /\ r <= highest'
      /\ samples # 0 => lowest' <= ewma /\ ewma <= highest'
  BY <1>2, <1>3, <1>4 DEF Larger, Smaller
<1>10. lowest' <= e /\ e <= highest'
  <2>1. CASE samples = 0
    BY <2>1, <1>6, <1>9
  <2>2. CASE samples # 0
    BY <2>2, <1>3, <1>4, <1>6, <1>9, BlendBetween
  <2> QED
    BY <2>1, <2>2
<1>11. Larger(e, Unit) \in Nat /\ Larger(e, Unit) >= Unit
  BY <1>4, <1>8 DEF Larger
<1>12. TypeOK'
  BY <1>1, <1>2, <1>4, <1>5, <1>7, <1>8, <1>9, <1>11 DEF TypeOK
<1>13. EwmaWithinSamples'
  BY <1>2, <1>10 DEF EwmaWithinSamples
<1> QED
  BY <1>1, <1>2, <1>4, <1>5, <1>8, <1>12, <1>13 DEF Inv, Larger

(* A forgotten prepare frees its place and nothing else.                   *)
LEMMA ForgetStep ==
  ASSUME Inv, NEW s \in Slots, Forget(s)
  PROVE  Inv'
<1>1. /\ pending' = [pending EXCEPT ![s] = Free]
      /\ UNCHANGED <<samples, ewma, multiplier, lowest, highest, worst>>
  BY DEF Forget
<1>2. TypeOK' /\ PendingInv'
  BY <1>1 DEF Inv, TypeOK, PendingInv
<1> QED
  BY <1>1, <1>2 DEF Inv, EwmaWithinSamples

(* The invariant holds of every behaviour of the loop.                     *)
THEOREM CalibrationInductive == Spec => []Inv
<1>1. Inv /\ [Next]_vars => Inv'
  <2> SUFFICES ASSUME Inv, [Next]_vars PROVE Inv'
    OBVIOUS
  <2>1. CASE Next
    <3>1. PICK s \in Slots :
            \/ RecordUsage(s) \/ Forget(s)
            \/ \E raw \in Raws, ratio \in TrueRatios :
                 PrepareEstimated(s, raw, ratio) \/ PrepareCounted(s, raw, ratio)
      BY <2>1 DEF Next
    <3> QED
      BY <3>1, ReportStep, ForgetStep, PrepareStep
  <2>2. CASE UNCHANGED vars
    BY <2>2 DEF vars, Inv, TypeOK, PendingInv, EwmaWithinSamples
  <2> QED
    BY <2>1, <2>2
<1> QED
  BY InitInv, <1>1, PTL DEF Spec

(* Every variable keeps its type; in particular the multiplier that        *)
(* record_usage stores is never below 1.0.                                 *)
THEOREM CalibrationTypes == Spec => []TypeOK
BY CalibrationInductive, PTL DEF Inv

(* The average that record_usage keeps is always between the least and the *)
(* greatest ratio that was reported.                                       *)
THEOREM AverageWithinSamples == Spec => []EwmaWithinSamples
BY CalibrationInductive, PTL DEF Inv

(* The multiplier of record_usage never exceeds the worst shortfall of the *)
(* estimator or of a host's tokenizer, whatever that counts, although it   *)
(* is fed with the counts it has raised itself.                            *)
THEOREM LoopBounded == Spec => []MultiplierBounded
<1>1. Inv => MultiplierBounded
  <2> SUFFICES ASSUME Inv PROVE MultiplierBounded
    OBVIOUS
  <2>1. ewma \in Nat /\ worst \in Nat /\ Unit \in Nat
    BY CalibrationAssumption DEF Inv, TypeOK
  <2> QED
    BY <2>1 DEF Inv, MultiplierBounded, Larger
<1> QED
  BY CalibrationInductive, <1>1, PTL
=============================================================================
