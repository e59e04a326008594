---------------------------- MODULE Calibration ----------------------------
(***************************************************************************)
(* The feedback loop of token estimates: prepare counts a prompt with the  *)
(* built-in estimator times the safety multiplier, or with the tokenizer   *)
(* of the host; record_usage compares what the provider counted with what  *)
(* prepare had counted and moves the multiplier (CountContext and          *)
(* record_usage of rust/contextlease-core/src/lib.rs).  The module is      *)
(* about one calibration key; Arena models which key a report goes to.     *)
(*                                                                         *)
(* Ratios are f64 in the code; here they are counted in parts of Unit and  *)
(* rounded down, also when two are blended.                                *)
(***************************************************************************)
EXTENDS Integers

CONSTANTS
  Slots,       \* prepares that wait for their usage report at a time
  Raws,        \* what the estimator counts for a prompt
  TrueRatios,  \* provider count per estimated token, in parts of Unit
  Unit,        \* the ratio 1.0
  HostCounts,  \* what a host tokenizer may count; none if no host has one
  MaxSamples,  \* bound: usage reports
  Free

(* A prepare that waits for its report: what was counted before and after  *)
(* the multiplier, and what the provider will count.                       *)
Pending == [bare : Nat, actual : Nat, counted : Nat]

ASSUME CalibrationAssumption ==
  /\ Free \notin Pending
  /\ Raws \subseteq Nat /\ TrueRatios \subseteq Nat
  /\ Unit \in Nat \ {0} /\ MaxSamples \in Nat /\ HostCounts \subseteq Nat

VARIABLES
  samples,     \* sample_count
  ewma,        \* ewma_ratio
  multiplier,  \* safety_multiplier
  pending,     \* recent_usage: prepares not reported yet
  lowest,      \* history: the least ratio any report had
  highest,     \* history: the greatest
  worst        \* history: the greatest ratio to a count before the multiplier

vars == <<samples, ewma, multiplier, pending, lowest, highest, worst>>

Larger(a, b) == IF a >= b THEN a ELSE b
Smaller(a, b) == IF a <= b THEN a ELSE b

CeilDiv(a, b) == (a + b - 1) \div b

(* What the provider counts for a prompt.                                  *)
TrueCount(raw, ratio) == CeilDiv(raw * ratio, Unit)

(* CountContext::count_text without a host tokenizer.                      *)
Estimate(raw) == CeilDiv(raw * multiplier, Unit)

Init ==
  /\ samples = 0 /\ ewma = Unit /\ multiplier = Unit
  /\ pending = [s \in Slots |-> Free]
  /\ lowest = Unit /\ highest = Unit /\ worst = 0

Prepare(s, bare, actual, counted) ==
  /\ pending[s] = Free
  /\ pending' = [pending EXCEPT ![s] = [bare |-> bare, actual |-> actual, counted |-> counted]]
  /\ UNCHANGED <<samples, ewma, multiplier, lowest, highest, worst>>

PrepareEstimated(s, raw, ratio) == Prepare(s, raw, TrueCount(raw, ratio), Estimate(raw))

(* A host tokenizer counts what it likes: it may leave out what the        *)
(* provider adds to frame a message.  The multiplier is not applied.       *)
PrepareCounted(s, raw, ratio) ==
  \E count \in HostCounts : Prepare(s, count, TrueCount(raw, ratio), count)

RatioOf(p) == IF p.counted <= 0 THEN Unit ELSE (p.actual * Unit) \div p.counted

(* Mutant: the first sample is blended with the initial 1.0.               *)
BlendAlways(ratio) == (2 * ratio + 8 * ewma) \div 10

(* Mutant: the ratio corrects the average instead of being blended in.     *)
Compound(ratio) == (ewma * ratio) \div Unit

Blend(ratio) == IF samples = 0 THEN ratio ELSE (2 * ratio + 8 * ewma) \div 10

(* Mutant: the multiplier may shrink a count.                              *)
FollowEwma(average) == average

SafetyMultiplier(average) == Larger(average, Unit)

(* What the ratio would be, had the multiplier not raised the count.       *)
BareRatio(p) == IF p.bare <= 0 THEN Unit ELSE (p.actual * Unit) \div p.bare

RecordUsage(s) ==
  /\ pending[s] # Free
  /\ samples < MaxSamples
  /\ LET ratio == RatioOf(pending[s])
     IN /\ ewma' = Blend(ratio)
        /\ multiplier' = SafetyMultiplier(Blend(ratio))
        /\ lowest' = IF samples = 0 THEN ratio ELSE Smaller(lowest, ratio)
        /\ highest' = IF samples = 0 THEN ratio ELSE Larger(highest, ratio)
  /\ worst' = Larger(worst, BareRatio(pending[s]))
  /\ samples' = samples + 1
  /\ pending' = [pending EXCEPT ![s] = Free]

(* The host never reports, or the 2_048 newer requests push it out.        *)
Forget(s) ==
  /\ pending[s] # Free
  /\ pending' = [pending EXCEPT ![s] = Free]
  /\ UNCHANGED <<samples, ewma, multiplier, lowest, highest, worst>>

Next ==
  \E s \in Slots :
    \/ RecordUsage(s) \/ Forget(s)
    \/ \E raw \in Raws, ratio \in TrueRatios :
         PrepareEstimated(s, raw, ratio) \/ PrepareCounted(s, raw, ratio)

Spec == Init /\ [][Next]_vars

-----------------------------------------------------------------------------
(* Properties.                                                             *)

(* Every variable keeps its type; the multiplier is never below 1.0.       *)
TypeOK ==
  /\ samples \in 0 .. MaxSamples
  /\ {ewma, lowest, highest, worst} \subseteq Nat
  /\ multiplier \in Nat /\ multiplier >= Unit
  /\ pending \in [Slots -> {Free} \cup Pending]

(* The average stays within the ratios that were reported, whatever their  *)
(* number and order: in particular the initial 1.0 never weighs in.        *)
EwmaWithinSamples == samples > 0 => lowest <= ewma /\ ewma <= highest

(* The loop does not run away, although reports are about counts that the  *)
(* multiplier has raised already, and about several at a time that it has  *)
(* raised equally: the multiplier never exceeds the worst shortfall that a *)
(* report has shown of the counters themselves, the estimator and the      *)
(* host's, before any multiplier.                                          *)
MultiplierBounded == multiplier <= Larger(Unit, worst)

(* README.md: "Calibration uses a conservative EWMA safety multiplier".    *)
(* If it were conservative, then against a provider that always counts the *)
(* same ratio an estimate would not fall short of what the provider will   *)
(* count, once a report has shown that ratio.                              *)
Conservative ==
  samples > 0 => \A raw \in Raws, ratio \in TrueRatios : Estimate(raw) >= TrueCount(raw, ratio)
=============================================================================
