----------------------------- MODULE TwoPhase ------------------------------
(***************************************************************************)
(* A prepare in two phases: prepare_begin plans which texts the host has   *)
(* to summarise, the host asks its providers, prepare_commit plans again,  *)
(* compares and prepares (rust/contextlease-core/src/lib.rs, behind the C  *)
(* ABI and src/contextlease/native.py).  The core keeps nothing between    *)
(* the two; usage reports may change the multiplier at any time, also      *)
(* between the plan of a commit and its prepare.                           *)
(*                                                                         *)
(* Every module has a pinned and an elastic chunk.  What allocate returns  *)
(* is any function of what it is called with: of the multiplier, since the *)
(* request stays the same.  Allocation models allocate, Arena the commit.  *)
(***************************************************************************)
EXTENDS Reclaim, Functions

CONSTANTS
  Pipelines,    \* reclaim_pipeline of each module, in rendering order
  Providers,    \* providers of its semantic step
  Requests,     \* requests a host makes
  Grants,       \* what allocate may return
  Multipliers,  \* safety multipliers of the key: 1.0, and what reports lead to
  Answers,      \* texts a provider may return
  MaxRounds,    \* bound: calls of prepare_begin
  MaxReports,   \* bound: reports that change the multiplier
  MaxHeld,      \* bound: answers a host holds
  None

Modules == DOMAIN Pipelines

Request == [mode : Modes, pinned : [Modules -> Nat], size : [Modules -> Nat],
            depth : [Modules -> Nat]]

ASSUME TwoPhaseAssumption ==
  /\ Pipelines \in Seq(Seq(Steps)) /\ Providers \in [Modules -> Seq(STRING) \ {<<>>}]
  /\ \A m \in Modules :
       Cardinality({k \in DOMAIN Pipelines[m] : Pipelines[m][k] = "semantic"}) <= 1
  /\ Requests \subseteq Request /\ Grants \subseteq [Modules -> Nat]
  /\ Unit \in Multipliers /\ Multipliers \subseteq Nat /\ \A x \in Multipliers : x >= Unit
  /\ Answers \subseteq Text
  /\ MaxRounds \in Nat /\ MaxReports \in Nat /\ MaxHeld \in Nat

VARIABLES
  request,     \* the request JSON, the same in both phases
  granted,     \* allocated_tokens by multiplier
  multiplier,  \* safety_multiplier of the key of the request
  pc,          \* where the host's call is
  asked,       \* semantic_requests of the last prepare_begin
  held,        \* answers the host holds, of earlier rounds too
  results,     \* semantic results of the call
  outcome,     \* what the last call returned
  at,          \* the multiplier its prepare used
  final,       \* elastic text of each module in the prepared context
  chosen,      \* history: the request whose answer a module took
  quiet,       \* history: no report since prepare_begin
  rounds, reports

vars == <<request, granted, multiplier, pc, asked, held, results, outcome, at, final,
          chosen, quiet, rounds, reports>>

-----------------------------------------------------------------------------
(* What both phases compute, at a multiplier x.                            *)

Counting(x) == [mode |-> request.mode, multiplier |-> x]

Source(m) == [size |-> request.size[m], kept |-> request.depth[m] <= request.size[m]]

PinnedTokens(m, x) == CountText(request.pinned[m], Counting(x))

Before(m, x) == PinnedTokens(m, x) + CountText(request.size[m], Counting(x))

Target(m, x) == granted[x][m] - PinnedTokens(m, x)

Reclaims(m, x) == Before(m, x) > granted[x][m]

PinnedExceeds(m, x) == Reclaims(m, x) /\ Target(m, x) < 0

WalkOf(m, x, semantic) ==
  IF Reclaims(m, x)
  THEN Walk(Pipelines[m], Source(m), Target(m, x), Counting(x), request.depth[m], semantic)
  ELSE Going(Source(m))

(* Mutant: an answer counts for any target.                                *)
FingerprintWithoutTarget(r) == [r EXCEPT !.target = 0]

(* semantic_request_id                                                     *)
Fingerprint(r) == r

SemanticRequests(m, x, text) ==
  {[module |-> m, provider |-> p, target |-> Target(m, x), text |-> text] : p \in Range(Providers[m])}

(* collect_semantic_requests                                               *)
Plan(m, x) == WalkOf(m, x, [text \in Text |-> [stop |-> "ask", text |-> text]])

PlanRefused(x) == \E m \in Modules : PinnedExceeds(m, x)

(* Mutant: providers are given the text as it was before the local steps.  *)
PlannedFromSource(x) ==
  UNION {SemanticRequests(m, x, Source(m)) : m \in {n \in Modules : Plan(n, x).stop = "ask"}}

Planned(x) ==
  UNION {SemanticRequests(m, x, Plan(m, x).text) : m \in {n \in Modules : Plan(n, x).stop = "ask"}}

(* The answers of a call that compress_module considers for a text.        *)
Candidates(m, x, text, answers) ==
  LET ids == {Fingerprint(r) : r \in SemanticRequests(m, x, text)}
  IN {a \in answers : /\ Fingerprint(a.told) \in ids
                      /\ a.content.size > 0
                      /\ Accepts(a.content, text, Counting(x))}

Rank(m, a) == CHOOSE k \in DOMAIN Providers[m] :
  Providers[m][k] = a.told.provider /\ \A j \in 1 .. k - 1 : Providers[m][j] # a.told.provider

(* The shortest one, of the first provider among equals.                   *)
Best(m, x, candidates) ==
  LET tokens(a) == CountText(a.content.size, Counting(x))
  IN CHOOSE a \in candidates : \A b \in candidates :
       \/ tokens(a) < tokens(b)
       \/ tokens(a) = tokens(b) /\ Rank(m, a) <= Rank(m, b)

(* compress_module                                                         *)
Reclaimed(m, x, answers) ==
  WalkOf(m, x, [text \in Text |->
    LET candidates == Candidates(m, x, text, answers)
    IN IF candidates = {} THEN [stop |-> "failed", text |-> text]
       ELSE Going(Best(m, x, candidates).content)])

ChosenOf(m, x, answers) ==
  LET candidates == Candidates(m, x, Plan(m, x).text, answers)
  IN IF Plan(m, x).stop = "ask" /\ candidates # {} THEN Best(m, x, candidates).told ELSE None

MeetsTarget(m, x, text) == Reclaims(m, x) => CountText(text.size, Counting(x)) <= Target(m, x)

Verdict(m, x, answers) ==
  CASE PinnedExceeds(m, x) -> "pinned"
    [] ~PinnedExceeds(m, x) /\ Reclaimed(m, x, answers).stop = "failed" -> "semantic"
    [] ~PinnedExceeds(m, x) /\ Reclaimed(m, x, answers).stop # "failed" ->
         IF MeetsTarget(m, x, Reclaimed(m, x, answers).text) THEN "fits" ELSE "target"

(* Of the modules, the first that cannot be reclaimed ends the prepare.    *)
PrepareOutcome(x, answers) ==
  LET refused == {m \in Modules : Verdict(m, x, answers) # "fits"}
  IN IF refused = {} THEN "committed" ELSE Verdict(Min(refused), x, answers)

-----------------------------------------------------------------------------

Init ==
  /\ request \in Requests
  /\ granted \in [Multipliers -> Grants]
  /\ request.mode = "host" => \A x, y \in Multipliers : granted[x] = granted[y]
  /\ multiplier = Unit
  /\ pc = "idle" /\ asked = {} /\ held = {} /\ results = {}
  /\ outcome = "none" /\ at = Unit /\ final = <<>> /\ chosen = <<>>
  /\ quiet = TRUE /\ rounds = 0 /\ reports = 0

(* prepare_begin up to its prepare, which it calls at once if there is     *)
(* nothing to ask.                                                         *)
Begin ==
  /\ pc \in {"idle", "asked", "done"}
  /\ rounds < MaxRounds /\ rounds' = rounds + 1
  /\ \/ /\ PlanRefused(multiplier)
        /\ pc' = "done" /\ outcome' = "refused" /\ asked' = {}
     \/ /\ ~PlanRefused(multiplier)
        /\ pc' = IF Planned(multiplier) = {} THEN "planned" ELSE "asked"
        /\ outcome' = "none" /\ asked' = Planned(multiplier)
  /\ quiet' = TRUE
  /\ results' = {} /\ at' = Unit /\ final' = <<>> /\ chosen' = <<>>
  /\ UNCHANGED <<request, granted, multiplier, held, reports>>

(* A provider answers; a host that asks twice gets two answers.            *)
Answer(r, content) ==
  /\ pc = "asked"
  /\ Cardinality(held) < MaxHeld
  /\ held' = held \cup {[told |-> r, content |-> content]}
  /\ UNCHANGED <<request, granted, multiplier, pc, asked, results, outcome, at, final,
                 chosen, quiet, rounds, reports>>

Duplicates(answers) ==
  \E a, b \in answers : a # b /\ Fingerprint(a.told) = Fingerprint(b.told)

Expected(answers) ==
  \A a \in answers : Fingerprint(a.told) \in {Fingerprint(r) : r \in Planned(multiplier)}

(* prepare_commit up to its prepare.                                       *)
Submit(answers) ==
  /\ pc = "asked"
  /\ results' = answers
  /\ \/ /\ PlanRefused(multiplier)
        /\ pc' = "done" /\ outcome' = "pinned"
     \/ /\ ~PlanRefused(multiplier) /\ Duplicates(answers)
        /\ pc' = "done" /\ outcome' = "duplicate"
     \/ /\ ~PlanRefused(multiplier) /\ ~Expected(answers)
        /\ pc' = "done" /\ outcome' = "unexpected"
     \/ /\ ~PlanRefused(multiplier) /\ ~Duplicates(answers) /\ Expected(answers)
        /\ pc' = "planned" /\ outcome' = "none"
  /\ UNCHANGED <<request, granted, multiplier, asked, held, at, final, chosen, quiet,
                 rounds, reports>>

(* prepare_with_counter_and_semantic_results                               *)
Prepare ==
  /\ pc = "planned" /\ pc' = "done"
  /\ at' = multiplier
  /\ outcome' = PrepareOutcome(multiplier, results)
  /\ final' = [m \in Modules |-> Reclaimed(m, multiplier, results).text]
  /\ chosen' = [m \in Modules |-> ChosenOf(m, multiplier, results)]
  /\ UNCHANGED <<request, granted, multiplier, asked, held, results, quiet, rounds, reports>>

(* record_usage, called for any request of the same key.  A host tokenizer *)
(* does not look at the multiplier.                                        *)
Report(x) ==
  /\ reports < MaxReports /\ reports' = reports + 1
  /\ x # multiplier /\ multiplier' = x
  /\ quiet' = (quiet /\ request.mode = "host")
  /\ UNCHANGED <<request, granted, pc, asked, held, results, outcome, at, final, chosen,
                 rounds>>

Next ==
  \/ Begin \/ Prepare
  \/ \E r \in asked, content \in Answers : Answer(r, content)
  \/ \E answers \in SUBSET held : Submit(answers)
  \/ \E x \in Multipliers : Report(x)

Spec == Init /\ [][Next]_vars

-----------------------------------------------------------------------------
(* Properties.                                                             *)

(* docs/architecture.md, compression contracts: in a prepared context no   *)
(* module exceeds its allocation by the count of that prepare, its text    *)
(* has not grown, and the required terms it had are still there, whatever  *)
(* steps, answers and reports led there.                                   *)
CompressionContract ==
  outcome = "committed" =>
    \A m \in Modules :
      /\ Reclaims(m, at) =>
           PinnedTokens(m, at) + CountText(final[m].size, Counting(at)) <= granted[at][m]
      /\ CountText(final[m].size, Counting(at)) <= CountText(request.size[m], Counting(at))
      /\ Source(m).kept => final[m].kept

(* An answer that ends up in a prepared context was asked for the very     *)
(* text and target that the commit reclaims with, although the host may    *)
(* hold answers of earlier rounds and reports may change targets between   *)
(* the phases and within the commit.  A host is never asked for a negative *)
(* number of tokens.                                                       *)
AnswersAsAsked ==
  /\ \A r \in asked : r.target >= 0
  /\ outcome = "committed" =>
       \A m \in Modules : chosen[m] # None =>
         /\ chosen[m].module = m
         /\ chosen[m].target = Target(m, at)
         /\ chosen[m].text = Plan(m, at).text

(* The answer that the host hopes for: one that solves what was asked.     *)
Solves(a, r) ==
  /\ a.told = r
  /\ a.content.size > 0 /\ a.content.kept
  /\ CountText(a.content.size, Counting(multiplier)) <= r.target

Complete(answers) ==
  /\ {a.told : a \in answers} \subseteq asked
  /\ ~Duplicates(answers)
  /\ \A r \in asked : \E a \in answers : a.told.module = r.module /\ Solves(a, a.told)

(* If no report changes the counting between the phases, a host that       *)
(* answers what it was asked is not refused: begin and commit plan the     *)
(* same, what begin finds ready needs no answers, and the commit uses what *)
(* the host was asked for.                                                 *)
QuietCommitAccepted ==
  pc = "done" /\ quiet /\ Complete(results) =>
    outcome \notin {"pinned", "duplicate", "unexpected", "semantic"}

(* docs/providers.md: "Use a final deterministic boundary step when strict *)
(* admission is more important than graceful failure."  If that step were  *)
(* enough, no prepare would miss the target of a module whose pipeline     *)
(* ends with it and which has no required terms to keep.                   *)
BoundaryStepAdmits ==
  outcome = "target" =>
    \E m \in Modules :
      /\ Verdict(m, at, results) = "target"
      /\ Pipelines[m] = <<>> \/ Pipelines[m][Len(Pipelines[m])] # "truncate" \/ request.depth[m] > 0
=============================================================================
