------------------------------ MODULE Pipeline ------------------------------
(***************************************************************************)
(* The host-side compression pipeline of the Python package                *)
(* (CompressionPipeline.execute of src/contextlease/compression, with the  *)
(* result check of builtin.py and the registry), for any counter and any   *)
(* algorithms: HostAlgorithms has the built-in ones.                       *)
(*                                                                         *)
(* The steps of the request are revealed one by one, as the loop comes to  *)
(* them.                                                                   *)
(***************************************************************************)
EXTENDS Integers, Sequences, FiniteSets

CONSTANTS
  Count(_),        \* count_content of the token counter of the request
  HasTerms(_, _),  \* _contains_required
  Attempts(_, _, _),\* what an algorithm may return for a content and a
                   \* request: Raises, or [content, removed], which a custom
                   \* one completes with what it says of its result: grows,
                   \* after_tokens > before_tokens, and lossy
  Raises,          \* the function raises an exception
  Requests,        \* records [content, target, terms, failOpen]
  Builtin,         \* the ids of the built-in algorithms
  Custom,          \* the ids of registered algorithms of the host
  Honest,          \* those whose before_tokens and after_tokens are the
                   \* counts of the counter of the request
  Unknown,         \* ids nothing is registered for
  Lossless,        \* the algorithms that are registered with lossy=False
  MaxSteps         \* bound: steps of a pipeline

ASSUME PipelineAssumption ==
  /\ Honest \subseteq Custom
  /\ Builtin \cap Custom = {} /\ (Builtin \cup Custom) \cap Unknown = {}
  /\ \A r \in Requests : Count(r.content) \in Nat /\ r.failOpen \in BOOLEAN

VARIABLES
  request,   \* the CompressionRequest and fail_open
  phase,     \* "running", "done": returned a result, "raised"
  current,   \* content so far
  removed,   \* removed_items so far
  lossy,
  traces     \* the algorithm and the status of each step walked so far

pipelineVars == <<request, phase, current, removed, lossy, traces>>

Registered == Builtin \cup Custom

(* What Honest stands for, for the theorems.                               *)
HonestCounts ==
  \A a \in Honest, r \in Requests : \A c : \A made \in Attempts(a, c, r) :
    made # Raises => (made.grows <=> Count(made.content) > Count(c))

PipelineInit ==
  /\ request \in Requests
  /\ phase = "running"
  /\ current = request.content
  /\ removed = {} /\ lossy = FALSE /\ traces = <<>>

TargetMet == Count(current) <= request.target

Trace(a, status) == traces' = Append(traces, [algorithm |-> a, status |-> status])

(* The loop ends: by its break, or as no step is left.                     *)
Return ==
  /\ phase = "running"
  /\ phase' = "done"
  /\ UNCHANGED <<request, current, removed, lossy, traces>>

(* The loop comes to a step a while the target is not met.                 *)
AtStep(a) == phase = "running" /\ ~TargetMet /\ Len(traces) < MaxSteps

(* registry.get is outside of the try: fail_open does not help.            *)
UnknownAlgorithm(a) ==
  /\ a \notin Registered
  /\ phase' = "raised"
  /\ UNCHANGED <<request, current, removed, lossy, traces>>

StepFails(a, made) ==
  /\ made = Raises
  /\ IF request.failOpen
     THEN UNCHANGED phase /\ Trace(a, "failed")
     ELSE phase' = "raised" /\ UNCHANGED traces
  /\ UNCHANGED <<request, current, removed, lossy>>

(* Mutant: growth is checked but the terms are not.                        *)
OnlyLengthChecked(made) == Count(made.content) <= Count(current)

(* _result of builtin.py: what a built-in algorithm made is used only if   *)
(* it keeps the required terms and is no longer.                           *)
Usable(made) ==
  HasTerms(made.content, request.terms) /\ Count(made.content) <= Count(current)

Status(made) ==
  IF ~HasTerms(made.content, request.terms) THEN "required_terms_blocked"
  ELSE IF Count(made.content) > Count(current) THEN "non_monotonic_rejected"
  ELSE "compressed"

(* The CompressionResult of a built-in algorithm, which never grows.       *)
Result(a, made) ==
  [content |-> IF Usable(made) THEN made.content ELSE current,
   removed |-> IF Usable(made) THEN made.removed ELSE {},
   grows |-> FALSE, lossy |-> a \notin Lossless]

(* The loop compares the two counts the result comes with, and recounts    *)
(* nothing.  A built-in algorithm whose work was blocked has applied all   *)
(* the same, with the content unchanged.                                   *)
StepApplies(a, made) ==
  /\ made # Raises
  /\ LET result == IF a \in Builtin THEN Result(a, made) ELSE made
     IN /\ ~result.grows
        /\ current' = result.content
        /\ removed' = removed \cup result.removed
        /\ lossy' = (lossy \/ result.lossy)
  /\ Trace(a, IF a \in Builtin THEN Status(made) ELSE "compressed")
  /\ UNCHANGED <<request, phase>>

(* Only an algorithm of the host gets this far and says that it grew.      *)
StepRejected(a, made) ==
  /\ a \in Custom /\ made # Raises
  /\ made.grows
  /\ Trace(a, "non_monotonic_rejected")
  /\ UNCHANGED <<request, phase, current, removed, lossy>>

Step(a) ==
  /\ AtStep(a)
  /\ \/ UnknownAlgorithm(a)
     \/ a \in Registered /\ \E made \in Attempts(a, current, request) :
          StepFails(a, made) \/ StepApplies(a, made) \/ StepRejected(a, made)

PipelineNext == Return \/ \E a \in Registered \cup Unknown : Step(a)

PipelineSpec == PipelineInit /\ [][PipelineNext]_pipelineVars /\ WF_pipelineVars(PipelineNext)

-----------------------------------------------------------------------------
(* Properties.                                                             *)

Applied(A) == \E i \in DOMAIN traces : traces[i].algorithm \in A

(* Whatever steps a pipeline has and whatever fails on the way: the        *)
(* content never gets longer than the original, unless an algorithm of the *)
(* host was applied that counts in its own way, since the loop believes    *)
(* what a result says of its length; and required terms the original had   *)
(* are in it, unless any algorithm of the host was applied, whose result   *)
(* nobody checks for terms.                                                *)
ResultSound ==
  /\ Count(current) <= Count(request.content) \/ Applied(Custom \ Honest)
  /\ HasTerms(request.content, request.terms) /\ ~Applied(Custom)
       => HasTerms(current, request.terms)
=============================================================================
