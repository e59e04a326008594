---------------------------- MODULE HostPipeline ----------------------------
(* The pipeline with the built-in algorithms.                              *)
EXTENDS Pipeline, HostAlgorithms

ASSUME HostAssumption == \A r \in Requests : r.content \in Content /\ r.target \in Int

(* The registry as CompressionRegistry.with_builtins leaves it and the     *)
(* host adds to it; an algorithm of the host returns some content.         *)
AlgorithmsRegistered ==
  /\ Builtin = BuiltinIds /\ Lossless = LosslessIds /\ Raises = RaisesError
  /\ \A content, gone : Made(content, gone) # Raises
  /\ \A c \in Content :
       /\ Count(c) = ContentCount(c)
       /\ \A terms : HasTerms(c, terms) <=> ContentHasTerms(c, terms)
       /\ \A r \in Requests :
            /\ \A a \in Builtin : Attempts(a, c, r) = BuiltinAttempts(a, c, r)
            /\ \A a \in Custom : \A made \in Attempts(a, c, r) : made # Raises =>
                 made.content \in Content /\ made.lossy \in BOOLEAN

Said(items) == {Item[i].says : i \in items}

(* A cut from the tail that leaves nothing reports nothing as removed,     *)
(* since content[:-0] is empty.                                            *)
TailEmptied ==
  current.kind = "text" /\ Length(current) = 0 /\ Applied({"boundary_truncate_tail"})

Overridden == {i \in Items : \E j \in Items : <<i, j>> \in Overrides}

(* json.loads keeps one value of a key that is repeated.                   *)
Dropped == IF Applied({"minify"}) THEN Said(Overridden) ELSE {}

(* Nothing is lost silently, over any sequence of steps: everything the    *)
(* original said is still there or among removed_items, which the debug    *)
(* views show; and unless the result is marked lossy, it is still there.   *)
(* The code has three exceptions: what minify drops of a JSON text; the    *)
(* cut from the tail that leaves nothing; and a cut whose keep is neither  *)
(* head nor tail, which reports the wrong end of the text.                 *)
NothingLostSilently ==
  LET original == Said(WholeItems(request.content))
      kept == Said(WholeItems(current))
  IN ~Applied(Custom) =>
       /\ \/ original \subseteq kept \cup Said(removed) \cup Dropped
          \/ TailEmptied \/ Applied({"boundary_truncate_other"})
       /\ ~lossy => original \subseteq kept \cup Dropped

(* docs/providers.md: "Use a final deterministic boundary step when strict *)
(* admission is more important than graceful failure."  A text whose       *)
(* pipeline ends with a boundary step meets its target, whatever came      *)
(* before, unless required terms block the cut, or the end of the text is  *)
(* to be kept and the target does not hold a single character.             *)
BoundaryMeetsTarget ==
  traces # <<>> /\ current.kind = "text" /\ request.terms = {} /\ request.target >= 0 =>
    LET last == traces[Len(traces)].algorithm
    IN \/ last \notin {"boundary_truncate", "boundary_truncate_tail", "boundary_truncate_other"}
       \/ last = "boundary_truncate_tail" /\ request.target \in 1 .. current.wide - 1
       \/ Count(current) <= request.target
=============================================================================
