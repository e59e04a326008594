--------------------------- MODULE HostAlgorithms ---------------------------
(***************************************************************************)
(* The built-in algorithms of the Python compression pipeline              *)
(* (src/contextlease/compression/builtin.py) and their token counters, by  *)
(* what they keep and remove.                                              *)
(*                                                                         *)
(* A content is a text, a list or an object.  Its parts (paragraphs and    *)
(* sentences, list items, fields) stand for the items of the original they *)
(* still hold whole, with their length in characters; a part that was cut  *)
(* holds none.  padded says that the parts have superfluous white space.   *)
(* wide is what a character costs: 1 token, or 2 as with byte-level        *)
(* tokenizers.                                                             *)
(***************************************************************************)
EXTENDS Integers, Sequences, TokenSums, Subsequences

CONSTANTS
  Item,         \* for each item: says (its text, folded), size, terms,
                \* priority, group, system (its role), message (it is a dict)
  NoGroup,      \* a message without dependency_group, tool_call_id and id
  SimilarItems, \* the pairs of texts similar above the threshold
  Protected,    \* the items that are protected fields
  Overrides,    \* the pairs of items the first of which has no effect in a
                \* JSON text that has both, since the second repeats its
                \* key; or alone, as a number of too many digits
  SummarySizes, \* lengths of what they may return
  ReferenceSize,\* length of the placeholder of reference_externalize
  RaisesError   \* an algorithm raises

Items == DOMAIN Item

ASSUME AlgorithmsAssumption ==
  /\ \A i \in Items : Item[i].priority \in Int
  /\ SummarySizes \subseteq Nat /\ ReferenceSize \in Nat

Content ==
  {c \in [kind : {"text", "list", "object"}, wide : Nat \ {0}, padded : BOOLEAN,
           parts : Seq([of : SUBSET Items, size : Nat])] :
     c.kind = "text" \/ \A i \in DOMAIN c.parts : c.parts[i].of # {}}

(* The JSON of a list or an object adds brackets and commas.               *)
Brackets(c) ==
  CASE c.kind = "text" -> 0
    [] c.kind # "text" /\ c.parts = <<>> -> 2
    [] OTHER -> Len(c.parts) + 1

Length(c) ==
  TotalOver([i \in DOMAIN c.parts |-> c.parts[i].size], DOMAIN c.parts) + Brackets(c)
    + IF c.padded THEN Len(c.parts) ELSE 0

ContentCount(c) == c.wide * Length(c)

WholeItems(c) == UNION {c.parts[i].of : i \in DOMAIN c.parts}

ContentHasTerms(c, terms) == terms \subseteq UNION {Item[i].terms : i \in WholeItems(c)}

-----------------------------------------------------------------------------

Made(content, removed) == [content |-> content, removed |-> removed]

Unchanged(c) == {Made(c, {})}

Part(of, size) == [of |-> of, size |-> size]

At(c, positions) == UNION {c.parts[i].of : i \in positions}

(* The parts of c at the positions that order lists.                       *)
Arranged(c, order) == [c EXCEPT !.parts = [k \in DOMAIN order |-> c.parts[order[k]]]]

(* The parts of c at some positions, in their order.                       *)
Keeping(c, positions) == [c EXCEPT !.parts = Selected(@, positions)]

Selecting(c, positions) ==
  Made(Keeping(c, positions), At(c, DOMAIN c.parts \ positions))

Says(part) == [says |-> {Item[i].says : i \in part.of}, size |-> part.size]

NormalizeWhitespace(c) ==
  IF c.kind = "text" THEN {Made([c EXCEPT !.padded = FALSE], {})} ELSE Unchanged(c)

(* The positions whose key no earlier position has.                        *)
DeduplicateBlocks(c) ==
  IF c.kind # "text" THEN Unchanged(c)
  ELSE {Selecting(c, {i \in DOMAIN c.parts :
                        \A j \in 1 .. i - 1 : Says(c.parts[j]) # Says(c.parts[i])})}

JsonText(c, of, size) ==
  [kind |-> "text", wide |-> c.wide, padded |-> FALSE, parts |-> <<Part(of, size)>>]

(* What json.loads makes something of.                                     *)
Effective(c) == {i \in WholeItems(c) : \A j \in WholeItems(c) : <<i, j>> \notin Overrides}

(* A list or an object becomes the text of its JSON, which has the same    *)
(* count.  Whether a text is JSON is left open, and so is how much shorter *)
(* that gets (what gets longer is not used); json.loads also raises what   *)
(* is no JSONDecodeError, for an integer of too many digits.               *)
StructuredMinify(c) ==
  IF c.kind = "text"
  THEN Unchanged(c) \cup {RaisesError}
         \cup {Made(JsonText(c, Effective(c), size), {}) : size \in 1 .. Length(c)}
  ELSE {Made(JsonText(c, WholeItems(c), Length(c)), {})}

Values(part) == {Item[i] : i \in part.of}

ExactDeduplicate(c) ==
  IF c.kind # "list" THEN Unchanged(c)
  ELSE {Selecting(c, {i \in DOMAIN c.parts :
                        \A j \in 1 .. i - 1 : Values(c.parts[j]) # Values(c.parts[i])})}

Similar(p, q) ==
  Says(p) = Says(q) \/ \E i \in p.of, j \in q.of : <<Item[i].says, Item[j].says>> \in SimilarItems

(* Each part is compared with the parts kept so far only.                  *)
SimilarityDeduplicate(c) ==
  IF c.kind = "object" THEN Unchanged(c)
  ELSE LET compare ==
             [kept \in SUBSET DOMAIN c.parts |-> [i \in DOMAIN c.parts |->
                IF \E j \in kept : Similar(c.parts[i], c.parts[j]) THEN kept ELSE kept \cup {i}]]
       IN {Selecting(c, Folded(compare, {}, [i \in DOMAIN c.parts |-> i]))}

-----------------------------------------------------------------------------

(* What is to be added is, if it fits or nothing is there yet.             *)
Taking(c, target, kept, more) ==
  IF kept = {} \/ ContentCount(Keeping(c, kept \cup more)) <= target THEN kept \cup more ELSE kept

Greedy(c, target, order) ==
  LET take == [kept \in SUBSET DOMAIN c.parts |->
                [i \in DOMAIN c.parts |-> Taking(c, target, kept, {i})]]
  IN Selecting(c, Folded(take, {}, order))

Priority(c, i) == Item[CHOOSE j \in c.parts[i].of : TRUE].priority

(* Positions in the order of their keys, and of their own among equals.    *)
ByKey(key) ==
  {p \in (DOMAIN key) \X (DOMAIN key) :
     key[p[1]] < key[p[2]] \/ (key[p[1]] = key[p[2]] /\ p[1] < p[2])}

PrioritySelect(c, target) ==
  IF c.kind # "list" THEN Unchanged(c)
  ELSE LET byPriority == ByKey([i \in DOMAIN c.parts |-> -Priority(c, i)])
       IN {Greedy(c, target, InOrder(DOMAIN c.parts, byPriority))}

Backwards(c) == [k \in DOMAIN c.parts |-> Len(c.parts) + 1 - k]

(* What is removed is told apart by identity: an item that is the same     *)
(* object as one that is kept is not reported.                             *)
RecencySelect(c, target) ==
  IF c.kind # "list" THEN Unchanged(c)
  ELSE LET made == Greedy(c, target, Backwards(c))
           kept == {Item[i] : i \in WholeItems(made.content)}
       IN {made, [made EXCEPT !.removed = {i \in @ : Item[i] \notin kept}]}

(* The score of a sentence, from its words, its length and the required    *)
(* terms in it, is left open: any order is one of scores.                  *)
Orders(c) ==
  {order \in [DOMAIN c.parts -> DOMAIN c.parts] :
     \A i, j \in DOMAIN c.parts : order[i] = order[j] => i = j}

ExtractiveSentenceRank(c, target) ==
  IF c.kind # "text" THEN Unchanged(c)
  ELSE {Greedy(c, target, order) : order \in Orders(c)}

(* Messages of one group stay together; a message without ids is a group.  *)
GroupOf(c, i) ==
  {j \in DOMAIN c.parts :
     \/ j = i
     \/ \E a \in c.parts[i].of, b \in c.parts[j].of :
          Item[a].group = Item[b].group /\ Item[a].group # NoGroup}

IsPinned(c, group) == \E a \in At(c, group) : Item[a].system

(* Where the group of a part begins.                                       *)
First(c, i) == CHOOSE j \in GroupOf(c, i) : \A k \in GroupOf(c, i) : j <= k

Messages(c, group) ==
  LET parts == Selected(c.parts, group) IN [k \in DOMAIN parts |-> Values(parts[k])]

(* Groups with a system message are kept whatever they cost, the others    *)
(* from the newest on; a group equal to one selected is skipped.           *)
MessageGroupSelect(c, target) ==
  IF c.kind # "list" \/ \E i \in WholeItems(c) : ~Item[i].message THEN Unchanged(c)
  ELSE LET groups == {GroupOf(c, i) : i \in DOMAIN c.parts}
           equal(g, kept) == \E h \in groups : h \subseteq kept /\ Messages(c, g) = Messages(c, h)
           select ==
             [kept \in SUBSET DOMAIN c.parts |-> [i \in DOMAIN c.parts |->
                IF i # First(c, i) \/ equal(GroupOf(c, i), kept) THEN kept
                ELSE Taking(c, target, kept, GroupOf(c, i))]]
           kept == Folded(select, UNION {g \in groups : IsPinned(c, g)}, Backwards(c))
           byGroup == ByKey([i \in DOMAIN c.parts |-> First(c, i)])
       IN {Made(Arranged(c, InOrder(kept, byGroup)), At(c, DOMAIN c.parts \ kept))}

(* Fields go in the order of their priority until the target is met.       *)
FieldPrune(c, target) ==
  IF c.kind # "object" THEN Unchanged(c)
  ELSE LET candidates == {i \in DOMAIN c.parts : c.parts[i].of \cap Protected = {}}
           prune ==
             [kept \in SUBSET DOMAIN c.parts |-> [i \in DOMAIN c.parts |->
                IF ContentCount(Keeping(c, kept)) > target THEN kept \ {i} ELSE kept]]
           byPriority == ByKey([i \in DOMAIN c.parts |-> Priority(c, i)])
       IN {Selecting(c, Folded(prune, DOMAIN c.parts, InOrder(candidates, byPriority)))}

-----------------------------------------------------------------------------
(* Cutting a text.                                                         *)

(* The part that is cut through: n characters of it are left.              *)
Rest(c, n) == <<Part({}, n - IF c.padded THEN 1 ELSE 0)>>

(* The first n characters of c.                                            *)
Prefix(c, n) ==
  LET cut == Keeping(c, {k \in DOMAIN c.parts : Length(Keeping(c, 1 .. k)) <= n})
      rest == n - Length(cut)
  IN IF rest <= 0 THEN cut ELSE [cut EXCEPT !.parts = @ \o Rest(c, rest)]

(* The last n characters.                                                  *)
Suffix(c, n) ==
  LET cut == Keeping(c, {k \in DOMAIN c.parts : Length(Keeping(c, k .. Len(c.parts))) <= n})
      rest == n - Length(cut)
  IN IF rest <= 0 THEN cut ELSE [cut EXCEPT !.parts = Rest(c, rest) \o @]

(* Mutant: the search returns the shortest prefix that does not fit.       *)
OneTooMany(c, target) == (target \div c.wide) + 1

(* What the binary search finds: the most characters that fit.             *)
Fitting(c, target) == target \div c.wide

(* truncate_text_to_tokens: the head is cut back to a white space in its   *)
(* second half, the tail to after its first white space, wherever these    *)
(* are.  If not even one character fits, text[-0:] is the whole text.      *)
TruncateHead(c, target) ==
  LET fit == Fitting(c, target)
  IN CASE target <= 0 -> {Prefix(c, 0)}
       [] target > 0 /\ ContentCount(c) <= target -> {c}
       [] OTHER -> {Prefix(c, n) : n \in {fit} \cup ((fit \div 2) + 1 .. fit)}

TruncateTail(c, target) ==
  LET fit == Fitting(c, target)
      candidate == IF fit = 0 THEN Length(c) ELSE fit
  IN CASE target <= 0 -> {Suffix(c, 0)}
       [] target > 0 /\ ContentCount(c) <= target -> {c}
       [] OTHER -> {Suffix(c, n) : n \in 0 .. candidate}

BoundaryTruncateHead(c, target) ==
  IF c.kind # "text" THEN Unchanged(c)
  ELSE {Made(cut, WholeItems(c) \ WholeItems(cut)) : cut \in TruncateHead(c, target)}

(* Mutant: what was cut off is content[:len(truncated)], the wrong end.    *)
WrongEnd(c, cut) == WholeItems(cut)

(* content[:-len(truncated)]: nothing if nothing was left.                 *)
CutOff(c, cut) == IF Length(cut) = 0 THEN {} ELSE WholeItems(c) \ WholeItems(cut)

BoundaryTruncateTail(c, target) ==
  IF c.kind # "text" THEN Unchanged(c)
  ELSE {Made(cut, CutOff(c, cut)) : cut \in TruncateTail(c, target)}

(* Any other keep cuts as the head does, and reports as the tail does: the *)
(* first characters, as many as were cut off the end.                      *)
BoundaryTruncateOther(c, target) ==
  IF c.kind # "text" THEN Unchanged(c)
  ELSE {Made(cut, IF Length(cut) = 0 THEN {} ELSE WholeItems(Prefix(c, Length(c) - Length(cut)))) :
          cut \in TruncateHead(c, target)}

-----------------------------------------------------------------------------
(* Replacing the content.                                                  *)

Replacement(c, of, size) ==
  [kind |-> "text", wide |-> c.wide, padded |-> FALSE,
   parts |-> IF size = 0 THEN <<>> ELSE <<Part(of, size)>>]

ReferenceExternalize(c) == {Made(Replacement(c, {}, ReferenceSize), WholeItems(c))}

(* What one provider may answer, cut to the target; it raises, or is not   *)
(* registered, or the step names none.                                     *)
Summaries(c, target) ==
  LET answers == {Replacement(c, of, size) : of \in {{}, WholeItems(c)}, size \in SummarySizes}
  IN (UNION {TruncateHead(answer, target) :
               answer \in {a \in answers : ContentCount(a) > target}})
     \cup {a \in answers : ContentCount(a) <= target}

SemanticSummary(c, target) ==
  {Made(s, WholeItems(c)) : s \in Summaries(c, target)} \cup {RaisesError}

(* Each provider answers, and the shortest answer with the required terms  *)
(* is taken, which may be any of them; one provider that raises ends it,   *)
(* and so does the lack of any such answer.                                *)
SemanticPortfolio(c, target, terms) ==
  {RaisesError} \cup
    {Made(s, WholeItems(c)) :
       s \in {t \in Summaries(c, target) : ContentHasTerms(t, terms)}}

-----------------------------------------------------------------------------

BuiltinIds ==
  {"normalize_whitespace", "deduplicate_blocks", "minify", "exact_deduplicate",
   "similarity_deduplicate", "priority_select", "recency_select",
   "extractive_sentence_rank", "boundary_truncate", "boundary_truncate_tail",
   "boundary_truncate_other", "field_prune", "group_select", "externalize", "summary", "portfolio"}

LosslessIds == {"normalize_whitespace", "deduplicate_blocks", "minify", "exact_deduplicate"}

BuiltinAttempts(a, c, r) ==
  CASE a = "normalize_whitespace" -> NormalizeWhitespace(c)
    [] a = "deduplicate_blocks" -> DeduplicateBlocks(c)
    [] a = "minify" -> StructuredMinify(c)
    [] a = "exact_deduplicate" -> ExactDeduplicate(c)
    [] a = "similarity_deduplicate" -> SimilarityDeduplicate(c)
    [] a = "priority_select" -> PrioritySelect(c, r.target)
    [] a = "recency_select" -> RecencySelect(c, r.target)
    [] a = "extractive_sentence_rank" -> ExtractiveSentenceRank(c, r.target)
    [] a = "boundary_truncate" -> BoundaryTruncateHead(c, r.target)
    [] a = "boundary_truncate_tail" -> BoundaryTruncateTail(c, r.target)
    [] a = "boundary_truncate_other" -> BoundaryTruncateOther(c, r.target)
    [] a = "field_prune" -> FieldPrune(c, r.target)
    [] a = "group_select" -> MessageGroupSelect(c, r.target)
    [] a = "externalize" -> ReferenceExternalize(c)
    [] a = "summary" -> SemanticSummary(c, r.target)
    [] a = "portfolio" -> SemanticPortfolio(c, r.target, r.terms)
=============================================================================
