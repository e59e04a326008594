----------------------------- MODULE HostProofs -----------------------------
(***************************************************************************)
(* Proofs about the host's side of a prepare: the compression pipeline,    *)
(* for any counter and any algorithms; the way of a tokenizer failure      *)
(* through the layers, for any number of threads and calls; and the        *)
(* admission of a configuration, for any document.  The three              *)
(* specifications share no variable.                                       *)
(***************************************************************************)
EXTENDS HostPipeline, HostCounter, ConfigGate, CountingProofs

-----------------------------------------------------------------------------
(* The compression pipeline.                                               *)

(* What a step leaves behind: a content of no greater count, unless its    *)
(* algorithm counts otherwise, which has the terms the one before had if   *)
(* the step is a built-in one.                                             *)
LEMMA AppliedIsSound ==
  ASSUME HonestCounts, \A c : Count(c) \in Nat, request \in Requests,
         NEW a \in Registered, NEW made \in Attempts(a, current, request),
         StepApplies(a, made)
  PROVE  /\ a \notin Custom \ Honest => Count(current') <= Count(current)
         /\ HasTerms(current, request.terms) /\ a \in Builtin
              => HasTerms(current', request.terms)
<1>1. CASE a \in Builtin
  <2>1. current' = Result(a, made).content
    BY <1>1 DEF StepApplies
  <2>2. CASE Usable(made)
    <3>1. current' = made.content
      BY <2>1, <2>2 DEF Result
    <3> QED BY <2>2, <3>1 DEF Usable
  <2>3. CASE ~Usable(made)
    <3>1. current' = current
      BY <2>1, <2>3 DEF Result
    <3>2. Count(current) \in Nat
      OBVIOUS
    <3> QED BY <3>1, <3>2
  <2> QED BY <2>2, <2>3
<1>2. CASE a \notin Builtin
  <2>1. a \in Custom /\ made # Raises /\ current' = made.content /\ ~made.grows
    BY <1>2 DEF StepApplies, Registered
  <2>2. a \in Honest => ~(Count(made.content) > Count(current))
    BY <2>1 DEF HonestCounts
  <2>3. Count(made.content) \in Nat /\ Count(current) \in Nat
    OBVIOUS
  <2> QED BY <2>1, <2>2, <2>3, <1>2
<1> QED BY <1>1, <1>2

Statuses == {"failed", "non_monotonic_rejected", "required_terms_blocked", "compressed"}

TraceRecords == [algorithm : Registered, status : Statuses]

Types ==
  /\ request \in Requests
  /\ traces \in Seq(TraceRecords)

(* What is traced stays traced.                                            *)
LEMMA Traced ==
  ASSUME traces \in Seq(TraceRecords), NEW a \in Registered, NEW status \in Statuses,
         Trace(a, status)
  PROVE  /\ traces' \in Seq(TraceRecords)
         /\ traces'[Len(traces')].algorithm = a
         /\ \A A : Applied(A) => Applied(A)'
         /\ \A A : a \in A => Applied(A)'
<1> DEFINE record == [algorithm |-> a, status |-> status]
<1>1. record \in TraceRecords /\ record.algorithm = a
  BY DEF TraceRecords
<1>2. traces' = Append(traces, record)
  BY DEF Trace
<1> HIDE DEF record
<1>3. traces' \in Seq(TraceRecords)
  BY <1>1, <1>2
<1>4. \A i \in DOMAIN traces : i \in DOMAIN traces' /\ traces'[i] = traces[i]
  BY <1>1, <1>2
<1>5. /\ Len(traces) + 1 \in DOMAIN traces' /\ traces'[Len(traces) + 1] = record
      /\ Len(traces') = Len(traces) + 1
  BY <1>1, <1>2
<1>6. \A A : Applied(A) => Applied(A)'
  BY <1>4 DEF Applied
<1>7. \A A : a \in A => Applied(A)'
  BY <1>1, <1>5 DEF Applied
<1> QED BY <1>1, <1>3, <1>5, <1>6, <1>7

(* The result of a pipeline is sound in every state of every run, for      *)
(* every counter whose counts are numbers and every set of algorithms: it  *)
(* is no longer than the original unless an algorithm was applied whose    *)
(* own counts are others than those of the counter.                        *)
THEOREM PipelineSound ==
  ASSUME \A c : Count(c) \in Nat, HonestCounts
  PROVE  PipelineSpec => []ResultSound
<1>1. PipelineInit => Types /\ ResultSound
  <2> SUFFICES ASSUME PipelineInit PROVE Types /\ ResultSound
    OBVIOUS
  <2>1. Types
    BY DEF PipelineInit, Types
  <2>2. Count(current) <= Count(request.content)
    BY DEF PipelineInit
  <2> QED BY <2>1, <2>2 DEF PipelineInit, ResultSound
<1>2. Types /\ ResultSound /\ [PipelineNext]_pipelineVars => Types' /\ ResultSound'
  <2> SUFFICES ASSUME Types, ResultSound, [PipelineNext]_pipelineVars PROVE Types' /\ ResultSound'
    OBVIOUS
  <2> USE DEF Types
  <2>1. CASE UNCHANGED pipelineVars
    BY <2>1 DEF pipelineVars, ResultSound, Applied
  <2>2. CASE Return
    BY <2>2 DEF Return, ResultSound, Applied
  <2>3. ASSUME NEW a \in Registered \cup Unknown, Step(a) PROVE Types' /\ ResultSound'
    <3>1. CASE UnknownAlgorithm(a)
      BY <3>1 DEF UnknownAlgorithm, ResultSound, Applied
    <3>2. ASSUME a \in Registered, NEW made, StepFails(a, made) PROVE Types' /\ ResultSound'
      <4>1. UNCHANGED <<request, current>>
        BY <3>2 DEF StepFails
      <4>2. UNCHANGED traces \/ Trace(a, "failed")
        BY <3>2 DEF StepFails
      <4>3. CASE UNCHANGED traces
        BY <4>1, <4>3 DEF ResultSound, Applied
      <4>4. CASE Trace(a, "failed")
        <5>1. "failed" \in Statuses
          BY DEF Statuses
        <5>2. Types' /\ \A A : Applied(A) => Applied(A)'
          BY <3>2, <4>1, <4>4, <5>1, Traced
        <5> QED BY <4>1, <5>2 DEF ResultSound
      <4> QED BY <4>2, <4>3, <4>4
    <3>3. ASSUME a \in Custom, NEW made, StepRejected(a, made) PROVE Types' /\ ResultSound'
      <4>1. UNCHANGED <<request, current>> /\ Trace(a, "non_monotonic_rejected")
        BY <3>3 DEF StepRejected
      <4>2. "non_monotonic_rejected" \in Statuses /\ a \in Registered
        BY <3>3 DEF Statuses, Registered
      <4>3. Types' /\ \A A : Applied(A) => Applied(A)'
        BY <4>1, <4>2, Traced
      <4> QED BY <4>1, <4>3 DEF ResultSound
    <3>4. ASSUME a \in Registered, NEW made \in Attempts(a, current, request), StepApplies(a, made)
          PROVE  Types' /\ ResultSound'
      <4>1. UNCHANGED request
        BY <3>4 DEF StepApplies
      <4>2. Status(made) \in Statuses
        BY DEF Status, Statuses
      <4>3. PICK status \in Statuses : Trace(a, status)
        <5>1. CASE a \in Builtin
          BY <3>4, <4>2, <5>1 DEF StepApplies
        <5>2. CASE a \notin Builtin
          <6>1. Trace(a, "compressed") /\ "compressed" \in Statuses
            BY <3>4, <5>2 DEF StepApplies, Statuses
          <6> QED BY <6>1
        <5> QED BY <5>1, <5>2
      <4>4. Types' /\ \A A : Applied(A) => Applied(A)'
        BY <3>4, <4>1, <4>3, Traced
      <4>5. /\ a \in Custom => Applied(Custom)'
            /\ a \in Custom \ Honest => Applied(Custom \ Honest)'
        BY <3>4, <4>3, Traced
      <4>6. Count(current') <= Count(request.content) \/ Applied(Custom \ Honest)'
        <5>1. CASE Applied(Custom \ Honest) \/ a \in Custom \ Honest
          BY <4>4, <4>5, <5>1
        <5>2. CASE ~(Applied(Custom \ Honest) \/ a \in Custom \ Honest)
          <6>1. Count(current') <= Count(current) /\ Count(current) <= Count(request.content)
            BY <3>4, <5>2, AppliedIsSound DEF ResultSound
          <6>2. Count(current') \in Nat /\ Count(current) \in Nat /\ Count(request.content) \in Nat
            OBVIOUS
          <6> QED BY <6>1, <6>2
        <5> QED BY <5>1, <5>2
      <4>7. HasTerms(request.content, request.terms) /\ ~Applied(Custom)' => HasTerms(current', request.terms)
        BY <3>4, <4>4, <4>5, AppliedIsSound DEF ResultSound, Registered
      <4> QED BY <4>1, <4>4, <4>6, <4>7 DEF ResultSound
    <3> QED BY <2>3, <3>1, <3>2, <3>3, <3>4 DEF Step, StepRejected
  <2> QED BY <2>1, <2>2, <2>3 DEF PipelineNext
<1> QED BY <1>1, <1>2, PTL DEF PipelineSpec

-----------------------------------------------------------------------------
(* The built-in algorithms: what they do to a content.                     *)

Parts == [of : SUBSET Items, size : Nat]

Contents ==
  [kind : {"text", "list", "object"}, wide : Nat \ {0}, padded : BOOLEAN, parts : Seq(Parts)]

(* What a content is made of.                                              *)
LEMMA ContentParts ==
  ASSUME NEW c \in Content
  PROVE  /\ c.parts \in Seq(Parts) /\ Len(c.parts) \in Nat /\ DOMAIN c.parts = 1 .. Len(c.parts)
         /\ IsFiniteSet(DOMAIN c.parts)
         /\ \A i \in DOMAIN c.parts : c.parts[i] \in Parts /\ c.parts[i].size \in Nat
                                      /\ c.parts[i].of \in SUBSET Items
         /\ c.kind \in {"text", "list", "object"} /\ c.wide \in Nat \ {0} /\ c.padded \in BOOLEAN
         /\ c.kind = "text" \/ \A i \in DOMAIN c.parts : c.parts[i].of # {}
<1>1. /\ c \in Contents
      /\ c.kind = "text" \/ \A i \in DOMAIN c.parts : c.parts[i].of # {}
  BY DEF Content, Contents, Parts
<1>2. c.parts \in Seq(Parts)
  BY <1>1 DEF Contents
<1>3. Len(c.parts) \in Nat /\ DOMAIN c.parts = 1 .. Len(c.parts)
  BY <1>2
<1>4. IsFiniteSet(1 .. Len(c.parts))
  BY <1>3, FS_Interval
<1>5. \A i \in DOMAIN c.parts : c.parts[i] \in Parts
  BY <1>2, <1>3
<1> QED BY <1>1, <1>2, <1>3, <1>4, <1>5 DEF Contents, Parts

(* The same content with other parts.                                      *)
Reparted(c, parts) == [c EXCEPT !.parts = parts]

(* It is a content if its parts may be those of its kind.                  *)
LEMMA WithParts ==
  ASSUME NEW c \in Content, NEW parts \in Seq(Parts),
         c.kind = "text" \/ \A i \in DOMAIN parts : parts[i].of # {}
  PROVE  /\ Reparted(c, parts) \in Content /\ Reparted(c, parts).parts = parts
         /\ Reparted(c, parts).kind = c.kind /\ Reparted(c, parts).wide = c.wide
         /\ Reparted(c, parts).padded = c.padded
<1> DEFINE d == Reparted(c, parts)
<1>1. c \in Contents
  BY DEF Content, Contents, Parts
<1>2. /\ d \in Contents
      /\ d.parts = parts /\ d.kind = c.kind /\ d.wide = c.wide /\ d.padded = c.padded
  BY <1>1 DEF Reparted, Contents
<1> HIDE DEF d
<1>3. d \in Content
  BY <1>2 DEF Content, Contents, Parts
<1> QED BY <1>2, <1>3 DEF d

(* Parts in some order: the items of the parts chosen.                     *)
LEMMA ArrangedContent ==
  ASSUME NEW c \in Content, NEW I \in SUBSET (DOMAIN c.parts), NEW order \in Seq(I),
         \A i \in I : \E k \in 1 .. Len(order) : order[k] = i
  PROVE  LET d == Arranged(c, order)
         IN  /\ d \in Content /\ Len(d.parts) = Len(order) /\ DOMAIN d.parts = 1 .. Len(order)
             /\ \A k \in 1 .. Len(order) : d.parts[k] = c.parts[order[k]]
             /\ d.kind = c.kind /\ d.wide = c.wide /\ d.padded = c.padded
             /\ WholeItems(d) = At(c, I)
<1> DEFINE parts == [k \in 1 .. Len(order) |-> c.parts[order[k]]]
           d == Arranged(c, order)
<1>1. /\ \A i \in DOMAIN c.parts : c.parts[i] \in Parts
      /\ c.kind = "text" \/ \A i \in DOMAIN c.parts : c.parts[i].of # {}
  BY ContentParts
<1>2. /\ Len(order) \in Nat /\ \A k \in 1 .. Len(order) : order[k] \in I
      /\ DOMAIN order = 1 .. Len(order)
  OBVIOUS
<1>3. \A k \in 1 .. Len(order) : c.parts[order[k]] \in Parts
  BY <1>1, <1>2
<1>4. parts \in Seq(Parts) /\ Len(parts) = Len(order) /\ DOMAIN parts = 1 .. Len(order)
  BY <1>2, <1>3
<1>5. \A k \in 1 .. Len(order) : parts[k] = c.parts[order[k]]
  OBVIOUS
<1>5d. d = Reparted(c, parts)
  BY <1>2 DEF Arranged, Reparted
<1> HIDE DEF parts
<1>6. c.kind = "text" \/ \A k \in DOMAIN parts : parts[k].of # {}
  BY <1>1, <1>2, <1>4, <1>5
<1> HIDE DEF d
<1>7. d \in Content /\ d.parts = parts /\ d.kind = c.kind /\ d.wide = c.wide /\ d.padded = c.padded
  BY <1>4, <1>5d, <1>6, WithParts
<1>8. WholeItems(d) = UNION {parts[k].of : k \in 1 .. Len(order)}
  BY <1>4, <1>7 DEF WholeItems
<1>9. At(c, I) = UNION {c.parts[i].of : i \in I}
  BY DEF At
<1>10. ASSUME NEW x \in WholeItems(d) PROVE x \in At(c, I)
  <2>1. PICK k \in 1 .. Len(order) : x \in parts[k].of
    BY <1>8, <1>10
  <2> QED BY <1>2, <1>5, <1>9, <2>1
<1>11. ASSUME NEW x \in At(c, I) PROVE x \in WholeItems(d)
  <2>1. PICK i \in I : x \in c.parts[i].of
    BY <1>9, <1>11
  <2>2. PICK k \in 1 .. Len(order) : order[k] = i
    OBVIOUS
  <2>3. x \in parts[k].of
    BY <1>5, <2>1, <2>2
  <2> QED BY <1>8, <2>3
<1>12. WholeItems(d) = At(c, I)
  BY <1>10, <1>11
<1> QED BY <1>4, <1>5, <1>7, <1>12 DEF d

(* The positions of I in their order.                                      *)
Order(I) == [k \in 1 .. Cardinality(I) |-> AtPlace(I, k)]

(* They are as many as the members of I, and they select its parts.         *)
LEMMA Positions ==
  ASSUME NEW c \in Content, NEW I \in SUBSET (DOMAIN c.parts)
  PROVE  /\ IsFiniteSet(I) /\ Cardinality(I) \in Nat
         /\ Order(I) \in Seq(I) /\ Len(Order(I)) = Cardinality(I)
         /\ \A i \in I : \E k \in 1 .. Len(Order(I)) : Order(I)[k] = i
         /\ Order(I) \in Bijection(1 .. Cardinality(I), I)
         /\ Keeping(c, I) = Arranged(c, Order(I))
<1> DEFINE order == Order(I)
<1>1. IsFiniteSet(I) /\ Cardinality(I) \in Nat /\ I \in SUBSET Nat
  <2>1. IsFiniteSet(DOMAIN c.parts) /\ DOMAIN c.parts = 1 .. Len(c.parts) /\ Len(c.parts) \in Nat
    BY ContentParts
  <2> QED BY <2>1, FS_Subset, FS_CardinalityType
<1>2. /\ \A k \in 1 .. Cardinality(I) : AtPlace(I, k) \in I
      /\ \A k, n \in 1 .. Cardinality(I) : k < n => AtPlace(I, k) < AtPlace(I, n)
      /\ \A i \in I : \E k \in 1 .. Cardinality(I) : AtPlace(I, k) = i
  BY <1>1, AtPlaceInOrder
<1>3. order \in Seq(I) /\ Len(order) = Cardinality(I) /\ order \in [1 .. Cardinality(I) -> I]
  BY <1>1, <1>2 DEF Order
<1>4. \A k \in 1 .. Cardinality(I) : order[k] = AtPlace(I, k)
  BY DEF Order
<1> HIDE DEF order
<1>5. \A k, n \in 1 .. Cardinality(I) : order[k] = order[n] => k = n
  <2>1. \A k, n \in 1 .. Cardinality(I) : k < n => order[k] # order[n]
    <3>1. SUFFICES ASSUME NEW k \in 1 .. Cardinality(I), NEW n \in 1 .. Cardinality(I), k < n
                   PROVE  order[k] # order[n]
      OBVIOUS
    <3>2. order[k] < order[n] /\ order[k] \in Nat /\ order[n] \in Nat
      BY <1>1, <1>2, <1>4, <3>1
    <3> QED BY <3>2
  <2>2. \A k, n \in 1 .. Cardinality(I) : k < n \/ n < k \/ k = n
    BY <1>1
  <2> QED BY <2>1, <2>2
<1>6. \A i \in I : \E k \in 1 .. Cardinality(I) : order[k] = i
  BY <1>2, <1>4
<1>7. order \in Bijection(1 .. Cardinality(I), I)
  BY <1>3, <1>5, <1>6 DEF Bijection, Injection, IsInjective, Surjection
<1>8. Keeping(c, I) = Arranged(c, order)
  <2>1. DOMAIN order = 1 .. Cardinality(I)
    BY <1>3
  <2>2. Selected(c.parts, I) = [k \in DOMAIN order |-> c.parts[order[k]]]
    BY <1>4, <2>1 DEF Selected
  <2> QED BY <2>2 DEF Keeping, Arranged
<1> QED BY <1>1, <1>3, <1>6, <1>7, <1>8 DEF order

(* A selection is a content of the same kind with the items selected.      *)
LEMMA KeepingContent ==
  ASSUME NEW c \in Content, NEW I \in SUBSET (DOMAIN c.parts)
  PROVE  LET d == Keeping(c, I)
         IN  /\ d \in Content /\ Len(d.parts) = Cardinality(I)
             /\ \A k \in 1 .. Cardinality(I) : d.parts[k] = c.parts[Order(I)[k]]
             /\ d.kind = c.kind /\ d.wide = c.wide /\ d.padded = c.padded
             /\ WholeItems(d) = At(c, I)
<1>1. /\ Order(I) \in Seq(I) /\ Len(Order(I)) = Cardinality(I)
      /\ \A i \in I : \E k \in 1 .. Len(Order(I)) : Order(I)[k] = i
      /\ Keeping(c, I) = Arranged(c, Order(I))
  BY Positions
<1> QED BY <1>1, ArrangedContent

Sizes(c) == [i \in DOMAIN c.parts |-> c.parts[i].size]

(* What the parts at some positions of a text come to.                     *)
LengthOver(c, I) == TotalOver(Sizes(c), I) + IF c.padded THEN Cardinality(I) ELSE 0

(* They come to a natural number.                                          *)
LEMMA LengthOverNat ==
  ASSUME NEW c \in Content, NEW I \in SUBSET (DOMAIN c.parts)
  PROVE  /\ \A i \in I : Sizes(c)[i] \in Nat /\ Sizes(c)[i] = c.parts[i].size
         /\ IsFiniteSet(I) /\ Cardinality(I) \in Nat
         /\ TotalOver(Sizes(c), I) \in Nat /\ LengthOver(c, I) \in Nat
<1>1. \A i \in DOMAIN c.parts : c.parts[i].size \in Nat
  BY ContentParts
<1>2. \A i \in I : Sizes(c)[i] \in Nat /\ Sizes(c)[i] = c.parts[i].size
  BY <1>1 DEF Sizes
<1>3. IsFiniteSet(I) /\ Cardinality(I) \in Nat
  BY Positions
<1>4. TotalOver(Sizes(c), I) \in Nat
  BY <1>2, <1>3, TotalNat
<1> QED BY <1>2, <1>3, <1>4 DEF LengthOver

(* So do a length and a count.                                             *)
LEMMA LengthNat ==
  ASSUME NEW c \in Content
  PROVE  /\ Length(c) \in Nat /\ ContentCount(c) \in Nat /\ ContentCount(c) = c.wide * Length(c)
         /\ c.kind = "text" => Length(c) = LengthOver(c, DOMAIN c.parts)
<1>1. /\ c.wide \in Nat \ {0} /\ Len(c.parts) \in Nat /\ c.padded \in BOOLEAN
      /\ DOMAIN c.parts = 1 .. Len(c.parts) /\ c.kind \in {"text", "list", "object"}
  BY ContentParts
<1>2. TotalOver(Sizes(c), DOMAIN c.parts) \in Nat
  BY LengthOverNat
<1>3. Brackets(c) \in Nat /\ (c.kind = "text" => Brackets(c) = 0)
  BY <1>1 DEF Brackets
<1>4. Length(c) = TotalOver(Sizes(c), DOMAIN c.parts) + Brackets(c)
                    + IF c.padded THEN Len(c.parts) ELSE 0
  BY DEF Length, Sizes
<1>5. Length(c) \in Nat
  BY <1>1, <1>2, <1>3, <1>4
<1>6. c.wide * Length(c) \in Nat
  BY <1>1, <1>5
<1>7. Cardinality(DOMAIN c.parts) = Len(c.parts)
  BY <1>1, FS_Interval
<1>8. c.kind = "text" => Length(c) = LengthOver(c, DOMAIN c.parts)
  BY <1>1, <1>2, <1>3, <1>4, <1>7 DEF LengthOver
<1> QED BY <1>5, <1>6, <1>8 DEF ContentCount

(* The length of a selection is what the parts selected come to.           *)
LEMMA KeepingLength ==
  ASSUME NEW c \in Content, c.kind = "text", NEW I \in SUBSET (DOMAIN c.parts)
  PROVE  Length(Keeping(c, I)) = LengthOver(c, I)
<1> DEFINE d == Keeping(c, I)
           size == Cardinality(I)
           order == Order(I)
<1>1. /\ d \in Content /\ Len(d.parts) = size
      /\ \A k \in 1 .. size : d.parts[k] = c.parts[order[k]]
      /\ d.kind = c.kind /\ d.padded = c.padded
  BY KeepingContent
<1>2. order \in Bijection(1 .. size, I) /\ size \in Nat /\ order \in Seq(I) /\ Len(order) = size
  BY Positions
<1> HIDE DEF d, order, size
<1>3. Length(d) = LengthOver(d, DOMAIN d.parts) /\ DOMAIN d.parts = 1 .. size
  BY <1>1, LengthNat, ContentParts
<1>4. \A i \in I : Sizes(c)[i] \in Nat /\ Sizes(c)[i] = c.parts[i].size
  BY LengthOverNat
<1>5. \A k \in 1 .. size : order[k] \in I
  BY <1>2
<1>6. \A k \in 1 .. size : Sizes(d)[k] = Sizes(c)[order[k]]
  BY <1>1, <1>3, <1>4, <1>5 DEF Sizes
<1>7. IsFiniteSet(1 .. size) /\ Cardinality(1 .. size) = size
  BY <1>2, FS_Interval
<1>8. TotalOver(Sizes(d), 1 .. size) = TotalOver(Sizes(c), I)
  <2>1. \A i \in I : Sizes(c)[i] \in Nat
    BY <1>4
  <2> DEFINE C == Sizes(c)
             D == Sizes(d)
  <2>2. /\ \A i \in I : C[i] \in Nat
        /\ \A k \in 1 .. size : D[k] = C[order[k]]
    BY <1>6, <2>1
  <2> HIDE DEF C, D
  <2>3. TotalOver(D, 1 .. size) = TotalOver(C, I)
    BY <1>2, <1>7, <2>2, TotalRenamed
  <2> QED BY <2>3 DEF C, D
<1> QED BY <1>1, <1>3, <1>7, <1>8 DEF LengthOver, size, d

(* More parts are longer.                                                  *)
LEMMA LengthGrows ==
  ASSUME NEW c \in Content, NEW J \in SUBSET (DOMAIN c.parts), NEW I \in SUBSET J
  PROVE  LengthOver(c, I) <= LengthOver(c, J)
<1>1. /\ \A j \in J : Sizes(c)[j] \in Nat
      /\ IsFiniteSet(J) /\ Cardinality(J) \in Nat /\ TotalOver(Sizes(c), J) \in Nat
  BY LengthOverNat
<1>2. Cardinality(I) \in Nat /\ TotalOver(Sizes(c), I) \in Nat
  BY LengthOverNat
<1>3. TotalOver(Sizes(c), I) <= TotalOver(Sizes(c), J)
  BY <1>1, TotalOfSome
<1>4. Cardinality(I) <= Cardinality(J)
  BY <1>1, FS_Subset
<1> QED BY <1>1, <1>2, <1>3, <1>4 DEF LengthOver

(* d has the parts of c and one more, which shift leaves out.              *)
OneMore(c, d, n, here, shift) ==
  /\ d.kind = "text" /\ d.padded = c.padded /\ Len(d.parts) = Len(c.parts) + 1
  /\ here \in DOMAIN d.parts /\ d.parts[here].size = n - IF c.padded THEN 1 ELSE 0
  /\ shift \in Bijection(DOMAIN d.parts \ {here}, DOMAIN c.parts)
  /\ \A k \in DOMAIN d.parts \ {here} : d.parts[k] = c.parts[shift[k]]

(* A part more: its own length and one white space.                        *)
LEMMA LengthOfOneMore ==
  ASSUME NEW c \in Content, c.kind = "text", NEW n \in Nat, n > 0,
         NEW d \in Content, NEW here, NEW shift, OneMore(c, d, n, here, shift)
  PROVE  Length(d) = Length(c) + n
<1> DEFINE last == n - IF c.padded THEN 1 ELSE 0
           C == DOMAIN c.parts
           D == DOMAIN d.parts
           unmoved == D \ {here}
<1>1. /\ IsFiniteSet(C) /\ C = 1 .. Len(c.parts) /\ Len(c.parts) \in Nat
      /\ IsFiniteSet(D) /\ D = 1 .. Len(d.parts) /\ Len(d.parts) \in Nat /\ c.padded \in BOOLEAN
  BY ContentParts
<1>2. /\ d.kind = "text" /\ d.padded = c.padded /\ Len(d.parts) = Len(c.parts) + 1
      /\ here \in D /\ d.parts[here].size = last
      /\ shift \in Bijection(unmoved, C) /\ \A k \in unmoved : d.parts[k] = c.parts[shift[k]]
  BY DEF OneMore
<1>3. last \in Nat
  BY <1>1
<1>4. unmoved \in SUBSET D /\ here \notin unmoved /\ unmoved \cup {here} = D /\ IsFiniteSet(unmoved)
  <2>1. unmoved \in SUBSET D
    OBVIOUS
  <2>2. IsFiniteSet(unmoved)
    BY <1>1, <2>1, FS_Subset
  <2> HIDE DEF D
  <2> QED BY <1>2, <2>2
<1>5. /\ \A i \in C : Sizes(c)[i] \in Nat /\ Sizes(c)[i] = c.parts[i].size
      /\ TotalOver(Sizes(c), C) \in Nat
  BY LengthOverNat
<1>6. \A i \in D : Sizes(d)[i] \in Nat /\ Sizes(d)[i] = d.parts[i].size
  BY LengthOverNat
<1>7. Length(c) = LengthOver(c, C) /\ Length(d) = LengthOver(d, D)
  BY <1>2, LengthNat
<1>8. Cardinality(C) = Len(c.parts) /\ Cardinality(D) = Len(c.parts) + 1
  <2>1. \A n1 \in Nat : Cardinality(1 .. n1) = n1
    BY FS_Interval
  <2> HIDE DEF C, D
  <2> QED BY <1>1, <1>2, <2>1
<1> HIDE DEF C, D, unmoved, last
<1>9. \A k \in unmoved : shift[k] \in C
  BY <1>2 DEF Bijection, Injection
<1>10. \A k \in unmoved : Sizes(d)[k] = Sizes(c)[shift[k]]
  BY <1>2, <1>4, <1>5, <1>6, <1>9
<1>11. \A i \in C : Sizes(c)[i] \in Nat
  BY <1>5
<1>12. TotalOver(Sizes(d), unmoved) = TotalOver(Sizes(c), C)
  BY <1>2, <1>4, <1>10, <1>11, TotalRenamed
<1>13. \A i \in unmoved \cup {here} : Sizes(d)[i] \in Nat
  BY <1>4, <1>6
<1>14. TotalOver(Sizes(d), unmoved \cup {here}) = TotalOver(Sizes(d), unmoved) + Sizes(d)[here]
  BY <1>4, <1>13, TotalInsert
<1>15. Sizes(d)[here] = last
  BY <1>2, <1>6
<1>16. TotalOver(Sizes(d), D) = TotalOver(Sizes(c), C) + last
  BY <1>4, <1>12, <1>14, <1>15
<1>17. /\ Length(c) = TotalOver(Sizes(c), C) + IF c.padded THEN Len(c.parts) ELSE 0
       /\ Length(d) = TotalOver(Sizes(d), D) + IF c.padded THEN Len(c.parts) + 1 ELSE 0
  BY <1>2, <1>7, <1>8 DEF LengthOver
<1> QED BY <1>1, <1>3, <1>5, <1>16, <1>17 DEF last

(* So it is whether the part is added at the end or at the beginning.      *)
LEMMA LengthOfMore ==
  ASSUME NEW c \in Content, c.kind = "text", NEW n \in Nat, n > 0
  PROVE  /\ LET d == Reparted(c, c.parts \o Rest(c, n))
            IN d \in Content /\ d.kind = "text" /\ d.wide = c.wide /\ Length(d) = Length(c) + n
                 /\ WholeItems(d) = WholeItems(c)
         /\ LET d == Reparted(c, Rest(c, n) \o c.parts)
            IN d \in Content /\ d.kind = "text" /\ d.wide = c.wide /\ Length(d) = Length(c) + n
                 /\ WholeItems(d) = WholeItems(c)
<1> DEFINE size == Len(c.parts)
           last == n - IF c.padded THEN 1 ELSE 0
           after == c.parts \o Rest(c, n)
           before == Rest(c, n) \o c.parts
<1>1. /\ size \in Nat /\ DOMAIN c.parts = 1 .. size /\ c.parts \in Seq(Parts)
      /\ c.padded \in BOOLEAN
  BY ContentParts
<1>2. last \in Nat
  BY <1>1
<1>3. /\ Rest(c, n) = <<Part({}, last)>> /\ Part({}, last).size = last /\ Part({}, last).of = {}
      /\ Part({}, last) \in Parts
  BY <1>2 DEF Rest, Part, Parts
<1>4. Rest(c, n) \in Seq(Parts) /\ Len(Rest(c, n)) = 1 /\ Rest(c, n)[1] = Part({}, last)
  BY <1>3
<1>5. /\ after \in Seq(Parts) /\ Len(after) = size + 1 /\ DOMAIN after = 1 .. size + 1
      /\ after[size + 1] = Part({}, last) /\ \A k \in 1 .. size : after[k] = c.parts[k]
  <2>1. /\ after \in Seq(Parts) /\ Len(after) = size + 1
        /\ after[size + 1] = Part({}, last) /\ \A k \in 1 .. size : after[k] = c.parts[k]
    BY <1>1, <1>4, AddedTo
  <2> HIDE DEF after
  <2> QED BY <2>1
<1>6. /\ before \in Seq(Parts) /\ Len(before) = size + 1 /\ DOMAIN before = 1 .. size + 1
      /\ before[1] = Part({}, last) /\ \A k \in 2 .. size + 1 : before[k] = c.parts[k - 1]
  <2>1. /\ before \in Seq(Parts) /\ Len(before) = size + 1
        /\ before[1] = Part({}, last) /\ \A k \in 2 .. size + 1 : before[k] = c.parts[k - 1]
    BY <1>1, <1>4, AddedTo
  <2> HIDE DEF before
  <2> QED BY <2>1
<1> HIDE DEF after, before
<1>7. LET d == Reparted(c, after)
      IN d \in Content /\ d.kind = "text" /\ d.wide = c.wide /\ Length(d) = Length(c) + n
           /\ WholeItems(d) = WholeItems(c)
  <2> DEFINE d == Reparted(c, after)
             unmoved == DOMAIN d.parts \ {size + 1}
             shift == [k \in unmoved |-> k]
  <2>1. d \in Content /\ d.parts = after /\ d.kind = "text" /\ d.wide = c.wide /\ d.padded = c.padded
    BY <1>5, WithParts
  <2> HIDE DEF d
  <2>2. unmoved = 1 .. size /\ size + 1 \in DOMAIN d.parts
    BY <1>1, <1>5, <2>1
  <2>3. shift \in [1 .. size -> 1 .. size] /\ \A k \in 1 .. size : shift[k] = k
    BY <2>2
  <2> HIDE DEF shift, unmoved
  <2>4. shift \in Bijection(1 .. size, 1 .. size)
    BY <2>3 DEF Bijection, Injection, IsInjective, Surjection
  <2>5. OneMore(c, d, n, size + 1, shift)
    <3>1. \A k \in unmoved : d.parts[k] = c.parts[shift[k]]
      BY <1>5, <2>1, <2>2, <2>3
    <3>2. shift \in Bijection(unmoved, DOMAIN c.parts)
      BY <1>1, <2>2, <2>4
    <3>3. d.parts[size + 1].size = last /\ Len(d.parts) = size + 1
      BY <1>3, <1>5, <2>1
    <3> QED BY <2>1, <2>2, <3>1, <3>2, <3>3 DEF OneMore, unmoved
  <2>6. Length(d) = Length(c) + n
    BY <2>1, <2>5, LengthOfOneMore
  <2>7. WholeItems(d) = UNION {after[k].of : k \in 1 .. size + 1}
    BY <1>5, <2>1 DEF WholeItems
  <2>8. WholeItems(c) = UNION {c.parts[k].of : k \in 1 .. size}
    BY <1>1 DEF WholeItems
  <2>9. WholeItems(d) = WholeItems(c)
    <3>1. \A k \in 1 .. size + 1 : k = size + 1 \/ k \in 1 .. size
      BY <1>1
    <3>2. /\ after[size + 1].of = {}
          /\ \A k \in 1 .. size : k \in 1 .. size + 1 /\ after[k].of = c.parts[k].of
      BY <1>1, <1>3, <1>5
    <3>3. ASSUME NEW x \in WholeItems(d) PROVE x \in WholeItems(c)
      <4>1. PICK k \in 1 .. size + 1 : x \in after[k].of
        BY <2>7, <3>3
      <4> QED BY <2>8, <3>1, <3>2, <4>1
    <3>4. ASSUME NEW x \in WholeItems(c) PROVE x \in WholeItems(d)
      <4>1. PICK k \in 1 .. size : x \in c.parts[k].of
        BY <2>8, <3>4
      <4> QED BY <2>7, <3>2, <4>1
    <3> QED BY <3>3, <3>4
  <2> QED BY <2>1, <2>6, <2>9 DEF d
<1>8. LET d == Reparted(c, before)
      IN d \in Content /\ d.kind = "text" /\ d.wide = c.wide /\ Length(d) = Length(c) + n
           /\ WholeItems(d) = WholeItems(c)
  <2> DEFINE d == Reparted(c, before)
             unmoved == DOMAIN d.parts \ {1}
             shift == [k \in unmoved |-> k - 1]
  <2>1. d \in Content /\ d.parts = before /\ d.kind = "text" /\ d.wide = c.wide /\ d.padded = c.padded
    BY <1>6, WithParts
  <2> HIDE DEF d
  <2>2. unmoved = 2 .. size + 1 /\ 1 \in DOMAIN d.parts
    BY <1>1, <1>6, <2>1
  <2>3. shift \in [2 .. size + 1 -> 1 .. size] /\ \A k \in 2 .. size + 1 : shift[k] = k - 1
    BY <1>1, <2>2
  <2> HIDE DEF shift, unmoved
  <2>4. shift \in Bijection(2 .. size + 1, 1 .. size)
    <3>1. \A j, k \in 2 .. size + 1 : shift[j] = shift[k] => j = k
      BY <1>1, <2>3
    <3>2. ASSUME NEW i \in 1 .. size PROVE \E k \in 2 .. size + 1 : shift[k] = i
      <4>1. i + 1 \in 2 .. size + 1 /\ i + 1 - 1 = i
        BY <1>1
      <4> QED BY <2>3, <4>1
    <3> QED BY <2>3, <3>1, <3>2 DEF Bijection, Injection, IsInjective, Surjection
  <2>5. OneMore(c, d, n, 1, shift)
    <3>1. \A k \in unmoved : d.parts[k] = c.parts[shift[k]]
      BY <1>6, <2>1, <2>2, <2>3
    <3>2. shift \in Bijection(unmoved, DOMAIN c.parts)
      BY <1>1, <2>2, <2>4
    <3>3. d.parts[1].size = last /\ Len(d.parts) = size + 1
      BY <1>3, <1>6, <2>1
    <3> QED BY <2>1, <2>2, <3>1, <3>2, <3>3 DEF OneMore, unmoved
  <2>7. Length(d) = Length(c) + n
    BY <2>1, <2>5, LengthOfOneMore
  <2>8. WholeItems(d) = UNION {before[k].of : k \in 1 .. size + 1}
    BY <1>6, <2>1 DEF WholeItems
  <2>9. WholeItems(c) = UNION {c.parts[k].of : k \in 1 .. size}
    BY <1>1 DEF WholeItems
  <2>10. \A k \in 1 .. size + 1 : k = 1 \/ (k \in 2 .. size + 1 /\ k - 1 \in 1 .. size)
    BY <1>1
  <2>11. before[1].of = {} /\ \A k \in 2 .. size + 1 : before[k].of = c.parts[k - 1].of
    BY <1>3, <1>6
  <2>12. \A k \in 1 .. size : k + 1 \in 2 .. size + 1 /\ k + 1 \in 1 .. size + 1 /\ k + 1 - 1 = k
    BY <1>1
  <2>13. ASSUME NEW x \in WholeItems(d) PROVE x \in WholeItems(c)
    <3>1. PICK k \in 1 .. size + 1 : x \in before[k].of
      BY <2>8, <2>13
    <3> QED BY <2>9, <2>10, <2>11, <3>1
  <2>14. ASSUME NEW x \in WholeItems(c) PROVE x \in WholeItems(d)
    <3>1. PICK k \in 1 .. size : x \in c.parts[k].of
      BY <2>9, <2>14
    <3>2. x \in before[k + 1].of
      BY <2>11, <2>12, <3>1
    <3> QED BY <2>8, <2>12, <3>2
  <2> QED BY <2>1, <2>7, <2>13, <2>14 DEF d
<1> QED BY <1>7, <1>8 DEF after, before

(* The parts of a prefix that fits, or of none.                            *)
LEMMA WholePartsFit ==
  ASSUME NEW c \in Content, c.kind = "text", NEW n \in Nat,
         NEW I \in SUBSET (DOMAIN c.parts), NEW J \in SUBSET (DOMAIN c.parts),
         I = {} \/ (I \subseteq J /\ Length(Keeping(c, J)) <= n)
  PROVE  Length(Keeping(c, I)) \in Nat /\ Length(Keeping(c, I)) <= n
<1>1. /\ Length(Keeping(c, I)) = LengthOver(c, I)
      /\ Length(Keeping(c, J)) = LengthOver(c, J)
  BY KeepingLength
<1>2. LengthOver(c, I) \in Nat /\ LengthOver(c, J) \in Nat
  BY LengthOverNat
<1>3. CASE I = {}
  <2>1. {} \in SUBSET (DOMAIN c.parts) /\ TotalOver(Sizes(c), {}) = 0 /\ Cardinality({}) = 0
    <3>1. TokensOf(Sizes(c), {}) = {}
      BY DEF TokensOf
    <3> QED BY <3>1, FS_EmptySet DEF TotalOver
  <2>2. LengthOver(c, {}) = 0
    BY <2>1 DEF LengthOver
  <2> QED BY <1>1, <1>2, <1>3, <2>2
<1>4. CASE I # {}
  <2>1. I \in SUBSET J /\ Length(Keeping(c, J)) <= n
    BY <1>4
  <2>2. LengthOver(c, I) <= LengthOver(c, J)
    BY <2>1, LengthGrows
  <2> QED BY <1>1, <1>2, <2>1, <2>2
<1> QED BY <1>3, <1>4

(* A text of at most n characters.                                         *)
Short(c, d, n) ==
  d \in Content /\ d.kind = "text" /\ d.wide = c.wide /\ Length(d) <= n

(* A prefix is as short as it should be.                                   *)
LEMMA PrefixShort ==
  ASSUME NEW c \in Content, c.kind = "text", NEW n \in Nat
  PROVE  Short(c, Prefix(c, n), n)
<1> DEFINE I == {k \in DOMAIN c.parts : Length(Keeping(c, 1 .. k)) <= n}
           cut == Keeping(c, I)
           rest == n - Length(cut)
<1>1. DOMAIN c.parts = 1 .. Len(c.parts) /\ Len(c.parts) \in Nat /\ I \in SUBSET (DOMAIN c.parts)
  BY ContentParts
<1>2. \E J \in SUBSET (DOMAIN c.parts) : I = {} \/ (I \subseteq J /\ Length(Keeping(c, J)) <= n)
  <2>1. CASE I = {}
    BY <2>1
  <2>2. CASE I # {}
    <3>1. I \in SUBSET Nat /\ \A j \in I : j <= Len(c.parts) /\ j \in 1 .. Len(c.parts)
      BY <1>1
    <3>2. PICK m \in I : \A j \in I : j <= m
      BY <1>1, <2>2, <3>1, GreatestNat
    <3>3. I \subseteq 1 .. m /\ (1 .. m) \in SUBSET (DOMAIN c.parts)
      BY <1>1, <3>1, <3>2
    <3>4. Length(Keeping(c, 1 .. m)) <= n
      BY <3>2
    <3> QED BY <3>3, <3>4
  <2> QED BY <2>1, <2>2
<1>3. Length(cut) \in Nat /\ Length(cut) <= n
  BY <1>1, <1>2, WholePartsFit
<1>4. cut \in Content /\ cut.kind = "text" /\ cut.wide = c.wide /\ cut.padded = c.padded
  BY <1>1, KeepingContent
<1>5. Prefix(c, n) = IF rest <= 0 THEN cut ELSE Reparted(cut, cut.parts \o Rest(cut, rest))
  BY <1>4 DEF Prefix, Reparted, Rest
<1> HIDE DEF I, cut
<1>6. rest \in Nat
  BY <1>3
<1>7. CASE rest <= 0
  BY <1>3, <1>4, <1>5, <1>7 DEF Short
<1>8. CASE ~(rest <= 0)
  <2>1. Length(cut) + rest = n /\ rest > 0
    BY <1>3, <1>8
  <2> HIDE DEF rest
  <2> DEFINE d == Reparted(cut, cut.parts \o Rest(cut, rest))
  <2>2. d \in Content /\ d.kind = "text" /\ d.wide = cut.wide /\ Length(d) = Length(cut) + rest
    BY <1>4, <1>6, <2>1, LengthOfMore
  <2> HIDE DEF d
  <2>3. Short(c, d, n)
    BY <1>4, <2>1, <2>2 DEF Short
  <2> QED BY <1>5, <1>8, <2>3 DEF d
<1> QED BY <1>7, <1>8

(* So is a suffix.                                                         *)
LEMMA SuffixShort ==
  ASSUME NEW c \in Content, c.kind = "text", NEW n \in Nat
  PROVE  Short(c, Suffix(c, n), n)
<1> DEFINE I == {k \in DOMAIN c.parts : Length(Keeping(c, k .. Len(c.parts))) <= n}
           cut == Keeping(c, I)
           rest == n - Length(cut)
<1>1. DOMAIN c.parts = 1 .. Len(c.parts) /\ Len(c.parts) \in Nat /\ I \in SUBSET (DOMAIN c.parts)
  BY ContentParts
<1>2. \E J \in SUBSET (DOMAIN c.parts) : I = {} \/ (I \subseteq J /\ Length(Keeping(c, J)) <= n)
  <2>1. CASE I = {}
    BY <2>1
  <2>2. CASE I # {}
    <3>1. I \in SUBSET Nat /\ \A j \in I : j <= Len(c.parts) /\ j \in 1 .. Len(c.parts)
      BY <1>1
    <3>2. PICK m \in I : \A j \in I : m <= j
      BY <2>2, <3>1, LeastNat
    <3>3. I \subseteq m .. Len(c.parts) /\ (m .. Len(c.parts)) \in SUBSET (DOMAIN c.parts)
      BY <1>1, <3>1, <3>2
    <3>4. Length(Keeping(c, m .. Len(c.parts))) <= n
      BY <3>2
    <3> QED BY <3>3, <3>4
  <2> QED BY <2>1, <2>2
<1>3. Length(cut) \in Nat /\ Length(cut) <= n
  BY <1>1, <1>2, WholePartsFit
<1>4. cut \in Content /\ cut.kind = "text" /\ cut.wide = c.wide /\ cut.padded = c.padded
  BY <1>1, KeepingContent
<1>5. Suffix(c, n) = IF rest <= 0 THEN cut ELSE Reparted(cut, Rest(cut, rest) \o cut.parts)
  BY <1>4 DEF Suffix, Reparted, Rest
<1> HIDE DEF I, cut
<1>6. rest \in Nat
  BY <1>3
<1>7. CASE rest <= 0
  BY <1>3, <1>4, <1>5, <1>7 DEF Short
<1>8. CASE ~(rest <= 0)
  <2>1. Length(cut) + rest = n /\ rest > 0
    BY <1>3, <1>8
  <2> HIDE DEF rest
  <2> DEFINE d == Reparted(cut, Rest(cut, rest) \o cut.parts)
  <2>2. d \in Content /\ d.kind = "text" /\ d.wide = cut.wide /\ Length(d) = Length(cut) + rest
    BY <1>4, <1>6, <2>1, LengthOfMore
  <2> HIDE DEF d
  <2>3. Short(c, d, n)
    BY <1>4, <2>1, <2>2 DEF Short
  <2> QED BY <1>5, <1>8, <2>3 DEF d
<1> QED BY <1>7, <1>8

(* What fits.                                                              *)
LEMMA FittingFits ==
  ASSUME NEW c \in Content, NEW target \in Nat
  PROVE  /\ Fitting(c, target) \in Nat
         /\ \A n \in Nat : n <= Fitting(c, target) => c.wide * n <= target
         /\ c.wide <= target => Fitting(c, target) # 0
<1> DEFINE w == c.wide
           f == target \div w
<1>1. w \in Nat /\ w # 0
  BY ContentParts
<1> HIDE DEF w
<1>2. f \in Nat /\ w * f <= target /\ target < w * f + w
  BY <1>1
<1>3. \A n \in Nat : n <= f => w * n <= w * f
  BY <1>1, <1>2
<1>4. \A n \in Nat : n <= f => w * n <= target
  <2>1. w * f \in Nat /\ \A n \in Nat : w * n \in Nat
    BY <1>1, <1>2
  <2> QED BY <1>2, <1>3, <2>1
<1>5. w <= target => f # 0
  BY <1>1, <1>2
<1> QED BY <1>2, <1>4, <1>5 DEF Fitting, w

(* A cut that meets the target.                                            *)
Met(c, cut, target) ==
  cut \in Content /\ cut.kind = "text" /\ cut.wide = c.wide
    /\ (target >= 0 => ContentCount(cut) <= target)

(* A text that is short enough meets the target.                           *)
LEMMA ShortMeets ==
  ASSUME NEW c \in Content, NEW d, NEW n \in Nat, NEW target \in Int, Short(c, d, n),
         target >= 0 => c.wide * n <= target
  PROVE  Met(c, d, target)
<1> DEFINE w == c.wide
           l == Length(d)
<1>1. d \in Content /\ d.kind = "text" /\ d.wide = w /\ l <= n
  BY DEF Short
<1>2. w \in Nat /\ l \in Nat /\ ContentCount(d) = w * l
  BY <1>1, ContentParts, LengthNat
<1> HIDE DEF w, l
<1>3. w * l <= w * n /\ w * l \in Nat /\ w * n \in Nat
  BY <1>1, <1>2
<1>4. target >= 0 => ContentCount(d) <= target
  BY <1>2, <1>3 DEF w
<1> QED BY <1>1, <1>4 DEF Met, w

(* The head of a text meets the target, or the empty text does not.        *)
LEMMA TruncateHeadMeets ==
  ASSUME NEW c \in Content, c.kind = "text", NEW target \in Int, NEW cut \in TruncateHead(c, target)
  PROVE  Met(c, cut, target)
<1>1. CASE target <= 0
  <2>1. cut = Prefix(c, 0)
    BY <1>1 DEF TruncateHead
  <2>2. Short(c, cut, 0)
    BY <2>1, PrefixShort
  <2>3. c.wide * 0 = 0
    BY ContentParts
  <2> QED BY <2>2, <2>3, ShortMeets
<1>2. CASE target > 0 /\ ContentCount(c) <= target
  <2>1. cut = c
    BY <1>2 DEF TruncateHead
  <2> QED BY <1>2, <2>1 DEF Met
<1>3. CASE target > 0 /\ ~(ContentCount(c) <= target)
  <2> DEFINE fit == Fitting(c, target)
  <2>1. target \in Nat
    BY <1>3
  <2>2. fit \in Nat /\ \A n \in Nat : n <= fit => c.wide * n <= target
    BY <2>1, FittingFits
  <2>3. ~(target <= 0) /\ ~(target > 0 /\ ContentCount(c) <= target)
    BY <1>3
  <2>4. TruncateHead(c, target) = {Prefix(c, n) : n \in {fit} \cup ((fit \div 2) + 1 .. fit)}
    BY <2>3 DEF TruncateHead
  <2> HIDE DEF fit
  <2>5. PICK n \in {fit} \cup ((fit \div 2) + 1 .. fit) : cut = Prefix(c, n)
    BY <2>4
  <2>6. n \in Nat /\ n <= fit
    <3>1. (fit \div 2) \in Nat
      BY <2>2
    <3> QED BY <2>2, <3>1
  <2>7. Short(c, cut, n) /\ c.wide * n <= target
    BY <2>2, <2>5, <2>6, PrefixShort
  <2> QED BY <2>6, <2>7, ShortMeets
<1> QED BY <1>1, <1>2, <1>3

(* So does the tail, unless the target does not hold a character.          *)
LEMMA TruncateTailMeets ==
  ASSUME NEW c \in Content, c.kind = "text", NEW target \in Int, NEW cut \in TruncateTail(c, target)
  PROVE  /\ cut \in Content /\ cut.kind = "text" /\ cut.wide = c.wide
         /\ target \notin 1 .. c.wide - 1 => Met(c, cut, target)
<1>1. CASE target <= 0
  <2>1. cut = Suffix(c, 0)
    BY <1>1 DEF TruncateTail
  <2>2. Short(c, cut, 0)
    BY <2>1, SuffixShort
  <2>3. c.wide * 0 = 0
    BY ContentParts
  <2>4. Met(c, cut, target)
    BY <2>2, <2>3, ShortMeets
  <2> QED BY <2>4 DEF Met
<1>2. CASE target > 0 /\ ContentCount(c) <= target
  <2>1. cut = c
    BY <1>2 DEF TruncateTail
  <2> QED BY <1>2, <2>1 DEF Met
<1>3. CASE target > 0 /\ ~(ContentCount(c) <= target)
  <2> DEFINE fit == Fitting(c, target)
             candidate == IF fit = 0 THEN Length(c) ELSE fit
  <2>1. target \in Nat /\ Length(c) \in Nat /\ c.wide \in Nat \ {0}
    BY <1>3, LengthNat, ContentParts
  <2>2. /\ fit \in Nat /\ \A n \in Nat : n <= fit => c.wide * n <= target
        /\ c.wide <= target => fit # 0
    BY <2>1, FittingFits
  <2>3. ~(target <= 0) /\ ~(target > 0 /\ ContentCount(c) <= target)
    BY <1>3
  <2>4. TruncateTail(c, target) = {Suffix(c, n) : n \in 0 .. candidate}
    BY <2>3 DEF TruncateTail
  <2> HIDE DEF fit
  <2>5. candidate \in Nat /\ (fit # 0 => candidate = fit)
    BY <2>1, <2>2
  <2> HIDE DEF candidate
  <2>6. PICK n \in 0 .. candidate : cut = Suffix(c, n)
    BY <2>4
  <2>7. n \in Nat /\ Short(c, cut, n)
    BY <2>5, <2>6, SuffixShort
  <2>8. target \notin 1 .. c.wide - 1 => Met(c, cut, target)
    <3>1. SUFFICES ASSUME target \notin 1 .. c.wide - 1 PROVE Met(c, cut, target)
      OBVIOUS
    <3>2. fit # 0
      BY <1>3, <2>1, <2>2, <3>1
    <3>3. n <= fit
      BY <2>5, <2>6, <3>2
    <3>4. c.wide * n <= target
      BY <2>2, <2>7, <3>3
    <3> QED BY <2>7, <3>4, ShortMeets
  <2> QED BY <2>7, <2>8 DEF Short
<1> QED BY <1>1, <1>2, <1>3

-----------------------------------------------------------------------------
(* What an algorithm makes is a content, and a text remains a text.        *)
MakesContent(c, made) ==
  made.content \in Content /\ (c.kind = "text" => made.content.kind = "text")

(* Everything that was said still is, or is reported as removed.           *)
Accounts(c, made) ==
  Said(WholeItems(c)) \subseteq Said(WholeItems(made.content)) \cup Said(made.removed)

Remains(c, made) == Said(WholeItems(c)) \subseteq Said(WholeItems(made.content))

(* What is unchanged.                                                      *)
LEMMA UnchangedMakes ==
  ASSUME NEW c \in Content, NEW made \in Unchanged(c)
  PROVE  made.content = c /\ MakesContent(c, made) /\ Accounts(c, made) /\ Remains(c, made)
<1>1. made.content = c /\ made.removed = {}
  BY DEF Unchanged, Made
<1> QED BY <1>1 DEF MakesContent, Accounts, Remains

(* What remains need not be reported.                                      *)
LEMMA RemainsAccounts ==
  ASSUME NEW c, NEW made, Remains(c, made)
  PROVE  Accounts(c, made)
BY DEF Remains, Accounts

(* A whole item is in a part that is selected, or in one that is not.      *)
LEMMA WholeOfParts ==
  ASSUME NEW c \in Content, NEW I \in SUBSET (DOMAIN c.parts)
  PROVE  WholeItems(c) = At(c, I) \cup At(c, DOMAIN c.parts \ I)
BY DEF WholeItems, At

(* A selection reports the parts it does not select.                       *)
LEMMA SelectingMakes ==
  ASSUME NEW c \in Content, NEW I \in SUBSET (DOMAIN c.parts)
  PROVE  /\ MakesContent(c, Selecting(c, I)) /\ Accounts(c, Selecting(c, I))
         /\ WholeItems(Selecting(c, I).content) = At(c, I)
         /\ Selecting(c, I).removed = At(c, DOMAIN c.parts \ I)
<1> DEFINE made == Selecting(c, I)
<1>1. made.content = Keeping(c, I) /\ made.removed = At(c, DOMAIN c.parts \ I)
  BY DEF Selecting, Made
<1> HIDE DEF made
<1>2. /\ made.content \in Content /\ made.content.kind = c.kind
      /\ WholeItems(made.content) = At(c, I)
  BY <1>1, KeepingContent
<1>3. WholeItems(c) = WholeItems(made.content) \cup made.removed
  BY <1>1, <1>2, WholeOfParts
<1>4. Accounts(c, made)
  BY <1>3 DEF Accounts, Said
<1> QED BY <1>1, <1>2, <1>4 DEF MakesContent, made

(* normalize_whitespace.                                                   *)
LEMMA NormalizeMakes ==
  ASSUME NEW c \in Content, NEW made \in NormalizeWhitespace(c)
  PROVE  MakesContent(c, made) /\ Remains(c, made)
<1>1. CASE c.kind # "text"
  BY <1>1, UnchangedMakes DEF NormalizeWhitespace
<1>2. CASE c.kind = "text"
  <2> DEFINE d == [c EXCEPT !.padded = FALSE]
  <2>1. made.content = d
    BY <1>2 DEF NormalizeWhitespace, Made
  <2>2. c \in Contents
    BY DEF Content, Contents, Parts
  <2>3. d \in Contents /\ d.kind = "text" /\ d.parts = c.parts
    BY <1>2, <2>2 DEF Contents
  <2> HIDE DEF d
  <2>4. d \in Content
    BY <2>3 DEF Content, Contents, Parts
  <2>5. WholeItems(d) = WholeItems(c)
    BY <2>3 DEF WholeItems
  <2> QED BY <2>1, <2>3, <2>4, <2>5 DEF MakesContent, Remains
<1> QED BY <1>1, <1>2

(* The positions of the parts whose key no earlier part has.               *)
Firsts(c, key) == {i \in DOMAIN c.parts : \A j \in 1 .. i - 1 : key[j] # key[i]}

(* What has an equal before it is said by the first of its equals.         *)
LEMMA FirstOfEquals ==
  ASSUME NEW c \in Content, NEW key
  PROVE  /\ Firsts(c, key) \in SUBSET (DOMAIN c.parts)
         /\ \A i \in DOMAIN c.parts : \E j \in Firsts(c, key) : key[j] = key[i]
<1> DEFINE I == Firsts(c, key)
<1>1. DOMAIN c.parts = 1 .. Len(c.parts) /\ Len(c.parts) \in Nat
  BY ContentParts
<1>2. ASSUME NEW i \in DOMAIN c.parts PROVE \E j \in I : key[j] = key[i]
  <2> DEFINE T == {j \in 1 .. Len(c.parts) : key[j] = key[i]}
  <2>1. T \in SUBSET Nat /\ i \in T
    BY <1>1, <1>2
  <2>2. PICK j \in T : \A k \in T : j <= k
    BY <2>1, LeastNat
  <2>3. j \in 1 .. Len(c.parts) /\ key[j] = key[i]
    BY <2>2
  <2>4. \A k \in 1 .. j - 1 : k \in 1 .. Len(c.parts) /\ ~(j <= k)
    BY <1>1, <2>3
  <2>5. \A k \in 1 .. j - 1 : key[k] # key[j]
    BY <2>2, <2>3, <2>4
  <2>6. j \in I
    BY <1>1, <2>3, <2>5 DEF Firsts
  <2> QED BY <2>3, <2>6
<1> QED BY <1>2 DEF Firsts

(* Each of the removed parts has a part with the same texts that remains.  *)
LEMMA SelectingRemains ==
  ASSUME NEW c \in Content, NEW I \in SUBSET (DOMAIN c.parts),
         \A i \in DOMAIN c.parts : \E j \in I :
           {Item[k].says : k \in c.parts[j].of} = {Item[k].says : k \in c.parts[i].of}
  PROVE  Remains(c, Selecting(c, I))
<1>1. WholeItems(Selecting(c, I).content) = At(c, I)
  BY SelectingMakes
<1>2. SUFFICES ASSUME NEW i \in DOMAIN c.parts, NEW x \in c.parts[i].of
               PROVE  Item[x].says \in Said(At(c, I))
  BY <1>1 DEF Remains, Said, WholeItems
<1>3. PICK j \in I : {Item[k].says : k \in c.parts[j].of} = {Item[k].says : k \in c.parts[i].of}
  OBVIOUS
<1>4. PICK y \in c.parts[j].of : Item[y].says = Item[x].says
  <2>1. Item[x].says \in {Item[k].says : k \in c.parts[i].of}
    OBVIOUS
  <2>2. Item[x].says \in {Item[k].says : k \in c.parts[j].of}
    BY <1>3, <2>1, Zenon
  <2> QED BY <2>2
<1>5. y \in At(c, I)
  BY DEF At
<1> QED BY <1>4, <1>5 DEF Said

(* deduplicate_blocks.                                                     *)
LEMMA DeduplicateBlocksMakes ==
  ASSUME NEW c \in Content, NEW made \in DeduplicateBlocks(c)
  PROVE  MakesContent(c, made) /\ Remains(c, made)
<1>1. CASE c.kind # "text"
  BY <1>1, UnchangedMakes DEF DeduplicateBlocks
<1>2. CASE c.kind = "text"
  <2> DEFINE key == [i \in DOMAIN c.parts |-> Says(c.parts[i])]
             I == Firsts(c, key)
  <2>1. DOMAIN c.parts = 1 .. Len(c.parts) /\ Len(c.parts) \in Nat
    BY ContentParts
  <2>2. I = {i \in DOMAIN c.parts : \A j \in 1 .. i - 1 : Says(c.parts[j]) # Says(c.parts[i])}
    <3>1. \A i \in DOMAIN c.parts : \A j \in 1 .. i - 1 :
            key[j] = Says(c.parts[j]) /\ key[i] = Says(c.parts[i])
      BY <2>1
    <3> HIDE DEF key
    <3> QED BY <3>1 DEF Firsts
  <2>3. made = Selecting(c, I)
    BY <1>2, <2>2 DEF DeduplicateBlocks
  <2>4. \A i \in DOMAIN c.parts : key[i] = Says(c.parts[i])
    OBVIOUS
  <2> HIDE DEF key
  <2>5. I \in SUBSET (DOMAIN c.parts) /\ \A i \in DOMAIN c.parts : \E j \in I : key[j] = key[i]
    BY FirstOfEquals
  <2> HIDE DEF I
  <2>6. ASSUME NEW i \in DOMAIN c.parts
        PROVE  \E j \in I :
                 {Item[k].says : k \in c.parts[j].of} = {Item[k].says : k \in c.parts[i].of}
    <3>1. PICK j \in I : Says(c.parts[j]) = Says(c.parts[i])
      BY <2>4, <2>5
    <3>2. /\ Says(c.parts[j]).says = {Item[k].says : k \in c.parts[j].of}
          /\ Says(c.parts[i]).says = {Item[k].says : k \in c.parts[i].of}
      BY DEF Says
    <3> QED BY <3>1, <3>2
  <2> QED BY <2>3, <2>5, <2>6, SelectingMakes, SelectingRemains
<1> QED BY <1>1, <1>2

(* exact_deduplicate.                                                      *)
LEMMA ExactDeduplicateMakes ==
  ASSUME NEW c \in Content, NEW made \in ExactDeduplicate(c)
  PROVE  MakesContent(c, made) /\ Remains(c, made)
<1>1. CASE c.kind # "list"
  BY <1>1, UnchangedMakes DEF ExactDeduplicate
<1>2. CASE c.kind = "list"
  <2> DEFINE key == [i \in DOMAIN c.parts |-> Values(c.parts[i])]
             I == Firsts(c, key)
  <2>1. DOMAIN c.parts = 1 .. Len(c.parts) /\ Len(c.parts) \in Nat
    BY ContentParts
  <2>2. I = {i \in DOMAIN c.parts : \A j \in 1 .. i - 1 : Values(c.parts[j]) # Values(c.parts[i])}
    <3>1. \A i \in DOMAIN c.parts : \A j \in 1 .. i - 1 :
            key[j] = Values(c.parts[j]) /\ key[i] = Values(c.parts[i])
      BY <2>1
    <3> HIDE DEF key
    <3> QED BY <3>1 DEF Firsts
  <2>3. made = Selecting(c, I)
    BY <1>2, <2>2 DEF ExactDeduplicate
  <2>4. \A i \in DOMAIN c.parts : key[i] = Values(c.parts[i])
    OBVIOUS
  <2> HIDE DEF key
  <2>5. I \in SUBSET (DOMAIN c.parts) /\ \A i \in DOMAIN c.parts : \E j \in I : key[j] = key[i]
    BY FirstOfEquals
  <2> HIDE DEF I
  <2>6. ASSUME NEW i \in DOMAIN c.parts
        PROVE  \E j \in I :
                 {Item[k].says : k \in c.parts[j].of} = {Item[k].says : k \in c.parts[i].of}
    <3>1. PICK j \in I : Values(c.parts[j]) = Values(c.parts[i])
      BY <2>4, <2>5
    <3>2. {Item[k] : k \in c.parts[j].of} = {Item[k] : k \in c.parts[i].of}
      BY <3>1 DEF Values
    <3>3. \A k \in c.parts[j].of : \E l \in c.parts[i].of : Item[k] = Item[l]
      BY <3>2
    <3>4. \A k \in c.parts[i].of : \E l \in c.parts[j].of : Item[k] = Item[l]
      BY <3>2
    <3> QED BY <3>3, <3>4
  <2> QED BY <2>3, <2>5, <2>6, SelectingMakes, SelectingRemains
<1> QED BY <1>1, <1>2

(* Positions sorted by a key.                                              *)
LEMMA ByKeySorts ==
  ASSUME NEW c \in Content, NEW S \in SUBSET (DOMAIN c.parts), NEW key \in [DOMAIN c.parts -> Int]
  PROVE  /\ InOrder(S, ByKey(key)) \in Seq(S)
         /\ \A x \in S : \E k \in 1 .. Len(InOrder(S, ByKey(key))) : InOrder(S, ByKey(key))[k] = x
<1>1. DOMAIN c.parts = 1 .. Len(c.parts) /\ IsFiniteSet(S)
  BY ContentParts, Positions
<1> DEFINE D == DOMAIN c.parts
           before == ByKey(key)
<1>2. \A x, y \in D : <<x, y>> \in before <=> key[x] < key[y] \/ (key[x] = key[y] /\ x < y)
  BY DEF ByKey
<1>3. \A x \in D : x \in Int /\ key[x] \in Int
  BY <1>1
<1> HIDE DEF before, D
<1>4. S \in SUBSET D
  BY DEF D
<1>5. Sorts(before, S)
  <2>1. \A x \in S : <<x, x>> \notin before
    BY <1>2, <1>3, <1>4
  <2>2. \A x, y, z \in S : <<x, y>> \in before /\ <<y, z>> \in before => <<x, z>> \in before
    BY <1>2, <1>3, <1>4
  <2>3. \A x, y \in S : x # y => <<x, y>> \in before \/ <<y, x>> \in before
    BY <1>2, <1>3, <1>4
  <2> QED BY <2>1, <2>2, <2>3 DEF Sorts
<1>6. /\ InOrder(S, before) \in Seq(S) /\ Len(InOrder(S, before)) = Cardinality(S)
      /\ \A x \in S : \E k \in 1 .. Cardinality(S) : InOrder(S, before)[k] = x
  BY <1>1, <1>5, InOrderSorted
<1> QED BY <1>6 DEF before

(* similarity_deduplicate: it keeps some of the parts.                     *)
LEMMA SimilarityMakes ==
  ASSUME NEW c \in Content, NEW made \in SimilarityDeduplicate(c)
  PROVE  MakesContent(c, made) /\ Accounts(c, made)
<1>1. CASE c.kind = "object"
  BY <1>1, UnchangedMakes DEF SimilarityDeduplicate
<1>2. CASE c.kind # "object"
  <2> DEFINE D == DOMAIN c.parts
             step == [kept \in SUBSET D |-> [i \in D |->
                       IF \E j \in kept : Similar(c.parts[i], c.parts[j]) THEN kept ELSE kept \cup {i}]]
             order == [i \in D |-> i]
             I == Folded(step, {}, order)
  <2>1. made = Selecting(c, I)
    BY <1>2 DEF SimilarityDeduplicate
  <2>2. order \in Seq(D)
    BY ContentParts
  <2>3. \A kept \in SUBSET D, i \in D : step[kept][i] \in SUBSET D
    OBVIOUS
  <2>4. {} \in SUBSET D
    OBVIOUS
  <2> HIDE DEF step, order, D
  <2>5. I \in SUBSET D
    BY <2>2, <2>3, <2>4, FoldedStays
  <2> HIDE DEF I
  <2>6. I \in SUBSET (DOMAIN c.parts)
    BY <2>5 DEF D
  <2> QED BY <2>1, <2>6, SelectingMakes
<1> QED BY <1>1, <1>2

(* So does a greedy selection, in whatever order.                          *)
LEMMA GreedyMakes ==
  ASSUME NEW c \in Content, NEW target, NEW order \in Seq(DOMAIN c.parts)
  PROVE  LET made == Greedy(c, target, order)
         IN  /\ MakesContent(c, made) /\ Accounts(c, made)
             /\ WholeItems(c) = WholeItems(made.content) \cup made.removed
<1> DEFINE D == DOMAIN c.parts
           take == [kept \in SUBSET D |-> [i \in D |-> Taking(c, target, kept, {i})]]
           I == Folded(take, {}, order)
<1>1. Greedy(c, target, order) = Selecting(c, I)
  BY DEF Greedy
<1>2. \A kept \in SUBSET D, i \in D : take[kept][i] \in SUBSET D
  BY DEF Taking
<1>3. {} \in SUBSET D /\ order \in Seq(D)
  OBVIOUS
<1> HIDE DEF take, D
<1>4. I \in SUBSET D
  BY <1>2, <1>3, FoldedStays
<1> HIDE DEF I
<1>5. I \in SUBSET (DOMAIN c.parts)
  BY <1>4 DEF D
<1>6. /\ MakesContent(c, Selecting(c, I)) /\ Accounts(c, Selecting(c, I))
      /\ WholeItems(Selecting(c, I).content) = At(c, I)
      /\ Selecting(c, I).removed = At(c, DOMAIN c.parts \ I)
  BY <1>5, SelectingMakes
<1>7. WholeItems(c) = At(c, I) \cup At(c, DOMAIN c.parts \ I)
  BY <1>5, WholeOfParts
<1> QED BY <1>1, <1>6, <1>7

(* A part of a list or an object holds an item, whose priority it has.     *)
LEMMA PriorityInt ==
  ASSUME NEW c \in Content, c.kind # "text", NEW i \in DOMAIN c.parts
  PROVE  Priority(c, i) \in Int
<1>1. c.parts[i].of # {} /\ c.parts[i].of \in SUBSET Items
  BY ContentParts
<1>2. (CHOOSE j \in c.parts[i].of : TRUE) \in Items
  BY <1>1
<1> QED BY <1>2, AlgorithmsAssumption DEF Priority

(* priority_select.                                                        *)
LEMMA PrioritySelectMakes ==
  ASSUME NEW c \in Content, NEW target, NEW made \in PrioritySelect(c, target)
  PROVE  MakesContent(c, made) /\ Accounts(c, made)
<1>1. CASE c.kind # "list"
  BY <1>1, UnchangedMakes DEF PrioritySelect
<1>2. CASE c.kind = "list"
  <2> DEFINE key == [i \in DOMAIN c.parts |-> -Priority(c, i)]
             order == InOrder(DOMAIN c.parts, ByKey(key))
  <2>1. made = Greedy(c, target, order)
    BY <1>2 DEF PrioritySelect
  <2>2. \A i \in DOMAIN c.parts : Priority(c, i) \in Int
    BY <1>2, PriorityInt
  <2>3. \A i \in DOMAIN c.parts : -Priority(c, i) \in Int
    BY <2>2
  <2>4. key \in [DOMAIN c.parts -> Int]
    BY <2>3
  <2> HIDE DEF key
  <2>5. order \in Seq(DOMAIN c.parts)
    BY <2>4, ByKeySorts
  <2> HIDE DEF order
  <2> QED BY <2>1, <2>5, GreedyMakes
<1> QED BY <1>1, <1>2

(* The positions, from the last on.                                        *)
LEMMA BackwardsSeq ==
  ASSUME NEW c \in Content
  PROVE  Backwards(c) \in Seq(DOMAIN c.parts)
<1> DEFINE size == Len(c.parts)
<1>1. DOMAIN c.parts = 1 .. size /\ size \in Nat
  BY ContentParts
<1>2. Backwards(c) = [k \in 1 .. size |-> size + 1 - k]
  BY <1>1 DEF Backwards
<1> HIDE DEF size
<1>3. \A k \in 1 .. size : size + 1 - k \in 1 .. size
  BY <1>1
<1>4. Backwards(c) \in [1 .. size -> 1 .. size]
  BY <1>2, <1>3
<1>5. Backwards(c) \in Seq(1 .. size)
  BY <1>1, <1>4
<1> QED BY <1>1, <1>5

(* recency_select: an item it does not report equals one it keeps.         *)
LEMMA RecencySelectMakes ==
  ASSUME NEW c \in Content, NEW target, NEW made \in RecencySelect(c, target)
  PROVE  MakesContent(c, made) /\ Accounts(c, made)
<1>1. CASE c.kind # "list"
  BY <1>1, UnchangedMakes DEF RecencySelect
<1>2. CASE c.kind = "list"
  <2> DEFINE g == Greedy(c, target, Backwards(c))
             kept == {Item[i] : i \in WholeItems(g.content)}
             gone == {i \in g.removed : Item[i] \notin kept}
  <2>1. made = g \/ made = [g EXCEPT !.removed = gone]
    BY <1>2 DEF RecencySelect
  <2>2. /\ MakesContent(c, g) /\ Accounts(c, g)
        /\ WholeItems(c) = WholeItems(g.content) \cup g.removed
    BY BackwardsSeq, GreedyMakes
  <2>3. \E content, rem : g = [content |-> content, removed |-> rem]
    BY DEF Greedy, Selecting, Made
  <2> HIDE DEF g
  <2>4. made.content = g.content /\ (made.removed = g.removed \/ made.removed = gone)
    BY <2>1, <2>3
  <2>5. CASE made.removed = g.removed
    BY <2>2, <2>4, <2>5 DEF MakesContent, Accounts
  <2>6. CASE made.removed = gone
    <3>1. SUFFICES ASSUME NEW i \in WholeItems(c)
                   PROVE  Item[i].says \in Said(WholeItems(made.content)) \cup Said(made.removed)
      BY <2>2, <2>4 DEF MakesContent, Accounts, Said
    <3>2. CASE i \in WholeItems(g.content)
      BY <2>4, <3>2 DEF Said
    <3>3. CASE i \in gone
      BY <2>6, <3>3 DEF Said
    <3>4. CASE i \notin WholeItems(g.content) /\ i \notin gone
      <4>1. Item[i] \in kept
        BY <2>2, <3>4
      <4>2. PICK j \in WholeItems(g.content) : Item[j] = Item[i]
        BY <4>1
      <4> QED BY <2>4, <4>2 DEF Said
    <3> QED BY <3>2, <3>3, <3>4
  <2> QED BY <2>4, <2>5, <2>6
<1> QED BY <1>1, <1>2

(* extractive_sentence_rank.                                               *)
LEMMA SentenceRankMakes ==
  ASSUME NEW c \in Content, NEW target, NEW made \in ExtractiveSentenceRank(c, target)
  PROVE  MakesContent(c, made) /\ Accounts(c, made)
<1>1. CASE c.kind # "text"
  BY <1>1, UnchangedMakes DEF ExtractiveSentenceRank
<1>2. CASE c.kind = "text"
  <2>1. PICK order \in Orders(c) : made = Greedy(c, target, order)
    BY <1>2 DEF ExtractiveSentenceRank
  <2>2. order \in [DOMAIN c.parts -> DOMAIN c.parts] /\ DOMAIN c.parts = 1 .. Len(c.parts)
        /\ Len(c.parts) \in Nat
    BY ContentParts DEF Orders
  <2>3. order \in Seq(DOMAIN c.parts)
    BY <2>2
  <2> QED BY <2>1, <2>3, GreedyMakes
<1> QED BY <1>1, <1>2

(* A group has a first member.                                             *)
LEMMA FirstNat ==
  ASSUME NEW c \in Content, NEW i \in DOMAIN c.parts
  PROVE  GroupOf(c, i) \in SUBSET (DOMAIN c.parts) /\ i \in GroupOf(c, i) /\ First(c, i) \in Int
<1>1. DOMAIN c.parts = 1 .. Len(c.parts) /\ Len(c.parts) \in Nat
  BY ContentParts
<1>2. GroupOf(c, i) \in SUBSET (DOMAIN c.parts) /\ i \in GroupOf(c, i)
  BY DEF GroupOf
<1>3. GroupOf(c, i) \in SUBSET Nat
  BY <1>1, <1>2
<1>4. \E j \in GroupOf(c, i) : \A k \in GroupOf(c, i) : j <= k
  BY <1>2, <1>3, LeastNat
<1>5. First(c, i) \in GroupOf(c, i)
  BY <1>4 DEF First
<1> QED BY <1>2, <1>3, <1>5

(* message_group_select.                                                   *)
LEMMA GroupSelectMakes ==
  ASSUME NEW c \in Content, NEW target, NEW made \in MessageGroupSelect(c, target)
  PROVE  MakesContent(c, made) /\ Accounts(c, made)
<1>1. CASE c.kind # "list" \/ \E i \in WholeItems(c) : ~Item[i].message
  BY <1>1, UnchangedMakes DEF MessageGroupSelect
<1>2. CASE ~(c.kind # "list" \/ \E i \in WholeItems(c) : ~Item[i].message)
  <2> DEFINE D == DOMAIN c.parts
             groups == {GroupOf(c, i) : i \in D}
             equal(g, kept) == \E h \in groups : h \subseteq kept /\ Messages(c, g) = Messages(c, h)
             select ==
               [kept \in SUBSET D |-> [i \in D |->
                  IF i # First(c, i) \/ equal(GroupOf(c, i), kept) THEN kept
                  ELSE Taking(c, target, kept, GroupOf(c, i))]]
             pinned == UNION {g \in groups : IsPinned(c, g)}
             I == Folded(select, pinned, Backwards(c))
             key == [i \in D |-> First(c, i)]
             order == InOrder(I, ByKey(key))
  <2>1. made = Made(Arranged(c, order), At(c, D \ I))
    BY <1>2 DEF MessageGroupSelect
  <2>2. \A i \in D : GroupOf(c, i) \in SUBSET D /\ First(c, i) \in Int
    BY FirstNat
  <2>3. key \in [D -> Int]
    BY <2>2
  <2>4. pinned \in SUBSET D
    BY <2>2
  <2>5. \A kept \in SUBSET D, i \in D : select[kept][i] \in SUBSET D
    BY <2>2 DEF Taking
  <2>6. Backwards(c) \in Seq(D)
    BY BackwardsSeq
  <2> HIDE DEF select, pinned, key, D
  <2>7. I \in SUBSET D
    BY <2>4, <2>5, <2>6, FoldedStays
  <2> HIDE DEF I
  <2>8. I \in SUBSET (DOMAIN c.parts) /\ key \in [DOMAIN c.parts -> Int]
    BY <2>3, <2>7 DEF D
  <2>9. order \in Seq(I) /\ \A x \in I : \E k \in 1 .. Len(order) : order[k] = x
    BY <2>8, ByKeySorts
  <2> HIDE DEF order
  <2>10. /\ Arranged(c, order) \in Content /\ Arranged(c, order).kind = c.kind
         /\ WholeItems(Arranged(c, order)) = At(c, I)
    BY <2>8, <2>9, ArrangedContent
  <2>11. made.content = Arranged(c, order) /\ made.removed = At(c, DOMAIN c.parts \ I)
    BY <2>1 DEF Made, D
  <2>12. WholeItems(c) = WholeItems(made.content) \cup made.removed
    BY <2>8, <2>10, <2>11, WholeOfParts
  <2>13. Accounts(c, made)
    BY <2>12 DEF Accounts, Said
  <2> QED BY <2>10, <2>11, <2>13 DEF MakesContent
<1> QED BY <1>1, <1>2

(* field_prune.                                                            *)
LEMMA FieldPruneMakes ==
  ASSUME NEW c \in Content, NEW target, NEW made \in FieldPrune(c, target)
  PROVE  MakesContent(c, made) /\ Accounts(c, made)
<1>1. CASE c.kind # "object"
  BY <1>1, UnchangedMakes DEF FieldPrune
<1>2. CASE c.kind = "object"
  <2> DEFINE D == DOMAIN c.parts
             candidates == {i \in D : c.parts[i].of \cap Protected = {}}
             prune ==
               [kept \in SUBSET D |-> [i \in D |->
                  IF ContentCount(Keeping(c, kept)) > target THEN kept \ {i} ELSE kept]]
             key == [i \in D |-> Priority(c, i)]
             order == InOrder(candidates, ByKey(key))
             I == Folded(prune, D, order)
  <2>1. made = Selecting(c, I)
    BY <1>2 DEF FieldPrune
  <2>2. \A i \in D : Priority(c, i) \in Int
    BY <1>2, PriorityInt
  <2>3. key \in [DOMAIN c.parts -> Int] /\ candidates \in SUBSET (DOMAIN c.parts)
    BY <2>2
  <2>4. \A kept \in SUBSET D, i \in D : prune[kept][i] \in SUBSET D
    OBVIOUS
  <2> HIDE DEF prune, key, candidates
  <2>5. order \in Seq(candidates)
    BY <2>3, ByKeySorts
  <2> HIDE DEF order
  <2>6. order \in Seq(D)
    BY <2>3, <2>5, InSeqOfMore
  <2>7. D \in SUBSET D
    OBVIOUS
  <2> HIDE DEF D
  <2>8. I \in SUBSET D
    BY <2>4, <2>6, <2>7, FoldedStays
  <2> HIDE DEF I
  <2>9. I \in SUBSET (DOMAIN c.parts)
    BY <2>8 DEF D
  <2> QED BY <2>1, <2>9, SelectingMakes
<1> QED BY <1>1, <1>2

(* The items of a content are items.                                       *)
LEMMA WholeOfItems ==
  ASSUME NEW c \in Content
  PROVE  WholeItems(c) \in SUBSET Items
<1>1. \A i \in DOMAIN c.parts : c.parts[i].of \in SUBSET Items
  BY ContentParts
<1> QED BY <1>1 DEF WholeItems

(* A text of one part.                                                     *)
LEMMA TextOfPart ==
  ASSUME NEW of \in SUBSET Items, NEW size \in Nat, NEW wide \in Nat \ {0}, NEW parts,
         parts = <<Part(of, size)>> \/ parts = <<>>,
         NEW d, d = [kind |-> "text", wide |-> wide, padded |-> FALSE, parts |-> parts]
  PROVE  /\ d \in Content /\ d.kind = "text" /\ d.wide = wide
         /\ parts = <<Part(of, size)>> => WholeItems(d) = of
<1>1. Part(of, size) \in Parts
  BY DEF Part, Parts
<1>2. parts \in Seq(Parts)
  <2> DEFINE part == Part(of, size)
  <2>1. part \in Parts
    BY <1>1
  <2> HIDE DEF part
  <2>2. <<part>> \in Seq(Parts) /\ <<>> \in Seq(Parts)
    BY <2>1
  <2> QED BY <2>2 DEF part
<1>3. d \in Contents
  BY <1>2 DEF Contents
<1>4. d \in Content /\ d.kind = "text" /\ d.wide = wide /\ d.parts = parts
  BY <1>3 DEF Content, Contents, Parts
<1>5. ASSUME parts = <<Part(of, size)>> PROVE WholeItems(d) = of
  <2>1. DOMAIN parts = {1} /\ parts[1] = Part(of, size)
    BY <1>5
  <2>2. Part(of, size).of = of
    BY DEF Part
  <2> QED BY <1>4, <2>1, <2>2 DEF WholeItems
<1> QED BY <1>4, <1>5

(* A JSON text is a text.                                                  *)
LEMMA JsonTextContent ==
  ASSUME NEW c \in Content, NEW of \in SUBSET WholeItems(c), NEW size \in Nat
  PROVE  /\ JsonText(c, of, size) \in Content /\ JsonText(c, of, size).kind = "text"
         /\ WholeItems(JsonText(c, of, size)) = of
<1> DEFINE parts == <<Part(of, size)>>
           d == [kind |-> "text", wide |-> c.wide, padded |-> FALSE, parts |-> parts]
<1>1. of \in SUBSET Items /\ c.wide \in Nat \ {0}
  BY WholeOfItems, ContentParts
<1>2. d \in Content /\ d.kind = "text" /\ WholeItems(d) = of
  BY <1>1, TextOfPart
<1> QED BY <1>2 DEF JsonText

(* What minify may drop is an item that is overridden.                     *)
AllButOverridden(c, made) ==
  Said(WholeItems(c)) \subseteq Said(WholeItems(made.content)) \cup Said(Overridden)

(* structured_minify: the items that are not overridden are in the JSON.   *)
LEMMA MinifyMakes ==
  ASSUME NEW c \in Content, NEW made \in StructuredMinify(c), made # RaisesError
  PROVE  MakesContent(c, made) /\ AllButOverridden(c, made)
<1>1. Length(c) \in Nat
  BY LengthNat
<1>2. CASE made \in Unchanged(c)
  BY <1>2, UnchangedMakes DEF AllButOverridden, Remains
<1>3. ASSUME NEW size \in Nat, made = Made(JsonText(c, Effective(c), size), {})
      PROVE  MakesContent(c, made) /\ AllButOverridden(c, made)
  <2>1. Effective(c) \in SUBSET WholeItems(c)
    BY DEF Effective
  <2>2. made.content = JsonText(c, Effective(c), size)
    BY <1>3 DEF Made
  <2>3. /\ made.content \in Content /\ made.content.kind = "text"
        /\ WholeItems(made.content) = Effective(c)
    BY <2>1, <2>2, JsonTextContent
  <2>4. \A i \in WholeItems(c) : i \in Effective(c) \/ i \in Overridden
    BY WholeOfItems DEF Effective, Overridden
  <2>5. AllButOverridden(c, made)
    BY <2>3, <2>4 DEF AllButOverridden, Said
  <2> QED BY <2>3, <2>5 DEF MakesContent
<1>4. CASE made = Made(JsonText(c, WholeItems(c), Length(c)), {})
  <2>1. made.content = JsonText(c, WholeItems(c), Length(c))
    BY <1>4 DEF Made
  <2>2. /\ made.content \in Content /\ made.content.kind = "text"
        /\ WholeItems(made.content) = WholeItems(c)
    BY <1>1, <2>1, JsonTextContent
  <2> QED BY <2>2 DEF MakesContent, AllButOverridden
<1>5. \/ made \in Unchanged(c)
      \/ \E size \in 1 .. Length(c) : made = Made(JsonText(c, Effective(c), size), {})
      \/ made = Made(JsonText(c, WholeItems(c), Length(c)), {})
  BY DEF StructuredMinify
<1>6. \A size \in 1 .. Length(c) : size \in Nat
  BY <1>1
<1> QED BY <1>2, <1>3, <1>4, <1>5, <1>6

(* A replacement is a text.                                                *)
LEMMA ReplacementContent ==
  ASSUME NEW c \in Content, NEW of \in SUBSET Items, NEW size \in Nat
  PROVE  Replacement(c, of, size) \in Content /\ Replacement(c, of, size).kind = "text"
<1> DEFINE parts == IF size = 0 THEN <<>> ELSE <<Part(of, size)>>
           d == [kind |-> "text", wide |-> c.wide, padded |-> FALSE, parts |-> parts]
<1>1. c.wide \in Nat \ {0} /\ (parts = <<Part(of, size)>> \/ parts = <<>>)
  BY ContentParts
<1>2. d \in Content /\ d.kind = "text"
  BY <1>1, TextOfPart
<1> QED BY <1>2 DEF Replacement

(* What replaces everything reports everything.                            *)
LEMMA ReplacingMakes ==
  ASSUME NEW c \in Content, NEW d \in Content, d.kind = "text", NEW made,
         made = Made(d, WholeItems(c))
  PROVE  MakesContent(c, made) /\ Accounts(c, made)
BY DEF Made, MakesContent, Accounts

(* What a provider answers is a text, and so is its head.                  *)
LEMMA SummariesText ==
  ASSUME NEW c \in Content, NEW target \in Int, NEW s \in Summaries(c, target)
  PROVE  s \in Content /\ s.kind = "text"
<1> DEFINE answers == {Replacement(c, of, size) : of \in {{}, WholeItems(c)}, size \in SummarySizes}
<1>1. \A of \in {{}, WholeItems(c)} : of \in SUBSET Items
  BY WholeOfItems
<1>2. \A size \in SummarySizes : size \in Nat
  BY AlgorithmsAssumption
<1>3. \A a \in answers : a \in Content /\ a.kind = "text"
  BY <1>1, <1>2, ReplacementContent
<1>4. (\E a \in answers : s \in TruncateHead(a, target)) \/ s \in answers
  BY DEF Summaries
<1> HIDE DEF answers
<1>5. ASSUME NEW a \in answers, s \in TruncateHead(a, target) PROVE s \in Content /\ s.kind = "text"
  <2>1. Met(a, s, target)
    BY <1>3, <1>5, TruncateHeadMeets
  <2> QED BY <2>1 DEF Met
<1> QED BY <1>3, <1>4, <1>5

-----------------------------------------------------------------------------

BoundaryIds == {"boundary_truncate", "boundary_truncate_tail", "boundary_truncate_other"}

(* What is known of a result of a built-in algorithm.                      *)
BuiltinMade(a, c, target, made) ==
  /\ MakesContent(c, made)
  /\ \/ Accounts(c, made)
     \/ a = "boundary_truncate_tail" /\ made.content.kind = "text" /\ Length(made.content) = 0
     \/ a = "boundary_truncate_other"
     \/ a = "minify" /\ AllButOverridden(c, made)
  /\ a \in LosslessIds => Remains(c, made) \/ (a = "minify" /\ AllButOverridden(c, made))
  /\ a \in BoundaryIds /\ made.content.kind = "text" /\ target >= 0 =>
       \/ ContentCount(made.content) <= target
       \/ a = "boundary_truncate_tail" /\ target \in 1 .. c.wide - 1 /\ made.content.wide = c.wide

(* boundary_truncate of the head.                                          *)
LEMMA HeadMakes ==
  ASSUME NEW c \in Content, NEW target \in Int, NEW made \in BoundaryTruncateHead(c, target)
  PROVE  BuiltinMade("boundary_truncate", c, target, made)
<1>1. "boundary_truncate" \notin LosslessIds
  BY DEF LosslessIds
<1>2. CASE c.kind # "text"
  <2>1. made.content = c /\ MakesContent(c, made) /\ Accounts(c, made)
    BY <1>2, UnchangedMakes DEF BoundaryTruncateHead
  <2> QED BY <1>1, <1>2, <2>1 DEF BuiltinMade
<1>3. CASE c.kind = "text"
  <2>1. PICK cut \in TruncateHead(c, target) : made = Made(cut, WholeItems(c) \ WholeItems(cut))
    BY <1>3 DEF BoundaryTruncateHead
  <2>2. Met(c, cut, target)
    BY <1>3, TruncateHeadMeets
  <2>3. made.content = cut /\ made.removed = WholeItems(c) \ WholeItems(cut)
    BY <2>1 DEF Made
  <2>4. Accounts(c, made)
    BY <2>3 DEF Accounts, Said
  <2> QED BY <1>1, <2>2, <2>3, <2>4 DEF BuiltinMade, MakesContent, Met
<1> QED BY <1>2, <1>3

(* boundary_truncate of the tail.                                          *)
LEMMA TailMakes ==
  ASSUME NEW c \in Content, NEW target \in Int, NEW made \in BoundaryTruncateTail(c, target)
  PROVE  BuiltinMade("boundary_truncate_tail", c, target, made)
<1>1. "boundary_truncate_tail" \notin LosslessIds
  BY DEF LosslessIds
<1>2. CASE c.kind # "text"
  <2>1. made.content = c /\ MakesContent(c, made) /\ Accounts(c, made)
    BY <1>2, UnchangedMakes DEF BoundaryTruncateTail
  <2> QED BY <1>1, <1>2, <2>1 DEF BuiltinMade
<1>3. CASE c.kind = "text"
  <2>1. PICK cut \in TruncateTail(c, target) : made = Made(cut, CutOff(c, cut))
    BY <1>3 DEF BoundaryTruncateTail
  <2>2. /\ cut \in Content /\ cut.kind = "text" /\ cut.wide = c.wide
        /\ target \notin 1 .. c.wide - 1 => Met(c, cut, target)
    BY <1>3, TruncateTailMeets
  <2>3. made.content = cut /\ made.removed = CutOff(c, cut)
    BY <2>1 DEF Made
  <2>4. Length(cut) = 0 \/ Accounts(c, made)
    BY <2>3 DEF Accounts, Said, CutOff
  <2>5. MakesContent(c, made)
    BY <2>2, <2>3 DEF MakesContent
  <2>6. target >= 0 => ContentCount(cut) <= target \/ target \in 1 .. c.wide - 1
    BY <2>2 DEF Met
  <2> QED BY <1>1, <2>2, <2>3, <2>4, <2>5, <2>6 DEF BuiltinMade
<1> QED BY <1>2, <1>3

(* boundary_truncate with any other keep cuts as the head does.            *)
LEMMA OtherMakes ==
  ASSUME NEW c \in Content, NEW target \in Int, NEW made \in BoundaryTruncateOther(c, target)
  PROVE  BuiltinMade("boundary_truncate_other", c, target, made)
<1>1. "boundary_truncate_other" \notin LosslessIds
  BY DEF LosslessIds
<1>2. CASE c.kind # "text"
  <2>1. made.content = c /\ MakesContent(c, made)
    BY <1>2, UnchangedMakes DEF BoundaryTruncateOther
  <2> QED BY <1>1, <1>2, <2>1 DEF BuiltinMade
<1>3. CASE c.kind = "text"
  <2>1. PICK cut \in TruncateHead(c, target) : made.content = cut
    BY <1>3 DEF BoundaryTruncateOther, Made
  <2>2. Met(c, cut, target)
    BY <1>3, TruncateHeadMeets
  <2> QED BY <1>1, <2>1, <2>2 DEF BuiltinMade, MakesContent, Met
<1> QED BY <1>2, <1>3

(* Whatever a built-in algorithm makes of a content.                       *)
LEMMA BuiltinMakes ==
  ASSUME NEW a \in BuiltinIds, NEW c \in Content, NEW r, r.target \in Int,
         NEW made \in BuiltinAttempts(a, c, r), made # RaisesError
  PROVE  BuiltinMade(a, c, r.target, made)
<1> DEFINE target == r.target
<1>1. SUFFICES ASSUME a \notin BoundaryIds \cup {"minify"}
               PROVE  MakesContent(c, made) /\ Accounts(c, made) /\ (a \in LosslessIds => Remains(c, made))
  <2>1. CASE a = "boundary_truncate"
    <3>1. made \in BoundaryTruncateHead(c, target)
      BY <2>1 DEF BuiltinAttempts
    <3> QED BY <2>1, <3>1, HeadMakes
  <2>2. CASE a = "boundary_truncate_tail"
    <3>1. made \in BoundaryTruncateTail(c, target)
      BY <2>2 DEF BuiltinAttempts
    <3> QED BY <2>2, <3>1, TailMakes
  <2>3. CASE a = "boundary_truncate_other"
    <3>1. made \in BoundaryTruncateOther(c, target)
      BY <2>3 DEF BuiltinAttempts
    <3> QED BY <2>3, <3>1, OtherMakes
  <2>4. CASE a = "minify"
    <3>1. made \in StructuredMinify(c)
      BY <2>4 DEF BuiltinAttempts
    <3>2. MakesContent(c, made) /\ AllButOverridden(c, made)
      BY <3>1, MinifyMakes
    <3> QED BY <2>4, <3>2 DEF BuiltinMade, BoundaryIds
  <2> QED BY <1>1, <2>1, <2>2, <2>3, <2>4 DEF BuiltinMade, BoundaryIds
<1>2. CASE a \in LosslessIds
  <2>1. CASE a = "normalize_whitespace"
    <3>1. made \in NormalizeWhitespace(c)
      BY <2>1 DEF BuiltinAttempts
    <3> QED BY <3>1, NormalizeMakes, RemainsAccounts
  <2>2. CASE a = "deduplicate_blocks"
    <3>1. made \in DeduplicateBlocks(c)
      BY <2>2 DEF BuiltinAttempts
    <3> QED BY <3>1, DeduplicateBlocksMakes, RemainsAccounts
  <2>3. CASE a = "exact_deduplicate"
    <3>1. made \in ExactDeduplicate(c)
      BY <2>3 DEF BuiltinAttempts
    <3> QED BY <3>1, ExactDeduplicateMakes, RemainsAccounts
  <2> QED BY <1>1, <1>2, <2>1, <2>2, <2>3 DEF LosslessIds
<1>3. CASE a \notin LosslessIds
  <2>1. CASE a = "similarity_deduplicate"
    <3>1. made \in SimilarityDeduplicate(c)
      BY <2>1 DEF BuiltinAttempts
    <3> QED BY <1>3, <3>1, SimilarityMakes
  <2>2. CASE a = "priority_select"
    <3>1. made \in PrioritySelect(c, target)
      BY <2>2 DEF BuiltinAttempts
    <3> QED BY <1>3, <3>1, PrioritySelectMakes
  <2>3. CASE a = "recency_select"
    <3>1. made \in RecencySelect(c, target)
      BY <2>3 DEF BuiltinAttempts
    <3> QED BY <1>3, <3>1, RecencySelectMakes
  <2>4. CASE a = "extractive_sentence_rank"
    <3>1. made \in ExtractiveSentenceRank(c, target)
      BY <2>4 DEF BuiltinAttempts
    <3> QED BY <1>3, <3>1, SentenceRankMakes
  <2>5. CASE a = "field_prune"
    <3>1. made \in FieldPrune(c, target)
      BY <2>5 DEF BuiltinAttempts
    <3> QED BY <1>3, <3>1, FieldPruneMakes
  <2>6. CASE a = "group_select"
    <3>1. made \in MessageGroupSelect(c, target)
      BY <2>6 DEF BuiltinAttempts
    <3> QED BY <1>3, <3>1, GroupSelectMakes
  <2>7. CASE a = "externalize"
    <3>1. made = Made(Replacement(c, {}, ReferenceSize), WholeItems(c))
      BY <2>7 DEF BuiltinAttempts, ReferenceExternalize
    <3>2. {} \in SUBSET Items /\ ReferenceSize \in Nat
      BY AlgorithmsAssumption
    <3>3. Replacement(c, {}, ReferenceSize) \in Content /\ Replacement(c, {}, ReferenceSize).kind = "text"
      BY <3>2, ReplacementContent
    <3> QED BY <1>3, <3>1, <3>3, ReplacingMakes
  <2>8. CASE a \in {"summary", "portfolio"}
    <3>1. made \in SemanticSummary(c, target) \cup SemanticPortfolio(c, target, r.terms)
      BY <2>8 DEF BuiltinAttempts
    <3>2. PICK s \in Summaries(c, target) : made = Made(s, WholeItems(c))
      BY <3>1 DEF SemanticSummary, SemanticPortfolio
    <3>3. s \in Content /\ s.kind = "text"
      BY SummariesText
    <3> QED BY <1>3, <3>2, <3>3, ReplacingMakes
  <2> QED BY <1>1, <1>3, <2>1, <2>2, <2>3, <2>4, <2>5, <2>6, <2>7, <2>8
           DEF BuiltinIds, LosslessIds, BoundaryIds
<1> QED BY <1>2, <1>3

(* The two properties need no more than the types; that what is removed is *)
(* accounted for even after an empty tail is TailEmptied, which stays true *)
(* since no content gets longer and a text remains a text.                 *)
HostInv ==
  /\ Types /\ current \in Content /\ lossy \in BOOLEAN
  /\ NothingLostSilently /\ BoundaryMeetsTarget

(* It holds of a pipeline that has not begun.                              *)
LEMMA HostInitInv == PipelineInit => HostInv
<1> SUFFICES ASSUME PipelineInit PROVE HostInv
  OBVIOUS
<1>1. Types /\ current = request.content /\ lossy = FALSE /\ traces = <<>>
  BY DEF PipelineInit, Types
<1>2. current \in Content
  BY <1>1, HostAssumption DEF Types
<1>3. NothingLostSilently
  BY <1>1 DEF NothingLostSilently
<1>4. BoundaryMeetsTarget
  BY <1>1 DEF BoundaryMeetsTarget
<1> QED BY <1>1, <1>2, <1>3, <1>4 DEF HostInv

(* Whoever leaves the content and what was removed as they are leaves the  *)
(* first property as it is, too.                                           *)
LEMMA ExceptionsStay ==
  ASSUME NothingLostSilently, \A A : Applied(A) => Applied(A)',
         UNCHANGED <<request, current, removed>>, lossy' \in BOOLEAN, lossy => lossy'
  PROVE  NothingLostSilently'
<1>1. Dropped \subseteq Dropped'
  BY DEF Dropped
<1>2. TailEmptied => TailEmptied'
  BY DEF TailEmptied
<1>3. /\ Applied(Custom) => Applied(Custom)'
      /\ Applied({"boundary_truncate_other"}) => Applied({"boundary_truncate_other"})'
  OBVIOUS
<1> QED BY <1>1, <1>2, <1>3 DEF NothingLostSilently

(* A step that only traces.                                                *)
LEMMA TracingKeeps ==
  ASSUME AlgorithmsRegistered, HostInv, NEW a \in Registered, NEW status \in Statuses,
         Trace(a, status), a \notin BoundaryIds, UNCHANGED <<request, current, removed, lossy>>
  PROVE  HostInv'
<1>1. /\ Types' /\ traces'[Len(traces')].algorithm = a
      /\ \A A : Applied(A) => Applied(A)'
  BY Traced DEF HostInv, Types
<1>2. NothingLostSilently'
  BY <1>1, ExceptionsStay DEF HostInv
<1>3. BoundaryMeetsTarget'
  BY <1>1 DEF BoundaryMeetsTarget, BoundaryIds
<1> QED BY <1>1, <1>2, <1>3 DEF HostInv

(* A result that is used.                                                  *)
LEMMA UsedKeeps ==
  ASSUME AlgorithmsRegistered, HostInv, NEW a \in BuiltinIds, NEW status \in Statuses,
         Trace(a, status), NEW made, BuiltinMade(a, current, request.target, made),
         current' = made.content, removed' = removed \cup made.removed,
         lossy' = (lossy \/ a \notin LosslessIds), UNCHANGED request,
         ContentCount(current') <= ContentCount(current)
  PROVE  HostInv'
<1>1. a \in Registered /\ a \notin Custom
  BY PipelineAssumption DEF AlgorithmsRegistered, Registered
<1>2. /\ Types' /\ traces'[Len(traces')].algorithm = a
      /\ \A A : Applied(A) => Applied(A)'
      /\ Applied({a})'
  BY <1>1, Traced DEF HostInv, Types
<1>3. /\ current \in Content /\ current' \in Content
      /\ current.kind = "text" => current'.kind = "text"
  BY DEF HostInv, BuiltinMade, MakesContent
<1>4. lossy' \in BOOLEAN /\ (~lossy' => ~lossy /\ a \in LosslessIds)
  BY DEF HostInv
<1>5. TailEmptied => TailEmptied'
  <2>1. SUFFICES ASSUME TailEmptied PROVE TailEmptied'
    OBVIOUS
  <2>2. Length(current) = 0 /\ current.kind = "text" /\ Applied({"boundary_truncate_tail"})'
    BY <1>2, <2>1 DEF TailEmptied
  <2> DEFINE l == Length(current')
             w == current'.wide
  <2>3. l \in Nat /\ w \in Nat \ {0} /\ ContentCount(current') = w * l
    BY <1>3, LengthNat, ContentParts
  <2>4. ContentCount(current) = 0
    <3>1. ContentCount(current) = current.wide * Length(current) /\ current.wide \in Nat
      BY <1>3, LengthNat, ContentParts
    <3> QED BY <2>2, <3>1
  <2> HIDE DEF l, w
  <2>5. w * l <= 0
    BY <2>3, <2>4
  <2>6. l = 0
    BY <2>3, <2>5
  <2> QED BY <1>3, <2>2, <2>6 DEF TailEmptied, l
<1>6. NothingLostSilently'
  <2> DEFINE original == Said(WholeItems(request.content))
             kept == Said(WholeItems(current))
  <2>1. SUFFICES ASSUME ~Applied(Custom)'
                 PROVE  /\ \/ original \subseteq Said(WholeItems(current')) \cup Said(removed') \cup Dropped'
                           \/ TailEmptied' \/ Applied({"boundary_truncate_other"})'
                        /\ ~lossy' => original \subseteq Said(WholeItems(current')) \cup Dropped'
    BY DEF NothingLostSilently
  <2>2. /\ \/ original \subseteq kept \cup Said(removed) \cup Dropped
           \/ TailEmptied \/ Applied({"boundary_truncate_other"})
        /\ ~lossy => original \subseteq kept \cup Dropped
    BY <1>2, <2>1 DEF HostInv, NothingLostSilently
  <2>3. Said(removed') = Said(removed) \cup Said(made.removed)
    BY DEF Said
  <2>4. Dropped \subseteq Dropped' /\ (a = "minify" => Dropped' = Said(Overridden))
    BY <1>2 DEF Dropped
  <2>5. a = "minify" /\ AllButOverridden(current, made) =>
          kept \subseteq Said(WholeItems(current')) \cup Dropped'
    BY <2>4 DEF AllButOverridden
  <2>6. a \in LosslessIds => kept \subseteq Said(WholeItems(current')) \cup Dropped'
    BY <2>5 DEF BuiltinMade, Remains
  <2>7. Applied({"boundary_truncate_other"}) => Applied({"boundary_truncate_other"})'
    BY <1>2
  <2>8. \/ kept \subseteq Said(WholeItems(current')) \cup Said(made.removed) \cup Dropped'
        \/ TailEmptied' \/ Applied({"boundary_truncate_other"})'
    <3>1. CASE Accounts(current, made)
      BY <3>1 DEF Accounts
    <3>2. CASE a = "boundary_truncate_tail" /\ made.content.kind = "text" /\ Length(made.content) = 0
      BY <1>2, <3>2 DEF TailEmptied
    <3>3. CASE a = "boundary_truncate_other"
      BY <1>2, <3>3
    <3>4. CASE a = "minify" /\ AllButOverridden(current, made)
      BY <2>5, <3>4
    <3> QED BY <3>1, <3>2, <3>3, <3>4 DEF BuiltinMade
  <2> HIDE DEF original, kept
  <2> QED BY <1>4, <1>5, <2>2, <2>3, <2>4, <2>6, <2>7, <2>8
<1>7. BoundaryMeetsTarget'
  <2>1. SUFFICES ASSUME a \in BoundaryIds, current'.kind = "text", request.target >= 0
                 PROVE  \/ a = "boundary_truncate_tail" /\ request.target \in 1 .. current'.wide - 1
                        \/ Count(current') <= request.target
    BY <1>2 DEF BoundaryMeetsTarget, BoundaryIds
  <2>2. Count(current') = ContentCount(current')
    BY <1>3 DEF AlgorithmsRegistered
  <2> QED BY <2>1, <2>2 DEF BuiltinMade
<1> QED BY <1>2, <1>3, <1>4, <1>6, <1>7 DEF HostInv

(* A result that is not used leaves the content: no cut does that, if no   *)
(* term is required.                                                       *)
LEMMA UnusedKeeps ==
  ASSUME AlgorithmsRegistered, HostInv, NEW a \in BuiltinIds, NEW status \in Statuses,
         Trace(a, status), NEW made, BuiltinMade(a, current, request.target, made),
         AtStep(a), ~Usable(made),
         current' = current, removed' = removed, UNCHANGED request,
         lossy' = (lossy \/ a \notin LosslessIds)
  PROVE  HostInv'
<1>1. a \in Registered
  BY DEF AlgorithmsRegistered, Registered
<1>2. /\ Types' /\ traces'[Len(traces')].algorithm = a
      /\ \A A : Applied(A) => Applied(A)'
  BY <1>1, Traced DEF HostInv, Types
<1>3. lossy' \in BOOLEAN /\ (lossy => lossy')
  BY DEF HostInv
<1>4. NothingLostSilently'
  BY <1>2, <1>3, ExceptionsStay DEF HostInv
<1>5. BoundaryMeetsTarget'
  <2>1. SUFFICES ASSUME a \in BoundaryIds, current.kind = "text", request.terms = {},
                        request.target >= 0
                 PROVE  a = "boundary_truncate_tail" /\ request.target \in 1 .. current.wide - 1
    BY <1>2 DEF BoundaryMeetsTarget, BoundaryIds
  <2>2. /\ current \in Content /\ made.content \in Content /\ made.content.kind = "text"
        /\ request.target \in Int
    BY <2>1, HostAssumption DEF HostInv, BuiltinMade, MakesContent, Types
  <2>3. /\ Count(made.content) = ContentCount(made.content) /\ Count(current) = ContentCount(current)
        /\ HasTerms(made.content, request.terms) <=> ContentHasTerms(made.content, request.terms)
    BY <2>2 DEF AlgorithmsRegistered
  <2>4. HasTerms(made.content, request.terms)
    BY <2>1, <2>3 DEF ContentHasTerms
  <2>5. ContentCount(made.content) \in Nat /\ ContentCount(current) \in Nat
    BY <2>2, LengthNat
  <2>6. ~(ContentCount(made.content) <= ContentCount(current))
    BY <2>3, <2>4 DEF Usable
  <2>7. ~(ContentCount(current) <= request.target)
    BY <2>3 DEF AtStep, TargetMet
  <2>8. ~(ContentCount(made.content) <= request.target)
    BY <2>2, <2>5, <2>6, <2>7
  <2> QED BY <2>1, <2>2, <2>8 DEF BuiltinMade
<1> QED BY <1>2, <1>3, <1>4, <1>5 DEF HostInv

(* Every step preserves it.                                                *)
LEMMA HostStep ==
  AlgorithmsRegistered /\ HostInv /\ [PipelineNext]_pipelineVars => HostInv'
<1> SUFFICES ASSUME AlgorithmsRegistered, HostInv, [PipelineNext]_pipelineVars PROVE HostInv'
  OBVIOUS
<1>1. /\ Builtin = BuiltinIds /\ Lossless = LosslessIds /\ Raises = RaisesError
      /\ Builtin \cap Custom = {} /\ Registered = Builtin \cup Custom
  BY PipelineAssumption DEF AlgorithmsRegistered, Registered
<1>2. BoundaryIds \subseteq BuiltinIds
  BY DEF BoundaryIds, BuiltinIds
<1>3. request \in Requests /\ current \in Content /\ request.target \in Int
  BY HostAssumption DEF HostInv, Types
<1>4. ASSUME UNCHANGED <<request, current, removed, lossy, traces>> PROVE HostInv'
  BY <1>4 DEF HostInv, Types, NothingLostSilently, BoundaryMeetsTarget, TailEmptied, Dropped, Applied
<1>5. CASE UNCHANGED pipelineVars
  BY <1>4, <1>5 DEF pipelineVars
<1>6. CASE Return
  BY <1>4, <1>6 DEF Return
<1>7. ASSUME NEW a \in Registered \cup Unknown, Step(a) PROVE HostInv'
  <2>1. AtStep(a)
    BY <1>7 DEF Step
  <2>2. CASE UnknownAlgorithm(a)
    BY <1>4, <2>2 DEF UnknownAlgorithm
  <2>3. ASSUME a \in Registered, NEW made \in Attempts(a, current, request), StepFails(a, made)
        PROVE  HostInv'
    <3>1. made = Raises /\ UNCHANGED <<request, current, removed, lossy>>
      BY <2>3 DEF StepFails
    <3>2. CASE UNCHANGED traces
      BY <1>4, <3>1, <3>2
    <3>3. CASE Trace(a, "failed")
      <4>1. a \notin BoundaryIds
        <5>1. SUFFICES ASSUME a \in BoundaryIds PROVE FALSE
          OBVIOUS
        <5>2. /\ made \in BuiltinAttempts(a, current, request)
              /\ \A content, gone : Made(content, gone) # made
          BY <1>1, <1>2, <1>3, <2>3, <3>1, <5>1 DEF AlgorithmsRegistered
        <5>3. \E content, gone : made = Made(content, gone)
          <6>1. CASE a = "boundary_truncate"
            BY <5>2, <6>1 DEF BuiltinAttempts, BoundaryTruncateHead, Unchanged
          <6>2. CASE a = "boundary_truncate_tail"
            BY <5>2, <6>2 DEF BuiltinAttempts, BoundaryTruncateTail, Unchanged
          <6>3. CASE a = "boundary_truncate_other"
            BY <5>2, <6>3 DEF BuiltinAttempts, BoundaryTruncateOther, Unchanged
          <6> QED BY <5>1, <6>1, <6>2, <6>3 DEF BoundaryIds
        <5> QED BY <5>2, <5>3
      <4>2. "failed" \in Statuses
        BY DEF Statuses
      <4> QED BY <2>3, <3>1, <3>3, <4>1, <4>2, TracingKeeps
    <3> QED BY <2>3, <3>2, <3>3 DEF StepFails
  <2>4. ASSUME a \in Custom, NEW made, StepRejected(a, made) PROVE HostInv'
    <3>1. UNCHANGED <<request, current, removed, lossy>> /\ Trace(a, "non_monotonic_rejected")
      BY <2>4 DEF StepRejected
    <3>2. "non_monotonic_rejected" \in Statuses /\ a \in Registered /\ a \notin BoundaryIds
      BY <1>1, <1>2, <2>4 DEF Statuses
    <3> QED BY <3>1, <3>2, TracingKeeps
  <2>5. ASSUME a \in Builtin, NEW made \in Attempts(a, current, request), StepApplies(a, made)
        PROVE  HostInv'
    <3>1. /\ made # RaisesError /\ made \in BuiltinAttempts(a, current, request) /\ a \in BuiltinIds
      BY <1>1, <1>3, <2>5 DEF StepApplies, AlgorithmsRegistered
    <3>2. BuiltinMade(a, current, request.target, made)
      BY <1>3, <3>1, BuiltinMakes
    <3>3. /\ current' = Result(a, made).content /\ removed' = removed \cup Result(a, made).removed
          /\ lossy' = (lossy \/ Result(a, made).lossy) /\ UNCHANGED request
          /\ Trace(a, Status(made)) /\ Status(made) \in Statuses
      BY <2>5 DEF StepApplies, Status, Statuses
    <3>6. lossy' = (lossy \/ a \notin LosslessIds)
      BY <1>1, <3>3 DEF Result
    <3>4. CASE Usable(made)
      <4>1. current' = made.content /\ removed' = removed \cup made.removed
        BY <3>3, <3>4 DEF Result
      <4>2. made.content \in Content /\ Count(made.content) <= Count(current)
        BY <3>2, <3>4 DEF Usable, BuiltinMade, MakesContent
      <4>3. ContentCount(current') <= ContentCount(current)
        BY <1>3, <4>1, <4>2 DEF AlgorithmsRegistered
      <4> QED BY <3>1, <3>2, <3>3, <3>6, <4>1, <4>3, UsedKeeps
    <3>5. CASE ~Usable(made)
      <4>1. current' = current /\ removed' = removed
        BY <3>3, <3>5 DEF Result
      <4> QED BY <2>1, <3>1, <3>2, <3>3, <3>5, <3>6, <4>1, UnusedKeeps
    <3> QED BY <3>4, <3>5
  <2>6. ASSUME a \in Custom, NEW made \in Attempts(a, current, request), StepApplies(a, made)
        PROVE  HostInv'
    <3>1. /\ made # Raises /\ current' = made.content /\ UNCHANGED request
          /\ lossy' = (lossy \/ made.lossy) /\ Trace(a, "compressed")
      BY <1>1, <2>6 DEF StepApplies
    <3>2. current' \in Content /\ lossy' \in BOOLEAN
      BY <1>3, <2>6, <3>1 DEF AlgorithmsRegistered, HostInv
    <3>3. "compressed" \in Statuses /\ a \in Registered /\ a \notin BoundaryIds
      BY <1>1, <1>2, <2>6 DEF Statuses
    <3>4. Types' /\ traces'[Len(traces')].algorithm = a /\ Applied(Custom)'
      BY <2>6, <3>1, <3>3, Traced DEF HostInv, Types
    <3>5. NothingLostSilently'
      BY <3>4 DEF NothingLostSilently
    <3>6. BoundaryMeetsTarget'
      BY <3>3, <3>4 DEF BoundaryMeetsTarget, BoundaryIds
    <3> QED BY <3>2, <3>4, <3>5, <3>6 DEF HostInv
  <2> QED BY <1>1, <1>7, <2>2, <2>3, <2>4, <2>5, <2>6 DEF Step, StepRejected
<1> QED BY <1>5, <1>6, <1>7 DEF PipelineNext

(* Nothing is lost silently, in every state of every run: what the         *)
(* original said is kept or among removed_items, and it is kept unless the *)
(* result is lossy, but for the three exceptions it names: a JSON     *)
(* text that repeats a key, a tail of nothing, and an unknown keep.  For   *)
(* every request, every sequence of built-in steps, and every pair of      *)
(* items one of which may override the other.                              *)
THEOREM NothingLost ==
  ASSUME AlgorithmsRegistered
  PROVE  PipelineSpec => []NothingLostSilently
<1>1. HostInv => NothingLostSilently
  BY DEF HostInv
<1>2. HostInv /\ [PipelineNext]_pipelineVars => HostInv'
  BY HostStep
<1> QED BY HostInitInv, <1>1, <1>2, PTL DEF PipelineSpec

(* A final boundary step meets the target of a text, in every state of     *)
(* every run, whatever the steps before it were and did.                   *)
THEOREM BoundaryMeets ==
  ASSUME AlgorithmsRegistered
  PROVE  PipelineSpec => []BoundaryMeetsTarget
<1>1. HostInv => BoundaryMeetsTarget
  BY DEF HostInv
<1>2. HostInv /\ [PipelineNext]_pipelineVars => HostInv'
  BY HostStep
<1> QED BY HostInitInv, <1>1, <1>2, PTL DEF PipelineSpec

-----------------------------------------------------------------------------
(* The failure of a tokenizer.                                             *)

Raised == {"raised", "raised locked"}
Critical == {"locked", "raised locked"}

(* What is known of a call by where it is: a failure is either noted in    *)
(* the core or about to be; a call that has not returned has not committed *)
(* and has no outcome; one that returned without committing has an error.  *)
CallInv(t) ==
  /\ own[t] => coreFailed[t] \/ pc[t] \in Raised
  /\ pc[t] \in Raised => own[t]
  /\ own[t] => ~committed[t]
  /\ pc[t] \notin {"idle", "returned", "checking", "clearing"} => ~committed[t]
  /\ pc[t] \notin {"idle", "clearing"} => outcome[t] = "none"
  /\ pc[t] \in {"returned", "checking"} /\ ~committed[t] => code[t] = "error"
  /\ outcome[t] = "ok" => committed[t]

(* The shared flags stay clear for a call as long as no tokenizer fails.   *)
QuietInv(t) ==
  ~own[t] /\ ~others[t] =>
    /\ pc[t] # "clearing" /\ (pc[t] # "idle" => ~exception)
    /\ pc[t] \notin {"idle", "entered"} => ~failed
    /\ pc[t] \in {"returned", "checking"} /\ committed[t] => code[t] = "ok"
    /\ outcome[t] = "error" => ~committed[t]

Inv ==
  /\ TypeOK
  /\ \A t \in Threads : CallInv(t)
  /\ \A t \in Threads : QuietInv(t)

(* The count of calls stays within its bound.                              *)
LEMMA CallCounted ==
  ASSUME NEW n \in 0 .. MaxCalls, n < MaxCalls
  PROVE  n + 1 \in 0 .. MaxCalls
BY HostCounterAssumption

(* The invariant holds initially.                                          *)
LEMMA InitInv == Init => Inv
<1> SUFFICES ASSUME Init PROVE Inv
  OBVIOUS
<1> USE DEF Init
<1>1. TypeOK
  <2>1. calls \in [Threads -> 0 .. MaxCalls]
    BY HostCounterAssumption DEF HostCounterAssumption
  <2>2. \A t \in Threads : mutex = t <=> pc[t] \in {"locked", "raised locked"}
    BY HostCounterAssumption DEF HostCounterAssumption
  <2> QED
    BY <2>1, <2>2 DEF TypeOK, Phases
<1>2. ASSUME NEW t \in Threads PROVE CallInv(t) /\ QuietInv(t)
  BY DEF CallInv, QuietInv, Raised
<1> QED
  BY <1>1, <1>2 DEF Inv

(* Every step keeps the types.                                            *)
LEMMA TypeStep == TypeOK /\ [Next]_vars => TypeOK'
<1> SUFFICES ASSUME TypeOK, [Next]_vars PROVE TypeOK'
  OBVIOUS
<1> USE HostCounterAssumption DEF HostCounterAssumption, TypeOK, Phases, Go, flags, histories
<1>1. CASE UNCHANGED vars
  BY <1>1 DEF vars
<1>2. ASSUME NEW t \in Threads, Enter(t) PROVE TypeOK'
  <2>1. calls' \in [Threads -> 0 .. MaxCalls]
    <3>1. calls[t] \in 0 .. MaxCalls /\ calls[t] < MaxCalls
      BY <1>2 DEF Enter
    <3>2. calls[t] + 1 \in 0 .. MaxCalls
      BY <3>1, CallCounted
    <3> HIDE DEF TypeOK
    <3>3. calls \in [Threads -> 0 .. MaxCalls] /\ calls' = [calls EXCEPT ![t] = calls[t] + 1]
      BY <1>2 DEF Enter, TypeOK
    <3> QED
      BY <3>2, <3>3
  <2>2. \A u \in Threads : mutex' = u <=> pc'[u] \in {"locked", "raised locked"}
    BY <1>2 DEF Enter
  <2> QED
    BY <1>2, <2>1, <2>2 DEF Enter
<1>3. ASSUME NEW t \in Threads, Reset(t) PROVE TypeOK'
  BY <1>3 DEF Reset, ClearFlag
<1>4. ASSUME NEW t \in Threads, Raise(t) PROVE TypeOK'
  <2>1. CASE Go(t, "planning", "raised")
    BY <1>4, <2>1 DEF Raise, Disturbed, InCall
  <2>2. CASE Go(t, "locked", "raised locked")
    BY <1>4, <2>2 DEF Raise, Disturbed, InCall
  <2> QED
    BY <1>4, <2>1, <2>2 DEF Raise
<1>5. ASSUME NEW t \in Threads, Note(t) PROVE TypeOK'
  BY <1>5 DEF Note, NoteInCore, Disturbed, InCall
<1>6. ASSUME NEW t \in Threads, Lock(t) PROVE TypeOK'
  BY <1>6 DEF Lock, MutexFree
<1>7. ASSUME NEW t \in Threads, Refuse(t) PROVE TypeOK'
  BY <1>7 DEF Refuse, CoreReturns
<1>8. ASSUME NEW t \in Threads, Drop(t) PROVE TypeOK'
  BY <1>8 DEF Drop, CoreReturns
<1>9. ASSUME NEW t \in Threads, Commit(t) PROVE TypeOK'
  BY <1>9 DEF Commit, CoreReturns
<1>10. ASSUME NEW t \in Threads, ReadFlag(t) PROVE TypeOK'
  BY <1>10 DEF ReadFlag
<1>11. ASSUME NEW t \in Threads, Leave(t) PROVE TypeOK'
  BY <1>11 DEF Leave, Outcome
<1>12. ASSUME NEW t \in Threads, ClearException(t) PROVE TypeOK'
  BY <1>12 DEF ClearException
<1> QED
  BY <1>1, <1>2, <1>3, <1>4, <1>5, <1>6, <1>7, <1>8, <1>9, <1>10, <1>11, <1>12 DEF Next

(* A step of one call, seen from every call, its own included.             *)
LEMMA CallStep ==
  ASSUME Inv, [Next]_vars, NEW u \in Threads
  PROVE  CallInv(u)' /\ QuietInv(u)'
<1> USE DEF Inv, TypeOK, CallInv, QuietInv, Go, Raised, flags, histories
<1>1. CASE UNCHANGED vars
  BY <1>1 DEF vars
<1>2. ASSUME NEW t \in Threads, Enter(t) PROVE CallInv(u)' /\ QuietInv(u)'
  BY <1>2, ZenonT(60) DEF Enter
<1>3. ASSUME NEW t \in Threads, Reset(t) PROVE CallInv(u)' /\ QuietInv(u)'
  BY <1>3, ZenonT(60) DEF Reset, ClearFlag
<1>4. ASSUME NEW t \in Threads, Raise(t) PROVE CallInv(u)' /\ QuietInv(u)'
  BY <1>4, ZenonT(60) DEF Raise, Disturbed, InCall
<1>5. ASSUME NEW t \in Threads, Note(t) PROVE CallInv(u)' /\ QuietInv(u)'
  <2>1. CallInv(u)'
    <3>1. CallInv(u) /\ CallInv(t)
      OBVIOUS
    <3>2. /\ coreFailed' = [coreFailed EXCEPT ![t] = TRUE] /\ coreFailed'[t]
          /\ pc[t] \in Raised /\ pc'[t] \notin Raised
          /\ u # t => pc'[u] = pc[u] /\ coreFailed'[u] = coreFailed[u]
          /\ pc'[t] \in {"planning", "locked"}
          /\ UNCHANGED <<committed, outcome, code, own>>
      BY <1>5, ZenonT(60) DEF Note, NoteInCore
    <3> QED
      BY <3>1, <3>2
  <2>2. own[t] /\ own' = own /\ (u # t /\ pc[u] # "idle" => others'[u])
    BY <1>5 DEF Note, Disturbed, InCall
  <2>3. QuietInv(u)'
    BY <1>5, <2>2, ZenonT(60) DEF Note, Disturbed, InCall
  <2> QED
    BY <2>1, <2>3
<1>6. ASSUME NEW t \in Threads, Lock(t) PROVE CallInv(u)' /\ QuietInv(u)'
  BY <1>6 DEF Lock, MutexFree
<1>7. ASSUME NEW t \in Threads, Refuse(t) PROVE CallInv(u)' /\ QuietInv(u)'
  BY <1>7 DEF Refuse, CoreReturns
<1>8. ASSUME NEW t \in Threads, Drop(t) PROVE CallInv(u)' /\ QuietInv(u)'
  BY <1>8 DEF Drop, CoreReturns
<1>9. ASSUME NEW t \in Threads, Commit(t) PROVE CallInv(u)' /\ QuietInv(u)'
  BY <1>9, ZenonT(60) DEF Commit, CoreReturns
<1>10. ASSUME NEW t \in Threads, ReadFlag(t) PROVE CallInv(u)' /\ QuietInv(u)'
  BY <1>10, ZenonT(60) DEF ReadFlag
<1>11. ASSUME NEW t \in Threads, Leave(t) PROVE CallInv(u)' /\ QuietInv(u)'
  BY <1>11, ZenonT(60) DEF Leave, Outcome
<1>12. ASSUME NEW t \in Threads, ClearException(t) PROVE CallInv(u)' /\ QuietInv(u)'
  BY <1>12 DEF ClearException
<1> QED
  BY <1>1, <1>2, <1>3, <1>4, <1>5, <1>6, <1>7, <1>8, <1>9, <1>10, <1>11, <1>12 DEF Next

(* The invariant is inductive.                                             *)
THEOREM HostCounterInductive == Spec => []Inv
<1>1. Inv /\ [Next]_vars => Inv'
  BY TypeStep, CallStep DEF Inv
<1> QED
  BY InitInv, <1>1, PTL DEF Spec

(* Variables keep their types, and at most one call is in the critical     *)
(* section of the core.                                                    *)
THEOREM HostCounterTypes == Spec => []TypeOK
<1>1. Inv => TypeOK
  BY DEF Inv
<1> QED
  BY HostCounterInductive, <1>1, PTL

(* However many calls clear the shared flags, a tokenizer failure is never *)
(* committed and never reported as success: the core keeps its own flag.   *)
THEOREM FailuresReported == Spec => []FailureReported
<1>1. Inv => FailureReported
  BY DEF Inv, TypeOK, CallInv, FailureReported, Returned
<1> QED
  BY HostCounterInductive, <1>1, PTL

(* A caller that is told that all is well has a committed prepare.         *)
THEOREM SuccessesCommitted == Spec => []SuccessCommitted
<1>1. Inv => SuccessCommitted
  BY DEF Inv, CallInv, SuccessCommitted
<1> QED
  BY HostCounterInductive, <1>1, PTL

(* Only the failure of another call makes a committed prepare look failed. *)
THEOREM CommittedSucceeds == Spec => []CommittedSucceedsAlone
<1>1. Inv => CommittedSucceedsAlone
  BY DEF Inv, TypeOK, CallInv, QuietInv, CommittedSucceedsAlone, Returned
<1> QED
  BY HostCounterInductive, <1>1, PTL

-----------------------------------------------------------------------------
(* The admission of a configuration.                                       *)

Names ==
  {"load_json_config", "arena_from_dict", "model_from_dict", "providers_from_dict",
   "contributions_from_dict", "compile_layout", "validate_model_budget", "NativeArena", "prepare"}

(* What a call of a command needs in order to return.                      *)
Accepted(call, d) ==
  /\ call = "load_json_config" => LoadJsonConfig(d)
  /\ call = "arena_from_dict" => ArenaContract(d)
  /\ call = "model_from_dict" => ModelContract(d.model)
  /\ call = "providers_from_dict" => ProvidersFromDict(d)
  /\ call = "contributions_from_dict" => ContributionsContract(d)
  /\ call = "compile_layout" => CompileLayout(d)
  /\ call = "validate_model_budget" => ValidateModelBudget(d)
  /\ call = "NativeArena" => CreateNative(d)
  /\ call = "prepare" => PrepareNative(d)

(* The calls that a command makes, and those it has still to make.         *)
CallsMade(cmd) == {CallsOf(cmd)[i] : i \in DOMAIN CallsOf(cmd)}
Pending == {pending[i] : i \in DOMAIN pending}

(* A command has got as far as every call before was accepted, and ends    *)
(* early only because one was not, or for what the content comes to.       *)
GateInv ==
  /\ command \in {"validate", "prepare"} /\ document \in Document
  /\ pending \in Seq(Names)
  /\ \A call \in CallsMade(command) : call \in Pending \/ Accepted(call, document)
  /\ Pending \subseteq CallsMade(command)
  /\ verdict = "valid" => command = "validate" /\ pending = <<>>
  /\ verdict = "completed" => command = "prepare" /\ pending = <<>>
  /\ Refused => \/ \E call \in CallsMade(command) : ~Accepted(call, document)
                \/ MayOverflow(document) \/ IsForeign(document.arena.arena_id)

(* A tuple is a sequence of what is in it.                                 *)
LEMMA TupleOfEight ==
  ASSUME NEW S, NEW a \in S, NEW b \in S, NEW c \in S, NEW d \in S,
         NEW e \in S, NEW f \in S, NEW g \in S, NEW h \in S
  PROVE  <<a, b, c, d, e, f, g>> \in Seq(S) /\ <<a, b, c, d, e, f, g, h>> \in Seq(S)
OBVIOUS

(* A command makes calls.                                                  *)
LEMMA CommandsCall ==
  ASSUME NEW cmd
  PROVE  CallsOf(cmd) \in Seq(Names)
<1>1. /\ "load_json_config" \in Names /\ "arena_from_dict" \in Names
      /\ "model_from_dict" \in Names /\ "providers_from_dict" \in Names
      /\ "contributions_from_dict" \in Names /\ "compile_layout" \in Names
      /\ "validate_model_budget" \in Names /\ "NativeArena" \in Names /\ "prepare" \in Names
  BY DEF Names
<1>2. <<"load_json_config", "arena_from_dict", "model_from_dict", "providers_from_dict",
        "contributions_from_dict", "compile_layout", "validate_model_budget">> \in Seq(Names)
  BY <1>1, TupleOfEight
<1>3. <<"load_json_config", "arena_from_dict", "providers_from_dict", "compile_layout",
        "NativeArena", "model_from_dict", "contributions_from_dict", "prepare">> \in Seq(Names)
  BY <1>1, TupleOfEight
<1> QED
  BY <1>2, <1>3 DEF CallsOf

(* Calls that are made by both commands, or by one.                        *)
LEMMA CallsOfCommands ==
  /\ \A cmd : {"load_json_config", "providers_from_dict", "compile_layout"} \subseteq CallsMade(cmd)
  /\ "validate_model_budget" \in CallsMade("validate")
  /\ "prepare" \in CallsMade("prepare")
  /\ "validate_model_budget" \notin CallsMade("prepare")
<1>1. CallsMade("validate") =
        {"load_json_config", "arena_from_dict", "model_from_dict", "providers_from_dict",
         "contributions_from_dict", "compile_layout", "validate_model_budget"}
  BY DEF CallsMade, CallsOf
<1>2. \A cmd : cmd # "validate" => CallsMade(cmd) =
        {"load_json_config", "arena_from_dict", "providers_from_dict", "compile_layout",
         "NativeArena", "model_from_dict", "contributions_from_dict", "prepare"}
  BY DEF CallsMade, CallsOf
<1> QED
  BY <1>1, <1>2

(* No call is made yet.                                                    *)
LEMMA GateInitInv == GateInit => GateInv
<1> SUFFICES ASSUME GateInit PROVE GateInv
  OBVIOUS
<1>1. CallsOf(command) \in Seq(Names)
  BY CommandsCall DEF GateInit
<1>2. Pending = CallsMade(command)
  BY DEF GateInit, Pending, CallsMade
<1>3. document \in Document
  BY ConfigAssumption DEF GateInit
<1> QED
  BY <1>1, <1>2, <1>3 DEF GateInit, GateInv, Refused

(* The next call is made: it returns, or ends the command.                 *)
CallMade(call) ==
  /\ verdict = "running" /\ pending # <<>> /\ Head(pending) = call
  /\ \/ Accepted(call, document) /\ pending' = Tail(pending) /\ verdict' = verdict
     \/ ~Accepted(call, document) /\ pending' = pending /\ Refused'
     \/ MayOverflow(document) /\ pending' = pending /\ Refused'
  /\ command' = command /\ document' = document

(* A call that returns makes one fewer.                                    *)
LEMMA GateMakes ==
  ASSUME GateInv, NEW call \in Names, CallMade(call)
  PROVE  GateInv'
<1>1. /\ command' = command /\ document' = document /\ verdict = "running"
      /\ pending # <<>> /\ pending \in Seq(Names) /\ pending[1] = call
  BY DEF CallMade, GateInv
<1>2. call \in Pending /\ call \in CallsMade(command)
  BY <1>1 DEF Pending, GateInv
<1>3. CallsMade(command)' = CallsMade(command)
  BY <1>1 DEF CallsMade
<1>4. CASE Accepted(call, document) /\ pending' = Tail(pending) /\ verdict' = verdict
  <2>1. pending' = Tail(pending) /\ verdict' = "running"
    BY <1>1, <1>4
  <2>2. pending' \in Seq(Names)
    BY <1>1, <2>1
  <2>3. Pending' \subseteq Pending /\ Pending \subseteq {call} \cup Pending'
    <3>1. Len(pending') = Len(pending) - 1 /\ \A i \in 1 .. Len(pending') : pending'[i] = pending[i + 1]
      BY <1>1, <2>1
    <3>2. Pending' \subseteq Pending
      BY <1>1, <2>2, <3>1 DEF Pending
    <3>3. ASSUME NEW i \in 1 .. Len(pending), i # 1 PROVE pending[i] \in Pending'
      <4>1. i - 1 \in 1 .. Len(pending') /\ i - 1 + 1 = i
        BY <1>1, <3>1, <3>3
      <4>2. pending'[i - 1] = pending[i]
        BY <3>1, <4>1
      <4> QED
        BY <2>2, <4>1, <4>2 DEF Pending
    <3>4. \A i \in DOMAIN pending : pending[i] \in {call} \cup Pending'
      <4> SUFFICES ASSUME NEW i \in DOMAIN pending PROVE pending[i] \in {call} \cup Pending'
        OBVIOUS
      <4>1. i \in 1 .. Len(pending)
        BY <1>1
      <4> QED
        BY <1>1, <3>3, <4>1
    <3>5. Pending \subseteq {call} \cup Pending'
      BY <3>4, Zenon DEF Pending
    <3> QED
      BY <3>2, <3>5
  <2>4. \A c \in CallsMade(command) : c \in Pending' \/ Accepted(c, document)
    BY <1>4, <2>3 DEF GateInv
  <2> QED
    BY <1>1, <1>3, <2>1, <2>2, <2>3, <2>4 DEF GateInv, Refused
<1>5. CASE /\ ~Accepted(call, document) \/ MayOverflow(document)
           /\ pending' = pending /\ Refused'
  <2>1. Pending' = Pending
    BY <1>5 DEF Pending
  <2> QED
    BY <1>1, <1>2, <1>3, <1>5, <2>1 DEF GateInv, Refused
<1> QED
  BY <1>4, <1>5 DEF CallMade

(* prepare fails in what it checks first, or for the content.              *)
LEMMA ErrorsRefuse ==
  ASSUME NEW d, NEW error \in PrepareErrors(d)
  PROVE  /\ error \notin {"running", "valid", "completed"}
         /\ ~PrepareNative(d) \/ MayOverflow(d)
<1>1. CASE ~RequestParses(d)
  BY <1>1 DEF PrepareErrors, JsonErrors, PrepareNative
<1>2. CASE RequestParses(d) /\ ~(ValidateModel(d.model) /\ ValidateContributions(d))
  BY <1>2 DEF PrepareErrors, PrepareNative
<1>3. CASE /\ RequestParses(d) /\ ValidateModel(d.model) /\ ValidateContributions(d)
           /\ ~NativeBudget(d)
  BY <1>3 DEF PrepareErrors, PrepareNative
<1>4. CASE PrepareNative(d)
  <2>1. error \in ReclaimErrors(d)
    BY <1>4 DEF PrepareErrors, PrepareNative
  <2> QED
    BY <2>1 DEF ReclaimErrors, SummaryErrors
<1> QED
  BY <1>1, <1>2, <1>3, <1>4 DEF PrepareNative

(* Every call is one that GateMakes speaks of.                             *)
LEMMA GateStep == GateInv /\ [GateNext]_gateVars => GateInv'
<1> SUFFICES ASSUME GateInv, [GateNext]_gateVars PROVE GateInv'
  OBVIOUS
<1>1. CASE UNCHANGED gateVars
  BY <1>1 DEF gateVars, GateInv, CallsMade, Pending, Refused
<1>3. CASE Load
  <2>1. "load_json_config" \in Names
    BY DEF Names
  <2>2. CallMade("load_json_config")
    BY <1>3 DEF Load, Makes, CallMade, Accepted, Refused
  <2> QED
    BY <2>1, <2>2, GateMakes
<1>4. CASE BuildArena
  <2>1. "arena_from_dict" \in Names
    BY DEF Names
  <2>2. CallMade("arena_from_dict")
    BY <1>4 DEF BuildArena, Makes, CallMade, Accepted, Refused
  <2> QED
    BY <2>1, <2>2, GateMakes
<1>5. CASE BuildModel
  <2>1. "model_from_dict" \in Names
    BY DEF Names
  <2>2. CallMade("model_from_dict")
    BY <1>5 DEF BuildModel, Makes, CallMade, Accepted, Refused
  <2> QED
    BY <2>1, <2>2, GateMakes
<1>6. CASE BuildProviders
  <2>1. "providers_from_dict" \in Names
    BY DEF Names
  <2>2. CallMade("providers_from_dict")
    BY <1>6 DEF BuildProviders, Makes, CallMade, Accepted, Refused
  <2> QED
    BY <2>1, <2>2, GateMakes
<1>7. CASE BuildContributions
  <2>1. "contributions_from_dict" \in Names
    BY DEF Names
  <2>2. CallMade("contributions_from_dict")
    BY <1>7 DEF BuildContributions, Makes, CallMade, Accepted, Refused
  <2> QED
    BY <2>1, <2>2, GateMakes
<1>8. CASE Compile
  <2>1. "compile_layout" \in Names
    BY DEF Names
  <2>2. CallMade("compile_layout")
    BY <1>8 DEF Compile, Makes, CallMade, Accepted, Refused
  <2> QED
    BY <2>1, <2>2, GateMakes
<1>9. CASE CheckBudget
  <2>1. "validate_model_budget" \in Names
    BY DEF Names
  <2>2. CallMade("validate_model_budget")
    BY <1>9 DEF CheckBudget, Makes, CallMade, Accepted, Refused
  <2> QED
    BY <2>1, <2>2, GateMakes
<1>10. CASE Create
  <2>1. "NativeArena" \in Names
    BY DEF Names
  <2>2. CallMade("NativeArena")
    BY <1>10 DEF Create, JsonErrors, Makes, CallMade, Accepted, Refused
  <2> QED
    BY <2>1, <2>2, GateMakes
<1>11. CASE Prepare
  <2>1. "prepare" \in Names
    BY DEF Names
  <2>2. CASE PrepareNative(document) /\ Makes("prepare", TRUE, "none")
    <3>1. CallMade("prepare")
      BY <2>2 DEF Makes, CallMade, Accepted
    <3> QED
      BY <2>1, <3>1, GateMakes
  <2>3. ASSUME NEW error \in PrepareErrors(document), Makes("prepare", FALSE, error)
        PROVE  GateInv'
    <3>1. error \notin {"running", "valid", "completed"}
      BY <2>3, ErrorsRefuse
    <3>2. ~PrepareNative(document) \/ MayOverflow(document)
      BY <2>3, ErrorsRefuse
    <3>3. CallMade("prepare")
      BY <2>3, <3>1, <3>2 DEF Makes, CallMade, Accepted, Refused
    <3> QED
      BY <2>1, <3>3, GateMakes
  <2> QED
    BY <1>11, <2>2, <2>3 DEF Prepare
<1>12. CASE End
  <2>1. Pending' = Pending /\ CallsMade(command)' = CallsMade(command)
    BY <1>12 DEF End, Pending, CallsMade
  <2> QED
    BY <1>12, <2>1 DEF End, GateInv, Refused
<1> QED
  BY <1>1, <1>3, <1>4, <1>5, <1>6, <1>7, <1>8, <1>9, <1>10, <1>11, <1>12 DEF GateNext

(* The invariant is inductive.                                             *)
THEOREM GateInvariant == GateSpec => []GateInv
<1> QED
  BY GateInitInv, GateStep, PTL DEF GateSpec

-----------------------------------------------------------------------------
(* A number of 32 bits does not wrap.                                      *)
LEMMA I32Within ==
  ASSUME NEW n \in Int, n \in -(IntMax + 1) .. IntMax
  PROVE  I32(n) = n
<1>1. IntMax \in Nat
  BY ConfigAssumption
<1> DEFINE a == n + IntMax + 1
           m == 2 * (IntMax + 1)
<1>2. a \in Nat /\ m \in Nat \ {0} /\ a < m
  BY <1>1
<1>3. a % m = a
  <2> HIDE DEF a, m
  <2> QED
    BY <1>2
<1> QED
  BY <1>1, <1>3 DEF I32

-----------------------------------------------------------------------------
(* What prepare accepts, validate accepts.                                 *)

(* A value is known by its type and its text or number.                    *)
LEMMA JsonValues ==
  ASSUME NEW v \in Json
  PROVE  /\ v.number \in Int
         /\ IsString(v) => v = Text(v.text)
         /\ IsBoolean(v) => v \in {True, False}
         /\ IsArray(v) => v \in {List, EmptyList}
         /\ Missing(v) => v = Absent
         /\ v.type = "null" => v = Null
<1>1. /\ Absent.type = "absent" /\ Null.type = "null" /\ Fraction.type = "float"
      /\ NaN.type = "nan" /\ Infinity.type = "infinity"
      /\ True.type = "boolean" /\ False.type = "boolean"
      /\ Obj.type = "object" /\ SecretInside.type = "object"
      /\ NamesProvider.type = "object" /\ Foreign.type = "object"
      /\ List.type = "array" /\ EmptyList.type = "array"
  BY DEF Value, Absent, Null, Fraction, NaN, Infinity, True, False, Obj, SecretInside,
         NamesProvider, Foreign, List, EmptyList
<1>2. /\ Absent.number = 0 /\ Null.number = 0 /\ Fraction.number = 1 /\ NaN.number = 0
      /\ Infinity.number = 1 /\ True.number = 0 /\ False.number = 0 /\ Obj.number = 0
      /\ SecretInside.number = 0 /\ NamesProvider.number = 0 /\ Foreign.number = 0
      /\ List.number = 0 /\ EmptyList.number = 0
  BY DEF Value, Absent, Null, Fraction, NaN, Infinity, True, False, Obj, SecretInside,
         NamesProvider, Foreign, List, EmptyList
<1> USE DEF IsString, IsBoolean, IsArray, IsObject, Missing
<1>3. CASE v \in [type : {"string"}, text : STRING, number : {0}]
  <2>1. v.type = "string" /\ v.number = 0
    BY <1>3
  <2>2. v = [type |-> v.type, text |-> v.text, number |-> v.number]
    BY <1>3
  <2> QED
    BY <2>1, <2>2 DEF Text, Value
<1>4. CASE v \in [type : {"integer"}, text : {""}, number : Int]
  <2>1. v.type = "integer" /\ v.number \in Int
    BY <1>4
  <2> QED
    BY <2>1
<1>5. CASE v \in {Absent, Null, Fraction, NaN, Infinity, True, False, Obj, SecretInside,
                  NamesProvider, Foreign, List, EmptyList}
  BY <1>1, <1>2, <1>5
<1> QED
  BY <1>3, <1>4, <1>5 DEF Json

(* The sums of a document are integers.                                    *)
LEMMA IntegersOf ==
  ASSUME NEW d \in Document
  PROVE  /\ Floors(d) \in Int /\ InputBudget(d) \in Int /\ Reserve(d) \in Int
<1>1. \A v \in Json : v.number \in Int
  BY JsonValues
<1>2. /\ d.module.floor_tokens \in Json /\ d.peer.floor_tokens \in Json
      /\ d.model.context_limit_tokens \in Json /\ d.model.reserved_output_tokens \in Json
      /\ d.arena.framework_reserve_tokens \in Json
  BY DEF Document, Module
<1>3. Whole(0).number = 0
  BY DEF Whole, Value
<1> QED
  BY <1>1, <1>2, <1>3 DEF Floors, InputBudget, Reserve, OrDefault

(* The budget of the kernel is the tighter one, if nothing wraps.          *)
LEMMA NativeBudgetTighter ==
  ASSUME NEW d \in Document, NativeBudget(d), ~Wraps(d)
  PROVE  ValidateModelBudget(d)
<1>1. Separators \in Nat
  BY ConfigAssumption
<1>2. I32(Floors(d)) = Floors(d)
  BY DEF Wraps
<1>3. I32(InputBudget(d) - Separators - Reserve(d)) = InputBudget(d) - Separators - Reserve(d)
  BY DEF Wraps
<1> QED
  BY <1>1, <1>2, <1>3, IntegersOf DEF NativeBudget, ValidateModelBudget

(* A provider that is built reaches no host in the clear unasked.          *)
LEMMA UrlsAllowed ==
  ASSUME NEW d \in Document, ProvidersFromDict(d), HasProvider(d),
         d.provider.base_url = Text("http://host")
  PROVE  d.provider.allow_insecure_http = True
<1>1. d.provider.base_url.text = "http://host" /\ d.provider.base_url.type = "string"
  BY DEF Text, Value
<1>2. d.provider.type.text # "litellm"
  <2> SUFFICES ASSUME d.provider.type.text = "litellm" PROVE FALSE
    OBVIOUS
  <2>1. Missing(d.provider["base_url"])
    BY DEF ProvidersFromDict, ProvidersContract, ProviderContract, OpenAIKeys
  <2>2. d.provider["base_url"] = d.provider.base_url
    OBVIOUS
  <2> QED
    BY <1>1, <2>1, <2>2 DEF Missing
<1>3. d.provider.type.text = "openai-compatible"
  BY <1>2 DEF ProvidersFromDict, ProvidersContract, ProviderContract
<1> QED
  BY <1>1, <1>3 DEF ProvidersFromDict, UrlAllowed

(* cli.py, main: a command completes only for a configuration that is      *)
(* valid, with no secret and no unsafe URL in it, unless 32 bits wrap.     *)
THEOREM CompletedOnlyIfValid == GateSpec => []CompletedIsValid
<1>1. GateInv => CompletedIsValid
  <2> SUFFICES ASSUME GateInv, verdict \in {"valid", "completed"}
               PROVE  /\ Valid(document) \/ Wraps(document)
                      /\ NoInlineSecrets(document)
                      /\ HasProvider(document) /\ document.provider.base_url = Text("http://host")
                           => document.provider.allow_insecure_http = True
    BY DEF CompletedIsValid
  <2>1. Pending = {}
    BY DEF GateInv, Pending
  <2>2. \A call \in CallsMade(command) : Accepted(call, document)
    BY <2>1 DEF GateInv
  <2>3. /\ "load_json_config" \in CallsMade(command) /\ "providers_from_dict" \in CallsMade(command)
        /\ "compile_layout" \in CallsMade(command)
        /\ command = "validate" => "validate_model_budget" \in CallsMade(command)
        /\ command = "prepare" => "prepare" \in CallsMade(command)
    BY CallsOfCommands
  <2>4. LoadJsonConfig(document) /\ ProvidersFromDict(document) /\ CompileLayout(document)
    BY <2>2, <2>3 DEF Accepted
  <2>5. command = "validate" => ValidateModelBudget(document)
    BY <2>2, <2>3 DEF Accepted
  <2>6. command = "prepare" => PrepareNative(document)
    BY <2>2, <2>3 DEF Accepted
  <2>7. Valid(document) \/ Wraps(document)
    <3>1. command = "prepare" => ValidateModelBudget(document) \/ Wraps(document)
      BY <2>6, NativeBudgetTighter DEF PrepareNative, GateInv
    <3> QED
      BY <2>4, <2>5, <3>1 DEF Valid, GateInv
  <2>8. NoInlineSecrets(document)
    BY <2>4 DEF LoadJsonConfig
  <2> QED
    BY <2>4, <2>7, <2>8, UrlsAllowed DEF GateInv
<1> QED
  BY <1>1, GateInvariant, PTL

-----------------------------------------------------------------------------
(* What validate accepts, prepare accepts but for the known gaps.          *)

Blank(v) == v \in {Text(""), Text(" ")}

(* What it means that there is no gap.                                     *)
LEMMA NoGap ==
  ASSUME NEW d, ~KnownGaps(d)
  PROVE  /\ \A m \in {d.module, d.peer} :
              /\ IsI32(m.floor_tokens) /\ IsI32(m.target_tokens) /\ IsI32(m.max_tokens)
              /\ IsI32(m.order) /\ Sendable(m)
         /\ IsI32(d.arena.framework_reserve_tokens) /\ Sendable(d.arena) /\ Sendable(d.model)
         /\ IsI32(d.model.context_limit_tokens) /\ IsI32(d.model.reserved_output_tokens)
         /\ \A v \in {d.arena.schema_version, d.arena.policy_version, d.arena.admission_policy,
                      d.model.model_profile_id, d.model.tokenizer_id, d.model.tokenizer_version} :
              ~Blank(v)
         /\ d.model.count_mode # Text("exact")
         /\ HasStep(d) =>
              ~SemanticTwice(d) /\ ~Blank(d.step.algorithm_id) /\ Sendable(d.step)
         /\ HasContribution(d) =>
              /\ d.contribution.module_id \in {d.module.module_id, d.peer.module_id}
              /\ d.contribution.again # True /\ IsI32(d.contribution.observed_demand_tokens)
              /\ Sendable(d.contribution)
         /\ HasChunk(d) =>
              /\ ~Blank(d.chunk.chunk_id) /\ ~Blank(d.chunk.kind)
              /\ Sendable(d.chunk) /\ d.chunk.again # True
         /\ ~(Floors(d) > InputBudget(d) - Reserve(d) - Separators)
         /\ ~(InputBudget(d) - Reserve(d) <= Separators)
BY Zenon DEF KnownGaps, Blank

(* A string is a name unless it is blank.                                  *)
LEMMA NotBlank ==
  ASSUME NEW v \in Json, IsString(OrDefault(v, Text("1"))), ~Blank(v)
  PROVE  Named(v)
<1>1. CASE Missing(v)
  BY <1>1 DEF Named, OrDefault, IsBlank, Text, Value
<1>2. CASE ~Missing(v)
  <2>1. OrDefault(v, Text("1")) = v /\ v = Text(v.text)
    BY <1>2, JsonValues DEF OrDefault
  <2> QED
    BY <2>1 DEF Named, IsBlank, Blank
<1> QED
  BY <1>1, <1>2

(* A module that fits is one to the kernel.                                *)
LEMMA NativeModuleAccepts ==
  ASSUME NEW m \in Module, ModuleContract(m), ModuleFits(m), ~IsBlank(m.module_id)
  PROVE  NativeModule(m)
<1>2. Named(m.module_id)
  BY DEF ModuleContract, IsNonEmpty, IsString, Named, OrDefault, Missing
<1>3. /\ m.floor_tokens \in Json /\ m.target_tokens \in Json /\ m.max_tokens \in Json
      /\ m.can_borrow \in Json
  BY DEF Module
<1>4. /\ m.floor_tokens.number \in Int /\ m.target_tokens.number \in Int
      /\ m.max_tokens.number \in Int
  BY <1>3, JsonValues
<1>5. m.target_tokens.number \in m.floor_tokens.number .. m.max_tokens.number
  BY <1>4 DEF ModuleFits
<1>6. m.can_borrow = False \/ OrDefault(m.can_borrow, True) = True
  <2>1. IsBoolean(OrDefault(m.can_borrow, True))
    BY DEF ModuleContract
  <2> QED
    BY <1>3, <2>1, JsonValues DEF OrDefault
<1>7. ~(m.can_borrow # False /\ m.target_tokens.number < m.max_tokens.number
        /\ m.reclaim_pipeline # List)
  BY <1>4, <1>6 DEF ModuleFits, MayGrow
<1> QED
  BY <1>2, <1>5, <1>7 DEF NativeModule

(* The constructor of the native arena takes what validate took,           *)
LEMMA ArenaCreated ==
  ASSUME NEW d \in Document, Valid(d), ~KnownGaps(d)
  PROVE  CreateNative(d)
<1>1. d.module \in Module /\ d.peer \in Module
  BY DEF Document
<1>2. ArenaContract(d) /\ CompileLayout(d)
  BY DEF Valid, LoadJsonConfig, Contract
<1>3. NativeModule(d.module)
  <2>1. ModuleContract(d.module) /\ ModuleFits(d.module) /\ ~IsBlank(d.module.module_id)
    BY <1>2 DEF ArenaContract, CompileLayout
  <2> QED
    BY <1>1, <2>1, NativeModuleAccepts
<1>4. NativeModule(d.peer)
  <2>1. ModuleContract(d.peer) /\ ModuleFits(d.peer) /\ ~IsBlank(d.peer.module_id)
    BY <1>2 DEF ArenaContract, CompileLayout
  <2> QED
    BY <1>1, <2>1, NativeModuleAccepts
<1>5. d.module.module_id # d.peer.module_id
  BY <1>2 DEF CompileLayout
<1>6. ArenaParses(d)
  BY NoGap DEF ArenaParses, ModuleParses
<1>7. Named(d.arena.arena_id)
  BY <1>2 DEF ArenaContract, CompileLayout, IsNonEmpty, IsString, Named, OrDefault, Missing
<1>8. \A v \in {d.arena.schema_version, d.arena.policy_version, d.arena.admission_policy} : Named(v)
  <2>1. \A v \in {d.arena.schema_version, d.arena.policy_version, d.arena.admission_policy} :
          /\ v \in Json /\ IsString(OrDefault(v, Text("1"))) /\ ~Blank(v)
    BY <1>2, NoGap DEF ArenaContract, Document
  <2> QED
    BY <2>1, NotBlank
<1>9. HasStep(d) => Named(d.step.algorithm_id)
  <2> SUFFICES ASSUME HasStep(d) PROVE Named(d.step.algorithm_id)
    OBVIOUS
  <2>1. d.step.algorithm_id \in Json /\ ~Blank(d.step.algorithm_id)
    BY NoGap DEF Document
  <2>2. IsString(OrDefault(d.step.algorithm_id, Text("1")))
    BY <1>2 DEF ArenaContract, StepContract, IsNonEmpty, IsString, OrDefault, Missing
  <2> QED
    BY <2>1, <2>2, NotBlank
<1>10. ~SemanticTwice(d)
  BY NoGap DEF SemanticTwice
<1> QED
  BY <1>3, <1>4, <1>5, <1>6, <1>7, <1>8, <1>9, <1>10 DEF CreateNative

(* validate_model takes it,                                                *)
LEMMA ModelAccepted ==
  ASSUME NEW d \in Document, Valid(d), ~KnownGaps(d)
  PROVE  ValidateModel(d.model)
<1>1. ModelContract(d.model)
  BY DEF Valid, LoadJsonConfig, Contract
<1>2. \A v \in {d.model.model_profile_id, d.model.tokenizer_id, d.model.tokenizer_version} :
        v \in Json /\ ~Blank(v)
  BY NoGap DEF Document
<1>3. IsString(OrDefault(d.model.model_profile_id, Text("1")))
  BY <1>1 DEF ModelContract, IsNonEmpty, IsString, OrDefault, Missing
<1>4. /\ IsString(OrDefault(d.model.tokenizer_id, Text("1")))
      /\ IsString(OrDefault(d.model.tokenizer_version, Text("1")))
  BY <1>1 DEF ModelContract
<1>5. /\ Named(d.model.model_profile_id) /\ Named(d.model.tokenizer_id)
      /\ Named(d.model.tokenizer_version)
  BY <1>2, <1>3, <1>4, NotBlank
<1>6. d.model.count_mode # Text("exact")
  BY NoGap
<1> QED
  BY <1>5, <1>6 DEF ValidateModel

(* and so does validate_contributions.                                     *)
LEMMA ContributionsAccepted ==
  ASSUME NEW d \in Document, Valid(d), ~KnownGaps(d)
  PROVE  ValidateContributions(d)
<1>1. ContributionsContract(d)
  BY DEF Valid, LoadJsonConfig, Contract
<1>2. HasContribution(d) =>
        /\ d.contribution.module_id \in {d.module.module_id, d.peer.module_id}
        /\ d.contribution.again # True
  BY NoGap
<1>3. ASSUME HasChunk(d) PROVE ChunkAccepted(d.chunk)
  <2>1. ChunkContract(d.chunk)
    BY <1>1, <1>3 DEF ContributionsContract
  <2>2. \A v \in {d.chunk.chunk_id, d.chunk.kind} : v \in Json /\ ~Blank(v)
    BY <1>3, NoGap DEF Document
  <2>3. IsString(OrDefault(d.chunk.chunk_id, Text("1")))
    BY <2>1 DEF ChunkContract, IsNonEmpty, IsString, OrDefault, Missing
  <2>4. IsString(OrDefault(d.chunk.kind, Text("1")))
    BY <2>1 DEF ChunkContract, IsString, OrDefault, Missing, Text, Value
  <2>5. Named(d.chunk.chunk_id) /\ Named(d.chunk.kind)
    BY <2>2, <2>3, <2>4, NotBlank
  <2>6. d.chunk.again # True
    BY <1>3, NoGap
  <2> QED
    BY <2>5, <2>6 DEF ChunkAccepted
<1> QED
  BY <1>2, <1>3 DEF ValidateContributions

(* The floors fit below the context limit, which has 32 bits, so nothing   *)
(* wraps.                                                                  *)
LEMMA BudgetAccepted ==
  ASSUME NEW d \in Document, Valid(d), ~KnownGaps(d)
  PROVE  NativeBudget(d)
<1> DEFINE room == InputBudget(d) - Separators - Reserve(d)
<1>1. Separators \in Nat /\ IntMax \in Nat
  BY ConfigAssumption
<1>2. Floors(d) \in Int /\ room \in Int
  BY <1>1, IntegersOf
<1>3. room > 0 /\ Floors(d) <= room
  <2>1. /\ ~(Floors(d) > InputBudget(d) - Reserve(d) - Separators)
        /\ ~(InputBudget(d) - Reserve(d) <= Separators)
    BY NoGap
  <2> QED
    BY <1>1, <2>1, IntegersOf
<1>4. Floors(d) >= 0
  <2>1. /\ IsNatural(d.module.floor_tokens) /\ IsNatural(d.peer.floor_tokens)
    BY DEF Valid, LoadJsonConfig, Contract, ArenaContract, ModuleContract
  <2>2. d.module.floor_tokens \in Json /\ d.peer.floor_tokens \in Json
    BY DEF Document, Module
  <2> QED
    BY <2>1, <2>2, JsonValues DEF IsNatural, Floors
<1>5. room <= IntMax
  <2>1. d.model.context_limit_tokens.number <= IntMax
    BY <1>1, NoGap DEF IsI32
  <2>2. /\ d.model.context_limit_tokens.number \in Int
        /\ d.model.reserved_output_tokens.number \in Int /\ Reserve(d) \in Int
    BY IntegersOf, JsonValues DEF Document
  <2>3. d.model.reserved_output_tokens.number >= 0
    BY DEF Valid, LoadJsonConfig, Contract, ModelContract, IsNatural
  <2>4. Reserve(d) >= 0
    BY DEF Valid, LoadJsonConfig, Contract, ArenaContract, IsNatural, Reserve
  <2> QED
    BY <1>1, <2>1, <2>2, <2>3, <2>4 DEF InputBudget
<1> HIDE DEF room
<1>6. I32(room) = room /\ I32(Floors(d)) = Floors(d)
  BY <1>1, <1>2, <1>3, <1>4, <1>5, I32Within
<1> QED
  BY <1>3, <1>6 DEF NativeBudget, room

(* The request is JSON to the core,                                        *)
LEMMA RequestAccepted ==
  ASSUME NEW d, ~KnownGaps(d)
  PROVE  RequestParses(d)
BY NoGap DEF RequestParses

(* and what is printed is UTF-8.                                           *)
LEMMA IdSendable ==
  ASSUME NEW d \in Document, ~KnownGaps(d)
  PROVE  ~IsForeign(d.arena.arena_id)
<1>1. Sendable(d.arena)
  BY NoGap
<1>2. "arena_id" \in DOMAIN d.arena /\ d.arena["arena_id"] = d.arena.arena_id
  BY DEF Document
<1> QED
  BY <1>1, <1>2, Zenon DEF Sendable

(* prepare refuses a configuration that validate accepts only for one of   *)
(* the known gaps or for a chunk that its floor does not cover, whatever   *)
(* the document.                                                           *)
THEOREM RefusedOnlyForGaps == GateSpec => []ValidatedPrepares
<1>1. GateInv => ValidatedPrepares
  <2> SUFFICES ASSUME GateInv, Refused, Valid(document), ~KnownGaps(document),
                      ~MayOverflow(document)
               PROVE  command # "prepare"
    BY DEF ValidatedPrepares
  <2>1. document \in Document
    BY DEF GateInv
  <2>2. PICK call \in CallsMade(command) : ~Accepted(call, document)
    BY <2>1, IdSendable DEF GateInv
  <2>3. /\ LoadJsonConfig(document) /\ ArenaContract(document) /\ ModelContract(document.model)
        /\ ProvidersFromDict(document) /\ ContributionsContract(document)
        /\ CompileLayout(document) /\ ValidateModelBudget(document)
    BY DEF Valid, LoadJsonConfig, Contract
  <2>4. CreateNative(document) /\ PrepareNative(document)
    BY <2>1, RequestAccepted, ArenaCreated, ModelAccepted, ContributionsAccepted, BudgetAccepted
       DEF PrepareNative
  <2> QED
    BY <2>2, <2>3, <2>4 DEF Accepted
<1> QED
  BY <1>1, GateInvariant, PTL
=============================================================================
