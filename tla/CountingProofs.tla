--------------------------- MODULE CountingProofs --------------------------
(***************************************************************************)
(* What is defined by counting: the arithmetic of totals, on which the     *)
(* conservation laws of the allocator rest, and the order of selected      *)
(* members of a sequence, on which the arguments about queues and event    *)
(* stores rest; and from the latter the least number of a set and with it  *)
(* induction, on which the arguments about recursive functions rest.       *)
(***************************************************************************)
EXTENDS TokenSums, Subsequences, Integers, Sequences, FiniteSetTheorems, TLAPS

(* One holder's tokens of ranks low + 1 to high are high - low tokens.     *)
LEMMA RanksSize ==
  ASSUME NEW h, NEW low \in Nat, NEW high \in Nat, low <= high
  PROVE  /\ IsFiniteSet(Ranks(h, low, high))
         /\ Cardinality(Ranks(h, low, high)) = high - low
<1>1. low + 1 \in Int /\ high \in Int
  OBVIOUS
<1>2. /\ IsFiniteSet(low + 1 .. high)
      /\ Cardinality(low + 1 .. high) = IF low + 1 > high THEN 0 ELSE high - (low + 1) + 1
  BY <1>1, FS_Interval
<1>3. Cardinality(low + 1 .. high) = high - low
  BY <1>2
<1>4. IsFiniteSet({h}) /\ Cardinality({h}) = 1
  BY FS_Singleton
<1>5. /\ IsFiniteSet({h} \X (low + 1 .. high))
      /\ Cardinality({h} \X (low + 1 .. high)) = Cardinality({h}) * Cardinality(low + 1 .. high)
  BY <1>2, <1>4, FS_Product, Zenon
<1>6. QED
  BY <1>3, <1>4, <1>5 DEF Ranks

(* Membership, element by element.                                         *)
LEMMA InRanks ==
  ASSUME NEW h, NEW low \in Nat, NEW high \in Nat, NEW t
  PROVE  t \in Ranks(h, low, high) <=> \E i \in Nat : t = <<h, i>> /\ low < i /\ i <= high
<1>1. \A i : i \in low + 1 .. high <=> i \in Nat /\ low < i /\ i <= high
  OBVIOUS
<1>2. t \in {h} \X (low + 1 .. high) <=> \E i \in low + 1 .. high : t = <<h, i>>
  OBVIOUS
<1>3. QED
  BY <1>1, <1>2 DEF Ranks

LEMMA InTokensOf ==
  ASSUME NEW S, NEW count, \A s \in S : count[s] \in Nat, NEW t
  PROVE  t \in TokensOf(count, S)
           <=> \E s \in S : \E i \in Nat : t = <<s, i>> /\ 0 < i /\ i <= count[s]
<1>1. t \in TokensOf(count, S) <=> \E s \in S : t \in Ranks(s, 0, count[s])
  BY DEF TokensOf
<1>2. \A s \in S : t \in Ranks(s, 0, count[s])
                     <=> \E i \in Nat : t = <<s, i>> /\ 0 < i /\ i <= count[s]
  BY InRanks
<1>3. QED
  BY <1>1, <1>2

(* The tokens of finitely many holders are finitely many, so a total of    *)
(* token counts is a natural number.                                       *)
LEMMA TotalNat ==
  ASSUME NEW S, IsFiniteSet(S), NEW count, \A s \in S : count[s] \in Nat
  PROVE  IsFiniteSet(TokensOf(count, S)) /\ TotalOver(count, S) \in Nat
<1> DEFINE block == [s \in S |-> Ranks(s, 0, count[s])]
           blocks == {Ranks(s, 0, count[s]) : s \in S}
<1>1. block \in Surjection(S, blocks)
  BY DEF Surjection
<1>2. IsFiniteSet(blocks)
  BY <1>1, FS_Surjection
<1>3. \A b \in blocks : IsFiniteSet(b)
  BY RanksSize
<1>4. IsFiniteSet(TokensOf(count, S))
  BY <1>2, <1>3, FS_UNION DEF TokensOf
<1>5. QED
  BY <1>4, FS_CardinalityType DEF TotalOver

(* When one holder gains tokens, the total grows by as many: the effect of *)
(* one iteration of weighted_fill or of the donor loop on a sum.           *)
LEMMA TotalAdd ==
  ASSUME NEW S, IsFiniteSet(S), NEW before, NEW after, NEW m \in S,
         \A s \in S : before[s] \in Nat /\ after[s] \in Nat,
         before[m] <= after[m],
         \A s \in S \ {m} : after[s] = before[s]
  PROVE  TotalOver(after, S) = TotalOver(before, S) + (after[m] - before[m])
<1> DEFINE gained == Ranks(m, before[m], after[m])
<1>1. /\ before[m] \in Nat /\ after[m] \in Nat
      /\ before[m] <= after[m]
      /\ \A s \in S : after[s] \in Nat
      /\ \A s \in S : s # m => after[s] = before[s]
  OBVIOUS
<1>2. TokensOf(after, S) = TokensOf(before, S) \cup gained
  <2>1. ASSUME NEW t \in TokensOf(after, S)
        PROVE  t \in TokensOf(before, S) \cup gained
    <3>1. PICK s \in S, i \in Nat : t = <<s, i>> /\ 0 < i /\ i <= after[s]
      BY <1>1, InTokensOf
    <3>2. CASE i <= before[s]
      BY <3>1, <3>2, <1>1, InTokensOf
    <3>3. CASE ~(i <= before[s])
      <4>1. s = m
        BY <3>1, <3>3, <1>1
      <4>2. before[m] < i
        BY <3>3, <4>1, <1>1
      <4>3. QED
        BY <3>1, <4>1, <4>2, <1>1, InRanks
    <3>4. QED
      BY <3>2, <3>3
  <2>2. ASSUME NEW t \in TokensOf(before, S)
        PROVE  t \in TokensOf(after, S)
    <3>1. PICK s \in S, i \in Nat : t = <<s, i>> /\ 0 < i /\ i <= before[s]
      BY InTokensOf
    <3>2. i <= after[s]
      BY <3>1, <1>1
    <3>3. QED
      BY <3>1, <3>2, <1>1, InTokensOf
  <2>3. ASSUME NEW t \in gained
        PROVE  t \in TokensOf(after, S)
    <3>1. PICK i \in Nat : t = <<m, i>> /\ before[m] < i /\ i <= after[m]
      BY <1>1, InRanks
    <3>2. 0 < i
      BY <3>1, <1>1
    <3>3. QED
      BY <3>1, <3>2, <1>1, InTokensOf
  <2>4. QED
    BY <2>1, <2>2, <2>3
<1>3. TokensOf(before, S) \cap gained = {}
  <2>1. SUFFICES ASSUME NEW t \in TokensOf(before, S), t \in gained PROVE FALSE
    OBVIOUS
  <2>2. PICK s \in S, i \in Nat : t = <<s, i>> /\ 0 < i /\ i <= before[s]
    BY InTokensOf
  <2>3. PICK j \in Nat : t = <<m, j>> /\ before[m] < j /\ j <= after[m]
    BY <2>1, <1>1, InRanks
  <2>4. s = m /\ i = j
    BY <2>2, <2>3
  <2>5. QED
    BY <2>2, <2>3, <2>4, <1>1
<1>4. IsFiniteSet(gained) /\ Cardinality(gained) = after[m] - before[m]
  BY <1>1, RanksSize
<1>5. IsFiniteSet(TokensOf(before, S))
  BY TotalNat
<1>6. QED
  <2>1. Cardinality(TokensOf(after, S))
          = Cardinality(TokensOf(before, S)) + Cardinality(gained) - Cardinality({})
    BY <1>2, <1>3, <1>4, <1>5, FS_Union
  <2>2. TotalOver(before, S) \in Nat
    BY TotalNat
  <2>3. QED
    BY <2>1, <2>2, <1>1, <1>4, FS_EmptySet DEF TotalOver

(* A total does not shrink when every holder holds at least as much.       *)
LEMMA TotalMonotone ==
  ASSUME NEW S, IsFiniteSet(S), NEW less, NEW more,
         \A s \in S : less[s] \in Nat /\ more[s] \in Nat /\ less[s] <= more[s]
  PROVE  TotalOver(less, S) <= TotalOver(more, S)
<1>1. TokensOf(less, S) \subseteq TokensOf(more, S)
  <2>1. SUFFICES ASSUME NEW t \in TokensOf(less, S) PROVE t \in TokensOf(more, S)
    OBVIOUS
  <2>2. PICK s \in S, i \in Nat : t = <<s, i>> /\ 0 < i /\ i <= less[s]
    BY InTokensOf
  <2>3. i <= more[s]
    BY <2>2
  <2>4. QED
    BY <2>2, <2>3, InTokensOf
<1>2. IsFiniteSet(TokensOf(more, S))
  BY TotalNat
<1>3. QED
  BY <1>1, <1>2, FS_Subset DEF TotalOver

(* A total is at least what any one holder holds.                          *)
LEMMA TotalBoundsMember ==
  ASSUME NEW S, IsFiniteSet(S), NEW count, \A s \in S : count[s] \in Nat, NEW m \in S
  PROVE  count[m] <= TotalOver(count, S)
<1>1. Ranks(m, 0, count[m]) \subseteq TokensOf(count, S)
  BY DEF TokensOf
<1>2. IsFiniteSet(TokensOf(count, S))
  BY TotalNat
<1>3. Cardinality(Ranks(m, 0, count[m])) = count[m]
  <2>1. count[m] \in Nat /\ 0 <= count[m]
    OBVIOUS
  <2>2. QED
    BY <2>1, RanksSize
<1>4. QED
  BY <1>1, <1>2, <1>3, FS_Subset DEF TotalOver

(* A member's tokens are added to those of the others.                     *)
LEMMA TotalInsert ==
  ASSUME NEW S, IsFiniteSet(S), NEW m, m \notin S, NEW count,
         \A s \in S \cup {m} : count[s] \in Nat
  PROVE  /\ IsFiniteSet(S \cup {m})
         /\ TotalOver(count, S \cup {m}) = TotalOver(count, S) + count[m]
<1> DEFINE all == S \cup {m}
           own == Ranks(m, 0, count[m])
<1>1. \A s \in all : count[s] \in Nat
  OBVIOUS
<1>2. IsFiniteSet(all)
  BY FS_AddElement
<1>3. TokensOf(count, all) = TokensOf(count, S) \cup own
  BY DEF TokensOf
<1>4. TokensOf(count, S) \cap own = {}
  <2>1. SUFFICES ASSUME NEW t, t \in TokensOf(count, S), t \in own PROVE FALSE
    OBVIOUS
  <2>2. PICK s \in S, i \in Nat : t = <<s, i>>
    BY <2>1, InTokensOf
  <2>3. PICK j \in Nat : t = <<m, j>>
    <3>1. count[m] \in Nat /\ 0 \in Nat
      BY <1>1
    <3>2. QED
      BY <2>1, <3>1, InRanks
  <2>4. QED
    BY <2>2, <2>3
<1>5. /\ IsFiniteSet(TokensOf(count, S)) /\ Cardinality(TokensOf(count, S)) \in Nat
      /\ IsFiniteSet(own) /\ Cardinality(own) = count[m]
  <2>1. IsFiniteSet(TokensOf(count, S)) /\ TotalOver(count, S) \in Nat
    BY <1>1, TotalNat
  <2>2. count[m] \in Nat /\ 0 \in Nat /\ 0 <= count[m] /\ count[m] - 0 = count[m]
    BY <1>1
  <2>3. QED
    BY <2>1, <2>2, RanksSize DEF TotalOver
<1>6. Cardinality(TokensOf(count, S) \cup own)
        = Cardinality(TokensOf(count, S)) + Cardinality(own)
            - Cardinality(TokensOf(count, S) \cap own)
  BY <1>5, FS_Union
<1>7. Cardinality({}) = 0
  BY FS_EmptySet
<1>8. Cardinality(TokensOf(count, all)) = Cardinality(TokensOf(count, S)) + count[m]
  <2>1. count[m] \in Nat
    BY <1>1
  <2>2. Cardinality(TokensOf(count, S) \cup own)
          = Cardinality(TokensOf(count, S)) + count[m] - 0
    BY <1>4, <1>5, <1>6, <1>7
  <2>3. Cardinality(TokensOf(count, S)) + count[m] - 0 = Cardinality(TokensOf(count, S)) + count[m]
    BY <1>5, <2>1
  <2>4. QED
    BY <1>3, <2>2, <2>3
<1>9. QED
  BY <1>2, <1>8 DEF TotalOver

(* Some of the members hold no more than all of them.                      *)
LEMMA TotalOfSome ==
  ASSUME NEW S, IsFiniteSet(S), NEW T \in SUBSET S, NEW count,
         \A s \in S : count[s] \in Nat
  PROVE  TotalOver(count, T) <= TotalOver(count, S)
<1>1. TokensOf(count, T) \subseteq TokensOf(count, S)
  BY DEF TokensOf
<1>2. IsFiniteSet(TokensOf(count, S))
  BY TotalNat
<1>3. QED
  BY <1>1, <1>2, FS_Subset DEF TotalOver

(* The total does not depend on who the holders are.                       *)
LEMMA TotalRenamed ==
  ASSUME NEW S, NEW T, IsFiniteSet(S), NEW name \in Bijection(S, T), NEW count, NEW renamed,
         \A t \in T : count[t] \in Nat, \A s \in S : renamed[s] = count[name[s]]
  PROVE  IsFiniteSet(T) /\ TotalOver(renamed, S) = TotalOver(count, T)
<1> DEFINE A == TokensOf(renamed, S)
           B == TokensOf(count, T)
           h == [x \in A |-> <<name[x[1]], x[2]>>]
<1>1. /\ \A s \in S : name[s] \in T
      /\ \A a, b \in S : name[a] = name[b] => a = b
      /\ \A t \in T : \E s \in S : name[s] = t
  BY DEF Bijection, Injection, IsInjective, Surjection
<1>2. \A s \in S : renamed[s] \in Nat
  BY <1>1
<1>3. IsFiniteSet(T)
  BY FS_Bijection DEF ExistsBijection
<1>4. IsFiniteSet(A)
  BY <1>2, TotalNat
<1>5. \A x \in A : \E s \in S : \E i \in Nat : x = <<s, i>> /\ 0 < i /\ i <= renamed[s]
  BY <1>2, InTokensOf
<1>6. \A x : (\E t \in T : \E i \in Nat : x = <<t, i>> /\ 0 < i /\ i <= count[t]) => x \in B
  BY InTokensOf
<1>7. \A x \in B : \E t \in T : \E i \in Nat : x = <<t, i>> /\ 0 < i /\ i <= count[t]
  BY InTokensOf
<1>8. \A x : (\E s \in S : \E i \in Nat : x = <<s, i>> /\ 0 < i /\ i <= renamed[s]) => x \in A
  BY <1>2, InTokensOf
<1> HIDE DEF A, B
<1>9. \A x \in A : h[x] \in B
  <2>1. SUFFICES ASSUME NEW x \in A PROVE h[x] \in B
    OBVIOUS
  <2>2. PICK s \in S, i \in Nat : x = <<s, i>> /\ 0 < i /\ i <= renamed[s]
    BY <1>5
  <2>3. h[x] = <<name[s], i>> /\ name[s] \in T /\ i <= count[name[s]]
    BY <1>1, <2>2
  <2> QED BY <1>6, <2>2, <2>3
<1>10. \A x, y \in A : h[x] = h[y] => x = y
  <2>1. SUFFICES ASSUME NEW x \in A, NEW y \in A, h[x] = h[y] PROVE x = y
    OBVIOUS
  <2>2. PICK s \in S, i \in Nat : x = <<s, i>>
    BY <1>5
  <2>3. PICK r \in S, j \in Nat : y = <<r, j>>
    BY <1>5
  <2>4. h[x] = <<name[s], i>> /\ h[y] = <<name[r], j>>
    BY <2>2, <2>3
  <2>5. name[s] = name[r] /\ i = j
    BY <2>1, <2>4
  <2> QED BY <1>1, <2>2, <2>3, <2>5
<1>11. \A z \in B : \E x \in A : h[x] = z
  <2>1. SUFFICES ASSUME NEW z \in B PROVE \E x \in A : h[x] = z
    OBVIOUS
  <2>2. PICK t \in T, i \in Nat : z = <<t, i>> /\ 0 < i /\ i <= count[t]
    BY <1>7
  <2>3. PICK s \in S : name[s] = t
    BY <1>1
  <2>4. <<s, i>> \in A
    BY <1>8, <2>2, <2>3
  <2>5. h[<<s, i>>] = z
    BY <2>2, <2>3, <2>4
  <2> QED BY <2>4, <2>5
<1> HIDE DEF h
<1>12. h \in Bijection(A, B)
  <2>1. h \in [A -> B]
    BY <1>9 DEF h
  <2> QED BY <1>10, <1>11, <2>1 DEF Bijection, Injection, IsInjective, Surjection
<1>13. Cardinality(B) = Cardinality(A)
  BY <1>4, <1>12, FS_Bijection DEF ExistsBijection
<1> QED BY <1>3, <1>13 DEF TotalOver, A, B

-----------------------------------------------------------------------------
(* Selected members of a sequence.                                         *)

(* Smaller positions have smaller places.                                  *)
LEMMA PlaceIncreases ==
  ASSUME NEW I \in SUBSET Nat, IsFiniteSet(I), NEW i \in I
  PROVE  /\ Place(I, i) \in 1 .. Cardinality(I)
         /\ \A j \in I : i < j => Place(I, i) < Place(I, j)
<1> DEFINE upTo(j) == {k \in I : k <= j}
<1>1. \A j \in I : upTo(j) \in SUBSET I
  OBVIOUS
<1>2. \A j \in I : /\ IsFiniteSet(upTo(j)) /\ Cardinality(upTo(j)) \in Nat
                  /\ Cardinality(upTo(j)) <= Cardinality(I)
  BY <1>1, FS_Subset, FS_CardinalityType
<1>3. Cardinality(I) \in Nat
  BY FS_CardinalityType
<1>4. i \in upTo(i)
  OBVIOUS
<1>5. Cardinality(upTo(i)) # 0
  BY <1>2, <1>4, FS_EmptySet
<1>6. ASSUME NEW j \in I, i < j
      PROVE  Cardinality(upTo(i)) < Cardinality(upTo(j))
  <2>1. upTo(i) \in SUBSET upTo(j) /\ j \in upTo(j) /\ j \notin upTo(i)
    <3>1. \A k \in I : k \in Nat
      OBVIOUS
    <3>2. \A k \in I : k <= i => k <= j
      BY <1>6, <3>1
    <3>3. j <= j /\ ~(j <= i)
      BY <1>6, <3>1
    <3>4. QED
      BY <3>2, <3>3
  <2>2. /\ Cardinality(upTo(i)) <= Cardinality(upTo(j))
        /\ Cardinality(upTo(j)) = Cardinality(upTo(i)) => upTo(j) = upTo(i)
    BY <1>2, <2>1, FS_Subset, Zenon
  <2>3. Cardinality(upTo(i)) # Cardinality(upTo(j))
    BY <2>1, <2>2
  <2>4. QED
    BY <1>2, <2>2, <2>3
<1>7. QED
  BY <1>2, <1>3, <1>5, <1>6 DEF Place

(* AtPlace enumerates the positions in their order, and leaves none out.   *)
LEMMA AtPlaceInOrder ==
  ASSUME NEW I \in SUBSET Nat, IsFiniteSet(I)
  PROVE  /\ \A k \in 1 .. Cardinality(I) : AtPlace(I, k) \in I
         /\ \A k, n \in 1 .. Cardinality(I) : k < n => AtPlace(I, k) < AtPlace(I, n)
         /\ \A i \in I : \E k \in 1 .. Cardinality(I) : AtPlace(I, k) = i
<1> DEFINE size == Cardinality(I)
           place == [i \in I |-> Place(I, i)]
<1>1. size \in Nat
  BY FS_CardinalityType
<1>2. \A i \in I : Place(I, i) \in 1 .. size
  BY PlaceIncreases
<1>3. \A i, j \in I : i < j => Place(I, i) < Place(I, j)
  BY PlaceIncreases
<1>4. \A i, j \in I : Place(I, i) = Place(I, j) => i = j
  BY <1>1, <1>2, <1>3
<1>5. place \in Injection(I, 1 .. size)
  BY <1>2, <1>4 DEF Injection, IsInjective
<1>6. IsFiniteSet(1 .. size) /\ Cardinality(1 .. size) = size
  BY <1>1, FS_Interval
<1>7. place \in Surjection(I, 1 .. size)
  BY <1>5, <1>6, FS_Injection
<1>8. \A k \in 1 .. size : \E i \in I : Place(I, i) = k
  BY <1>7 DEF Surjection
<1>9. \A k \in 1 .. size : AtPlace(I, k) \in I /\ Place(I, AtPlace(I, k)) = k
  BY <1>8 DEF AtPlace
<1>10. ASSUME NEW k \in 1 .. size, NEW n \in 1 .. size, k < n
       PROVE  AtPlace(I, k) < AtPlace(I, n)
  <2> DEFINE a == AtPlace(I, k)
             b == AtPlace(I, n)
  <2>1. a \in I /\ b \in I /\ Place(I, a) = k /\ Place(I, b) = n
    BY <1>9
  <2>2. a # b
    BY <1>10, <2>1
  <2>3. ~(b < a)
    <3>1. b < a => n < k
      BY <1>3, <2>1
    <3>2. QED
      BY <3>1, <1>10
  <2>4. a \in Nat /\ b \in Nat
    BY <2>1
  <2>5. QED
    BY <2>2, <2>3, <2>4
<1>11. \A i \in I : AtPlace(I, Place(I, i)) = i
  BY <1>2, <1>4, <1>9
<1>12. QED
  BY <1>2, <1>9, <1>10, <1>11

(* What Selected promises to those who use it: its members are those of s  *)
(* at the positions I, in the order they have in s.                        *)
LEMMA SelectedInOrder ==
  ASSUME NEW S, NEW s \in Seq(S), NEW I \in SUBSET (DOMAIN s)
  PROVE  /\ Selected(s, I) \in Seq(S)
         /\ Len(Selected(s, I)) <= Len(s)
         /\ \A k \in 1 .. Len(Selected(s, I)) :
              \E i \in I :
                /\ Selected(s, I)[k] = s[i]
                /\ \A n \in 1 .. Len(Selected(s, I)) :
                     k < n => \E j \in I : i < j /\ Selected(s, I)[n] = s[j]
         /\ \A i \in I : \E k \in 1 .. Len(Selected(s, I)) : Selected(s, I)[k] = s[i]
<1> DEFINE size == Cardinality(I)
<1>1. /\ Len(s) \in Nat /\ DOMAIN s = 1 .. Len(s)
      /\ IsFiniteSet(DOMAIN s) /\ Cardinality(DOMAIN s) = Len(s)
  <2>1. Len(s) \in Nat /\ DOMAIN s = 1 .. Len(s)
    OBVIOUS
  <2>2. 1 \in Int /\ Len(s) \in Int
    BY <2>1
  <2>3. /\ IsFiniteSet(1 .. Len(s))
        /\ Cardinality(1 .. Len(s)) = IF 1 > Len(s) THEN 0 ELSE Len(s) - 1 + 1
    BY <2>2, FS_Interval
  <2>4. Cardinality(1 .. Len(s)) = Len(s)
    BY <2>1, <2>3
  <2>5. QED
    BY <2>1, <2>3, <2>4
<1>2. IsFiniteSet(I) /\ size <= Len(s) /\ size \in Nat /\ I \in SUBSET Nat
  BY <1>1, FS_Subset, FS_CardinalityType
<1>3. /\ \A k \in 1 .. size : AtPlace(I, k) \in I
      /\ \A k, n \in 1 .. size : k < n => AtPlace(I, k) < AtPlace(I, n)
      /\ \A i \in I : \E k \in 1 .. size : AtPlace(I, k) = i
  BY <1>2, AtPlaceInOrder
<1>4. \A i \in I : s[i] \in S
  BY <1>1
<1>5. /\ Selected(s, I) \in Seq(S) /\ Len(Selected(s, I)) = size
      /\ \A k \in 1 .. size : Selected(s, I)[k] = s[AtPlace(I, k)]
  BY <1>2, <1>3, <1>4 DEF Selected
<1>6. QED
  BY <1>2, <1>3, <1>5

-----------------------------------------------------------------------------
(* Numbers.                                                                *)

(* A set of numbers has a least one: the one at its first place.           *)
LEMMA LeastNat ==
  ASSUME NEW T \in SUBSET Nat, NEW n \in T
  PROVE  \E i \in T : \A j \in T : i <= j
<1> DEFINE I == {j \in T : j <= n}
<1>1. I \in SUBSET (0 .. n) /\ I \in SUBSET Nat /\ n \in I
  <2>1. n \in Nat /\ \A j \in I : j \in Nat /\ j <= n
    OBVIOUS
  <2>2. \A j \in I : j \in 0 .. n
    BY <2>1
  <2>3. I \in SUBSET (0 .. n)
    BY <2>2
  <2>4. n \in I
    OBVIOUS
  <2>5. I \in SUBSET Nat
    BY <2>1
  <2>6. QED
    BY <2>3, <2>4, <2>5
<1>2. IsFiniteSet(0 .. n)
  BY FS_Interval
<1>3. IsFiniteSet(I)
  BY <1>1, <1>2, FS_Subset
<1> HIDE DEF I
<1>4. Cardinality(I) \in Nat /\ Cardinality(I) # 0
  BY <1>1, <1>3, FS_CardinalityType, FS_EmptySet
<1>5. /\ \A k \in 1 .. Cardinality(I) : AtPlace(I, k) \in I
      /\ \A k, l \in 1 .. Cardinality(I) : k < l => AtPlace(I, k) < AtPlace(I, l)
      /\ \A i \in I : \E k \in 1 .. Cardinality(I) : AtPlace(I, k) = i
  BY <1>1, <1>3, AtPlaceInOrder
<1>6. 1 \in 1 .. Cardinality(I)
  BY <1>4
<1> DEFINE i == AtPlace(I, 1)
<1>7. i \in I
  BY <1>5, <1>6
<1>8. \A j \in I : i <= j
  <2>1. SUFFICES ASSUME NEW j \in I PROVE i <= j
    OBVIOUS
  <2>2. PICK k \in 1 .. Cardinality(I) : AtPlace(I, k) = j
    BY <1>5
  <2>3. k = 1 \/ 1 < k
    BY <1>4
  <2>4. i \in Nat /\ j \in Nat
    BY <1>1, <1>7
  <2>5. QED
    BY <1>5, <1>6, <2>2, <2>3, <2>4
<1> HIDE DEF i
<1>9. i \in T /\ i <= n
  BY <1>7 DEF I
<1>10. \A j \in T : i <= j
  <2>1. SUFFICES ASSUME NEW j \in T PROVE i <= j
    OBVIOUS
  <2>2. CASE j <= n
    BY <1>8, <2>2 DEF I
  <2>3. CASE ~(j <= n)
    BY <1>9, <2>3
  <2>4. QED
    BY <2>2, <2>3
<1>11. QED
  BY <1>9, <1>10

(* Induction, for a set of numbers instead of a predicate, with which it   *)
(* can be applied to any definition.                                       *)
LEMMA NatSetInduction ==
  ASSUME NEW S, 0 \in S, \A n \in Nat : n \in S => n + 1 \in S
  PROVE  \A n \in Nat : n \in S
<1> SUFFICES ASSUME NEW n \in Nat, n \notin S PROVE FALSE
  OBVIOUS
<1> DEFINE T == {k \in Nat : k \notin S}
<1>1. T \in SUBSET Nat /\ n \in T
  OBVIOUS
<1>2. PICK i \in T : \A j \in T : i <= j
  BY <1>1, LeastNat
<1>3. i # 0 /\ i - 1 \in Nat /\ i - 1 \notin T
  BY <1>2
<1>4. QED
  BY <1>2, <1>3

(* A bounded set of numbers has a greatest one.                            *)
LEMMA GreatestNat ==
  ASSUME NEW T \in SUBSET Nat, NEW n \in T, NEW m \in Nat, \A j \in T : j <= m
  PROVE  \E i \in T : \A j \in T : j <= i
<1> DEFINE bounds == {b \in Nat : \A j \in T : j <= b}
<1>1. bounds \in SUBSET Nat /\ m \in bounds
  OBVIOUS
<1>2. PICK i \in bounds : \A b \in bounds : i <= b
  BY <1>1, LeastNat
<1>3. i \in Nat /\ \A j \in T : j \in Nat /\ j <= i
  BY <1>2
<1>4. CASE i \in T
  BY <1>3, <1>4
<1>5. CASE i \notin T
  <2>1. \A j \in T : j <= i - 1
    BY <1>3, <1>5
  <2>2. i - 1 \in Nat
    BY <1>3, <2>1
  <2>3. i - 1 \in bounds
    BY <2>1, <2>2
  <2> QED BY <1>2, <1>3, <2>3
<1> QED BY <1>4, <1>5

-----------------------------------------------------------------------------
(* Sequences: a sorted set, and loops.                                     *)

(* A concatenation, member by member.                                      *)
LEMMA Concatenated ==
  ASSUME NEW S, NEW s \in Seq(S), NEW t \in Seq(S)
  PROVE  /\ s \o t \in Seq(S) /\ Len(s \o t) = Len(s) + Len(t)
         /\ \A i \in 1 .. Len(s) + Len(t) :
              (s \o t)[i] = IF i <= Len(s) THEN s[i] ELSE t[i - Len(s)]
<1>1. s \o t \in Seq(S)
  OBVIOUS
<1>2. Len(s \o t) = Len(s) + Len(t)
  OBVIOUS
<1>3. \A i \in 1 .. Len(s) + Len(t) : (s \o t)[i] = IF i <= Len(s) THEN s[i] ELSE t[i - Len(s)]
  OBVIOUS
<1> QED BY <1>1, <1>2, <1>3

(* A member added at the end, or at the beginning.                         *)
LEMMA AddedTo ==
  ASSUME NEW S, NEW s \in Seq(S), NEW t \in Seq(S), NEW x, Len(t) = 1, t[1] = x,
         NEW size, size = Len(s)
  PROVE  /\ s \o t \in Seq(S) /\ Len(s \o t) = size + 1
         /\ (s \o t)[size + 1] = x /\ \A k \in 1 .. size : (s \o t)[k] = s[k]
         /\ t \o s \in Seq(S) /\ Len(t \o s) = size + 1
         /\ (t \o s)[1] = x /\ \A k \in 2 .. size + 1 : (t \o s)[k] = s[k - 1]
<1>1. size \in Nat
  OBVIOUS
<1>2. /\ s \o t \in Seq(S) /\ Len(s \o t) = size + 1
      /\ \A i \in 1 .. size + 1 : (s \o t)[i] = IF i <= size THEN s[i] ELSE t[i - size]
  <2>1. /\ s \o t \in Seq(S) /\ Len(s \o t) = Len(s) + Len(t)
        /\ \A i \in 1 .. Len(s) + Len(t) :
             (s \o t)[i] = IF i <= Len(s) THEN s[i] ELSE t[i - Len(s)]
    BY Concatenated, Zenon
  <2>2. Len(s) + Len(t) = size + 1 /\ Len(s) = size
    OBVIOUS
  <2> QED BY <2>1, <2>2, Zenon
<1>3. /\ t \o s \in Seq(S) /\ Len(t \o s) = 1 + size
      /\ \A i \in 1 .. 1 + size : (t \o s)[i] = IF i <= 1 THEN t[i] ELSE s[i - 1]
  <2>1. /\ t \o s \in Seq(S) /\ Len(t \o s) = Len(t) + Len(s)
        /\ \A i \in 1 .. Len(t) + Len(s) :
             (t \o s)[i] = IF i <= Len(t) THEN t[i] ELSE s[i - Len(t)]
    BY Concatenated, Zenon
  <2>2. Len(t) + Len(s) = 1 + size /\ Len(t) = 1
    OBVIOUS
  <2> QED BY <2>1, <2>2, Zenon
<1> DEFINE st == s \o t
           ts == t \o s
<1>4. /\ st \in Seq(S) /\ Len(st) = size + 1 /\ ts \in Seq(S) /\ Len(ts) = 1 + size
      /\ \A i \in 1 .. size + 1 : st[i] = IF i <= size THEN s[i] ELSE t[i - size]
      /\ \A i \in 1 .. 1 + size : ts[i] = IF i <= 1 THEN t[i] ELSE s[i - 1]
  BY <1>2, <1>3
<1> HIDE DEF st, ts
<1>5. st[size + 1] = x
  <2>1. size + 1 \in 1 .. size + 1 /\ ~(size + 1 <= size) /\ size + 1 - size = 1
    BY <1>1
  <2> QED BY <1>4, <2>1
<1>6. \A k \in 1 .. size : st[k] = s[k]
  BY <1>1, <1>4
<1>7. ts[1] = x
  BY <1>1, <1>4
<1>8. \A k \in 2 .. size + 1 : ts[k] = s[k - 1]
  BY <1>1, <1>4
<1>9. Len(ts) = size + 1
  BY <1>1, <1>4
<1> QED BY <1>4, <1>5, <1>6, <1>7, <1>8, <1>9 DEF st, ts

(* A sequence over some of the members of S is one over S.                 *)
LEMMA InSeqOfMore ==
  ASSUME NEW S, NEW T \in SUBSET S, NEW s \in Seq(T)
  PROVE  s \in Seq(S)
OBVIOUS

(* A sort key never leaves two members unordered.                          *)
Sorts(before, S) ==
  /\ \A x \in S : <<x, x>> \notin before
  /\ \A x, y, z \in S : <<x, y>> \in before /\ <<y, z>> \in before => <<x, z>> \in before
  /\ \A x, y \in S : x # y => <<x, y>> \in before \/ <<y, x>> \in before

(* What sorting promises: a sequence of the members, each at one place, in *)
(* their order.                                                            *)
LEMMA InOrderSorted ==
  ASSUME NEW S, IsFiniteSet(S), NEW before, Sorts(before, S),
         NEW size, size = Cardinality(S), NEW order, order = InOrder(S, before)
  PROVE  /\ size \in Nat /\ order \in [1 .. size -> S]
         /\ order \in Seq(S) /\ Len(order) = size
         /\ \A x \in S : \E k \in 1 .. size : order[k] = x
         /\ \A k, n \in 1 .. size : k < n => <<order[k], order[n]>> \in before
         /\ \A k, n \in 1 .. size : order[k] = order[n] => k = n
<1> DEFINE upTo(x) == {y \in S : y = x \/ <<y, x>> \in before}
           rank == [x \in S |-> RankIn(S, before, x)]
<1>1. /\ \A x \in S : <<x, x>> \notin before
      /\ \A x, y, z \in S : <<x, y>> \in before /\ <<y, z>> \in before => <<x, z>> \in before
      /\ \A x, y \in S : x # y => <<x, y>> \in before \/ <<y, x>> \in before
  BY DEF Sorts
<1>2. size \in Nat
  BY FS_CardinalityType
<1>3. \A x \in S : upTo(x) \in SUBSET S
  OBVIOUS
<1>4. \A x \in S : /\ IsFiniteSet(upTo(x)) /\ Cardinality(upTo(x)) \in Nat
                  /\ Cardinality(upTo(x)) <= size
  BY <1>3, FS_Subset, FS_CardinalityType
<1>5. \A x \in S : RankIn(S, before, x) = Cardinality(upTo(x))
  BY DEF RankIn
<1>6. \A x \in S : Cardinality(upTo(x)) # 0
  <2>1. \A x \in S : x \in upTo(x)
    OBVIOUS
  <2> QED BY <1>4, <2>1, FS_EmptySet
<1>7. ASSUME NEW x \in S, NEW y \in S, <<x, y>> \in before
      PROVE  RankIn(S, before, x) < RankIn(S, before, y)
  <2>1. upTo(x) \in SUBSET upTo(y)
    BY <1>1, <1>7
  <2>2. y \in upTo(y) /\ y \notin upTo(x)
    BY <1>1, <1>7
  <2> HIDE DEF upTo
  <2>3. /\ Cardinality(upTo(x)) <= Cardinality(upTo(y))
        /\ Cardinality(upTo(y)) = Cardinality(upTo(x)) => upTo(y) = upTo(x)
    BY <1>4, <2>1, FS_Subset, Zenon
  <2>4. Cardinality(upTo(x)) # Cardinality(upTo(y))
    BY <2>2, <2>3
  <2> QED BY <1>4, <1>5, <2>3, <2>4
<1>8. \A x \in S : RankIn(S, before, x) \in 1 .. size
  <2>1. SUFFICES ASSUME NEW x \in S PROVE RankIn(S, before, x) \in 1 .. size
    OBVIOUS
  <2> DEFINE n == Cardinality(upTo(x))
  <2>2. n \in Nat /\ n <= size /\ n # 0 /\ RankIn(S, before, x) = n
    BY <1>4, <1>5, <1>6
  <2> HIDE DEF n
  <2> QED BY <1>2, <2>2
<1>9. \A x, y \in S : RankIn(S, before, x) = RankIn(S, before, y) => x = y
  <2>1. SUFFICES ASSUME NEW x \in S, NEW y \in S, RankIn(S, before, x) = RankIn(S, before, y), x # y
                 PROVE  FALSE
    OBVIOUS
  <2>2. <<x, y>> \in before \/ <<y, x>> \in before
    BY <1>1, <2>1
  <2>3. RankIn(S, before, x) \in Int /\ RankIn(S, before, y) \in Int
    BY <1>8
  <2> QED BY <1>7, <2>1, <2>2, <2>3
<1>10. rank \in Injection(S, 1 .. size)
  BY <1>8, <1>9 DEF Injection, IsInjective
<1>11. IsFiniteSet(1 .. size) /\ Cardinality(1 .. size) = size
  BY <1>2, FS_Interval
<1>12. rank \in Surjection(S, 1 .. size)
  BY <1>10, <1>11, FS_Injection
<1>13. \A k \in 1 .. size : \E x \in S : RankIn(S, before, x) = k
  BY <1>12 DEF Surjection
<1>14. /\ order = [k \in 1 .. size |-> CHOOSE x \in S : RankIn(S, before, x) = k]
       /\ \A k \in 1 .. size : order[k] = CHOOSE x \in S : RankIn(S, before, x) = k
  BY DEF InOrder
<1>15. \A k \in 1 .. size : order[k] \in S /\ RankIn(S, before, order[k]) = k
  BY <1>13, <1>14
<1>16. order \in [1 .. size -> S]
  BY <1>14, <1>15
<1>17. order \in Seq(S) /\ Len(order) = size
  BY <1>2, <1>16
<1>18. \A x \in S : order[RankIn(S, before, x)] = x
  BY <1>8, <1>9, <1>15
<1>19. ASSUME NEW k \in 1 .. size, NEW n \in 1 .. size, k < n
       PROVE  <<order[k], order[n]>> \in before
  <2>1. order[k] # order[n]
    BY <1>15, <1>19
  <2>2. ~(<<order[n], order[k]>> \in before)
    <3>1. SUFFICES ASSUME <<order[n], order[k]>> \in before PROVE FALSE
      OBVIOUS
    <3>2. n < k
      BY <1>7, <1>15, <3>1
    <3> QED BY <1>2, <1>19, <3>2
  <2> QED BY <1>1, <1>15, <2>1, <2>2
<1>20. \A x \in S : \E k \in 1 .. size : order[k] = x
  BY <1>8, <1>18
<1>21. \A k, n \in 1 .. size : order[k] = order[n] => k = n
  BY <1>15
<1> QED BY <1>2, <1>16, <1>17, <1>19, <1>20, <1>21

(* A loop is the sequence of what it has made so far.                      *)
Runs(f, A, step, base, s) ==
  /\ f \in [0 .. Len(s) -> A]
  /\ f[0] = base
  /\ \A k \in 1 .. Len(s) : f[k] = step[f[k - 1]][s[k]]
  /\ Folded(step, base, s) = f[Len(s)]

LEMMA FoldedRuns ==
  ASSUME NEW A, NEW E, NEW step, \A a \in A, e \in E : step[a][e] \in A,
         NEW base \in A, NEW s \in Seq(E)
  PROVE  \E f : Runs(f, A, step, base, s)
<1> DEFINE body(f, k) == IF k = 0 THEN base ELSE step[f[k - 1]][s[k]]
           Solved == {n \in Nat : n <= Len(s) =>
                        \E f \in [0 .. n -> A] : \A k \in 0 .. n : f[k] = body(f, k)}
<1>1. Len(s) \in Nat
  OBVIOUS
<1>2. 0 \in Solved
  <2> DEFINE f == [k \in 0 .. 0 |-> base]
  <2>1. f \in [0 .. 0 -> A] /\ \A k \in 0 .. 0 : f[k] = body(f, k)
    OBVIOUS
  <2> QED BY <2>1
<1>3. ASSUME NEW n \in Nat, n \in Solved PROVE n + 1 \in Solved
  <2>1. SUFFICES ASSUME n + 1 <= Len(s)
                 PROVE  \E g \in [0 .. n + 1 -> A] : \A k \in 0 .. n + 1 : g[k] = body(g, k)
    OBVIOUS
  <2>2. PICK f \in [0 .. n -> A] : \A k \in 0 .. n : f[k] = body(f, k)
    <3>1. n <= Len(s)
      BY <1>1, <2>1
    <3> QED BY <1>3, <3>1
  <2> DEFINE last == step[f[n]][s[n + 1]]
             g == [k \in 0 .. n + 1 |-> IF k = n + 1 THEN last ELSE f[k]]
  <2>3. last \in A
    <3>1. n + 1 \in 1 .. Len(s) /\ f[n] \in A
      BY <1>1, <2>1, <2>2
    <3>2. s[n + 1] \in E
      BY <3>1
    <3> QED BY <3>1, <3>2
  <2> HIDE DEF last
  <2>4. \A k \in 0 .. n + 1 : g[k] = IF k = n + 1 THEN last ELSE f[k]
    OBVIOUS
  <2>5. g \in [0 .. n + 1 -> A]
    <3>1. \A k \in 0 .. n + 1 : (IF k = n + 1 THEN last ELSE f[k]) \in A
      <4>1. \A k \in 0 .. n + 1 : k # n + 1 => k \in 0 .. n
        OBVIOUS
      <4> QED BY <2>2, <2>3, <4>1
    <3> QED BY <3>1
  <2>6. ASSUME NEW k \in 0 .. n + 1 PROVE g[k] = body(g, k)
    <3>1. CASE k = 0
      <4>1. 0 \in 0 .. n /\ 0 # n + 1 /\ f[0] = base
        BY <2>2
      <4> QED BY <2>4, <3>1, <4>1
    <3>2. CASE k = n + 1
      <4>1. g[k - 1] = f[n] /\ k # 0 /\ g[k] = last
        BY <2>4, <3>2
      <4> QED BY <3>2, <4>1 DEF last
    <3>3. CASE k # 0 /\ k # n + 1
      <4>1. /\ k \in 0 .. n /\ k - 1 \in 0 .. n + 1 /\ k - 1 # n + 1
            /\ g[k - 1] = f[k - 1] /\ g[k] = f[k]
        BY <2>4, <3>3
      <4> QED BY <2>2, <3>3, <4>1
    <3> QED BY <3>1, <3>2, <3>3
  <2> QED BY <2>5, <2>6
<1> HIDE DEF Solved, body
<1>4. \A n \in Nat : n \in Solved
  BY <1>2, <1>3, NatSetInduction
<1>5. \E f \in [0 .. Len(s) -> A] : \A k \in 0 .. Len(s) : f[k] = body(f, k)
  <2>1. Len(s) \in Solved /\ Len(s) <= Len(s)
    BY <1>1, <1>4
  <2>2. Solved = {n \in Nat : n <= Len(s) =>
                   \E f \in [0 .. n -> A] : \A k \in 0 .. n : f[k] = body(f, k)}
    BY DEF Solved
  <2> QED BY <2>1, <2>2, Zenon
<1>6. PICK f \in [0 .. Len(s) -> A] : \A k \in 0 .. Len(s) : f[k] = body(f, k)
  BY <1>5, Zenon
<1> DEFINE after ==
             CHOOSE h : h = [k \in 0 .. Len(s) |-> IF k = 0 THEN base ELSE step[h[k - 1]][s[k]]]
<1>7. f = [k \in 0 .. Len(s) |-> IF k = 0 THEN base ELSE step[f[k - 1]][s[k]]]
  BY <1>6 DEF body
<1>8. after = [k \in 0 .. Len(s) |-> IF k = 0 THEN base ELSE step[after[k - 1]][s[k]]]
  BY <1>7
<1>9. Folded(step, base, s) = after[Len(s)]
  BY DEF Folded
<1> HIDE DEF after
<1>10. \A k \in 0 .. Len(s) : after[k] = IF k = 0 THEN base ELSE step[after[k - 1]][s[k]]
  BY <1>8
<1> DEFINE Typed == {n \in Nat : n <= Len(s) => after[n] \in A}
<1>11. 0 \in Typed
  BY <1>1, <1>10
<1>12. ASSUME NEW n \in Nat, n \in Typed PROVE n + 1 \in Typed
  <2>1. SUFFICES ASSUME n + 1 <= Len(s) PROVE after[n + 1] \in A
    OBVIOUS
  <2>2. /\ n + 1 \in 0 .. Len(s) /\ n + 1 # 0 /\ n + 1 - 1 = n /\ n + 1 \in 1 .. Len(s)
        /\ after[n] \in A
    BY <1>1, <1>12, <2>1
  <2>3. after[n + 1] = step[after[n]][s[n + 1]] /\ s[n + 1] \in E
    BY <1>10, <2>2
  <2> QED BY <2>2, <2>3
<1> HIDE DEF Typed
<1>13. \A n \in Nat : n \in Typed
  BY <1>11, <1>12, NatSetInduction
<1>14. \A k \in 0 .. Len(s) : after[k] \in A
  BY <1>1, <1>13 DEF Typed
<1>15. after \in [0 .. Len(s) -> A]
  BY <1>8, <1>14
<1>16. after[0] = base /\ \A k \in 1 .. Len(s) : after[k] = step[after[k - 1]][s[k]]
  BY <1>1, <1>10
<1> QED BY <1>9, <1>15, <1>16 DEF Runs

(* So what every step preserves holds of what the loop ends with.          *)
LEMMA FoldedStays ==
  ASSUME NEW A, NEW E, NEW step, \A a \in A, e \in E : step[a][e] \in A,
         NEW base \in A, NEW s \in Seq(E)
  PROVE  Folded(step, base, s) \in A
<1>1. PICK f : Runs(f, A, step, base, s)
  BY FoldedRuns
<1>2. Len(s) \in 0 .. Len(s)
  OBVIOUS
<1> QED BY <1>1, <1>2 DEF Runs

(* What a loop has made after k iterations.                                *)
FoldedTo(step, base, s, k) == Folded(step, base, [i \in 1 .. k |-> s[i]])

Advances(A, step, base, s) ==
  /\ FoldedTo(step, base, s, 0) = base
  /\ \A k \in 0 .. Len(s) : FoldedTo(step, base, s, k) \in A
  /\ \A k \in 1 .. Len(s) :
       FoldedTo(step, base, s, k) = step[FoldedTo(step, base, s, k - 1)][s[k]]
  /\ Folded(step, base, s) = FoldedTo(step, base, s, Len(s))

LEMMA FoldedSteps ==
  ASSUME NEW A, NEW E, NEW step, \A a \in A, e \in E : step[a][e] \in A,
         NEW base \in A, NEW s \in Seq(E)
  PROVE  Advances(A, step, base, s)
<1> DEFINE upTo(k) == [i \in 1 .. k |-> s[i]]
<1>1. Len(s) \in Nat /\ \A i \in 1 .. Len(s) : s[i] \in E
  OBVIOUS
<1>2. PICK f : Runs(f, A, step, base, s)
  BY FoldedRuns
<1>3. /\ f \in [0 .. Len(s) -> A] /\ f[0] = base
      /\ \A k \in 1 .. Len(s) : f[k] = step[f[k - 1]][s[k]]
      /\ Folded(step, base, s) = f[Len(s)]
  BY <1>2 DEF Runs
<1>4. ASSUME NEW k \in 0 .. Len(s) PROVE FoldedTo(step, base, s, k) = f[k]
  <2>1. k \in Nat /\ k <= Len(s)
    BY <1>1
  <2>2. upTo(k) \in Seq(E) /\ Len(upTo(k)) = k /\ \A i \in 1 .. k : upTo(k)[i] = s[i]
    <3>1. \A i \in 1 .. k : s[i] \in E
      BY <1>1, <2>1
    <3> QED BY <2>1, <3>1
  <2> HIDE DEF upTo
  <2>3. PICK g : Runs(g, A, step, base, upTo(k))
    BY <2>2, FoldedRuns
  <2>4. /\ g[0] = base /\ \A n \in 1 .. k : g[n] = step[g[n - 1]][s[n]]
        /\ Folded(step, base, upTo(k)) = g[k]
    BY <2>2, <2>3 DEF Runs
  <2> DEFINE Same == {n \in Nat : n <= k => g[n] = f[n]}
  <2>5. 0 \in Same
    BY <1>3, <2>4
  <2>6. ASSUME NEW n \in Nat, n \in Same PROVE n + 1 \in Same
    <3>1. SUFFICES ASSUME n + 1 <= k PROVE g[n + 1] = f[n + 1]
      OBVIOUS
    <3>2. n + 1 \in 1 .. k /\ n + 1 \in 1 .. Len(s) /\ n + 1 - 1 = n /\ g[n] = f[n]
      BY <1>1, <2>1, <2>6, <3>1
    <3> QED BY <1>3, <2>4, <3>2
  <2> HIDE DEF Same
  <2>7. \A n \in Nat : n \in Same
    BY <2>5, <2>6, NatSetInduction
  <2>8. g[k] = f[k]
    BY <2>1, <2>7 DEF Same
  <2> QED BY <2>4, <2>8 DEF FoldedTo, upTo
<1>5. 0 \in 0 .. Len(s) /\ Len(s) \in 0 .. Len(s)
  BY <1>1
<1>6. \A k \in 1 .. Len(s) : k \in 0 .. Len(s) /\ k - 1 \in 0 .. Len(s)
  BY <1>1
<1> QED BY <1>3, <1>4, <1>5, <1>6 DEF Advances

(* The members of a sorted set from place j + 1 on.                        *)
RestFrom(S, before, j) == {InOrder(S, before)[i] : i \in j + 1 .. Cardinality(S)}

FirstBy(m, T, before) == m \in T /\ \A other \in T : other = m \/ <<m, other>> \in before

LEMMA AllFromFirst ==
  ASSUME NEW S, IsFiniteSet(S), NEW before, Sorts(before, S)
  PROVE  /\ Cardinality(S) \in Nat /\ RestFrom(S, before, 0) = S
         /\ RestFrom(S, before, Cardinality(S)) = {}
         /\ \A j \in 0 .. Cardinality(S) : j # Cardinality(S) =>
              InOrder(S, before)[j + 1] \in RestFrom(S, before, j)
<1> DEFINE size == Cardinality(S)
           order == InOrder(S, before)
<1>1. /\ size \in Nat /\ order \in [1 .. size -> S]
      /\ \A x \in S : \E k \in 1 .. size : order[k] = x
  BY InOrderSorted
<1> HIDE DEF size, order
<1>2. S = {order[i] : i \in 0 + 1 .. size} /\ {order[i] : i \in size + 1 .. size} = {}
  BY <1>1
<1>3. \A j \in 0 .. size : j # size => order[j + 1] \in {order[i] : i \in j + 1 .. size}
  <2>1. \A j \in 0 .. size : j # size => j + 1 \in j + 1 .. size
    BY <1>1
  <2> QED BY <2>1
<1>4. \A j : RestFrom(S, before, j) = {order[i] : i \in j + 1 .. size}
  BY DEF RestFrom, order, size
<1> QED BY <1>1, <1>2, <1>3, <1>4 DEF order, size

(* Of these, the first is the one at place j + 1.                          *)
LEMMA NextInOrder ==
  ASSUME NEW S, IsFiniteSet(S), NEW before, Sorts(before, S),
         NEW j \in 0 .. Cardinality(S), NEW m, FirstBy(m, RestFrom(S, before, j), before)
  PROVE  /\ j + 1 \in 1 .. Cardinality(S) /\ m = InOrder(S, before)[j + 1] /\ m \in S
         /\ RestFrom(S, before, j) \ {m} = RestFrom(S, before, j + 1)
<1> DEFINE size == Cardinality(S)
           order == InOrder(S, before)
           T == {order[i] : i \in j + 1 .. size}
<1>1. /\ RestFrom(S, before, j) = T
      /\ RestFrom(S, before, j + 1) = {order[i] : i \in j + 1 + 1 .. size}
      /\ m \in T /\ \A other \in T : other = m \/ <<m, other>> \in before
      /\ j \in 0 .. size
  BY DEF RestFrom, FirstBy
<1>2. /\ size \in Nat /\ order \in [1 .. size -> S]
      /\ \A k, n \in 1 .. size : k < n => <<order[k], order[n]>> \in before
      /\ \A k, n \in 1 .. size : order[k] = order[n] => k = n
  BY InOrderSorted
<1> HIDE DEF size, order
<1>3. /\ \A x \in S : <<x, x>> \notin before
      /\ \A x, y, z \in S : <<x, y>> \in before /\ <<y, z>> \in before => <<x, z>> \in before
  BY DEF Sorts
<1>4. PICK i \in j + 1 .. size : m = order[i]
  BY <1>1
<1>5. /\ i \in 1 .. size /\ j + 1 \in 1 .. size /\ order[i] \in S /\ order[j + 1] \in S
      /\ j + 1 \in j + 1 .. size
  BY <1>1, <1>2, <1>4
<1>6. i = j + 1
  <2>1. SUFFICES ASSUME i # j + 1 PROVE FALSE
    OBVIOUS
  <2>2. j + 1 < i
    BY <1>1, <1>2, <1>4, <2>1
  <2>3. <<order[j + 1], m>> \in before /\ order[j + 1] # m
    BY <1>2, <1>4, <1>5, <2>1, <2>2
  <2>4. order[j + 1] \in T
    BY <1>5
  <2>5. <<m, order[j + 1]>> \in before
    BY <1>1, <2>3, <2>4
  <2> QED BY <1>3, <1>4, <1>5, <2>3, <2>5
<1>7. T \ {m} = {order[n] : n \in j + 1 + 1 .. size}
  <2>1. \A n \in j + 1 .. size : n \in 1 .. size /\ (n = j + 1 \/ n \in j + 1 + 1 .. size)
    BY <1>1, <1>2
  <2>2. \A n \in j + 1 + 1 .. size : n \in j + 1 .. size /\ n # j + 1
    BY <1>1, <1>2
  <2>3. \A n \in j + 1 + 1 .. size : order[n] # m
    BY <1>2, <1>4, <1>5, <1>6, <2>1, <2>2
  <2> QED BY <1>4, <1>6, <2>1, <2>2, <2>3
<1> HIDE DEF T
<1> QED BY <1>1, <1>4, <1>5, <1>6, <1>7 DEF size, order

(* Holders of nothing add nothing to a total.                              *)
LEMMA TotalWithoutZeros ==
  ASSUME NEW S, NEW T \in SUBSET S, NEW f, NEW g, \A s \in S : f[s] \in Nat,
         \A t \in T : g[t] = f[t], \A s \in S \ T : f[s] = 0
  PROVE  TotalOver(f, S) = TotalOver(g, T)
<1>1. \A t \in T : g[t] \in Nat
  OBVIOUS
<1>2. ASSUME NEW x PROVE x \in TokensOf(f, S) <=> x \in TokensOf(g, T)
  <2>1. x \in TokensOf(f, S) <=> \E s \in S : \E i \in Nat : x = <<s, i>> /\ 0 < i /\ i <= f[s]
    BY InTokensOf
  <2>2. x \in TokensOf(g, T) <=> \E s \in T : \E i \in Nat : x = <<s, i>> /\ 0 < i /\ i <= g[s]
    BY <1>1, InTokensOf
  <2>3. \A s \in S \ T, i \in Nat : ~(0 < i /\ i <= f[s])
    OBVIOUS
  <2> QED BY <2>1, <2>2, <2>3
<1>3. TokensOf(f, S) = TokensOf(g, T)
  BY <1>2
<1> QED BY <1>3 DEF TotalOver
=============================================================================
