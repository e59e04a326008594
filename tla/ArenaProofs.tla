---------------------------- MODULE ArenaProofs ----------------------------
(***************************************************************************)
(* Proofs about Arena for any number of threads, any ids, models, leases   *)
(* and capacities, and any number of requests and reports.                 *)
(***************************************************************************)
EXTENDS Arena, CountingProofs

-----------------------------------------------------------------------------
(* Types.                                                                  *)

Kinds == {"request.started", "lease.reclaimed", "lease.granted", "chunk.compressed",
          "request.prepared", "snapshot.published", "usage.calibrated"}

(* Events before and after they have got their number.                     *)
Bodies == [kind : Kinds, request : Ids, lease : LeaseIds \cup {None}, tokens : Nat]
Events ==
  [seq : Nat, kind : Kinds, request : Ids, lease : LeaseIds \cup {None}, tokens : Nat]

Recents == UNION {[D -> Models] : D \in SUBSET Ids}

ArenaStates ==
  [requestSeq : Nat, snapshotSeq : Nat, eventSeq : Nat, activeLeases : [LeaseIds -> Nat],
   samples : [Models -> Nat], recent : Recents, recentOrder : Seq(Ids),
   events : Seq(Events), dropped : Nat, latest : Snapshots \cup {None}]

(* Where a thread holds the mutex beyond a single step.                    *)
Inside == {"leases", "modules", "publish", "commit"}

Requests(ids) == [id : ids, model : Models]

Entries == [op : {"prepare", "usage"}, request : Requests(Ids)]

ArenaTypes ==
  /\ state \in ArenaStates
  /\ pc \in [Threads -> {"idle", "called", "planning"} \cup Inside]
  /\ DOMAIN call = Threads
  /\ \A t \in Threads :
       /\ pc[t] \in {"called", "planning"} => call[t] \in Requests(Ids \cup {NoId})
       /\ pc[t] \in Inside => call[t] \in Requests(Ids)
  /\ leases \in Seq(Leases)
  /\ history \in Seq(Entries) /\ ledger \in [LeaseIds -> Int]

(* The holder of the mutex is the one thread inside, and works on a copy   *)
(* of the state.                                                           *)
Exclusive ==
  /\ lock \in Threads \cup {None}
  /\ \A t \in Threads : pc[t] \in Inside <=> lock = t
  /\ lock # None => txn \in ArenaStates /\ trace \in Seq(Bodies)

-----------------------------------------------------------------------------
(* Events get consecutive numbers, and only the ring and its two counters  *)
(* change.                                                                 *)

LEMMA NumberedShape ==
  ASSUME NEW s \in ArenaStates, NEW es \in Seq(Bodies)
  PROVE  /\ Numbered(s, es) \in Seq(Events) /\ Len(Numbered(s, es)) = Len(es)
         /\ \A i \in 1 .. Len(es) :
              /\ Numbered(s, es)[i].seq = s.eventSeq + i
              /\ Numbered(s, es)[i].kind = es[i].kind
              /\ Numbered(s, es)[i].request = es[i].request
<1> DEFINE event(i) == [seq |-> s.eventSeq + i, kind |-> es[i].kind, request |-> es[i].request,
                        lease |-> es[i].lease, tokens |-> es[i].tokens]
<1>1. Len(es) \in Nat /\ s.eventSeq \in Nat /\ \A i \in 1 .. Len(es) : es[i] \in Bodies
  BY DEF ArenaStates
<1>2. \A i \in 1 .. Len(es) : event(i) \in Events
  BY <1>1 DEF Bodies, Events
<1>3. Numbered(s, es) = [i \in 1 .. Len(es) |-> event(i)]
  BY DEF Numbered
<1>4. Numbered(s, es) \in [1 .. Len(es) -> Events]
  BY <1>2, <1>3
<1>5. Numbered(s, es) \in Seq(Events) /\ Len(Numbered(s, es)) = Len(es)
  BY <1>1, <1>4
<1>6. QED
  BY <1>3, <1>5

(* The ring keeps the newest MaxEvents.                                    *)
LEMMA LastOfShape ==
  ASSUME NEW S, NEW q \in Seq(S)
  PROVE  /\ Excess(q) \in Nat /\ Excess(q) <= Len(q)
         /\ LastOf(q) \in Seq(S)
         /\ Len(LastOf(q)) = Len(q) - Excess(q) /\ Len(LastOf(q)) <= MaxEvents
         /\ Excess(q) > 0 => Len(LastOf(q)) = MaxEvents
         /\ \A i \in 1 .. Len(LastOf(q)) :
              LastOf(q)[i] = q[Excess(q) + i] /\ Excess(q) + i \in 1 .. Len(q)
<1>1. MaxEvents \in Nat \ {0} /\ Len(q) \in Nat
  BY ArenaAssumption
<1>2. /\ Excess(q) \in Nat /\ Excess(q) <= Len(q) /\ Len(q) - Excess(q) <= MaxEvents
      /\ Excess(q) > 0 => Len(q) - Excess(q) = MaxEvents
  BY <1>1 DEF Excess
<1>3. LastOf(q) = SubSeq(q, Excess(q) + 1, Len(q))
  BY DEF LastOf
<1> HIDE DEF Excess
<1>4. \A i \in Excess(q) + 1 .. Len(q) : q[i] \in S
  BY <1>1, <1>2
<1>5. /\ LastOf(q) \in Seq(S) /\ Len(LastOf(q)) = Len(q) - Excess(q)
      /\ \A i \in 1 .. Len(q) - Excess(q) : LastOf(q)[i] = q[Excess(q) + i]
  BY <1>1, <1>2, <1>3, <1>4
<1>6. \A i \in 1 .. Len(q) - Excess(q) : Excess(q) + i \in 1 .. Len(q)
  BY <1>1, <1>2
<1>7. QED
  BY <1>2, <1>5, <1>6

LEMMA PushEffect ==
  ASSUME NEW s \in ArenaStates, NEW es \in Seq(Bodies)
  PROVE  /\ Push(s, es) \in ArenaStates
         /\ Push(s, es).requestSeq = s.requestSeq /\ Push(s, es).snapshotSeq = s.snapshotSeq
         /\ Push(s, es).activeLeases = s.activeLeases /\ Push(s, es).samples = s.samples
         /\ Push(s, es).recent = s.recent /\ Push(s, es).recentOrder = s.recentOrder
         /\ Push(s, es).latest = s.latest
         /\ Push(s, es).eventSeq = s.eventSeq + Len(es)
         /\ Push(s, es).events = LastOf(s.events \o Numbered(s, es))
         /\ Push(s, es).dropped = s.dropped + Excess(s.events \o Numbered(s, es))
<1> DEFINE all == s.events \o Numbered(s, es)
           p == [s EXCEPT !.eventSeq = @ + Len(es), !.events = LastOf(all),
                          !.dropped = @ + Excess(all)]
<1>1. all \in Seq(Events)
  BY NumberedShape DEF ArenaStates
<1>a. LastOf(all) \in Seq(Events) /\ Excess(all) \in Nat
  <2> HIDE DEF all
  <2>1. QED
    BY <1>1, LastOfShape, Zenon
<1>b. s.eventSeq \in Nat /\ s.dropped \in Nat /\ Len(es) \in Nat
  BY DEF ArenaStates
<1> HIDE DEF all
<1>2. /\ LastOf(all) \in Seq(Events) /\ s.eventSeq + Len(es) \in Nat
      /\ s.dropped + Excess(all) \in Nat
  BY <1>a, <1>b
<1>3. Push(s, es) = p
  BY DEF Push, all
<1>4. p \in ArenaStates
  BY <1>2 DEF ArenaStates
<1>5. /\ p.requestSeq = s.requestSeq /\ p.snapshotSeq = s.snapshotSeq
      /\ p.activeLeases = s.activeLeases /\ p.samples = s.samples
      /\ p.recent = s.recent /\ p.recentOrder = s.recentOrder
      /\ p.latest = s.latest
      /\ p.eventSeq = s.eventSeq + Len(es) /\ p.events = LastOf(all)
      /\ p.dropped = s.dropped + Excess(all)
  BY DEF ArenaStates
<1>6. QED
  BY <1>3, <1>4, <1>5 DEF all

LEMMA PlainBody ==
  ASSUME NEW kind \in Kinds, NEW id \in Ids
  PROVE  /\ Plain(kind, id) \in Bodies /\ <<Plain(kind, id)>> \in Seq(Bodies)
         /\ Plain(kind, id).kind = kind /\ Plain(kind, id).request = id
         /\ Plain(kind, id).lease = None /\ Plain(kind, id).tokens = 0
BY DEF Plain, Event, Bodies

-----------------------------------------------------------------------------
(* The queue and the map of recent requests.                               *)

LEMMA RetainShape ==
  ASSUME NEW S, NEW q \in Seq(S), NEW id
  PROVE  /\ Retain(q, id) \in Seq(S) /\ Len(Retain(q, id)) <= Len(q)
         /\ \A k \in 1 .. Len(Retain(q, id)) :
              \E i \in 1 .. Len(q) :
                /\ Retain(q, id)[k] = q[i] /\ q[i] # id
                /\ \A n \in 1 .. Len(Retain(q, id)) :
                     k < n => \E j \in 1 .. Len(q) : i < j /\ Retain(q, id)[n] = q[j]
         /\ \A i \in 1 .. Len(q) : q[i] # id => \E k \in 1 .. Len(Retain(q, id)) : Retain(q, id)[k] = q[i]
<1> DEFINE I == {i \in DOMAIN q : q[i] # id}
<1>1. I \in SUBSET (DOMAIN q) /\ DOMAIN q = 1 .. Len(q)
  OBVIOUS
<1>3. \A i : i \in I <=> i \in 1 .. Len(q) /\ q[i] # id
  BY <1>1
<1> HIDE DEF I
<1>4. /\ Selected(q, I) \in Seq(S) /\ Len(Selected(q, I)) <= Len(q)
      /\ \A k \in 1 .. Len(Selected(q, I)) :
           \E i \in I :
             /\ Selected(q, I)[k] = q[i]
             /\ \A n \in 1 .. Len(Selected(q, I)) :
                  k < n => \E j \in I : i < j /\ Selected(q, I)[n] = q[j]
      /\ \A i \in I : \E k \in 1 .. Len(Selected(q, I)) : Selected(q, I)[k] = q[i]
  BY <1>1, SelectedInOrder, Zenon
<1> DEFINE r == Selected(q, I)
<1>5. /\ r \in Seq(S) /\ Len(r) <= Len(q)
      /\ \A k \in 1 .. Len(r) : \E i \in I :
           /\ r[k] = q[i]
           /\ \A n \in 1 .. Len(r) : k < n => \E j \in I : i < j /\ r[n] = q[j]
      /\ \A i \in I : \E k \in 1 .. Len(r) : r[k] = q[i]
  BY <1>4
<1> HIDE DEF r
<1>6. ASSUME NEW k \in 1 .. Len(r)
      PROVE  \E i \in 1 .. Len(q) :
               /\ r[k] = q[i] /\ q[i] # id
               /\ \A n \in 1 .. Len(r) :
                    k < n => \E j \in 1 .. Len(q) : i < j /\ r[n] = q[j]
  <2>1. PICK i \in I :
          /\ r[k] = q[i]
          /\ \A n \in 1 .. Len(r) : k < n => \E j \in I : i < j /\ r[n] = q[j]
    BY <1>5
  <2>2. i \in 1 .. Len(q) /\ q[i] # id
    BY <1>3
  <2>3. \A n \in 1 .. Len(r) : k < n => \E j \in 1 .. Len(q) : i < j /\ r[n] = q[j]
    BY <1>3, <2>1
  <2>4. QED
    BY <2>1, <2>2, <2>3
<1>7. \A i \in 1 .. Len(q) : q[i] # id => \E k \in 1 .. Len(r) : r[k] = q[i]
  BY <1>3, <1>5
<1>8. QED
  BY <1>5, <1>6, <1>7 DEF r, I, Retain

(* What Remember makes of the queue and the map: r has those of s with id  *)
(* put last, and what was first is gone when there is one too many.        *)
Matched(s) ==
  /\ IsInjective(s.recentOrder) /\ ToSet(s.recentOrder) = DOMAIN s.recent
  /\ Len(s.recentOrder) <= MaxRecent

(* In the queue of s, x comes somewhere before y.                          *)
Ahead(s, x, y) ==
  \E i, j \in 1 .. Len(s.recentOrder) :
    i < j /\ s.recentOrder[i] = x /\ s.recentOrder[j] = y

Remembered(s, r, id, model) ==
  /\ id \in DOMAIN r.recent /\ r.recent[id] = model
  /\ \A x \in DOMAIN r.recent :
       x # id => x \in DOMAIN s.recent /\ r.recent[x] = s.recent[x]
  /\ Matched(s) =>
       /\ Matched(r)
       /\ \A x, y : Ahead(r, x, y) => x # id /\ (y = id \/ Ahead(s, x, y))
       /\ \A x \in DOMAIN s.recent \ DOMAIN r.recent :
            /\ x # id /\ Len(r.recentOrder) = MaxRecent
            /\ \A y \in ToSet(r.recentOrder) : y = id \/ Ahead(s, x, y)

(* Nothing but the queue and the map differs.                              *)
ElseEqual(s, r) ==
  /\ r.requestSeq = s.requestSeq /\ r.snapshotSeq = s.snapshotSeq
  /\ r.eventSeq = s.eventSeq /\ r.activeLeases = s.activeLeases
  /\ r.samples = s.samples /\ r.events = s.events /\ r.dropped = s.dropped
  /\ r.latest = s.latest

LEMMA RememberEffect ==
  ASSUME NEW s \in ArenaStates, NEW id \in Ids, NEW model \in Models
  PROVE  /\ Remember(s, id, model) \in ArenaStates
         /\ Remembered(s, Remember(s, id, model), id, model)
         /\ ElseEqual(s, Remember(s, id, model))
<1> DEFINE q == Retain(s.recentOrder, id)
           order == Append(q, id)
           surplus == IF Len(order) > MaxRecent THEN Len(order) - MaxRecent ELSE 0
           kept == SubSeq(order, surplus + 1, Len(order))
           expired == ToSet(SubSeq(order, 1, surplus))
           recent == Forget(InsertRecent(s.recent, id, model), expired)
           r == Remember(s, id, model)
<1>1. /\ s.recentOrder \in Seq(Ids) /\ s.recent \in Recents
      /\ MaxRecent \in Nat \ {0}
  BY ArenaAssumption DEF ArenaStates
<1>2. /\ q \in Seq(Ids)
      /\ \A k \in 1 .. Len(q) :
           \E i \in 1 .. Len(s.recentOrder) :
             /\ q[k] = s.recentOrder[i] /\ s.recentOrder[i] # id
             /\ \A n \in 1 .. Len(q) :
                  k < n => \E j \in 1 .. Len(s.recentOrder) : i < j /\ q[n] = s.recentOrder[j]
      /\ \A i \in 1 .. Len(s.recentOrder) :
           s.recentOrder[i] # id => \E k \in 1 .. Len(q) : q[k] = s.recentOrder[i]
  <2> DEFINE old == s.recentOrder
  <2>1. old \in Seq(Ids)
    BY <1>1
  <2> HIDE DEF old
  <2>2. /\ Retain(old, id) \in Seq(Ids) /\ Len(Retain(old, id)) <= Len(old)
        /\ \A k \in 1 .. Len(Retain(old, id)) :
             \E i \in 1 .. Len(old) :
               /\ Retain(old, id)[k] = old[i] /\ old[i] # id
               /\ \A n \in 1 .. Len(Retain(old, id)) :
                    k < n => \E j \in 1 .. Len(old) : i < j /\ Retain(old, id)[n] = old[j]
        /\ \A i \in 1 .. Len(old) :
             old[i] # id => \E k \in 1 .. Len(Retain(old, id)) : Retain(old, id)[k] = old[i]
    BY <2>1, RetainShape
  <2>3. QED
    BY <2>2 DEF old
<1>3. r = [s EXCEPT !.recentOrder = kept, !.recent = recent]
  BY DEF Remember
<1> HIDE DEF q
<1>4. /\ Len(q) \in Nat /\ order \in Seq(Ids) /\ Len(order) = Len(q) + 1
      /\ \A k \in 1 .. Len(q) : order[k] = q[k]
      /\ order[Len(q) + 1] = id
  BY <1>2
<1>5. /\ surplus \in Nat /\ surplus <= Len(q)
      /\ Len(order) - surplus <= MaxRecent
      /\ surplus > 0 => Len(order) - surplus = MaxRecent
  BY <1>1, <1>4
<1> HIDE DEF order, surplus
<1>6. /\ kept \in Seq(Ids) /\ Len(kept) = Len(q) + 1 - surplus
      /\ \A k \in 1 .. Len(q) + 1 - surplus : kept[k] = order[surplus + k]
  BY <1>4, <1>5
<1>7. \A x : x \in expired <=> \E k \in 1 .. surplus : order[k] = x
  <2>1. DOMAIN SubSeq(order, 1, surplus) = 1 .. surplus
    BY <1>4, <1>5
  <2>2. \A k \in 1 .. surplus : SubSeq(order, 1, surplus)[k] = order[k]
    BY <1>4, <1>5
  <2>3. QED
    BY <2>1, <2>2 DEF ToSet
<1> HIDE DEF kept, expired
<1>8. \A k \in 1 .. Len(q) : q[k] # id
  BY <1>2
<1>9. id \notin expired
  BY <1>4, <1>5, <1>7, <1>8
<1>10. /\ DOMAIN recent = (DOMAIN s.recent \cup {id}) \ expired
       /\ \A x \in DOMAIN recent : recent[x] = IF x = id THEN model ELSE s.recent[x]
  BY <1>9 DEF Forget, Restrict, InsertRecent
<1>11. recent \in Recents
  <2>1. DOMAIN recent \in SUBSET Ids
    BY <1>1, <1>10 DEF Recents
  <2>2. \A x \in DOMAIN recent : recent[x] \in Models
    BY <1>1, <1>10 DEF Recents
  <2>3. recent = [x \in DOMAIN recent |-> recent[x]]
    BY DEF Forget, Restrict
  <2> HIDE DEF recent
  <2>4. recent \in [DOMAIN recent -> Models]
    BY <2>2, <2>3
  <2>5. QED
    BY <2>1, <2>4 DEF Recents
<1> HIDE DEF recent
<1>12. r \in ArenaStates /\ r.recentOrder = kept /\ r.recent = recent
  BY <1>3, <1>6, <1>11 DEF ArenaStates
<1>13. ElseEqual(s, r)
  BY <1>3 DEF ArenaStates, ElseEqual
<1>14. ASSUME Matched(s)
       PROVE  /\ Matched(r)
              /\ \A x, y : Ahead(r, x, y) => x # id /\ (y = id \/ Ahead(s, x, y))
              /\ \A x \in DOMAIN s.recent \ DOMAIN r.recent :
                   /\ x # id /\ Len(r.recentOrder) = MaxRecent
                   /\ \A y \in ToSet(r.recentOrder) : y = id \/ Ahead(s, x, y)
  <2>1. /\ \A i, j \in 1 .. Len(s.recentOrder) : s.recentOrder[i] = s.recentOrder[j] => i = j
        /\ \A x : x \in DOMAIN s.recent <=> \E i \in 1 .. Len(s.recentOrder) : s.recentOrder[i] = x
    BY <1>1, <1>14 DEF Matched, IsInjective, ToSet
  <2>2. \A k, n \in 1 .. Len(q) + 1 : k < n => order[k] # order[n]
    <3>1. SUFFICES ASSUME NEW k \in 1 .. Len(q) + 1, NEW n \in 1 .. Len(q) + 1, k < n
                   PROVE  order[k] # order[n]
      OBVIOUS
    <3>2. k \in 1 .. Len(q) /\ order[k] = q[k]
      BY <1>4, <3>1
    <3>3. CASE n = Len(q) + 1
      BY <1>4, <1>8, <3>2, <3>3
    <3>4. CASE n # Len(q) + 1
      <4>1. n \in 1 .. Len(q) /\ order[n] = q[n]
        BY <1>4, <3>4
      <4>2. PICK i \in 1 .. Len(s.recentOrder), j \in 1 .. Len(s.recentOrder) :
              i < j /\ q[k] = s.recentOrder[i] /\ q[n] = s.recentOrder[j]
        BY <1>2, <3>1, <3>2, <4>1
      <4>3. i # j
        BY <1>1, <4>2
      <4>4. QED
        BY <2>1, <3>2, <4>1, <4>2, <4>3
    <3>5. QED
      BY <3>3, <3>4
  <2>3. \A k, n \in 1 .. Len(q) + 1 : k < n =>
          order[k] # id /\ (order[n] = id \/ Ahead(s, order[k], order[n]))
    <3>1. SUFFICES ASSUME NEW k \in 1 .. Len(q) + 1, NEW n \in 1 .. Len(q) + 1, k < n
                   PROVE  order[k] # id /\ (order[n] = id \/ Ahead(s, order[k], order[n]))
      OBVIOUS
    <3>2. k \in 1 .. Len(q) /\ order[k] = q[k]
      BY <1>4, <3>1
    <3>3. CASE n = Len(q) + 1
      BY <1>4, <1>8, <3>2, <3>3
    <3>4. CASE n # Len(q) + 1
      <4>1. n \in 1 .. Len(q) /\ order[n] = q[n]
        BY <1>4, <3>4
      <4>2. PICK i \in 1 .. Len(s.recentOrder), j \in 1 .. Len(s.recentOrder) :
              i < j /\ q[k] = s.recentOrder[i] /\ q[n] = s.recentOrder[j]
        BY <1>2, <3>1, <3>2, <4>1
      <4>3. QED
        BY <1>8, <3>2, <4>1, <4>2 DEF Ahead
    <3>5. QED
      BY <3>3, <3>4
  <2>4. \A x : x \in DOMAIN s.recent \cup {id} <=> \E k \in 1 .. Len(q) + 1 : order[k] = x
    <3>1. ASSUME NEW x, x \in DOMAIN s.recent \cup {id}
          PROVE  \E k \in 1 .. Len(q) + 1 : order[k] = x
      <4>1. CASE x = id
        BY <1>4, <4>1
      <4>2. CASE x # id
        <5>1. PICK k \in 1 .. Len(q) : q[k] = x
          BY <1>2, <2>1, <3>1, <4>2, SMTT(30)
        <5>2. QED
          BY <1>4, <5>1
      <4>3. QED
        BY <4>1, <4>2
    <3>2. ASSUME NEW k \in 1 .. Len(q) + 1 PROVE order[k] \in DOMAIN s.recent \cup {id}
      <4>1. CASE k = Len(q) + 1
        BY <1>4, <4>1
      <4>2. CASE k # Len(q) + 1
        <5>1. k \in 1 .. Len(q) /\ order[k] = q[k]
          BY <1>4, <4>2
        <5>2. QED
          BY <1>2, <2>1, <5>1, SMTT(30)
      <4>3. QED
        BY <4>1, <4>2
    <3>3. QED
      BY <3>1, <3>2
  <2>5. DOMAIN kept = 1 .. Len(q) + 1 - surplus
    BY <1>6
  <2>6. \A k \in 1 .. Len(q) + 1 - surplus : surplus + k \in 1 .. Len(q) + 1
    BY <1>4, <1>5
  <2>7. IsInjective(kept)
    <3>1. SUFFICES ASSUME NEW k \in 1 .. Len(q) + 1 - surplus, NEW n \in 1 .. Len(q) + 1 - surplus,
                          kept[k] = kept[n]
                   PROVE  k = n
      BY <2>5 DEF IsInjective
    <3>2. order[surplus + k] = order[surplus + n]
      BY <1>6, <3>1
    <3>3. ~ (surplus + k < surplus + n) /\ ~ (surplus + n < surplus + k)
      BY <2>2, <2>6, <3>2
    <3>4. QED
      BY <1>4, <1>5, <3>3
  <2>8. \A x : x \in ToSet(kept) <=> x \in DOMAIN recent
    <3>1. ASSUME NEW k \in 1 .. Len(q) + 1 - surplus PROVE kept[k] \in DOMAIN recent
      <4>1. kept[k] = order[surplus + k]
        BY <1>6
      <4>2. order[surplus + k] \notin expired
        <5>1. SUFFICES ASSUME NEW n \in 1 .. surplus, order[n] = order[surplus + k] PROVE FALSE
          BY <1>7
        <5>2. n \in 1 .. Len(q) + 1 /\ n < surplus + k
          BY <1>4, <1>5
        <5>3. QED
          BY <2>2, <2>6, <5>1, <5>2
      <4>3. QED
        BY <1>10, <2>4, <2>6, <4>1, <4>2
    <3>2. ASSUME NEW x \in DOMAIN recent PROVE x \in ToSet(kept)
      <4>1. PICK n \in 1 .. Len(q) + 1 : order[n] = x
        BY <1>10, <2>4
      <4>2. ~ (n \in 1 .. surplus)
        BY <1>7, <1>10, <4>1
      <4>3. n - surplus \in 1 .. Len(q) + 1 - surplus /\ surplus + (n - surplus) = n
        BY <1>4, <1>5, <4>2
      <4>4. kept[n - surplus] = x
        BY <1>6, <4>1, <4>3
      <4>5. QED
        BY <2>5, <4>3, <4>4 DEF ToSet
    <3>3. QED
      BY <2>5, <3>1, <3>2 DEF ToSet
  <2>9. Matched(r)
    <3>1. ToSet(kept) = DOMAIN recent
      BY <2>8
    <3>2. Len(kept) <= MaxRecent
      BY <1>4, <1>5, <1>6
    <3>3. QED
      BY <1>12, <2>7, <3>1, <3>2 DEF Matched
  <2>10. ASSUME NEW x, NEW y, Ahead(r, x, y)
         PROVE  x # id /\ (y = id \/ Ahead(s, x, y))
    <3>1. PICK k \in 1 .. Len(q) + 1 - surplus, n \in 1 .. Len(q) + 1 - surplus :
            k < n /\ kept[k] = x /\ kept[n] = y
      BY <1>6, <1>12, <2>10 DEF Ahead
    <3>2. /\ surplus + k \in 1 .. Len(q) + 1 /\ surplus + n \in 1 .. Len(q) + 1
          /\ surplus + k < surplus + n
      BY <1>4, <1>5, <2>6, <3>1
    <3>3. order[surplus + k] = x /\ order[surplus + n] = y
      BY <1>6, <3>1
    <3>4. QED
      BY <2>3, <3>2, <3>3
  <2>11. ASSUME NEW x \in DOMAIN s.recent \ DOMAIN r.recent
         PROVE  /\ x # id /\ Len(r.recentOrder) = MaxRecent
                /\ \A y \in ToSet(r.recentOrder) : y = id \/ Ahead(s, x, y)
    <3>1. x \in expired
      BY <1>10, <1>12
    <3>2. PICK n \in 1 .. surplus : order[n] = x
      BY <1>7, <3>1
    <3>3. x # id /\ Len(kept) = MaxRecent
      BY <1>4, <1>5, <1>6, <1>9, <3>1
    <3>4. ASSUME NEW k \in 1 .. Len(q) + 1 - surplus
          PROVE  kept[k] = id \/ Ahead(s, x, kept[k])
      <4>1. n \in 1 .. Len(q) + 1 /\ n < surplus + k
        BY <1>4, <1>5
      <4>2. QED
        BY <1>6, <2>3, <2>6, <3>2, <4>1
    <3>5. QED
      BY <1>12, <2>5, <3>3, <3>4 DEF ToSet
  <2>12. QED
    BY <2>9, <2>10, <2>11
<1>15. id \in DOMAIN r.recent /\ r.recent[id] = model
  BY <1>9, <1>10, <1>12
<1>16. \A x \in DOMAIN r.recent : x # id => x \in DOMAIN s.recent /\ r.recent[x] = s.recent[x]
  BY <1>10, <1>12
<1>17. Remembered(s, r, id, model)
  BY <1>14, <1>15, <1>16 DEF Remembered
<1>18. QED
  BY <1>12, <1>13, <1>17

(* What Consume makes of them: id is gone, the others keep their order.    *)
Consumed(s, r, id) ==
  /\ DOMAIN r.recent = DOMAIN s.recent \ {id}
  /\ \A x \in DOMAIN r.recent : r.recent[x] = s.recent[x]
  /\ Matched(s) => Matched(r) /\ \A x, y : Ahead(r, x, y) => Ahead(s, x, y)

LEMMA ConsumeEffect ==
  ASSUME NEW s \in ArenaStates, NEW id
  PROVE  /\ Consume(s, id) \in ArenaStates
         /\ Consumed(s, Consume(s, id), id)
         /\ ElseEqual(s, Consume(s, id))
<1> DEFINE old == s.recentOrder
           q == Retain(old, id)
           recent == Forget(s.recent, {id})
           r == Consume(s, id)
<1>1. old \in Seq(Ids) /\ s.recent \in Recents /\ MaxRecent \in Nat \ {0}
  BY ArenaAssumption DEF ArenaStates
<1>2. r = [s EXCEPT !.recent = recent, !.recentOrder = q]
  BY DEF Consume
<1>3. \A x : x \in ToSet(old) <=> \E i \in 1 .. Len(old) : old[i] = x
  BY <1>1 DEF ToSet
<1> HIDE DEF old
<1>4. /\ q \in Seq(Ids) /\ Len(q) <= Len(old)
      /\ \A k \in 1 .. Len(q) :
           \E i \in 1 .. Len(old) :
             /\ q[k] = old[i] /\ old[i] # id
             /\ \A n \in 1 .. Len(q) :
                  k < n => \E j \in 1 .. Len(old) : i < j /\ q[n] = old[j]
      /\ \A i \in 1 .. Len(old) : old[i] # id => \E k \in 1 .. Len(q) : q[k] = old[i]
  BY <1>1, RetainShape
<1> HIDE DEF q
<1>5. DOMAIN recent = DOMAIN s.recent \ {id} /\ \A x \in DOMAIN recent : recent[x] = s.recent[x]
  BY DEF Forget, Restrict
<1>6. recent \in Recents
  <2>a. PICK D \in SUBSET Ids : s.recent \in [D -> Models]
    BY <1>1 DEF Recents
  <2>1. DOMAIN recent \in SUBSET Ids /\ \A x \in DOMAIN recent : recent[x] \in Models
    BY <1>5, <2>a
  <2>2. recent = [x \in DOMAIN recent |-> recent[x]]
    BY DEF Forget, Restrict
  <2> HIDE DEF recent
  <2>3. recent \in [DOMAIN recent -> Models]
    BY <2>1, <2>2
  <2>4. QED
    BY <2>1, <2>3 DEF Recents
<1> HIDE DEF recent
<1>7. r \in ArenaStates /\ r.recentOrder = q /\ r.recent = recent
  BY <1>2, <1>4, <1>6 DEF ArenaStates
<1>8. ASSUME Matched(s)
      PROVE  Matched(r) /\ \A x, y : Ahead(r, x, y) => Ahead(s, x, y)
  <2>1. /\ \A i, j \in 1 .. Len(old) : old[i] = old[j] => i = j
        /\ \A x : x \in DOMAIN s.recent <=> \E i \in 1 .. Len(old) : old[i] = x
        /\ Len(old) <= MaxRecent
    BY <1>1, <1>3, <1>8 DEF Matched, IsInjective, old
  <2>2. ASSUME NEW k \in 1 .. Len(q), NEW n \in 1 .. Len(q), k < n
        PROVE  \E i, j \in 1 .. Len(old) : i < j /\ old[i] = q[k] /\ old[j] = q[n]
    BY <1>4, <2>2
  <2>3. IsInjective(q)
    <3>1. SUFFICES ASSUME NEW k \in 1 .. Len(q), NEW n \in 1 .. Len(q), q[k] = q[n] PROVE k = n
      BY <1>4 DEF IsInjective
    <3>2. \A i, j \in 1 .. Len(old) : i < j => old[i] # old[j]
      BY <1>1, <2>1
    <3>3. \A a, b \in 1 .. Len(q) : a < b => q[a] # q[b]
      <4>1. SUFFICES ASSUME NEW a \in 1 .. Len(q), NEW b \in 1 .. Len(q), a < b
                     PROVE  q[a] # q[b]
        OBVIOUS
      <4>2. PICK i \in 1 .. Len(old), j \in 1 .. Len(old) : i < j /\ old[i] = q[a] /\ old[j] = q[b]
        BY <2>2, <4>1
      <4>3. QED
        BY <3>2, <4>2
    <3>4. QED
      BY <1>4, <3>1, <3>3
  <2>4. \A x : x \in ToSet(q) <=> x \in DOMAIN recent
    <3>1. \A x : x \in ToSet(q) <=> \E k \in 1 .. Len(q) : q[k] = x
      BY <1>4 DEF ToSet
    <3>2. \A x : x \in DOMAIN recent <=> x # id /\ \E i \in 1 .. Len(old) : old[i] = x
      BY <1>5, <2>1
    <3>3. ASSUME NEW x PROVE (\E k \in 1 .. Len(q) : q[k] = x) <=>
                               (x # id /\ \E i \in 1 .. Len(old) : old[i] = x)
      BY <1>4
    <3>4. QED
      BY <3>1, <3>2, <3>3
  <2>5. Matched(r)
    <3>1. ToSet(q) = DOMAIN recent
      BY <2>4
    <3>2. Len(q) <= MaxRecent
      BY <1>1, <1>4, <2>1
    <3>3. QED
      BY <1>7, <2>3, <3>1, <3>2 DEF Matched
  <2>6. ASSUME NEW x, NEW y, Ahead(r, x, y) PROVE Ahead(s, x, y)
    <3>1. PICK k \in 1 .. Len(q), n \in 1 .. Len(q) : k < n /\ q[k] = x /\ q[n] = y
      BY <1>7, <2>6 DEF Ahead
    <3>2. \E i, j \in 1 .. Len(old) : i < j /\ old[i] = q[k] /\ old[j] = q[n]
      BY <2>2, <3>1
    <3>3. QED
      BY <3>1, <3>2 DEF Ahead, old
  <2>7. QED
    BY <2>5, <2>6
<1>9. Consumed(s, r, id)
  BY <1>5, <1>7, <1>8 DEF Consumed
<1>10. ElseEqual(s, r)
  BY <1>2 DEF ArenaStates, ElseEqual
<1>11. QED
  BY <1>7, <1>9, <1>10

-----------------------------------------------------------------------------
(* What the steps that replace the state or the transaction make of them.  *)

(* The events es are in the log of p, after those of s.                    *)
Pushed(s, p, es) ==
  /\ p.eventSeq = s.eventSeq + Len(es)
  /\ p.events = LastOf(s.events \o Numbered(s, es))
  /\ p.dropped = s.dropped + Excess(s.events \o Numbered(s, es))

LEMMA CommitEffect ==
  ASSUME NEW s \in ArenaStates, NEW h \in ArenaStates
  PROVE  LET c == CommitTransaction(s, h)
             all == s.events \o h.events
         IN /\ c \in ArenaStates
            /\ c.requestSeq = h.requestSeq /\ c.snapshotSeq = h.snapshotSeq
            /\ c.eventSeq = h.eventSeq /\ c.activeLeases = h.activeLeases
            /\ c.samples = h.samples /\ c.recent = h.recent /\ c.recentOrder = h.recentOrder
            /\ c.events = LastOf(all) /\ c.dropped = h.dropped + Excess(all)
            /\ h.latest \in Snapshots =>
                 /\ c.latest \in Snapshots
                 /\ c.latest.seq = h.latest.seq /\ c.latest.request = h.latest.request
                 /\ c.latest.model = h.latest.model /\ c.latest.leases = h.latest.leases
                 /\ c.latest.dropped = c.dropped
<1> DEFINE all == s.events \o h.events
           dropped == h.dropped + Excess(all)
           latest == IF h.latest = None THEN None ELSE [h.latest EXCEPT !.dropped = dropped]
           c == CommitTransaction(s, h)
<1>1. s.events \in Seq(Events) /\ h.events \in Seq(Events) /\ h.dropped \in Nat
  BY DEF ArenaStates
<1>2. all \in Seq(Events)
  BY <1>1
<1> HIDE DEF all
<1>3. LastOf(all) \in Seq(Events) /\ Excess(all) \in Nat
  BY <1>2, LastOfShape, Zenon
<1>4. dropped \in Nat
  BY <1>1, <1>3
<1> HIDE DEF dropped
<1>5. None \notin Snapshots
  BY ArenaAssumption
<1>6. h.latest \in Snapshots =>
        /\ latest \in Snapshots
        /\ latest.seq = h.latest.seq /\ latest.request = h.latest.request
        /\ latest.model = h.latest.model /\ latest.leases = h.latest.leases
        /\ latest.dropped = dropped
  BY <1>4, <1>5 DEF Snapshots
<1>7. latest \in Snapshots \cup {None}
  BY <1>6 DEF ArenaStates
<1> HIDE DEF latest
<1>8. c = [h EXCEPT !.events = LastOf(all), !.dropped = dropped, !.latest = latest]
  BY DEF CommitTransaction, all, dropped, latest
<1>9. /\ c \in ArenaStates
      /\ c.requestSeq = h.requestSeq /\ c.snapshotSeq = h.snapshotSeq
      /\ c.eventSeq = h.eventSeq /\ c.activeLeases = h.activeLeases
      /\ c.samples = h.samples /\ c.recent = h.recent /\ c.recentOrder = h.recentOrder
      /\ c.events = LastOf(all) /\ c.dropped = dropped /\ c.latest = latest
  BY <1>3, <1>4, <1>7, <1>8 DEF ArenaStates
<1>10. QED
  BY <1>6, <1>9 DEF all, dropped

LEMMA CalibrationShape ==
  ASSUME NEW s \in ArenaStates, NEW model \in Models
  PROVE  Calibration(s, model) \in Calibrations \cup {None}
<1>1. s.samples[model] \in Nat
  BY DEF ArenaStates
<1>2. QED
  BY <1>1 DEF Calibration, Calibrations

(* What record_usage makes of the state, for request id.                   *)
Reported(s, id) ==
  LET model == s.recent[id]
      known == [Consume(s, id) EXCEPT !.samples[model] = @ + 1]
      traced == Push(known, <<Plain("usage.calibrated", id)>>)
  IN [traced EXCEPT !.latest =
        IF @ = None THEN None
        ELSE [@ EXCEPT !.calibration = Calibration(traced, model), !.dropped = traced.dropped]]

LEMMA ReportEffect ==
  ASSUME NEW s \in ArenaStates, NEW id \in DOMAIN s.recent
  PROVE  LET r == Reported(s, id)
             model == s.recent[id]
         IN /\ id \in Ids /\ model \in Models /\ r \in ArenaStates
            /\ r.requestSeq = s.requestSeq /\ r.snapshotSeq = s.snapshotSeq
            /\ r.activeLeases = s.activeLeases
            /\ r.samples = [s.samples EXCEPT ![model] = @ + 1]
            /\ Consumed(s, r, id)
            /\ Pushed(s, r, <<Plain("usage.calibrated", id)>>)
            /\ s.latest = None => r.latest = None
            /\ s.latest # None =>
                 /\ r.latest # None
                 /\ r.latest.seq = s.latest.seq /\ r.latest.request = s.latest.request
                 /\ r.latest.model = s.latest.model /\ r.latest.leases = s.latest.leases
                 /\ r.latest.dropped = r.dropped
<1> DEFINE model == s.recent[id]
           c == Consume(s, id)
           known == [c EXCEPT !.samples[model] = @ + 1]
           es == <<Plain("usage.calibrated", id)>>
           traced == Push(known, es)
           calibration == Calibration(traced, model)
           latest == IF traced.latest = None THEN None
                     ELSE [traced.latest EXCEPT !.calibration = calibration, !.dropped = traced.dropped]
           r == Reported(s, id)
<1>1. id \in Ids /\ model \in Models
  <2>1. PICK D \in SUBSET Ids : s.recent \in [D -> Models]
    BY DEF ArenaStates, Recents
  <2>2. QED
    BY <2>1
<1>2. c \in ArenaStates /\ Consumed(s, c, id)
  BY ConsumeEffect, Zenon
<1>3. /\ c.requestSeq = s.requestSeq /\ c.snapshotSeq = s.snapshotSeq
      /\ c.eventSeq = s.eventSeq /\ c.activeLeases = s.activeLeases
      /\ c.samples = s.samples /\ c.events = s.events /\ c.dropped = s.dropped
      /\ c.latest = s.latest
  BY ConsumeEffect DEF ElseEqual
<1> HIDE DEF c, model
<1>4. /\ known \in ArenaStates
      /\ known.requestSeq = s.requestSeq /\ known.snapshotSeq = s.snapshotSeq
      /\ known.eventSeq = s.eventSeq /\ known.activeLeases = s.activeLeases
      /\ known.samples = [s.samples EXCEPT ![model] = @ + 1]
      /\ known.events = s.events /\ known.dropped = s.dropped
      /\ known.latest = s.latest
      /\ known.recent = c.recent /\ known.recentOrder = c.recentOrder
  <2> DEFINE samples == [c.samples EXCEPT ![model] = @ + 1]
  <2>1. samples \in [Models -> Nat] /\ samples = [s.samples EXCEPT ![model] = @ + 1]
    BY <1>1, <1>2, <1>3 DEF ArenaStates
  <2>2. known = [c EXCEPT !.samples = samples]
    BY <1>2 DEF ArenaStates
  <2> HIDE DEF samples, known
  <2>3. known \in ArenaStates
    BY <1>2, <2>1, <2>2 DEF ArenaStates
  <2>4. /\ known.requestSeq = c.requestSeq /\ known.snapshotSeq = c.snapshotSeq
        /\ known.eventSeq = c.eventSeq /\ known.activeLeases = c.activeLeases
        /\ known.samples = samples
        /\ known.events = c.events /\ known.dropped = c.dropped
        /\ known.latest = c.latest
        /\ known.recent = c.recent /\ known.recentOrder = c.recentOrder
    BY <1>2, <2>2 DEF ArenaStates
  <2>5. QED
    BY <1>3, <2>1, <2>3, <2>4
<1> HIDE DEF known
<1>5. es \in Seq(Bodies)
  BY <1>1, PlainBody DEF Kinds
<1> HIDE DEF es
<1>6. /\ traced \in ArenaStates
      /\ traced.requestSeq = known.requestSeq /\ traced.snapshotSeq = known.snapshotSeq
      /\ traced.activeLeases = known.activeLeases /\ traced.samples = known.samples
      /\ traced.recent = known.recent /\ traced.recentOrder = known.recentOrder
      /\ traced.latest = known.latest
      /\ Pushed(known, traced, es)
  BY <1>4, <1>5, PushEffect, Zenon DEF Pushed
<1>7. Pushed(s, traced, es)
  BY <1>4, <1>6 DEF Pushed, Numbered
<1> HIDE DEF traced
<1>8. calibration \in Calibrations \cup {None}
  BY <1>1, <1>6, CalibrationShape
<1> HIDE DEF calibration
<1>9. None \notin Snapshots
  BY ArenaAssumption
<1>10. /\ traced.latest \in Snapshots \cup {None} /\ traced.dropped \in Nat
  BY <1>6 DEF ArenaStates
<1>11. traced.latest \in Snapshots =>
         /\ latest \in Snapshots
         /\ latest.seq = traced.latest.seq /\ latest.request = traced.latest.request
         /\ latest.model = traced.latest.model /\ latest.leases = traced.latest.leases
         /\ latest.dropped = traced.dropped
  BY <1>8, <1>9, <1>10 DEF Snapshots
<1>12. traced.latest = None => latest = None
  OBVIOUS
<1> HIDE DEF latest
<1>13. r = [traced EXCEPT !.latest = latest]
  BY DEF Reported, model, c, known, es, traced, calibration, latest
<1>14. /\ r \in ArenaStates
       /\ r.requestSeq = traced.requestSeq /\ r.snapshotSeq = traced.snapshotSeq
       /\ r.activeLeases = traced.activeLeases /\ r.samples = traced.samples
       /\ r.recent = traced.recent /\ r.recentOrder = traced.recentOrder
       /\ r.latest = latest
       /\ r.eventSeq = traced.eventSeq /\ r.events = traced.events /\ r.dropped = traced.dropped
  <2>1. latest \in Snapshots \cup {None}
    BY <1>10, <1>11, <1>12
  <2>2. QED
    BY <1>6, <1>13, <2>1 DEF ArenaStates
<1> HIDE DEF r
<1>15. r.recent = c.recent /\ r.recentOrder = c.recentOrder
  BY <1>4, <1>6, <1>14
<1>16. Consumed(s, r, id)
  <2>1. Matched(r) <=> Matched(c)
    BY <1>15 DEF Matched
  <2>2. \A x, y : Ahead(r, x, y) <=> Ahead(c, x, y)
    BY <1>15 DEF Ahead
  <2>3. QED
    BY <1>2, <1>15, <2>1, <2>2 DEF Consumed
<1>17. Pushed(s, r, es)
  BY <1>7, <1>14 DEF Pushed
<1>18. s.latest \in Snapshots \cup {None} /\ r.latest \in Snapshots \cup {None}
  BY <1>14 DEF ArenaStates
<1>19. /\ s.latest = None => r.latest = None
       /\ s.latest # None =>
            /\ r.latest # None
            /\ r.latest.seq = s.latest.seq /\ r.latest.request = s.latest.request
            /\ r.latest.model = s.latest.model /\ r.latest.leases = s.latest.leases
            /\ r.latest.dropped = r.dropped
  BY <1>4, <1>6, <1>9, <1>11, <1>12, <1>14, <1>18
<1>20. /\ r.requestSeq = s.requestSeq /\ r.snapshotSeq = s.snapshotSeq
       /\ r.activeLeases = s.activeLeases
       /\ r.samples = [s.samples EXCEPT ![model] = @ + 1]
  BY <1>4, <1>6, <1>14
<1>21. QED
  BY <1>1, <1>14, <1>16, <1>17, <1>19, <1>20 DEF r, model, es

(* The transaction of request id begins.                                   *)
Begun(s, id) ==
  Push([BeginTransaction(s) EXCEPT !.requestSeq = s.requestSeq + 1],
       <<Plain("request.started", id)>>)

LEMMA BeginEffect ==
  ASSUME NEW s \in ArenaStates, NEW id \in Ids
  PROVE  LET h == Begun(s, id)
         IN /\ h \in ArenaStates
            /\ h.requestSeq = s.requestSeq + 1 /\ h.snapshotSeq = s.snapshotSeq
            /\ h.activeLeases = s.activeLeases /\ h.samples = s.samples
            /\ h.recent = s.recent /\ h.recentOrder = s.recentOrder /\ h.latest = s.latest
            /\ \E b \in ArenaStates :
                 /\ b.eventSeq = s.eventSeq /\ b.events = <<>> /\ b.dropped = s.dropped
                 /\ Pushed(b, h, <<Plain("request.started", id)>>)
<1> DEFINE b == [BeginTransaction(s) EXCEPT !.requestSeq = s.requestSeq + 1]
           es == <<Plain("request.started", id)>>
           h == Push(b, es)
<1>1. s.requestSeq + 1 \in Nat /\ <<>> \in Seq(Events)
  BY DEF ArenaStates
<1>2. b = [s EXCEPT !.events = <<>>, !.requestSeq = s.requestSeq + 1]
  BY DEF BeginTransaction
<1> HIDE DEF b
<1>3. /\ b \in ArenaStates
      /\ b.requestSeq = s.requestSeq + 1 /\ b.snapshotSeq = s.snapshotSeq
      /\ b.eventSeq = s.eventSeq /\ b.activeLeases = s.activeLeases
      /\ b.samples = s.samples /\ b.recent = s.recent /\ b.recentOrder = s.recentOrder
      /\ b.events = <<>> /\ b.dropped = s.dropped /\ b.latest = s.latest
  BY <1>1, <1>2 DEF ArenaStates
<1>4. es \in Seq(Bodies)
  BY PlainBody DEF Kinds
<1> HIDE DEF es
<1>5. /\ h \in ArenaStates
      /\ h.requestSeq = b.requestSeq /\ h.snapshotSeq = b.snapshotSeq
      /\ h.activeLeases = b.activeLeases /\ h.samples = b.samples
      /\ h.recent = b.recent /\ h.recentOrder = b.recentOrder
      /\ h.latest = b.latest
      /\ Pushed(b, h, es)
  BY <1>3, <1>4, PushEffect, Zenon DEF Pushed
<1> HIDE DEF h
<1>6. Begun(s, id) = h
  BY DEF Begun, b, es, h
<1>7. QED
  BY <1>3, <1>5, <1>6 DEF es

(* The transaction of request publishes its snapshot and remembers it.     *)
Published(h, request, granted) ==
  LET id == request.id
      prepared == <<Plain("request.prepared", id)>>
      published == <<Plain("snapshot.published", id)>>
      counted == [Push(h, prepared) EXCEPT !.snapshotSeq = @ + 1]
      shown == [counted EXCEPT !.latest = Snapshot(counted, request, granted)]
  IN Remember(Push(shown, published), id, request.model)

LEMMA PublishEffect ==
  ASSUME NEW h \in ArenaStates, NEW request \in Requests(Ids), NEW granted \in Seq(Leases)
  PROVE  LET r == Published(h, request, granted)
         IN /\ r \in ArenaStates
            /\ r.requestSeq = h.requestSeq /\ r.snapshotSeq = h.snapshotSeq + 1
            /\ r.activeLeases = h.activeLeases /\ r.samples = h.samples
            /\ Remembered(h, r, request.id, request.model)
            /\ r.latest \in Snapshots
            /\ r.latest.seq = r.snapshotSeq /\ r.latest.request = request.id
            /\ r.latest.model = request.model /\ r.latest.leases = granted
            /\ \E m \in ArenaStates :
                 /\ Pushed(h, m, <<Plain("request.prepared", request.id)>>)
                 /\ Pushed(m, r, <<Plain("snapshot.published", request.id)>>)
<1> DEFINE id == request.id
           model == request.model
           prepared == <<Plain("request.prepared", id)>>
           published == <<Plain("snapshot.published", id)>>
           m == Push(h, prepared)
           counted == [m EXCEPT !.snapshotSeq = @ + 1]
           snapshot == Snapshot(counted, request, granted)
           shown == [counted EXCEPT !.latest = snapshot]
           p == Push(shown, published)
           r == Remember(p, id, model)
<1>1. id \in Ids /\ model \in Models
  BY DEF Requests
<1>2. prepared \in Seq(Bodies) /\ published \in Seq(Bodies)
  BY <1>1, PlainBody DEF Kinds
<1>3. Published(h, request, granted) = r
  BY DEF Published
<1> HIDE DEF prepared, published
<1>4. /\ m \in ArenaStates
      /\ m.requestSeq = h.requestSeq /\ m.snapshotSeq = h.snapshotSeq
      /\ m.activeLeases = h.activeLeases /\ m.samples = h.samples
      /\ m.recent = h.recent /\ m.recentOrder = h.recentOrder
      /\ Pushed(h, m, prepared)
  BY <1>2, PushEffect, Zenon DEF Pushed
<1> HIDE DEF m
<1>5. m.snapshotSeq + 1 \in Nat
  BY <1>4 DEF ArenaStates
<1>6. /\ counted \in ArenaStates
      /\ counted.requestSeq = m.requestSeq /\ counted.snapshotSeq = m.snapshotSeq + 1
      /\ counted.eventSeq = m.eventSeq /\ counted.activeLeases = m.activeLeases
      /\ counted.samples = m.samples /\ counted.recent = m.recent
      /\ counted.recentOrder = m.recentOrder
      /\ counted.events = m.events /\ counted.dropped = m.dropped
  BY <1>4, <1>5 DEF ArenaStates
<1> HIDE DEF counted
<1>7. /\ snapshot \in Snapshots
      /\ snapshot.seq = counted.snapshotSeq /\ snapshot.request = id
      /\ snapshot.model = model /\ snapshot.leases = granted
  <2>1. Calibration(counted, model) \in Calibrations \cup {None}
    BY <1>1, <1>6, CalibrationShape
  <2>2. counted.snapshotSeq \in Nat /\ counted.dropped \in Nat
    BY <1>6 DEF ArenaStates
  <2>3. QED
    BY <1>1, <2>1, <2>2 DEF Snapshot, Snapshots
<1> HIDE DEF snapshot
<1>8. /\ shown \in ArenaStates
      /\ shown.requestSeq = counted.requestSeq /\ shown.snapshotSeq = counted.snapshotSeq
      /\ shown.eventSeq = counted.eventSeq /\ shown.activeLeases = counted.activeLeases
      /\ shown.samples = counted.samples /\ shown.recent = counted.recent
      /\ shown.recentOrder = counted.recentOrder
      /\ shown.events = counted.events /\ shown.dropped = counted.dropped
      /\ shown.latest = snapshot
  BY <1>6, <1>7 DEF ArenaStates
<1> HIDE DEF shown
<1>9. /\ p \in ArenaStates
      /\ p.requestSeq = shown.requestSeq /\ p.snapshotSeq = shown.snapshotSeq
      /\ p.activeLeases = shown.activeLeases /\ p.samples = shown.samples
      /\ p.recent = shown.recent /\ p.recentOrder = shown.recentOrder
      /\ p.latest = shown.latest
      /\ Pushed(shown, p, published)
  BY <1>2, <1>8, PushEffect, Zenon DEF Pushed
<1> HIDE DEF p
<1>10. Pushed(m, p, published)
  <2>1. m.eventSeq = shown.eventSeq /\ m.events = shown.events /\ m.dropped = shown.dropped
    BY <1>6, <1>8
  <2>2. Numbered(m, published) = Numbered(shown, published)
    BY <2>1 DEF Numbered
  <2>3. QED
    BY <1>9, <2>1, <2>2 DEF Pushed
<1> HIDE DEF id, model
<1>11. /\ r \in ArenaStates /\ Remembered(p, r, id, model)
       /\ ElseEqual(p, r)
  <2>1. p \in ArenaStates /\ id \in Ids /\ model \in Models
    BY <1>1, <1>9 DEF id, model
  <2>2. QED
    BY <2>1, RememberEffect, Zenon
<1> HIDE DEF r
<1>12. /\ r.requestSeq = p.requestSeq /\ r.snapshotSeq = p.snapshotSeq
       /\ r.activeLeases = p.activeLeases /\ r.samples = p.samples
       /\ r.latest = p.latest
       /\ r.eventSeq = p.eventSeq /\ r.events = p.events /\ r.dropped = p.dropped
  BY <1>11 DEF ElseEqual
<1>13. Remembered(h, r, id, model)
  <2>1. p.recent = h.recent /\ p.recentOrder = h.recentOrder
    BY <1>4, <1>6, <1>8, <1>9
  <2>2. Matched(p) <=> Matched(h)
    BY <2>1 DEF Matched
  <2>3. \A x, y : Ahead(p, x, y) <=> Ahead(h, x, y)
    BY <2>1 DEF Ahead
  <2>4. QED
    BY <1>11, <2>1, <2>2, <2>3 DEF Remembered
<1>14. Pushed(m, r, published)
  BY <1>10, <1>12 DEF Pushed
<1>15. /\ r.requestSeq = h.requestSeq /\ r.snapshotSeq = h.snapshotSeq + 1
       /\ r.activeLeases = h.activeLeases /\ r.samples = h.samples
       /\ r.latest = snapshot
       /\ snapshot.seq = r.snapshotSeq /\ snapshot.leases = granted
  BY <1>4, <1>6, <1>7, <1>8, <1>9, <1>12
<1>16. QED
  BY <1>3, <1>4, <1>7, <1>11, <1>13, <1>14, <1>15 DEF id, model, prepared, published

-----------------------------------------------------------------------------
(* The inductive invariant.                                                *)

(* What the holder has done to its copy of the state, and what not.        *)
TxnFollows ==
  lock # None =>
    /\ txn.samples = state.samples /\ txn.requestSeq = state.requestSeq + 1
    /\ pc[lock] # "leases" => KeepLast(leases) = txn.activeLeases
    /\ pc[lock] # "commit" =>
         /\ txn.snapshotSeq = state.snapshotSeq
         /\ txn.recent = state.recent /\ txn.recentOrder = state.recentOrder
    /\ pc[lock] = "commit" =>
         /\ txn.snapshotSeq = state.snapshotSeq + 1
         /\ Remembered(state, txn, call[lock].id, call[lock].model)
         /\ txn.latest \in Snapshots
         /\ txn.latest.seq = txn.snapshotSeq /\ txn.latest.request = call[lock].id
         /\ txn.latest.model = call[lock].model
         /\ KeepLast(txn.latest.leases) = txn.activeLeases

(* The lease events of the holder's trace make up the difference between   *)
(* the leases of the transaction and those of the state, and more for an   *)
(* id that two leases share.                                               *)
LedgerFollows ==
  lock # None =>
    IF pc[lock] = "leases"
    THEN txn.activeLeases = state.activeLeases /\ trace = <<Plain("request.started", call[lock].id)>>
    ELSE \A l \in LeaseIds :
           LET traced == TracedTokens("lease.granted", l) - TracedTokens("lease.reclaimed", l)
               change == txn.activeLeases[l] - state.activeLeases[l]
           IN traced >= change /\ (l \notin SharedIds(leases) => traced = change)

(* The log of h has counted and numbered all its events from the ones      *)
(* after eventSeq on, when dropped had left the ring before.               *)
Follows(h, eventSeq, dropped) ==
  LET gone == h.dropped - dropped
  IN /\ gone >= 0 /\ Len(h.events) <= MaxEvents
     /\ gone > 0 => Len(h.events) = MaxEvents
     /\ h.eventSeq = eventSeq + gone + Len(h.events)
     /\ \A i \in 1 .. Len(h.events) : h.events[i].seq = eventSeq + gone + i

(* Events of one prepare, of request id: what of it is in the ring of the  *)
(* transaction, whole unless some were dropped.                            *)
OneTrace(es, id, published, whole) ==
  /\ es # <<>>
  /\ \A i \in 1 .. Len(es) :
       /\ es[i].request = id /\ es[i].kind # "usage.calibrated"
       /\ es[i].kind = "request.started" => i = 1
       /\ es[i].kind = "snapshot.published" <=> published /\ i = Len(es)
  /\ whole => es[1].kind = "request.started"

LogFollows ==
  lock # None =>
    /\ Follows(txn, state.eventSeq, state.dropped)
    /\ OneTrace(txn.events, call[lock].id, pc[lock] = "commit", txn.dropped = state.dropped)

(* A request that is still known was prepared for the model it is known    *)
(* with, and nothing happened to it since.                                 *)
RecentPrepared ==
  \A x \in DOMAIN state.recent :
    \E p \in Prepares :
      /\ history[p].request = Request(x, state.recent[x])
      /\ LastOfRequest(p)

(* The snapshot is that of the newest prepare.                             *)
SnapshotOfNewest ==
  /\ state.requestSeq = Cardinality(Prepares) /\ state.snapshotSeq = Cardinality(Prepares)
  /\ Prepares = {} => state.latest = None
  /\ Prepares # {} =>
       /\ state.latest # None
       /\ state.latest.seq = state.snapshotSeq
       /\ KeepLast(state.latest.leases) = state.activeLeases
       /\ state.latest.dropped = state.dropped
       /\ \E p \in Prepares :
            /\ \A q \in Prepares : q <= p
            /\ state.latest.request = history[p].request.id
            /\ state.latest.model = history[p].request.model

(* The queue is in the order in which the requests were last prepared.     *)
PreparedInOrder ==
  \A x, y : Ahead(state, x, y) =>
    \A p \in Prepares : IdOf(p) = x => \E q \in Prepares : p < q /\ IdOf(q) = y

-----------------------------------------------------------------------------
(* Types and mutual exclusion.                                             *)

(* The events of TraceLeases that are of one kind: one for each member of  *)
(* S, in the order of the sequence q.                                      *)
LeaseEvents(kind, id, q, amount) == [i \in DOMAIN q |-> Event(kind, id, q[i], amount[q[i]])]

(* One event for each of the leases, with its amount of tokens.            *)
OnePerLease(es, kind, id, on, amount) ==
  /\ es \in Seq(Bodies)
  /\ \A i \in 1 .. Len(es) :
       /\ es[i].kind = kind /\ es[i].request = id
       /\ es[i].lease \in on /\ es[i].tokens = amount[es[i].lease]
  /\ \A l \in on : \E i \in 1 .. Len(es) : es[i].lease = l
  /\ \A i, j \in 1 .. Len(es) : es[i].lease = es[j].lease => i = j

LEMMA LeaseEventsShape ==
  ASSUME NEW S \in SUBSET LeaseIds, NEW q \in SetToSeqs(S), NEW amount, NEW kind \in Kinds,
         NEW id \in Ids, \A l \in S : amount[l] \in Nat
  PROVE  OnePerLease(LeaseEvents(kind, id, q, amount), kind, id, S, amount)
<1> DEFINE n == Cardinality(S)
           es == LeaseEvents(kind, id, q, amount)
<1>1. IsFiniteSet(S) /\ n \in Nat
  BY ArenaAssumption, FS_Subset, FS_CardinalityType
<1>2. q \in [1 .. n -> S] /\ \A i, j \in 1 .. n : i # j => q[i] # q[j]
  BY DEF SetToSeqs
<1>3. es = [i \in 1 .. n |-> Event(kind, id, q[i], amount[q[i]])]
  BY <1>2 DEF LeaseEvents
<1>4. \A i \in 1 .. n : Event(kind, id, q[i], amount[q[i]]) \in Bodies
  BY <1>2 DEF Event, Bodies
<1>5. \A l \in S : \E i \in 1 .. n : q[i] = l
  <2>1. q \in Injection(1 .. n, S)
    BY <1>2 DEF Injection, IsInjective
  <2>2. IsFiniteSet(1 .. n) /\ Cardinality(1 .. n) = n
    BY <1>1, FS_Interval
  <2>3. q \in Surjection(1 .. n, S)
    BY <1>1, <2>1, <2>2, FS_Injection
  <2>4. QED
    BY <2>3 DEF Surjection
<1> HIDE DEF es, n
<1>6. es \in Seq(Bodies) /\ Len(es) = n /\ DOMAIN es = 1 .. n
  BY <1>1, <1>3, <1>4
<1>7. \A i \in 1 .. n : /\ es[i].kind = kind /\ es[i].request = id
                        /\ es[i].lease = q[i] /\ es[i].tokens = amount[q[i]]
  BY <1>3 DEF Event
<1>8. QED
  BY <1>2, <1>5, <1>6, <1>7 DEF es, OnePerLease

(* Of the leases of one id the map keeps the tokens of one of them.        *)
LEMMA KeepLastShape ==
  ASSUME NEW next \in Seq(Leases)
  PROVE  /\ KeepLast(next) \in [LeaseIds -> Nat]
         /\ \A i \in DOMAIN next : next[i].id \in LeaseIds /\ next[i].tokens \in Nat
         /\ \A l \in LeaseIds : KeepLast(next)[l] > 0 =>
              \E i \in DOMAIN next : next[i].id = l /\ next[i].tokens = KeepLast(next)[l]
         /\ \A i \in DOMAIN next : next[i].id \notin SharedIds(next) =>
              KeepLast(next)[next[i].id] = next[i].tokens
<1> DEFINE of(l) == {i \in DOMAIN next : next[i].id = l}
           kept == KeepLast(next)
<1>1. DOMAIN next = 1 .. Len(next) /\ Len(next) \in Nat
  OBVIOUS
<1>2. \A i \in DOMAIN next : next[i].id \in LeaseIds /\ next[i].tokens \in Nat
  <2>1. \A i \in DOMAIN next : next[i] \in Leases
    BY <1>1
  <2>2. QED
    BY <2>1 DEF Leases
<1>3. ASSUME NEW l \in LeaseIds, NEW i \in of(l) PROVE Max(of(l)) \in of(l)
  <2>1. of(l) \in SUBSET Nat /\ \A j \in of(l) : j <= Len(next)
    BY <1>1
  <2> HIDE DEF of
  <2>2. PICK m \in of(l) : \A j \in of(l) : j <= m
    BY <1>1, <1>3, <2>1, GreatestNat
  <2>3. \A j \in of(l) : m >= j
    BY <2>1, <2>2
  <2>4. QED
    BY <2>2, <2>3 DEF Max
<1>4. kept = [l \in LeaseIds |-> IF of(l) = {} THEN 0 ELSE next[Max(of(l))].tokens]
  BY DEF KeepLast
<1> HIDE DEF kept
<1>5. ASSUME NEW l \in LeaseIds, of(l) # {}
      PROVE  \E i \in DOMAIN next : next[i].id = l /\ next[i].tokens = kept[l]
  <2>1. Max(of(l)) \in of(l) /\ kept[l] = next[Max(of(l))].tokens
    BY <1>3, <1>4, <1>5
  <2>2. QED
    BY <2>1
<1>6. kept \in [LeaseIds -> Nat]
  <2>1. ASSUME NEW l \in LeaseIds PROVE (IF of(l) = {} THEN 0 ELSE next[Max(of(l))].tokens) \in Nat
    BY <1>2, <1>3
  <2> HIDE DEF of
  <2>2. QED
    BY <1>4, <2>1
<1>7. ASSUME NEW l \in LeaseIds, kept[l] > 0
      PROVE  \E i \in DOMAIN next : next[i].id = l /\ next[i].tokens = kept[l]
  <2>1. of(l) # {}
    BY <1>4, <1>7
  <2>2. QED
    BY <1>5, <2>1
<1>8. ASSUME NEW i \in DOMAIN next, next[i].id \notin SharedIds(next)
      PROVE  kept[next[i].id] = next[i].tokens
  <2>1. next[i].id \in LeaseIds /\ i \in of(next[i].id)
    BY <1>2
  <2>2. PICK j \in DOMAIN next : next[j].id = next[i].id /\ next[j].tokens = kept[next[i].id]
    BY <1>5, <2>1
  <2>3. j = i
    BY <1>8, <2>1, <2>2 DEF SharedIds
  <2>4. QED
    BY <2>2, <2>3
<1>9. QED
  BY <1>2, <1>6, <1>7, <1>8 DEF kept

(* Events that grant: what every grown lease has more, and for an id that  *)
(* is not shared nothing else.                                             *)
Grants(fs, id, grown, up, shared) ==
  /\ fs \in Seq(Bodies)
  /\ \A k \in 1 .. Len(fs) : fs[k].kind = "lease.granted" /\ fs[k].request = id
  /\ \A l \in grown : \E k \in 1 .. Len(fs) : fs[k].lease = l /\ fs[k].tokens = up[l]
  /\ \A k \in 1 .. Len(fs) : fs[k].lease \notin shared =>
       /\ fs[k].lease \in grown /\ fs[k].tokens = up[fs[k].lease]
       /\ \A n \in 1 .. Len(fs) : fs[n].lease = fs[k].lease => n = k

LEMMA GrantsShape ==
  ASSUME NEW next \in Seq(Leases), NEW before \in [LeaseIds -> Nat], NEW id \in Ids
  PROVE  LET after == KeepLast(next)
             granted == Selected(next, {i \in DOMAIN next : next[i].tokens > before[next[i].id]})
         IN Grants([i \in DOMAIN granted |->
                      Event("lease.granted", id, granted[i].id,
                            granted[i].tokens - before[granted[i].id])],
                   id, {l \in LeaseIds : after[l] > before[l]},
                   [l \in LeaseIds |-> after[l] - before[l]], SharedIds(next))
<1> DEFINE after == KeepLast(next)
           I == {i \in DOMAIN next : next[i].tokens > before[next[i].id]}
           r == Selected(next, I)
           fs == [i \in DOMAIN r |->
                    Event("lease.granted", id, r[i].id, r[i].tokens - before[r[i].id])]
           grown == {l \in LeaseIds : after[l] > before[l]}
           up == [l \in LeaseIds |-> after[l] - before[l]]
           shared == SharedIds(next)
<1>1. /\ after \in [LeaseIds -> Nat]
      /\ \A i \in DOMAIN next : next[i].id \in LeaseIds /\ next[i].tokens \in Nat
      /\ \A l \in LeaseIds : after[l] > 0 =>
           \E i \in DOMAIN next : next[i].id = l /\ next[i].tokens = after[l]
      /\ \A i \in DOMAIN next : next[i].id \notin shared => after[next[i].id] = next[i].tokens
  BY KeepLastShape
<1> HIDE DEF after
<1>2. I \in SUBSET (DOMAIN next) /\ DOMAIN next = 1 .. Len(next) /\ Len(next) \in Nat
  OBVIOUS
<1>3. \A i : i \in I <=> i \in DOMAIN next /\ next[i].tokens > before[next[i].id]
  OBVIOUS
<1> HIDE DEF I
<1>4. /\ r \in Seq(Leases)
      /\ \A k \in 1 .. Len(r) :
           \E i \in I :
             /\ r[k] = next[i]
             /\ \A n \in 1 .. Len(r) : k < n => \E j \in I : i < j /\ r[n] = next[j]
      /\ \A i \in I : \E k \in 1 .. Len(r) : r[k] = next[i]
  BY <1>2, SelectedInOrder, Zenon
<1> HIDE DEF r
<1>5. DOMAIN r = 1 .. Len(r) /\ Len(r) \in Nat
  BY <1>4
<1>6. ASSUME NEW k \in 1 .. Len(r)
      PROVE  /\ r[k].id \in LeaseIds /\ r[k].tokens \in Nat /\ before[r[k].id] \in Nat
             /\ r[k].tokens > before[r[k].id]
             /\ r[k].id \notin shared => after[r[k].id] = r[k].tokens
  <2>1. PICK i \in I : r[k] = next[i]
    BY <1>4
  <2>2. QED
    BY <1>1, <1>2, <1>3, <2>1
<1>7. /\ DOMAIN fs = 1 .. Len(r)
      /\ \A k \in 1 .. Len(r) :
           /\ fs[k] = Event("lease.granted", id, r[k].id, r[k].tokens - before[r[k].id])
           /\ fs[k].kind = "lease.granted" /\ fs[k].request = id
           /\ fs[k].lease = r[k].id /\ fs[k].tokens = r[k].tokens - before[r[k].id]
  BY <1>5 DEF Event
<1>8. \A k \in 1 .. Len(r) : fs[k] \in Bodies
  <2>1. SUFFICES ASSUME NEW k \in 1 .. Len(r)
                 PROVE  Event("lease.granted", id, r[k].id, r[k].tokens - before[r[k].id]) \in Bodies
    BY <1>7
  <2>2. r[k].id \in LeaseIds /\ r[k].tokens - before[r[k].id] \in Nat
    BY <1>6
  <2>3. QED
    BY <2>2 DEF Event, Bodies, Kinds
<1>9. fs \in Seq(Bodies) /\ Len(fs) = Len(r)
  <2>1. fs = [k \in 1 .. Len(r) |-> fs[k]]
    BY <1>5
  <2> HIDE DEF fs
  <2>2. QED
    BY <1>5, <1>7, <1>8, <2>1
<1> HIDE DEF fs
<1>10. ASSUME NEW l \in grown
       PROVE  \E k \in 1 .. Len(fs) : fs[k].lease = l /\ fs[k].tokens = up[l]
  <2>1. l \in LeaseIds /\ after[l] > before[l] /\ up[l] = after[l] - before[l]
    OBVIOUS
  <2>2. after[l] > 0
    BY <1>1, <2>1
  <2>3. PICK i \in DOMAIN next : next[i].id = l /\ next[i].tokens = after[l]
    BY <1>1, <2>1, <2>2
  <2>4. i \in I
    BY <1>3, <2>1, <2>3
  <2>5. PICK k \in 1 .. Len(r) : r[k] = next[i]
    BY <1>4, <2>4
  <2>6. QED
    BY <1>7, <1>9, <2>1, <2>3, <2>5
<1>11. ASSUME NEW k \in 1 .. Len(fs), fs[k].lease \notin shared
       PROVE  fs[k].lease \in grown /\ fs[k].tokens = up[fs[k].lease]
  BY <1>6, <1>7, <1>9, <1>11
<1>12. ASSUME NEW k \in 1 .. Len(fs), NEW n \in 1 .. Len(fs), k < n,
              fs[n].lease = fs[k].lease
       PROVE  fs[k].lease \in shared
  <2>1. PICK i \in I, j \in I : r[k] = next[i] /\ r[n] = next[j] /\ i < j
    <3>1. PICK i \in I : /\ r[k] = next[i]
                         /\ \A m \in 1 .. Len(r) : k < m => \E j \in I : i < j /\ r[m] = next[j]
      BY <1>4, <1>9
    <3>2. QED
      BY <1>9, <1>12, <3>1
  <2>2. i \in DOMAIN next /\ j \in DOMAIN next /\ i # j
    BY <1>2, <2>1
  <2>3. next[i].id = fs[k].lease /\ next[j].id = fs[k].lease
    BY <1>7, <1>9, <1>12, <2>1
  <2>4. QED
    BY <1>1, <2>2, <2>3 DEF SharedIds
<1>13. ASSUME NEW k \in 1 .. Len(fs), fs[k].lease \notin shared,
              NEW n \in 1 .. Len(fs), fs[n].lease = fs[k].lease
       PROVE  n = k
  <2>1. k \in Nat /\ n \in Nat
    BY <1>5, <1>9
  <2>2. ~(k < n) /\ ~(n < k)
    BY <1>12, <1>13
  <2>3. QED
    BY <2>1, <2>2
<1>14. Grants(fs, id, grown, up, shared)
  BY <1>7, <1>9, <1>10, <1>11, <1>13 DEF Grants
<1>15. QED
  BY <1>14 DEF fs, r, I, after

LEMMA TypesInit == Init => ArenaTypes /\ Exclusive
<1> SUFFICES ASSUME Init PROVE ArenaTypes /\ Exclusive
  OBVIOUS
<1>1. EmptyState.recent \in Recents
  <2>1. <<>> \in [{} -> Models]
    OBVIOUS
  <2>2. QED
    BY <2>1 DEF EmptyState, Recents
<1>2. EmptyState \in ArenaStates
  BY <1>1 DEF EmptyState, ArenaStates, NoTokens
<1>3. ArenaTypes
  BY <1>2 DEF Init, ArenaTypes, NoTokens, Inside
<1>4. Exclusive
  BY ArenaAssumption DEF Init, Exclusive, Inside
<1>5. QED
  BY <1>3, <1>4

(* What TraceLeases does.                                                  *)
LEMMA TraceLeasesEffect ==
  ASSUME ArenaTypes, Exclusive, NEW t \in Threads, NEW next \in LeaseOutcomes,
         TraceLeases(t, next)
  PROVE  LET before == txn.activeLeases
             after == KeepLast(next)
             id == call[t].id
         IN \E es, fs \in Seq(Bodies) :
              /\ OnePerLease(es, "lease.reclaimed", id, {l \in LeaseIds : Shrunk(l, after)},
                             [l \in LeaseIds |-> before[l] - after[l]])
              /\ Grants(fs, id, {l \in LeaseIds : after[l] > before[l]},
                        [l \in LeaseIds |-> after[l] - before[l]], SharedIds(next))
              /\ after \in [LeaseIds -> Nat] /\ leases' = next /\ next \in Seq(Leases)
              /\ txn' \in ArenaStates
              /\ txn'.requestSeq = txn.requestSeq /\ txn'.snapshotSeq = txn.snapshotSeq
              /\ txn'.activeLeases = after /\ txn'.samples = txn.samples
              /\ txn'.recent = txn.recent /\ txn'.recentOrder = txn.recentOrder
              /\ txn'.latest = txn.latest
              /\ Pushed(txn, txn', es \o fs)
              /\ trace' = trace \o (es \o fs)
<1> DEFINE before == txn.activeLeases
           after == KeepLast(next)
           id == call[t].id
           down == [l \in LeaseIds |-> before[l] - after[l]]
           up == [l \in LeaseIds |-> after[l] - before[l]]
           shrunk == {l \in LeaseIds : Shrunk(l, after)}
           grown == {l \in LeaseIds : after[l] > before[l]}
           granted == Selected(next, {i \in DOMAIN next : next[i].tokens > before[next[i].id]})
<1>1. /\ before \in [LeaseIds -> Nat] /\ id \in Ids /\ txn \in ArenaStates
      /\ next \in Seq(Leases) /\ after \in [LeaseIds -> Nat]
  <2>1. lock = t /\ txn \in ArenaStates /\ call[t] \in Requests(Ids)
    BY ArenaAssumption DEF ArenaTypes, Exclusive, Inside, TraceLeases
  <2>2. QED
    BY <2>1, ArenaAssumption, KeepLastShape DEF ArenaStates, Requests
<1>2. PICK reclaimed \in SetToSeqs(shrunk) :
        LET es == [i \in DOMAIN reclaimed |->
                     Event("lease.reclaimed", id, reclaimed[i],
                           before[reclaimed[i]] - after[reclaimed[i]])]
                  \o [i \in DOMAIN granted |->
                     Event("lease.granted", id, granted[i].id,
                           granted[i].tokens - before[granted[i].id])]
        IN /\ txn' = [Push(txn, es) EXCEPT !.activeLeases = after]
           /\ trace' = trace \o es
  BY Zenon DEF TraceLeases, Record
<1> DEFINE es == LeaseEvents("lease.reclaimed", id, reclaimed, down)
           fs == [i \in DOMAIN granted |->
                    Event("lease.granted", id, granted[i].id,
                          granted[i].tokens - before[granted[i].id])]
<1>3. \A l \in LeaseIds : Shrunk(l, after) <=> before[l] > after[l]
  BY DEF Shrunk
<1> HIDE DEF before, id
<1>7. Grants(fs, id, grown, up, SharedIds(next))
  BY <1>1, GrantsShape, ZenonT(60)
<1> HIDE DEF after, granted
<1>4. \A l \in shrunk : down[l] = before[l] - after[l] /\ down[l] \in Nat
  BY <1>1, <1>3
<1>5. shrunk \in SUBSET LeaseIds
  OBVIOUS
<1>6. \A i \in DOMAIN reclaimed : reclaimed[i] \in shrunk
  BY DEF SetToSeqs
<1>8. es = [i \in DOMAIN reclaimed |->
              Event("lease.reclaimed", id, reclaimed[i],
                    before[reclaimed[i]] - after[reclaimed[i]])]
  BY <1>4, <1>6 DEF LeaseEvents
<1>10. "lease.reclaimed" \in Kinds
  BY DEF Kinds
<1> HIDE DEF shrunk, grown, down, up
<1>11. OnePerLease(es, "lease.reclaimed", id, shrunk, down)
  BY <1>1, <1>4, <1>5, <1>10, LeaseEventsShape
<1>12. /\ txn' = [Push(txn, es \o fs) EXCEPT !.activeLeases = after]
       /\ trace' = trace \o (es \o fs)
  BY <1>2, <1>8
<1>9. leases' = next
  BY DEF TraceLeases
<1> HIDE DEF es, fs
<1>13. es \in Seq(Bodies) /\ fs \in Seq(Bodies) /\ es \o fs \in Seq(Bodies)
  BY <1>7, <1>11 DEF OnePerLease, Grants
<1> DEFINE both == es \o fs
           p == Push(txn, both)
<1> HIDE DEF both
<1>14. /\ p \in ArenaStates
       /\ p.requestSeq = txn.requestSeq /\ p.snapshotSeq = txn.snapshotSeq
       /\ p.samples = txn.samples
       /\ p.recent = txn.recent /\ p.recentOrder = txn.recentOrder
       /\ p.latest = txn.latest
       /\ Pushed(txn, p, both)
  <2>1. both \in Seq(Bodies)
    BY <1>13 DEF both
  <2>2. QED
    BY <1>1, <2>1, PushEffect, Zenon DEF Pushed
<1> HIDE DEF p
<1>15. txn' = [p EXCEPT !.activeLeases = after]
  BY <1>12 DEF p, both
<1>16. /\ txn' \in ArenaStates
       /\ txn'.requestSeq = p.requestSeq /\ txn'.snapshotSeq = p.snapshotSeq
       /\ txn'.activeLeases = after /\ txn'.samples = p.samples
       /\ txn'.recent = p.recent /\ txn'.recentOrder = p.recentOrder
       /\ txn'.latest = p.latest
       /\ txn'.eventSeq = p.eventSeq /\ txn'.events = p.events /\ txn'.dropped = p.dropped
  BY <1>1, <1>14, <1>15 DEF ArenaStates
<1>17. Pushed(txn, txn', es \o fs)
  BY <1>14, <1>16 DEF Pushed, both
<1>18. QED
  BY <1>1, <1>7, <1>9, <1>11, <1>12, <1>13, <1>14, <1>16, <1>17
  DEF before, after, id, down, up, shrunk, grown

(* What the other steps of a transaction do.                               *)
LEMMA BeginStep ==
  ASSUME ArenaTypes, NEW t \in Threads, Begin(t)
  PROVE  \E id \in Ids :
           /\ call' = [call EXCEPT ![t].id = id]
           /\ call'[t] = Request(id, call[t].model) /\ call'[t] \in Requests(Ids)
           /\ txn' = Begun(state, id)
           /\ trace' = <<Plain("request.started", id)>> /\ trace' \in Seq(Bodies)
<1> DEFINE number == state.requestSeq + 1
           id == IF call[t].id = NoId THEN number ELSE call[t].id
<1>1. number \in Nat /\ call[t] \in Requests(Ids \cup {NoId}) /\ DOMAIN call = Threads
  <2>1. pc[t] = "planning"
    BY DEF Begin
  <2>2. call[t] \in Requests(Ids \cup {NoId}) /\ DOMAIN call = Threads /\ state \in ArenaStates
    BY <2>1 DEF ArenaTypes
  <2>3. number \in Nat
    BY <2>2 DEF ArenaStates
  <2>4. QED
    BY <2>2, <2>3
<1>2. id \in Ids /\ call[t].model \in Models
  BY <1>1 DEF Requests, Ids
<1>3. /\ call' = [call EXCEPT ![t].id = id]
      /\ txn' = Begun(state, id)
      /\ trace' = <<Plain("request.started", id)>>
  BY DEF Begin, Begun
<1> HIDE DEF id
<1>4. call'[t] = Request(id, call[t].model) /\ call'[t] \in Requests(Ids)
  BY <1>1, <1>2, <1>3 DEF Request, Requests
<1>5. trace' \in Seq(Bodies)
  BY <1>2, <1>3, PlainBody DEF Kinds
<1>6. QED
  BY <1>2, <1>3, <1>4, <1>5

LEMMA CompressStep ==
  ASSUME ArenaTypes, Exclusive, NEW t \in Threads, NEW n \in 0 .. MaxCompressed, Compress(t, n)
  PROVE  \E es \in Seq(Bodies) :
           /\ \A i \in 1 .. Len(es) : es[i].kind = "chunk.compressed" /\ es[i].request = call[t].id
           /\ txn' \in ArenaStates
           /\ txn'.requestSeq = txn.requestSeq /\ txn'.snapshotSeq = txn.snapshotSeq
           /\ txn'.activeLeases = txn.activeLeases /\ txn'.samples = txn.samples
           /\ txn'.recent = txn.recent /\ txn'.recentOrder = txn.recentOrder
           /\ txn'.latest = txn.latest
           /\ Pushed(txn, txn', es)
           /\ trace' = trace \o es
<1> DEFINE es == [i \in 1 .. n |-> Plain("chunk.compressed", call[t].id)]
<1>1. call[t].id \in Ids /\ txn \in ArenaStates
  BY ArenaAssumption DEF ArenaTypes, Exclusive, Inside, Compress, Requests
<1>2. Plain("chunk.compressed", call[t].id) \in Bodies
  BY <1>1, PlainBody DEF Kinds
<1>3. n \in Nat
  BY ArenaAssumption
<1>4. /\ es \in Seq(Bodies) /\ Len(es) = n
      /\ \A i \in 1 .. n : es[i] = Plain("chunk.compressed", call[t].id)
  BY <1>2, <1>3
<1>5. \A i \in 1 .. Len(es) : es[i].kind = "chunk.compressed" /\ es[i].request = call[t].id
  BY <1>4 DEF Plain, Event
<1>6. txn' = Push(txn, es) /\ trace' = trace \o es
  BY DEF Compress, Record
<1> HIDE DEF es
<1>7. QED
  BY <1>1, <1>4, <1>5, <1>6, PushEffect DEF Pushed

LEMMA PublishStep ==
  ASSUME ArenaTypes, Exclusive, NEW t \in Threads, Publish(t)
  PROVE  /\ lock = t /\ call[t] \in Requests(Ids) /\ txn \in ArenaStates /\ leases \in Seq(Leases)
         /\ leases' = leases
         /\ txn' = Published(txn, call[t], leases)
         /\ trace' = trace \o (<<Plain("request.prepared", call[t].id)>>
                               \o <<Plain("snapshot.published", call[t].id)>>)
         /\ <<Plain("request.prepared", call[t].id)>> \in Seq(Bodies)
         /\ <<Plain("snapshot.published", call[t].id)>> \in Seq(Bodies)
<1>1. /\ lock = t /\ call[t] \in Requests(Ids) /\ txn \in ArenaStates /\ leases \in Seq(Leases)
      /\ leases' = leases
  BY ArenaAssumption DEF ArenaTypes, Exclusive, Inside, Publish
<1>2. txn' = Published(txn, call[t], leases)
  BY DEF Publish, Published
<1>3. trace' = trace \o (<<Plain("request.prepared", call[t].id)>>
                         \o <<Plain("snapshot.published", call[t].id)>>)
  BY DEF Publish, Record
<1>4. call[t].id \in Ids
  BY <1>1 DEF Requests
<1>5. QED
  BY <1>1, <1>2, <1>3, <1>4, PlainBody DEF Kinds

LEMMA TracedNat ==
  ASSUME trace \in Seq(Bodies), NEW kind, NEW l
  PROVE  TracedTokens(kind, l) \in Nat
<1> DEFINE I == {i \in DOMAIN trace : trace[i].kind = kind /\ trace[i].lease = l}
           tokens == [i \in DOMAIN trace |-> trace[i].tokens]
<1>1. DOMAIN trace = 1 .. Len(trace) /\ Len(trace) \in Nat
  OBVIOUS
<1>2. IsFiniteSet(I)
  <2>1. IsFiniteSet(1 .. Len(trace)) /\ I \in SUBSET (1 .. Len(trace))
    BY <1>1, FS_Interval
  <2>2. QED
    BY <2>1, FS_Subset
<1>3. \A i \in I : tokens[i] \in Nat
  <2>1. \A i \in 1 .. Len(trace) : trace[i] \in Bodies
    OBVIOUS
  <2>2. QED
    BY <1>1, <2>1 DEF Bodies
<1> HIDE DEF I, tokens
<1>4. TotalOver(tokens, I) \in Nat
  BY <1>2, <1>3, TotalNat
<1>5. QED
  BY <1>4 DEF TracedTokens, I, tokens

(* The mutex is taken by one thread, from Begin to Commit, Abort or Panic; *)
(* every step keeps the types.                                             *)
LEMMA TypesStep == ArenaTypes /\ Exclusive /\ [Next]_vars => ArenaTypes' /\ Exclusive'
<1> SUFFICES ASSUME ArenaTypes, Exclusive, [Next]_vars PROVE ArenaTypes' /\ Exclusive'
  OBVIOUS
<1>1. None \notin Threads /\ NoId \notin Ids
  BY ArenaAssumption
<1>2. \A t \in Threads : pc[t] \in Inside <=> lock = t
  BY DEF Exclusive
<1>3. /\ state \in ArenaStates /\ pc \in [Threads -> {"idle", "called", "planning"} \cup Inside]
      /\ DOMAIN call = Threads /\ leases \in Seq(Leases) /\ <<>> \in Seq(Leases)
      /\ history \in Seq(Entries) /\ ledger \in [LeaseIds -> Int]
  BY DEF ArenaTypes
<1>4. lock \in Threads => txn \in ArenaStates /\ trace \in Seq(Bodies)
  BY <1>1 DEF Exclusive
<1>5. CASE UNCHANGED vars
  <2>1. ArenaTypes'
    BY <1>5 DEF vars, ArenaTypes
  <2>2. Exclusive'
    BY <1>5 DEF vars, Exclusive
  <2>3. QED
    BY <2>1, <2>2
<1>6. ASSUME NEW t \in Threads, NEW id \in ExplicitIds \cup {NoId}, NEW k \in Models, Call(t, id, k)
      PROVE  ArenaTypes' /\ Exclusive'
  <2>1. Request(id, k) \in Requests(Ids \cup {NoId})
    BY DEF Request, Requests, Ids
  <2>2. ArenaTypes'
    BY <1>3, <1>6, <2>1 DEF Call, ArenaTypes, Inside
  <2>3. Exclusive'
    BY <1>1, <1>2, <1>3, <1>6 DEF Call, Exclusive, Inside
  <2>4. QED
    BY <2>2, <2>3
<1>7. ASSUME NEW t \in Threads, ReadMultiplier(t) PROVE ArenaTypes' /\ Exclusive'
  <2>1. ArenaTypes'
    BY <1>3, <1>7 DEF ReadMultiplier, ArenaTypes, Inside
  <2>2. Exclusive'
    BY <1>1, <1>2, <1>3, <1>7 DEF ReadMultiplier, Exclusive, Inside
  <2>3. QED
    BY <2>1, <2>2
<1>8. ASSUME NEW t \in Threads, PlanFails(t) \/ LockPoisoned(t) PROVE ArenaTypes' /\ Exclusive'
  <2>1. ArenaTypes'
    BY <1>3, <1>8 DEF PlanFails, LockPoisoned, Return, ArenaTypes, Inside
  <2>2. Exclusive'
    BY <1>1, <1>2, <1>3, <1>8 DEF PlanFails, LockPoisoned, Return, Exclusive, Inside
  <2>3. QED
    BY <2>1, <2>2
<1>9. ASSUME NEW t \in Threads, Begin(t) PROVE ArenaTypes' /\ Exclusive'
  <2>1. PICK id \in Ids :
          /\ call' = [call EXCEPT ![t].id = id]
          /\ call'[t] = Request(id, call[t].model) /\ call'[t] \in Requests(Ids)
          /\ txn' = Begun(state, id)
          /\ trace' = <<Plain("request.started", id)>> /\ trace' \in Seq(Bodies)
    BY <1>9, BeginStep
  <2>2. txn' \in ArenaStates
    BY <1>3, <2>1, BeginEffect
  <2>3. ArenaTypes'
    BY <1>3, <1>9, <2>1 DEF Begin, ArenaTypes, Inside
  <2>4. Exclusive'
    BY <1>1, <1>2, <1>3, <1>9, <2>1, <2>2 DEF Begin, MutexFree, Exclusive, Inside
  <2>5. QED
    BY <2>3, <2>4
<1>10. ASSUME NEW t \in Threads, NEW next \in LeaseOutcomes, TraceLeases(t, next)
       PROVE  ArenaTypes' /\ Exclusive'
  <2>1. lock = t
    BY <1>2, <1>10 DEF TraceLeases, Inside
  <2>2. txn' \in ArenaStates /\ trace' \in Seq(Bodies)
    <3>1. PICK es \in Seq(Bodies), fs \in Seq(Bodies) :
            txn' \in ArenaStates /\ trace' = trace \o (es \o fs)
      BY <1>10, TraceLeasesEffect
    <3>2. QED
      BY <1>4, <2>1, <3>1
  <2>3. ArenaTypes'
    BY <1>3, <1>10, ArenaAssumption DEF TraceLeases, ArenaTypes, Inside
  <2>4. Exclusive'
    BY <1>1, <1>2, <1>3, <1>10, <2>1, <2>2 DEF TraceLeases, Exclusive, Inside
  <2>5. QED
    BY <2>3, <2>4
<1>11. ASSUME NEW t \in Threads, NEW n \in 0 .. MaxCompressed, Compress(t, n)
       PROVE  ArenaTypes' /\ Exclusive'
  <2>1. lock = t
    BY <1>2, <1>11 DEF Compress, Inside
  <2>2. txn' \in ArenaStates /\ trace' \in Seq(Bodies)
    <3>1. PICK es \in Seq(Bodies) : txn' \in ArenaStates /\ trace' = trace \o es
      BY <1>11, CompressStep
    <3>2. QED
      BY <1>4, <2>1, <3>1
  <2>3. ArenaTypes'
    BY <1>3, <1>11 DEF Compress, ArenaTypes, Inside
  <2>4. Exclusive'
    BY <1>1, <1>2, <1>3, <1>11, <2>1, <2>2 DEF Compress, Exclusive, Inside
  <2>5. QED
    BY <2>3, <2>4
<1>12. ASSUME NEW t \in Threads, Publish(t) PROVE ArenaTypes' /\ Exclusive'
  <2>1. lock = t
    BY <1>2, <1>12 DEF Publish, Inside
  <2>2. txn' \in ArenaStates /\ trace' \in Seq(Bodies)
    <3>1. /\ txn' = Published(txn, call[t], leases) /\ txn \in ArenaStates
          /\ call[t] \in Requests(Ids) /\ leases \in Seq(Leases)
      BY <1>12, PublishStep
    <3>2. txn' \in ArenaStates
      BY <3>1, PublishEffect
    <3>3. PICK es \in Seq(Bodies), fs \in Seq(Bodies) : trace' = trace \o (es \o fs)
      BY <1>12, PublishStep
    <3>4. QED
      BY <1>4, <2>1, <3>2, <3>3
  <2>3. ArenaTypes'
    BY <1>3, <1>12 DEF Publish, ArenaTypes, Inside
  <2>4. Exclusive'
    BY <1>1, <1>2, <1>3, <1>12, <2>1, <2>2 DEF Publish, Exclusive, Inside
  <2>5. QED
    BY <2>3, <2>4
<1>13. ASSUME NEW t \in Threads, Abort(t) \/ Panic(t) PROVE ArenaTypes' /\ Exclusive'
  <2>1. ArenaTypes'
    BY <1>3, <1>13 DEF Abort, Panic, AfterFailure, EndTransaction, Unlock, Return, ArenaTypes, Inside
  <2>2. Exclusive'
    BY <1>1, <1>2, <1>3, <1>13 DEF Abort, Panic, EndTransaction, Unlock, Return, Exclusive, Inside
  <2>3. QED
    BY <2>1, <2>2
<1>14. ASSUME NEW t \in Threads, Commit(t) PROVE ArenaTypes' /\ Exclusive'
  <2>1. lock = t /\ call[t] \in Requests(Ids)
    BY <1>2, <1>14 DEF Commit, ArenaTypes, Inside
  <2>2. state' \in ArenaStates
    BY <1>3, <1>4, <1>14, <2>1, CommitEffect DEF Commit
  <2>3. history' \in Seq(Entries)
    BY <1>3, <1>14, <2>1 DEF Commit, Happened, Entries
  <2>4. ledger' \in [LeaseIds -> Int]
    <3>1. \A kind, l : TracedTokens(kind, l) \in Nat
      BY <1>4, <2>1, TracedNat
    <3>2. ledger' = [l \in LeaseIds |->
            ledger[l] + TracedTokens("lease.granted", l) - TracedTokens("lease.reclaimed", l)]
      BY <1>14 DEF Commit
    <3>3. QED
      BY <1>3, <3>1, <3>2
  <2>5. ArenaTypes'
    BY <1>3, <1>14, <2>2, <2>3, <2>4 DEF Commit, EndTransaction, Return, ArenaTypes, Inside
  <2>6. Exclusive'
    BY <1>1, <1>2, <1>3, <1>14 DEF Commit, EndTransaction, Unlock, Return, Exclusive, Inside
  <2>7. QED
    BY <2>5, <2>6
<1>15. ASSUME NEW id \in RequestIds, RecordUsage(id) PROVE ArenaTypes' /\ Exclusive'
  <2>1. state' = Reported(state, id) /\ id \in DOMAIN state.recent
    BY <1>15 DEF RecordUsage, Reported
  <2>2. state' \in ArenaStates /\ state.recent[id] \in Models /\ id \in Ids
    BY <1>3, <2>1, ReportEffect
  <2>3. history' \in Seq(Entries)
    <3>1. [op |-> "usage", request |-> Request(id, state.recent[id])] \in Entries
      BY <2>2 DEF Entries, Request, Requests
    <3>2. history' = Append(history, [op |-> "usage", request |-> Request(id, state.recent[id])])
      BY <1>15 DEF RecordUsage, Happened
    <3>3. QED
      BY <1>3, <3>1, <3>2 DEF ArenaTypes
  <2>4. ArenaTypes'
    BY <1>15, <2>2, <2>3 DEF RecordUsage, ArenaTypes
  <2>5. Exclusive'
    BY <1>15 DEF RecordUsage, Exclusive
  <2>6. QED
    BY <2>4, <2>5
<1>16. QED
  BY <1>5, <1>6, <1>7, <1>8, <1>9, <1>10, <1>11, <1>12, <1>13, <1>14, <1>15 DEF Next, Proceed

(* The state changes when a prepare commits and when usage is reported.    *)
LEMMA StateSteps ==
  ASSUME ArenaTypes, Exclusive, [Next]_vars
  PROVE  \/ UNCHANGED <<state, history, ledger, repeated>>
         \/ \E t \in Threads : Commit(t) /\ pc[t] = "commit" /\ lock = t
         \/ \E id \in DOMAIN state.recent :
              /\ RecordUsage(id) /\ lock = None
              /\ state' = Reported(state, id)
<1>1. CASE UNCHANGED vars
  BY <1>1 DEF vars
<1>2. ASSUME NEW t \in Threads, Proceed(t) \/ PlanFails(t)
      PROVE  UNCHANGED <<state, history, ledger, repeated>> \/ Commit(t)
  BY <1>2 DEF Proceed, PlanFails, ReadMultiplier, LockPoisoned, Begin, TraceLeases, Compress,
              Publish, Abort, AfterFailure, Panic
<1>3. ASSUME NEW t \in Threads, Commit(t) PROVE pc[t] = "commit" /\ lock = t
  BY <1>3 DEF Commit, Exclusive, Inside
<1>4. ASSUME NEW t \in Threads, NEW id, NEW k, Call(t, id, k) PROVE UNCHANGED <<state, history, ledger, repeated>>
  BY <1>4 DEF Call
<1>5. ASSUME NEW id, RecordUsage(id)
      PROVE  id \in DOMAIN state.recent /\ lock = None /\ state' = Reported(state, id)
  BY <1>5 DEF RecordUsage, MayReport, MutexFree, Reported
<1>6. QED
  BY <1>1, <1>2, <1>3, <1>4, <1>5 DEF Next

(* The transaction of the holder changes in its own steps only.            *)
LEMMA TxnSteps ==
  ASSUME ArenaTypes, Exclusive, [Next]_vars, lock' # None
  PROVE  \/ /\ lock \in Threads /\ lock' = lock /\ UNCHANGED <<state, txn, leases, trace>>
            /\ pc'[lock] = pc[lock] /\ call'[lock] = call[lock]
         \/ \E t \in Threads : Begin(t) /\ lock' = t /\ UNCHANGED state /\ pc'[t] = "leases"
         \/ \E t \in Threads :
              /\ lock = t /\ lock' = t /\ UNCHANGED <<state, call>>
              /\ \/ \E next \in LeaseOutcomes :
                      TraceLeases(t, next) /\ pc[t] = "leases" /\ pc'[t] = "modules"
                 \/ \E n \in 0 .. MaxCompressed :
                      Compress(t, n) /\ pc[t] = "modules" /\ pc'[t] = "publish"
                 \/ Publish(t) /\ pc[t] = "publish" /\ pc'[t] = "commit"
<1>1. /\ pc \in [Threads -> {"idle", "called", "planning"} \cup Inside]
      /\ DOMAIN call = Threads
      /\ lock \in Threads \cup {None}
      /\ \A t \in Threads : pc[t] \in Inside <=> lock = t
  BY DEF ArenaTypes, Exclusive
<1>2. CASE UNCHANGED vars
  BY <1>1, <1>2 DEF vars
<1>3. ASSUME NEW t \in Threads, NEW id, NEW k, Call(t, id, k)
      PROVE  /\ lock \in Threads /\ lock' = lock /\ UNCHANGED <<state, txn, leases, trace>>
             /\ pc'[lock] = pc[lock] /\ call'[lock] = call[lock]
  BY <1>1, <1>3 DEF Call, Inside
<1>4. ASSUME NEW t \in Threads, PlanFails(t) \/ LockPoisoned(t) \/ ReadMultiplier(t)
      PROVE  /\ lock \in Threads /\ lock' = lock /\ UNCHANGED <<state, txn, leases, trace>>
             /\ pc'[lock] = pc[lock] /\ call'[lock] = call[lock]
  BY <1>1, <1>4 DEF PlanFails, LockPoisoned, ReadMultiplier, Return, Inside
<1>5. ASSUME NEW t \in Threads, Begin(t)
      PROVE  lock' = t /\ UNCHANGED state /\ pc'[t] = "leases"
  BY <1>1, <1>5 DEF Begin
<1>6. ASSUME NEW t \in Threads, NEW next, TraceLeases(t, next)
      PROVE  /\ lock = t /\ lock' = t /\ UNCHANGED <<state, call>>
             /\ pc[t] = "leases" /\ pc'[t] = "modules"
  BY <1>1, <1>6 DEF TraceLeases, Inside
<1>7. ASSUME NEW t \in Threads, NEW n, Compress(t, n)
      PROVE  /\ lock = t /\ lock' = t /\ UNCHANGED <<state, call>>
             /\ pc[t] = "modules" /\ pc'[t] = "publish"
  BY <1>1, <1>7 DEF Compress, Inside
<1>8. ASSUME NEW t \in Threads, Publish(t)
      PROVE  /\ lock = t /\ lock' = t /\ UNCHANGED <<state, call>>
             /\ pc[t] = "publish" /\ pc'[t] = "commit"
  BY <1>1, <1>8 DEF Publish, Inside
<1>9. ASSUME NEW t \in Threads, Commit(t) \/ Abort(t) \/ Panic(t) PROVE FALSE
  BY <1>9 DEF Commit, Abort, Panic, EndTransaction, Unlock
<1>10. ASSUME NEW id, RecordUsage(id) PROVE FALSE
  BY <1>10 DEF RecordUsage, MayReport, MutexFree
<1>11. QED
  <2>1. ASSUME NEW t \in Threads, Proceed(t) \/ PlanFails(t)
        PROVE  \/ /\ lock \in Threads /\ lock' = lock /\ UNCHANGED <<state, txn, leases, trace>>
                  /\ pc'[lock] = pc[lock] /\ call'[lock] = call[lock]
               \/ Begin(t) \/ (\E next \in LeaseOutcomes : TraceLeases(t, next))
               \/ (\E n \in 0 .. MaxCompressed : Compress(t, n)) \/ Publish(t)
    BY <1>4, <1>9, <2>1 DEF Proceed
  <2>2. QED
    BY <1>2, <1>3, <1>5, <1>6, <1>7, <1>8, <1>10, <2>1 DEF Next

(* What holds of the copy the holder works on.                             *)
LEMMA TxnFollowsInit == Init => TxnFollows
BY DEF Init, TxnFollows

LEMMA TxnFollowsStep ==
  ArenaTypes /\ Exclusive /\ TxnFollows /\ [Next]_vars => TxnFollows'
<1> SUFFICES ASSUME ArenaTypes, Exclusive, TxnFollows, [Next]_vars, lock' # None
             PROVE  TxnFollows'
  BY DEF TxnFollows
<1>1. None \notin Threads /\ state \in ArenaStates
  BY ArenaAssumption DEF ArenaTypes
<1>2. CASE /\ lock \in Threads /\ lock' = lock /\ UNCHANGED <<state, txn, leases, trace>>
           /\ pc'[lock] = pc[lock] /\ call'[lock] = call[lock]
  <2>1. Remembered(state, txn, call[lock].id, call[lock].model)' <=>
          Remembered(state, txn, call[lock].id, call[lock].model)
    BY <1>2 DEF Remembered, Matched, Ahead
  <2>2. QED
    BY <1>1, <1>2, <2>1 DEF TxnFollows
<1>3. ASSUME NEW t \in Threads, Begin(t), lock' = t, UNCHANGED state, pc'[t] = "leases"
      PROVE  TxnFollows'
  <2>1. PICK id \in Ids : txn' = Begun(state, id)
    BY <1>3, BeginStep
  <2>2. /\ txn'.requestSeq = state.requestSeq + 1 /\ txn'.snapshotSeq = state.snapshotSeq
        /\ txn'.samples = state.samples
        /\ txn'.recent = state.recent /\ txn'.recentOrder = state.recentOrder
    BY <1>1, <2>1, BeginEffect
  <2>3. QED
    BY <1>3, <2>2 DEF TxnFollows
<1>4. ASSUME NEW t \in Threads, lock = t, lock' = t, UNCHANGED <<state, call>>,
             NEW next \in LeaseOutcomes, TraceLeases(t, next), pc[t] = "leases", pc'[t] = "modules"
      PROVE  TxnFollows'
  <2>1. PICK es \in Seq(Bodies), fs \in Seq(Bodies) :
          /\ txn'.requestSeq = txn.requestSeq /\ txn'.snapshotSeq = txn.snapshotSeq
          /\ txn'.samples = txn.samples
          /\ txn'.recent = txn.recent /\ txn'.recentOrder = txn.recentOrder
          /\ txn'.activeLeases = KeepLast(next) /\ leases' = next
    BY <1>4, TraceLeasesEffect
  <2>2. QED
    BY <1>1, <1>4, <2>1 DEF TxnFollows
<1>5. ASSUME NEW t \in Threads, lock = t, lock' = t, UNCHANGED <<state, call>>,
             NEW n \in 0 .. MaxCompressed, Compress(t, n), pc[t] = "modules", pc'[t] = "publish"
      PROVE  TxnFollows'
  <2>1. PICK es \in Seq(Bodies) :
          /\ txn'.requestSeq = txn.requestSeq /\ txn'.snapshotSeq = txn.snapshotSeq
          /\ txn'.samples = txn.samples /\ txn'.activeLeases = txn.activeLeases
          /\ txn'.recent = txn.recent /\ txn'.recentOrder = txn.recentOrder
    BY <1>5, CompressStep
  <2>2. leases' = leases
    BY <1>5 DEF Compress
  <2>3. QED
    BY <1>1, <1>5, <2>1, <2>2 DEF TxnFollows
<1>6. ASSUME NEW t \in Threads, lock = t, lock' = t, UNCHANGED <<state, call>>,
             Publish(t), pc[t] = "publish", pc'[t] = "commit"
      PROVE  TxnFollows'
  <2> DEFINE id == call[t].id
             model == call[t].model
  <2>1. /\ call[t] \in Requests(Ids) /\ txn \in ArenaStates /\ leases \in Seq(Leases)
        /\ txn' = Published(txn, call[t], leases) /\ leases' = leases
    BY <1>6, PublishStep
  <2>2. /\ txn'.requestSeq = txn.requestSeq /\ txn'.snapshotSeq = txn.snapshotSeq + 1
        /\ txn'.samples = txn.samples /\ txn'.activeLeases = txn.activeLeases
        /\ Remembered(txn, txn', id, model)
        /\ txn'.latest \in Snapshots
        /\ txn'.latest.seq = txn'.snapshotSeq /\ txn'.latest.request = id
        /\ txn'.latest.model = model /\ txn'.latest.leases = leases
    BY <2>1, PublishEffect, ZenonT(30)
  <2>3. /\ txn.samples = state.samples /\ txn.requestSeq = state.requestSeq + 1
        /\ txn.snapshotSeq = state.snapshotSeq /\ KeepLast(leases) = txn.activeLeases
        /\ txn.recent = state.recent /\ txn.recentOrder = state.recentOrder
    BY <1>1, <1>6 DEF TxnFollows
  <2>4. Remembered(state, txn', id, model)
    <3>1. Matched(txn) <=> Matched(state)
      BY <2>3 DEF Matched
    <3>2. \A x, y : Ahead(txn, x, y) <=> Ahead(state, x, y)
      BY <2>3 DEF Ahead
    <3>3. QED
      BY <2>2, <2>3, <3>1, <3>2 DEF Remembered
  <2>5. Remembered(state, txn, call[lock].id, call[lock].model)'
    <3>1. state' = state /\ call'[lock'].id = id /\ call'[lock'].model = model
      BY <1>6
    <3>2. QED
      BY <2>4, <3>1 DEF Remembered, Matched, Ahead
  <2>6. QED
    BY <1>6, <2>1, <2>2, <2>3, <2>5 DEF TxnFollows
<1>7. QED
  BY <1>2, <1>3, <1>4, <1>5, <1>6, TxnSteps

-----------------------------------------------------------------------------
(* The history of a prepare that commits and of a usage report.            *)

LEMMA HistoryGrows ==
  ASSUME history \in Seq(Entries), NEW op \in {"prepare", "usage"}, NEW request \in Requests(Ids),
         Happened(op, request)
  PROVE  LET n == Len(history)
         IN /\ n \in Nat /\ n + 1 \in Nat /\ DOMAIN history' = 1 .. n + 1
            /\ history'[n + 1].op = op /\ history'[n + 1].request = request
            /\ \A i \in 1 .. n : history'[i] = history[i]
            /\ Prepares \in SUBSET (1 .. n) /\ IsFiniteSet(Prepares)
            /\ Usages \in SUBSET (1 .. n) /\ IsFiniteSet(Usages)
            /\ op = "prepare" => Prepares' = Prepares \cup {n + 1} /\ Usages' = Usages
            /\ op = "usage" => Prepares' = Prepares /\ Usages' = Usages \cup {n + 1}
<1> DEFINE n == Len(history)
           entry == [op |-> op, request |-> request]
<1>1. history \in Seq(Entries) /\ n \in Nat /\ DOMAIN history = 1 .. n
  OBVIOUS
<1>2. history' = Append(history, entry)
  BY DEF Happened
<1> HIDE DEF n
<1>3. /\ DOMAIN history' = 1 .. n + 1 /\ history'[n + 1] = entry
      /\ \A i \in 1 .. n : history'[i] = history[i]
  BY <1>1, <1>2 DEF n
<1>4. Prepares \in SUBSET (1 .. n) /\ Usages \in SUBSET (1 .. n)
  BY <1>1 DEF Prepares, Usages
<1>5. IsFiniteSet(Prepares) /\ IsFiniteSet(Usages)
  <2>1. IsFiniteSet(1 .. n)
    BY <1>1, FS_Interval
  <2>2. QED
    BY <1>4, <2>1, FS_Subset
<1>6. \A i : i \in 1 .. n + 1 <=> i \in 1 .. n \/ i = n + 1
  BY <1>1
<1>7. \A i : i \in Prepares' <=> i \in Prepares \/ (i = n + 1 /\ op = "prepare")
  BY <1>1, <1>3, <1>6 DEF Prepares
<1>8. \A i : i \in Usages' <=> i \in Usages \/ (i = n + 1 /\ op # "prepare")
  BY <1>1, <1>3, <1>4, <1>6, <1>7 DEF Usages
<1>9. op = "prepare" => Prepares' = Prepares \cup {n + 1} /\ Usages' = Usages
  BY <1>7, <1>8
<1>10. op = "usage" => Prepares' = Prepares /\ Usages' = Usages \cup {n + 1}
  BY <1>7, <1>8
<1>11. QED
  BY <1>1, <1>3, <1>4, <1>5, <1>9, <1>10 DEF n

LEMMA CommitFacts ==
  ASSUME ArenaTypes, Exclusive, TxnFollows, NEW t \in Threads, Commit(t), pc[t] = "commit", lock = t
  PROVE  /\ call[t] \in Requests(Ids) /\ txn \in ArenaStates /\ state \in ArenaStates
         /\ Happened("prepare", call[t])
         /\ state' = CommitTransaction(state, txn)
         /\ state'.requestSeq = state.requestSeq + 1
         /\ state'.snapshotSeq = state.snapshotSeq + 1
         /\ state'.samples = state.samples /\ state'.activeLeases = txn.activeLeases
         /\ Remembered(state, state', call[t].id, call[t].model)
         /\ state'.latest # None
         /\ state'.latest.seq = state'.snapshotSeq /\ state'.latest.request = call[t].id
         /\ state'.latest.model = call[t].model
         /\ KeepLast(state'.latest.leases) = state'.activeLeases
         /\ state'.latest.dropped = state'.dropped
<1>1. None \notin Threads
  BY ArenaAssumption
<1>2. state \in ArenaStates /\ txn \in ArenaStates /\ call[t] \in Requests(Ids)
  BY <1>1 DEF ArenaTypes, Exclusive, Inside
<1>3. state' = CommitTransaction(state, txn) /\ Happened("prepare", call[t])
  BY DEF Commit
<1>4. /\ txn.samples = state.samples /\ txn.requestSeq = state.requestSeq + 1
      /\ txn.snapshotSeq = state.snapshotSeq + 1
      /\ Remembered(state, txn, call[t].id, call[t].model)
      /\ txn.latest \in Snapshots
      /\ txn.latest.seq = txn.snapshotSeq /\ txn.latest.request = call[t].id
      /\ txn.latest.model = call[t].model /\ KeepLast(txn.latest.leases) = txn.activeLeases
  BY <1>1 DEF TxnFollows
<1> DEFINE c == CommitTransaction(state, txn)
<1>5. /\ c.requestSeq = txn.requestSeq /\ c.snapshotSeq = txn.snapshotSeq
      /\ c.activeLeases = txn.activeLeases
      /\ c.samples = txn.samples /\ c.recent = txn.recent /\ c.recentOrder = txn.recentOrder
      /\ txn.latest \in Snapshots =>
           /\ c.latest \in Snapshots
           /\ c.latest.seq = txn.latest.seq /\ c.latest.request = txn.latest.request
           /\ c.latest.model = txn.latest.model /\ c.latest.leases = txn.latest.leases
           /\ c.latest.dropped = c.dropped
  BY <1>2, CommitEffect
<1> HIDE DEF c
<1>6. c = state'
  BY <1>3 DEF c
<1>7. Remembered(state, c, call[t].id, call[t].model)
  <2>1. Matched(c) <=> Matched(txn)
    BY <1>5 DEF Matched
  <2>2. \A x, y : Ahead(c, x, y) <=> Ahead(txn, x, y)
    BY <1>5 DEF Ahead
  <2>3. QED
    BY <1>4, <1>5, <2>1, <2>2 DEF Remembered
<1>8. None \notin Snapshots
  BY ArenaAssumption
<1>9. QED
  BY <1>2, <1>3, <1>4, <1>5, <1>6, <1>7, <1>8

LEMMA ReportFacts ==
  ASSUME ArenaTypes, NEW id \in DOMAIN state.recent, RecordUsage(id), state' = Reported(state, id)
  PROVE  LET model == state.recent[id]
         IN /\ id \in Ids /\ model \in Models /\ Request(id, model) \in Requests(Ids)
            /\ Request(id, model).id = id /\ Request(id, model).model = model
            /\ state \in ArenaStates
            /\ Happened("usage", Request(id, model))
            /\ state'.requestSeq = state.requestSeq /\ state'.snapshotSeq = state.snapshotSeq
            /\ state'.activeLeases = state.activeLeases
            /\ state'.samples = [state.samples EXCEPT ![model] = @ + 1]
            /\ Consumed(state, state', id)
            /\ Pushed(state, state', <<Plain("usage.calibrated", id)>>)
            /\ state.latest = None => state'.latest = None
            /\ state.latest # None =>
                 /\ state'.latest # None
                 /\ state'.latest.seq = state.latest.seq /\ state'.latest.request = state.latest.request
                 /\ state'.latest.model = state.latest.model
                 /\ state'.latest.leases = state.latest.leases
                 /\ state'.latest.dropped = state'.dropped
<1> DEFINE model == state.recent[id]
<1>1. state \in ArenaStates
  BY DEF ArenaTypes
<1>2. Happened("usage", Request(id, model))
  BY DEF RecordUsage
<1>3. id \in Ids /\ model \in Models
  BY <1>1, ReportEffect
<1>4. /\ Request(id, model) \in Requests(Ids)
      /\ Request(id, model).id = id /\ Request(id, model).model = model
  BY <1>3 DEF Request, Requests
<1>5. QED
  BY <1>1, <1>2, <1>3, <1>4, ReportEffect

-----------------------------------------------------------------------------
(* Calibration samples.                                                    *)

LEMMA NoSampleLostInit == Init => NoSampleLost
<1> SUFFICES ASSUME Init PROVE NoSampleLost
  OBVIOUS
<1>1. history = <<>> /\ state.samples = [k \in Models |-> 0]
  BY DEF Init, EmptyState
<1>2. Usages = {}
  BY <1>1 DEF Usages
<1>3. \A k \in Models : {u \in Usages : history[u].request.model = k} = {}
  BY <1>2
<1>4. QED
  BY <1>1, <1>3, FS_EmptySet DEF NoSampleLost

LEMMA NoSampleLostStep ==
  ArenaTypes /\ Exclusive /\ TxnFollows /\ NoSampleLost /\ [Next]_vars => NoSampleLost'
<1> SUFFICES ASSUME ArenaTypes, Exclusive, TxnFollows, NoSampleLost, [Next]_vars
             PROVE  NoSampleLost'
  OBVIOUS
<1> DEFINE of(k) == {u \in Usages : history[u].request.model = k}
           n == Len(history)
<1>1. CASE UNCHANGED <<state, history, ledger, repeated>>
  BY <1>1 DEF NoSampleLost, Usages, Prepares
<1>2. ASSUME NEW t \in Threads, Commit(t), pc[t] = "commit", lock = t PROVE NoSampleLost'
  <2>1. state'.samples = state.samples /\ call[t] \in Requests(Ids) /\ Happened("prepare", call[t])
    BY <1>2, CommitFacts
  <2>2. /\ Usages' = Usages /\ Usages \in SUBSET (1 .. n)
        /\ \A i \in 1 .. n : history'[i] = history[i]
    BY <2>1, HistoryGrows DEF ArenaTypes
  <2>3. \A k \in Models : {u \in Usages' : history'[u].request.model = k} = of(k)
    BY <2>2
  <2>4. QED
    BY <2>1, <2>3 DEF NoSampleLost
<1>3. ASSUME NEW id \in DOMAIN state.recent, RecordUsage(id), state' = Reported(state, id)
      PROVE  NoSampleLost'
  <2> DEFINE model == state.recent[id]
  <2>1. /\ model \in Models /\ Request(id, model) \in Requests(Ids)
        /\ Request(id, model).model = model
        /\ Happened("usage", Request(id, model))
        /\ state'.samples = [state.samples EXCEPT ![model] = @ + 1]
        /\ state.samples \in [Models -> Nat]
    BY <1>3, ReportFacts DEF ArenaStates
  <2> HIDE DEF model
  <2>2. /\ n \in Nat /\ Usages' = Usages \cup {n + 1} /\ Usages \in SUBSET (1 .. n)
        /\ IsFiniteSet(Usages)
        /\ history'[n + 1].request = Request(id, model)
        /\ \A i \in 1 .. n : history'[i] = history[i]
    BY <2>1, HistoryGrows DEF ArenaTypes
  <2>3. n + 1 \notin Usages
    BY <2>2
  <2> HIDE DEF n
  <2>4. \A k : IsFiniteSet(of(k)) /\ Cardinality(of(k)) \in Nat /\ n + 1 \notin of(k)
    BY <2>2, <2>3, FS_Subset, FS_CardinalityType
  <2>5. ASSUME NEW k \in Models
        PROVE  state'.samples[k] = Cardinality({u \in Usages' : history'[u].request.model = k})
    <3>1. state.samples[k] = Cardinality(of(k))
      BY DEF NoSampleLost
    <3>2. CASE k = model
      <4>1. {u \in Usages' : history'[u].request.model = k} = of(k) \cup {n + 1}
        BY <2>1, <2>2, <3>2
      <4>2. Cardinality(of(k) \cup {n + 1}) = Cardinality(of(k)) + 1
        <5> HIDE DEF of
        <5>1. IsFiniteSet(of(k)) /\ n + 1 \notin of(k)
          BY <2>4
        <5>2. QED
          BY <5>1, FS_AddElement
      <4>3. state'.samples[k] = state.samples[k] + 1
        BY <2>1, <3>2
      <4>4. QED
        BY <3>1, <4>1, <4>2, <4>3
    <3>3. CASE k # model
      <4>1. {u \in Usages' : history'[u].request.model = k} = of(k)
        BY <2>1, <2>2, <3>3
      <4>2. state'.samples[k] = state.samples[k]
        BY <2>1, <3>3
      <4>3. QED
        BY <3>1, <4>1, <4>2
    <3>4. QED
      BY <3>2, <3>3
  <2>6. QED
    BY <2>5 DEF NoSampleLost
<1>4. QED
  BY <1>1, <1>2, <1>3, StateSteps

-----------------------------------------------------------------------------
(* The snapshot.                                                           *)

LEMMA SnapshotInit == Init => SnapshotOfNewest
<1> SUFFICES ASSUME Init PROVE SnapshotOfNewest
  OBVIOUS
<1>1. /\ history = <<>> /\ state.requestSeq = 0 /\ state.snapshotSeq = 0
      /\ state.latest = None
  BY DEF Init, EmptyState
<1>2. Prepares = {}
  BY <1>1 DEF Prepares
<1>3. QED
  BY <1>1, <1>2, FS_EmptySet DEF SnapshotOfNewest

LEMMA SnapshotStep ==
  ArenaTypes /\ Exclusive /\ TxnFollows /\ SnapshotOfNewest /\ [Next]_vars => SnapshotOfNewest'
<1> SUFFICES ASSUME ArenaTypes, Exclusive, TxnFollows, SnapshotOfNewest, [Next]_vars
             PROVE  SnapshotOfNewest'
  OBVIOUS
<1> DEFINE n == Len(history)
<1>1. CASE UNCHANGED <<state, history, ledger, repeated>>
  BY <1>1 DEF SnapshotOfNewest, Prepares
<1>2. ASSUME NEW t \in Threads, Commit(t), pc[t] = "commit", lock = t PROVE SnapshotOfNewest'
  <2>1. /\ call[t] \in Requests(Ids) /\ Happened("prepare", call[t])
        /\ state'.requestSeq = state.requestSeq + 1
        /\ state'.snapshotSeq = state.snapshotSeq + 1
        /\ state'.latest # None
        /\ state'.latest.seq = state'.snapshotSeq /\ state'.latest.request = call[t].id
        /\ state'.latest.model = call[t].model
        /\ KeepLast(state'.latest.leases) = state'.activeLeases
        /\ state'.latest.dropped = state'.dropped
    BY <1>2, CommitFacts
  <2>2. /\ n \in Nat /\ Prepares' = Prepares \cup {n + 1} /\ Prepares \in SUBSET (1 .. n)
        /\ IsFiniteSet(Prepares) /\ history'[n + 1].request = call[t]
    BY <2>1, HistoryGrows DEF ArenaTypes
  <2>3. n + 1 \notin Prepares /\ n + 1 \in Prepares' /\ \A q \in Prepares' : q <= n + 1
    BY <2>2
  <2> HIDE DEF n
  <2>4. Cardinality(Prepares') = Cardinality(Prepares) + 1
    BY <2>2, <2>3, FS_AddElement
  <2>5. /\ state'.latest.request = history'[n + 1].request.id
        /\ state'.latest.model = history'[n + 1].request.model
    BY <2>1, <2>2
  <2>6. QED
    BY <2>1, <2>3, <2>4, <2>5 DEF SnapshotOfNewest
<1>3. ASSUME NEW id \in DOMAIN state.recent, RecordUsage(id), state' = Reported(state, id)
      PROVE  SnapshotOfNewest'
  <2> DEFINE model == state.recent[id]
  <2>1. /\ Request(id, model) \in Requests(Ids)
        /\ Happened("usage", Request(id, model))
        /\ state'.requestSeq = state.requestSeq /\ state'.snapshotSeq = state.snapshotSeq
        /\ state'.activeLeases = state.activeLeases
        /\ state.latest = None => state'.latest = None
        /\ state.latest # None =>
             /\ state'.latest # None
             /\ state'.latest.seq = state.latest.seq /\ state'.latest.request = state.latest.request
             /\ state'.latest.model = state.latest.model
             /\ state'.latest.leases = state.latest.leases
             /\ state'.latest.dropped = state'.dropped
    BY <1>3, ReportFacts
  <2> HIDE DEF model
  <2>2. /\ Prepares' = Prepares /\ Prepares \in SUBSET (1 .. n)
        /\ \A i \in 1 .. n : history'[i] = history[i]
    BY <2>1, HistoryGrows DEF ArenaTypes
  <2> HIDE DEF n
  <2>3. Prepares # {} =>
          \E p \in Prepares' :
            /\ \A q \in Prepares' : q <= p
            /\ state'.latest.request = history'[p].request.id
            /\ state'.latest.model = history'[p].request.model
    BY <2>1, <2>2 DEF SnapshotOfNewest
  <2>4. QED
    BY <2>1, <2>2, <2>3 DEF SnapshotOfNewest
<1>4. QED
  BY <1>1, <1>2, <1>3, StateSteps

LEMMA SnapshotMatches ==
  ASSUME ArenaTypes, SnapshotOfNewest
  PROVE  SnapshotMatchesState
<1>1. Prepares \in SUBSET Nat
  BY DEF ArenaTypes, Prepares
<1>2. CASE Prepares = {}
  BY <1>2 DEF SnapshotOfNewest, SnapshotMatchesState
<1>3. CASE Prepares # {}
  <2>1. PICK p \in Prepares :
          /\ \A q \in Prepares : q <= p
          /\ state.latest.request = history[p].request.id
          /\ state.latest.model = history[p].request.model
    BY <1>3 DEF SnapshotOfNewest
  <2>2. \A q \in Prepares : p >= q
    BY <1>1, <2>1
  <2>3. Max(Prepares) \in Prepares /\ \A q \in Prepares : Max(Prepares) >= q
    BY <2>2 DEF Max
  <2>4. Max(Prepares) = p
    <3> DEFINE m == Max(Prepares)
    <3>1. m \in Prepares /\ m >= p
      BY <2>3
    <3> HIDE DEF m
    <3>2. m \in Nat /\ p \in Nat /\ m <= p
      BY <1>1, <2>1, <3>1
    <3>3. m = p
      BY <3>1, <3>2
    <3>4. QED
      BY <3>3 DEF m
  <2>5. QED
    BY <1>3, <2>1, <2>4 DEF SnapshotOfNewest, SnapshotMatchesState
<1>4. QED
  BY <1>2, <1>3

-----------------------------------------------------------------------------
(* Usage reports.                                                          *)

LEMMA RecentPreparedInit == Init => RecentPrepared
BY DEF Init, EmptyState, RecentPrepared

LEMMA RecentPreparedStep ==
  ArenaTypes /\ Exclusive /\ TxnFollows /\ RecentPrepared /\ [Next]_vars => RecentPrepared'
<1> SUFFICES ASSUME ArenaTypes, Exclusive, TxnFollows, RecentPrepared, [Next]_vars
             PROVE  RecentPrepared'
  OBVIOUS
<1> DEFINE n == Len(history)
<1>1. CASE UNCHANGED <<state, history, ledger, repeated>>
  BY <1>1 DEF RecentPrepared, Prepares, LastOfRequest, IdOf
<1>2. n \in Nat /\ DOMAIN history = 1 .. n
  BY DEF ArenaTypes
<1>3. ASSUME NEW x \in DOMAIN state'.recent, x \in DOMAIN state.recent,
             state'.recent[x] = state.recent[x],
             Prepares \in SUBSET Prepares', Prepares \in SUBSET (1 .. n),
             DOMAIN history' = 1 .. n + 1,
             \A i \in 1 .. n : history'[i] = history[i], history'[n + 1].request.id # x
      PROVE  \E p \in Prepares' :
               /\ history'[p].request = Request(x, state'.recent[x])
               /\ \A j \in DOMAIN history' : history'[j].request.id = history'[p].request.id => j <= p
  <2> HIDE DEF n
  <2>1. PICK p \in Prepares :
          /\ history[p].request = Request(x, state.recent[x])
          /\ \A j \in DOMAIN history : history[j].request.id = history[p].request.id => j <= p
    BY <1>3 DEF RecentPrepared, LastOfRequest, IdOf
  <2>2. p \in Prepares' /\ p \in 1 .. n /\ history'[p] = history[p]
    BY <1>3
  <2>3. history'[p].request.id = x
    BY <2>1, <2>2 DEF Request
  <2>4. ASSUME NEW j \in 1 .. n + 1, history'[j].request.id = x PROVE j <= p
    <3>1. j \in 1 .. n /\ history'[j] = history[j]
      BY <1>2, <1>3, <2>4
    <3>2. QED
      BY <1>2, <2>1, <2>2, <2>3, <2>4, <3>1
  <2>5. QED
    BY <1>3, <2>1, <2>2, <2>3, <2>4
<1>4. ASSUME NEW t \in Threads, Commit(t), pc[t] = "commit", lock = t PROVE RecentPrepared'
  <2>1. /\ call[t] \in Requests(Ids) /\ Happened("prepare", call[t])
        /\ Remembered(state, state', call[t].id, call[t].model)
    BY <1>4, CommitFacts
  <2>2. /\ Prepares' = Prepares \cup {n + 1} /\ Prepares \in SUBSET (1 .. n)
        /\ DOMAIN history' = 1 .. n + 1
        /\ history'[n + 1].request = call[t] /\ \A i \in 1 .. n : history'[i] = history[i]
    BY <2>1, HistoryGrows DEF ArenaTypes
  <2> HIDE DEF n
  <2>3. SUFFICES ASSUME NEW x \in DOMAIN state'.recent
                 PROVE  \E p \in Prepares' :
                          /\ history'[p].request = Request(x, state'.recent[x])
                          /\ \A j \in DOMAIN history' :
                               history'[j].request.id = history'[p].request.id => j <= p
    BY DEF RecentPrepared, LastOfRequest, IdOf
  <2>4. CASE x = call[t].id
    <3>1. history'[n + 1].request = Request(x, state'.recent[x])
      BY <2>1, <2>2, <2>4 DEF Remembered, Request, Requests
    <3>2. QED
      BY <1>2, <2>2, <3>1
  <2>5. CASE x # call[t].id
    <3>1. x \in DOMAIN state.recent /\ state'.recent[x] = state.recent[x]
      BY <2>1, <2>3, <2>5 DEF Remembered
    <3>2. QED
      BY <1>3, <2>2, <2>5, <3>1
  <2>6. QED
    BY <2>4, <2>5
<1>5. ASSUME NEW id \in DOMAIN state.recent, RecordUsage(id), state' = Reported(state, id)
      PROVE  RecentPrepared'
  <2> DEFINE model == state.recent[id]
  <2>1. /\ Request(id, model) \in Requests(Ids) /\ Request(id, model).id = id
        /\ Happened("usage", Request(id, model))
        /\ Consumed(state, state', id)
    BY <1>5, ReportFacts
  <2> HIDE DEF model
  <2>2. /\ Prepares' = Prepares /\ Prepares \in SUBSET (1 .. n)
        /\ DOMAIN history' = 1 .. n + 1
        /\ history'[n + 1].request = Request(id, model)
        /\ \A i \in 1 .. n : history'[i] = history[i]
    BY <2>1, HistoryGrows DEF ArenaTypes
  <2> HIDE DEF n
  <2>3. SUFFICES ASSUME NEW x \in DOMAIN state'.recent
                 PROVE  \E p \in Prepares' :
                          /\ history'[p].request = Request(x, state'.recent[x])
                          /\ \A j \in DOMAIN history' :
                               history'[j].request.id = history'[p].request.id => j <= p
    BY DEF RecentPrepared, LastOfRequest, IdOf
  <2>4. x \in DOMAIN state.recent /\ x # id /\ state'.recent[x] = state.recent[x]
    BY <2>1, <2>3 DEF Consumed
  <2>5. QED
    BY <1>3, <2>1, <2>2, <2>3, <2>4
<1>6. QED
  BY <1>1, <1>4, <1>5, StateSteps

LEMMA CalibratedInit == Init => CalibrateOncePerPrepare /\ CalibratesPreparedModel
BY DEF Init, CalibrateOncePerPrepare, CalibratesPreparedModel, Usages

LEMMA CalibratedStep ==
  /\ ArenaTypes /\ Exclusive /\ TxnFollows /\ RecentPrepared
  /\ CalibrateOncePerPrepare /\ CalibratesPreparedModel /\ [Next]_vars
  => CalibrateOncePerPrepare' /\ CalibratesPreparedModel'
<1> SUFFICES ASSUME ArenaTypes, Exclusive, TxnFollows, RecentPrepared,
                    CalibrateOncePerPrepare, CalibratesPreparedModel, [Next]_vars
             PROVE  CalibrateOncePerPrepare' /\ CalibratesPreparedModel'
  OBVIOUS
<1> DEFINE n == Len(history)
<1>1. CASE UNCHANGED <<state, history, ledger, repeated>>
  BY <1>1 DEF CalibrateOncePerPrepare, CalibratesPreparedModel, Usages, Prepares, IdOf
<1>2. n \in Nat /\ DOMAIN history = 1 .. n
  BY DEF ArenaTypes
<1>3. /\ \A i, j \in Usages : i < j /\ history[i].request.id = history[j].request.id =>
           \E p \in Prepares : i < p /\ p < j /\ history[p].request.id = history[i].request.id
      /\ \A u \in Usages :
           \E p \in Prepares :
             /\ p < u /\ history[p].request = history[u].request
             /\ \A q \in Prepares : p < q /\ q < u => history[q].request.id # history[u].request.id
  BY DEF CalibrateOncePerPrepare, CalibratesPreparedModel, IdOf
<1>4. ASSUME NEW t \in Threads, Commit(t), pc[t] = "commit", lock = t
      PROVE  CalibrateOncePerPrepare' /\ CalibratesPreparedModel'
  <2>1. call[t] \in Requests(Ids) /\ Happened("prepare", call[t])
    BY <1>4, CommitFacts
  <2>2. /\ Prepares' = Prepares \cup {n + 1} /\ Prepares \in SUBSET (1 .. n)
        /\ Usages' = Usages /\ Usages \in SUBSET (1 .. n)
        /\ \A i \in 1 .. n : history'[i] = history[i]
    BY <2>1, HistoryGrows DEF ArenaTypes
  <2> HIDE DEF n
  <2>3. ASSUME NEW i \in Usages, NEW j \in Usages,
               i < j, history'[i].request.id = history'[j].request.id
        PROVE  \E p \in Prepares' : i < p /\ p < j /\ history'[p].request.id = history'[i].request.id
    BY <1>3, <2>2, <2>3
  <2>4. ASSUME NEW u \in Usages
        PROVE  \E p \in Prepares' :
                 /\ p < u /\ history'[p].request = history'[u].request
                 /\ \A q \in Prepares' :
                      p < q /\ q < u => history'[q].request.id # history'[u].request.id
    <3>1. PICK p \in Prepares :
            /\ p < u /\ history[p].request = history[u].request
            /\ \A q \in Prepares : p < q /\ q < u => history[q].request.id # history[u].request.id
      BY <1>3
    <3>2. u \in 1 .. n /\ p \in 1 .. n
      BY <2>2
    <3>3. ~ (n + 1 < u)
      BY <1>2, <3>2
    <3>4. ASSUME NEW q \in Prepares', p < q, q < u
          PROVE  history'[q].request.id # history'[u].request.id
      <4>1. q \in Prepares /\ q \in 1 .. n
        BY <2>2, <3>3, <3>4
      <4>2. QED
        BY <2>2, <3>1, <3>2, <3>4, <4>1
    <3>5. QED
      BY <2>2, <3>1, <3>2, <3>4
  <2>5. QED
    BY <2>2, <2>3, <2>4 DEF CalibrateOncePerPrepare, CalibratesPreparedModel, IdOf
<1>5. ASSUME NEW id \in DOMAIN state.recent, RecordUsage(id), state' = Reported(state, id)
      PROVE  CalibrateOncePerPrepare' /\ CalibratesPreparedModel'
  <2> DEFINE model == state.recent[id]
  <2>1. /\ Request(id, model) \in Requests(Ids) /\ Request(id, model).id = id
        /\ Happened("usage", Request(id, model))
    BY <1>5, ReportFacts
  <2>2. PICK r \in Prepares :
          /\ history[r].request = Request(id, model)
          /\ \A j \in DOMAIN history : history[j].request.id = history[r].request.id => j <= r
    BY DEF RecentPrepared, LastOfRequest, IdOf
  <2> HIDE DEF model
  <2>3. /\ Prepares' = Prepares /\ Prepares \in SUBSET (1 .. n)
        /\ Usages' = Usages \cup {n + 1} /\ Usages \in SUBSET (1 .. n)
        /\ history'[n + 1].request = Request(id, model)
        /\ \A i \in 1 .. n : history'[i] = history[i]
    BY <2>1, HistoryGrows DEF ArenaTypes
  <2>4. \A i \in Usages : i \notin Prepares
    BY DEF Usages
  <2> HIDE DEF n
  <2>5. r \in 1 .. n /\ r < n + 1
    BY <1>2, <2>3
  <2>6. ASSUME NEW i \in Usages', NEW j \in Usages',
               i < j, history'[i].request.id = history'[j].request.id
        PROVE  \E p \in Prepares' : i < p /\ p < j /\ history'[p].request.id = history'[i].request.id
    <3>1. i \in Usages /\ i \in 1 .. n
      BY <1>2, <2>3, <2>6
    <3>2. CASE j = n + 1
      <4>1. history[i].request.id = id /\ history[r].request.id = id
        BY <2>1, <2>2, <2>3, <2>6, <3>1, <3>2
      <4>2. i <= r /\ i # r
        BY <1>2, <2>2, <2>4, <3>1, <4>1
      <4>3. i < r
        BY <2>5, <3>1, <4>2
      <4>4. QED
        BY <2>3, <2>5, <3>1, <3>2, <4>1, <4>3
    <3>3. CASE j # n + 1
      <4>1. j \in Usages /\ j \in 1 .. n
        BY <2>3, <3>3
      <4>2. QED
        BY <1>3, <2>3, <2>6, <3>1, <4>1
    <3>4. QED
      BY <3>2, <3>3
  <2>7. ASSUME NEW u \in Usages'
        PROVE  \E p \in Prepares' :
                 /\ p < u /\ history'[p].request = history'[u].request
                 /\ \A q \in Prepares' :
                      p < q /\ q < u => history'[q].request.id # history'[u].request.id
    <3>1. CASE u = n + 1
      <4>1. r < u /\ history'[r].request = history'[u].request
        BY <2>2, <2>3, <2>5, <3>1
      <4>2. ASSUME NEW q \in Prepares, r < q PROVE history'[q].request.id # history'[u].request.id
        <5>a. q \in 1 .. n
          BY <2>3
        <5>1. q \in 1 .. n /\ ~ (q <= r)
          BY <1>2, <2>5, <4>2, <5>a
        <5>2. history[q].request.id # history[r].request.id
          BY <1>2, <2>2, <5>1
        <5>3. QED
          BY <2>2, <2>3, <3>1, <5>1, <5>2
      <4>3. QED
        BY <2>3, <4>1, <4>2
    <3>2. CASE u # n + 1
      <4>1. u \in Usages /\ u \in 1 .. n
        BY <2>3, <3>2
      <4>2. PICK p \in Prepares :
              /\ p < u /\ history[p].request = history[u].request
              /\ \A q \in Prepares : p < q /\ q < u => history[q].request.id # history[u].request.id
        BY <1>3, <4>1
      <4>3. p \in 1 .. n /\ \A q \in Prepares : q \in 1 .. n
        BY <2>3
      <4>4. QED
        BY <2>3, <4>1, <4>2, <4>3
    <3>3. QED
      BY <3>1, <3>2
  <2>8. QED
    BY <2>6, <2>7 DEF CalibrateOncePerPrepare, CalibratesPreparedModel, IdOf
<1>6. QED
  BY <1>1, <1>4, <1>5, StateSteps

-----------------------------------------------------------------------------
(* The queue of recent requests.                                           *)

RecentMatched == Matched(state)

KnownUntilFull == \A i \in Prepares : LastOfRequest(i) => NotForgottenEarly(i)

LEMMA RecentFaithfulParts == RecentFaithful <=> RecentMatched /\ KnownUntilFull
BY DEF RecentFaithful, RecentMatched, Matched, KnownUntilFull

LEMMA QueueInit == Init => RecentMatched /\ PreparedInOrder /\ KnownUntilFull
<1> SUFFICES ASSUME Init PROVE RecentMatched /\ PreparedInOrder /\ KnownUntilFull
  OBVIOUS
<1>1. state.recentOrder = <<>> /\ state.recent = <<>> /\ history = <<>>
  BY DEF Init, EmptyState
<1>2. RecentMatched
  <2>1. MaxRecent \in Nat
    BY ArenaAssumption
  <2>2. DOMAIN <<>> = {} /\ Len(<<>>) = 0
    OBVIOUS
  <2>3. QED
    BY <1>1, <2>1, <2>2 DEF RecentMatched, Matched, IsInjective, ToSet
<1>3. PreparedInOrder
  BY <1>1 DEF PreparedInOrder, Ahead
<1>4. KnownUntilFull
  BY <1>1 DEF KnownUntilFull, Prepares
<1>5. QED
  BY <1>2, <1>3, <1>4

LEMMA RecentMatchedStep ==
  ArenaTypes /\ Exclusive /\ TxnFollows /\ RecentMatched /\ [Next]_vars => RecentMatched'
<1> SUFFICES ASSUME ArenaTypes, Exclusive, TxnFollows, RecentMatched, [Next]_vars
             PROVE  RecentMatched'
  OBVIOUS
<1>1. CASE UNCHANGED <<state, history, ledger, repeated>>
  BY <1>1 DEF RecentMatched, Matched
<1>2. ASSUME NEW t \in Threads, Commit(t), pc[t] = "commit", lock = t PROVE RecentMatched'
  <2>1. Remembered(state, state', call[t].id, call[t].model)
    BY <1>2, CommitFacts
  <2>2. QED
    BY <2>1 DEF Remembered, RecentMatched, Matched
<1>3. ASSUME NEW id \in DOMAIN state.recent, RecordUsage(id), state' = Reported(state, id)
      PROVE  RecentMatched'
  <2>1. Consumed(state, state', id)
    BY <1>3, ReportFacts
  <2>2. QED
    BY <2>1 DEF Consumed, RecentMatched, Matched
<1>4. QED
  BY <1>1, <1>2, <1>3, StateSteps

LEMMA PreparedInOrderStep ==
  ArenaTypes /\ Exclusive /\ TxnFollows /\ RecentMatched /\ PreparedInOrder /\ [Next]_vars
  => PreparedInOrder'
<1> SUFFICES ASSUME ArenaTypes, Exclusive, TxnFollows, RecentMatched, PreparedInOrder, [Next]_vars
             PROVE  PreparedInOrder'
  OBVIOUS
<1> DEFINE n == Len(history)
<1>2. n \in Nat /\ DOMAIN history = 1 .. n
  BY DEF ArenaTypes
<1>3. \A x, y : Ahead(state, x, y) =>
        \A p \in Prepares : history[p].request.id = x =>
          \E q \in Prepares : p < q /\ history[q].request.id = y
  BY DEF PreparedInOrder, IdOf
<1>4. SUFFICES ASSUME NEW x, NEW y, Ahead(state', x, y)
               PROVE  \A p \in Prepares' : history'[p].request.id = x =>
                        \E q \in Prepares' : p < q /\ history'[q].request.id = y
  BY DEF PreparedInOrder, IdOf, Ahead
<1>1. CASE UNCHANGED <<state, history, ledger, repeated>>
  <2>1. Ahead(state, x, y) /\ Prepares' = Prepares
    BY <1>1, <1>4 DEF Prepares
  <2>2. QED
    BY <1>1, <1>3, <2>1
<1>5. ASSUME NEW t \in Threads, Commit(t), pc[t] = "commit", lock = t,
             NEW p \in Prepares', history'[p].request.id = x
      PROVE  \E q \in Prepares' : p < q /\ history'[q].request.id = y
  <2>1. /\ call[t] \in Requests(Ids) /\ Happened("prepare", call[t])
        /\ Remembered(state, state', call[t].id, call[t].model)
    BY <1>5, CommitFacts
  <2>2. /\ Prepares' = Prepares \cup {n + 1} /\ Prepares \in SUBSET (1 .. n)
        /\ history'[n + 1].request = call[t] /\ \A i \in 1 .. n : history'[i] = history[i]
    BY <2>1, HistoryGrows DEF ArenaTypes
  <2>3. x # call[t].id /\ (y = call[t].id \/ Ahead(state, x, y))
    BY <1>4, <2>1 DEF Remembered, RecentMatched
  <2> HIDE DEF n
  <2>4. p \in Prepares /\ p \in 1 .. n
    BY <1>5, <2>2, <2>3
  <2>5. CASE y = call[t].id
    BY <1>2, <2>2, <2>4, <2>5
  <2>6. CASE Ahead(state, x, y)
    <3>1. history[p].request.id = x
      BY <1>5, <2>2, <2>4
    <3>2. PICK q \in Prepares : p < q /\ history[q].request.id = y
      BY <1>3, <2>4, <2>6, <3>1
    <3>3. QED
      BY <2>2, <3>2
  <2>7. QED
    BY <2>3, <2>5, <2>6
<1>6. ASSUME NEW id \in DOMAIN state.recent, RecordUsage(id), state' = Reported(state, id),
             NEW p \in Prepares', history'[p].request.id = x
      PROVE  \E q \in Prepares' : p < q /\ history'[q].request.id = y
  <2> DEFINE model == state.recent[id]
  <2>1. /\ Request(id, model) \in Requests(Ids) /\ Happened("usage", Request(id, model))
        /\ Consumed(state, state', id)
    BY <1>6, ReportFacts
  <2> HIDE DEF model
  <2>2. /\ Prepares' = Prepares /\ Prepares \in SUBSET (1 .. n)
        /\ \A i \in 1 .. n : history'[i] = history[i]
    BY <2>1, HistoryGrows DEF ArenaTypes
  <2>3. Ahead(state, x, y)
    BY <1>4, <2>1 DEF Consumed, RecentMatched
  <2> HIDE DEF n
  <2>4. PICK q \in Prepares : p < q /\ history[q].request.id = y
    BY <1>3, <1>6, <2>2, <2>3
  <2>5. QED
    BY <2>2, <2>4
<1>7. QED
  BY <1>1, <1>4, <1>5, <1>6, StateSteps DEF PreparedInOrder, IdOf

(* A set of ids is at least as large as the queue whose members it has.    *)
LEMMA QueueSize ==
  ASSUME NEW q \in Seq(Ids), IsInjective(q), NEW T, IsFiniteSet(T), ToSet(q) \subseteq T
  PROVE  Cardinality(T) >= Len(q)
<1>1. Len(q) \in Nat /\ DOMAIN q = 1 .. Len(q) /\ IsFiniteSet(1 .. Len(q))
  <2>1. Len(q) \in Nat /\ DOMAIN q = 1 .. Len(q)
    OBVIOUS
  <2>2. QED
    BY <2>1, FS_Interval
<1>2. Cardinality(1 .. Len(q)) = Len(q)
  BY <1>1, FS_Interval, SMTT(30)
<1>3. q \in Injection(1 .. Len(q), T)
  <2>1. q = [i \in 1 .. Len(q) |-> q[i]] /\ \A i \in 1 .. Len(q) : q[i] \in T
    BY <1>1 DEF ToSet
  <2>2. q \in [1 .. Len(q) -> T]
    BY <2>1
  <2>3. QED
    BY <2>2 DEF Injection
<1>4. Cardinality(1 .. Len(q)) <= Cardinality(T)
  BY <1>3, FS_Injection
<1>5. Cardinality(T) \in Nat
  BY FS_CardinalityType
<1>6. QED
  BY <1>1, <1>2, <1>4, <1>5

(* The ids of finitely many entries are finitely many.                     *)
LEMMA FewIds ==
  ASSUME NEW f, NEW S, IsFiniteSet(S)
  PROVE  IsFiniteSet({f[j] : j \in S})
<1> DEFINE T == {f[j] : j \in S}
           g == [j \in S |-> f[j]]
<1>1. g \in Surjection(S, T)
  BY DEF Surjection
<1>2. QED
  BY <1>1, FS_Surjection

LEMMA KnownUntilFullStep ==
  /\ ArenaTypes /\ Exclusive /\ TxnFollows
  /\ RecentMatched /\ PreparedInOrder /\ KnownUntilFull /\ [Next]_vars
  => KnownUntilFull'
<1> SUFFICES ASSUME ArenaTypes, Exclusive, TxnFollows, RecentMatched, PreparedInOrder,
                    KnownUntilFull, [Next]_vars
             PROVE  KnownUntilFull'
  OBVIOUS
<1> DEFINE n == Len(history)
           after(i) == {history[j].request.id : j \in {p \in Prepares : p > i}}
<1>1. CASE UNCHANGED <<state, history, ledger, repeated>>
  BY <1>1 DEF KnownUntilFull, LastOfRequest, NotForgottenEarly, Prepares, IdOf
<1>2. n \in Nat /\ DOMAIN history = 1 .. n /\ MaxRecent \in Nat
  BY ArenaAssumption DEF ArenaTypes
<1>3. ASSUME NEW i \in Prepares, \A j \in DOMAIN history : history[j].request.id = history[i].request.id => j <= i
      PROVE  \/ history[i].request.id \in DOMAIN state.recent
             \/ Cardinality(after(i)) >= MaxRecent
  BY <1>3 DEF KnownUntilFull, LastOfRequest, NotForgottenEarly, IdOf
<1>4. \A x, y : Ahead(state, x, y) =>
        \A p \in Prepares : history[p].request.id = x =>
          \E q \in Prepares : p < q /\ history[q].request.id = y
  BY DEF PreparedInOrder, IdOf
<1>5. SUFFICES ASSUME NEW i \in Prepares',
                      \A j \in DOMAIN history' : history'[j].request.id = history'[i].request.id => j <= i
               PROVE  \/ history'[i].request.id \in DOMAIN state'.recent
                      \/ Cardinality({history'[j].request.id : j \in {p \in Prepares' : p > i}}) >= MaxRecent
  BY DEF KnownUntilFull, LastOfRequest, NotForgottenEarly, IdOf
<1> DEFINE later == {history'[j].request.id : j \in {p \in Prepares' : p > i}}
<1>6. ASSUME NEW t \in Threads, Commit(t), pc[t] = "commit", lock = t
      PROVE  history'[i].request.id \in DOMAIN state'.recent \/ Cardinality(later) >= MaxRecent
  <2> DEFINE id == call[t].id
             x == history[i].request.id
  <2>1. /\ call[t] \in Requests(Ids) /\ Happened("prepare", call[t])
        /\ Remembered(state, state', id, call[t].model)
    BY <1>6, CommitFacts
  <2>2. /\ Prepares' = Prepares \cup {n + 1} /\ Prepares \in SUBSET (1 .. n)
        /\ IsFiniteSet(Prepares) /\ DOMAIN history' = 1 .. n + 1
        /\ history'[n + 1].request = call[t] /\ \A j \in 1 .. n : history'[j] = history[j]
    BY <2>1, HistoryGrows DEF ArenaTypes
  <2>3. IsFiniteSet(Prepares')
    BY <2>2, FS_AddElement
  <2> HIDE DEF n
  <2>4. CASE i = n + 1
    BY <2>1, <2>2, <2>4 DEF Remembered
  <2>5. CASE i # n + 1
    <3>1. i \in Prepares /\ i \in 1 .. n /\ history'[i].request.id = x
      BY <2>2, <2>5
    <3>2. x # id
      <4>1. ~ (n + 1 <= i)
        BY <1>2, <3>1
      <4>2. n + 1 \in DOMAIN history'
        BY <1>2, <2>2
      <4>3. QED
        BY <1>5, <2>2, <3>1, <4>1, <4>2
    <3>3. \A j \in DOMAIN history : history[j].request.id = x => j <= i
      BY <1>2, <1>5, <2>2, <3>1
    <3>4. IsFiniteSet(later)
      <4> DEFINE S == {p \in Prepares' : p > i}
                 f == [j \in S |-> history'[j].request.id]
      <4>1. IsFiniteSet(S)
        BY <2>3, FS_Subset
      <4> HIDE DEF S
      <4>2. IsFiniteSet({f[j] : j \in S})
        BY <4>1, FewIds
      <4>3. {f[j] : j \in S} = {history'[j].request.id : j \in S}
        OBVIOUS
      <4>4. QED
        BY <4>2, <4>3 DEF S
    <3>5. \A q \in Prepares' : q > i => history'[q].request.id \in later
      OBVIOUS
    <3>6. id \in later
      <4>1. n + 1 > i
        BY <1>2, <3>1
      <4>2. QED
        BY <2>2, <3>5, <4>1
    <3>7. CASE x \in DOMAIN state.recent /\ x \notin DOMAIN state'.recent
      <4>1. /\ Len(state'.recentOrder) = MaxRecent
            /\ \A y \in ToSet(state'.recentOrder) : y = id \/ Ahead(state, x, y)
            /\ Matched(state')
        BY <2>1, <3>7 DEF Remembered, RecentMatched
      <4>2. ASSUME NEW y \in ToSet(state'.recentOrder) PROVE y \in later
        <5>1. CASE y = id
          BY <3>6, <5>1
        <5>2. CASE Ahead(state, x, y)
          <6>1. PICK q \in Prepares : i < q /\ history[q].request.id = y
            BY <1>4, <3>1, <5>2
          <6>2. q \in Prepares' /\ q > i /\ history'[q].request.id = y
            BY <1>2, <2>2, <3>1, <6>1
          <6>3. QED
            BY <3>5, <6>2
        <5>3. QED
          BY <4>1, <5>1, <5>2
      <4>3. state'.recentOrder \in Seq(Ids)
        BY TypesStep DEF ArenaTypes, ArenaStates
      <4> HIDE DEF later
      <4>4. Cardinality(later) >= Len(state'.recentOrder)
        BY <3>4, <4>1, <4>2, <4>3, QueueSize DEF Matched
      <4>5. QED
        BY <4>1, <4>4
    <3>8. CASE x \in DOMAIN state'.recent
      BY <3>1, <3>8
    <3>9. CASE x \notin DOMAIN state.recent
      <4>1. Cardinality(after(i)) >= MaxRecent
        BY <1>3, <3>1, <3>3, <3>9
      <4>2. after(i) \in SUBSET later
        <5>1. \A q \in Prepares : q \in Prepares' /\ history'[q] = history[q]
          BY <2>2
        <5>2. QED
          BY <5>1
      <4> HIDE DEF later, after
      <4>3. /\ Cardinality(after(i)) <= Cardinality(later) /\ IsFiniteSet(after(i))
        BY <3>4, <4>2, FS_Subset
      <4>4. Cardinality(after(i)) \in Nat /\ Cardinality(later) \in Nat
        BY <3>4, <4>3, FS_CardinalityType
      <4>5. QED
        BY <1>2, <4>1, <4>3, <4>4
    <3>10. QED
      BY <3>7, <3>8, <3>9
  <2>6. QED
    BY <2>4, <2>5
<1>7. ASSUME NEW id \in DOMAIN state.recent, RecordUsage(id), state' = Reported(state, id)
      PROVE  history'[i].request.id \in DOMAIN state'.recent \/ Cardinality(later) >= MaxRecent
  <2> DEFINE model == state.recent[id]
             x == history[i].request.id
  <2>1. /\ Request(id, model) \in Requests(Ids) /\ Request(id, model).id = id
        /\ Happened("usage", Request(id, model))
        /\ Consumed(state, state', id)
    BY <1>7, ReportFacts
  <2> HIDE DEF model
  <2>2. /\ Prepares' = Prepares /\ Prepares \in SUBSET (1 .. n)
        /\ DOMAIN history' = 1 .. n + 1 /\ history'[n + 1].request = Request(id, model)
        /\ \A j \in 1 .. n : history'[j] = history[j]
    BY <2>1, HistoryGrows DEF ArenaTypes
  <2> HIDE DEF n
  <2>3. i \in Prepares /\ i \in 1 .. n /\ history'[i].request.id = x
    BY <2>2
  <2>4. x # id
    <3>1. ~ (n + 1 <= i) /\ n + 1 \in DOMAIN history'
      BY <1>2, <2>2, <2>3
    <3>2. QED
      BY <1>5, <2>1, <2>2, <2>3, <3>1
  <2>5. \A j \in DOMAIN history : history[j].request.id = x => j <= i
    BY <1>2, <1>5, <2>2, <2>3
  <2>6. CASE x \in DOMAIN state.recent
    BY <2>1, <2>3, <2>4, <2>6 DEF Consumed
  <2>7. CASE Cardinality(after(i)) >= MaxRecent
    <3>1. \A q \in Prepares : history'[q] = history[q]
      BY <2>2
    <3>2. later = after(i)
      BY <2>2, <3>1
    <3>3. QED
      BY <2>7, <3>2
  <2>8. QED
    BY <1>3, <2>3, <2>5, <2>6, <2>7
<1>8. QED
  BY <1>1, <1>5, <1>6, <1>7, StateSteps DEF KnownUntilFull, LastOfRequest, NotForgottenEarly, IdOf

-----------------------------------------------------------------------------
(* The event log.                                                          *)

LEMMA JoinShape ==
  ASSUME NEW S, NEW q \in Seq(S), NEW r \in Seq(S)
  PROVE  /\ q \o r \in Seq(S) /\ Len(q) \in Nat /\ Len(r) \in Nat
         /\ Len(q \o r) = Len(q) + Len(r)
         /\ \A i \in 1 .. Len(q) + Len(r) :
              /\ i <= Len(q) => i \in 1 .. Len(q) /\ (q \o r)[i] = q[i]
              /\ i > Len(q) => i - Len(q) \in 1 .. Len(r) /\ (q \o r)[i] = r[i - Len(q)]
<1>1. q \o r \in Seq(S) /\ Len(q) \in Nat /\ Len(r) \in Nat /\ Len(q \o r) = Len(q) + Len(r)
  OBVIOUS
<1>2. SUFFICES ASSUME NEW i \in 1 .. Len(q) + Len(r)
               PROVE  /\ i <= Len(q) => i \in 1 .. Len(q) /\ (q \o r)[i] = q[i]
                      /\ i > Len(q) => i - Len(q) \in 1 .. Len(r) /\ (q \o r)[i] = r[i - Len(q)]
  BY <1>1
<1>3. (i <= Len(q) => i \in 1 .. Len(q)) /\ (i > Len(q) => i - Len(q) \in 1 .. Len(r))
  BY <1>1
<1>4. (q \o r)[i] = IF i <= Len(q) THEN q[i] ELSE r[i - Len(q)]
  OBVIOUS
<1>5. i <= Len(q) => ~ (i > Len(q))
  BY <1>1
<1>6. QED
  BY <1>1, <1>3, <1>4, <1>5

(* A push keeps the account of the events that left the ring.              *)
LEMMA PushFollows ==
  ASSUME NEW s \in ArenaStates, NEW p \in ArenaStates, NEW es \in Seq(Bodies), Pushed(s, p, es),
         NEW eventSeq \in Nat, NEW dropped \in Nat, Follows(s, eventSeq, dropped)
  PROVE  /\ Follows(p, eventSeq, dropped)
         /\ p.dropped = dropped =>
              s.dropped = dropped /\ Excess(s.events \o Numbered(s, es)) = 0
<1> DEFINE q == s.events
           r == Numbered(s, es)
           all == q \o r
           gone == s.dropped - dropped
           a == Len(q)
           b == Len(r)
           x == Excess(all)
<1>1. q \in Seq(Events) /\ s.dropped \in Nat /\ s.eventSeq \in Nat /\ MaxEvents \in Nat
  BY ArenaAssumption DEF ArenaStates
<1>2. /\ r \in Seq(Events) /\ b = Len(es)
      /\ \A i \in 1 .. b : r[i].seq = s.eventSeq + i
  BY NumberedShape
<1>3. /\ p.eventSeq = s.eventSeq + b /\ p.events = LastOf(all) /\ p.dropped = s.dropped + x
  BY <1>2 DEF Pushed
<1>4. /\ gone \in Int /\ gone >= 0 /\ a <= MaxEvents
      /\ gone > 0 => a = MaxEvents
      /\ s.eventSeq = eventSeq + gone + a
      /\ \A i \in 1 .. a : q[i].seq = eventSeq + gone + i
  BY <1>1 DEF Follows
<1> HIDE DEF q, r, gone
<1>5. /\ all \in Seq(Events) /\ a \in Nat /\ b \in Nat /\ Len(all) = a + b
      /\ \A i \in 1 .. a + b :
           /\ i <= a => i \in 1 .. a /\ all[i] = q[i]
           /\ i > a => i - a \in 1 .. b /\ all[i] = r[i - a]
  <2>1. q \in Seq(Events) /\ r \in Seq(Events)
    BY <1>1, <1>2
  <2>2. QED
    BY <2>1, JoinShape, ZenonT(60)
<1> HIDE DEF all, a, b
<1>b. /\ x \in Nat /\ x <= Len(all) /\ Len(LastOf(all)) = Len(all) - x
      /\ Len(LastOf(all)) <= MaxEvents
      /\ x > 0 => Len(LastOf(all)) = MaxEvents
      /\ \A i \in 1 .. Len(LastOf(all)) : LastOf(all)[i] = all[x + i] /\ x + i \in 1 .. Len(all)
  <2>1. all \in Seq(Events)
    BY <1>5
  <2>2. QED
    BY <2>1, LastOfShape
<1>6. /\ x \in Nat /\ x <= a + b /\ Len(p.events) = a + b - x /\ Len(p.events) <= MaxEvents
      /\ x > 0 => Len(p.events) = MaxEvents
      /\ \A i \in 1 .. Len(p.events) : p.events[i] = all[x + i] /\ x + i \in 1 .. a + b
  <2>1. p.events = LastOf(all) /\ Len(all) = a + b
    BY <1>3, <1>5
  <2>2. Len(p.events) = a + b - x
    <3>1. PICK l \in Int : l = Len(all)
      BY <1>5
    <3>2. Len(p.events) = l - x
      BY <1>b, <2>1, <3>1
    <3>3. l = a + b
      BY <2>1, <3>1
    <3>4. QED
      BY <1>5, <1>b, <3>1, <3>2, <3>3
  <2>3. \A i \in 1 .. Len(p.events) : p.events[i] = all[x + i] /\ x + i \in 1 .. a + b
    BY <1>b, <2>1
  <2>4. QED
    BY <1>b, <2>1, <2>2, <2>3
<1> HIDE DEF x
<1>7. p.dropped - dropped = gone + x
  BY <1>1, <1>3, <1>6 DEF gone
<1>8. gone + x > 0 => Len(p.events) = MaxEvents
  BY <1>1, <1>4, <1>5, <1>6
<1>9. p.eventSeq = eventSeq + (gone + x) + Len(p.events)
  <2>1. eventSeq + gone + a + b = eventSeq + (gone + x) + (a + b - x)
    BY <1>4, <1>5, <1>6
  <2>2. QED
    BY <1>3, <1>4, <1>6, <2>1
<1>10. ASSUME NEW i \in 1 .. Len(p.events) PROVE p.events[i].seq = eventSeq + (gone + x) + i
  <2>1. p.events[i] = all[x + i] /\ x + i \in 1 .. a + b /\ i \in Int
    BY <1>6
  <2>2. PICK k \in Int : k = x + i
    BY <1>6, <2>1
  <2>3. k \in 1 .. a + b /\ p.events[i] = all[k]
    BY <2>1, <2>2
  <2>4. CASE k <= a
    <3>1. k \in 1 .. a /\ all[k] = q[k]
      BY <1>5, <2>3, <2>4
    <3>2. q[k].seq = eventSeq + gone + k
      BY <1>4, <3>1
    <3>3. QED
      BY <1>4, <1>6, <2>1, <2>2, <2>3, <3>1, <3>2
  <2>5. CASE k > a
    <3>1. k - a \in 1 .. b /\ all[k] = r[k - a]
      BY <1>5, <2>3, <2>5
    <3>2. r[k - a].seq = s.eventSeq + (k - a)
      BY <1>2, <3>1 DEF b
    <3>3. QED
      BY <1>4, <1>5, <1>6, <2>1, <2>2, <2>3, <3>1, <3>2
  <2>6. QED
    BY <1>5, <2>2, <2>4, <2>5
<1>11. Follows(p, eventSeq, dropped)
  <2>1. PICK g \in Int : g = p.dropped - dropped /\ g = gone + x
    BY <1>4, <1>6, <1>7
  <2>2. /\ g >= 0 /\ Len(p.events) <= MaxEvents
        /\ g > 0 => Len(p.events) = MaxEvents
        /\ p.eventSeq = eventSeq + g + Len(p.events)
    BY <1>4, <1>6, <1>8, <1>9, <2>1
  <2>3. \A i \in 1 .. Len(p.events) : p.events[i].seq = eventSeq + g + i
    BY <1>10, <2>1
  <2>4. QED
    BY <2>1, <2>2, <2>3 DEF Follows
<1>12. p.dropped = dropped => s.dropped = dropped /\ x = 0
  BY <1>1, <1>4, <1>6, <1>7, SMTT(30) DEF gone
<1>13. QED
  BY <1>11, <1>12 DEF x, all, q, r

(* When a prepare commits, what its log has counted and what leaves the    *)
(* ring in the merge add up.                                               *)
LEMMA MergeContiguous ==
  ASSUME NEW s \in ArenaStates, NEW h \in ArenaStates, NEW c \in ArenaStates,
         Contiguous(s), Follows(h, s.eventSeq, s.dropped),
         c.eventSeq = h.eventSeq, c.events = LastOf(s.events \o h.events),
         c.dropped = h.dropped + Excess(s.events \o h.events)
  PROVE  /\ Contiguous(c)
         /\ Excess(s.events \o h.events) < Len(s.events) => h.dropped = s.dropped
<1> DEFINE q == s.events
           r == h.events
           all == q \o r
           gone == h.dropped - s.dropped
           a == Len(q)
           b == Len(r)
           x == Excess(all)
           base == s.dropped
<1>1. /\ q \in Seq(Events) /\ r \in Seq(Events) /\ base \in Nat /\ h.dropped \in Nat
      /\ s.eventSeq \in Nat /\ h.eventSeq \in Nat /\ MaxEvents \in Nat
  BY ArenaAssumption DEF ArenaStates
<1>2. /\ s.eventSeq = base + a /\ a <= MaxEvents
      /\ \A i \in 1 .. a : q[i].seq = base + i
  BY <1>1 DEF Contiguous
<1>3. /\ gone \in Int /\ gone >= 0 /\ b <= MaxEvents
      /\ gone > 0 => b = MaxEvents
      /\ h.eventSeq = s.eventSeq + gone + b
      /\ \A i \in 1 .. b : r[i].seq = s.eventSeq + gone + i
      /\ h.dropped = base + gone
  BY <1>1 DEF Follows
<1> HIDE DEF q, r, gone, base
<1>4. /\ all \in Seq(Events) /\ a \in Nat /\ b \in Nat /\ Len(all) = a + b
      /\ \A i \in 1 .. a + b :
           /\ i <= a => i \in 1 .. a /\ all[i] = q[i]
           /\ i > a => i - a \in 1 .. b /\ all[i] = r[i - a]
  <2>1. q \in Seq(Events) /\ r \in Seq(Events)
    BY <1>1
  <2>2. QED
    BY <2>1, JoinShape
<1>5. c.events = LastOf(all) /\ c.dropped = h.dropped + x
  BY DEF q, r
<1> HIDE DEF all, a, b
<1>6. /\ x \in Nat /\ x <= a + b /\ Len(c.events) = a + b - x /\ Len(c.events) <= MaxEvents
      /\ x > 0 => Len(c.events) = MaxEvents
      /\ \A i \in 1 .. Len(c.events) : c.events[i] = all[x + i] /\ x + i \in 1 .. a + b
  BY <1>4, <1>5, LastOfShape, SMTT(30)
<1> HIDE DEF x
<1>7. x < a => gone = 0
  BY <1>1, <1>2, <1>3, <1>4, <1>6, SMTT(30)
<1>8. c.eventSeq = c.dropped + Len(c.events)
  BY <1>1, <1>2, <1>3, <1>4, <1>5, <1>6
<1>9. ASSUME NEW i \in 1 .. Len(c.events) PROVE c.events[i].seq = c.dropped + i
  <2>1. c.events[i] = all[x + i] /\ x + i \in 1 .. a + b /\ i \in Int /\ 1 <= i
    BY <1>6
  <2>2. PICK k \in Int : k = x + i
    BY <1>6, <2>1
  <2>3. k \in 1 .. a + b /\ c.events[i] = all[k]
    BY <2>1, <2>2
  <2>4. CASE k <= a
    <3>1. k \in 1 .. a /\ all[k] = q[k]
      BY <1>4, <2>3, <2>4
    <3>2. q[k].seq = base + k
      BY <1>2, <3>1
    <3>3. gone = 0
      BY <1>4, <1>6, <1>7, <2>1, <2>2, <2>4
    <3>4. QED
      BY <1>1, <1>3, <1>5, <1>6, <2>1, <2>2, <2>3, <3>1, <3>2, <3>3
  <2>5. CASE k > a
    <3>1. k - a \in 1 .. b /\ all[k] = r[k - a]
      BY <1>4, <2>3, <2>5
    <3>2. r[k - a].seq = s.eventSeq + gone + (k - a)
      BY <1>3, <3>1
    <3>3. QED
      BY <1>1, <1>2, <1>3, <1>4, <1>5, <1>6, <2>1, <2>2, <2>3, <3>1, <3>2
  <2>6. QED
    BY <1>4, <2>2, <2>4, <2>5
<1>10. c.events \in Seq(Events)
  BY DEF ArenaStates
<1>11. Contiguous(c)
  BY <1>6, <1>8, <1>9, <1>10 DEF Contiguous
<1>12. x < a => h.dropped = s.dropped
  BY <1>1, <1>3, <1>7 DEF base
<1>13. QED
  BY <1>11, <1>12 DEF x, a, all, q, r

(* Two parts of a log whose prepares are each together stay so when they   *)
(* are merged, unless the second begins in the middle of a prepare and the *)
(* ring still holds some of the first.                                     *)
LEMMA MergeTogether ==
  ASSUME NEW q \in Seq(Events), NEW r \in Seq(Events), TracesTogether(q), TracesTogether(r),
         Len(r) > 0,
         Excess(q \o r) < Len(q) => r[1].kind \in {"request.started", "usage.calibrated"}
  PROVE  TracesTogether(LastOf(q \o r))
<1> DEFINE all == q \o r
           a == Len(q)
           b == Len(r)
           x == Excess(all)
           c == LastOf(all)
           Fits(e, f) == IF e.kind \in Between
                         THEN f.kind \in {"request.started", "usage.calibrated"}
                         ELSE /\ f.kind \notin {"request.started", "usage.calibrated"}
                              /\ f.request = e.request
<1>a. /\ all \in Seq(Events) /\ a \in Nat /\ b \in Nat /\ Len(all) = a + b
      /\ \A i \in 1 .. a + b :
           /\ i <= a => i \in 1 .. a /\ all[i] = q[i]
           /\ i > a => i - a \in 1 .. b /\ all[i] = r[i - a]
  BY JoinShape, ZenonT(60)
<1>1. /\ all \in Seq(Events) /\ a \in Nat /\ b \in Nat /\ b > 0 /\ Len(all) = a + b
      /\ \A i \in 1 .. a + b :
           /\ i <= a => i \in 1 .. a /\ all[i] = q[i]
           /\ i > a => i - a \in 1 .. b /\ all[i] = r[i - a]
  BY <1>a
<1>2. /\ a > 0 => q[a].kind \in Between
      /\ \A i \in 2 .. a : Fits(q[i - 1], q[i])
      /\ r[b].kind \in Between
      /\ \A i \in 2 .. b : Fits(r[i - 1], r[i])
  <2>1. a > 0 => q # <<>>
    OBVIOUS
  <2>2. r # <<>>
    OBVIOUS
  <2>3. QED
    BY <2>1, <2>2 DEF TracesTogether, Last
<1>3. x < a => r[1].kind \in {"request.started", "usage.calibrated"}
  OBVIOUS
<1> HIDE DEF all, a, b
<1>b. /\ x \in Nat /\ x <= Len(all) /\ c \in Seq(Events) /\ Len(c) = Len(all) - x
      /\ x > 0 => Len(c) = MaxEvents
      /\ \A i \in 1 .. Len(c) : c[i] = all[x + i] /\ x + i \in 1 .. Len(all)
  <2>1. all \in Seq(Events)
    BY <1>1
  <2>2. QED
    BY <2>1, LastOfShape
<1>4. /\ x \in Nat /\ x <= a + b /\ c \in Seq(Events) /\ Len(c) = a + b - x
      /\ x > 0 => Len(c) = MaxEvents
      /\ \A i \in 1 .. Len(c) : c[i] = all[x + i] /\ x + i \in 1 .. a + b
  BY <1>1, <1>b
<1> HIDE DEF x, c
<1>5. MaxEvents \in Nat /\ MaxEvents > 0
  BY ArenaAssumption
<1>6. Len(c) > 0
  BY <1>1, <1>4, <1>5
<1>7. Last(c).kind \in Between
  <2>1. Len(c) \in 1 .. Len(c) /\ x + Len(c) = a + b
    BY <1>1, <1>4, <1>6
  <2>2. c[Len(c)] = all[a + b]
    BY <1>4, <2>1
  <2>3. all[a + b] = r[b]
    BY <1>1
  <2>4. QED
    BY <1>2, <2>2, <2>3 DEF Last
<1>8. ASSUME NEW i \in 2 .. Len(c) PROVE Fits(c[i - 1], c[i])
  <2>1. i \in Int /\ 2 <= i /\ i <= a + b - x
    BY <1>1, <1>4
  <2>2. PICK k \in Int : k = x + i
    BY <1>4, <2>1
  <2>3. PICK j \in Int : j = k - 1
    BY <2>2
  <2>4. /\ i - 1 \in 1 .. Len(c) /\ i \in 1 .. Len(c) /\ x + (i - 1) = j /\ x + i = k
    BY <1>1, <1>4, <2>1, <2>2, <2>3
  <2>5. c[i - 1] = all[j] /\ c[i] = all[k] /\ j \in 1 .. a + b /\ k \in 1 .. a + b
    BY <1>4, <2>4
  <2>6. CASE k <= a
    <3>1. j <= a /\ k \in 2 .. a /\ k - 1 = j
      BY <1>1, <1>4, <2>1, <2>2, <2>3, <2>6
    <3>2. all[j] = q[k - 1] /\ all[k] = q[k]
      BY <1>1, <2>5, <2>6, <3>1
    <3>3. QED
      BY <1>2, <2>5, <3>1, <3>2
  <2>7. CASE k = a + 1
    <3>1. a > 0 /\ x < a /\ j = a /\ k > a /\ k - a = 1
      BY <1>1, <1>4, <2>1, <2>2, <2>3, <2>7
    <3>2. all[j] = q[a] /\ all[k] = r[1]
      BY <1>1, <2>5, <3>1
    <3>3. QED
      BY <1>2, <1>3, <2>5, <3>1, <3>2
  <2>8. CASE k > a + 1
    <3>1. j > a /\ k > a /\ j - a = (k - a) - 1 /\ k - a >= 2
      BY <1>1, <2>2, <2>3, <2>8, SMTT(30)
    <3>2. all[j] = r[(k - a) - 1] /\ all[k] = r[k - a] /\ k - a \in 1 .. b
      BY <1>1, <2>5, <3>1
    <3>3. k - a \in 2 .. b
      BY <1>1, <3>1, <3>2
    <3>4. QED
      BY <1>2, <2>5, <3>2, <3>3, SMTT(30)
  <2>9. QED
    BY <1>1, <2>2, <2>6, <2>7, <2>8
<1>9. TracesTogether(c)
  BY <1>7, <1>8 DEF TracesTogether
<1>10. QED
  BY <1>9 DEF c, all

(* The events es that a request adds to its trace, which they end or not.  *)
Adds(es, id, published) ==
  /\ \A i \in 1 .. Len(es) :
       /\ es[i].request = id
       /\ es[i].kind \notin {"request.started", "usage.calibrated"}
       /\ es[i].kind = "snapshot.published" <=> published /\ i = Len(es)
  /\ published => Len(es) > 0

(* The log of a transaction goes on from that of the state.                *)
LEMMA LogExtends ==
  ASSUME NEW s \in ArenaStates, NEW p \in ArenaStates, NEW es \in Seq(Bodies), Pushed(s, p, es),
         NEW id, NEW published \in BOOLEAN, NEW eventSeq \in Nat, NEW dropped \in Nat,
         Follows(s, eventSeq, dropped), OneTrace(s.events, id, FALSE, s.dropped = dropped),
         Adds(es, id, published)
  PROVE  /\ Follows(p, eventSeq, dropped)
         /\ OneTrace(p.events, id, published, p.dropped = dropped)
<1>a. /\ Follows(p, eventSeq, dropped)
      /\ p.dropped = dropped =>
           s.dropped = dropped /\ Excess(s.events \o Numbered(s, es)) = 0
  BY PushFollows
<1> DEFINE before == s.dropped = dropped
           after == p.dropped = dropped
           q == s.events
           r == Numbered(s, es)
           all == q \o r
           a == Len(q)
           b == Len(r)
           x == Excess(all)
           c == LastOf(all)
<1>1. q \in Seq(Events) /\ MaxEvents \in Nat /\ MaxEvents > 0
  BY ArenaAssumption, SMTT(30) DEF ArenaStates
<1>2. /\ r \in Seq(Events) /\ b = Len(es)
      /\ \A i \in 1 .. b : r[i].kind = es[i].kind /\ r[i].request = es[i].request
  BY NumberedShape
<1>3. /\ a > 0
      /\ \A i \in 1 .. a : /\ q[i].request = id /\ q[i].kind # "usage.calibrated"
                           /\ q[i].kind = "request.started" => i = 1
                           /\ q[i].kind # "snapshot.published"
      /\ before => q[1].kind = "request.started"
  BY <1>1 DEF OneTrace
<1>4. /\ \A i \in 1 .. b :
           /\ r[i].request = id /\ r[i].kind # "usage.calibrated" /\ r[i].kind # "request.started"
           /\ r[i].kind = "snapshot.published" <=> published /\ i = b
      /\ published => b > 0
  BY <1>2 DEF Adds
<1>5. p.events = c
  BY DEF Pushed
<1>6. after => before /\ x = 0
  BY <1>a
<1> HIDE DEF q, r
<1>7. /\ all \in Seq(Events) /\ a \in Nat /\ b \in Nat /\ Len(all) = a + b
      /\ \A i \in 1 .. a + b :
           /\ i <= a => i \in 1 .. a /\ all[i] = q[i]
           /\ i > a => i - a \in 1 .. b /\ all[i] = r[i - a]
  <2>1. q \in Seq(Events) /\ r \in Seq(Events)
    BY <1>1, <1>2
  <2>2. QED
    BY <2>1, JoinShape, ZenonT(60)
<1> HIDE DEF all, a, b
<1>8. /\ x \in Nat /\ x <= Len(all) /\ c \in Seq(Events) /\ Len(c) = Len(all) - x
      /\ x > 0 => Len(c) = MaxEvents
      /\ \A i \in 1 .. Len(c) : c[i] = all[x + i] /\ x + i \in 1 .. Len(all)
  <2>1. all \in Seq(Events)
    BY <1>7
  <2>2. QED
    BY <2>1, LastOfShape
<1>9. /\ x \in Nat /\ x <= a + b /\ c \in Seq(Events) /\ Len(c) = a + b - x
      /\ x > 0 => Len(c) = MaxEvents
      /\ \A i \in 1 .. Len(c) : c[i] = all[x + i] /\ x + i \in 1 .. a + b
  BY <1>7, <1>8
<1> HIDE DEF x, c
<1>10. Len(c) > 0
  BY <1>1, <1>3, <1>7, <1>9
<1>11. ASSUME NEW i \in 1 .. Len(c)
       PROVE  /\ c[i].request = id /\ c[i].kind # "usage.calibrated"
              /\ c[i].kind = "request.started" => i = 1
              /\ c[i].kind = "snapshot.published" <=> published /\ i = Len(c)
  <2>1. i \in Int /\ 1 <= i /\ i <= a + b - x
    BY <1>7, <1>9
  <2>2. PICK k \in Int : k = x + i
    BY <1>9, <2>1
  <2>3. c[i] = all[k] /\ k \in 1 .. a + b /\ (i = Len(c) <=> k = a + b)
    BY <1>7, <1>9, <2>1, <2>2, SMTT(30)
  <2>4. CASE k <= a
    <3>1. c[i] = q[k] /\ k \in 1 .. a
      BY <1>7, <2>3, <2>4
    <3>2. k = 1 => i = 1
      BY <1>9, <2>1, <2>2
    <3>3. ~ (published /\ i = Len(c))
      BY <1>4, <1>7, <2>3, <2>4
    <3>4. QED
      BY <1>3, <3>1, <3>2, <3>3
  <2>5. CASE k > a
    <3>1. PICK j \in Int : j = k - a
      BY <1>7, <2>2
    <3>2. c[i] = r[j] /\ j \in 1 .. b /\ (j = b <=> k = a + b)
      BY <1>7, <2>3, <2>5, <3>1
    <3>3. QED
      BY <1>4, <2>3, <3>2
  <2>6. QED
    BY <1>7, <2>2, <2>4, <2>5
<1>12. after => c[1].kind = "request.started"
  <2>1. SUFFICES ASSUME after PROVE c[1].kind = "request.started"
    OBVIOUS
  <2>2. 1 \in 1 .. Len(c) /\ x = 0
    BY <1>6, <1>9, <1>10, <2>1
  <2>3. c[1] = all[1] /\ 1 \in 1 .. a + b /\ 1 <= a
    BY <1>3, <1>7, <1>9, <2>2
  <2>4. QED
    BY <1>3, <1>6, <1>7, <2>1, <2>3
<1>13. c # <<>>
  BY <1>9, <1>10
<1>14. QED
  BY <1>a, <1>5, <1>11, <1>12, <1>13 DEF OneTrace

LEMMA LogBegins ==
  ASSUME NEW b \in ArenaStates, NEW p \in ArenaStates, NEW id \in Ids,
         Pushed(b, p, <<Plain("request.started", id)>>), b.events = <<>>, NEW whole
  PROVE  /\ Follows(p, b.eventSeq, b.dropped)
         /\ OneTrace(p.events, id, FALSE, whole)
<1> DEFINE es == <<Plain("request.started", id)>>
           r == Numbered(b, es)
<1>1. /\ es \in Seq(Bodies) /\ Len(es) = 1
      /\ es[1].kind = "request.started" /\ es[1].request = id
  BY PlainBody DEF Kinds
<1> HIDE DEF es
<1>2. b.eventSeq \in Nat /\ b.dropped \in Nat /\ MaxEvents \in Nat /\ MaxEvents > 0
  BY ArenaAssumption, SMTT(30) DEF ArenaStates
<1>3. Follows(b, b.eventSeq, b.dropped)
  <2>1. Len(b.events) = 0 /\ 1 .. 0 = {}
    OBVIOUS
  <2>2. QED
    BY <1>2, <2>1 DEF Follows
<1>4. Pushed(b, p, es)
  BY DEF es
<1>5. Follows(p, b.eventSeq, b.dropped)
  BY <1>1, <1>2, <1>3, <1>4, PushFollows
<1>6. /\ r \in Seq(Events) /\ Len(r) = 1
      /\ r[1].kind = "request.started" /\ r[1].request = id
  BY <1>1, NumberedShape
<1> HIDE DEF r
<1>7. p.events = LastOf(<<>> \o r)
  BY <1>4 DEF Pushed, r
<1>8. <<>> \o r = r
  BY <1>6
<1>9. Excess(r) = 0
  BY <1>2, <1>6 DEF Excess
<1>10. LastOf(r) \in Seq(Events) /\ Len(LastOf(r)) = 1 /\ LastOf(r)[1] = r[1]
  BY <1>6, <1>9, LastOfShape
<1>11. p.events \in Seq(Events) /\ Len(p.events) = 1 /\ p.events[1] = r[1]
  BY <1>7, <1>8, <1>10
<1>12. OneTrace(p.events, id, FALSE, whole)
  BY <1>6, <1>11 DEF OneTrace
<1>13. QED
  BY <1>5, <1>12

LEMMA LogFollowsInit == Init => LogFollows
BY DEF Init, LogFollows

LEMMA LogFollowsStep ==
  ArenaTypes /\ Exclusive /\ LogFollows /\ [Next]_vars => LogFollows'
<1> SUFFICES ASSUME ArenaTypes, Exclusive, LogFollows, [Next]_vars, lock' # None
             PROVE  LogFollows'
  BY DEF LogFollows
<1> DEFINE eventSeq == state.eventSeq
           dropped == state.dropped
           Kept(h, id, published) ==
             /\ Follows(h, eventSeq, dropped)
             /\ OneTrace(h.events, id, published, h.dropped = dropped)
<1>1. None \notin Threads /\ state \in ArenaStates /\ eventSeq \in Nat /\ dropped \in Nat
  BY ArenaAssumption DEF ArenaTypes, ArenaStates
<1>2. CASE /\ lock \in Threads /\ lock' = lock /\ UNCHANGED <<state, txn, leases, trace>>
           /\ pc'[lock] = pc[lock] /\ call'[lock] = call[lock]
  BY <1>1, <1>2 DEF LogFollows
<1>3. ASSUME NEW t \in Threads, Begin(t), lock' = t, UNCHANGED state, pc'[t] = "leases"
      PROVE  LogFollows'
  <2>1. PICK id \in Ids : call'[t] = Request(id, call[t].model) /\ txn' = Begun(state, id)
    BY <1>3, BeginStep
  <2>2. txn' \in ArenaStates
    BY <1>1, <2>1, BeginEffect
  <2>3. PICK b \in ArenaStates :
          /\ b.eventSeq = eventSeq /\ b.events = <<>> /\ b.dropped = dropped
          /\ Pushed(b, txn', <<Plain("request.started", id)>>)
    BY <1>1, <2>1, BeginEffect
  <2>4. /\ Follows(txn', eventSeq, dropped)
        /\ \A whole : OneTrace(txn'.events, id, FALSE, whole)
    BY <2>2, <2>3, LogBegins
  <2>5. call'[t].id = id
    BY <2>1 DEF Request
  <2>6. OneTrace(txn'.events, id, FALSE, txn'.dropped = dropped)
    BY <2>4 DEF OneTrace
  <2>7. QED
    BY <1>3, <2>4, <2>5, <2>6 DEF LogFollows
<1>4. ASSUME NEW t \in Threads, lock = t, pc[t] # "commit"
      PROVE  txn \in ArenaStates /\ Kept(txn, call[t].id, FALSE) /\ call[t].id \in Ids
  <2>1. txn \in ArenaStates /\ call[t] \in Requests(Ids)
    BY <1>1, <1>4 DEF ArenaTypes, Exclusive
  <2>2. Follows(txn, eventSeq, dropped)
    BY <1>1, <1>4 DEF LogFollows
  <2>3. OneTrace(txn.events, call[t].id, FALSE, txn.dropped = dropped)
    BY <1>1, <1>4 DEF LogFollows
  <2>4. QED
    BY <2>1, <2>2, <2>3 DEF Requests
<1>5. ASSUME NEW t \in Threads, lock = t, lock' = t, UNCHANGED <<state, call>>,
             NEW published \in BOOLEAN, Kept(txn', call[t].id, published),
             published <=> pc'[t] = "commit"
      PROVE  LogFollows'
  BY <1>5 DEF LogFollows
<1>6. ASSUME NEW t \in Threads, lock = t, lock' = t, UNCHANGED <<state, call>>,
             NEW next \in LeaseOutcomes, TraceLeases(t, next), pc[t] = "leases", pc'[t] = "modules"
      PROVE  LogFollows'
  <2> DEFINE id == call[t].id
             before == txn.activeLeases
             after == KeepLast(next)
  <2>1. PICK es \in Seq(Bodies), fs \in Seq(Bodies) :
          /\ OnePerLease(es, "lease.reclaimed", id, {l \in LeaseIds : Shrunk(l, after)},
                         [l \in LeaseIds |-> before[l] - after[l]])
          /\ Grants(fs, id, {l \in LeaseIds : after[l] > before[l]},
                    [l \in LeaseIds |-> after[l] - before[l]], SharedIds(next))
          /\ txn' \in ArenaStates
          /\ Pushed(txn, txn', es \o fs)
    BY <1>6, TraceLeasesEffect, ZenonT(60)
  <2>2. /\ \A i \in 1 .. Len(es) : es[i].kind = "lease.reclaimed" /\ es[i].request = id
        /\ \A i \in 1 .. Len(fs) : fs[i].kind = "lease.granted" /\ fs[i].request = id
    BY <2>1 DEF OnePerLease, Grants
  <2> DEFINE both == es \o fs
  <2>3. /\ both \in Seq(Bodies) /\ Len(es) \in Nat /\ Len(fs) \in Nat
        /\ Len(both) = Len(es) + Len(fs)
        /\ \A i \in 1 .. Len(es) + Len(fs) :
             /\ i <= Len(es) => i \in 1 .. Len(es) /\ both[i] = es[i]
             /\ i > Len(es) => i - Len(es) \in 1 .. Len(fs) /\ both[i] = fs[i - Len(es)]
    BY JoinShape, ZenonT(60)
  <2> HIDE DEF both, id
  <2>4. \A i \in 1 .. Len(both) : /\ both[i].kind \in {"lease.reclaimed", "lease.granted"}
                                  /\ both[i].request = id
    BY <2>2, <2>3, SMTT(30)
  <2>5. Adds(both, id, FALSE)
    BY <2>4 DEF Adds
  <2>6. /\ txn \in ArenaStates /\ Follows(txn, eventSeq, dropped)
        /\ OneTrace(txn.events, id, FALSE, txn.dropped = dropped)
    BY <1>4, <1>6 DEF id
  <2>7. Pushed(txn, txn', both)
    BY <2>1 DEF both
  <2>8. Kept(txn', id, FALSE)
    BY <1>1, <2>1, <2>3, <2>5, <2>6, <2>7, LogExtends
  <2>9. QED
    BY <1>5, <1>6, <2>8 DEF id
<1>7. ASSUME NEW t \in Threads, lock = t, lock' = t, UNCHANGED <<state, call>>,
             NEW n \in 0 .. MaxCompressed, Compress(t, n), pc[t] = "modules", pc'[t] = "publish"
      PROVE  LogFollows'
  <2> DEFINE id == call[t].id
  <2>1. PICK es \in Seq(Bodies) :
          /\ \A i \in 1 .. Len(es) : es[i].kind = "chunk.compressed" /\ es[i].request = id
          /\ txn' \in ArenaStates
          /\ Pushed(txn, txn', es)
    BY <1>7, CompressStep
  <2>2. Adds(es, id, FALSE)
    BY <2>1 DEF Adds
  <2>3. /\ txn \in ArenaStates /\ Follows(txn, eventSeq, dropped)
        /\ OneTrace(txn.events, id, FALSE, txn.dropped = dropped)
    BY <1>4, <1>7
  <2> HIDE DEF id
  <2>4. Kept(txn', id, FALSE)
    BY <1>1, <2>1, <2>2, <2>3, LogExtends
  <2>5. QED
    BY <1>5, <1>7, <2>4 DEF id
<1>8. ASSUME NEW t \in Threads, lock = t, lock' = t, UNCHANGED <<state, call>>,
             Publish(t), pc[t] = "publish", pc'[t] = "commit"
      PROVE  LogFollows'
  <2> DEFINE id == call[t].id
             prepared == <<Plain("request.prepared", id)>>
             published == <<Plain("snapshot.published", id)>>
  <2>1. /\ call[t] \in Requests(Ids) /\ leases \in Seq(Leases)
        /\ txn' = Published(txn, call[t], leases)
        /\ prepared \in Seq(Bodies) /\ published \in Seq(Bodies)
    BY <1>8, PublishStep
  <2>2. /\ txn \in ArenaStates /\ Follows(txn, eventSeq, dropped)
        /\ OneTrace(txn.events, id, FALSE, txn.dropped = dropped)
    BY <1>4, <1>8
  <2>3. /\ txn' \in ArenaStates
        /\ \E m \in ArenaStates : Pushed(txn, m, prepared) /\ Pushed(m, txn', published)
    BY <2>1, <2>2, PublishEffect
  <2>4. Adds(prepared, id, FALSE) /\ Adds(published, id, TRUE)
    BY DEF Adds, Plain, Event
  <2> HIDE DEF id, prepared, published
  <2>5. PICK m \in ArenaStates : Pushed(txn, m, prepared) /\ Pushed(m, txn', published)
    BY <2>3
  <2>6. Kept(m, id, FALSE)
    BY <1>1, <2>1, <2>2, <2>4, <2>5, LogExtends, ZenonT(60)
  <2>7. Kept(txn', id, TRUE)
    <3>1. PICK p \in ArenaStates : p = txn'
      BY <2>3
    <3>2. Pushed(m, p, published)
      BY <2>5, <3>1
    <3>3. Follows(m, eventSeq, dropped) /\ OneTrace(m.events, id, FALSE, m.dropped = dropped)
      BY <2>6
    <3>4. TRUE \in BOOLEAN
      OBVIOUS
    <3>5. Follows(p, eventSeq, dropped) /\ OneTrace(p.events, id, TRUE, p.dropped = dropped)
      BY <1>1, <2>1, <2>4, <3>2, <3>3, <3>4, LogExtends
    <3>6. QED
      BY <3>1, <3>5
  <2>8. QED
    BY <1>5, <1>8, <2>7 DEF id
<1>9. QED
  BY <1>2, <1>3, <1>6, <1>7, <1>8, TxnSteps

-----------------------------------------------------------------------------
(* The committed log.                                                      *)

LEMMA TraceTogether ==
  ASSUME NEW es \in Seq(Events), NEW id, NEW whole, OneTrace(es, id, TRUE, whole)
  PROVE  TracesTogether(es) /\ Len(es) > 0
<1>1. /\ es # <<>> /\ Len(es) \in Nat /\ Len(es) > 0
      /\ \A i \in 1 .. Len(es) :
           /\ es[i].request = id /\ es[i].kind # "usage.calibrated"
           /\ es[i].kind = "request.started" => i = 1
           /\ es[i].kind = "snapshot.published" <=> i = Len(es)
  BY DEF OneTrace
<1>2. Last(es).kind \in Between
  BY <1>1 DEF Last, Between
<1>3. ASSUME NEW i \in 2 .. Len(es)
      PROVE  /\ es[i - 1].kind \notin Between
             /\ es[i].kind \notin {"request.started", "usage.calibrated"}
             /\ es[i].request = es[i - 1].request
  <2>1. i \in 1 .. Len(es) /\ i - 1 \in 1 .. Len(es) /\ i # 1 /\ i - 1 # Len(es)
    BY <1>1
  <2>2. QED
    BY <1>1, <2>1 DEF Between
<1>4. QED
  BY <1>1, <1>2, <1>3 DEF TracesTogether

LEMMA EventLogInit == Init => EventLogWhole
<1> SUFFICES ASSUME Init PROVE EventLogWhole
  OBVIOUS
<1>1. state.events = <<>> /\ state.eventSeq = 0 /\ state.dropped = 0
  BY DEF Init, EmptyState
<1>2. Len(<<>>) = 0 /\ DOMAIN <<>> = {} /\ 2 .. 0 = {} /\ MaxEvents \in Nat
  BY ArenaAssumption
<1>3. QED
  BY <1>1, <1>2 DEF EventLogWhole, Contiguous, TracesTogether

LEMMA EventLogStep ==
  ArenaTypes /\ Exclusive /\ TxnFollows /\ LogFollows /\ EventLogWhole /\ [Next]_vars /\ ArenaTypes'
  => EventLogWhole'
<1> SUFFICES ASSUME ArenaTypes, Exclusive, TxnFollows, LogFollows, EventLogWhole, [Next]_vars,
                    ArenaTypes'
             PROVE  EventLogWhole'
  OBVIOUS
<1>1. state \in ArenaStates /\ state' \in ArenaStates /\ None \notin Threads
  BY ArenaAssumption DEF ArenaTypes
<1>a. state.events \in Seq(Events) /\ state.dropped \in Nat /\ state.eventSeq \in Nat
  BY <1>1 DEF ArenaStates
<1>2. Contiguous(state) /\ TracesTogether(state.events)
  BY DEF EventLogWhole
<1>3. CASE UNCHANGED <<state, history, ledger, repeated>>
  BY <1>3 DEF EventLogWhole
<1>4. ASSUME NEW t \in Threads, Commit(t), pc[t] = "commit", lock = t PROVE EventLogWhole'
  <2> DEFINE c == CommitTransaction(state, txn)
             whole == txn.dropped = state.dropped
             q == state.events
             r == txn.events
  <2>1. txn \in ArenaStates /\ state' = c
    BY <1>4, CommitFacts
  <2>2. /\ Follows(txn, state.eventSeq, state.dropped)
        /\ OneTrace(r, call[t].id, TRUE, whole)
    BY <1>1, <1>4 DEF LogFollows
  <2>3. /\ c \in ArenaStates /\ c.eventSeq = txn.eventSeq
        /\ c.events = LastOf(q \o r) /\ c.dropped = txn.dropped + Excess(q \o r)
    BY <1>1, <2>1, CommitEffect
  <2> HIDE DEF c
  <2>4. /\ Contiguous(c)
        /\ Excess(q \o r) < Len(q) => whole
    BY <1>1, <1>2, <2>1, <2>2, <2>3, MergeContiguous
  <2>5. q \in Seq(Events) /\ r \in Seq(Events)
    BY <1>1, <2>1 DEF ArenaStates
  <2>6. whole => r[1].kind = "request.started"
    BY <2>2 DEF OneTrace
  <2>7. TracesTogether(q)
    BY <1>2
  <2> HIDE DEF q, r, whole
  <2>8. TracesTogether(r) /\ Len(r) > 0
    BY <2>2, <2>5, TraceTogether
  <2>9. TracesTogether(LastOf(q \o r))
    BY <2>4, <2>5, <2>6, <2>7, <2>8, MergeTogether
  <2>10. QED
    BY <2>1, <2>3, <2>4, <2>9 DEF EventLogWhole, Contiguous
<1>5. ASSUME NEW id \in DOMAIN state.recent, RecordUsage(id), state' = Reported(state, id)
      PROVE  EventLogWhole'
  <2> DEFINE es == <<Plain("usage.calibrated", id)>>
             q == state.events
             r == Numbered(state, es)
             s == state
             p == state'
             base == state.dropped
  <2>1. id \in Ids /\ Pushed(s, p, es)
    BY <1>5, ReportFacts
  <2>2. es \in Seq(Bodies) /\ Len(es) = 1 /\ es[1].kind = "usage.calibrated"
    BY <2>1, PlainBody DEF Kinds
  <2>3. Follows(s, base, base)
    BY <1>2, <1>a DEF Contiguous, Follows
  <2> HIDE DEF es
  <2>4. r \in Seq(Events) /\ Len(r) = 1 /\ r[1].kind = "usage.calibrated"
    BY <1>1, <2>2, NumberedShape
  <2>5. p.events = LastOf(q \o r)
    BY <2>1 DEF Pushed
  <2>6. q \in Seq(Events) /\ TracesTogether(q)
    BY <1>a, <1>2
  <2> HIDE DEF s, p, q, r
  <2>7. Follows(p, base, base)
    BY <1>1, <1>a, <2>1, <2>2, <2>3, PushFollows DEF s, p
  <2>8. Contiguous(p)
    <3>1. p.events \in Seq(Events) /\ p.dropped \in Nat
      BY <1>1 DEF ArenaStates, p
    <3> DEFINE gone == p.dropped - base
               n == Len(p.events)
    <3>2. n \in Nat /\ gone \in Int /\ base + gone = p.dropped
      BY <1>a, <3>1
    <3>3. /\ n <= MaxEvents /\ p.eventSeq = base + gone + n
          /\ \A i \in 1 .. n : p.events[i].seq = base + gone + i
      BY <2>7 DEF Follows
    <3>4. DOMAIN p.events = 1 .. n
      BY <3>1
    <3> HIDE DEF gone, n
    <3>5. p.eventSeq = p.dropped + n /\ \A i \in 1 .. n : p.events[i].seq = p.dropped + i
      BY <3>2, <3>3
    <3>6. QED
      BY <3>3, <3>4, <3>5 DEF Contiguous, n
  <2>9. TracesTogether(r)
    BY <2>4 DEF TracesTogether, Last, Between
  <2>10. TracesTogether(LastOf(q \o r))
    BY <2>4, <2>6, <2>9, MergeTogether
  <2>11. QED
    BY <2>5, <2>8, <2>10 DEF EventLogWhole, Contiguous, p
<1>6. QED
  BY <1>3, <1>4, <1>5, StateSteps

-----------------------------------------------------------------------------
(* Lease events add up.                                                    *)

(* Where in tr there are events of this kind on lease l, and their tokens. *)
EventsOn(tr, kind, l) == {i \in DOMAIN tr : tr[i].kind = kind /\ tr[i].lease = l}
Traced(tr, kind, l) == TotalOver([i \in DOMAIN tr |-> tr[i].tokens], EventsOn(tr, kind, l))

LEMMA TotalAlone ==
  ASSUME NEW count, NEW i, count[i] \in Nat
  PROVE  TotalOver(count, {i}) = count[i] /\ TotalOver(count, {}) = 0
<1>1. TokensOf(count, {i}) = Ranks(i, 0, count[i])
  BY DEF TokensOf
<1>2. TokensOf(count, {}) = {}
  BY DEF TokensOf
<1>3. 0 \in Nat /\ 0 <= count[i] /\ count[i] - 0 = count[i]
  OBVIOUS
<1>4. Cardinality(Ranks(i, 0, count[i])) = count[i]
  BY <1>3, RanksSize
<1>5. QED
  BY <1>1, <1>2, <1>4, FS_EmptySet DEF TotalOver

OnlyEvent(tr, kind, l, i) == \A k : k \in EventsOn(tr, kind, l) <=> k = i

LEMMA TracedOnce ==
  ASSUME NEW tr \in Seq(Bodies), NEW kind, NEW l, NEW i \in 1 .. Len(tr), OnlyEvent(tr, kind, l, i)
  PROVE  Traced(tr, kind, l) = tr[i].tokens
<1> DEFINE tokens == [k \in DOMAIN tr |-> tr[k].tokens]
<1>1. DOMAIN tr = 1 .. Len(tr) /\ tr[i] \in Bodies
  OBVIOUS
<1>2. tokens[i] = tr[i].tokens /\ tokens[i] \in Nat
  BY <1>1 DEF Bodies
<1>3. Traced(tr, kind, l) = TotalOver(tokens, EventsOn(tr, kind, l))
  BY DEF Traced
<1> HIDE DEF tokens
<1>4. EventsOn(tr, kind, l) = {i}
  BY DEF OnlyEvent
<1>5. TotalOver(tokens, {i}) = tokens[i]
  BY <1>2, TotalAlone
<1>6. QED
  BY <1>2, <1>3, <1>4, <1>5

LEMMA TracedBounds ==
  ASSUME NEW tr \in Seq(Bodies), NEW kind, NEW l
  PROVE  /\ Traced(tr, kind, l) \in Nat
         /\ \A i \in EventsOn(tr, kind, l) : tr[i].tokens <= Traced(tr, kind, l)
<1> DEFINE tokens == [k \in DOMAIN tr |-> tr[k].tokens]
           on == EventsOn(tr, kind, l)
<1>1. DOMAIN tr = 1 .. Len(tr) /\ Len(tr) \in Nat /\ \A i \in 1 .. Len(tr) : tr[i] \in Bodies
  OBVIOUS
<1>2. on \in SUBSET (1 .. Len(tr)) /\ IsFiniteSet(on)
  <2>1. on \in SUBSET (1 .. Len(tr)) /\ IsFiniteSet(1 .. Len(tr))
    BY <1>1, FS_Interval DEF EventsOn
  <2>2. QED
    BY <2>1, FS_Subset
<1>3. \A i \in on : tokens[i] = tr[i].tokens /\ tokens[i] \in Nat
  BY <1>1, <1>2 DEF Bodies
<1>4. Traced(tr, kind, l) = TotalOver(tokens, on)
  BY DEF Traced
<1> HIDE DEF tokens, on
<1>5. TotalOver(tokens, on) \in Nat /\ \A i \in on : tokens[i] <= TotalOver(tokens, on)
  BY <1>2, <1>3, TotalNat, TotalBoundsMember
<1>6. QED
  BY <1>3, <1>4, <1>5 DEF on

LEMMA TracedNever ==
  ASSUME NEW tr, NEW kind, NEW l, EventsOn(tr, kind, l) = {}
  PROVE  Traced(tr, kind, l) = 0
BY FS_EmptySet DEF Traced, TotalOver, TokensOf

(* Events of other kinds change nothing.                                   *)
NoneOf(es, kind) == \A i \in 1 .. Len(es) : es[i].kind # kind

LEMMA TracedKept ==
  ASSUME NEW tr \in Seq(Bodies), NEW es \in Seq(Bodies), NEW kind, NEW l,
         NoneOf(es, kind)
  PROVE  Traced(tr \o es, kind, l) = Traced(tr, kind, l)
<1> DEFINE all == tr \o es
           a == Len(tr)
           b == Len(es)
<1>1. \A i \in 1 .. b : es[i].kind # kind
  BY DEF NoneOf
<1>2. /\ all \in Seq(Bodies) /\ a \in Nat /\ b \in Nat /\ Len(all) = a + b
      /\ \A i \in 1 .. a + b :
           /\ i <= a => i \in 1 .. a /\ all[i] = tr[i]
           /\ i > a => i - a \in 1 .. b /\ all[i] = es[i - a]
  <2>1. tr \in Seq(Bodies) /\ es \in Seq(Bodies)
    OBVIOUS
  <2>2. QED
    BY <2>1, JoinShape, ZenonT(60)
<1> HIDE DEF all
<1>3. DOMAIN all = 1 .. a + b /\ DOMAIN tr = 1 .. a
  BY <1>2
<1> HIDE DEF a, b
<1> DEFINE old == [i \in DOMAIN tr |-> tr[i].tokens]
           new == [i \in DOMAIN all |-> all[i].tokens]
           I == EventsOn(tr, kind, l)
           J == EventsOn(all, kind, l)
<1>4. \A i : i \in I <=> i \in 1 .. a /\ tr[i].kind = kind /\ tr[i].lease = l
  BY <1>3 DEF EventsOn
<1>5. \A i : i \in J <=> i \in 1 .. a + b /\ all[i].kind = kind /\ all[i].lease = l
  BY <1>3 DEF EventsOn
<1> HIDE DEF I, J, old, new
<1>6. ASSUME NEW i PROVE i \in I <=> i \in J
  <2>1. ASSUME i \in I PROVE i \in J
    <3>1. i \in 1 .. a + b /\ i <= a
      BY <1>2, <1>4, <2>1
    <3>2. QED
      BY <1>2, <1>4, <1>5, <2>1, <3>1
  <2>2. ASSUME i \in J PROVE i \in I
    <3>1. i \in 1 .. a + b
      BY <1>5, <2>2
    <3>2. CASE i <= a
      BY <1>2, <1>4, <1>5, <2>2, <3>1, <3>2
    <3>3. CASE i > a
      BY <1>1, <1>2, <1>5, <2>2, <3>1, <3>3
    <3>4. QED
      BY <1>2, <3>1, <3>2, <3>3
  <2>3. QED
    BY <2>1, <2>2
<1>7. I = J
  BY <1>6
<1>8. \A i \in I : old[i] = new[i]
  <2>1. SUFFICES ASSUME NEW i \in I PROVE tr[i].tokens = all[i].tokens /\ i \in DOMAIN tr /\ i \in DOMAIN all
    BY DEF old, new
  <2>2. i \in 1 .. a /\ i \in 1 .. a + b /\ i <= a
    BY <1>2, <1>4
  <2>3. QED
    BY <1>2, <1>3, <2>2
<1>9. TokensOf(old, I) = TokensOf(new, I)
  BY <1>8 DEF TokensOf
<1>10. Traced(all, kind, l) = TotalOver(new, J) /\ Traced(tr, kind, l) = TotalOver(old, I)
  BY DEF Traced, I, J, old, new
<1>11. Traced(all, kind, l) = Traced(tr, kind, l)
  BY <1>7, <1>9, <1>10 DEF TotalOver
<1>12. QED
  BY <1>11 DEF all

(* The trace of a request when its leases have been traced.                *)
LEMMA LeaseTrace ==
  ASSUME NEW id \in Ids, NEW es \in Seq(Bodies), NEW fs \in Seq(Bodies),
         NEW shrunk, NEW down, NEW grown, NEW up, NEW shared,
         OnePerLease(es, "lease.reclaimed", id, shrunk, down),
         Grants(fs, id, grown, up, shared)
  PROVE  LET tr == <<Plain("request.started", id)>> \o (es \o fs)
         IN \A l : /\ Traced(tr, "lease.reclaimed", l) = IF l \in shrunk THEN down[l] ELSE 0
                   /\ Traced(tr, "lease.granted", l) \in Nat
                   /\ l \in grown => up[l] <= Traced(tr, "lease.granted", l)
                   /\ l \notin shared =>
                        Traced(tr, "lease.granted", l) = IF l \in grown THEN up[l] ELSE 0
<1> DEFINE start == <<Plain("request.started", id)>>
           both == es \o fs
           tr == start \o both
           a == Len(es)
           b == Len(fs)
<1>1. start \in Seq(Bodies) /\ Len(start) = 1 /\ start[1].kind = "request.started"
  BY PlainBody DEF Kinds
<1> HIDE DEF start
<1>2. /\ both \in Seq(Bodies) /\ a \in Nat /\ b \in Nat /\ Len(both) = a + b
      /\ \A i \in 1 .. a + b :
           /\ i <= a => i \in 1 .. a /\ both[i] = es[i]
           /\ i > a => i - a \in 1 .. b /\ both[i] = fs[i - a]
  BY JoinShape, ZenonT(60)
<1> HIDE DEF both, a, b
<1>3. /\ tr \in Seq(Bodies) /\ Len(tr) = 1 + (a + b)
      /\ \A i \in 1 .. 1 + (a + b) :
           /\ i <= 1 => tr[i] = start[i]
           /\ i > 1 => i - 1 \in 1 .. a + b /\ tr[i] = both[i - 1]
  <2>1. /\ tr \in Seq(Bodies) /\ Len(tr) = Len(start) + Len(both)
        /\ \A i \in 1 .. Len(start) + Len(both) :
             /\ i <= Len(start) => i \in 1 .. Len(start) /\ tr[i] = start[i]
             /\ i > Len(start) => i - Len(start) \in 1 .. Len(both) /\ tr[i] = both[i - Len(start)]
    <3>1. start \in Seq(Bodies) /\ both \in Seq(Bodies)
      BY <1>1, <1>2
    <3>2. QED
      BY <3>1, JoinShape, ZenonT(60)
  <2> HIDE DEF tr
  <2>2. QED
    BY <1>1, <1>2, <2>1
<1> HIDE DEF tr
<1>4. DOMAIN tr = 1 .. 1 + (a + b)
  BY <1>2, <1>3
<1>5. /\ \A j \in 1 .. a : es[j].kind = "lease.reclaimed" /\ es[j].lease \in shrunk
                           /\ es[j].tokens = down[es[j].lease]
      /\ \A l \in shrunk : \E j \in 1 .. a : es[j].lease = l
      /\ \A i, j \in 1 .. a : es[i].lease = es[j].lease => i = j
  BY DEF OnePerLease, a
<1>6. /\ \A j \in 1 .. b : fs[j].kind = "lease.granted"
      /\ \A l \in grown : \E j \in 1 .. b : fs[j].lease = l /\ fs[j].tokens = up[l]
      /\ \A j \in 1 .. b : fs[j].lease \notin shared =>
           /\ fs[j].lease \in grown /\ fs[j].tokens = up[fs[j].lease]
           /\ \A i \in 1 .. b : fs[i].lease = fs[j].lease => i = j
  BY DEF Grants, b
<1>7. \A j \in 1 .. a : 1 + j \in 1 .. Len(tr) /\ tr[1 + j] = es[j]
  <2>1. SUFFICES ASSUME NEW j \in 1 .. a PROVE 1 + j \in 1 .. Len(tr) /\ tr[1 + j] = es[j]
    OBVIOUS
  <2>2. PICK k \in Int : k = 1 + j
    OBVIOUS
  <2>3. k \in 1 .. 1 + (a + b) /\ k > 1 /\ k - 1 = j /\ j \in 1 .. a + b /\ j <= a
    BY <1>2, <2>2
  <2>4. tr[k] = both[j] /\ both[j] = es[j]
    BY <1>2, <1>3, <2>3
  <2>5. QED
    BY <1>3, <2>2, <2>3, <2>4
<1>8. \A j \in 1 .. b : (1 + a) + j \in 1 .. Len(tr) /\ tr[(1 + a) + j] = fs[j]
  <2>1. SUFFICES ASSUME NEW j \in 1 .. b PROVE (1 + a) + j \in 1 .. Len(tr) /\ tr[(1 + a) + j] = fs[j]
    OBVIOUS
  <2>2. PICK k \in Int : k = (1 + a) + j
    BY <1>2
  <2>3. PICK m \in Int : m = a + j
    BY <1>2
  <2>4. /\ k \in 1 .. 1 + (a + b) /\ k > 1 /\ k - 1 = m /\ m \in 1 .. a + b /\ m > a /\ m - a = j
        /\ ~ m <= a
    BY <1>2, <2>2, <2>3
  <2>5. tr[k] = both[m] /\ both[m] = fs[j]
    BY <1>2, <1>3, <2>4
  <2>6. QED
    BY <1>3, <2>2, <2>4, <2>5
<1>9. ASSUME NEW k \in 1 .. Len(tr)
      PROVE  \/ tr[k].kind = "request.started"
             \/ \E j \in 1 .. a : k = 1 + j
             \/ \E j \in 1 .. b : k = (1 + a) + j
  <2>1. CASE k <= 1
    BY <1>1, <1>2, <1>3, <2>1
  <2>2. CASE k > 1 /\ k <= 1 + a
    <3>1. k - 1 \in 1 .. a /\ k = 1 + (k - 1)
      BY <1>2, <1>3, <2>2
    <3>2. QED
      BY <3>1
  <2>3. CASE k > 1 + a
    <3>1. k - (1 + a) \in 1 .. b /\ k = (1 + a) + (k - (1 + a))
      BY <1>2, <1>3, <2>3
    <3>2. QED
      BY <3>1
  <2>4. QED
    BY <1>2, <1>3, <2>1, <2>2, <2>3
<1> DEFINE early(j) == 1 + j
           late(j) == (1 + a) + j
<1>b. /\ \A j \in 1 .. a : early(j) \in 1 .. Len(tr) /\ tr[early(j)] = es[j]
      /\ \A j \in 1 .. b : late(j) \in 1 .. Len(tr) /\ tr[late(j)] = fs[j]
      /\ \A k \in 1 .. Len(tr) : \/ tr[k].kind = "request.started"
                                 \/ \E j \in 1 .. a : k = early(j)
                                 \/ \E j \in 1 .. b : k = late(j)
  BY <1>7, <1>8, <1>9
<1> HIDE DEF early, late
<1>10. ASSUME NEW k \in 1 .. Len(tr), tr[k].kind = "lease.reclaimed"
       PROVE  \E j \in 1 .. a : k = early(j)
  BY <1>6, <1>b, <1>10, SMTT(30)
<1>11. ASSUME NEW k \in 1 .. Len(tr), tr[k].kind = "lease.granted"
       PROVE  \E j \in 1 .. b : k = late(j)
  BY <1>5, <1>b, <1>11
<1>12. \A kind, l, k : k \in EventsOn(tr, kind, l) <=>
                         k \in 1 .. Len(tr) /\ tr[k].kind = kind /\ tr[k].lease = l
  BY <1>3, <1>4 DEF EventsOn
<1>13. ASSUME NEW l PROVE Traced(tr, "lease.reclaimed", l) = IF l \in shrunk THEN down[l] ELSE 0
  <2>1. CASE l \in shrunk
    <3>1. PICK j \in 1 .. a : es[j].lease = l
      BY <1>5, <2>1
    <3>2. ASSUME NEW k \in EventsOn(tr, "lease.reclaimed", l) PROVE k = early(j)
      <4>1. k \in 1 .. Len(tr) /\ tr[k].kind = "lease.reclaimed" /\ tr[k].lease = l
        BY <1>12
      <4>2. PICK i \in 1 .. a : k = early(i)
        BY <1>10, <4>1
      <4>3. es[i].lease = l
        BY <1>b, <4>1, <4>2
      <4>4. QED
        BY <1>5, <3>1, <4>2, <4>3
    <3>3. early(j) \in EventsOn(tr, "lease.reclaimed", l)
      BY <1>5, <1>b, <1>12, <3>1
    <3>4. PICK k \in 1 .. Len(tr) : k = early(j)
      BY <1>b
    <3>5. Traced(tr, "lease.reclaimed", l) = tr[k].tokens
      <4>1. OnlyEvent(tr, "lease.reclaimed", l, k) /\ tr \in Seq(Bodies)
        BY <1>3, <3>2, <3>3, <3>4 DEF OnlyEvent
      <4>2. QED
        BY <4>1, TracedOnce
    <3>6. QED
      BY <1>5, <1>b, <2>1, <3>1, <3>4, <3>5
  <2>2. CASE l \notin shrunk
    <3>1. EventsOn(tr, "lease.reclaimed", l) = {}
      BY <1>5, <1>b, <1>10, <1>12, <2>2, SMTT(30)
    <3>2. QED
      BY <1>3, <2>2, <3>1, TracedNever
  <2>3. QED
    BY <2>1, <2>2
<1>c. ASSUME NEW l PROVE /\ Traced(tr, "lease.granted", l) \in Nat
                         /\ l \in grown => up[l] <= Traced(tr, "lease.granted", l)
  <2>1. /\ Traced(tr, "lease.granted", l) \in Nat
        /\ \A k \in EventsOn(tr, "lease.granted", l) : tr[k].tokens <= Traced(tr, "lease.granted", l)
    BY <1>3, TracedBounds
  <2>2. ASSUME l \in grown
        PROVE  \E k \in EventsOn(tr, "lease.granted", l) : tr[k].tokens = up[l]
    <3>1. PICK j \in 1 .. b : fs[j].lease = l /\ fs[j].tokens = up[l]
      BY <1>6, <2>2
    <3>2. late(j) \in EventsOn(tr, "lease.granted", l) /\ tr[late(j)].tokens = up[l]
      BY <1>6, <1>b, <1>12, <3>1
    <3>3. QED
      BY <3>2
  <2>3. QED
    BY <2>1, <2>2
<1>14. ASSUME NEW l, l \notin shared
       PROVE  Traced(tr, "lease.granted", l) = IF l \in grown THEN up[l] ELSE 0
  <2>1. CASE l \in grown
    <3>1. PICK j \in 1 .. b : fs[j].lease = l
      BY <1>6, <2>1
    <3>2. ASSUME NEW k \in EventsOn(tr, "lease.granted", l) PROVE k = late(j)
      <4>1. k \in 1 .. Len(tr) /\ tr[k].kind = "lease.granted" /\ tr[k].lease = l
        BY <1>12
      <4>2. PICK i \in 1 .. b : k = late(i)
        BY <1>11, <4>1
      <4>3. fs[i].lease = l
        BY <1>b, <4>1, <4>2
      <4>4. QED
        BY <1>6, <1>14, <3>1, <4>2, <4>3
    <3>3. late(j) \in EventsOn(tr, "lease.granted", l)
      BY <1>6, <1>b, <1>12, <3>1
    <3>4. PICK k \in 1 .. Len(tr) : k = late(j)
      BY <1>b
    <3>5. Traced(tr, "lease.granted", l) = tr[k].tokens
      <4>1. OnlyEvent(tr, "lease.granted", l, k) /\ tr \in Seq(Bodies)
        BY <1>3, <3>2, <3>3, <3>4 DEF OnlyEvent
      <4>2. QED
        BY <4>1, TracedOnce
    <3>6. QED
      BY <1>6, <1>14, <1>b, <2>1, <3>1, <3>4, <3>5
  <2>2. CASE l \notin grown
    <3>1. EventsOn(tr, "lease.granted", l) = {}
      BY <1>6, <1>14, <1>b, <1>11, <1>12, <2>2, SMTT(30)
    <3>2. QED
      BY <1>3, <2>2, <3>1, TracedNever
  <2>3. QED
    BY <2>1, <2>2
<1>15. QED
  BY <1>13, <1>c, <1>14 DEF tr, start, both

LEMMA LedgerInit == Init => LedgerFollows /\ LeaseLedger
BY DEF Init, LedgerFollows, LeaseLedger, EmptyState, NoTokens

LEMMA LedgerFollowsStep ==
  ArenaTypes /\ Exclusive /\ LedgerFollows /\ [Next]_vars => LedgerFollows'
<1> SUFFICES ASSUME ArenaTypes, Exclusive, LedgerFollows, [Next]_vars, lock' # None
             PROVE  LedgerFollows'
  BY DEF LedgerFollows
<1> DEFINE Balance(tr, before, after, shared) ==
             \A l \in LeaseIds :
               LET traced == Traced(tr, "lease.granted", l) - Traced(tr, "lease.reclaimed", l)
                   change == after[l] - before[l]
               IN traced >= change /\ (l \notin shared => traced = change)
<1>1. None \notin Threads /\ state \in ArenaStates
  BY ArenaAssumption DEF ArenaTypes
<1>2. \A kind, l : /\ TracedTokens(kind, l) = Traced(trace, kind, l)
                   /\ TracedTokens(kind, l)' = Traced(trace', kind, l)
  BY DEF TracedTokens, Traced, EventsOn
<1>3. CASE /\ lock \in Threads /\ lock' = lock /\ UNCHANGED <<state, txn, leases, trace>>
           /\ pc'[lock] = pc[lock] /\ call'[lock] = call[lock]
  BY <1>1, <1>2, <1>3 DEF LedgerFollows
<1>4. ASSUME NEW t \in Threads, Begin(t), lock' = t, UNCHANGED state, pc'[t] = "leases"
      PROVE  LedgerFollows'
  <2>1. PICK id \in Ids :
          /\ call'[t] = Request(id, call[t].model) /\ txn' = Begun(state, id)
          /\ trace' = <<Plain("request.started", id)>>
    BY <1>4, BeginStep
  <2>2. txn'.activeLeases = state.activeLeases
    BY <1>1, <2>1, BeginEffect
  <2>3. call'[t].id = id
    BY <2>1 DEF Request
  <2>4. QED
    BY <1>4, <2>1, <2>2, <2>3 DEF LedgerFollows
<1>5. ASSUME NEW t \in Threads, lock = t, pc[t] \in Inside \ {"leases"}
      PROVE  Balance(trace, state.activeLeases, txn.activeLeases, SharedIds(leases)) /\ trace \in Seq(Bodies)
  BY <1>1, <1>2, <1>5 DEF LedgerFollows, Exclusive
<1>6. ASSUME NEW t \in Threads, lock = t, lock' = t, UNCHANGED <<state, call>>,
             pc'[t] # "leases",
             Balance(trace', state.activeLeases, txn'.activeLeases, SharedIds(leases'))
      PROVE  LedgerFollows'
  BY <1>2, <1>6 DEF LedgerFollows
<1>7. ASSUME NEW t \in Threads, NEW es \in Seq(Bodies), lock = t, pc[t] \in Inside \ {"leases"},
             txn'.activeLeases = txn.activeLeases, trace' = trace \o es, leases' = leases,
             NoneOf(es, "lease.granted"), NoneOf(es, "lease.reclaimed")
      PROVE  Balance(trace', state.activeLeases, txn'.activeLeases, SharedIds(leases'))
  <2>1. Balance(trace, state.activeLeases, txn.activeLeases, SharedIds(leases)) /\ trace \in Seq(Bodies)
    BY <1>5, <1>7
  <2>2. \A l : /\ Traced(trace \o es, "lease.granted", l) = Traced(trace, "lease.granted", l)
               /\ Traced(trace \o es, "lease.reclaimed", l) = Traced(trace, "lease.reclaimed", l)
    BY <1>7, <2>1, TracedKept
  <2>3. QED
    BY <1>7, <2>1, <2>2
<1>8. ASSUME NEW t \in Threads, lock = t, lock' = t, UNCHANGED <<state, call>>,
             NEW next \in LeaseOutcomes, TraceLeases(t, next), pc[t] = "leases", pc'[t] = "modules"
      PROVE  LedgerFollows'
  <2> DEFINE id == call[t].id
             before == txn.activeLeases
             after == KeepLast(next)
             shared == SharedIds(next)
             shrunk == {l \in LeaseIds : Shrunk(l, after)}
             grown == {l \in LeaseIds : after[l] > before[l]}
             down == [l \in LeaseIds |-> before[l] - after[l]]
             up == [l \in LeaseIds |-> after[l] - before[l]]
  <2>1. PICK es \in Seq(Bodies), fs \in Seq(Bodies) :
          /\ OnePerLease(es, "lease.reclaimed", id, shrunk, down)
          /\ Grants(fs, id, grown, up, shared)
          /\ after \in [LeaseIds -> Nat] /\ leases' = next
          /\ txn'.activeLeases = after
          /\ trace' = trace \o (es \o fs)
    BY <1>8, TraceLeasesEffect, ZenonT(60)
  <2>2. before = state.activeLeases /\ trace = <<Plain("request.started", id)>>
    BY <1>1, <1>8 DEF LedgerFollows
  <2>3. id \in Ids
    BY <1>1, <1>8 DEF ArenaTypes, Inside, Requests
  <2>4. before \in [LeaseIds -> Nat]
    BY <1>1, <2>2 DEF ArenaStates
  <2>5. \A l \in LeaseIds : /\ l \in shrunk <=> before[l] > after[l]
                            /\ l \in grown <=> after[l] > before[l]
                            /\ down[l] = before[l] - after[l] /\ up[l] = after[l] - before[l]
    BY DEF Shrunk
  <2> HIDE DEF id, before, after, shared, shrunk, grown, down, up
  <2>6. \A l : /\ Traced(trace', "lease.reclaimed", l) = IF l \in shrunk THEN down[l] ELSE 0
               /\ Traced(trace', "lease.granted", l) \in Nat
               /\ l \in grown => up[l] <= Traced(trace', "lease.granted", l)
               /\ l \notin shared =>
                    Traced(trace', "lease.granted", l) = IF l \in grown THEN up[l] ELSE 0
    BY <2>1, <2>2, <2>3, LeaseTrace
  <2>7. ASSUME NEW l \in LeaseIds
        PROVE  LET traced == Traced(trace', "lease.granted", l) - Traced(trace', "lease.reclaimed", l)
                   change == after[l] - before[l]
               IN traced >= change /\ (l \notin shared => traced = change)
    <3>1. before[l] \in Nat /\ after[l] \in Nat
      BY <2>1, <2>4
    <3>2. Traced(trace', "lease.reclaimed", l) = IF before[l] > after[l] THEN before[l] - after[l] ELSE 0
      BY <2>5, <2>6
    <3>3. PICK granted \in Nat : granted = Traced(trace', "lease.granted", l)
      BY <2>6
    <3>4. /\ after[l] > before[l] => after[l] - before[l] <= granted
          /\ l \notin shared =>
               granted = IF after[l] > before[l] THEN after[l] - before[l] ELSE 0
      BY <2>5, <2>6, <3>3
    <3>5. PICK reclaimed \in Nat : /\ reclaimed = Traced(trace', "lease.reclaimed", l)
                                  /\ reclaimed = IF before[l] > after[l] THEN before[l] - after[l] ELSE 0
      BY <3>1, <3>2
    <3>6. /\ granted - reclaimed >= after[l] - before[l]
          /\ l \notin shared => granted - reclaimed = after[l] - before[l]
      BY <3>1, <3>4, <3>5
    <3>7. QED
      BY <3>3, <3>5, <3>6
  <2>8. Balance(trace', state.activeLeases, txn'.activeLeases, SharedIds(leases'))
    BY <2>1, <2>2, <2>7 DEF before, after, shared
  <2>9. QED
    BY <1>6, <1>8, <2>8
<1>9. ASSUME NEW t \in Threads, lock = t, lock' = t, UNCHANGED <<state, call>>,
             NEW n \in 0 .. MaxCompressed, Compress(t, n), pc[t] = "modules", pc'[t] = "publish"
      PROVE  LedgerFollows'
  <2>1. PICK es \in Seq(Bodies) :
          /\ \A i \in 1 .. Len(es) : es[i].kind = "chunk.compressed"
          /\ txn'.activeLeases = txn.activeLeases /\ trace' = trace \o es /\ leases' = leases
    BY <1>9, CompressStep DEF Compress
  <2>2. NoneOf(es, "lease.granted") /\ NoneOf(es, "lease.reclaimed")
    BY <2>1 DEF NoneOf
  <2>3. Balance(trace', state.activeLeases, txn'.activeLeases, SharedIds(leases'))
    BY <1>7, <1>9, <2>1, <2>2 DEF Inside
  <2>4. QED
    BY <1>6, <1>9, <2>3
<1>10. ASSUME NEW t \in Threads, lock = t, lock' = t, UNCHANGED <<state, call>>,
              Publish(t), pc[t] = "publish", pc'[t] = "commit"
       PROVE  LedgerFollows'
  <2> DEFINE prepared == <<Plain("request.prepared", call[t].id)>>
             published == <<Plain("snapshot.published", call[t].id)>>
             es == prepared \o published
  <2>1. /\ call[t] \in Requests(Ids) /\ txn \in ArenaStates /\ leases \in Seq(Leases)
        /\ txn' = Published(txn, call[t], leases) /\ leases' = leases
        /\ trace' = trace \o es
        /\ prepared \in Seq(Bodies) /\ published \in Seq(Bodies)
    BY <1>10, PublishStep
  <2>2. txn'.activeLeases = txn.activeLeases
    BY <2>1, PublishEffect
  <2>3. /\ es \in Seq(Bodies) /\ Len(es) = 2
        /\ es[1].kind = "request.prepared" /\ es[2].kind = "snapshot.published"
    BY <2>1 DEF Plain, Event
  <2> HIDE DEF es
  <2>4. NoneOf(es, "lease.granted") /\ NoneOf(es, "lease.reclaimed")
    BY <2>3 DEF NoneOf
  <2>5. Balance(trace', state.activeLeases, txn'.activeLeases, SharedIds(leases'))
    BY <1>7, <1>10, <2>1, <2>2, <2>3, <2>4 DEF Inside
  <2>6. QED
    BY <1>6, <1>10, <2>5
<1>11. QED
  BY <1>3, <1>4, <1>8, <1>9, <1>10, TxnSteps

LEMMA LeaseLedgerStep ==
  ArenaTypes /\ Exclusive /\ TxnFollows /\ LedgerFollows /\ LeaseLedger /\ [Next]_vars
  => LeaseLedger'
<1> SUFFICES ASSUME ArenaTypes, Exclusive, TxnFollows, LedgerFollows, LeaseLedger, [Next]_vars
             PROVE  LeaseLedger'
  OBVIOUS
<1>1. None \notin Threads /\ state \in ArenaStates
  BY ArenaAssumption DEF ArenaTypes
<1>2. CASE UNCHANGED <<state, history, ledger, repeated>>
  BY <1>2 DEF LeaseLedger
<1>3. ASSUME NEW t \in Threads, Commit(t), pc[t] = "commit", lock = t PROVE LeaseLedger'
  <2>1. txn \in ArenaStates /\ state'.activeLeases = txn.activeLeases
    BY <1>3, CommitFacts
  <2>2. \A l \in LeaseIds :
          LET traced == TracedTokens("lease.granted", l) - TracedTokens("lease.reclaimed", l)
              change == txn.activeLeases[l] - state.activeLeases[l]
          IN traced >= change /\ (l \notin SharedIds(leases) => traced = change)
    BY <1>1, <1>3 DEF LedgerFollows
  <2>3. ledger' = [l \in LeaseIds |->
          ledger[l] + TracedTokens("lease.granted", l) - TracedTokens("lease.reclaimed", l)]
    BY <1>3 DEF Commit
  <2>4. repeated' = repeated \cup SharedIds(leases)
    BY <1>3 DEF Commit
  <2>5. /\ state.activeLeases \in [LeaseIds -> Nat] /\ txn.activeLeases \in [LeaseIds -> Nat]
        /\ trace \in Seq(Bodies) /\ ledger \in [LeaseIds -> Int]
    BY <1>1, <1>3, <2>1 DEF ArenaStates, ArenaTypes, Exclusive
  <2>6. ASSUME NEW l \in LeaseIds
        PROVE  /\ ledger'[l] >= txn.activeLeases[l]
               /\ l \notin repeated' => ledger'[l] = txn.activeLeases[l]
    <3>1. TracedTokens("lease.granted", l) \in Nat /\ TracedTokens("lease.reclaimed", l) \in Nat
      BY <2>5, TracedNat
    <3>2. state.activeLeases[l] \in Nat /\ txn.activeLeases[l] \in Nat /\ ledger[l] \in Int
      BY <2>5
    <3>3. ledger'[l] = ledger[l] + TracedTokens("lease.granted", l)
                         - TracedTokens("lease.reclaimed", l)
      BY <2>3
    <3>4. /\ ledger[l] >= state.activeLeases[l]
          /\ l \notin repeated => ledger[l] = state.activeLeases[l]
      BY DEF LeaseLedger
    <3>5. ledger'[l] >= txn.activeLeases[l]
      BY <2>2, <3>1, <3>2, <3>3, <3>4
    <3>6. ASSUME l \notin repeated' PROVE ledger'[l] = txn.activeLeases[l]
      BY <2>2, <2>4, <3>1, <3>2, <3>3, <3>4, <3>6
    <3>7. QED
      BY <3>5, <3>6
  <2>7. QED
    BY <2>1, <2>6 DEF LeaseLedger
<1>4. ASSUME NEW id \in DOMAIN state.recent, RecordUsage(id), state' = Reported(state, id)
      PROVE  LeaseLedger'
  <2>1. state'.activeLeases = state.activeLeases
    BY <1>4, ReportFacts
  <2>2. ledger' = ledger /\ repeated' = repeated
    BY <1>4 DEF RecordUsage
  <2>3. QED
    BY <2>1, <2>2 DEF LeaseLedger
<1>5. QED
  BY <1>2, <1>3, <1>4, StateSteps

-----------------------------------------------------------------------------
(* The theorems.                                                           *)

ArenaInvariant ==
  /\ ArenaTypes /\ Exclusive /\ TxnFollows
  /\ LogFollows /\ EventLogWhole
  /\ LedgerFollows /\ LeaseLedger
  /\ RecentPrepared /\ RecentMatched /\ PreparedInOrder /\ KnownUntilFull
  /\ CalibrateOncePerPrepare /\ CalibratesPreparedModel
  /\ NoSampleLost /\ SnapshotOfNewest

(* What the arena keeps, between the steps of any threads: the types, one  *)
(* holder of the mutex at a time, what its transaction and its trace have  *)
(* to do with the state they started from, and what history the state is   *)
(* that of.  The properties below follow from it; only the conjunction of  *)
(* all these parts is inductive.                                           *)
THEOREM ArenaInvariantAlways == Spec => []ArenaInvariant
<1>1. Init => ArenaInvariant
  BY TypesInit, TxnFollowsInit, LogFollowsInit, EventLogInit, LedgerInit, RecentPreparedInit,
     QueueInit, CalibratedInit, NoSampleLostInit, SnapshotInit DEF ArenaInvariant
<1>2. ArenaInvariant /\ [Next]_vars => ArenaInvariant'
  <2>1. SUFFICES ASSUME ArenaInvariant, [Next]_vars PROVE ArenaInvariant'
    OBVIOUS
  <2>2. ArenaTypes' /\ Exclusive'
    BY <2>1, TypesStep DEF ArenaInvariant
  <2>3. TxnFollows'
    BY <2>1, TxnFollowsStep DEF ArenaInvariant
  <2>4. LogFollows' /\ EventLogWhole'
    BY <2>1, <2>2, LogFollowsStep, EventLogStep DEF ArenaInvariant
  <2>5. LedgerFollows' /\ LeaseLedger'
    BY <2>1, LedgerFollowsStep, LeaseLedgerStep DEF ArenaInvariant
  <2>6. RecentPrepared' /\ RecentMatched' /\ PreparedInOrder' /\ KnownUntilFull'
    BY <2>1, RecentPreparedStep, RecentMatchedStep, PreparedInOrderStep, KnownUntilFullStep
    DEF ArenaInvariant
  <2>7. CalibrateOncePerPrepare' /\ CalibratesPreparedModel'
    BY <2>1, CalibratedStep DEF ArenaInvariant
  <2>8. NoSampleLost' /\ SnapshotOfNewest'
    BY <2>1, NoSampleLostStep, SnapshotStep DEF ArenaInvariant
  <2>9. QED
    BY <2>2, <2>3, <2>4, <2>5, <2>6, <2>7, <2>8 DEF ArenaInvariant
<1>3. QED
  BY <1>1, <1>2, PTL DEF Spec

(* The merge of the transaction's ring into the state's, either of which   *)
(* may have overflowed, counts every lost event once, leaves no gap and    *)
(* keeps the events of a prepare together.                                 *)
THEOREM EventLogWholeAlways == Spec => []EventLogWhole
<1>1. ArenaInvariant => EventLogWhole
  BY DEF ArenaInvariant
<1>2. QED
  BY <1>1, ArenaInvariantAlways, PTL

(* The lease.granted and lease.reclaimed events of all prepares that       *)
(* committed add up to what is active under an id that two leases of one   *)
(* prepare have never shared, and to no less under any id.                 *)
THEOREM LeaseLedgerAlways == Spec => []LeaseLedger
<1>1. ArenaInvariant => LeaseLedger
  BY DEF ArenaInvariant
<1>2. QED
  BY <1>1, ArenaInvariantAlways, PTL

(* No accepted usage report is undone by a prepare that was in flight.     *)
THEOREM NoSampleLostAlways == Spec => []NoSampleLost
<1>1. ArenaInvariant => NoSampleLost
  BY DEF ArenaInvariant
<1>2. QED
  BY <1>1, ArenaInvariantAlways, PTL

(* The snapshot is that of the newest prepare, and current.                *)
THEOREM SnapshotMatchesStateAlways == Spec => []SnapshotMatchesState
<1>1. ArenaInvariant => SnapshotMatchesState
  BY SnapshotMatches DEF ArenaInvariant
<1>2. QED
  BY <1>1, ArenaInvariantAlways, PTL

(* The queue and the map of recent requests agree, and none is forgotten   *)
(* before its time.                                                        *)
THEOREM RecentFaithfulAlways == Spec => []RecentFaithful
<1>1. ArenaInvariant => RecentFaithful
  BY RecentFaithfulParts DEF ArenaInvariant
<1>2. QED
  BY <1>1, ArenaInvariantAlways, PTL

(* A prepare's usage is counted at most once.                              *)
THEOREM CalibrateOncePerPrepareAlways == Spec => []CalibrateOncePerPrepare
<1>1. ArenaInvariant => CalibrateOncePerPrepare
  BY DEF ArenaInvariant
<1>2. QED
  BY <1>1, ArenaInvariantAlways, PTL

(* It is counted for the model the request was last prepared for.          *)
THEOREM CalibratesPreparedModelAlways == Spec => []CalibratesPreparedModel
<1>1. ArenaInvariant => CalibratesPreparedModel
  BY DEF ArenaInvariant
<1>2. QED
  BY <1>1, ArenaInvariantAlways, PTL
=============================================================================
