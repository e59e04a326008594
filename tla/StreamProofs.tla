---------------------------- MODULE StreamProofs ---------------------------
(***************************************************************************)
(* Proofs about Mirror and DebugStream for any number of threads, any      *)
(* capacities and limits and any behaviour of the browser.  The one        *)
(* hypothesis is that of a store no larger than what record_usage fetches  *)
(* from it, without which NotMirrored names an event that is in the store. *)
(***************************************************************************)
EXTENDS DebugStream, CountingProofs

StoreWithinFetch == Capacity <= FetchLimit

-----------------------------------------------------------------------------
(* The inductive invariant of the facade.                                  *)

EventSeqs == Nat \ {0}

MirrorTypes ==
  /\ lock \in Threads \cup {None}
  /\ pc \in [Threads -> {"idle", "locked", "recorded", "publishing"}]
  /\ batch \in [Threads -> Seq(EventSeqs)] /\ captured \in [Threads -> Nat]
  /\ native \in Nat /\ store \in Seq(EventSeqs) /\ dropped \in Nat /\ snapshot \in Nat
  /\ lost \in SUBSET EventSeqs

(* Only the holder of the lock is anywhere or has anything to publish.     *)
Locked ==
  \A t \in Threads :
    /\ pc[t] # "idle" <=> lock = t
    /\ batch[t] # <<>> => pc[t] = "publishing"
    /\ pc[t] = "publishing" => captured[t] = native

Newest == IF store = <<>> THEN 0 ELSE store[Len(store)]

(* The store is in order, and behind a report whose event is not fetched.  *)
StoreShape ==
  /\ StoreInOrder /\ Len(store) <= Capacity /\ Newest <= native /\ snapshot <= native
  /\ \A t \in Threads : pc[t] = "recorded" => native > 1 /\ Newest < native

(* What is to be published is consecutive and newer than the store.        *)
BatchFollows ==
  \A t \in Threads : \A i \in DOMAIN batch[t] :
    /\ batch[t][i] = batch[t][1] + i - 1
    /\ Newest < batch[t][i] /\ batch[t][i] <= native

(* No event is out of sight but the one of a report under way.             *)
NoneMissing ==
  /\ \A e \in 1 .. snapshot : Accounted(e)
  /\ \A e \in 1 .. native :
       \/ Accounted(e)
       \/ \E t \in Threads : e \in Range(batch[t]) \/ (pc[t] = "recorded" /\ e = native)

Counted ==
  lost = {} =>
    /\ lock = None => dropped + Len(store) = native
    /\ \A t \in Threads : lock = t =>
         dropped + Len(store) + Len(batch[t])
           = IF pc[t] = "recorded" THEN native - 1 ELSE native

MirrorInv == MirrorTypes /\ Locked /\ StoreShape /\ BatchFollows /\ NoneMissing /\ Counted

-----------------------------------------------------------------------------
(* The inductive invariant of the stream and the poll.                     *)

StreamTypes ==
  /\ link \in {"down", "looping", "waiting", "writing"}
  /\ cursor \in Nat /\ outbox \in Seq(EventSeqs) /\ seen \in Seq(EventSeqs)
  /\ poll # None => poll \in [after : Nat, items : Seq(EventSeqs)]

(* The browser is never ahead of the store.                                *)
StreamBehind ==
  /\ \A i \in DOMAIN seen : seen[i] <= Newest
  /\ \A i \in DOMAIN outbox : outbox[i] <= Newest

(* The handler is where the browser is.                                    *)
CursorIsSeen ==
  /\ link # "down" => cursor = LastSeen
  /\ link = "writing" <=> outbox # <<>>

(* What the handler has read follows what the browser has, with nothing    *)
(* left out that is still in the store.                                    *)
OutboxFollows ==
  /\ \A i, j \in DOMAIN outbox : i < j => outbox[i] < outbox[j]
  /\ \A i \in DOMAIN outbox :
       /\ LastSeen < outbox[i]
       /\ \A e \in Range(store) : LastSeen < e /\ e <= outbox[i] => e \in Range(outbox)

(* What a poll left out is lost or has been dropped.                       *)
PollHolds ==
  poll # None =>
    \A i \in DOMAIN poll.items :
      /\ poll.items[i] <= Newest
      /\ \A e \in poll.after + 1 .. poll.items[1] - 1 : e \in lost \/ Evicted(e)

StreamInv ==
  /\ MirrorInv /\ StreamTypes
  /\ StreamBehind /\ CursorIsSeen /\ OutboxFollows /\ PollHolds /\ SeenFaithful

-----------------------------------------------------------------------------
(* What a page of the store contains.                                      *)

(* Later(seq): the events of the store after seq, all of them, in order.   *)
LEMMA LaterInOrder ==
  ASSUME store \in Seq(EventSeqs), StoreInOrder, NEW seq \in Nat
  PROVE  /\ Later(seq) \in Seq(EventSeqs)
         /\ Len(Later(seq)) <= Len(store)
         /\ \A k \in 1 .. Len(Later(seq)) : Later(seq)[k] \in Range(store) /\ seq < Later(seq)[k]
         /\ \A k, n \in 1 .. Len(Later(seq)) : k < n => Later(seq)[k] < Later(seq)[n]
         /\ \A e \in Range(store) :
              seq < e => \E k \in 1 .. Len(Later(seq)) : Later(seq)[k] = e
<1> DEFINE I == {i \in DOMAIN store : store[i] > seq}
           later == Later(seq)
<1>1. later = Selected(store, I)
  BY DEF Later
<1>2. I \in SUBSET (DOMAIN store)
  OBVIOUS
<1>3. /\ later \in Seq(EventSeqs) /\ Len(later) <= Len(store)
      /\ \A k \in 1 .. Len(later) :
           \E i \in I :
             /\ later[k] = store[i]
             /\ \A n \in 1 .. Len(later) : k < n => \E j \in I : i < j /\ later[n] = store[j]
      /\ \A i \in I : \E k \in 1 .. Len(later) : later[k] = store[i]
  <2> HIDE DEF I, later
  <2>1. QED
    BY <1>1, <1>2, SelectedInOrder, ZenonT(60)
<1>4. \A i \in I : store[i] \in Range(store) /\ seq < store[i]
  BY DEF Range, EventSeqs
<1>5. \A i, j \in I : i < j => store[i] < store[j]
  BY DEF StoreInOrder
<1>6. ASSUME NEW e \in Range(store), seq < e
      PROVE  \E i \in I : store[i] = e
  BY <1>6 DEF Range, EventSeqs
<1> HIDE DEF I, later
<1>7. \A k \in 1 .. Len(later) : later[k] \in Range(store) /\ seq < later[k]
  BY <1>3, <1>4
<1>8. \A k, n \in 1 .. Len(later) : k < n => later[k] < later[n]
  BY <1>3, <1>5
<1>9. \A e \in Range(store) : seq < e => \E k \in 1 .. Len(later) : later[k] = e
  BY <1>3, <1>6
<1>10. QED
  BY <1>3, <1>7, <1>8, <1>9 DEF later

(* events_after: no page skips an event of the store, and a page that is   *)
(* not full reaches the newest.                                            *)
LEMMA PageInOrder ==
  ASSUME store \in Seq(EventSeqs), StoreInOrder, NEW seq \in Nat, NEW limit \in Nat \ {0}
  PROVE  /\ EventsAfter(seq, limit) \in Seq(EventSeqs)
         /\ \A i \in DOMAIN EventsAfter(seq, limit) :
              /\ EventsAfter(seq, limit)[i] \in Range(store)
              /\ seq < EventsAfter(seq, limit)[i]
              /\ \A e \in Range(store) :
                   seq < e /\ e <= EventsAfter(seq, limit)[i]
                     => e \in Range(EventsAfter(seq, limit))
         /\ \A i, j \in DOMAIN EventsAfter(seq, limit) :
              i < j => EventsAfter(seq, limit)[i] < EventsAfter(seq, limit)[j]
         /\ Len(store) <= limit =>
              \A e \in Range(store) : seq < e => e \in Range(EventsAfter(seq, limit))
<1> DEFINE later == Later(seq)
           page == EventsAfter(seq, limit)
           size == IF Len(later) < limit THEN Len(later) ELSE limit
<1>1. /\ later \in Seq(EventSeqs) /\ Len(later) \in Nat /\ Len(later) <= Len(store)
      /\ \A k \in 1 .. Len(later) : later[k] \in Range(store) /\ seq < later[k]
      /\ \A k, n \in 1 .. Len(later) : k < n => later[k] < later[n]
      /\ \A e \in Range(store) : seq < e => \E k \in 1 .. Len(later) : later[k] = e
      /\ \A k \in 1 .. Len(later) : later[k] \in EventSeqs
  <2>1. /\ later \in Seq(EventSeqs) /\ Len(later) <= Len(store)
        /\ \A k \in 1 .. Len(later) : later[k] \in Range(store) /\ seq < later[k]
        /\ \A k, n \in 1 .. Len(later) : k < n => later[k] < later[n]
        /\ \A e \in Range(store) : seq < e => \E k \in 1 .. Len(later) : later[k] = e
    BY LaterInOrder, Zenon
  <2> HIDE DEF later
  <2>2. Len(later) \in Nat /\ \A k \in 1 .. Len(later) : later[k] \in EventSeqs
    BY <2>1
  <2>3. QED
    BY <2>1, <2>2, Zenon
<1>2. page = SubSeq(later, 1, size)
  BY Zenon DEF EventsAfter
<1> HIDE DEF later, page
<1>3. size \in 0 .. Len(later) /\ size <= limit /\ (Len(later) <= limit => size = Len(later))
  BY <1>1
<1> HIDE DEF size
<1>4. /\ page \in Seq(EventSeqs) /\ DOMAIN page = 1 .. size
      /\ \A k \in 1 .. size : page[k] = later[k]
  BY <1>1, <1>2, <1>3
<1>5. \A i \in 1 .. size : page[i] \in Range(store) /\ seq < page[i]
  <2>1. \A i \in 1 .. size : i \in 1 .. Len(later) /\ page[i] = later[i]
    BY <1>1, <1>3, <1>4
  <2>2. QED
    BY <1>1, <2>1
<1>6. ASSUME NEW i \in 1 .. size, NEW e \in Range(store), seq < e, e <= page[i]
      PROVE  e \in Range(page)
  <2>1. PICK k \in 1 .. Len(later) : later[k] = e
    BY <1>1, <1>6
  <2>2. k <= size
    <3>1. i \in 1 .. Len(later) /\ i <= size
      BY <1>3, <1>1
    <3>2. ~(later[i] < e)
      <4>1. later[i] \in Nat /\ e \in Nat
        BY <1>1, <2>1, <3>1 DEF EventSeqs
      <4>2. QED
        BY <1>6, <1>4, <4>1
    <3>3. ~(i < k)
      BY <1>1, <2>1, <3>1, <3>2
    <3>4. QED
      BY <3>1, <3>3, <1>3, <1>1
  <2>3. QED
    BY <2>1, <2>2, <1>4 DEF Range
<1>7. \A i, j \in 1 .. size : i < j => page[i] < page[j]
  BY <1>1, <1>3, <1>4, SMTT(30)
<1>8. ASSUME Len(store) <= limit, NEW e \in Range(store), seq < e
      PROVE  e \in Range(page)
  <2>1. PICK k \in 1 .. Len(later) : later[k] = e
    BY <1>1, <1>8
  <2>2. size = Len(later)
    BY <1>1, <1>3, <1>8
  <2>3. QED
    BY <2>1, <2>2, <1>4 DEF Range
<1>9. QED
  BY <1>4, <1>5, <1>6, <1>7, <1>8 DEF page
-----------------------------------------------------------------------------
(* The steps of the facade.                                                *)

(* The others wait outside while t holds the lock.                         *)
LEMMA OthersIdle ==
  ASSUME MirrorTypes, Locked, NEW t \in Threads, pc[t] # "idle"
  PROVE  /\ lock = t /\ lock # None
         /\ \A u \in Threads : u # t => pc[u] = "idle" /\ batch[u] = <<>>
         /\ pc[t] # "publishing" => batch[t] = <<>>
BY MirrorAssumption DEF MirrorTypes, Locked

LEMMA NobodyInside ==
  ASSUME MirrorTypes, Locked, lock = None
  PROVE  \A t \in Threads : pc[t] = "idle" /\ batch[t] = <<>>
BY MirrorAssumption DEF MirrorTypes, Locked

LEMMA MirrorInit == Init => MirrorInv
<1> SUFFICES ASSUME Init PROVE MirrorInv
  OBVIOUS
<1> USE DEF Init
<1>1. MirrorTypes
  BY DEF MirrorTypes, EventSeqs
<1>2. Locked
  BY MirrorAssumption DEF Locked
<1>3. StoreShape
  BY MirrorAssumption DEF StoreShape, StoreInOrder, Newest
<1>4. BatchFollows
  BY DEF BatchFollows
<1>5. NoneMissing
  BY DEF NoneMissing
<1>6. Counted
  BY MirrorAssumption DEF Counted
<1>7. QED
  BY <1>1, <1>2, <1>3, <1>4, <1>5, <1>6 DEF MirrorInv

(* A step that emits, publishes and fetches nothing.                       *)
LEMMA AcquireKeeps ==
  ASSUME MirrorInv, NEW t \in Threads, Acquire(t) \/ CallFails(t)
  PROVE  MirrorInv'
<1> USE DEF MirrorInv
<1>1. /\ UNCHANGED <<batch, captured, native, store, dropped, snapshot, lost>>
      /\ \A u \in Threads : batch[u] = <<>> /\ pc[u] \in {"idle", "locked"}
      /\ \A u \in Threads : pc'[u] \in {"idle", "locked"}
  <2>1. CASE Acquire(t)
    <3>1. \A u \in Threads : pc[u] = "idle" /\ batch[u] = <<>>
      BY <2>1, NobodyInside DEF Acquire, LockFree
    <3>2. QED
      BY <2>1, <3>1 DEF Acquire, MirrorTypes
  <2>2. CASE CallFails(t)
    <3>1. /\ \A u \in Threads : u # t => pc[u] = "idle" /\ batch[u] = <<>>
          /\ batch[t] = <<>> /\ pc[t] = "locked"
      BY <2>2, OthersIdle DEF CallFails
    <3>2. QED
      BY <2>2, <3>1 DEF CallFails, Release, MirrorTypes
  <2>3. QED
    BY <2>1, <2>2
<1>2. MirrorTypes'
  BY <1>1 DEF MirrorTypes, Acquire, CallFails, Release
<1>3. Locked'
  <2>1. CASE Acquire(t)
    <3>1. \A u \in Threads : pc[u] = "idle"
      BY <2>1, NobodyInside DEF Acquire, LockFree
    <3>2. QED
      BY <2>1, <3>1, <1>1 DEF Acquire, Locked, MirrorTypes
  <2>2. CASE CallFails(t)
    <3>1. \A u \in Threads : u # t => pc[u] = "idle"
      BY <2>2, OthersIdle DEF CallFails
    <3>2. QED
      BY <2>2, <3>1, <1>1, MirrorAssumption DEF CallFails, Release, Locked, MirrorTypes
  <2>3. QED
    BY <2>1, <2>2
<1>4. StoreShape'
  BY <1>1 DEF StoreShape, StoreInOrder, Newest
<1>5. BatchFollows'
  BY <1>1 DEF BatchFollows
<1>6. NoneMissing'
  BY <1>1 DEF NoneMissing, Accounted, Evicted, Range
<1>7. Counted'
  <2>1. lost = {} => dropped + Len(store) = native
    <3>1. lock = None \/ (lock = t /\ batch[t] = <<>> /\ pc[t] # "recorded")
      BY <1>1, OthersIdle DEF Acquire, LockFree, CallFails
    <3>2. QED
      BY <3>1 DEF Counted, MirrorTypes
  <2>2. QED
    BY <2>1, <1>1 DEF Counted, MirrorTypes
<1>8. QED
  BY <1>2, <1>3, <1>4, <1>5, <1>6, <1>7

(* The numbers from one to another, in order.                              *)
LEMMA NumbersShape ==
  ASSUME NEW from \in EventSeqs, NEW to \in EventSeqs, from <= to
  PROVE  /\ Numbers(from, to) \in Seq(EventSeqs)
         /\ Len(Numbers(from, to)) = to - from + 1
         /\ DOMAIN Numbers(from, to) = 1 .. to - from + 1
         /\ \A i \in 1 .. to - from + 1 :
              Numbers(from, to)[i] = from + i - 1 /\ Numbers(from, to)[i] \in from .. to
         /\ \A e \in from .. to : e \in Range(Numbers(from, to))
<1> DEFINE size == to - from + 1
<1>1. size \in Nat /\ from \in Nat /\ to \in Nat
  BY DEF EventSeqs
<1>2. \A i \in 1 .. size : from + i - 1 \in EventSeqs /\ from + i - 1 \in from .. to
  BY DEF EventSeqs
<1>3. /\ Numbers(from, to) \in Seq(EventSeqs)
      /\ Len(Numbers(from, to)) = size /\ DOMAIN Numbers(from, to) = 1 .. size
      /\ \A i \in 1 .. size : Numbers(from, to)[i] = from + i - 1
  <2> HIDE DEF size
  <2>1. Numbers(from, to) = [i \in 1 .. size |-> from + i - 1]
    BY DEF Numbers, size
  <2>2. size \in Nat /\ \A i \in 1 .. size : from + i - 1 \in EventSeqs
    BY <1>1, <1>2
  <2>3. Numbers(from, to) \in [1 .. size -> EventSeqs]
    BY <2>1, <2>2
  <2>4. Numbers(from, to) \in Seq(EventSeqs) /\ Len(Numbers(from, to)) = size
    BY <2>2, <2>3
  <2>5. QED
    BY <2>1, <2>4
<1>4. ASSUME NEW e \in from .. to
      PROVE  e \in Range(Numbers(from, to))
  <2>1. e - from + 1 \in 1 .. size /\ e = from + (e - from + 1) - 1
    BY <1>1
  <2>2. e - from + 1 \in DOMAIN Numbers(from, to) /\ Numbers(from, to)[e - from + 1] = e
    BY <1>1, <1>3, <2>1
  <2>3. QED
    BY <2>2 DEF Range
<1>5. QED
  BY <1>2, <1>3, <1>4

(* The native arena commits a prepare, whether or not its result arrives.  *)
LEMMA PrepareKeeps ==
  ASSUME MirrorInv, NEW t \in Threads, NEW n \in 1 .. MaxTrace,
         PrepareCommits(t, n) \/ ConversionFails(t, n)
  PROVE  MirrorInv'
<1> USE DEF MirrorInv
<1> DEFINE fresh == Numbers(native + 1, native + n)
<1>1. /\ pc[t] = "locked" /\ batch[t] = <<>> /\ lock = t /\ lock # None
      /\ \A u \in Threads : u # t => pc[u] = "idle" /\ batch[u] = <<>>
  BY OthersIdle DEF PrepareCommits, ConversionFails
<1>2. n \in Nat /\ n > 0 /\ native \in Nat /\ native' = native + n
  BY MirrorAssumption DEF MirrorTypes, PrepareCommits, ConversionFails, Emit
<1>3. /\ fresh \in Seq(EventSeqs) /\ Len(fresh) = n /\ DOMAIN fresh = 1 .. n
      /\ \A i \in 1 .. n : fresh[i] = native + i /\ fresh[i] \in native + 1 .. native + n
      /\ \A e \in native + 1 .. native + n : e \in Range(fresh)
  <2>1. native + 1 \in EventSeqs /\ native + n \in EventSeqs /\ native + 1 <= native + n
    BY <1>2 DEF EventSeqs
  <2>2. (native + n) - (native + 1) + 1 = n /\ \A i \in 1 .. n : native + 1 + i - 1 = native + i
    BY <1>2
  <2>3. QED
    BY <2>1, <2>2, NumbersShape
<1> HIDE DEF fresh
<1>4. UNCHANGED <<store, dropped, snapshot>>
  BY DEF PrepareCommits, ConversionFails
<1>5. \A u \in Threads : pc[u] \in {"idle", "locked"} /\ batch[u] = <<>>
  BY <1>1
<1>6. \A e \in 1 .. native : Accounted(e)
  BY <1>5 DEF NoneMissing, Range
<1>7. lost \subseteq lost'
  BY DEF PrepareCommits, ConversionFails
<1>8. \A e : Accounted(e) => Accounted(e)'
  BY <1>4, <1>7 DEF Accounted, Evicted
<1>9. StoreShape'
  <2>1. \A u \in Threads : pc'[u] # "recorded"
    BY <1>5 DEF PrepareCommits, ConversionFails, Release, MirrorTypes
  <2>2. Newest \in Nat
    BY DEF Newest, MirrorTypes, EventSeqs
  <2>3. Newest <= native + n /\ snapshot <= native + n
    BY <1>2, <2>2 DEF StoreShape, MirrorTypes
  <2>4. QED
    BY <1>2, <1>4, <2>1, <2>3 DEF StoreShape, StoreInOrder, Newest
<1>10. CASE PrepareCommits(t, n)
  <2>1. /\ lock' = lock /\ lost' = lost
        /\ pc' = [pc EXCEPT ![t] = "publishing"]
        /\ batch' = [batch EXCEPT ![t] = fresh]
        /\ captured' = [captured EXCEPT ![t] = native + n]
    BY <1>10 DEF PrepareCommits, fresh
  <2>2. MirrorTypes'
    BY <1>2, <1>3, <1>4, <2>1 DEF MirrorTypes
  <2>3. Locked'
    BY <1>1, <1>2, <2>1 DEF Locked, MirrorTypes
  <2>4. BatchFollows'
    <3>1. \A u \in Threads : u # t => batch'[u] = <<>>
      BY <1>1, <2>1 DEF MirrorTypes
    <3>2. batch'[t] = fresh /\ Newest' = Newest
      BY <1>4, <2>1 DEF MirrorTypes, Newest
    <3>3. Newest \in Nat /\ Newest <= native
      BY DEF Newest, MirrorTypes, EventSeqs, StoreShape
    <3>4. \A i \in 1 .. n : fresh[i] = fresh[1] + i - 1 /\ Newest < fresh[i] /\ fresh[i] <= native + n
      BY <1>2, <1>3, <3>3
    <3>5. ASSUME NEW u \in Threads, NEW i \in DOMAIN batch'[u]
          PROVE  /\ batch'[u][i] = batch'[u][1] + i - 1
                 /\ Newest' < batch'[u][i] /\ batch'[u][i] <= native'
      <4>1. u = t /\ i \in 1 .. n
        BY <1>3, <3>1, <3>2, <3>5
      <4>2. QED
        BY <1>2, <3>2, <3>4, <4>1
    <3>6. QED
      BY <3>5 DEF BatchFollows
  <2>5. NoneMissing'
    <3>1. \A e \in native + 1 .. native + n : e \in Range(batch'[t])
      BY <1>3, <2>1 DEF MirrorTypes
    <3>2. \A e \in 1 .. native' : Accounted(e)' \/ e \in Range(batch'[t])
      BY <1>2, <1>6, <1>8, <3>1
    <3>3. \A e \in 1 .. snapshot' : Accounted(e)'
      BY <1>4, <1>8 DEF NoneMissing
    <3>4. QED
      BY <3>2, <3>3 DEF NoneMissing
  <2>6. Counted'
    <3>1. lost = {} => dropped + Len(store) = native
      BY <1>1 DEF Counted, MirrorTypes
    <3>2. /\ lock' = t /\ lock' # None /\ pc'[t] = "publishing" /\ Len(batch'[t]) = n
          /\ dropped \in Nat /\ Len(store) \in Nat
      BY <1>1, <1>3, <2>1 DEF MirrorTypes
    <3>3. lost' = {} => dropped' + Len(store') + Len(batch'[t]) = native'
      BY <1>2, <1>4, <2>1, <3>1, <3>2
    <3>4. QED
      BY <3>2, <3>3 DEF Counted
  <2>7. QED
    BY <1>9, <2>2, <2>3, <2>4, <2>5, <2>6
<1>11. CASE ConversionFails(t, n)
  <2>1. /\ lock' = None /\ lost' = lost \cup (native + 1 .. native + n)
        /\ pc' = [pc EXCEPT ![t] = "idle"]
        /\ UNCHANGED <<batch, captured>>
    BY <1>11 DEF ConversionFails, Release
  <2>2. MirrorTypes'
    BY <1>2, <1>4, <2>1 DEF MirrorTypes, EventSeqs
  <2>3. Locked'
    BY <1>1, <2>1, MirrorAssumption DEF Locked, MirrorTypes
  <2>4. BatchFollows'
    BY <1>5, <2>1 DEF BatchFollows
  <2>5. NoneMissing'
    <3>1. \A e \in native + 1 .. native + n : Accounted(e)'
      BY <2>1 DEF Accounted
    <3>2. \A e \in 1 .. native' : Accounted(e)'
      BY <1>2, <1>6, <1>8, <3>1
    <3>3. \A e \in 1 .. snapshot' : Accounted(e)'
      BY <1>4, <1>8 DEF NoneMissing
    <3>4. QED
      BY <3>2, <3>3 DEF NoneMissing
  <2>6. Counted'
    <3>1. native + 1 \in lost'
      BY <1>2, <2>1
    <3>2. QED
      BY <3>1 DEF Counted
  <2>7. QED
    BY <1>9, <2>2, <2>3, <2>4, <2>5, <2>6
<1>12. QED
  BY <1>10, <1>11

LEMMA UsageRecordedKeeps ==
  ASSUME MirrorInv, NEW t \in Threads, UsageRecorded(t)
  PROVE  MirrorInv'
<1> USE DEF MirrorInv
<1>1. /\ pc[t] = "locked" /\ batch[t] = <<>> /\ lock = t /\ lock # None
      /\ \A u \in Threads : u # t => pc[u] = "idle" /\ batch[u] = <<>>
  BY OthersIdle DEF UsageRecorded
<1>2. /\ native \in Nat /\ native > 0 /\ native' = native + 1
      /\ pc' = [pc EXCEPT ![t] = "recorded"]
      /\ UNCHANGED <<lock, batch, captured, store, dropped, snapshot, lost>>
  BY DEF UsageRecorded, Emit, MirrorTypes
<1>3. \A u \in Threads : batch[u] = <<>> /\ pc[u] # "recorded"
  BY <1>1
<1>4. Newest \in Nat /\ Newest <= native /\ Newest' = Newest /\ snapshot \in Nat
  BY <1>2 DEF Newest, MirrorTypes, EventSeqs, StoreShape
<1>5. MirrorTypes'
  BY <1>2 DEF MirrorTypes
<1>6. Locked'
  BY <1>1, <1>2 DEF Locked, MirrorTypes
<1>7. StoreShape'
  BY <1>2, <1>4 DEF StoreShape, StoreInOrder
<1>8. BatchFollows'
  BY <1>2, <1>3 DEF BatchFollows
<1>9. NoneMissing'
  <2>1. \A e : Accounted(e) => Accounted(e)'
    BY <1>2 DEF Accounted, Evicted
  <2>2. \A e \in 1 .. native : Accounted(e)
    BY <1>3 DEF NoneMissing, Range
  <2>3. pc'[t] = "recorded"
    BY <1>2 DEF MirrorTypes
  <2>4. \A e \in 1 .. native' : Accounted(e)' \/ e = native'
    BY <1>2, <2>1, <2>2
  <2>5. QED
    BY <1>2, <2>1, <2>3, <2>4 DEF NoneMissing
<1>10. Counted'
  <2>1. lost = {} => dropped + Len(store) = native
    BY <1>1 DEF Counted, MirrorTypes
  <2>2. lock' = t /\ lock' # None /\ pc'[t] = "recorded" /\ Len(batch'[t]) = 0
    BY <1>1, <1>2 DEF MirrorTypes
  <2>3. lost' = {} => dropped' + Len(store') + Len(batch'[t]) = native' - 1
    BY <1>2, <2>1, <2>2 DEF MirrorTypes
  <2>4. QED
    BY <2>2, <2>3 DEF Counted
<1>11. QED
  BY <1>5, <1>6, <1>7, <1>8, <1>9, <1>10

(* The newest event of the store is its last one.                          *)
LEMMA NewestIsLast ==
  ASSUME store \in Seq(EventSeqs), StoreInOrder
  PROVE  /\ Newest \in Nat
         /\ store = <<>> => Newest = 0 /\ Range(store) = {}
         /\ store # <<>> => Newest \in Range(store) /\ Newest \in EventSeqs
         /\ \A e \in Range(store) : e \in EventSeqs /\ e <= Newest
<1>1. Len(store) \in Nat /\ DOMAIN store = 1 .. Len(store)
  OBVIOUS
<1>2. CASE store = <<>>
  <2>1. Len(store) = 0
    BY <1>2
  <2>2. Range(store) = {}
    BY <1>1, <2>1 DEF Range
  <2>3. QED
    BY <1>2, <2>2 DEF Newest
<1>3. CASE store # <<>>
  <2>1. Len(store) \in DOMAIN store
    BY <1>1, <1>3
  <2>2. \A i \in DOMAIN store : store[i] \in EventSeqs
    BY <1>1
  <2>3. \A i \in DOMAIN store : store[i] <= store[Len(store)]
    BY <1>1, <2>1, <2>2 DEF StoreInOrder, EventSeqs
  <2>4. Newest = store[Len(store)]
    BY <1>3 DEF Newest
  <2>5. Newest \in EventSeqs /\ Newest \in Nat
    BY <2>1, <2>2, <2>4 DEF EventSeqs
  <2>6. QED
    BY <1>3, <2>1, <2>2, <2>3, <2>4, <2>5 DEF Range
<1>4. QED
  BY <1>2, <1>3

(* record_usage fetches from the event after the newest of the store.      *)
LEMMA NotMirroredIsNext ==
  ASSUME store \in Seq(EventSeqs), StoreInOrder, Len(store) <= Capacity, StoreWithinFetch
  PROVE  NotMirrored = Newest + 1
<1> DEFINE existing == EventsAfter(0, FetchLimit)
<1>1. FetchLimit \in Nat \ {0} /\ Len(store) <= FetchLimit
  <2>1. Capacity \in Nat /\ FetchLimit \in Nat \ {0} /\ Len(store) \in Nat
    BY MirrorAssumption
  <2>2. QED
    BY <2>1 DEF StoreWithinFetch
<1>2. /\ existing \in Seq(EventSeqs)
      /\ \A i \in DOMAIN existing : existing[i] \in Range(store)
      /\ \A i, j \in DOMAIN existing : i < j => existing[i] < existing[j]
      /\ \A e \in Range(store) : 0 < e => e \in Range(existing)
  <2>1. 0 \in Nat
    OBVIOUS
  <2>2. QED
    BY <1>1, <2>1, PageInOrder, Zenon
<1>3. NotMirrored = IF existing = <<>> THEN 1 ELSE existing[Len(existing)] + 1
  BY Zenon DEF NotMirrored
<1> HIDE DEF existing
<1>4. Len(existing) \in Nat /\ DOMAIN existing = 1 .. Len(existing)
  BY <1>2
<1>5. CASE store = <<>>
  <2>1. DOMAIN existing = {}
    BY <1>2, <1>5, NewestIsLast
  <2>2. existing = <<>>
    BY <1>2, <1>4, <2>1
  <2>3. QED
    BY <1>3, <1>5, <2>2, NewestIsLast
<1>6. CASE store # <<>>
  <2>1. Newest \in Range(store) /\ Newest \in Nat /\ 0 < Newest
    BY <1>6, NewestIsLast DEF EventSeqs
  <2>2. PICK k \in DOMAIN existing : existing[k] = Newest
    BY <1>2, <2>1 DEF Range
  <2>3. existing # <<>> /\ Len(existing) \in DOMAIN existing
    BY <1>2, <1>4, <2>2
  <2>4. existing[Len(existing)] \in Nat /\ existing[Len(existing)] <= Newest
    BY <1>2, <2>3, NewestIsLast DEF EventSeqs
  <2>5. Newest <= existing[Len(existing)]
    <3>1. k = Len(existing) \/ k < Len(existing)
      BY <1>4, <2>2
    <3>2. QED
      BY <1>2, <2>1, <2>2, <2>3, <2>4, <3>1
  <2>6. existing[Len(existing)] = Newest
    BY <2>1, <2>4, <2>5
  <2>7. QED
    BY <1>3, <2>3, <2>6
<1>7. QED
  BY <1>5, <1>6

LEMMA FetchFailsKeeps ==
  ASSUME MirrorInv, NEW t \in Threads, FetchFails(t)
  PROVE  MirrorInv'
<1> USE DEF MirrorInv
<1>1. /\ pc[t] = "recorded" /\ batch[t] = <<>> /\ lock = t /\ lock # None
      /\ \A u \in Threads : u # t => pc[u] = "idle" /\ batch[u] = <<>>
  BY OthersIdle DEF FetchFails
<1>2. /\ lock' = None /\ pc' = [pc EXCEPT ![t] = "idle"] /\ lost' = lost \cup {native}
      /\ UNCHANGED <<batch, captured, native, store, dropped, snapshot>>
  BY DEF FetchFails, Release
<1>3. \A u \in Threads : batch[u] = <<>> /\ pc'[u] = "idle"
  BY <1>1, <1>2 DEF MirrorTypes
<1>4. native \in EventSeqs
  BY <1>1 DEF StoreShape, MirrorTypes, EventSeqs
<1>5. MirrorTypes'
  BY <1>2, <1>4 DEF MirrorTypes
<1>6. Locked'
  BY <1>2, <1>3, MirrorAssumption DEF Locked
<1>7. StoreShape'
  BY <1>2, <1>3 DEF StoreShape, StoreInOrder, Newest
<1>8. BatchFollows'
  BY <1>2, <1>3 DEF BatchFollows
<1>9. NoneMissing'
  <2>1. \A e : Accounted(e) => Accounted(e)'
    BY <1>2 DEF Accounted, Evicted
  <2>2. \A e \in 1 .. native : Accounted(e) \/ e = native
    BY <1>3 DEF NoneMissing, Range
  <2>3. Accounted(native)'
    BY <1>2 DEF Accounted
  <2>4. \A e \in 1 .. native : Accounted(e)'
    BY <2>1, <2>2, <2>3, <1>2
  <2>5. QED
    BY <1>2, <2>1, <2>4 DEF NoneMissing
<1>10. Counted'
  BY <1>2 DEF Counted
<1>11. QED
  BY <1>5, <1>6, <1>7, <1>8, <1>9, <1>10

(* The fetch starts after the store or where the native ring starts, and   *)
(* what the limit leaves out counts as lost.                               *)
LEMMA FetchEventsKeeps ==
  ASSUME MirrorInv, StoreWithinFetch, NEW t \in Threads, FetchEvents(t)
  PROVE  MirrorInv'
<1> USE DEF MirrorInv
<1> DEFINE oldest == native - NativeCapacity + 1
           first == IF NotMirrored < oldest THEN oldest ELSE NotMirrored
           last == IF native < first + NativeLimit THEN native ELSE first + NativeLimit - 1
           fetched == Numbers(first, last)
<1>1. /\ pc[t] = "recorded" /\ batch[t] = <<>> /\ lock = t /\ lock # None
      /\ \A u \in Threads : u # t => pc[u] = "idle" /\ batch[u] = <<>>
  BY OthersIdle DEF FetchEvents
<1>2. /\ pc' = [pc EXCEPT ![t] = "publishing"]
      /\ batch' = [batch EXCEPT ![t] = fetched]
      /\ captured' = [captured EXCEPT ![t] = native]
      /\ lost' = lost \cup (last + 1 .. native)
      /\ UNCHANGED <<lock, native, store, dropped, snapshot>>
  BY DEF FetchEvents
<1>3. NotMirrored = Newest + 1
  BY NotMirroredIsNext DEF MirrorTypes, StoreShape
<1>4. Newest \in Nat /\ native \in Nat /\ Newest < native /\ native > 1
  BY <1>1, NewestIsLast DEF StoreShape, MirrorTypes
<1>5. /\ first \in Nat /\ last \in Nat /\ Newest < first /\ first <= last /\ last <= native
      /\ NativeCapacity \in Nat \ {0} /\ NativeLimit \in Nat \ {0}
  <2>1. NativeCapacity \in Nat \ {0} /\ NativeLimit \in Nat \ {0}
    BY MirrorAssumption
  <2>2. first \in Nat /\ Newest < first /\ first <= native
    BY <1>3, <1>4, <2>1
  <2> HIDE DEF first
  <2>3. QED
    BY <2>1, <2>2, <1>4
<1>6. lost' = {} => first = native /\ last = native /\ lost = {} /\ dropped + Len(store) = native - 1
  <2>1. SUFFICES ASSUME lost' = {}
                 PROVE  first = native /\ last = native /\ lost = {}
                        /\ dropped + Len(store) = native - 1
    OBVIOUS
  <2>2. lost = {} /\ last + 1 .. native = {}
    BY <1>2, <2>1
  <2>3. last = native
    <3> HIDE DEF last
    <3>1. ~(last + 1 <= native)
      <4>1. last + 1 <= native => native \in last + 1 .. native
        BY <1>4, <1>5
      <4>2. QED
        BY <2>2, <4>1
    <3>2. QED
      BY <1>4, <1>5, <3>1
  <2>4. Accounted(native - 1)
    <3>1. native - 1 \in 1 .. native /\ native - 1 # native
      BY <1>4
    <3>2. QED
      BY <1>1, <3>1 DEF NoneMissing, Range
  <2>5. Newest = native - 1
    <3>1. CASE native - 1 \in Range(store)
      BY <1>4, <3>1, NewestIsLast DEF MirrorTypes, StoreShape
    <3>2. CASE Evicted(native - 1)
      <4>1. store # <<>> /\ native - 1 < store[1] /\ store[1] \in Range(store)
        BY <3>2 DEF Evicted, Range, MirrorTypes
      <4>2. store[1] \in Nat /\ store[1] <= Newest
        BY <4>1, NewestIsLast DEF MirrorTypes, StoreShape, EventSeqs
      <4>3. QED
        BY <1>4, <4>1, <4>2
    <3>3. QED
      BY <2>2, <2>4, <3>1, <3>2 DEF Accounted
  <2>6. first = native
    BY <1>3, <1>4, <1>5, <2>5
  <2>7. dropped + Len(store) = native - 1
    BY <1>1, <2>2 DEF Counted, MirrorTypes
  <2>8. QED
    BY <2>2, <2>3, <2>6, <2>7
<1> HIDE DEF first, last
<1>7. /\ fetched \in Seq(EventSeqs) /\ Len(fetched) = last - first + 1
      /\ DOMAIN fetched = 1 .. last - first + 1
      /\ \A i \in DOMAIN fetched : fetched[i] = first + i - 1 /\ fetched[i] \in first .. last
      /\ \A e \in first .. last : e \in Range(fetched)
  <2>1. first \in EventSeqs /\ last \in EventSeqs
    BY <1>4, <1>5 DEF EventSeqs
  <2>2. QED
    BY <1>5, <2>1, NumbersShape
<1> HIDE DEF fetched
<1>8. MirrorTypes'
  <2>1. lost' \in SUBSET EventSeqs
    BY <1>2, <1>5 DEF MirrorTypes, EventSeqs
  <2>2. QED
    BY <1>2, <1>7, <2>1 DEF MirrorTypes
<1>9. Locked'
  BY <1>1, <1>2 DEF Locked, MirrorTypes
<1>10. StoreShape'
  <2>1. \A u \in Threads : pc'[u] # "recorded"
    BY <1>1, <1>2 DEF MirrorTypes
  <2>2. QED
    BY <1>2, <2>1 DEF StoreShape, StoreInOrder, Newest
<1>11. BatchFollows'
  <2>1. batch'[t] = fetched /\ \A u \in Threads : u # t => batch'[u] = <<>>
    BY <1>1, <1>2 DEF MirrorTypes
  <2>2. Newest' = Newest /\ native' = native
    BY <1>2 DEF Newest
  <2>3. \A i \in DOMAIN fetched : /\ fetched[i] = fetched[1] + i - 1
                                  /\ Newest < fetched[i] /\ fetched[i] <= native
    BY <1>4, <1>5, <1>7
  <2>4. ASSUME NEW u \in Threads, NEW i \in DOMAIN batch'[u]
        PROVE  /\ batch'[u][i] = batch'[u][1] + i - 1
               /\ Newest' < batch'[u][i] /\ batch'[u][i] <= native'
    <3>1. u = t
      BY <2>1, <2>4
    <3>2. QED
      BY <2>1, <2>2, <2>3, <3>1
  <2>5. QED
    BY <2>4 DEF BatchFollows
<1>12. NoneMissing'
  <2>1. \A e : Accounted(e) => Accounted(e)'
    BY <1>2 DEF Accounted, Evicted
  <2>2. \A e \in 1 .. native : Accounted(e) \/ e = native
    BY <1>1 DEF NoneMissing, Range
  <2>3. Accounted(native)' \/ native \in Range(batch'[t])
    <3>1. batch'[t] = fetched
      BY <1>2 DEF MirrorTypes
    <3>2. CASE last = native
      <4>1. native \in first .. last
        BY <1>4, <1>5, <3>2
      <4>2. QED
        BY <1>7, <3>1, <4>1
    <3>3. CASE last # native
      <4>1. native \in last + 1 .. native
        BY <1>4, <1>5, <3>3
      <4>2. QED
        BY <1>2, <4>1 DEF Accounted
    <3>4. QED
      BY <3>2, <3>3
  <2>4. \A e \in 1 .. native' : Accounted(e)' \/ e \in Range(batch'[t])
    BY <1>2, <2>1, <2>2, <2>3
  <2>5. \A e \in 1 .. snapshot' : Accounted(e)'
    BY <1>2, <2>1 DEF NoneMissing
  <2>6. QED
    BY <2>4, <2>5 DEF NoneMissing
<1>13. Counted'
  <2>1. lock' = t /\ lock' # None /\ pc'[t] = "publishing" /\ batch'[t] = fetched
    BY <1>1, <1>2 DEF MirrorTypes
  <2>2. lost' = {} => dropped' + Len(store') + Len(batch'[t]) = native'
    <3>1. SUFFICES ASSUME lost' = {} PROVE dropped + Len(store) + Len(fetched) = native
      BY <1>2, <2>1
    <3>2. Len(fetched) = 1
      BY <1>4, <1>6, <1>7, <3>1
    <3>3. dropped + Len(store) = native - 1
      BY <1>6, <3>1
    <3>4. QED
      BY <1>4, <3>2, <3>3
  <2>3. QED
    BY <2>1, <2>2 DEF Counted
<1>14. QED
  BY <1>8, <1>9, <1>10, <1>11, <1>12, <1>13
(* What publish_event does to the store, whether or not it is full.        *)
LEMMA StoreMovesOn ==
  ASSUME MirrorInv, NEW t \in Threads, Publish(t)
  PROVE  /\ Newest < Head(batch[t]) /\ Head(batch[t]) <= native /\ Head(batch[t]) \in EventSeqs
         /\ store' \in Seq(EventSeqs) /\ StoreInOrder' /\ Len(store') <= Capacity
         /\ store' # <<>> /\ Newest' = Head(batch[t]) /\ Head(batch[t]) \in Range(store')
         /\ Range(store') \subseteq Range(store) \cup {Head(batch[t])}
         /\ \A e \in Range(store) : e \in Range(store') \/ Evicted(e)'
         /\ \A e \in Nat : Evicted(e) => Evicted(e)'
         /\ dropped' \in Nat /\ dropped' + Len(store') = dropped + Len(store) + 1
<1> USE DEF MirrorInv
<1> DEFINE h == Head(batch[t])
           kept == IF Full THEN Tail(store) ELSE store
           shift == IF Full THEN 1 ELSE 0
<1>1. /\ batch[t] \in Seq(EventSeqs) /\ batch[t] # <<>> /\ h = batch[t][1] /\ 1 \in DOMAIN batch[t]
      /\ h \in EventSeqs
  BY DEF Publish, MirrorTypes
<1>2. Newest < h /\ h <= native
  BY <1>1 DEF BatchFollows
<1>3. /\ store \in Seq(EventSeqs) /\ StoreInOrder /\ Len(store) \in Nat
      /\ Len(store) <= Capacity /\ Capacity \in Nat \ {0}
      /\ DOMAIN store = 1 .. Len(store) /\ dropped \in Nat
  BY MirrorAssumption DEF MirrorTypes, StoreShape
<1>4. /\ kept \in Seq(EventSeqs) /\ Len(kept) = Len(store) - shift /\ shift \in {0, 1}
      /\ Len(kept) \in Nat /\ Len(kept) < Capacity
      /\ \A i \in 1 .. Len(kept) : kept[i] = store[i + shift]
      /\ dropped' = dropped + shift
      /\ shift = 1 => store # <<>>
  <2>1. CASE Full
    <3>1. store # <<>> /\ Len(store) = Capacity
      BY <1>3, <2>1 DEF Full
    <3>2. /\ Tail(store) \in Seq(EventSeqs) /\ Len(Tail(store)) = Len(store) - 1
          /\ \A i \in 1 .. Len(Tail(store)) : Tail(store)[i] = store[i + 1]
      BY <1>3, <3>1
    <3>3. QED
      BY <1>3, <2>1, <3>1, <3>2 DEF Publish
  <2>2. CASE ~Full
    <3>1. kept = store /\ shift = 0
      BY <2>2
    <3>2. dropped' = dropped
      BY <2>2 DEF Publish
    <3>3. Len(store) < Capacity
      <4>1. Len(store) # Capacity
        BY <2>2 DEF Full
      <4>2. Len(store) \in Nat /\ Capacity \in Nat /\ Len(store) <= Capacity
        BY <1>3
      <4>3. QED
        BY <4>1, <4>2
    <3>4. /\ Len(store) - 0 = Len(store) /\ dropped + 0 = dropped
          /\ \A i \in 1 .. Len(store) : store[i] = store[i + 0]
      BY <1>3
    <3> HIDE DEF kept, shift
    <3>5. shift \in {0, 1} /\ ~(shift = 1)
      BY <3>1
    <3>6. QED
      BY <1>3, <3>1, <3>2, <3>3, <3>4, <3>5, Zenon
  <2>3. QED
    BY <2>1, <2>2
<1>5. store' = Append(kept, h)
  BY DEF Publish
<1> HIDE DEF kept, shift, h
<1>6. /\ store' \in Seq(EventSeqs) /\ Len(store') = Len(kept) + 1
      /\ DOMAIN store' = 1 .. Len(kept) + 1
      /\ \A i \in 1 .. Len(kept) : store'[i] = store[i + shift]
      /\ store'[Len(kept) + 1] = h
  BY <1>1, <1>4, <1>5
<1>7. \A i \in 1 .. Len(kept) : i + shift \in DOMAIN store
  BY <1>3, <1>4
<1>8. \A i \in DOMAIN store : store[i] \in Nat /\ store[i] <= Newest /\ store[i] \in Range(store)
  <2>1. \A i \in DOMAIN store : store[i] \in Range(store)
    BY DEF Range
  <2>2. \A e \in Range(store) : e \in EventSeqs /\ e <= Newest
    BY <1>3, NewestIsLast
  <2>3. QED
    BY <2>1, <2>2 DEF EventSeqs
<1>9. Newest \in Nat /\ h \in Nat
  BY <1>1, <1>3, NewestIsLast DEF EventSeqs
<1>10. StoreInOrder'
  <2>1. ASSUME NEW i \in 1 .. Len(kept) + 1, NEW j \in 1 .. Len(kept) + 1, i < j
        PROVE  store'[i] < store'[j]
    <3>1. i \in 1 .. Len(kept) /\ store'[i] = store[i + shift] /\ i + shift \in DOMAIN store
      BY <1>4, <1>6, <1>7, <2>1
    <3>2. CASE j \in 1 .. Len(kept)
      <4>1. store'[j] = store[j + shift] /\ j + shift \in DOMAIN store /\ i + shift < j + shift
        BY <1>4, <1>6, <1>7, <2>1, <3>2
      <4>2. QED
        BY <1>3, <3>1, <4>1 DEF StoreInOrder
    <3>3. CASE j = Len(kept) + 1
      BY <1>2, <1>6, <1>8, <1>9, <3>1, <3>3
    <3>4. QED
      BY <1>4, <3>2, <3>3
  <2>2. QED
    BY <1>6, <2>1 DEF StoreInOrder
<1>11. store' # <<>> /\ Newest' = h /\ h \in Range(store') /\ Len(store') <= Capacity
  <2>1. store' # <<>> /\ Len(store') \in DOMAIN store' /\ store'[Len(store')] = h
    BY <1>4, <1>6
  <2>2. Len(store') <= Capacity
    BY <1>3, <1>4, <1>6
  <2>3. QED
    BY <2>1, <2>2 DEF Newest, Range
<1>12. Range(store') \subseteq Range(store) \cup {h}
  <2>1. ASSUME NEW i \in DOMAIN store'
        PROVE  store'[i] \in Range(store) \cup {h}
    <3>1. i \in 1 .. Len(kept) \/ i = Len(kept) + 1
      BY <1>4, <1>6
    <3>2. QED
      BY <1>6, <1>7, <1>8, <3>1
  <2>2. QED
    BY <2>1 DEF Range
<1>13. ASSUME NEW i \in DOMAIN store
       PROVE  store[i] \in Range(store') \/ (i = 1 /\ store[1] < store'[1])
  <2>1. CASE i - shift \in 1 .. Len(kept)
    <3>1. store'[i - shift] = store[i] /\ i - shift \in DOMAIN store'
      <4>1. i - shift + shift = i
        BY <1>3, <1>4
      <4>2. QED
        BY <1>4, <1>6, <2>1, <4>1, SMTT(30)
    <3>2. QED
      BY <3>1 DEF Range
  <2>2. CASE i - shift \notin 1 .. Len(kept)
    <3>1. i = 1 /\ shift = 1
      BY <1>3, <1>4, <2>2
    <3>2. CASE Len(kept) = 0
      <4>1. store'[1] = h
        BY <1>6, <3>2
      <4>2. QED
        BY <1>2, <1>8, <1>9, <3>1, <4>1
    <3>3. CASE Len(kept) # 0
      <4>1. 1 \in 1 .. Len(kept) /\ store'[1] = store[2] /\ 2 \in DOMAIN store
        BY <1>4, <1>6, <1>7, <3>1, <3>3
      <4>2. 1 \in DOMAIN store /\ 1 < 2
        BY <3>1
      <4>3. store[1] < store[2]
        BY <1>3, <4>1, <4>2 DEF StoreInOrder
      <4>4. QED
        BY <3>1, <4>1, <4>3
    <3>4. QED
      BY <3>2, <3>3
  <2>3. QED
    BY <2>1, <2>2
<1>14. \A e \in Range(store) : e \in Range(store') \/ Evicted(e)'
  BY <1>11, <1>13 DEF Range, Evicted
<1>15. ASSUME NEW e \in Nat, Evicted(e)
       PROVE  Evicted(e)'
  <2>1. store # <<>> /\ e < store[1] /\ 1 \in DOMAIN store
    BY <1>3, <1>15 DEF Evicted
  <2>2. 1 \in DOMAIN store'
    BY <1>4, <1>6
  <2>3. store[1] \in Nat /\ store'[1] \in Nat
    BY <1>6, <1>8, <2>1, <2>2 DEF EventSeqs
  <2>4. store[1] <= store'[1]
    <3>1. CASE store[1] \in Range(store')
      <4>1. PICK i \in DOMAIN store' : store'[i] = store[1]
        BY <3>1 DEF Range
      <4>2. i \in 1 .. Len(kept) \/ i = Len(kept) + 1
        BY <1>4, <1>6
      <4>3. \A k \in DOMAIN store : store[1] <= store[k]
        <5>1. \A k \in DOMAIN store : 1 = k \/ 1 < k
          BY <1>3
        <5>2. QED
          BY <1>3, <1>8, <2>1, <5>1 DEF StoreInOrder
      <4>4. CASE 1 \in 1 .. Len(kept)
        BY <1>6, <1>7, <4>3, <4>4
      <4>5. CASE 1 \notin 1 .. Len(kept)
        <5>1. store'[1] = h
          BY <1>4, <1>6, <4>5
        <5>2. QED
          BY <1>2, <1>8, <1>9, <2>1, <5>1
      <4>6. QED
        BY <4>4, <4>5
    <3>2. CASE store[1] \notin Range(store')
      BY <1>13, <2>1, <2>3, <3>2
    <3>3. QED
      BY <3>1, <3>2
  <2>5. e < store'[1]
    BY <2>1, <2>3, <2>4
  <2>6. QED
    BY <1>11, <2>5 DEF Evicted
<1>16. dropped' \in Nat /\ dropped' + Len(store') = dropped + Len(store) + 1
  BY <1>3, <1>4, <1>6
<1>17. QED
  BY <1>1, <1>2, <1>6, <1>10, <1>11, <1>12, <1>14, <1>15, <1>16 DEF h

(* Publishing appends a newer event, and evicts the oldest of a full store. *)
LEMMA PublishKeeps ==
  ASSUME MirrorInv, NEW t \in Threads, Publish(t)
  PROVE  MirrorInv'
<1> USE DEF MirrorInv
<1> DEFINE h == Head(batch[t])
           rest == Tail(batch[t])
<1>1. /\ pc[t] = "publishing" /\ batch[t] # <<>> /\ lock = t /\ lock # None
      /\ \A u \in Threads : u # t => pc[u] = "idle" /\ batch[u] = <<>>
  BY OthersIdle DEF Publish
<1>2. /\ batch' = [batch EXCEPT ![t] = rest]
      /\ UNCHANGED <<lock, pc, captured, native, snapshot, lost>>
  BY DEF Publish
<1>3. /\ Newest < h /\ h <= native /\ h \in EventSeqs
      /\ store' \in Seq(EventSeqs) /\ StoreInOrder' /\ Len(store') <= Capacity
      /\ Newest' = h /\ h \in Range(store')
      /\ \A e \in Range(store) : e \in Range(store') \/ Evicted(e)'
      /\ \A e \in Nat : Evicted(e) => Evicted(e)'
      /\ dropped' \in Nat /\ dropped' + Len(store') = dropped + Len(store) + 1
  BY StoreMovesOn
<1>4. /\ batch[t] \in Seq(EventSeqs) /\ h = batch[t][1] /\ rest \in Seq(EventSeqs)
      /\ Len(rest) = Len(batch[t]) - 1 /\ Len(rest) \in Nat
      /\ DOMAIN rest = 1 .. Len(rest) /\ DOMAIN batch[t] = 1 .. Len(rest) + 1
      /\ \A i \in 1 .. Len(rest) : rest[i] = batch[t][i + 1]
  BY <1>1 DEF MirrorTypes
<1> HIDE DEF h, rest
<1>5. batch'[t] = rest /\ \A u \in Threads : u # t => batch'[u] = <<>>
  BY <1>1, <1>2 DEF MirrorTypes
<1>6. \A e \in Nat : Accounted(e) => Accounted(e)'
  BY <1>2, <1>3 DEF Accounted
<1>7. MirrorTypes'
  BY <1>2, <1>3, <1>4 DEF MirrorTypes
<1>8. Locked'
  BY <1>1, <1>2, <1>5 DEF Locked
<1>9. StoreShape'
  <2>1. \A u \in Threads : pc'[u] # "recorded"
    BY <1>1, <1>2
  <2>2. QED
    BY <1>2, <1>3, <2>1 DEF StoreShape
<1>10. BatchFollows'
  <2>1. \A i \in 1 .. Len(rest) :
           /\ i + 1 \in DOMAIN batch[t] /\ 2 \in DOMAIN batch[t] /\ rest[1] = batch[t][2]
           /\ 1 \in DOMAIN batch[t]
    BY <1>4
  <2>2. \A i \in DOMAIN batch[t] : batch[t][i] = h + i - 1 /\ batch[t][i] <= native
    BY <1>4 DEF BatchFollows
  <2>3. h \in Nat /\ native \in Nat
    BY <1>3 DEF EventSeqs, MirrorTypes
  <2>4. ASSUME NEW i \in 1 .. Len(rest)
        PROVE  rest[i] = rest[1] + i - 1 /\ h < rest[i] /\ rest[i] <= native
    <3>1. rest[i] = h + (i + 1) - 1 /\ rest[i] <= native
      BY <1>4, <2>1, <2>2
    <3>2. rest[1] = h + 2 - 1
      BY <2>1, <2>2
    <3>3. i \in Int /\ 1 <= i
      BY <1>4
    <3>4. rest[i] = h + i /\ rest[1] = h + 1
      BY <2>3, <3>1, <3>2, <3>3
    <3>5. h + i = h + 1 + i - 1 /\ h < h + i
      BY <2>3, <3>3
    <3>6. QED
      BY <3>1, <3>4, <3>5
  <2>5. ASSUME NEW u \in Threads, NEW i \in DOMAIN batch'[u]
        PROVE  /\ batch'[u][i] = batch'[u][1] + i - 1
               /\ Newest' < batch'[u][i] /\ batch'[u][i] <= native'
    <3>1. u = t /\ i \in 1 .. Len(rest)
      BY <1>4, <1>5, <2>5
    <3>2. QED
      BY <1>2, <1>3, <1>5, <2>4, <3>1
  <2>6. QED
    BY <2>5 DEF BatchFollows
<1>11. NoneMissing'
  <2>1. \A e \in Range(batch[t]) : e = h \/ e \in Range(rest)
    <3>1. ASSUME NEW i \in DOMAIN batch[t], i # 1
          PROVE  batch[t][i] \in Range(rest)
      <4>1. i - 1 \in 1 .. Len(rest) /\ i - 1 + 1 = i
        BY <1>4, <3>1
      <4>2. rest[i - 1] = batch[t][i] /\ i - 1 \in DOMAIN rest
        BY <1>4, <4>1
      <4>3. QED
        BY <4>2 DEF Range
    <3>2. QED
      BY <1>4, <3>1 DEF Range
  <2>2. \A e : e = h => Accounted(e)'
    BY <1>3 DEF Accounted
  <2>3. \A e \in 1 .. native : Accounted(e) \/ e \in Range(batch[t])
    BY <1>1 DEF NoneMissing, Range
  <2>4. \A e \in 1 .. native' : Accounted(e)' \/ e \in Range(batch'[t])
    <3>1. \A e \in 1 .. native : e \in Nat
      OBVIOUS
    <3>2. QED
      BY <1>2, <1>5, <1>6, <2>1, <2>2, <2>3, <3>1
  <2>5. \A e \in 1 .. snapshot' : Accounted(e)'
    BY <1>2, <1>6 DEF NoneMissing
  <2>6. QED
    BY <2>4, <2>5 DEF NoneMissing
<1>12. Counted'
  <2>1. lost = {} => dropped + Len(store) + Len(batch[t]) = native
    BY <1>1 DEF Counted
  <2>2. lost' = {} => dropped' + Len(store') + Len(batch'[t]) = native'
    <3>1. SUFFICES ASSUME dropped + Len(store) + Len(batch[t]) = native
                   PROVE  dropped' + Len(store') + Len(rest) = native
      BY <1>2, <1>5, <2>1
    <3>2. dropped \in Nat /\ Len(store) \in Nat /\ Len(store') \in Nat /\ native \in Nat
      BY <1>3 DEF MirrorTypes
    <3>3. Len(batch[t]) \in Nat /\ Len(rest) = Len(batch[t]) - 1
      BY <1>4
    <3>4. dropped' \in Nat /\ dropped' + Len(store') = dropped + Len(store) + 1
      BY <1>3
    <3>5. PICK a \in Int : a = dropped + Len(store)
      BY <3>2
    <3>6. PICK b \in Int : b = dropped' + Len(store')
      BY <3>2, <3>4
    <3>7. PICK c \in Int : c = Len(batch[t])
      BY <3>3
    <3>8. b = a + 1 /\ a + c = native /\ Len(rest) = c - 1
      BY <3>1, <3>3, <3>4, <3>5, <3>6, <3>7
    <3>9. b + Len(rest) = native
      BY <3>8
    <3>10. QED
      BY <3>6, <3>9
  <2>3. QED
    BY <1>1, <1>2, <2>2 DEF Counted
<1>13. QED
  BY <1>7, <1>8, <1>9, <1>10, <1>11, <1>12

LEMMA PublishSnapshotKeeps ==
  ASSUME MirrorInv, NEW t \in Threads, PublishSnapshot(t)
  PROVE  MirrorInv'
<1> USE DEF MirrorInv
<1>1. /\ pc[t] = "publishing" /\ batch[t] = <<>> /\ lock = t /\ lock # None
      /\ \A u \in Threads : u # t => pc[u] = "idle" /\ batch[u] = <<>>
  BY OthersIdle DEF PublishSnapshot
<1>2. /\ lock' = None /\ pc' = [pc EXCEPT ![t] = "idle"]
      /\ snapshot' = captured[t] /\ captured' = [captured EXCEPT ![t] = 0]
      /\ UNCHANGED <<batch, native, store, dropped, lost>>
  BY DEF PublishSnapshot, Release
<1>3. \A u \in Threads : batch[u] = <<>> /\ pc'[u] = "idle" /\ pc[u] # "recorded"
  BY <1>1, <1>2 DEF MirrorTypes
<1>4. snapshot' = native
  BY <1>1, <1>2 DEF Locked
<1>5. MirrorTypes'
  BY <1>2, <1>4 DEF MirrorTypes
<1>6. Locked'
  BY <1>2, <1>3, MirrorAssumption DEF Locked
<1>7. StoreShape'
  BY <1>2, <1>3, <1>4 DEF StoreShape, StoreInOrder, Newest, MirrorTypes
<1>8. BatchFollows'
  BY <1>2, <1>3 DEF BatchFollows
<1>9. NoneMissing'
  <2>1. \A e : Accounted(e) => Accounted(e)'
    BY <1>2 DEF Accounted, Evicted
  <2>2. \A e \in 1 .. native : Accounted(e)
    BY <1>3 DEF NoneMissing, Range
  <2>3. QED
    BY <1>2, <1>4, <2>1, <2>2 DEF NoneMissing
<1>10. Counted'
  <2>1. lost = {} => dropped + Len(store) = native
    BY <1>1 DEF Counted, MirrorTypes
  <2>2. \A u \in Threads : lock' # u
    BY <1>2, MirrorAssumption
  <2>3. QED
    BY <1>2, <2>1, <2>2 DEF Counted
<1>11. QED
  BY <1>5, <1>6, <1>7, <1>8, <1>9, <1>10

LEMMA MirrorStep ==
  ASSUME MirrorInv, StoreWithinFetch, [Next]_vars
  PROVE  MirrorInv'
<1>1. ASSUME NEW t \in Threads, Step(t)
      PROVE  MirrorInv'
  BY <1>1, AcquireKeeps, UsageRecordedKeeps, FetchEventsKeeps, FetchFailsKeeps, PublishKeeps,
     PublishSnapshotKeeps, PrepareKeeps DEF Step
<1>2. CASE UNCHANGED vars
  BY <1>2 DEF vars, MirrorInv, MirrorTypes, Locked, StoreShape, BatchFollows, NoneMissing, Counted,
              StoreInOrder, Newest, Accounted, Evicted, Range
<1>3. QED
  BY <1>1, <1>2 DEF Next

-----------------------------------------------------------------------------
(* The properties of the facade.                                           *)

(* While nobody is inside, everything is accounted for and counted.        *)
LEMMA MirrorInvComplete == MirrorInv => StoreInOrder /\ MirrorComplete
<1> SUFFICES ASSUME MirrorInv PROVE StoreInOrder /\ MirrorComplete
  OBVIOUS
<1> USE DEF MirrorInv
<1>1. ASSUME lock = None, NEW e \in 1 .. native
      PROVE  Accounted(e)
  BY <1>1, NobodyInside DEF NoneMissing, Range
<1>2. \A t \in Threads : pc[t] = "publishing" => captured[t] >= snapshot
  BY DEF Locked, StoreShape, MirrorTypes
<1>3. QED
  BY <1>1, <1>2 DEF MirrorComplete, NoneMissing, Counted, StoreShape
-----------------------------------------------------------------------------
(* The stream and the poll.                                                *)

(* The store moves forward only: what the browser has and what a handler   *)
(* or a poll has read keeps its place in front of it.                      *)
LEMMA StoreGrows ==
  ASSUME MirrorInv, [Next]_vars
  PROVE  /\ Newest \in Nat /\ Newest <= Newest' /\ lost \subseteq lost'
         /\ \A e \in Nat : Evicted(e) => Evicted(e)'
         /\ \A e \in Range(store') : e \in Range(store) \/ Newest < e
<1>1. Newest \in Nat
  BY NewestIsLast DEF MirrorInv, MirrorTypes, StoreShape
<1>2. CASE store' = store /\ lost \subseteq lost'
  <2>1. Newest' = Newest /\ Range(store') = Range(store)
    BY <1>2 DEF Newest
  <2>2. \A e \in Nat : Evicted(e) => Evicted(e)'
    BY <1>2 DEF Evicted
  <2>3. QED
    BY <1>1, <1>2, <2>1, <2>2
<1>3. ASSUME NEW t \in Threads, Publish(t)
      PROVE  /\ Newest <= Newest' /\ lost \subseteq lost'
             /\ \A e \in Nat : Evicted(e) => Evicted(e)'
             /\ \A e \in Range(store') : e \in Range(store) \/ Newest < e
  <2>1. /\ Newest < Head(batch[t]) /\ Head(batch[t]) \in EventSeqs /\ Newest' = Head(batch[t])
        /\ Range(store') \subseteq Range(store) \cup {Head(batch[t])}
        /\ \A e \in Nat : Evicted(e) => Evicted(e)'
    BY <1>3, StoreMovesOn
  <2>2. lost' = lost
    BY <1>3 DEF Publish
  <2>3. QED
    BY <1>1, <2>1, <2>2 DEF EventSeqs
<1>4. ASSUME NEW t \in Threads, Step(t), ~Publish(t)
      PROVE  store' = store /\ lost \subseteq lost'
  BY <1>4 DEF Step, Acquire, CallFails, UsageRecorded, FetchEvents, FetchFails, PublishSnapshot,
              PrepareCommits, ConversionFails
<1>5. CASE UNCHANGED vars
  BY <1>2, <1>5 DEF vars
<1>6. QED
  BY <1>1, <1>2, <1>3, <1>4, <1>5 DEF Next

(* What is older than the newest event of the store is accounted for, even *)
(* while a thread publishes.                                               *)
LEMMA OlderAccounted ==
  ASSUME MirrorInv, NEW e \in EventSeqs, e < Newest
  PROVE  Accounted(e)
<1>1. Newest \in Nat /\ native \in Nat /\ Newest <= native /\ e \in Nat /\ e >= 1
  BY NewestIsLast DEF MirrorInv, MirrorTypes, StoreShape, EventSeqs
<1>2. e \in 1 .. native /\ e # native
  BY <1>1
<1>3. ASSUME NEW t \in Threads
      PROVE  e \notin Range(batch[t])
  <2>1. \A i \in DOMAIN batch[t] : Newest < batch[t][i] /\ batch[t][i] \in Nat
    BY DEF MirrorInv, BatchFollows, MirrorTypes, EventSeqs
  <2>2. QED
    BY <1>1, <2>1 DEF Range
<1>4. QED
  BY <1>2, <1>3 DEF MirrorInv, NoneMissing

LEMMA LastSeenIsLast ==
  ASSUME seen \in Seq(EventSeqs), SeenInOrder
  PROVE  /\ LastSeen \in Nat
         /\ LastSeen # 0 => LastSeen \in Range(seen)
         /\ \A i \in DOMAIN seen : seen[i] \in EventSeqs /\ seen[i] <= LastSeen
<1>1. Len(seen) \in Nat /\ DOMAIN seen = 1 .. Len(seen)
  OBVIOUS
<1>2. CASE seen = <<>>
  BY <1>1, <1>2 DEF LastSeen
<1>3. CASE seen # <<>>
  <2>1. Len(seen) \in DOMAIN seen /\ \A i \in DOMAIN seen : seen[i] \in EventSeqs
    BY <1>1, <1>3
  <2>2. LastSeen = seen[Len(seen)]
    BY <1>3 DEF LastSeen, Last
  <2>3. \A i \in DOMAIN seen : seen[i] <= seen[Len(seen)]
    BY <1>1, <2>1 DEF SeenInOrder, EventSeqs
  <2>4. QED
    BY <2>1, <2>2, <2>3 DEF Range, EventSeqs
<1>4. QED
  BY <1>2, <1>3

LEMMA StreamInitial == StreamInit => StreamInv
<1> SUFFICES ASSUME StreamInit PROVE StreamInv
  OBVIOUS
<1>1. MirrorInv
  BY MirrorInit DEF StreamInit
<1>2. link = "down" /\ cursor = 0 /\ outbox = <<>> /\ seen = <<>> /\ poll = None /\ store = <<>>
  BY DEF StreamInit, Init
<1>3. StreamTypes
  BY <1>2 DEF StreamTypes, EventSeqs
<1>4. StreamBehind /\ CursorIsSeen /\ OutboxFollows /\ PollHolds
  BY <1>2 DEF StreamBehind, CursorIsSeen, OutboxFollows, PollHolds
<1>5. SeenFaithful
  BY <1>2 DEF SeenFaithful, SeenInOrder, SkippedOnlyDropped, Range
<1>6. QED
  BY <1>1, <1>3, <1>4, <1>5 DEF StreamInv

(* The facade goes on while handlers and polls are at rest.                *)
LEMMA FacadeKeeps ==
  ASSUME StreamInv, StoreWithinFetch, [Next]_vars, UNCHANGED <<serverVars, streamVars, poll>>
  PROVE  StreamInv'
<1> USE DEF StreamInv
<1>1. MirrorInv'
  BY MirrorStep
<1>2. /\ Newest \in Nat /\ Newest <= Newest' /\ lost \subseteq lost'
      /\ \A e \in Nat : Evicted(e) => Evicted(e)'
      /\ \A e \in Range(store') : e \in Range(store) \/ Newest < e
  BY StoreGrows
<1>3. Newest' \in Nat
  BY <1>1, NewestIsLast DEF MirrorInv, MirrorTypes, StoreShape, Newest, StoreInOrder, EventSeqs
<1>4. UNCHANGED <<link, cursor, outbox, seen, poll>> /\ LastSeen' = LastSeen
  BY DEF streamVars, LastSeen
<1>5. LastSeen \in Nat /\ LastSeen <= Newest
  <2>1. /\ LastSeen \in Nat
        /\ LastSeen # 0 => LastSeen \in Range(seen)
    BY LastSeenIsLast DEF StreamTypes, SeenFaithful
  <2>2. \A e \in Range(seen) : e <= Newest
    BY DEF StreamBehind, Range
  <2>3. QED
    BY <1>2, <2>1, <2>2
<1>6. StreamTypes'
  BY <1>4 DEF StreamTypes
<1>7. StreamBehind'
  <2>1. \A i \in DOMAIN seen : seen[i] \in Nat /\ seen[i] <= Newest
    BY DEF StreamBehind, StreamTypes, EventSeqs
  <2>2. \A i \in DOMAIN outbox : outbox[i] \in Nat /\ outbox[i] <= Newest
    BY DEF StreamBehind, StreamTypes, EventSeqs
  <2>3. QED
    BY <1>2, <1>3, <1>4, <2>1, <2>2 DEF StreamBehind
<1>8. CursorIsSeen'
  BY <1>4 DEF CursorIsSeen
<1>9. OutboxFollows'
  <2>1. \A i \in DOMAIN outbox : outbox[i] \in Nat /\ outbox[i] <= Newest
    BY DEF StreamBehind, StreamTypes, EventSeqs
  <2>2. \A e \in Range(store') : e \in EventSeqs
    BY <1>1 DEF MirrorInv, MirrorTypes, Range
  <2>3. ASSUME NEW i \in DOMAIN outbox, NEW e \in Range(store'), LastSeen < e, e <= outbox[i]
        PROVE  e \in Range(outbox)
    <3>1. e \in Range(store)
      BY <1>2, <2>1, <2>2, <2>3 DEF EventSeqs
    <3>2. QED
      BY <2>3, <3>1 DEF OutboxFollows
  <2>4. QED
    BY <1>4, <2>3 DEF OutboxFollows
<1>10. PollHolds'
  <2>1. SUFFICES ASSUME poll # None, NEW i \in DOMAIN poll.items
                 PROVE  /\ poll.items[i] <= Newest'
                        /\ \A e \in poll.after + 1 .. poll.items[1] - 1 : e \in lost' \/ Evicted(e)'
    BY <1>4 DEF PollHolds
  <2>2. poll.after \in Nat /\ poll.items[i] \in Nat /\ poll.items[i] <= Newest
    BY <2>1 DEF PollHolds, StreamTypes, EventSeqs
  <2>3. poll.items[i] <= Newest'
    BY <1>2, <1>3, <2>2
  <2>4. \A e \in poll.after + 1 .. poll.items[1] - 1 : e \in Nat /\ (e \in lost \/ Evicted(e))
    BY <2>1, <2>2 DEF PollHolds
  <2>5. QED
    BY <1>2, <2>3, <2>4
<1>11. SeenFaithful'
  <2>1. \A e \in Range(store') : e \in EventSeqs
    BY <1>1 DEF MirrorInv, MirrorTypes, Range
  <2>2. ASSUME NEW e \in Range(store'), e < LastSeen
        PROVE  e \in Range(seen)
    <3>1. e \in Range(store)
      BY <1>2, <1>5, <2>1, <2>2 DEF EventSeqs
    <3>2. QED
      BY <2>2, <3>1 DEF SeenFaithful, SkippedOnlyDropped
  <2>3. QED
    BY <1>4, <2>2 DEF SeenFaithful, SeenInOrder, SkippedOnlyDropped
<1>12. QED
  BY <1>1, <1>6, <1>7, <1>8, <1>9, <1>10, <1>11

(* Handlers, polls and the server leave the facade alone.                  *)
LEMMA FacadeAtRest ==
  ASSUME MirrorInv, UNCHANGED vars
  PROVE  /\ MirrorInv' /\ Newest' = Newest /\ store' = store /\ lost' = lost
         /\ \A e : Evicted(e)' = Evicted(e)
BY DEF vars, MirrorInv, MirrorTypes, Locked, StoreShape, BatchFollows, NoneMissing, Counted,
       StoreInOrder, Newest, Accounted, Evicted, Range

(* The handler reads a page of what follows the browser.                   *)
LEMMA WaitForEventsKeeps ==
  ASSUME StreamInv, WaitForEvents
  PROVE  StreamInv'
<1> USE DEF StreamInv
<1> DEFINE page == EventsAfter(LastSeen, WaitLimit)
<1>1. /\ MirrorInv' /\ Newest' = Newest /\ store' = store /\ lost' = lost
      /\ \A e : Evicted(e)' = Evicted(e)
  BY FacadeAtRest DEF WaitForEvents
<1>2. /\ link' = "writing" /\ outbox' = page /\ page # <<>>
      /\ UNCHANGED <<cursor, seen, poll>> /\ cursor = LastSeen /\ LastSeen' = LastSeen
  BY DEF WaitForEvents, Ready, CursorIsSeen, LastSeen
<1>3. LastSeen \in Nat
  BY LastSeenIsLast DEF StreamTypes, SeenFaithful
<1>4. /\ page \in Seq(EventSeqs)
      /\ \A i \in DOMAIN page :
           /\ page[i] \in Range(store) /\ LastSeen < page[i]
           /\ \A e \in Range(store) : LastSeen < e /\ e <= page[i] => e \in Range(page)
      /\ \A i, j \in DOMAIN page : i < j => page[i] < page[j]
  <2>1. store \in Seq(EventSeqs) /\ StoreInOrder /\ WaitLimit \in Nat \ {0}
    BY StreamAssumption DEF MirrorInv, MirrorTypes, StoreShape
  <2>2. QED
    BY <1>3, <2>1, PageInOrder, Zenon
<1> HIDE DEF page
<1>5. StreamTypes'
  BY <1>2, <1>4 DEF StreamTypes
<1>6. StreamBehind'
  <2>1. \A e \in Range(store) : e <= Newest
    BY NewestIsLast DEF MirrorInv, MirrorTypes, StoreShape
  <2>2. \A i \in DOMAIN page : page[i] <= Newest
    BY <1>4, <2>1
  <2>3. QED
    BY <1>1, <1>2, <2>2 DEF StreamBehind
<1>7. CursorIsSeen'
  BY <1>2 DEF CursorIsSeen
<1>8. OutboxFollows'
  BY <1>1, <1>2, <1>4 DEF OutboxFollows
<1>9. PollHolds' /\ SeenFaithful'
  BY <1>1, <1>2 DEF PollHolds, SeenFaithful, SeenInOrder, SkippedOnlyDropped
<1>10. QED
  BY <1>1, <1>5, <1>6, <1>7, <1>8, <1>9

(* The browser receives the next event of the page.                        *)
LEMMA WriteEventKeeps ==
  ASSUME StreamInv, WriteEvent
  PROVE  StreamInv'
<1> USE DEF StreamInv
<1> DEFINE e1 == outbox[1]
           rest == Tail(outbox)
<1>1. /\ MirrorInv' /\ Newest' = Newest /\ store' = store /\ lost' = lost
      /\ \A e : Evicted(e)' = Evicted(e)
  BY FacadeAtRest DEF WriteEvent
<1>2. link = "writing" /\ outbox # <<>> /\ outbox \in Seq(EventSeqs) /\ seen \in Seq(EventSeqs)
  BY DEF WriteEvent, CursorIsSeen, StreamTypes
<1>3. /\ Len(outbox) \in Nat /\ 1 \in DOMAIN outbox /\ DOMAIN outbox = 1 .. Len(outbox)
      /\ e1 \in EventSeqs /\ rest \in Seq(EventSeqs)
      /\ DOMAIN rest = 1 .. Len(outbox) - 1
      /\ \A i \in DOMAIN rest : rest[i] = outbox[i + 1] /\ i + 1 \in DOMAIN outbox
  BY <1>2
<1>4. /\ seen' = Append(seen, e1) /\ cursor' = e1 /\ outbox' = rest /\ poll' = poll
      /\ link' = IF rest = <<>> THEN "looping" ELSE "writing"
  BY <1>2 DEF WriteEvent
<1>5. /\ \A i, j \in DOMAIN outbox : i < j => outbox[i] < outbox[j]
      /\ \A i \in DOMAIN outbox :
           /\ LastSeen < outbox[i] /\ outbox[i] <= Newest /\ outbox[i] \in Nat
           /\ \A e \in Range(store) : LastSeen < e /\ e <= outbox[i] => e \in Range(outbox)
  BY <1>2 DEF OutboxFollows, StreamBehind, EventSeqs
<1>6. /\ LastSeen \in Nat
      /\ LastSeen # 0 => LastSeen \in Range(seen)
      /\ \A i \in DOMAIN seen : seen[i] \in Nat /\ seen[i] <= LastSeen
  BY LastSeenIsLast DEF StreamTypes, SeenFaithful, EventSeqs
<1>7. \A e \in Range(store) : e \in Nat /\ e # 0
  BY DEF MirrorInv, MirrorTypes, EventSeqs, Range
<1> HIDE DEF e1, rest
<1>8. e1 \in Nat /\ LastSeen < e1 /\ e1 <= Newest /\ \A i \in DOMAIN outbox : e1 <= outbox[i]
  <2>1. \A i \in DOMAIN outbox : i = 1 \/ 1 < i
    BY <1>3
  <2>2. QED
    BY <1>3, <1>5, <2>1 DEF e1
<1>9. /\ seen' \in Seq(EventSeqs) /\ DOMAIN seen' = 1 .. Len(seen) + 1 /\ Len(seen) \in Nat
      /\ DOMAIN seen = 1 .. Len(seen)
      /\ seen'[Len(seen) + 1] = e1 /\ \A i \in DOMAIN seen : seen'[i] = seen[i]
  BY <1>2, <1>3, <1>4
<1>10. LastSeen' = e1
  <2>1. seen' # <<>> /\ Len(seen') = Len(seen) + 1
    BY <1>2, <1>3, <1>4
  <2>2. QED
    BY <1>9, <2>1 DEF LastSeen, Last
<1>11. StreamTypes'
  BY <1>3, <1>4, <1>8, <1>9 DEF StreamTypes
<1>12. StreamBehind'
  <2>1. \A i \in DOMAIN seen' : seen'[i] <= Newest
    <3>1. \A i \in DOMAIN seen' : i \in DOMAIN seen \/ i = Len(seen) + 1
      BY <1>9
    <3>2. QED
      BY <1>8, <1>9, <3>1 DEF StreamBehind
  <2>2. \A i \in DOMAIN rest : rest[i] <= Newest
    BY <1>3, <1>5
  <2>3. QED
    BY <1>1, <1>4, <2>1, <2>2 DEF StreamBehind
<1>13. CursorIsSeen'
  BY <1>4, <1>10 DEF CursorIsSeen
<1>14. OutboxFollows'
  <2>1. ASSUME NEW i \in DOMAIN rest, NEW j \in DOMAIN rest, i < j
        PROVE  rest[i] < rest[j]
    <3>1. i + 1 \in DOMAIN outbox /\ j + 1 \in DOMAIN outbox /\ i + 1 < j + 1
      BY <1>3, <2>1
    <3>2. QED
      BY <1>3, <1>5, <3>1
  <2>2. ASSUME NEW i \in DOMAIN rest
        PROVE  e1 < rest[i]
    <3>1. i + 1 \in DOMAIN outbox /\ 1 < i + 1
      BY <1>3
    <3>2. QED
      BY <1>3, <1>5, <3>1 DEF e1
  <2>3. ASSUME NEW i \in DOMAIN rest, NEW e \in Range(store), e1 < e, e <= rest[i]
        PROVE  e \in Range(rest)
    <3>1. e \in Range(outbox)
      BY <1>3, <1>5, <1>6, <1>7, <1>8, <2>3
    <3>2. PICK k \in DOMAIN outbox : outbox[k] = e
      BY <3>1 DEF Range
    <3>3. k # 1 /\ k \in Nat /\ k >= 1
      BY <1>3, <1>7, <1>8, <2>3, <3>2 DEF e1
    <3>4. k - 1 \in DOMAIN rest /\ k - 1 + 1 = k
      BY <1>3, <3>2, <3>3
    <3>5. rest[k - 1] = e
      BY <1>3, <3>2, <3>4
    <3>6. QED
      BY <3>4, <3>5 DEF Range
  <2>4. QED
    BY <1>1, <1>4, <1>10, <2>1, <2>2, <2>3 DEF OutboxFollows
<1>15. PollHolds'
  BY <1>1, <1>4 DEF PollHolds
<1>16. SeenFaithful'
  <2>1. ASSUME NEW i \in DOMAIN seen', NEW j \in DOMAIN seen', i < j
        PROVE  seen'[i] < seen'[j]
    <3>1. i \in DOMAIN seen /\ (j \in DOMAIN seen \/ j = Len(seen) + 1)
      BY <1>9, <2>1
    <3>2. CASE j \in DOMAIN seen
      BY <1>9, <2>1, <3>1, <3>2 DEF SeenFaithful, SeenInOrder
    <3>3. CASE j = Len(seen) + 1
      BY <1>6, <1>8, <1>9, <3>1, <3>3
    <3>4. QED
      BY <3>1, <3>2, <3>3
  <2>2. ASSUME NEW e \in Range(store), e < e1
        PROVE  e \in Range(seen')
    <3>1. e \in Range(seen)
      <4>1. CASE e < LastSeen
        BY <4>1 DEF SeenFaithful, SkippedOnlyDropped
      <4>2. CASE e = LastSeen
        BY <1>6, <1>7, <4>2
      <4>3. CASE LastSeen < e
        <5>1. e \in Range(outbox)
          BY <1>3, <1>5, <1>7, <1>8, <2>2, <4>3 DEF e1
        <5>2. \A k \in DOMAIN outbox : ~(outbox[k] < e1)
          BY <1>5, <1>8
        <5>3. QED
          BY <2>2, <5>1, <5>2 DEF Range
      <4>4. QED
        BY <1>6, <1>7, <4>1, <4>2, <4>3
    <3>2. \A i \in DOMAIN seen : seen[i] \in Range(seen')
      BY <1>9 DEF Range
    <3>3. QED
      BY <3>1, <3>2 DEF Range
  <2>3. QED
    BY <1>1, <1>10, <2>1, <2>2 DEF SeenFaithful, SeenInOrder, SkippedOnlyDropped
<1>17. QED
  BY <1>1, <1>11, <1>12, <1>13, <1>14, <1>15, <1>16

(* What a poll read lately misses nothing that is in the store or lost.    *)
LEMMA PollEventsKeeps ==
  ASSUME StreamInv, PollEvents
  PROVE  StreamInv'
<1> USE DEF StreamInv
<1> DEFINE page == EventsAfter(LastSeen, PollLimit)
<1>1. /\ MirrorInv' /\ Newest' = Newest /\ store' = store /\ lost' = lost
      /\ \A e : Evicted(e)' = Evicted(e)
  BY FacadeAtRest DEF PollEvents
<1>2. /\ poll' = [after |-> LastSeen, items |-> page]
      /\ UNCHANGED <<link, cursor, outbox, seen>> /\ LastSeen' = LastSeen
  BY DEF PollEvents, streamVars, LastSeen
<1>3. LastSeen \in Nat
  BY LastSeenIsLast DEF StreamTypes, SeenFaithful
<1>4. /\ page \in Seq(EventSeqs)
      /\ \A i \in DOMAIN page :
           /\ page[i] \in Range(store) /\ LastSeen < page[i]
           /\ \A e \in Range(store) : LastSeen < e /\ e <= page[i] => e \in Range(page)
      /\ \A i, j \in DOMAIN page : i < j => page[i] < page[j]
  <2>1. store \in Seq(EventSeqs) /\ StoreInOrder /\ PollLimit \in Nat \ {0}
    BY StreamAssumption DEF MirrorInv, MirrorTypes, StoreShape
  <2>2. QED
    BY <1>3, <2>1, PageInOrder, Zenon
<1> HIDE DEF page
<1>5. StreamTypes'
  BY <1>2, <1>3, <1>4 DEF StreamTypes
<1>6. StreamBehind' /\ CursorIsSeen' /\ OutboxFollows' /\ SeenFaithful'
  BY <1>1, <1>2 DEF StreamBehind, CursorIsSeen, OutboxFollows, SeenFaithful, SeenInOrder,
                    SkippedOnlyDropped
<1>7. PollHolds'
  <2>1. SUFFICES ASSUME NEW i \in DOMAIN page
                 PROVE  /\ page[i] <= Newest
                        /\ \A e \in LastSeen + 1 .. page[1] - 1 : e \in lost \/ Evicted(e)
    BY <1>1, <1>2 DEF PollHolds
  <2>2. page[i] <= Newest
    BY <1>4, NewestIsLast DEF MirrorInv, MirrorTypes, StoreShape
  <2>3. /\ 1 \in DOMAIN page /\ page[1] \in Nat /\ page[1] <= Newest /\ LastSeen < page[1]
        /\ Newest \in Nat
    <3>1. 1 \in DOMAIN page
      BY <1>4
    <3>2. page[1] \in Range(store) /\ LastSeen < page[1]
      BY <1>4, <3>1
    <3>3. QED
      BY <3>1, <3>2, NewestIsLast DEF MirrorInv, MirrorTypes, StoreShape, EventSeqs
  <2>4. ASSUME NEW e \in LastSeen + 1 .. page[1] - 1
        PROVE  e \in lost \/ Evicted(e)
    <3>1. e \in EventSeqs /\ LastSeen < e /\ e < page[1] /\ e < Newest
      BY <1>3, <2>3 DEF EventSeqs
    <3>2. Accounted(e)
      BY <3>1, OlderAccounted
    <3>3. e \notin Range(store)
      <4>1. SUFFICES ASSUME e \in Range(store) PROVE FALSE
        OBVIOUS
      <4>2. e \in Range(page)
        BY <1>4, <2>3, <3>1, <4>1 DEF EventSeqs
      <4>3. PICK k \in DOMAIN page : page[k] = e
        BY <4>2 DEF Range
      <4>4. k = 1 \/ 1 < k
        BY <1>4, <4>3
      <4>5. QED
        BY <1>4, <2>3, <3>1, <4>3, <4>4 DEF EventSeqs
    <3>4. QED
      BY <3>2, <3>3 DEF Accounted
  <2>5. QED
    BY <2>2, <2>4
<1>8. QED
  BY <1>1, <1>5, <1>6, <1>7

(* What the handler reads and writes nothing in.                           *)
LEMMA QuietKeeps ==
  ASSUME StreamInv, UNCHANGED vars,
         \/ Start \/ Stop \/ ServeLoopEnds \/ Connect
         \/ CheckShutdown \/ Keepalive \/ Break \/ PollMinimum
  PROVE  StreamInv'
<1> USE DEF StreamInv
<1>1. /\ MirrorInv' /\ Newest' = Newest /\ store' = store /\ lost' = lost
      /\ \A e : Evicted(e)' = Evicted(e)
  BY FacadeAtRest
<1>2. /\ seen' = seen /\ LastSeen' = LastSeen /\ outbox' \in {outbox, <<>>}
      /\ poll' \in {poll, None}
  BY DEF Start, Stop, ServeLoopEnds, Connect, CheckShutdown, Keepalive, Break, PollMinimum,
         streamVars, LastSeen
<1>3. /\ StreamTypes' /\ CursorIsSeen'
  <2>1. LastSeen \in Nat
    BY LastSeenIsLast DEF StreamTypes, SeenFaithful
  <2>2. CASE UNCHANGED streamVars
    BY <1>2, <2>2 DEF streamVars, StreamTypes, CursorIsSeen
  <2>3. CASE Connect
    BY <1>2, <2>1, <2>3 DEF Connect, StreamTypes, CursorIsSeen
  <2>4. CASE CheckShutdown \/ Keepalive
    BY <1>2, <2>4 DEF CheckShutdown, Keepalive, StreamTypes, CursorIsSeen
  <2>5. CASE Break
    BY <1>2, <2>5 DEF Break, StreamTypes, CursorIsSeen
  <2>6. QED
    BY <2>2, <2>3, <2>4, <2>5 DEF Start, Stop, ServeLoopEnds, PollMinimum
<1>4. StreamBehind' /\ OutboxFollows'
  BY <1>1, <1>2 DEF StreamBehind, OutboxFollows
<1>5. PollHolds' /\ SeenFaithful'
  BY <1>1, <1>2 DEF PollHolds, SeenFaithful, SeenInOrder, SkippedOnlyDropped
<1>6. QED
  BY <1>1, <1>3, <1>4, <1>5

LEMMA StreamStep ==
  ASSUME StreamInv, StoreWithinFetch, [StreamNext]_allVars
  PROVE  StreamInv'
<1>1. CASE Next /\ UNCHANGED <<serverVars, streamVars, poll>>
  BY <1>1, FacadeKeeps
<1>2. CASE WaitForEvents
  BY <1>2, WaitForEventsKeeps
<1>3. CASE WriteEvent
  BY <1>3, WriteEventKeeps
<1>4. CASE PollEvents
  BY <1>4, PollEventsKeeps
<1>5. CASE \/ Start \/ Stop \/ ServeLoopEnds \/ Connect
           \/ CheckShutdown \/ Keepalive \/ Break \/ PollMinimum
  <2>1. UNCHANGED vars
    BY <1>5 DEF Start, Stop, ServeLoopEnds, Connect, CheckShutdown, Keepalive, Break, PollMinimum
  <2>2. QED
    BY <1>5, <2>1, QuietKeeps
<1>6. CASE UNCHANGED allVars
  <2>1. UNCHANGED vars /\ UNCHANGED <<serverVars, streamVars, poll>>
    BY <1>6 DEF allVars
  <2>2. QED
    BY <2>1, FacadeKeeps
<1>7. QED
  BY <1>1, <1>2, <1>3, <1>4, <1>5, <1>6 DEF StreamNext, Handler

-----------------------------------------------------------------------------
(* A store that holds no more than record_usage fetches from it stays in   *)
(* order, and each event is in it once, whatever fails in between.         *)
THEOREM StoreInOrderAlways ==
  ASSUME StoreWithinFetch
  PROVE  Spec => []StoreInOrder
<1>1. MirrorInv /\ [Next]_vars => MirrorInv'
  BY MirrorStep
<1>2. QED
  BY <1>1, MirrorInit, MirrorInvComplete, PTL DEF Spec

(* And no snapshot is ahead of its events, nor is any event unaccounted    *)
(* for once the call that emitted it has returned.                         *)
THEOREM MirrorCompleteAlways ==
  ASSUME StoreWithinFetch
  PROVE  Spec => []MirrorComplete
<1>1. MirrorInv /\ [Next]_vars => MirrorInv'
  BY MirrorStep
<1>2. QED
  BY <1>1, MirrorInit, MirrorInvComplete, PTL DEF Spec

(* The inductive invariant of the stream.                                  *)
THEOREM StreamInvariant ==
  ASSUME StoreWithinFetch
  PROVE  StreamSpec => []StreamInv
<1>1. StreamInv /\ [StreamNext]_allVars => StreamInv'
  BY StreamStep
<1>2. QED
  BY <1>1, StreamInitial, PTL DEF StreamSpec

(* The same two properties with the server and its readers around.         *)
THEOREM ServedStoreFaithful ==
  ASSUME StoreWithinFetch
  PROVE  StreamSpec => [](StoreInOrder /\ MirrorComplete)
<1>1. StreamInv => StoreInOrder /\ MirrorComplete
  BY MirrorInvComplete DEF StreamInv
<1>2. QED
  BY <1>1, StreamInvariant, PTL

(* The browser gets events in order, once, and skips none it could have    *)
(* had, however often its connection breaks and whatever the store drops.  *)
THEOREM SeenFaithfulAlways ==
  ASSUME StoreWithinFetch
  PROVE  StreamSpec => []SeenFaithful
<1>1. StreamInv => SeenFaithful
  BY DEF StreamInv
<1>2. QED
  BY <1>1, StreamInvariant, PTL

(* A page answered without reset_required has no gap, although it is read  *)
(* under two holds of the lock.                                            *)
THEOREM NoSilentGapAlways ==
  ASSUME StoreWithinFetch
  PROVE  StreamSpec => []NoSilentGap
<1>1. StreamInv => NoSilentGap
  <2>1. SUFFICES ASSUME StreamInv, poll # None, ~ResetRequired(poll.after), poll.items # <<>>,
                        NEW e \in poll.after + 1 .. Head(poll.items) - 1, poll.after # 0
                 PROVE  e \in lost
    <3>1. ASSUME StreamInv, poll # None, NEW e \in poll.after + 1 .. (poll.after + 1) - 1
          PROVE  FALSE
      BY <3>1 DEF StreamInv, StreamTypes
    <3>2. QED
      BY <3>1 DEF NoSilentGap
  <2>2. /\ poll.after \in Nat /\ poll.items \in Seq(EventSeqs) /\ 1 \in DOMAIN poll.items
        /\ Head(poll.items) = poll.items[1] /\ poll.items[1] \in Nat
    BY <2>1 DEF StreamInv, StreamTypes, EventSeqs
  <2>3. e \in lost \/ Evicted(e)
    BY <2>1, <2>2 DEF StreamInv, PollHolds
  <2>4. ~Evicted(e)
    <3>1. SUFFICES ASSUME store # <<>>, e < store[1] PROVE FALSE
      BY DEF Evicted
    <3>2. store[1] \in Nat
      <4>1. store \in Seq(EventSeqs)
        BY <2>1 DEF StreamInv, MirrorInv, MirrorTypes
      <4>2. store[1] \in EventSeqs
        BY <3>1, <4>1
      <4>3. QED
        BY <4>2 DEF EventSeqs
    <3>3. poll.after < e /\ e \in Nat
      BY <2>1, <2>2
    <3>4. poll.after = store[1] - 1
      BY <2>1, <2>2, <3>1, <3>2, <3>3 DEF ResetRequired
    <3>5. QED
      BY <2>2, <3>1, <3>2, <3>3, <3>4
  <2>5. QED
    BY <2>3, <2>4
<1>2. QED
  BY <1>1, StreamInvariant, PTL
=============================================================================
