------------------------------- MODULE Mirror ------------------------------
(***************************************************************************)
(* The Python facade mirrors the events of the native arena in an          *)
(* observation store (ContextLeaseArena of src/contextlease/runtime.py,    *)
(* ObservationStore of observation.py).  prepare publishes the trace       *)
(* events it gets back; record_usage gets none back and fetches what the   *)
(* store has not seen.  Both hold the lock of the facade, but the store is *)
(* read by others at any time and publishes one event at a time.           *)
(*                                                                         *)
(* An event is its seq; the native ring holds the last NativeCapacity of   *)
(* the events 1 .. native.                                                 *)
(***************************************************************************)
EXTENDS Integers, SequencesExt, Subsequences

CONSTANTS
  Threads,
  Capacity,        \* max_events_per_arena
  NativeCapacity,  \* of the native ring
  FetchLimit,      \* the 10_000 of events_after, in record_usage
  NativeLimit,     \* the default limit of NativeArena.events
  MaxTrace,        \* bound: events of a prepare
  MaxEvents,       \* bound: native events
  None

ASSUME MirrorAssumption ==
  /\ {Capacity, NativeCapacity, FetchLimit, NativeLimit, MaxTrace, MaxEvents} \subseteq Nat \ {0}
  /\ None \notin Threads

VARIABLES
  lock,      \* _prepare_lock
  pc,        \* where each thread is
  batch,     \* events a thread has yet to publish
  captured,  \* what its snapshot has seen: the last event before it
  native,    \* event_seq of the native arena
  store,     \* _events of the arena, by seq
  dropped,   \* _dropped
  snapshot,  \* _snapshots: the last event before it
  lost       \* history: events that a failed call or a limited fetch left out

vars == <<lock, pc, batch, captured, native, store, dropped, snapshot, lost>>

Init ==
  /\ lock = None /\ pc = [t \in Threads |-> "idle"]
  /\ batch = [t \in Threads |-> <<>>] /\ captured = [t \in Threads |-> 0]
  /\ native = 0 /\ store = <<>> /\ dropped = 0 /\ snapshot = 0
  /\ lost = {}

Numbers(from, to) == [i \in 1 .. to - from + 1 |-> from + i - 1]

(* Mutant: prepare publishes without the lock.                             *)
LockIgnored == TRUE

LockFree == lock = None

Acquire(t) ==
  /\ pc[t] = "idle" /\ pc' = [pc EXCEPT ![t] = "locked"]
  /\ LockFree /\ lock' = t
  /\ UNCHANGED <<batch, captured, native, store, dropped, snapshot, lost>>

Emit(n) == native + n <= MaxEvents /\ native' = native + n

(* The native prepare commits and returns its trace events.                *)
PrepareCommits(t, n) ==
  /\ pc[t] = "locked" /\ pc' = [pc EXCEPT ![t] = "publishing"]
  /\ Emit(n)
  /\ batch' = [batch EXCEPT ![t] = Numbers(native + 1, native + n)]
  /\ captured' = [captured EXCEPT ![t] = native + n]
  /\ UNCHANGED <<lock, store, dropped, snapshot, lost>>

(* The with statement releases the lock on errors too.                     *)
Release(t) == lock' = None /\ pc' = [pc EXCEPT ![t] = "idle"]

(* The native arena or a provider fails: nothing has happened.             *)
CallFails(t) ==
  /\ pc[t] = "locked" /\ Release(t)
  /\ UNCHANGED <<batch, captured, native, store, dropped, snapshot, lost>>

(* The prepare has committed, but an exception keeps its result from being *)
(* published: the conversion of the result fails, or the native binding    *)
(* raises after the commit (HostCounter).                                  *)
ConversionFails(t, n) ==
  /\ pc[t] = "locked" /\ Release(t)
  /\ Emit(n)
  /\ lost' = lost \cup (native + 1 .. native + n)
  /\ UNCHANGED <<batch, captured, store, dropped, snapshot>>

(* Only requests that were prepared can be reported.                       *)
UsageRecorded(t) ==
  /\ native > 0
  /\ pc[t] = "locked" /\ pc' = [pc EXCEPT ![t] = "recorded"]
  /\ Emit(1)
  /\ UNCHANGED <<lock, batch, captured, store, dropped, snapshot, lost>>

Later(seq) == Selected(store, {i \in DOMAIN store : store[i] > seq})

EventsAfter(seq, limit) ==
  SubSeq(Later(seq), 1, IF Len(Later(seq)) < limit THEN Len(Later(seq)) ELSE limit)

(* Mutant: the events of the ring are fetched from its start.              *)
FirstNotMirrored == 1

NotMirrored ==
  LET existing == EventsAfter(0, FetchLimit)
  IN IF existing = <<>> THEN 1 ELSE existing[Len(existing)] + 1

(* record_usage asks the native arena for what the store has not seen.     *)
FetchEvents(t) ==
  LET oldest == native - NativeCapacity + 1
      first == IF NotMirrored < oldest THEN oldest ELSE NotMirrored
      last == IF native < first + NativeLimit THEN native ELSE first + NativeLimit - 1
  IN /\ pc[t] = "recorded" /\ pc' = [pc EXCEPT ![t] = "publishing"]
     /\ batch' = [batch EXCEPT ![t] = Numbers(first, last)]
     /\ captured' = [captured EXCEPT ![t] = native]
     /\ lost' = lost \cup (last + 1 .. native)
     /\ UNCHANGED <<lock, native, store, dropped, snapshot>>

(* The native arena fails after the report was taken.                      *)
FetchFails(t) ==
  /\ pc[t] = "recorded" /\ Release(t)
  /\ lost' = lost \cup {native}
  /\ UNCHANGED <<batch, captured, native, store, dropped, snapshot>>

Full == Len(store) = Capacity

(* publish_event: the deque drops its oldest event when it is full.        *)
Publish(t) ==
  /\ pc[t] = "publishing" /\ batch[t] # <<>>
  /\ batch' = [batch EXCEPT ![t] = Tail(@)]
  /\ store' = Append(IF Full THEN Tail(store) ELSE store, Head(batch[t]))
  /\ dropped' = IF Full THEN dropped + 1 ELSE dropped
  /\ UNCHANGED <<lock, pc, captured, native, snapshot, lost>>

(* publish_snapshot, and the call returns.                                 *)
PublishSnapshot(t) ==
  /\ pc[t] = "publishing" /\ batch[t] = <<>> /\ Release(t)
  /\ snapshot' = captured[t] /\ captured' = [captured EXCEPT ![t] = 0]
  /\ UNCHANGED <<batch, native, store, dropped, lost>>

Step(t) ==
  \/ Acquire(t) \/ CallFails(t) \/ UsageRecorded(t) \/ FetchEvents(t) \/ FetchFails(t)
  \/ Publish(t) \/ PublishSnapshot(t)
  \/ \E n \in 1 .. MaxTrace : PrepareCommits(t, n) \/ ConversionFails(t, n)

Next == \E t \in Threads : Step(t)

Spec == Init /\ [][Next]_vars

-----------------------------------------------------------------------------
(* Properties.                                                             *)

(* tests/test_observation_debug.py, test_event_sequences_are_monotonic: an *)
(* event is in the store once, and after all older ones, although prepare  *)
(* and record_usage publish from different sources and a failed call       *)
(* leaves the store behind the native arena.                               *)
StoreInOrder == \A i, j \in DOMAIN store : i < j => store[i] < store[j]

Evicted(e) == store # <<>> /\ e < store[1]

Accounted(e) == e \in Range(store) \cup lost \/ Evicted(e)

(* A reader who finds a snapshot finds every event before it, or it has    *)
(* been dropped; and when no call is inside, every native event is in the  *)
(* store or counted as dropped.  Only events that a failed call or the     *)
(* limit of a fetch left out, and no later report caught up with, may be   *)
(* missing.  The snapshot never goes back.                                 *)
MirrorComplete ==
  /\ \A e \in 1 .. snapshot : Accounted(e)
  /\ lock = None => \A e \in 1 .. native : Accounted(e)
  /\ lock = None /\ lost = {} => dropped + Len(store) = native
  /\ \A t \in Threads : lock = t /\ pc[t] = "publishing" => captured[t] >= snapshot
=============================================================================
