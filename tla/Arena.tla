------------------------------- MODULE Arena -------------------------------
(***************************************************************************)
(* The arena of the core: ArenaState behind one mutex, used by several     *)
(* threads at once through prepare and record_usage                        *)
(* (rust/contextlease-core/src/lib.rs).                                    *)
(*                                                                         *)
(* prepare takes the mutex twice.  The first time it reads the calibration *)
(* of its model; then it counts tokens and allocates without the mutex.    *)
(* The second time it works on a copy of the state, the transaction, and   *)
(* either commits all of it or drops it.  What allocate grants and what    *)
(* compress_module makes of the chunks is left open here (any leases of    *)
(* LeaseOutcomes, any failure); Allocation models the former.              *)
(***************************************************************************)
EXTENDS Integers, FiniteSets, SequencesExt, TokenSums, Subsequences

CONSTANTS
  Threads,        \* the threads that call prepare
  Models,         \* calibration keys: model profile, tokenizer, version
  ExplicitIds,    \* request ids a host passes itself; a number is an id that
                  \* looks like one the arena makes up
  NoId,           \* the request has no id: the arena makes one up
  LeaseIds,       \* the ids leases may have
  LeaseOutcomes,  \* what allocate may grant: leases, in their order
  MaxEvents,      \* 10_000: the length of the event ring
  MaxRecent,      \* 2_048: the prepares whose usage may still be reported
  MaxCompressed,  \* bound: modules compressed in one prepare
  MaxCalls,       \* bound: calls of prepare
  MaxReports,     \* bound: usage reports accepted
  None            \* no thread, no request, no lease, no snapshot

(* What a request may be called, and what the snapshots of the arena are.  *)
(* The id of a lease is made of the ids of the donor and of the borrower   *)
(* with colons, which ids may contain too: two leases may have one id.     *)
Ids == ExplicitIds \cup Nat
Leases == [id : LeaseIds, tokens : Nat \ {0}]
Calibrations == [model : Models, samples : Nat]
Snapshots ==
  [seq : Nat, request : Ids, model : Models, leases : Seq(Leases),
   calibration : Calibrations \cup {None}, dropped : Nat]

ASSUME ArenaAssumption ==
  /\ {MaxEvents, MaxRecent} \subseteq Nat \ {0}
  /\ {MaxCompressed, MaxCalls, MaxReports} \subseteq Nat
  /\ IsFiniteSet(LeaseIds) /\ LeaseOutcomes \subseteq Seq(Leases)
  /\ None \notin Threads \cup Models \cup Ids \cup LeaseIds \cup Snapshots
  /\ NoId \notin Ids

VARIABLES
  state,      \* ArenaState, as committed
  lock,       \* the thread that holds the mutex
  poisoned,   \* a thread panicked while it held the mutex
  pc,         \* where each thread is in prepare
  call,       \* the request each thread is preparing
  txn,        \* the transaction: the holder's copy of the state
  leases,     \* what was allocated in the holder's prepare
  trace,      \* trace_events of the holder's prepare
  calls,      \* calls of prepare so far
  history,    \* history: the prepares and usage reports that succeeded
  ledger,     \* history: tokens granted less tokens reclaimed, by lease id
  repeated    \* history: the ids that two leases of a prepare have shared

vars == <<state, lock, poisoned, pc, call, txn, leases, trace, calls, history, ledger, repeated>>

RequestIds == ExplicitIds \cup (1 .. MaxCalls)
NoTokens == [l \in LeaseIds |-> 0]
Request(id, model) == [id |-> id, model |-> model]

-----------------------------------------------------------------------------
(* The event ring.                                                         *)

Excess(q) == IF Len(q) > MaxEvents THEN Len(q) - MaxEvents ELSE 0

LastOf(q) == SubSeq(q, Excess(q) + 1, Len(q))

Event(kind, request, lease, tokens) ==
  [kind |-> kind, request |-> request, lease |-> lease, tokens |-> tokens]

Plain(kind, request) == Event(kind, request, None, 0)

Numbered(s, es) ==
  [i \in 1 .. Len(es) |->
     [seq |-> s.eventSeq + i, kind |-> es[i].kind, request |-> es[i].request,
      lease |-> es[i].lease, tokens |-> es[i].tokens]]

(* push_event_locked, once for each member of es.                          *)
Push(s, es) ==
  LET all == s.events \o Numbered(s, es)
  IN [s EXCEPT !.eventSeq = @ + Len(es), !.events = LastOf(all), !.dropped = @ + Excess(all)]

BeginTransaction(s) == [s EXCEPT !.events = <<>>]

(* Mutant: events lost in the merge of the two rings are not counted.      *)
CommitUncounted(s, t) == [t EXCEPT !.events = LastOf(s.events \o @)]

(* Mutant: the snapshot keeps the count of dropped events it was made with. *)
CommitStale(s, t) ==
  LET all == s.events \o t.events
  IN [t EXCEPT !.events = LastOf(all), !.dropped = @ + Excess(all)]

CommitTransaction(s, t) ==
  LET all == s.events \o t.events
      dropped == t.dropped + Excess(all)
  IN [t EXCEPT !.events = LastOf(all), !.dropped = dropped,
               !.latest = IF @ = None THEN None ELSE [@ EXCEPT !.dropped = dropped]]

-----------------------------------------------------------------------------
(* recent_usage and recent_usage_order.                                    *)

Retain(q, id) == Selected(q, {i \in DOMAIN q : q[i] # id})

(* Mutant: entry(id).or_insert(model).                                     *)
KeepRecent(recent, id, model) == IF id \in DOMAIN recent THEN recent ELSE recent @@ (id :> model)

InsertRecent(recent, id, model) ==
  [i \in DOMAIN recent \cup {id} |-> IF i = id THEN model ELSE recent[i]]

(* Mutant: the expired id leaves the queue but not the map.                *)
ForgetNothing(recent, ids) == recent

Forget(recent, ids) == Restrict(recent, DOMAIN recent \ ids)

Remember(s, id, model) ==
  LET order == Append(Retain(s.recentOrder, id), id)
      surplus == IF Len(order) > MaxRecent THEN Len(order) - MaxRecent ELSE 0
      expired == ToSet(SubSeq(order, 1, surplus))
  IN [s EXCEPT !.recentOrder = SubSeq(order, surplus + 1, Len(order)),
               !.recent = Forget(InsertRecent(@, id, model), expired)]

-----------------------------------------------------------------------------

EmptyState ==
  [requestSeq |-> 0, snapshotSeq |-> 0, eventSeq |-> 0, activeLeases |-> NoTokens,
   samples |-> [k \in Models |-> 0], recent |-> <<>>, recentOrder |-> <<>>,
   events |-> <<>>, dropped |-> 0, latest |-> None]

Idle == Request(None, None)

Init ==
  /\ state = EmptyState /\ lock = None /\ poisoned = FALSE
  /\ pc = [t \in Threads |-> "idle"] /\ call = [t \in Threads |-> Idle]
  /\ txn = None /\ leases = <<>> /\ trace = <<>>
  /\ calls = 0 /\ history = <<>> /\ ledger = NoTokens /\ repeated = {}

(* A host calls prepare.                                                   *)
Call(t, id, model) ==
  /\ pc[t] = "idle" /\ calls < MaxCalls
  /\ pc' = [pc EXCEPT ![t] = "called"]
  /\ call' = [call EXCEPT ![t] = Request(id, model)]
  /\ calls' = calls + 1
  /\ UNCHANGED <<state, lock, poisoned, txn, leases, trace, history, ledger, repeated>>

(* prepare returns to thread t.                                            *)
Return(t) ==
  /\ pc' = [pc EXCEPT ![t] = "idle"]
  /\ call' = [call EXCEPT ![t] = Idle]

MutexFree == lock = None

(* The first critical section reads the safety multiplier and ends.        *)
ReadMultiplier(t) ==
  /\ pc[t] = "called" /\ MutexFree /\ ~poisoned
  /\ pc' = [pc EXCEPT ![t] = "planning"]
  /\ UNCHANGED <<state, lock, poisoned, call, txn, leases, trace, calls, history, ledger, repeated>>

(* The request, the model, the contributions or the budget are refused.    *)
PlanFails(t) ==
  /\ pc[t] \in {"called", "planning"}
  /\ Return(t)
  /\ UNCHANGED <<state, lock, poisoned, txn, leases, trace, calls, history, ledger, repeated>>

(* arena_poisoned, at either lock().                                       *)
LockPoisoned(t) ==
  /\ pc[t] \in {"called", "planning"} /\ MutexFree /\ poisoned
  /\ Return(t)
  /\ UNCHANGED <<state, lock, poisoned, txn, leases, trace, calls, history, ledger, repeated>>

(* The second critical section begins: the request gets its id.            *)
Begin(t) ==
  /\ pc[t] = "planning" /\ MutexFree /\ ~poisoned
  /\ LET number == state.requestSeq + 1
         id == IF call[t].id = NoId THEN number ELSE call[t].id
         started == <<Plain("request.started", id)>>
     IN /\ call' = [call EXCEPT ![t].id = id]
        /\ txn' = Push([BeginTransaction(state) EXCEPT !.requestSeq = number], started)
        /\ trace' = started
  /\ lock' = t
  /\ pc' = [pc EXCEPT ![t] = "leases"]
  /\ UNCHANGED <<state, poisoned, leases, calls, history, ledger, repeated>>

(* The holder's transaction pushes the events es; they go to trace_events. *)
Record(es) == trace' = trace \o es

(* Collecting the leases into a map by their id: of those that share one   *)
(* the last is kept.  The value 0 stands for an id that is not in the map. *)
KeepLast(next) ==
  [l \in LeaseIds |->
     LET of == {i \in DOMAIN next : next[i].id = l}
     IN IF of = {} THEN 0 ELSE next[Max(of)].tokens]

(* Mutant: a lease that shrinks is not reclaimed, only one that is gone.   *)
ShrunkToNothing(l, after) == txn.activeLeases[l] > 0 /\ after[l] = 0

Shrunk(l, after) == txn.activeLeases[l] > after[l]

(* lease.reclaimed for what the new map takes from the old one, in the     *)
(* order of a hash map; then lease.granted for what each of the leases, in *)
(* their order, has more than the old map.                                 *)
TraceLeases(t, next) ==
  /\ pc[t] = "leases"
  /\ LET before == txn.activeLeases
         after == KeepLast(next)
         id == call[t].id
         granted == Selected(next, {i \in DOMAIN next : next[i].tokens > before[next[i].id]})
     IN \E reclaimed \in SetToSeqs({l \in LeaseIds : Shrunk(l, after)}) :
          LET es == [i \in DOMAIN reclaimed |->
                       Event("lease.reclaimed", id, reclaimed[i],
                             before[reclaimed[i]] - after[reclaimed[i]])]
                    \o [i \in DOMAIN granted |->
                       Event("lease.granted", id, granted[i].id,
                             granted[i].tokens - before[granted[i].id])]
          IN /\ txn' = [Push(txn, es) EXCEPT !.activeLeases = after]
             /\ Record(es)
  /\ leases' = next
  /\ pc' = [pc EXCEPT ![t] = "modules"]
  /\ UNCHANGED <<state, lock, poisoned, call, calls, history, ledger, repeated>>

(* The loop over the modules: n of them are compressed.                    *)
Compress(t, n) ==
  /\ pc[t] = "modules"
  /\ LET es == [i \in 1 .. n |-> Plain("chunk.compressed", call[t].id)]
     IN txn' = Push(txn, es) /\ Record(es)
  /\ pc' = [pc EXCEPT ![t] = "publish"]
  /\ UNCHANGED <<state, lock, poisoned, call, leases, calls, history, ledger, repeated>>

Calibration(s, model) ==
  IF s.samples[model] = 0 THEN None ELSE [model |-> model, samples |-> s.samples[model]]

Snapshot(s, request, granted) ==
  [seq |-> s.snapshotSeq, request |-> request.id, model |-> request.model,
   leases |-> granted, calibration |-> Calibration(s, request.model),
   dropped |-> s.dropped]

(* The prompt fits: request.prepared, the snapshot, and the request is     *)
(* remembered for its usage report.                                        *)
Publish(t) ==
  /\ pc[t] = "publish"
  /\ LET id == call[t].id
         prepared == <<Plain("request.prepared", id)>>
         published == <<Plain("snapshot.published", id)>>
         counted == [Push(txn, prepared) EXCEPT !.snapshotSeq = @ + 1]
         shown == [counted EXCEPT !.latest = Snapshot(counted, call[t], leases)]
     IN /\ txn' = Remember(Push(shown, published), id, call[t].model)
        /\ Record(prepared \o published)
  /\ pc' = [pc EXCEPT ![t] = "commit"]
  /\ UNCHANGED <<state, lock, poisoned, call, leases, calls, history, ledger, repeated>>

Happened(op, request) == history' = Append(history, [op |-> op, request |-> request])

TracedTokens(kind, l) ==
  TotalOver([i \in DOMAIN trace |-> trace[i].tokens],
            {i \in DOMAIN trace : trace[i].kind = kind /\ trace[i].lease = l})

(* The guard goes out of scope.                                            *)
Unlock(t) == lock' = None

EndTransaction(t) ==
  /\ Unlock(t)
  /\ txn' = None /\ leases' = <<>> /\ trace' = <<>>
  /\ Return(t)
  /\ UNCHANGED <<poisoned, calls>>

(* The ids that more than one of the leases have.                          *)
SharedIds(granted) ==
  {l \in LeaseIds :
     \E i, j \in DOMAIN granted : i # j /\ granted[i].id = l /\ granted[j].id = l}

(* Every token count was valid: the transaction is committed.              *)
Commit(t) ==
  /\ pc[t] = "commit"
  /\ state' = CommitTransaction(state, txn)
  /\ Happened("prepare", call[t])
  /\ ledger' = [l \in LeaseIds |->
       ledger[l] + TracedTokens("lease.granted", l) - TracedTokens("lease.reclaimed", l)]
  /\ repeated' = repeated \cup SharedIds(leases)
  /\ EndTransaction(t)

(* What a prepare that fails leaves behind.                                *)
AfterFailure == state

(* Compression fails, the prompt does not fit, or a count was invalid: the *)
(* transaction is dropped.                                                 *)
Abort(t) ==
  /\ pc[t] \in {"modules", "publish", "commit"}
  /\ state' = AfterFailure
  /\ EndTransaction(t)
  /\ UNCHANGED <<history, ledger, repeated>>

(* The token counter of the host panics while the mutex is held.           *)
Panic(t) ==
  /\ pc[t] \in {"modules", "publish"}
  /\ poisoned' = TRUE
  /\ lock' = None /\ txn' = None /\ leases' = <<>> /\ trace' = <<>>
  /\ Return(t)
  /\ UNCHANGED <<state, calls, history, ledger, repeated>>

(* Mutant: the request can be reported again.                              *)
ConsumeNothing(s, id) == s

(* recent_usage.remove and recent_usage_order.retain.                      *)
Consume(s, id) == [s EXCEPT !.recent = Forget(@, {id}), !.recentOrder = Retain(@, id)]

(* Mutant: a report does not wait for the mutex.                           *)
ReportAnyTime == ~poisoned

MayReport == MutexFree /\ ~poisoned

(* record_usage for a request that is still known.                         *)
RecordUsage(id) ==
  /\ MayReport
  /\ id \in DOMAIN state.recent
  /\ Cardinality({i \in DOMAIN history : history[i].op = "usage"}) < MaxReports
  /\ LET model == state.recent[id]
         known == [Consume(state, id) EXCEPT !.samples[model] = @ + 1]
         traced == Push(known, <<Plain("usage.calibrated", id)>>)
     IN /\ state' = [traced EXCEPT !.latest =
                       IF @ = None THEN None
                       ELSE [@ EXCEPT !.calibration = Calibration(traced, model),
                                      !.dropped = traced.dropped]]
        /\ Happened("usage", Request(id, model))
  /\ UNCHANGED <<lock, poisoned, pc, call, txn, leases, trace, calls, ledger, repeated>>

(* What t does next, when nothing is refused before the transaction.       *)
Proceed(t) ==
  \/ ReadMultiplier(t) \/ LockPoisoned(t) \/ Begin(t)
  \/ \E next \in LeaseOutcomes : TraceLeases(t, next)
  \/ \E n \in 0 .. MaxCompressed : Compress(t, n)
  \/ Publish(t) \/ Commit(t) \/ Abort(t) \/ Panic(t)

Next ==
  \/ \E t \in Threads : Proceed(t) \/ PlanFails(t)
  \/ \E t \in Threads, id \in ExplicitIds \cup {NoId}, k \in Models : Call(t, id, k)
  \/ \E id \in RequestIds : RecordUsage(id)

Spec == Init /\ [][Next]_vars

-----------------------------------------------------------------------------
(* Properties.                                                             *)

Contiguous(s) ==
  /\ Len(s.events) <= MaxEvents
  /\ s.eventSeq = s.dropped + Len(s.events)
  /\ \A i \in DOMAIN s.events : s.events[i].seq = s.dropped + i

Between == {"usage.calibrated", "snapshot.published"}

(* Between a request.started and its snapshot.published there is no event  *)
(* of another request and no usage report.                                 *)
TracesTogether(es) ==
  /\ es # <<>> => Last(es).kind \in Between
  /\ \A i \in 2 .. Len(es) :
       IF es[i - 1].kind \in Between
       THEN es[i].kind \in {"request.started", "usage.calibrated"}
       ELSE /\ es[i].kind \notin {"request.started", "usage.calibrated"}
            /\ es[i].request = es[i - 1].request

(* events_dropped accounts for every event that left the ring, and the     *)
(* ring holds all events after those without a gap: a host that polls      *)
(* events_after can tell what it missed, although two rings are merged at  *)
(* commit and each may overflow.  The events of a prepare are together and *)
(* whole, and none that failed left any (docs/architecture.md: snapshot    *)
(* and events are committed in the same transaction).                      *)
EventLogWhole == Contiguous(state) /\ TracesTogether(state.events)

(* The lease events add up, through failed prepares and through leases     *)
(* that shrink, grow, vanish and come back: a host that sums granted and   *)
(* reclaimed tokens has what is on lease under an id that two leases of a  *)
(* prepare have never shared, and never less than that under any other.    *)
(* Sharing an id cannot be excluded, and then the events grant the tokens  *)
(* of both leases while the map keeps one.                                 *)
LeaseLedger ==
  \A l \in LeaseIds :
    /\ ledger[l] >= state.activeLeases[l]
    /\ l \notin repeated => ledger[l] = state.activeLeases[l]

Prepares == {i \in DOMAIN history : history[i].op = "prepare"}
Usages == DOMAIN history \ Prepares
IdOf(i) == history[i].request.id

(* Nothing later in the history is about the request of entry i.           *)
LastOfRequest(i) == \A j \in DOMAIN history : IdOf(j) = IdOf(i) => j <= i

NotForgottenEarly(i) ==
  IdOf(i) \in DOMAIN state.recent
  \/ Cardinality({IdOf(j) : j \in {p \in Prepares : p > i}}) >= MaxRecent

(* The queue of recent requests and the map of them name the same ones,    *)
(* each once, and no more than the capacity; and usage of a prepare can be *)
(* reported until it has been, or until as many other requests as the      *)
(* capacity were prepared after it: neither a retry, nor a reused id, nor  *)
(* reports on others make the arena forget it early.                       *)
RecentFaithful ==
  LET order == state.recentOrder
  IN /\ IsInjective(order) /\ ToSet(order) = DOMAIN state.recent /\ Len(order) <= MaxRecent
     /\ \A i \in Prepares : LastOfRequest(i) => NotForgottenEarly(i)

(* A usage report that is delivered twice counts once, however prepares    *)
(* of the same id and other reports come between: each report taken has a  *)
(* prepare of its own.                                                     *)
CalibrateOncePerPrepare ==
  \A i, j \in Usages : i < j /\ IdOf(i) = IdOf(j) =>
    \E p \in Prepares : i < p /\ p < j /\ IdOf(p) = IdOf(i)

(* A report calibrates the model its request was last prepared for, also   *)
(* when an id is used again for another model, by the host or because an   *)
(* id of the host looks like one that the arena made up.                   *)
CalibratesPreparedModel ==
  \A u \in Usages :
    \E p \in Prepares :
      /\ p < u /\ history[p].request = history[u].request
      /\ \A q \in Prepares : p < q /\ q < u => IdOf(q) # IdOf(u)

(* No update is lost: a prepare in flight, which writes back its copy of   *)
(* the calibrations, never takes back a report that was accepted.          *)
NoSampleLost ==
  \A k \in Models :
    state.samples[k] = Cardinality({u \in Usages : history[u].request.model = k})

(* snapshot() agrees with the state it was taken from, however many        *)
(* reports and failed prepares came after it: it is the one of the latest  *)
(* prepare that succeeded, and its leases, collected by id, its number and *)
(* its count of dropped events are current.  Failed prepares use up no     *)
(* number.                                                                 *)
SnapshotMatchesState ==
  /\ {state.requestSeq, state.snapshotSeq} = {Cardinality(Prepares)}
  /\ IF Prepares = {} THEN state.latest = None
     ELSE LET newest == history[Max(Prepares)].request
          IN /\ state.latest.request = newest.id /\ state.latest.model = newest.model
             /\ state.latest.seq = state.snapshotSeq
             /\ KeepLast(state.latest.leases) = state.activeLeases
             /\ state.latest.dropped = state.dropped
=============================================================================
