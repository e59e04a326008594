# ContextLease in TLA+

Specifications of the ContextLease kernel (`src/rust/contextlease-core`) and of
the layers around it, from the bindings to the command line: TLA+ modules translated
from the source, model-checked with TLC on small instances, and proved with
TLAPS where a property matters for every instance.

## The system

ContextLease divides the input budget of a language-model request among
*modules* (system prompt, history, tools, ...). Every module has a floor, a
target and a maximum in tokens; capacity a module does not use is leased to
modules that need more, and reclaimed in the next request.

| Part | Source | State | Operations | What makes it correct |
|---|---|---|---|---|
| Allocator | core `lib.rs` 1283-1458, 2007-2026 | per call: tokens held, remaining, active set, donors, leases | `allocate`, `weighted_fill`, `validate_model_budget` | the budget is handed out once, floors and maxima hold, only unused tokens are lent, nothing is stranded, it returns |
| Arena state | core 353-426, 606-1163 | `ArenaState` in one `Mutex`: counters, leases, calibrations, recent usage, event ring, latest snapshot | `prepare`, `record_usage`, `snapshot`, `events_after` | a prepare happens whole or not at all; events are contiguous; ledger, queue, map and snapshot agree |
| Calibration | core 434-476, 1058-1099 | EWMA ratio and multiplier per key | counting with the multiplier, `record_usage` | the feedback loop is bounded |
| Two-phase prepare | core 521-604, 1165-1254, 1460-1574 | none in the core: the host carries results from begin to commit | `prepare_begin`, `prepare_commit` | commit accepts exactly the answers begin asked for |
| Reclaim and counting | core 1580-1830 | per call: text, candidates | `compress_module`, `compress_text`, `truncate`, estimators | output does not grow, meets the target, keeps required terms |
| Validation | core 1878-2085 | none | `validate_*` | what gets past it satisfies what the rest assumes |
| Configuration, layout, CLI | `config.py`, `layout.py`, `cli.py` | none | `load_json_config`, `*_from_dict`, `compile_layout`, `validate`, `prepare` | what `validate` accepts, `prepare` takes |
| C ABI | `contextlease-ffi/src/lib.rs` | handle, host counter and its failure flag, last error per thread | `cl_arena_*` | errors of a callback reach the call that caused them |
| Bindings | `native.py`, Go, .NET, C++ | handle, callback references | create, call, replace counter, close | no use after free, callbacks outlive their use |
| Python facade | `runtime.py` | `RLock`, native arena, observation store | `prepare`, `record_usage`, `close` | the store mirrors the native events |
| Observation store | `observation.py` | bounded deque per arena, dropped count, condition | publish, read, wait | readers miss only what was dropped |
| Debug server, stream | `debug/server.py`, `debug/static/app.js` | SSE cursor per client | events endpoint, stream | a client knows when it lost events |
| Python compression | `compression/*.py`, `tokenization.py` | content so far, trace | `CompressionPipeline.execute`, fifteen algorithms | nothing grows, nothing is lost silently, fail-open steps fall through |
| Python allocator | `allocation.py` | per call | `allocate_budget` | agrees with the kernel |
| Providers, DTOs, packaging | see `PROJECT.json` | none of their own | I/O | outside these models |

How they interact: a host calls `prepare` through a binding and the C ABI (or
the Python facade, which holds its own lock around begin, provider calls and
commit). The core reads the calibration under its mutex, counts and allocates
without it, then takes the mutex again and builds everything on a copy of the
state. The events of the prepare are returned to the facade, which mirrors them
in the observation store, which the debug server streams. Some time later the
host reports what the provider counted (`record_usage`), which moves the
multiplier of later estimates.

What is hard to test there: two critical sections with work in between; failure at any
point of the second; two rings merged at commit; request ids that repeat or collide;
reports that are late, repeated or about another model; a feedback loop whose input
contains its own output; truncating arithmetic in loops that must end; callbacks that
fail, panic or are replaced while in use; handles freed while in use; the same rules
written three times in two languages. `PROJECT.json` lists these hazards by line with
the properties that watch them.

## The modules

**TokenSums** defines totals of token counts as the cardinality of a set of
individual tokens instead of a recursive sum, so that sums can be reasoned about
for every set of modules. **Subsequences** does the same for the list comprehension
that keeps some members of a sequence: the member at a place is the one with as
many kept members before it. A sorted set is defined by the rank of its members
in the order of the sort key, and a loop over a list as a function of the number of
passes (`Folded`). **CountingProofs** proves what the rest needs: totals
are naturals, monotone, and grow by exactly what one holder gains; a filtered
sequence has the kept members, once and in order; a sorted set has every member
once, each before those the key puts behind it; a loop keeps what each of its passes
keeps; a non-empty set of naturals has
a least one, and a set of naturals with 0 and with every successor has all.

**Allocation** is one call of the allocator. The definition, the demands and the budget
are chosen in `Init`; each iteration of a loop of the code is one step (`Admit`/`Reject`
for the admission check, `StartRound`, `Fill`, `EndFill` for `weighted_fill`,
`LendFromDonor`, `LendFromSlack`, `NextBorrower`, `Finish` for the lending loop), so
loop invariants are state invariants. `current`, `remaining`, `active`, `borrowed`,
`lent` and `leases` are the variables of the code; `donorLeft` and `slack` are `donors`
and `shared_slack`. Every positive f64 is a natural multiple of the least one, so
weights are naturals; what the code makes of them is f64 arithmetic, and `arithmetic`
says which of three things that is for the weights of a call: `exact` (1.0, 0.75: sums
and products of small multiples of a power of two), `rounded` (0.1, whose sums depend on
the order), or `overflow`. `Shares` are the truncated quotients that are possible then:
the exact one; one that is wrong by at most `1 / Precision` before it is truncated; and,
when a sum or product may be infinite, also none or the whole round (Python raises
then). With weights 0.1, 0.2 and 0.3 the sum is 0.6000000000000001 and the last of three
modules gets 4 of 10 tokens, where its share is 5: that is in the model. Token counts do
not wrap. The step that a donor passed over is never returned to is folded into "the
least donor with tokens left", which is the same donor.
**TokenPool** is what the allocator promises in the abstract: tokens move from a pool to
holders and never back. `Allocation!ImplementsPool` is the refinement.

**PyAllocation** EXTENDS it with the Python allocator as a function of the same
definition, demand and budget, by whole rounds over dicts and sorted lists as
`allocation.py` has it: `PyRound` is a round of `_weighted_fill`, `PyServe` a
borrower's turn, and the loops over rounds, modules, donors and borrowers are
`Folded` over the list each iterates. A `continue` or a `break` is a pass that changes
nothing. At the end of every call the two must agree
(`PythonAgrees`): on admission always, on allocations, leases in order, and rest where
f64 is exact. Elsewhere they need not: `allocation.py` sums the weights in the order of
a set, the kernel in the order of the ids.

**Arena** is `ArenaState` behind its mutex with several threads in `prepare` and usage
reports from anywhere. `state` is the committed record, `txn` the copy that
`begin_transaction` makes, `trace` the `trace_events` of the prepare. A thread goes
`idle -> called -> planning -> leases -> modules -> publish -> commit -> idle`;
`ReadMultiplier` is the first critical section, `Begin` to `Commit` or `Abort` the
second. What `allocate` grants is any sequence of leases of `LeaseOutcomes`. The id of a
lease is its arena hash, donor and borrower joined by colons, and ids of modules may
contain colons or be that of the slack, so two leases of a prepare may have one id: the
map keeps the last (`KeepLast`), while `lease.granted` is emitted for each; `repeated`
remembers the ids this has happened to. What compression does is any number of
`chunk.compressed` events or a failure, so the arena is checked against more than the
allocator can do. `active_leases` is replaced with the lease events rather than after
the modules; nothing reads it in between. An automatic request id is its number; a host
id that is a number is one that looks like an automatic id. `Panic` is a Rust token
counter that panics while the mutex is held. `history`, `ledger` and `repeated` are
history variables. `EventLogWhole` compares the events with what the history says
happened: contiguous numbers, every trace of a committed prepare together and complete,
and nothing from a failed one. `RecentFaithful` compares the map and the queue of recent
requests with the history: kept are the last prepares of the ids prepared last, and
nothing goes earlier than the queue says.

**Calibration** is one calibration key: prepares that count with the estimator times the
multiplier, or with a host tokenizer, which may count anything (a tokenizer of the bare
text leaves out what the provider adds to frame it), and reports that compare the
provider's count with theirs. `worst` is the greatest shortfall a report has shown of
the counters themselves, before any multiplier. Ratios are fixed-point with `Unit` for
1.0 and rounded down.

**HostCounter** is the failure of a host tokenizer on its way through three
layers to the caller of the Python binding's `prepare`: the exception kept in
the `NativeArena` object (`exception`), the flag in the handle of the C ABI
(`failed`), and a flag of each call in the core (`coreFailed`). The first two
are shared by all threads and cleared by each call when it starts. Entering,
clearing, noting, locking, committing, reading the flag and checking the
exception are separate actions, because nothing holds a lock across them.

**Reclaim** has no variables: how text is counted (host tokenizer, regex
estimator and character estimator, the last two times the multiplier), the
built-in algorithms and the walk along a reclaim pipeline. A text is its number
of tokens by the bare count and whether it still holds the required terms; that
is all the pipeline looks at.
**TwoPhase** uses it for the two-phase prepare. The core keeps nothing between
`prepare_begin` and `prepare_commit`, so the state is that of the host (`asked`,
`held`, `results`) and the multiplier, which reports may change at any point,
also between the plan of a commit and its prepare (`Submit`, `Prepare`). The host
keeps the answers of earlier rounds and may submit any set of them. What
`allocate` grants is any function of the multiplier: the request is the same in
both phases, so nothing else can change it, and `Allocation` has the rest. A
semantic request id is a hash of module, provider, target and text; `Fingerprint`
is those four.

**Mirror** is the Python facade with its observation store. An event is its
sequence number. `prepare` publishes the events it is returned one by one, then
the snapshot; `record_usage` changes the native arena first and then fetches
what the store lacks; both may fail after the native arena has changed
(`ConversionFails`, `FetchFails`). The lock of the facade is the variable `lock`
and serialises calls, but not readers.
**DebugStream** EXTENDS it with the debug server: the handler of an event stream
(`CheckShutdown`, `WaitForEvents`, `Keepalive`, `WriteEvent`), the browser's
connection (`Connect`, `Break`), the server (`Start`, `Stop`, and
`ServeLoopEnds`, which the `shutdown()` inside `stop` waits for), and the events
endpoint, which reads
events and minimum under two holds of the store's lock (`PollEvents`,
`PollMinimum`). A published event is written and received in one step: what a
broken connection had in flight is not seen, and only what is seen decides where
the browser goes on. Connections are accepted by the listening socket as soon as
it exists, but served only while the loop runs; handlers are daemon threads that
`stop` does not wait for.

**Bindings** is one native arena and the object of the Go, the .NET or the Python
binding that owns it: `handle` and `field` are the object's handle and the callback it
keeps alive, `live` and `counter` the native side, `lock` the mutex of the
binding (of the facade, for Python). A call enters (`Enter`), finds the
arena closed (`Closed`) or open (`Check`), reads the handle (`Call`), is inside
the library (`Native`) and comes back (`Return`). The order in which the object
renews its reference and the native side its callback differs between bindings
(`FieldBefore`, `FieldAfter`). In Python only `prepare` and `record_usage` hold a
lock, and nothing keeps a host from closing the arena or setting the counter while
another call is inside; the model lets its threads do so, and what they then do in a freed
arena (`UseFreed`). `raced` remembers whether a `close` has overlapped any other call, or
a `set_token_counter` a prepare or another of its kind (`Risks`). The properties hold
without condition for Go and .NET; for Python they say that nothing else leads to
their loss. That it is lost then is the code's: `close` (`runtime.py:182`) frees
a handle in use, and `set_token_counter` (`native.py:139`) drops a callback that may be
running.

**Pipeline** is `CompressionPipeline.execute` for any counter and any algorithm: the
loop comes to any step, registered or not, which raises, grows, shrinks or loses
required terms. The loop compares the counts that a result comes with and recounts
nothing; the built-in algorithms count themselves (`_result`), an algorithm of the host
says what it likes (`grows`, `lossy`). `Honest` are those of the host whose counts are
the request's. **HostAlgorithms** defines the built-in algorithms over contents of a few
items (a text of sentences, a list, an object), each item with what it says, its size,
terms, priority, group and role, so that selection, deduplication and truncation are
computed and not assumed. What a summary provider answers is any answer. Whether a text
is JSON is left open: if it is, minify drops what a repeated key overrides (`Overrides`)
and says nothing of it. The third `boundary_truncate` is the one whose `keep` is neither
`head` nor `tail`, which cuts the end and reports the beginning. The size of a text is
linear in its characters, as it is for the character counter and, within a word, for the
regex one; a tokenizer that merges characters may count a suffix differently.
**HostPipeline** composes the two.

**ConfigGate** is the way of a JSON configuration into the system, through the commands
`validate` and `prepare` call by call: the contract on JSON, the builders,
`compile_layout` and `validate_model_budget` in Python, then `validate_definition`,
`validate_model`, `validate_contributions` and `validate_model_budget` of the kernel,
whose integers wrap at `IntMax`. Between the two lie `json.dumps`, UTF-8 and serde: NaN,
infinities and lone surrogates get through the first and not through the rest, wherever
they are (`Sendable`). After the checks `prepare` looks at the content, and may fail as
it reclaims (`ReclaimErrors`): nothing to reclaim with, protected content, no provider
of that name. The model keeps of the content how many tokens it has, and leaves open how
reclaiming ends unless the module is spared it (`MayOverflow`). A document is a record
of sections of JSON values; `MCConfigGate` enumerates them. Two things it has only one
of: a second contribution and a second chunk would add what rendering puts between them
to the prompt.

## What the runs check

| Run | Question | Bounds |
|---|---|---|
| `allocation` | Is every allocation conserving, fair, ordered, complete, and does it end? | three modules (two can lend to one, one can be lent to by two), shapes with and without floors and expansion, three weightings, demands 0-4 that reach below, at and above every floor, target and maximum, budgets from infeasible to abundant, exact, rounded and overflowing weights; `Precision` 3, the least there may be for three modules, so quotients are wrong by as much as the theorems allow |
| `arena` | Do transactions keep the state whole under concurrency, failure and panic, and are reports taken once, for the right model and as long as promised? | two threads, three calls, two reports, two models, host ids that repeat or look like automatic ones, no lease, one, two that shrink and grow, and two with one id; a ring of five events, shorter than the longest trace (six), so both rings overflow; a queue of two recent requests, so the third evicts |
| `calibration` | Does the multiplier stay bounded? | two overlapping prepares, three reports, empty, odd and even prompts, providers at 0.5, 1.4 and 3 times the estimate, a host tokenizer on the same key that counts more or less than any of them |
| `calibration_steady` | Is the multiplier conservative, as the README of the repository says? | refuted: a provider at exactly twice the estimate |
| `host_counter` | Does every tokenizer failure reach its own caller, and does success mean committed? | two threads, two calls each, every interleaving of clearing, noting and reading |
| `host_counter_error` | Does a prepare that raises leave nothing behind, as `test_failed_prepare_does_not_commit_partial_state` says? | refuted for two threads: bounds of `host_counter` |
| `two_phase` | Does a commit keep the compression contracts and use only answers to what it reclaims? | two modules, three counting modes, four shapes of content, three grants per multiplier, multipliers 1.0 and 1.5, two rounds, two reports, two held answers of any of five texts (empty, too long, terms lost) |
| `two_phase_boundary` | Is a final boundary step enough to be admitted, as `docs/providers.md` suggests? | refuted for the character estimator with one report |
| `mirror` | Is the store a faithful mirror, and do its readers get all of it? | two threads, five events, a store of three, a native ring of four, pages of two and of one, a broken connection, the server started and stopped in either order; the store overflows while a handler is in the middle of a page |
| `host_pipeline` | Is the result of the Python pipeline sound, is every loss reported, does a boundary step meet its target? | three steps of all built-in algorithms, two of the host (one fails or counts like the request, one always says that it neither grew nor lost anything) and an unknown one; two texts (one and two tokens per character), a key a JSON text repeats, a list and an object of up to five items with duplicates, similar items, groups and a system message; targets 0, 1 and 4; with and without required terms and fail_open |
| `config_gate` | Do `validate` and `prepare` agree on what a configuration may be? | two valid documents (one per provider type), every single replacement or removal of a key, every pair of replacements of the linked fields (`MCConfigGate`), and sizes at the i32 boundary (`IntMax` 15) |
| `bindings` | Does every call use a live handle and a live callback, and is nothing left behind? | three threads, three counters, unbounded calls in any overlap, each of three bindings |

Mutants listed in `PROJECT.json` replace one definition by a plausible bug and
break the property they are listed with.

**Fairness.** `Allocation` has weak fairness on its steps: one thread runs through loops
that wait for nothing; `Pipeline` and `ConfigGate` have it for the same reason, without
a liveness property that uses it. `Arena`, `HostCounter`, `TwoPhase` and `Bindings` are
checked for safety only: a mutex is not documented to be fair, callers may stop calling,
and nothing is claimed of when a call returns. `DebugStream` has weak fairness on the
handler, whose thread waits at most ten seconds for anything, and on the browser's
reconnect, which `EventSource` does by itself, and on the end of the serving loop, which
looks for a shutdown request every half second; nothing is assumed of the threads that
publish, or of whoever starts and stops the server. A `stop` before any `start` waits
for ever, and `StreamSettles` says so by excepting it. `CHECK_DEADLOCK FALSE` is set
where the host may stop calling, a program ends, or the bounds are used up; `bindings`
and `allocation` check for deadlock.

## Findings

* `record_usage` compares the provider's count with `estimated_tokens`, which
  already contains the multiplier. Once the multiplier is right the ratio is 1,
  and the average moves towards 1 again: 2.0, 1.8, ... The estimate falls short
  from the second report on, though the repository's README calls the
  multiplier conservative (`Calibration!Conservative`, run
  `calibration_steady`). The loop is bounded (`MultiplierBounded`), so the effect is
  an under-estimate, never a run-away.
* The failure flag of the handle and the exception of the Python object are
  shared by all calls, so a prepare that has committed raises when the tokenizer
  fails for another thread at the wrong moment
  (`HostCounter!FailedPrepareLeavesNothing`, run `host_counter_error`). The other
  direction is safe: no failure is ever reported as success.
* For the character estimator `truncate` ignores the multiplier that
  `compress_module` then counts with, so a pipeline that ends with
  `boundary_truncate` misses its target as soon as the key is calibrated
  (`TwoPhase!BoundaryStepAdmits`, run `two_phase_boundary`).

Met on the way and not checked by a run: a portfolio that names a provider twice yields
the same semantic request id twice, so that answering both is refused as a duplicate; a
semantic step without a valid answer ends the prepare, while `docs/architecture.md` says
that failures can fall through to later steps; a store larger than 10 000 events is
mirrored into twice, because `record_usage` takes the last of the first 10 000 for the
newest; the dashboard refreshes only on event types of which the kernel emits
`lease.granted`, `lease.reclaimed` and `chunk.compressed`, so a prepare without any of
these does not refresh it; `record_usage` writes the calibration of the reported request
into the latest snapshot whatever its model; `boundary_truncate` that keeps the tail
reports nothing as removed when nothing is left (`content[:-0]` is empty), and returns
more than its target when the target does not hold one character (`text[-0:]` is the
whole text); `validate` accepts what `prepare` refuses: blank names, integers beyond 32
bits, NaN, infinities and lone surrogates anywhere, exact counting without a tokenizer,
two semantic steps, a contribution to no module, repeated contributions and chunks, and
floors that leave no room for the separators (`ConfigGate!KnownGaps`), and content that
is not spared reclaiming (`MayOverflow`), for instance with a semantic step that names
no provider, which only then is looked for; in the model these are the only reasons
(`HostProofs!RefusedOnlyForGaps`); `prepare`, the other way round, takes a budget or a
sum of floors that wraps in 32 bits (`Wraps`); `stop` of a debug server that was never
started blocks; two leases of a prepare may share an id, and then the lease events add
up to more than is on lease (`repeated` in `Arena`); weights that f64 sums inexactly may
cost a module a token of its share, and another one in Python than in the kernel; a
`keep` that is neither `head` nor `tail` reports the wrong end of a text as removed, and
minifying a JSON text with repeated keys loses values without a word; a pipeline
believes what an algorithm of the host says of its length; `close` and
`set_token_counter` of the Python binding may free what another thread is using.

## What is proved

`AllocationProofs` proves, for every finite set of modules, every valid
definition, every demand and every budget, that `Spec` implies `[]TypeOK`,
`[]Conservation`, `[]GrantBounds`, `[]LendOnlyUnused`, `[]TargetsBeforeLeases`,
`[]NoTokenStranded`, `[]BorrowPriority`, `[]WeightedFairness` and the refinement
`ImplementsPool`. None of these is inductive alone. The
inductive invariant `IndInv` adds what each phase knows: during the fill, no
module is below its seed or above its cap and modules outside `active` are at
their cap; while lending, a donor's holding, lent and lendable tokens make up
its target, a module that could lend has its whole demand unless nothing
remains, and a borrower stays under its ceiling. Conservation needs
`CountingProofs!TotalAdd`, because a step changes one module's count and a
total of all. The assumptions are those named in `Allocation`: finite non-empty
modules, definitions that `validate_definition` accepts, natural demands,
integer budgets.

`NoTokenStranded` and `BorrowPriority` need `ServedInv` on top: what the donors and the
slack still hold covers what remains, everybody who is no longer waiting has its
entitlement while something remains, and before a borrower leases, all that come before
it are at their ceiling. `WeightedFairness` needs `FairInv`: during the first round
those served have taken no more than their weights come to and one token for each whose
share rounds down to nothing, so who comes next still finds its share, and later rounds
only add. Rounding costs one more token, and the bound on it is the assumption
`PrecisionAssumption`: a quotient is wrong by less than one over the number of modules,
which f64 keeps for up to two thousand of them. Nothing is claimed of weights that
overflow; the other invariants do not depend on the shares.

`PythonAllocatesAlike` is `[]PythonAgrees` under the same assumptions: the two
implementations admit the same calls and, where f64 is exact on the weights, end with
the same allocations, the same leases in the same order and the same rest. They are not
step for step alike (the model of the kernel goes to the next donor that has something
and stops when nothing remains, where the loops of `PyAllocation` pass by what they
cannot use), so `AgreeInv` places the state of the kernel on the walk Python's loops
take: after k whole rounds and j modules of the next one (`InRound`), after i borrowers
and j donors of the next one (`InTurn`). A step of the kernel moves on by one place or
by several that change nothing, which is what the lemmas on idle passes say
(`IdleGrant`, `RestOfRoundIdle`, `RestOfRoundsIdle`, `PassedIdle`, `TurnIdle`). A donor
that was passed stays useless for this borrower (`Passed`), which is why the kernel need
not return to it. That Python begins as many rounds as there are tokens is no
restriction: each but the last hands out one (`k + remaining <= PySeed.left`).

`ArenaProofs` proves the seven invariants of the `arena` run for any number of threads,
calls and reports, any leases `allocate` may grant, ids shared or not, and any
capacities of the ring and of the recent requests. The inductive invariant says how the
copy of the state in the hands of the holder of the mutex differs from the state:
`TxnFollows` for counters, samples, queue and snapshot, `LogFollows` for the ring of the
transaction, whose events are numbered on from the state's and counted as dropped if
they are gone, `LedgerFollows` for the leases, whose difference is what the trace has
granted and reclaimed so far (`TracedBounds`: under an id that is shared, at least the
difference). The committed state is tied to the history: `RecentPrepared` and
`PreparedInOrder` for the requests that are still known, `KnownUntilFull` for the
others, `SnapshotOfNewest` for the snapshot. Merging the two rings when both overflow is
the hard step: the lost events must be the oldest.

`StreamProofs` proves `StoreInOrder`, `MirrorComplete`, `SeenFaithful` and
`NoSilentGap` for any number of threads and any capacities, pages and breaks, under
one hypothesis, `StoreWithinFetch`: the store holds no more events than
`record_usage` fetches to find the newest. Both are 10 000 unless the host makes
the store larger (`observation.py:14`, `runtime.py:162`); a larger one is mirrored into
twice (see the findings), so the hypothesis cannot be dropped. The invariant
says that the batch a thread publishes follows what is in the store (`BatchFollows`),
that what is missing is counted as dropped or noted as lost (`NoneMissing`,
`Counted`), and, for the reader, that what it waits to write follows what it has
written (`OutboxFollows`), and that between its two reads the endpoint's page stays what
the store held then (`PollHolds`).

`TwoPhaseProofs` proves `CompressionContract`, `AnswersAsAsked` and
`QuietCommitAccepted` for any modules, pipelines, providers, texts, answers,
multipliers and grants. The state part is small: a committed context is what its
multiplier and its answers make of the request (`PreparedAsComputed`), and as
long as no report interferes, what was asked is what is planned (`PlanKept`). The
rest is about the walk along a pipeline: it only ever shortens a text
(`WalkShortens`), a walk with answers is the planned one up to the semantic step
and can only stop after it if the answer is refused (`PlanForesees`), and a
host tokenizer makes it independent of the multiplier (`HostWalks`). `Walk` is a
recursive function; that it has a solution at all (`Walked`) and what each of
its values is follows by induction over the set of places where it holds. The
attempt to prove this found overlapping guards in a CASE of `Walk`, whose value TLA+
leaves open and TLC takes from the first; they are an IF now.

`HostProofs` has the three host-side models. It proves, for every set of threads
and number of calls, `FailureReported`, `SuccessCommitted` and
`CommittedSucceedsAlone` of `HostCounter`. The invariant says, for each place a
call can be in, which of the three flags still carry its failure: the shared
ones may have been cleared by others, the one in the core has not, and the core
refuses to commit because of it. And it proves `ResultSound` of `Pipeline` for every counter
whose counts are natural numbers, every set of algorithms and whatever they
return: no step makes the content count more unless an algorithm of the host counts in its own
way (`HonestCounts` is the hypothesis on the others), and the built-in ones fall back to
their input rather than lose a required term.

For the built-in algorithms, under the hypothesis `AlgorithmsRegistered` that the
registry is the one of `CompressionRegistry.with_builtins` and that what the host adds
returns some content, it proves `NothingLostSilently` and `BoundaryMeetsTarget` for
every item table, similarity, request and sequence of steps. For the first, each
algorithm accounts for its input (`Accounts`): what the input says is said by the output
or by what is reported as removed. Most algorithms select positions and report the rest,
so it does not matter which positions they choose (`SelectingMakes`), and for the loops
that choose them (`GreedyMakes`, `SimilarityMakes`, `GroupSelectMakes`,
`FieldPruneMakes`) only that they choose positions. The lossless ones must keep
everything said by themselves, minify of a JSON text all it does not drop (`Remains`):
the first of equals is kept (`FirstOfEquals`). The exception for an emptied tail
(`TailEmptied`) has to be shown to last: a text remains a text, and no step that is used
makes it longer. For the second, a prefix or suffix is never longer than the number of
characters asked for, also when it ends inside a part (`PrefixShort`, `SuffixShort`),
and what fits (`FittingFits`) rounds down.

`HostProofs` also proves `ValidatedPrepares` and
`CompletedIsValid` of `ConfigGate` for every document of JSON values, not only those
`MCConfigGate` lists: what is valid to Python is refused for a known gap or while reclaiming.
The invariant (`GateInv`) is
that every call made so far was accepted and that a command which failed made one
that was not; the rest compares the three sets of rules, and needs that a
budget below a 32-bit context limit does not wrap (`I32Within`).

`CalibrationProofs` proves, for every estimator, provider and number of
overlapping prepares, `TypeOK`, `EwmaWithinSamples` and `MultiplierBounded`. The
feedback makes the last one interesting: a sample is the provider's count over a
count that contains an earlier multiplier, which never makes a count smaller, so no
ratio exceeds the one to the bare count that `worst` has seen.

`BindingsProofs` proves, for every set of threads, `CallsUseLiveHandle`,
`CallsLiveCallback` and `NothingLeftBehind`. The invariant rests on calls that take a
risk together never being inside together: in Go and .NET because both hold
the mutex (`LockHeld`), in Python unless `raced` says that they have been. From it
follow that a call which found the arena open stays in an open arena
(`OpenInside`, `ClosedState`), that the binding keeps the counter the arena calls
while no other is on its way (`CounterKept`), and that a prepare uses that one
(`UsesCounter`).

The assumptions are those named in the modules, and three hypotheses that theorems state
themselves: `StoreWithinFetch`, `AlgorithmsRegistered`, and `HonestCounts`, which only
says which algorithms of the host are called `Honest`. None is a duty of a caller of the
bindings.

Every invariant and action property of the passing runs is a theorem. Only
model-checked is liveness (`Termination` and `StreamSettles`), which the prover
does not cover, and the three claims of the repository that the runs refute.
Induction over data is always an induction over the set of places of one given walk
(`NatSetInduction`), since the library's induction theorems take an operator the
provers cannot instantiate.

## Not modelled

* The character-level estimators and truncations of the kernel, and `render`: a
  text is a size and whether it has its terms. Regular expressions and
  similarity ratios of the Python algorithms are what they decide.
* `previous_usage` and the `change_rate` gauge: nothing reads them back.
* Finalizers (Go's `SetFinalizer`, the .NET finalizer, which frees without the
  lock while a call without `GC.KeepAlive` may still be inside) and operating-system
  threads under goroutines: the last error that Go reads in a second call.
* A token callback that calls back into its own arena. The C ABI forbids it; in
  Go it would wait for its own mutex.
* The C++ wrapper, a header without state beyond the handle.
* Strings handed out by the C ABI: the Python binding does not free the one it
  got when the error of a callback is raised after a successful call.
* HTTP to providers, the `demo` command, authorisation of the debug server, its
  other endpoints and the refresh timer of the dashboard, DTO conversion,
  packaging: input and output, or no state of their own.

## Where to go next

A bounded log as the abstract specification that `Mirror` and the ring of `Arena`
implement; the finalizers of the Go and .NET bindings; `previous_usage`.
