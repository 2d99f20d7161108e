# Route Fabric: TLA+ verification project

Route Fabric (`src/`) is the authority over desired routes of a fabric: publishers
declare routes, one coordinator process decides which are current, programs them
into a backend, and survives restarts. This directory models the coordinator, its
store, its backend calls and its network front end, model-checks them with TLC and
proves the safety properties the passing runs check (all but one) with TLAPS. Where the
repository claims something the code does not keep, section 3 has the counterexample.

## 1. The system

| Component | State | Operations | Modelled by |
|---|---|---|---|
| Lifecycle (`lifecycle.cpp`) | none, a static table | `next_lifecycle`, `apply_event`, outcome mappings | `RouteLifecycle` |
| Publisher authority (`runtime.cpp`) | `registrations`, `administrative_fences`, `fenced_boots`, `epoch` | register, fence, clear, advance epoch, `authorize` | `PublisherAuthority` |
| Path authority (`path_authority.cpp`) | generation and state per path, under its own lock | set, invalidate, remove, query | `PathAuthority` |
| Route runtime (`runtime.cpp`) | `routes`, `key_index`, `attempts`, `revocations`, `outstanding_programming` | publish, withdraw, revalidate, retire, revoke, complete, invalidate paths, reconcile, open | `RouteRuntime` |
| Record validation (`record.cpp`) | none | `validate_route_record`, codecs | `RouteRuntime` (`ValidRecord`), `WireCodec` |
| Backend calls (`run_dispatch`, `backend.cpp`) | calls under way, programmed routes | make request, dispatch, defer, complete | `RouteProgramming` |
| Route store (`persistence.cpp`) | snapshot and journal files | load, save, append, compact, open | `RouteStore`, `DurableStore` |
| Server (`server.cpp`, `socket_internal.hpp`) | sessions, their table and count, stop flag | accept, serve, finish, start, stop | `CoordinatorServer`, `WireSession` |
| Client (`client.cpp`) | connection, context | connect, close, its request methods, raw frames | `WireSession` |
| Wire (`wire.cpp`, `encoding.cpp`) | none | encode, decode, frame checks | `WireCodec` |
| Destinations, keys, digests, snapshots, tools | none that decides a route | parsing, hashing, export, command lines | no |

**Interaction.** A client sends a frame and waits for its answer. A session thread of
the server decodes it and calls the runtime; when the session ends it fences the
publisher it registered. The runtime calls the path authority and the store inside
its lock and the backend outside it: a programming handler commits and persists under
the exclusive lock, releases it, takes the shared lock to read the record again, calls
the backend, and takes the exclusive lock for `apply_completion_locked`. A backend may
defer; then the completion comes through `ApplyProgrammingCompletion`. Between the
critical sections only the durable attempt record remembers the call.

**What is hard.** Completions that arrive late, twice or in another order than they
were dispatched; path changes, epoch advances, retirement and crashes between dispatch
and completion; two-step changes (a takeover supersedes, then creates; a session looks
a registration up, then fences it; a snapshot is renamed, then the journal removed);
torn journal entries; volatile fences next to durable routes; counters that guard a
limit across threads; shutdown against sessions in every state; a protocol that pairs
requests and answers by order only. `PROJECT.json` lists these hazards with the lines
where they bite.

**What makes each part correct.**

* Authority: a boot that lost its registration cannot act again; a fenced publisher
  holds no registration; a session that is over holds none.
* Runtime: an installed record rests on the outcome of an attempt for its own
  generation; a route takes only its own outcome; an invalidation is not undone by a
  late completion; a revoked lineage is never installed; a lineage starts over, or comes
  back from retirement, only as a whole and by a publication that creates it anew; the
  key index names a live lineage; what is CURRENT is authorized; waiting ends. (That
  retirement, revocation and the one lineage per key are final is what the repository
  claims and the code does not keep: section 3.)
* Backend calls: what a record says was programmed is what was asked for, and what an
  ordering backend holds.
* Store: what was acknowledged is loaded again, and recovery forgets no unresolved
  attempt; what is stored can be loaded.
* Server: sessions are counted exactly, and Stop returns, after the last of them.
* Client: each call gets its own answer, is executed at most once, and returns as long
  as somebody accepts its connection.

## 2. Modules

* `RouteLifecycle` - the transition table of `kTransitions` as a set of triples, and
  the mapping of a backend outcome to event and applied classification.
* `PublisherAuthority` - one action per handler. `dismissed` is a history variable
  (not in the code): the boots that lost a registration since the process started.
* `PathAuthority` - what `Query` answers per path. The runtime only compares with
  USABLE, so the five refusing states are one.
* `RouteRuntime` - extends the three. `routes[r]`, `attempts[a]` and `key_index[k]`
  are total functions with `None` for "absent". One action per handler or, for
  publication, per outcome of `publish_one`: `PublishNew`, `PublishReplace`,
  `PublishTakeover`, `PublishTakeoverFails`. `StartAttempt` is the tail the
  programming handlers share, `ApplyCompletion` is `apply_completion_locked`.
  `OnPathAuthorityChanged` takes any answer from its caller, as the code does, and
  `RevalidatePathAuthorities` any subset of the paths, which covers a sweep that
  fails part way. `ReconcileRoute` takes any backend answer, since the query is made
  unlocked. `Currentness` is `currentness_of`. `Handle` is every step but
  completions and crashes.
* `RouteProgramming` - extends `RouteRuntime` and says where completions come from:
  `call[a]` follows the thread (or the deferred request) of attempt `a` through
  `ReadRecord` (the second critical section of `run_dispatch`), `CarryOut` (the
  backend), `Finish` or `TurnAway`. `table` is what the backend holds. A crash loses
  outcomes under way, and of a call under way the backend has all or nothing.
* `DurableStore` - the abstract store: a durable state that only grows more recent,
  is never behind what was acknowledged, and from which a restart continues.
* `RouteStore` - the two files. A snapshot is written by the rename (`SaveSnapshot`)
  and then the removal of the journal (`RemoveJournal`), with the process alive or
  dead in between; a journal entry is appended whole, torn, or whole and not
  acknowledged. `Loaded` is `Load`: a record is replaced by one of the same or a later
  generation, an attempt by any later entry. Every mutation of the runtime is one of
  seven shapes of entry: a record with the attempt it starts, a resolved attempt with
  its record or, when the completion is stale, without it, a record that waits for
  nothing any longer, one that is also revoked, a record that reconciliation stores
  again as it is, and the recovery at `Open`. `acknowledged` is a history variable.
* `CoordinatorServer` - extends `PublisherAuthority`. `thread[s]` is how far a session
  is; the steps are cut where another thread can interfere: `finish_session` is
  `EndLoop` (lookup), `FenceOnClose`, `Unlist` (locked section) and `Release`; `Stop`
  is six steps, of which the sleep on the condition variable is one. `owner` is a
  history variable.
* `WireCodec` - every message as its fields with the reader of each. Encoders write
  anything; a reader can tell of a value only that it is zero (invalid, empty, false)
  or longer than its bound, so that is what a message is.
* `WireSession` - extends `WireCodec`: a table of the client's methods (what each
  checks, sends, and waits for), the two streams, the frame checks of the session in
  their order, and the answers of `handle`. `of` in a frame is a history field: the
  call that caused it. `accepting` says whether the accept thread still runs; while it
  does not, connections stay queued. When the client replaces a connection whose session
  is still served, its frames move to `abandoned`, from where they are executed or lost
  in any order (the session would keep their order; the properties do not need it).
* `MC_*` - instances for TLC.
* `PublisherAuthorityProofs`, `RouteRuntimeProofs` (extends it), `RouteTableProofs`
  (extends that), `RouteLineageProofs` and `RouteProgrammingProofs` (both extend that),
  `CoordinatorServerProofs` (extends the first), `RouteStoreProofs`, `WireSessionProofs`:
  the theorems.

**Abstractions.** In `RouteRuntime` the store is `Durability::Snapshot` and atomic:
`persist` precedes `commit`, a failed persist changes nothing, and a crash keeps
routes, attempts, revocations and epoch; `RouteStore` checks what this rests on.
Refused calls and exact replays change nothing and are no actions. Left out because
they decide nothing: history, counters, diagnostic text, policy and source
generations, the detail of the supersession record. Left out because it only refuses:
the expected generation of a request, the namespace limit. Scopes are sets of keys
with an override flag. Ids are model values; a programming attempt id is fresh because
`generate_id` draws 128 bits. `RouteStore` reduces a record to generation, attempt and
a stamp for everything else. A journal is cut by `Load` at the first entry that does
not decode; that a partial entry never decodes is the checksum's work. `CoordinatorServer`
leaves the epoch alone (no step of a session reads it), `WireSession` the runtime
(any request may be refused).

**`Lapseless`** (`RouteRuntime`). Three things the code lets happen upset the history of
a lineage: a caller publishes under an identity that is already in use (`ReusesLineage`),
the second half of a takeover is refused after the first was persisted
(`HalvesTakeover`), an administrator revokes a superseded lineage (`RevokesPredecessor`).
They are ordinary behaviour of the code and always part of the specification; they
happen in every run with two lineages (`completions` and `dispatch` have one, and no
takeover). What they break is among the violations of section 3; `Lapseless`, the
behaviours in which none happens, is only a hypothesis of some theorems.

**`Faults`** (`RouteStore`). Crashes at any file operation are always considered;
`Faults` adds what goes wrong around a process that lives on: `"torn"` and `"whole"`
(what a failed append leaves behind), `"kept"` (the journal removal, whose error
`SaveSnapshot` ignores), `"refused"` (the persist at the end of `Open`), `"reused"` (a
publication creates a record anew, at generation 1, over one that is stored). Section 3
says what each breaks.

**`BackendOrders`** (`RouteProgramming`): the backend drops a request when it has
carried out one with a later `programming_generation`. The runtime sends the number;
nothing in `src/` makes a backend use it.

Operators introduced by "Mutated form of ..." are not part of the specification: each
is a plausible bug in the definition that follows, used to confirm that the
properties notice it.

## 3. What TLC checks

Passing runs (distinct states; on two cores all below three minutes):

| Run | Instance | States | Shows |
|---|---|---|---|
| `completions` | 1 route, 3 attempts, 2 boots, 8 outcomes, 3 query answers, 2 epochs, restarts | 881,959 | `LiveRecordsValid`, `OutcomesAreProven`, `OutstandingIsExact`, `CurrentIsAuthorized`, `CompletionsFitLifecycle`, `WaitingHasAttempt`, `OutcomeIsOwn` |
| `lineages` | 2 keys, 2 lineages, 2 attempts, 1 path with 2 generations and a next hop, restarts | 866,468 | `TypeOK`, `IndexNamesLive`, `RevokedNeverInstalled`, `InvalidationIsFinal`, `CurrentIsAuthorized`, `OutcomesAreProven`, `OutstandingIsExact`, `GenerationsRestartWhole`, `RetirementEndsByRecreation` |
| `dispatch` | 1 route, 2 bindings, 2 calls, restarts, ordering backend | 356,125 | `ProgrammingTypeOK`, `OutcomeWasRequested`, `BackendAgrees`, `ImplementsRuntime`, `WaitingEnds` |
| `store` | 2 routes, 2 attempts, 3 mutations, both durabilities, 2 epochs, crashes | 74,916 | `StoreTypeOK`, `AcknowledgedSurvives`, `WaitingIsStored`, `ImplementsDurableStore` |
| `server` | 3 sessions (2 incarnations of a worker, an observer), limit 2, 2 boots | 638,716 | `ServerTypeOK`, `ActiveSessionsExact`, `EndedSessionHoldsNothing`, `DismissedBootCannotAct`, `FencedPublisherUnregistered`, `StopReturns` |
| `wire` | 3 calls of any method or broken frame, 2 epochs | 94,368 | `WireTypeOK`, `AnswerIsOwn`, `OneExecution`, `CallReturnsIfServed` |

**Refinement.** `ImplementsRuntime` (`dispatch`): the runtime with its backend calls
implements `RouteRuntime`, whose variables it shares, so what is checked and proved of
`RouteRuntime` holds with any backend. `ImplementsDurableStore` (`store`): the files
implement `DurableStore` with `durable` as what `Load` would return now and `working`
as what the process has acknowledged.

**Bounds.** `AttemptIds` bounds the dispatches of a behaviour: three allow two stale
attempts next to a live one, so completions can arrive in every order; two are enough
where the order of two calls is the question. `MaxGeneration` 3 or 4 lets a record be
published, withdrawn or retired, taken over or invalidated and revoked; the counters are
checked in the code, so the bound is also the behaviour at its limit. The second key of
`lineages` lets a publication take an identity another key derives, which is also how
its takeovers and recreations come about. Two epochs give one advance between any two
steps. Paths have two generations: matching and not. Three mutations in `store` make an
entry older and an entry newer than a snapshot, and a torn entry between the two. Three
sessions with a limit of two are a full server, a reconnecting worker, and a session in
any state when `Stop` comes. Three calls in `wire` are a handshake, a failing call and a
call over a connection in doubt or a new one, with the frames of the old left behind.
Attempts are symmetric in the runs of `RouteRuntime` and `RouteStore`, boots and
publishers in `completions` and `lineages`, routes in `store`; the runs with liveness
use no symmetry. In `RouteRuntime` a store that would not load is never opened, so
behaviours end there; `takeover_store` and `StoredAttemptsLoad` are about that. The runs
of `WireSession` may end: calls are bounded.

**Fairness.** `dispatch`: weak fairness of each call - `run_dispatch` runs, the backend
ends what it was asked (deferred requests too), and outcomes can be persisted.
`server`: weak fairness of session threads, of the thread in `Stop`, and of the accept
thread once `Stop` has connected to the listener; that connection is assumed to reach
it. `wire`: the session thread, the accept thread as long as it lives (it may end at any
time) and the client waiting in `ReceiveFrame` run. No client, handler, restart, path
change or operator is assumed to act.

**Violation runs.** Each shows a statement of the repository that the code does not
keep; `PROJECT.json` "findings" quotes it.

| Run | Statement | Counterexample |
|---|---|---|
| `takeover_store` | `StoredRoutesLoad` | publish, retire, take over: the predecessor is stored SUPERSEDED with a retirement cause, and under the key of its successor |
| `lost_append` | `AcknowledgedSurvives` | an append fails half way, the next succeeds: its entry is behind the torn one |
| `teardown_race` | `ReincarnationUndisturbed` | a session finds its boot registered, the new incarnation registers, the session fences the publisher |
| `stop_returns_early` | `StoppedMeansNoThread` | the last session leaves the count, Stop returns, the thread still has to close its socket |
| `revoked_key` | `RevocationIsFinal` | a superseded lineage is revoked, which takes the key from its live successor; the successor commits once more and the revoked key is served again |
| `retired_recreated` | `RetirementIsFinal` | a takeover is refused after its first half; a plain publication recreates the retired lineage at generation 1 |

**More statements that fail.** The modules state these too; TLC refutes each with the
configuration named and the property in place of those listed there.

| Statement | Configuration | Counterexample |
|---|---|---|
| `KeyIndexIsExact` (README.md:124: one authoritative route per key) | `revoked_key` | a superseded lineage is revoked: its commit takes the key, and its successor is in the table under the same key |
| `OutcomeIsOwn` (README.md:184: older attempts are never applied) | `revoked_key` | a lineage recreated at generation 1 takes the late completion of an attempt of its earlier life |
| `WaitingIsOutstanding` (lifecycle.hpp:85) | `completions` | an epoch advance makes a completion stale: the attempt is resolved, the route waits on with none outstanding |
| `StoredAttemptsLoad` (README.md:234) | `completions`, `MaxOutstanding = 2` | more dispatches than slots, all resolved: `read_state_body` refuses the table |
| `FencesPersist` (README.md:255) | `completions` | a restart lifts an administrative fence |
| `WaitingIsRecoverable` (README.md 5.2) | `store` | a waiting record is journaled again, a restart with snapshots recovers it and crashes before it removes the journal: replay brings the wait back, for a resolved attempt. With `Modes = {"journal"}` it holds |
| `AcknowledgedSurvives` | `store`, `Faults = {"kept"}` | the journal removal fails silently: a resolved attempt is unresolved again |
| `AcknowledgedSurvives` | `lost_append`, `Faults = {"reused"}` | a record recreated at generation 1 loses at replay to the older one |
| `ImplementsDurableStore` | `store`, `Faults = {"whole"}` | a failed append becomes durable all the same; the process goes on from a state the store is ahead of |
| `NamespaceCountExact` (runtime.cpp:2571) | `lost_append`, `Faults = {"refused"}` | `Open` fails in its last persist and is called again: every record is counted twice |
| `SessionEndFencesBoots` (server.hpp:41) | `teardown_race`, two publishers, `MaxPublishers = 2` | a session registers both and ends: the first keeps its authority |
| `CallReturns` (client.hpp:28) | `wire` | `accept` fails, its thread ends, the listener stays: a queued client waits for good |
| `ContextDecodes` (client.cpp:154) | `wire` | a client that never drew an attempt reconciles: the request passes the local check and the server cannot decode it |
| `AnswerIsOwn` | `wire`, `Leftovers = {1}`, `MaxCalls = 4` | the client does not close after a header it refuses; it reads the payload as headers, and when it comes out at a frame boundary every later call gets the previous answer (a payload over `max_frame_bytes` is far longer) |
| `BackendAgrees` | `dispatch`, `BackendOrders = FALSE` | two calls in the opposite order leave the older desire programmed under a record that says INSTALLED; no line of the repository asks a backend for an order |

And read off the models: `QueryRouteById` and `ExplainRouteById` of the client encode an
unset key, which the server cannot decode, and the answers to a query that finds nothing
carry a snapshot the client cannot decode; fenced boots, like administrative fences, do
not survive a restart; `Stop` reads `session->socket` without the lock that clears it.

## 4. What is proved

Every invariant, action property and refinement of the passing runs is also a theorem,
for every value of the constants that satisfies the assumptions of the modules: any
number of keys, publishers, routes, attempts, sessions, calls and journal entries, and
any limits. The assumptions say that
limits are numbers, derived identities are injective, `None` is none of the values, the
routes of a store are finitely many, and which methods the client has; TLC evaluates
them in every run. `PROJECT.json` "theorems" lists the theorems with the property each
states.

Some theorems have a hypothesis. None excludes a behaviour silently: each names
circumstances in which a property is false or is not known, and section 3 shows what
happens in them.

| Hypothesis | Meaning | Without it |
|---|---|---|
| `Lapseless` | no reused lineage, half takeover or revoked predecessor happens | `revoked_key`, `retired_recreated`, and `revoked_key` with `OutcomeIsOwn` |
| `BackendOrders` | the backend drops overtaken requests | `dispatch` with `FALSE` |
| every route id is derived from a key | one lineage per key, no takeover | programming generations of two lineages are not comparable; `BackendAgreesAlone` needs no such hypothesis but speaks of the keys with one lineage |
| `Faults \subseteq {"refused"}` | no append or journal removal fails in a process that lives on, no record is recreated over a stored one | `lost_append`, also with `"reused"`; `store` with `"kept"`, `"whole"` |
| `OnePublisherEach` | a session registers at most one publisher | `teardown_race` with two publishers |
| `LongLeftovers` | the payload of an answer over `max_frame_bytes` outlasts the remaining calls | `wire` with a small `Leftovers` |

**`PublisherAuthorityProofs`** is about the authority alone (`AuthoritySpec`): types,
`DismissedBootCannotAct` (every step that takes a registration away fences its boot in
the same critical section, so `dismissed` is a subset of `fenced_boots`) and
`FencedPublisherUnregistered`. The runtime and the server both implement
`AuthoritySpec` (`RuntimeImplementsAuthority`, `ServerImplementsAuthority`), which
carries the three over.

**`RouteRuntimeProofs`** has no hypothesis: all lapses are in.

* `TypeCorrect`: the handlers follow `key_index` into `routes`, so the inductive
  invariant `TypeInv` adds `IndexNamesLive`: the index names for a key a present route
  that has the key and is not superseded (`IndexAlwaysLive`), the part of
  `KeyIndexIsExact` that survives every lapse. It also carries `WatermarkOK`: the two
  generations of a record advance together and the invalidation watermark is not ahead
  of them.
* `InstallationsAreProven`, inductive with `TypeInv`; `InvalidationsAreFinal` from it
  (the proving attempt is for the generation the record has) and `WatermarkOK`.
* `CurrentRoutesAreAuthorized`: `currentness_of` reads neither the fences nor the epoch
  of the registration; `ProvenanceInv` says why it need not: no fenced publisher is
  registered, no record is from a later epoch, and a record of this epoch by the boot
  that is registered and not fenced was made under a registration of this epoch.
* `RevokedAreNeverInstalled`, the part of `RevocationIsFinal` that survives every lapse:
  a completion for a revoked lineage is stale, and no other step installs anything.

`Effect` describes what any step but a completion may do to the tables: a settled
outcome is one the route already had (`KeepsOutcome`), the provenance is the old one or
that of a caller authorized now (`KeepsProvenance`), and resolved attempts do not
change. One lemma per group of handlers shows it; `CompleteEffect` describes
completions. The invariants follow from these descriptions alone.

**`RouteTableProofs`** is about what the stale completion defence is for. `StepForms`
brings every step into one of four forms: an attempt starts, routes move on without
one, an attempt ends, or the process restarts. `TableInv` is inductive over them:
`TypeInv`; `IndexInv` (the index is exact, a key that any lineage has is held by one,
derived identities keep their key, revoked lineages are retired, superseded ones keep
the cause); `AttemptInv` (every attempt was started for a route that has only advanced
since, two attempts of a route differ in their programming generation, an unresolved
attempt that matches the generations of its record is the one that record waits for,
and a waiting record of this epoch has one); and `LiveRecordsValid`. It needs a history
without lapses. From it, under `Lapseless`: `LiveRecordsValid`, `CompletionsFitLifecycle`,
`WaitingHasAttempt` and `OutcomeIsOwn`. `OutstandingIsExact` needs no hypothesis: it
follows from the number of unresolved attempts each step adds and takes away.

**`RouteLineageProofs`** has no hypothesis either. One lemma per group of handlers shows
that every present route `Lives` (its counters do not fall, another binding comes with
another generation, retirement and supersession last) or is `Recreated` in the step: for
a key it did not hold, at generation 1, with an attempt of its own. From `TypeInv` and
these, `GenerationsRestartWhole` and `RetirementEndsByRecreation`; the violated
`RetirementIsFinal` is the same without recreation.

**`RouteProgrammingProofs`**. `ProgrammingImplementsRuntime`: every step of a call is a
step of `RouteRuntime` or leaves its variables alone, given `CallInv` (a call under way
has an attempt for a present route, and past `ReadRecord` a request). So the theorems
above hold with any backend; `RuntimeGuaranteesCarryOver` states the most important.
`OutcomesWereRequested`, under `Lapseless`, adds `RequestInv`: a request is behind the
record it was read from, and one of the generations its record still has asks for what
the record says. `BackendAlwaysAgrees` adds `LatestIsInForce`: the latest request
carried out for a route, by programming generation, is what the backend holds for its
key, unless the key went to another lineage.

**`CoordinatorServerProofs`**: types, the authority, `ActiveSessionsExact` (`CountInv`:
the count is the cardinality of the sessions between admission and the locked section
of `finish_session`), `EndedSessionHoldsNothing` (`HoldInv`: the session that made a
live registration still remembers it and has not passed its fence), and
`StopEndsEverySession`, which is what is left of `StoppedMeansNoThread`: once Stop has
returned no session is served.

**`RouteStoreProofs`**. `Loaded` replays a journal that can be torn anywhere. The
first part says what it returns: some prefix is readable, and a route comes from the
last readable frame of its highest generation, an attempt from the last that has it,
the epoch is the highest of all (`LoadFacts`). Lemmas then say what an
append, a torn append, a truncation and the rename of a snapshot do to `Loaded`. The
invariant `StoreInv` over them: what would be loaded is sound (no record is newer than
the last mutation, an attempt has its route), a running
process and a save under way are in step with the files, and what would be loaded
covers what was acknowledged. From it `AcknowledgedSurvives` and, with `durable` as
`Loaded`, `ImplementsDurableStore`. `WaitingIsStored` needs more than what prevails at
one moment, since a removed journal uncovers the snapshot: `WaitInv` says it of every
record that is read, prevailing or not. `StoreTypeOK` is proved along with `StoreInv`
and so under its hypothesis, which it may not need.

**`WireSessionProofs`**. `StepMoves` says what any step does to the two streams (a
frame leaves the head, joins the tail, or the head is replaced by the rest of its
payload); types follow without hypothesis. `AnswersAreOwn`: `OwnInv` says that the
connection is in one of two conditions, `InExchange` (at most one frame in both
streams together, of the last call) or `InPayload` (the calls that are left cannot
finish the payload at the head). `NothingExecutesTwice` needs neither: a call on its
way is on its way once and not executed, in the stream or among the abandoned frames
(`ExecInv`). `CallsExecuteOnce` joins the two.

**Only model-checked.** Liveness under fairness (`WaitingEnds`, `StopReturns`,
`CallReturnsIfServed`) is beyond this prover. The violation runs are counterexamples and
have nothing to prove. What the decoders of `WireCodec` accept is used in the proofs as
the field tables say, not proved about bytes.

## 5. Plan

Done: all modules above, their runs, two refinements checked and four proved, and the
theorems of section 4. Left, in order:

1. `WaitingIsRecoverable` for `Modes` of one element as a theorem.
2. `StoreTypeOK` for every choice of `Faults`, and what of `AcknowledgedSurvives`
   remains true with each fault (an entry is lost only behind a torn one).
3. `KeyIndexIsExact` and `OutcomeIsOwn` for the routes no lapse has touched.
4. `ReincarnationUndisturbed` and `StoppedMeansNoThread` with the hypotheses under
   which they hold (no registration between lookup and fence; no uncounted thread).

## 6. Not modelled

Platform backends and socket set-up (I/O), the bytes of encodings, digests and
destinations (no state, and out of reach character by character), snapshot export and
queries (read-only), the outcome plan and call log of the synthetic backend (test
instruments), command line tools (parsing and printing over the client), and the
reentrancy guard (a refused call changes nothing).
