---------------------------- MODULE RouteRuntime ----------------------------
(***************************************************************************)
(* RouteFabricRuntime (src/runtime.cpp): the authoritative route table, the *)
(* programming attempts dispatched for it, and the handlers that change     *)
(* both.                                                                    *)
(*                                                                          *)
(* What is one step.  A handler takes the exclusive lock, checks, persists  *)
(* and commits; that critical section is one action.  PublishRoute,         *)
(* WithdrawRoute and RevalidateRoute then call the backend with the lock    *)
(* released, and the outcome comes back in a second critical section: at    *)
(* the end of run_dispatch, or through ApplyProgrammingCompletion when the  *)
(* backend deferred it.  Between the two sections nothing but the attempt   *)
(* record remembers the call, and any other handler may run.                *)
(*                                                                          *)
(* Durability.  The store is Durability::Snapshot: persist() writes the     *)
(* whole state and precedes commit() everywhere, so routes, attempts,       *)
(* revocations and epoch stand for memory and store at once; a failed       *)
(* persist leaves both unchanged.  A crash keeps exactly these.             *)
(*                                                                          *)
(* Left out: diagnostic text, history entries, counters, policy and source  *)
(* generations, supersession detail (they decide nothing), the expected     *)
(* generation of a request (it only refuses), and refused calls.            *)
(***************************************************************************)
EXTENDS PublisherAuthority, PathAuthority, RouteLifecycle

CONSTANTS
  Keys,            \* RouteKey
  RouteIds,        \* RouteId: lineage identities
  DerivedId,       \* derive_route_id: the default identity of a key
  AttemptIds,      \* ProgrammingAttemptId, drawn fresh for every dispatch
  NextHops,        \* targets of bindings that involve no path authority
  Outcomes,        \* the backend outcomes considered
  Presences,       \* the BackendPresence answers considered
  MaxGeneration,   \* the highest value of the checked counters
  MaxRoutes,       \* Limits::max_routes
  MaxOutstanding   \* Limits::max_outstanding_programming

ASSUME RuntimeAssumption ==
  /\ DerivedId \in [Keys -> RouteIds]
  /\ \A k, l \in Keys : DerivedId[k] = DerivedId[l] => k = l
  /\ Outcomes \subseteq ProgrammingOutcomes
  /\ Presences \subseteq {"Present", "Absent", "Unknown", "Unavailable"}
  /\ MaxGeneration \in Nat /\ MaxGeneration >= 2
  /\ MaxRoutes \in Nat /\ MaxOutstanding \in Nat
  /\ Paths \cap NextHops = {}

VARIABLES
  routes,                   \* RouteId -> RouteRecord, or None
  key_index,                \* RouteKey -> the RouteId that holds it, or None
  attempts,                 \* ProgrammingAttemptId -> its record, or None
  revocations,              \* the revoked RouteIds
  outstanding_programming   \* the counter checked against MaxOutstanding

routeVars == <<routes, key_index, attempts, revocations,
               outstanding_programming>>

vars == <<epoch, opened, registrations, administrative_fences, fenced_boots,
          dismissed, path_authority, routes, key_index, attempts, revocations,
          outstanding_programming>>

Generations == 1..MaxGeneration

\* DesiredBinding: an authorized path at an authority generation, or a next hop.
Bindings == [target : Paths, generation : PathGenerations]
              \cup [target : NextHops, generation : {1}]

Observations == {"Unknown", "Matched", "Missing", "Diverged", "Extra",
                 "Unavailable"}

AppliedStates ==
  [classification         : Classifications,
   attempt                : AttemptIds,
   programming_generation : Generations,
   programmed_generation  : Generations,
   programmed_authority   : Generations]

\* RouteRecord.  publisher, worker_boot and epoch are its provenance.
RouteRecords ==
  [key                    : Keys,
   generation             : Generations,
   authority_generation   : Generations,
   invalidation_watermark : Generations,
   programming_generation : Generations,
   lifecycle              : Lifecycles,
   binding                : Bindings,
   publisher              : Publishers,
   worker_boot            : Boots,
   epoch                  : 1..MaxEpoch,
   applied                : AppliedStates,
   observation            : Observations,
   retirement             : {"None", "Administrative", "Revoked"}]

\* ProgrammingAttemptRecord
AttemptRecords ==
  [route                  : RouteIds,
   desired_generation     : Generations,
   programming_generation : Generations,
   operation              : {"Install", "Replace", "Withdraw"},
   epoch                  : 1..MaxEpoch,
   resolved               : BOOLEAN]

ASSUME NoneAssumption ==
  /\ None \notin RouteIds /\ None \notin RouteRecords
  /\ None \notin AttemptIds /\ None \notin AttemptRecords
  /\ None \notin Registrations

TypeOK ==
  /\ AuthorityTypeOK
  /\ PathTypeOK
  /\ routes \in [RouteIds -> RouteRecords \cup {None}]
  /\ key_index \in [Keys -> RouteIds \cup {None}]
  /\ attempts \in [AttemptIds -> AttemptRecords \cup {None}]
  /\ revocations \in SUBSET RouteIds
  /\ outstanding_programming \in 0..MaxOutstanding

Init ==
  /\ AuthorityInit
  /\ PathInit
  /\ routes = [r \in RouteIds |-> None]
  /\ key_index = [k \in Keys |-> None]
  /\ attempts = [a \in AttemptIds |-> None]
  /\ revocations = {}
  /\ outstanding_programming = 0

Present == {r \in RouteIds : routes[r] # None}

Started == {a \in AttemptIds : attempts[a] # None}

Unresolved == {a \in Started : ~attempts[a].resolved}

-----------------------------------------------------------------------------
(* Record validation, indexes and the programming of one attempt.            *)

\* validate_route_record, over the fields the model keeps.
ValidRecord(rec) ==
  /\ rec.applied.programmed_generation <= rec.generation
  /\ rec.applied.programming_generation <= rec.programming_generation
  /\ rec.invalidation_watermark <= rec.authority_generation
  /\ (rec.lifecycle = "Retired") <=> (rec.retirement # "None")
  /\ rec.lifecycle = "Installed" => ReportsApplied(rec.applied.classification)
  /\ rec.lifecycle = "Withdrawn" => rec.applied.classification = "Withdrawn"
  /\ rec.lifecycle = "Failed" =>
       rec.applied.classification \in {"Rejected", "NotSupported", "PermanentFailure"}

\* Mutated form of Reindexed: index_erase is forgotten.
ReindexedInsertOnly(ki, rs, r, rec) ==
  [k \in Keys |-> IF rec.lifecycle # "Superseded" /\ k = rec.key THEN r ELSE ki[k]]

\* index_erase of the old version of route r in table rs, then index_insert of
\* rec: a superseded record takes no key.
Reindexed(ki, rs, r, rec) ==
  [k \in Keys |->
     IF rec.lifecycle # "Superseded" /\ k = rec.key THEN r
     ELSE IF rs[r] # None /\ rs[r].key = k /\ ki[k] = r THEN None
     ELSE ki[k]]

\* commit, on top of the tables rs and ki.
CommitOn(rs, ki, r, rec) ==
  /\ routes' = [rs EXCEPT ![r] = rec]
  /\ key_index' = Reindexed(ki, rs, r, rec)

Commit(r, rec) == CommitOn(routes, key_index, r, rec)

CommitValid(r, rec) == ValidRecord(rec) /\ Commit(r, rec)

\* Mutated form of CanAdvance: the limit is off by one.
CanAdvanceOffByOne(rec) == rec.generation <= MaxGeneration

\* advance_generation and advance_authority: checked, never wrapping.
CanAdvance(rec) ==
  rec.generation < MaxGeneration /\ rec.authority_generation < MaxGeneration

Advanced(rec) == [rec EXCEPT !.generation = @ + 1, !.authority_generation = @ + 1]

\* The applied state of a record whose attempt a was just prepared.
PendingApplied(rec, a, programming) ==
  [classification         |-> "Pending",
   attempt                |-> a,
   programming_generation |-> programming,
   programmed_generation  |-> rec.generation,
   programmed_authority   |-> rec.authority_generation]

\* The record with attempt a prepared: the programming watermark advances and
\* what was applied or observed before no longer counts.
Prepared(rec, lifecycle, a) ==
  [rec EXCEPT !.lifecycle = lifecycle,
              !.programming_generation = rec.programming_generation + 1,
              !.applied = PendingApplied(rec, a, rec.programming_generation + 1),
              !.observation = "Unknown"]

\* The record re-authored by publisher p from boot b.
Authored(rec, p, b) == [rec EXCEPT !.publisher = p, !.worker_boot = b, !.epoch = epoch]

\* One more attempt may be outstanding (Limits::max_outstanding_programming).
WithinLimit == outstanding_programming < MaxOutstanding

\* The common tail of the programming handlers: validate, check the outstanding
\* limit, persist, commit, record the attempt, and leave for the backend.
StartAttempt(rs, ki, r, rec, a, op) ==
  /\ attempts[a] = None
  /\ rec.programming_generation <= MaxGeneration
  /\ ValidRecord(rec)
  /\ WithinLimit
  /\ CommitOn(rs, ki, r, rec)
  /\ attempts' = [attempts EXCEPT ![a] =
       [route                  |-> r,
        desired_generation     |-> rec.generation,
        programming_generation |-> rec.programming_generation,
        operation              |-> op,
        epoch                  |-> epoch,
        resolved               |-> FALSE]]
  /\ outstanding_programming' = outstanding_programming + 1
  /\ UNCHANGED revocations

-----------------------------------------------------------------------------
(* Publication: publish_one.  An exact replay of a settled publication and   *)
(* every refusal change nothing.                                             *)

\* PublisherScope::covers, and the administrative override of the scope.
InScope(p, k) == k \in registrations[p].scope.keys

HasOverride(p) == registrations[p].scope.administrative_override

IsPathBinding(binding) == binding.target \in Paths

\* The binding names a usable path at its current authority generation.
PathAuthorized(binding) ==
  IsPathBinding(binding) =>
    path_authority[binding.target] =
      [generation |-> binding.generation, state |-> "Usable"]

\* Mutated form of LineageId: the minted identity is ignored.
LineageIdOfKey(k, lineage) == DerivedId[k]

\* The identity of a route that is created: the one derived from its key, or the
\* one the caller minted.
LineageId(k, lineage) == IF lineage = None THEN DerivedId[k] ELSE lineage

\* The record of a key published for the first time: declared, validated and
\* ready within the same critical section.
FreshRecord(p, b, k, binding, a) ==
  [key                    |-> k,
   generation             |-> 1,
   authority_generation   |-> 1,
   invalidation_watermark |-> 1,
   programming_generation |-> 1,
   lifecycle              |-> "Ready",
   binding                |-> binding,
   publisher              |-> p,
   worker_boot            |-> b,
   epoch                  |-> epoch,
   applied                |-> [classification |-> "Unknown", attempt |-> a,
                               programming_generation |-> 1,
                               programmed_generation |-> 1,
                               programmed_authority |-> 1],
   observation            |-> "Unknown",
   retirement             |-> "None"]

\* The creation half of publish_one, on top of the tables rs and ki.
CreateOn(rs, ki, p, b, k, binding, r, a) ==
  /\ Cardinality({i \in RouteIds : rs[i] # None}) < MaxRoutes
  /\ PathAuthorized(binding)
  /\ \E next \in NextLifecycle("Ready", "BeginInstall") :
       StartAttempt(rs, ki, r, Prepared(FreshRecord(p, b, k, binding, a), next, a),
                    a, "Install")

\* The key has no route: it gets one, under the identity derived from the key or
\* under the identity the caller minted.  Nothing asks whether a route has, or
\* had, that identity: the record of one that does is overwritten.
PublishNew(p, b, k, binding, lineage, a) ==
  /\ Authorized(p, b) /\ InScope(p, k)
  /\ key_index[k] = None
  /\ CreateOn(routes, key_index, p, b, k, binding,
              LineageId(k, lineage), a)
  /\ UNCHANGED <<authorityVars, path_authority>>

\* The route that holds the key may be published again by p.
MayReplace(p, k) ==
  /\ key_index[k] # None
  /\ key_index[k] \notin revocations
  /\ ~BlocksRepublication(routes[key_index[k]].lifecycle)
  /\ routes[key_index[k]].publisher = p \/ HasOverride(p)

\* A repeated publication of a binding that is installed or on its way.
IsExactReplay(rec, p, b, binding) ==
  /\ rec.binding = binding
  /\ rec.publisher = p /\ rec.worker_boot = b
  /\ rec.lifecycle \in {"Installed", "Installing"}

PublishReplace(p, b, k, binding, a) ==
  LET r == key_index[k] IN
  /\ Authorized(p, b) /\ InScope(p, k)
  /\ MayReplace(p, k)
  /\ ~IsExactReplay(routes[r], p, b, binding)
  /\ CanAdvance(routes[r])
  /\ PathAuthorized(binding)
  /\ \E next \in NextLifecycle(routes[r].lifecycle, "BeginInstall") :
       LET rec == [Authored(Advanced(routes[r]), p, b) EXCEPT !.binding = binding]
       IN StartAttempt(routes, key_index, r, Prepared(rec, next, a), a, "Replace")
  /\ UNCHANGED <<authorityVars, path_authority>>

\* A publisher with override takes the key of a retired lineage over.
MayTakeOver(p, b, k, lineage) ==
  LET r == key_index[k] IN
  /\ Authorized(p, b) /\ InScope(p, k)
  /\ r # None /\ r \notin revocations
  /\ BlocksRepublication(routes[r].lifecycle)
  /\ HasOverride(p)
  /\ lineage \notin {None, r}
  /\ CanAdvance(routes[r])

\* The predecessor as it is persisted and committed, retirement record included;
\* it is not validated.
SupersededRecord(rec) == [Advanced(rec) EXCEPT !.lifecycle = "Superseded"]

PublishTakeover(p, b, k, binding, lineage, a) ==
  LET r == key_index[k]
      gone == SupersededRecord(routes[r])
  IN /\ MayTakeOver(p, b, k, lineage)
     /\ CreateOn([routes EXCEPT ![r] = gone], Reindexed(key_index, routes, r, gone),
                 p, b, k, binding, LineageId(k, lineage), a)
     /\ UNCHANGED <<authorityVars, path_authority>>

\* The predecessor is superseded, persisted and committed; then one of the checks
\* of the second half (the limits, the path authority, the counters, the record)
\* or the second persist refuses, and the call returns that error: the key is left
\* without a route.
PublishTakeoverFails(p, b, k, lineage) ==
  LET r == key_index[k] IN
  /\ MayTakeOver(p, b, k, lineage)
  /\ Commit(r, SupersededRecord(routes[r]))
  /\ UNCHANGED <<authorityVars, path_authority, attempts, revocations,
                 outstanding_programming>>

-----------------------------------------------------------------------------
(* Withdrawal, revalidation, retirement and revocation.                      *)

\* prepare_lifecycle_mutation
MayMutate(p, b, r) ==
  /\ routes[r] # None
  /\ Authorized(p, b) /\ InScope(p, routes[r].key)
  /\ routes[r].publisher = p \/ HasOverride(p)
  /\ r \notin revocations
  /\ ~BlocksRepublication(routes[r].lifecycle)

\* A withdrawal of a withdrawn route, or of one whose withdrawal is under way,
\* is acknowledged without effect.
WithdrawRoute(p, b, r, a) ==
  /\ MayMutate(p, b, r)
  /\ routes[r].lifecycle \notin {"Withdrawn", "Withdrawing"}
  /\ CanAdvance(routes[r])
  /\ \E next \in NextLifecycle(routes[r].lifecycle, "BeginWithdraw") :
       StartAttempt(routes, key_index, r, Prepared(Advanced(routes[r]), next, a),
                    a, "Withdraw")
  /\ UNCHANGED <<authorityVars, path_authority>>

RevalidateRoute(p, b, r, a) ==
  /\ MayMutate(p, b, r)
  /\ routes[r].lifecycle # "Withdrawn"
  /\ PathAuthorized(routes[r].binding)
  /\ CanAdvance(routes[r])
  /\ \E next \in NextLifecycle(routes[r].lifecycle, "BeginInstall") :
       StartAttempt(routes, key_index, r,
                    Prepared(Authored(Advanced(routes[r]), p, b), next, a), a,
                    IF ReportsApplied(routes[r].applied.classification)
                    THEN "Replace" ELSE "Install")
  /\ UNCHANGED <<authorityVars, path_authority>>

\* Retirement programs nothing.
RetireRoute(p, b, r) ==
  /\ MayMutate(p, b, r)
  /\ CanAdvance(routes[r])
  /\ \E next \in NextLifecycle(routes[r].lifecycle, "Retire") :
       CommitValid(r, [Advanced(routes[r]) EXCEPT !.lifecycle = next,
                                                  !.retirement = "Administrative"])
  /\ UNCHANGED <<authorityVars, path_authority, attempts, revocations,
                 outstanding_programming>>

\* Revocation needs an override, whatever the scope covers, and takes a route in
\* any lifecycle.  A superseded lineage becomes RETIRED and with it takes the key
\* from its successor.
RevokeRoute(p, b, r) ==
  /\ routes[r] # None
  /\ Authorized(p, b) /\ HasOverride(p)
  /\ r \notin revocations
  /\ CanAdvance(routes[r])
  /\ \E next \in NextLifecycle(routes[r].lifecycle, "Revoke") :
       CommitValid(r, [Advanced(routes[r]) EXCEPT !.lifecycle = next,
                                                  !.retirement = "Revoked"])
  /\ revocations' = revocations \cup {r}
  /\ UNCHANGED <<authorityVars, path_authority, attempts,
                 outstanding_programming>>

-----------------------------------------------------------------------------
(* Completions: run_dispatch ends, and ApplyProgrammingCompletion consists,  *)
(* in apply_completion_locked.  An outcome may come for any attempt, late,   *)
(* out of order or again; for an unknown or resolved attempt, or when the    *)
(* outcome cannot be persisted, nothing changes.                             *)

\* Mutated form of Stale: only the epoch and dead lineages are looked at.
StaleByEpochOnly(at, rec) ==
  \/ at.epoch # epoch
  \/ BlocksRepublication(rec.lifecycle)
  \/ at.route \in revocations

\* Mutated form of Stale: revocation is not looked at.
StaleUnlessRevoked(at, rec) ==
  \/ at.programming_generation # rec.programming_generation
  \/ at.desired_generation # rec.generation
  \/ at.epoch # epoch
  \/ BlocksRepublication(rec.lifecycle)

\* The stale completion defence of apply_completion_locked.
Stale(at, rec) ==
  \/ at.programming_generation # rec.programming_generation
  \/ at.desired_generation # rec.generation
  \/ at.epoch # epoch
  \/ BlocksRepublication(rec.lifecycle)
  \/ at.route \in revocations

\* Mutated form of Resolve: the outstanding slot is not released.
ResolveKeepsSlot(a) ==
  /\ attempts' = [attempts EXCEPT ![a].resolved = TRUE]
  /\ UNCHANGED outstanding_programming

\* resolve_attempt
Resolve(a) ==
  /\ attempts' = [attempts EXCEPT ![a].resolved = TRUE]
  /\ outstanding_programming' =
       IF outstanding_programming > 0 THEN outstanding_programming - 1 ELSE 0

\* The record after attempt a, at, ended with an outcome that leads to lifecycle.
Completed(rec, a, at, outcome, lifecycle) ==
  [rec EXCEPT
     !.lifecycle = lifecycle,
     !.applied = [classification |-> CompletionClassification(at.operation, outcome),
                  attempt                |-> a,
                  programming_generation |-> at.programming_generation,
                  programmed_generation  |-> at.desired_generation,
                  programmed_authority   |-> rec.authority_generation]]

\* apply_completion_locked for an attempt that is not resolved yet.
ApplyCompletion(a, outcome) ==
  LET at == attempts[a]
      rec == routes[at.route]
      nexts == IF Stale(at, rec) THEN {}
               ELSE NextLifecycle(rec.lifecycle, CompletionEvent(at.operation, outcome))
  IN /\ opened
     /\ a \in Unresolved
     /\ rec # None
     /\ Resolve(a)
     /\ IF nexts = {}
        THEN UNCHANGED <<routes, key_index>>
        ELSE \E next \in nexts : Commit(at.route, Completed(rec, a, at, outcome, next))
     /\ UNCHANGED <<authorityVars, path_authority, revocations>>

-----------------------------------------------------------------------------
(* Path invalidation.                                                        *)

\* The routes that lose their path when path p answers with the given generation
\* and state.
Invalidates(p, answer, r) ==
  /\ r \in Present /\ r \notin revocations
  /\ routes[r].binding.target = p
  /\ routes[r].lifecycle \in
       {"Installed", "Installing", "Ready", "RevalidationRequired"}
  /\ answer # [generation |-> routes[r].binding.generation, state |-> "Usable"]

InvalidatedRecord(rec) ==
  [Advanced(rec) EXCEPT !.invalidation_watermark = rec.authority_generation + 1,
                        !.lifecycle = "RevalidationRequired"]

\* invalidate_path_locked for every path of ps: all dependents of a path are
\* persisted together, and none when one of their counters is exhausted.  Each
\* commit hands the key to the committed route.
InvalidatePaths(ps, answers) ==
  LET hit == {r \in RouteIds : \E p \in ps : Invalidates(p, answers[p], r)} IN
  /\ hit # {}
  /\ \A r \in hit : CanAdvance(routes[r])
  /\ routes' = [r \in RouteIds |->
                  IF r \in hit THEN InvalidatedRecord(routes[r]) ELSE routes[r]]
  /\ key_index' \in [Keys -> RouteIds \cup {None}]
  /\ \A k \in Keys :
       LET holders == {r \in hit : routes[r].key = k}
       IN key_index'[k] \in (IF holders = {} THEN {key_index[k]} ELSE holders)
  /\ UNCHANGED <<authorityVars, path_authority, attempts, revocations,
                 outstanding_programming>>

\* The caller supplies the answer; nothing ties it to the path authority.
OnPathAuthorityChanged(p, answer) ==
  /\ opened
  /\ InvalidatePaths({p}, [q \in {p} |-> answer])

\* Every path some route depends on is queried; a failure part way leaves the
\* paths handled before it invalidated.
RevalidatePathAuthorities(ps) ==
  /\ opened
  /\ InvalidatePaths(ps, path_authority)

-----------------------------------------------------------------------------
(* Reconciliation: what a backend query says about route r.  The query runs  *)
(* unlocked and is applied to whatever the record is by then, so the answer  *)
(* is any; agrees says that it does not report another generation than the   *)
(* record's.  The code does not ask whether the runtime is open; while it is *)
(* not, its memory holds no route to find.                                   *)

ObservationOf(rec, presence, agrees) ==
  LET desired == rec.lifecycle \in {"Installed", "Installing", "RevalidationRequired"}
  IN CASE presence \in {"Unavailable", "Unknown"} -> presence
       [] presence \in {"Present", "Absent"} /\ ~agrees -> "Diverged"
       [] presence = "Present" /\ agrees -> IF desired THEN "Matched" ELSE "Extra"
       [] presence = "Absent" /\ agrees -> IF desired THEN "Missing" ELSE "Matched"

ReconcileRoute(r, presence, agrees) ==
  /\ opened
  /\ routes[r] # None
  /\ CommitValid(r, [routes[r] EXCEPT
                       !.observation = ObservationOf(routes[r], presence, agrees)])
  /\ UNCHANGED <<authorityVars, path_authority, attempts, revocations,
                 outstanding_programming>>

-----------------------------------------------------------------------------
(* Restart.                                                                  *)

\* The process ends between any two critical sections, and with it the calls
\* whose outcome is still out.
Crash ==
  /\ AuthorityCrash
  /\ key_index' = [k \in Keys |-> None]
  /\ outstanding_programming' = 0
  /\ UNCHANGED <<path_authority, routes, attempts, revocations>>

(* Every stored record is one Load accepts (read_route_record validates each *)
(* record it reads).                                                         *)
StoredRecordsLoad == \A r \in Present : ValidRecord(routes[r])

(* No two stored records have the same key (DecodeSnapshot refuses them).    *)
StoredKeysLoad ==
  \A r, s \in Present : routes[r].key = routes[s].key => r = s

(* What a takeover leaves in the store can be loaded again: the superseded   *)
(* predecessor passes validation and does not collide with its successor.    *)
StoredRoutesLoad == StoredRecordsLoad /\ StoredKeysLoad

(* The attempt table, which is never pruned, fits the bound read_state_body  *)
(* puts on it.                                                               *)
StoredAttemptsLoad == Cardinality(Started) <= MaxOutstanding

\* Mutated form of RecoveryAttempts: the unresolved attempts are dropped.
NoRecoveryAttempts(r) == {}

\* The unresolved attempts Open attributes the state of route r to.
RecoveryAttempts(r) ==
  {a \in Unresolved :
     /\ attempts[a].route = r
     /\ r \in Present
     /\ HasOutstandingProgramming(routes[r].lifecycle)
     /\ routes[r].programming_generation = attempts[a].programming_generation}

\* What the backend did with attempt a is unknown.  Both events Open applies
\* (WithdrawFailed, BackendAmbiguous) and its fallback lead to the same state.
RecoveredRecord(rec, a) ==
  [rec EXCEPT
     !.lifecycle = "RevalidationRequired",
     !.applied = [classification         |-> "Ambiguous",
                  attempt                |-> a,
                  programming_generation |-> attempts[a].programming_generation,
                  programmed_generation  |-> attempts[a].desired_generation,
                  programmed_authority   |-> rec.authority_generation]]

\* Open: load, rebuild the indexes, resolve every attempt that was unresolved,
\* persist.  A store that does not load is never opened.  Of several attempts that
\* claim one route the first wins; of several routes that claim one key, any may.
Open ==
  /\ AuthorityOpen
  /\ StoredRoutesLoad /\ StoredAttemptsLoad
  /\ \E claim \in [RouteIds -> AttemptIds \cup {None}] :
       /\ \A r \in RouteIds :
            IF RecoveryAttempts(r) = {} THEN claim[r] = None
                                       ELSE claim[r] \in RecoveryAttempts(r)
       /\ routes' = [r \in RouteIds |->
                       IF claim[r] = None THEN routes[r]
                       ELSE RecoveredRecord(routes[r], claim[r])]
  /\ attempts' = [a \in AttemptIds |->
                    IF a \in Unresolved THEN [attempts[a] EXCEPT !.resolved = TRUE]
                                        ELSE attempts[a]]
  /\ key_index' \in [Keys -> RouteIds \cup {None}]
  /\ \A k \in Keys :
       LET holders == {r \in Present : /\ routes[r].key = k
                                       /\ routes[r].lifecycle # "Superseded"}
       IN key_index'[k] \in (IF holders = {} THEN {None} ELSE holders)
  /\ outstanding_programming' = 0
  /\ UNCHANGED <<path_authority, revocations>>

-----------------------------------------------------------------------------
(* The handlers callers and the backend may invoke.                          *)

Publish ==
  \E p \in Publishers, b \in Boots, k \in Keys :
    \/ \E binding \in Bindings, a \in AttemptIds, lineage \in RouteIds \cup {None} :
         \/ PublishNew(p, b, k, binding, lineage, a)
         \/ PublishTakeover(p, b, k, binding, lineage, a)
    \/ \E binding \in Bindings, a \in AttemptIds : PublishReplace(p, b, k, binding, a)
    \/ \E lineage \in RouteIds : PublishTakeoverFails(p, b, k, lineage)

Mutate ==
  \E p \in Publishers, b \in Boots, r \in RouteIds :
    \/ \E a \in AttemptIds : WithdrawRoute(p, b, r, a)
    \/ \E a \in AttemptIds : RevalidateRoute(p, b, r, a)
    \/ RetireRoute(p, b, r)
    \/ RevokeRoute(p, b, r)

Complete == \E a \in AttemptIds, outcome \in Outcomes : ApplyCompletion(a, outcome)

PathChange ==
  \/ \E p \in Paths, answer \in PathAnswers : OnPathAuthorityChanged(p, answer)
  \/ \E ps \in SUBSET Paths : RevalidatePathAuthorities(ps)

Reconcile ==
  \E r \in RouteIds, presence \in Presences, agrees \in BOOLEAN :
    ReconcileRoute(r, presence, agrees)

\* Every handler but the one that brings an outcome back.
Handle ==
  \/ Publish
  \/ Mutate
  \/ PathChange
  \/ Reconcile
  \/ PathNext /\ UNCHANGED <<authorityVars, routeVars>>
  \/ AuthorityStep /\ UNCHANGED <<path_authority, routeVars>>
  \/ AdvanceEpoch /\ UNCHANGED <<path_authority, routeVars>>
  \/ Open

Next == Handle \/ Complete \/ Crash

Spec == Init /\ [][Next]_vars

-----------------------------------------------------------------------------
(* currentness_of: what queries, explanations and statistics report.         *)

Currentness(r) ==
  LET rec == routes[r]
      registration == registrations[rec.publisher]
  IN CASE r \in revocations -> "Revoked"
       [] r \notin revocations /\
          rec.lifecycle \in {"Retired", "Superseded", "Failed", "Withdrawn"}
            -> rec.lifecycle
       [] OTHER ->
          IF rec.epoch # epoch THEN "StaleEpoch"
          ELSE IF registration = None THEN "StalePublisher"
          ELSE IF registration.worker_boot # rec.worker_boot THEN "StaleWorkerBoot"
          ELSE IF rec.worker_boot \in fenced_boots THEN "FencedPublisher"
          ELSE IF /\ IsPathBinding(rec.binding)
                  /\ path_authority[rec.binding.target].state # "Usable"
            THEN "PathAuthorityRejected"
          ELSE IF ~PathAuthorized(rec.binding) THEN "StalePathAuthority"
          ELSE IF rec.lifecycle = "RevalidationRequired" THEN rec.lifecycle
          ELSE IF rec.observation = "Diverged" THEN "StaleBackendObservation"
          ELSE IF rec.observation = "Missing" THEN "DesiredAppliedMismatch"
          ELSE IF rec.lifecycle = "Installed" THEN "Current"
          ELSE "NotInstalled"

-----------------------------------------------------------------------------
(* Properties of every behaviour.                                            *)

\* Attempt a was started for the very generation route r now has, it is over,
\* and operations contains what it did.
SettledBy(a, r, operations) ==
  /\ a \in Started
  /\ attempts[a].resolved
  /\ attempts[a].route = r
  /\ attempts[a].operation \in operations
  /\ attempts[a].desired_generation = routes[r].generation
  /\ attempts[a].programming_generation = routes[r].programming_generation

(* A committed desire is never reported as an installation (README 5): an    *)
(* INSTALLED record carries a positive outcome of an install or replace      *)
(* attempt that was dispatched for exactly its current generation, and a     *)
(* WITHDRAWN one that of a withdrawal.  Late, duplicated and reordered       *)
(* completions, path changes, epoch advances and restarts cannot fake it.    *)
OutcomesAreProven ==
  \A r \in Present :
    /\ routes[r].lifecycle = "Installed" =>
         SettledBy(routes[r].applied.attempt, r, {"Install", "Replace"})
    /\ routes[r].lifecycle = "Withdrawn" =>
         SettledBy(routes[r].applied.attempt, r, {"Withdraw"})

(* InvalidationWatermark: "a commit or completion started before an          *)
(* invalidation cannot land afterwards as current authority" (README 4).     *)
(* The attempt that proves an installation was dispatched at a generation no *)
(* older than the last invalidation of its route.                            *)
InvalidationIsFinal ==
  \A r \in Present : routes[r].lifecycle = "Installed" =>
    LET a == routes[r].applied.attempt IN
    a \in Started /\ attempts[a].desired_generation >= routes[r].invalidation_watermark

(* The outstanding_programming counter is the number of unresolved attempts, *)
(* across duplicate completions and recovery: a drift would starve the       *)
(* programming limit or lift it.                                             *)
OutstandingIsExact ==
  opened => outstanding_programming = Cardinality(Unresolved)

(* A route reported CURRENT belongs to a publisher that could mutate it right *)
(* now: authorize would accept the boot that published it.  currentness_of   *)
(* looks neither at the fences nor at the epoch of the registration.         *)
CurrentIsAuthorized ==
  \A r \in Present : opened /\ Currentness(r) = "Current" =>
    Authorized(routes[r].publisher, routes[r].worker_boot)

(* What a publication finds under a key is a route that has the key and is   *)
(* not superseded, although half takeovers, revoked predecessors and         *)
(* overwritten lineages move keys between lineages: index_erase and          *)
(* index_insert leave no stale entry behind.                                 *)
IndexNamesLive ==
  \A k \in Keys : key_index[k] # None =>
    /\ key_index[k] \in Present
    /\ routes[key_index[k]].key = k
    /\ routes[key_index[k]].lifecycle # "Superseded"

(* Revocation is absolute (README 7): whatever happens to the record of a    *)
(* revoked lineage, also when a publication mints its identity again, it     *)
(* exists and is never INSTALLED: no completion, late or of its own, no      *)
(* republication and no recovery brings it there.                            *)
RevokedNeverInstalled ==
  \A r \in revocations : r \in Present /\ routes[r].lifecycle # "Installed"

\* The step publishes route r as a new lineage: for a key r did not hold, at the
\* first generation, and with an attempt of its own.
Recreated(r) ==
  /\ routes'[r].generation = 1
  /\ routes'[r].lifecycle = "Installing"
  /\ key_index[routes'[r].key] # r /\ key_index'[routes'[r].key] = r
  /\ routes'[r].applied.attempt \in Started' \ Started

(* The generations and the watermark of a lineage go back, and its binding   *)
(* changes under the same generation, only when a publication creates the    *)
(* lineage anew.  A lineage that holds its key is never restarted under it.  *)
GenerationsRestartWhole ==
  [][\A r \in Present :
       \/ /\ routes'[r].generation >= routes[r].generation
          /\ routes'[r].programming_generation >= routes[r].programming_generation
          /\ routes'[r].invalidation_watermark >= routes[r].invalidation_watermark
          /\ routes'[r].binding # routes[r].binding =>
               routes'[r].generation > routes[r].generation
       \/ Recreated(r)]_vars

(* A retired lineage does not become installed from a delayed completion or  *)
(* regain authority through a reconnect (README 7), and a superseded one     *)
(* does not come back except to be revoked: nothing but a publication that   *)
(* creates the lineage anew ends either state.                               *)
RetirementEndsByRecreation ==
  [][\A r \in Present :
       \/ /\ routes[r].lifecycle = "Retired" =>
               routes'[r].lifecycle \in {"Retired", "Superseded"}
          /\ routes[r].lifecycle = "Superseded" =>
               \/ routes'[r].lifecycle = "Superseded"
               \/ routes'[r].lifecycle = "Retired" /\ r \in revocations' \ revocations
       \/ Recreated(r)]_vars

-----------------------------------------------------------------------------
(* Statements of the repository that the code does not keep.                 *)

(* At most one authoritative route per key (README 2.1), and the key index   *)
(* names it: the index holds exactly the lineages that are not superseded.   *)
KeyIndexIsExact ==
  opened => \A k \in Keys, r \in RouteIds :
    key_index[k] = r <=> /\ r \in Present
                        /\ routes[r].key = k
                        /\ routes[r].lifecycle # "Superseded"

(* A revoked key can never be recreated (README 7): its revoked lineage stays *)
(* retired and keeps the key.                                                *)
RevocationIsFinal ==
  \A r \in revocations :
    /\ r \in Present /\ routes[r].lifecycle = "Retired"
    /\ opened => key_index[routes[r].key] = r

(* A retired lineage, superseded or not, cannot be silently recreated        *)
(* (README 7).                                                               *)
RetirementIsFinal ==
  [][\A r \in Present : BlocksRepublication(routes[r].lifecycle) =>
       BlocksRepublication(routes'[r].lifecycle)]_vars

-----------------------------------------------------------------------------
(* Three things the code lets happen upset the history of a lineage, and the *)
(* properties below hold as long as none of them does.                       *)

\* A publication mints an identity that a route has, or that another key derives.
ReusesLineage ==
  \E p \in Publishers, b \in Boots, k \in Keys, binding \in Bindings,
     lineage \in RouteIds, a \in AttemptIds :
    /\ lineage \in Present \/ \E l \in Keys \ {k} : DerivedId[l] = lineage
    /\ \/ PublishNew(p, b, k, binding, lineage, a) /\ lineage # DerivedId[k]
       \/ PublishTakeover(p, b, k, binding, lineage, a)

\* A takeover stops after its first half.
HalvesTakeover ==
  \E p \in Publishers, b \in Boots, k \in Keys, lineage \in RouteIds :
    PublishTakeoverFails(p, b, k, lineage)

\* A superseded lineage is revoked.
RevokesPredecessor ==
  \E p \in Publishers, b \in Boots, r \in Present :
    routes[r].lifecycle = "Superseded" /\ RevokeRoute(p, b, r)

Lapse == ReusesLineage \/ HalvesTakeover \/ RevokesPredecessor

Lapseless == [][~Lapse]_vars

(* Every record a later Open would load passes validate_route_record, except *)
(* those of superseded lineages: no interleaving of completions, path        *)
(* invalidations, retirements and restarts leaves an INSTALLED record        *)
(* without an applied outcome, a FAILED one without a refusal, or an applied *)
(* generation ahead of the record.                                           *)
LiveRecordsValid ==
  \A r \in Present : routes[r].lifecycle # "Superseded" => ValidRecord(routes[r])

(* A completion that is not stale finds its route in the lifecycle its       *)
(* operation expects, so LifecycleRejected is never the answer to it.        *)
CompletionsFitLifecycle ==
  \A a \in Unresolved :
    LET rec == routes[attempts[a].route] IN
    ~Stale(attempts[a], rec) =>
      rec.lifecycle = IF attempts[a].operation = "Withdraw" THEN "Withdrawing"
                                                            ELSE "Installing"

(* While INSTALLING or WITHDRAWING, the attempt of the record is unresolved, *)
(* unless the epoch advanced after it was dispatched: no other interleaving  *)
(* leaves a route waiting for a completion that was consumed.                *)
WaitingHasAttempt ==
  \A r \in Present : HasOutstandingProgramming(routes[r].lifecycle) =>
    LET a == routes[r].applied.attempt IN
    a \in Unresolved \/ (a \in Started /\ attempts[a].epoch # epoch)

(* has_outstanding_programming: "True when a programming attempt is          *)
(* outstanding in this state" (lifecycle.hpp), without that exception.       *)
WaitingIsOutstanding ==
  \A r \in Present : HasOutstandingProgramming(routes[r].lifecycle) =>
    routes[r].applied.attempt \in Unresolved

(* A route waiting for an outcome takes it only from the attempt that its    *)
(* last publication, withdrawal or revalidation started (README 4: "Attempts *)
(* older than the current watermark can never be applied").                  *)
OutcomeIsOwn ==
  [][\A r \in Present :
       /\ HasOutstandingProgramming(routes[r].lifecycle)
       /\ ~HasOutstandingProgramming(routes'[r].lifecycle)
       => routes'[r].applied.attempt = routes[r].applied.attempt]_vars

\* Route r waits for the outcome of attempt a, which belongs to this epoch.
WaitsFor(r, a) ==
  /\ opened
  /\ r \in Present /\ a \in Started
  /\ HasOutstandingProgramming(routes[r].lifecycle)
  /\ routes[r].applied.attempt = a
  /\ attempts[a].epoch = epoch

(* When the backend answers its calls, no route waits for one attempt        *)
(* forever: it takes the outcome, moves on to another attempt, or recovery   *)
(* gives the attempt up.  The epoch of the attempt is the one exception (see *)
(* WaitingHasAttempt).  RouteProgramming states the fairness of the calls.   *)
WaitingEnds ==
  \A r \in RouteIds, a \in AttemptIds : WaitsFor(r, a) ~> ~WaitsFor(r, a)
=============================================================================
