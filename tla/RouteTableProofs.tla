-------------------------- MODULE RouteTableProofs --------------------------
(***************************************************************************)
(* Theorems about the route table, the key index and the attempt table of    *)
(* RouteRuntime: what the stale completion defence, recovery and the         *)
(* takeover rules are for.                                                   *)
(*                                                                          *)
(* A step is first brought into one of four forms (StepForms): an attempt    *)
(* starts, routes move on without one, an attempt ends, or the process       *)
(* restarts.  The invariants are then proved over the forms.  A lapse of     *)
(* RouteRuntime has none of them, and the theorems that rest on the forms    *)
(* have Lapseless as a hypothesis.                                           *)
(***************************************************************************)
EXTENDS RouteRuntimeProofs, FiniteSetTheorems

-----------------------------------------------------------------------------
(* The inductive invariant.                                                  *)

\* The attempt was started for a present route that has since only advanced.
AttemptIsPast(a) ==
  LET at == attempts[a]
      rec == routes[at.route]
  IN /\ at.route \in Present
     /\ at.desired_generation <= rec.generation
     /\ at.programming_generation <= rec.programming_generation
     /\ at.epoch <= epoch

\* The lifecycle in which a route waits for an attempt of the operation.
WaitingFor(operation) == IF operation = "Withdraw" THEN "Withdrawing" ELSE "Installing"

\* Attempt a was started for the generations that record rec has.
Matches(a, rec) ==
  /\ attempts[a].programming_generation = rec.programming_generation
  /\ attempts[a].desired_generation = rec.generation

AttemptsArePast == \A a \in Started : AttemptIsPast(a)

\* A route starts at most one attempt with a programming generation.
AttemptsDiffer ==
  \A a, b \in Started :
    /\ attempts[a].route = attempts[b].route
    /\ attempts[a].programming_generation = attempts[b].programming_generation
    => a = b

\* The route of an unresolved attempt that is not outdated waits for it.
UnresolvedAreAwaited ==
  \A a \in Unresolved :
    LET rec == routes[attempts[a].route] IN
    Matches(a, rec) /\ ~BlocksRepublication(rec.lifecycle)
      => rec.lifecycle = WaitingFor(attempts[a].operation)

\* A waiting route waits for the attempt its record names, which is unresolved or
\* was started in an earlier epoch.
Awaits(r, a) ==
  /\ a \in Started
  /\ attempts[a].route = r
  /\ Matches(a, routes[r])
  /\ routes[r].lifecycle = WaitingFor(attempts[a].operation)
  /\ a \in Unresolved \/ attempts[a].epoch < epoch

WaitingAwait ==
  \A r \in Present : HasOutstandingProgramming(routes[r].lifecycle) =>
    Awaits(r, routes[r].applied.attempt)

AttemptInv ==
  /\ AttemptsArePast
  /\ AttemptsDiffer
  /\ UnresolvedAreAwaited
  /\ WaitingAwait

\* A derived identity belongs to its key.
IdentitiesKeepKeys ==
  \A r \in Present, k \in Keys : r = DerivedId[k] => routes[r].key = k

\* A key some lineage has is held by one: a superseded lineage has a successor.
KeysAreHeld == opened => \A r \in Present : key_index[routes[r].key] # None

RevokedAreRetired ==
  \A r \in revocations : r \in Present /\ routes[r].lifecycle = "Retired"

\* A superseded record keeps the retirement of its lineage, so that it does not
\* load again.
SupersededKeepCause ==
  \A r \in Present : routes[r].lifecycle = "Superseded" => routes[r].retirement # "None"

IndexInv ==
  /\ KeyIndexIsExact
  /\ IdentitiesKeepKeys
  /\ KeysAreHeld
  /\ RevokedAreRetired
  /\ SupersededKeepCause

TableInv ==
  /\ TypeInv
  /\ IndexInv
  /\ AttemptInv
  /\ LiveRecordsValid

-----------------------------------------------------------------------------
(* The forms of a step.                                                      *)

\* Everything about the record but its observation and provenance is as before.
Observed(old, new) ==
  /\ new.key = old.key /\ new.binding = old.binding
  /\ new.generation = old.generation
  /\ new.authority_generation = old.authority_generation
  /\ new.invalidation_watermark = old.invalidation_watermark
  /\ new.programming_generation = old.programming_generation
  /\ new.lifecycle = old.lifecycle
  /\ new.applied = old.applied
  /\ new.retirement = old.retirement

\* The record has moved on to its next generation, and no attempt was made for it.
Moved(old, new) ==
  /\ new.key = old.key /\ new.binding = old.binding
  /\ new.generation = old.generation + 1
  /\ new.invalidation_watermark >= old.invalidation_watermark
  /\ new.programming_generation = old.programming_generation
  /\ new.applied = old.applied
  /\ \/ /\ new.lifecycle = "RevalidationRequired" /\ ValidRecord(new)
        /\ ~BlocksRepublication(old.lifecycle)
     \/ /\ new.lifecycle = "Retired" /\ ValidRecord(new)
        /\ old.lifecycle # "Superseded"
     \/ /\ new.lifecycle = "Superseded" /\ old.lifecycle = "Retired"
        /\ new.retirement = old.retirement

\* Route s is absent and stays so, or it is observed or moves on.
Bystander(s) ==
  IF s \in Present
  THEN /\ routes'[s] \in RouteRecords
       /\ Observed(routes[s], routes'[s]) \/ Moved(routes[s], routes'[s])
  ELSE routes'[s] = None

\* No attempt starts or ends, and no lineage is superseded.
MoveStep ==
  /\ UNCHANGED <<attempts, outstanding_programming, key_index, opened>>
  /\ epoch' >= epoch
  /\ \A s \in RouteIds : Bystander(s)
  /\ \A s \in Present : routes'[s].lifecycle = "Superseded" <=>
                          routes[s].lifecycle = "Superseded"
  /\ revocations \subseteq revocations'
  /\ \A s \in revocations' \ revocations :
       s \in Present /\ routes'[s].lifecycle = "Retired"

\* Record new starts waiting for attempt a, and replaces old if there was one.
Programs(old, new, a, op) ==
  /\ new \in RouteRecords /\ ValidRecord(new)
  /\ new.applied.attempt = a
  /\ new.lifecycle = WaitingFor(op)
  /\ old # None =>
       /\ new.key = old.key
       /\ new.generation = old.generation + 1
       /\ new.programming_generation = old.programming_generation + 1
       /\ new.invalidation_watermark >= old.invalidation_watermark
       /\ ~BlocksRepublication(old.lifecycle)

\* Attempt a starts for route r, which takes its key over from the lineage that
\* had it.
StartStep(r, a, op) ==
  /\ opened
  /\ attempts[a] = None
  /\ Programs(routes[r], routes'[r], a, op)
  /\ attempts' = [attempts EXCEPT ![a] =
       [route                  |-> r,
        desired_generation     |-> routes'[r].generation,
        programming_generation |-> routes'[r].programming_generation,
        operation              |-> op,
        epoch                  |-> epoch,
        resolved               |-> FALSE]]
  /\ outstanding_programming' = outstanding_programming + 1
  /\ \A s \in RouteIds \ {r} : Bystander(s)
  /\ \A s \in Present \ {r} :
       /\ routes[s].lifecycle = "Superseded" => routes'[s].lifecycle = "Superseded"
       /\ routes[s].key = routes'[r].key => routes'[s].lifecycle = "Superseded"
       /\ routes'[s].lifecycle = "Superseded" /\ routes[s].lifecycle # "Superseded"
            => routes[s].key = routes'[r].key /\ s \notin revocations
  /\ \A k \in Keys : r = DerivedId[k] => routes'[r].key = k
  /\ key_index' = [key_index EXCEPT ![routes'[r].key] = r]
  /\ UNCHANGED <<revocations, opened, epoch>>

\* The record takes the outcome of attempt a.
Ended(old, new, a) ==
  /\ new \in RouteRecords /\ ValidRecord(new)
  /\ new.key = old.key /\ new.binding = old.binding
  /\ new.generation = old.generation
  /\ new.invalidation_watermark = old.invalidation_watermark
  /\ new.programming_generation = old.programming_generation
  /\ new.applied.attempt = a
  /\ new.lifecycle \in {"Installed", "Failed", "RevalidationRequired", "Withdrawn"}

\* Attempt a ends; its route takes the outcome unless the attempt is stale.
EndStep(a) ==
  LET r == attempts[a].route IN
  /\ opened
  /\ a \in Unresolved
  /\ r \in Present
  /\ attempts' = [attempts EXCEPT ![a].resolved = TRUE]
  /\ outstanding_programming' =
       IF outstanding_programming > 0 THEN outstanding_programming - 1 ELSE 0
  /\ \A s \in RouteIds \ {r} : routes'[s] = routes[s]
  /\ IF Stale(attempts[a], routes[r])
     THEN routes'[r] = routes[r]
     ELSE Ended(routes[r], routes'[r], a)
  /\ UNCHANGED <<key_index, revocations, opened, epoch>>

StepForm ==
  \/ MoveStep
  \/ \E r \in RouteIds, a \in AttemptIds, op \in {"Install", "Replace", "Withdraw"} :
       StartStep(r, a, op)
  \/ \E a \in AttemptIds : EndStep(a)
  \/ Open
  \/ Crash

-----------------------------------------------------------------------------
(* Records and the index.                                                    *)

(* A present route has a record, whose counters are numbers.                 *)
LEMMA PresentRecord ==
  ASSUME TypeInv, NEW r \in Present
  PROVE  /\ r \in RouteIds
         /\ routes[r] \in RouteRecords
         /\ routes[r] # None
         /\ WatermarkOK(routes[r])
BY DEF TypeInv, TypeOK, Present

LEMMA RecordNumbers ==
  ASSUME NEW rec \in RouteRecords
  PROVE  /\ rec.generation \in Nat
         /\ rec.authority_generation \in Nat
         /\ rec.invalidation_watermark \in Nat
         /\ rec.programming_generation \in Nat
         /\ rec.applied.programmed_generation \in Nat
         /\ rec.applied.programming_generation \in Nat
         /\ rec.key \in Keys
BY RuntimeAssumption DEF RouteRecords, AppliedStates, Generations

(* A started attempt has a record.                                           *)
LEMMA StartedRecord ==
  ASSUME TypeInv, NEW a \in Started
  PROVE  /\ a \in AttemptIds
         /\ attempts[a] \in AttemptRecords
         /\ attempts[a].route \in RouteIds
         /\ attempts[a].desired_generation \in Nat
         /\ attempts[a].programming_generation \in Nat
         /\ attempts[a].epoch \in Nat
<1>1. a \in AttemptIds /\ attempts[a] \in AttemptRecords
  BY DEF TypeInv, TypeOK, Started
<1> QED BY <1>1, RuntimeAssumption, AuthorityAssumption DEF AttemptRecords, Generations

(* Advancing a record changes its two generations only.                      *)
LEMMA AdvancedKeeps ==
  ASSUME NEW rec \in RouteRecords
  PROVE  /\ Advanced(rec).key = rec.key
         /\ Advanced(rec).binding = rec.binding
         /\ Advanced(rec).lifecycle = rec.lifecycle
         /\ Advanced(rec).applied = rec.applied
         /\ Advanced(rec).retirement = rec.retirement
BY DEF Advanced, RouteRecords

(* A commit that leaves key and supersession of a present route alone leaves *)
(* an exact index alone.                                                     *)
LEMMA IndexKept ==
  ASSUME TypeInv, KeyIndexIsExact, opened, NEW r \in Present, NEW rec \in RouteRecords,
         rec.key = routes[r].key,
         rec.lifecycle = "Superseded" <=> routes[r].lifecycle = "Superseded"
  PROVE  Reindexed(key_index, routes, r, rec) = key_index
<1>1. r \in RouteIds /\ rec.key \in Keys
  BY PresentRecord, RecordNumbers
<1>2. \A k \in Keys : key_index[k] = r <=> /\ routes[r].key = k
                                          /\ routes[r].lifecycle # "Superseded"
  BY <1>1 DEF KeyIndexIsExact
<1>3. \A k \in Keys : Reindexed(key_index, routes, r, rec)[k] = key_index[k]
  BY <1>1, <1>2 DEF Reindexed
<1>4. key_index \in [Keys -> RouteIds \cup {None}]
  BY DEF TypeInv, TypeOK
<1> QED BY <1>3, <1>4 DEF Reindexed

(* A commit of an observed or moved version of a present route.              *)
LEMMA CommitForm ==
  ASSUME TypeInv, KeyIndexIsExact, opened, NEW r \in Present, NEW rec \in RouteRecords,
         \/ Observed(routes[r], rec)
         \/ Moved(routes[r], rec) /\ rec.lifecycle # "Superseded",
         Commit(r, rec)
  PROVE  /\ \A s \in RouteIds : Bystander(s)
         /\ \A s \in Present : routes'[s].lifecycle = "Superseded" <=>
                                 routes[s].lifecycle = "Superseded"
         /\ routes'[r] = rec
         /\ key_index' = key_index
<1>1. /\ rec.key = routes[r].key
      /\ rec.lifecycle = "Superseded" <=> routes[r].lifecycle = "Superseded"
  BY DEF Observed, Moved, BlocksRepublication
<1>2. key_index' = key_index
  BY <1>1, IndexKept DEF Commit, CommitOn
<1>3. /\ r \in RouteIds /\ routes \in [RouteIds -> RouteRecords \cup {None}]
      /\ routes' = [routes EXCEPT ![r] = rec]
  BY DEF Commit, CommitOn, Present, TypeInv, TypeOK
<1>4. routes'[r] = rec /\ \A s \in RouteIds \ {r} : routes'[s] = routes[s]
  BY <1>3
<1>5. \A s \in RouteIds : Bystander(s)
  <2>1. Bystander(r)
    BY <1>4 DEF Bystander
  <2>2. ASSUME NEW s \in RouteIds \ {r} PROVE Bystander(s)
    BY <1>3, <1>4 DEF Bystander, Present, Observed
  <2> QED BY <2>1, <2>2
<1>6. \A s \in Present : routes'[s].lifecycle = "Superseded" <=>
                           routes[s].lifecycle = "Superseded"
  BY <1>1, <1>4 DEF Present
<1> QED BY <1>2, <1>4, <1>5, <1>6

(* The epoch is a number, and the authority steps of a life keep it.         *)
LEMMA EpochNumber ==
  ASSUME TypeInv
  PROVE  epoch \in Nat
BY EpochType DEF TypeInv, TypeOK

(* Reconciliation observes one route.                                        *)
LEMMA ReconcileForm ==
  ASSUME TypeInv, KeyIndexIsExact, Reconcile
  PROVE  MoveStep
<1>1. PICK r \in RouteIds, presence \in Presences, agrees \in BOOLEAN :
        ReconcileRoute(r, presence, agrees)
  BY DEF Reconcile
<1> DEFINE seen == ObservationOf(routes[r], presence, agrees)
           rec == [routes[r] EXCEPT !.observation = seen]
<1>2. r \in Present /\ routes[r] \in RouteRecords /\ opened
  BY <1>1 DEF ReconcileRoute, TypeInv, TypeOK, Present
<1>3. seen \in Observations
  BY RuntimeAssumption DEF ObservationOf, Observations
<1>4. Commit(r, rec)
      /\ UNCHANGED <<authorityVars, attempts, revocations, outstanding_programming>>
  BY <1>1 DEF ReconcileRoute, CommitValid
<1> HIDE DEF seen
<1>5. rec \in RouteRecords /\ Observed(routes[r], rec)
  BY <1>2, <1>3 DEF RouteRecords, Observed
<1> HIDE DEF rec
<1>6. /\ \A s \in RouteIds : Bystander(s)
      /\ \A s \in Present : routes'[s].lifecycle = "Superseded" <=>
                              routes[s].lifecycle = "Superseded"
      /\ key_index' = key_index
  BY <1>2, <1>4, <1>5, CommitForm
<1>7. epoch' = epoch /\ opened' = opened /\ epoch \in Nat
  BY <1>4, EpochNumber DEF authorityVars
<1> QED BY <1>4, <1>6, <1>7 DEF MoveStep

(* Retirement and revocation move one route on, into RETIRED.                *)
LEMMA RetireForm ==
  ASSUME TypeInv, KeyIndexIsExact, opened, NEW r \in Present, CanAdvance(routes[r]),
         routes[r].lifecycle # "Superseded", NEW cause \in {"Administrative", "Revoked"},
         CommitValid(r, [Advanced(routes[r]) EXCEPT !.lifecycle = "Retired",
                                                    !.retirement = cause])
  PROVE  /\ \A s \in RouteIds : Bystander(s)
         /\ \A s \in Present : routes'[s].lifecycle = "Superseded" <=>
                                 routes[s].lifecycle = "Superseded"
         /\ routes'[r].lifecycle = "Retired"
         /\ key_index' = key_index
<1> DEFINE old == routes[r]
           rec == [Advanced(old) EXCEPT !.lifecycle = "Retired", !.retirement = cause]
<1>1. old \in RouteRecords /\ Advanced(old) \in RouteRecords
  BY PresentRecord, AdvancedType
<1>2. /\ rec \in RouteRecords
      /\ rec.lifecycle = "Retired"
      /\ rec.key = old.key /\ rec.binding = old.binding /\ rec.applied = old.applied
      /\ rec.generation = old.generation + 1
      /\ rec.programming_generation = old.programming_generation
      /\ rec.invalidation_watermark = old.invalidation_watermark
  BY <1>1, AdvancedKeeps, AdvancedType DEF RouteRecords, Lifecycles
<1>3. ValidRecord(rec) /\ Commit(r, rec)
  BY DEF CommitValid
<1>4. old.invalidation_watermark \in Nat
  BY <1>1, RecordNumbers
<1> HIDE DEF rec
<1>5. Moved(old, rec)
  BY <1>2, <1>3, <1>4 DEF Moved
<1> QED BY <1>2, <1>3, <1>5, CommitForm

(* What InvalidatePaths makes of a valid live record is its next generation. *)
LEMMA InvalidatedForm ==
  ASSUME NEW rec \in RouteRecords, CanAdvance(rec), ValidRecord(rec),
         ~BlocksRepublication(rec.lifecycle), WatermarkOK(rec)
  PROVE  /\ InvalidatedRecord(rec) \in RouteRecords
         /\ Moved(rec, InvalidatedRecord(rec))
         /\ InvalidatedRecord(rec).lifecycle = "RevalidationRequired"
<1> DEFINE next == Advanced(rec)
           new == InvalidatedRecord(rec)
<1>1. /\ next \in RouteRecords
      /\ next.generation = rec.generation + 1
      /\ next.authority_generation = rec.authority_generation + 1
      /\ next.programming_generation = rec.programming_generation
      /\ next.key = rec.key /\ next.binding = rec.binding
      /\ next.applied = rec.applied /\ next.retirement = rec.retirement
  BY AdvancedType, AdvancedKeeps
<1>2. new = [next EXCEPT !.invalidation_watermark = rec.authority_generation + 1,
                         !.lifecycle = "RevalidationRequired"]
  BY DEF InvalidatedRecord
<1> HIDE DEF next, new
<1>3. rec.authority_generation + 1 \in Generations
  BY <1>1 DEF RouteRecords
<1>4. /\ new \in RouteRecords
      /\ new.lifecycle = "RevalidationRequired"
      /\ new.key = rec.key /\ new.binding = rec.binding
      /\ new.applied = rec.applied /\ new.retirement = rec.retirement
      /\ new.generation = rec.generation + 1
      /\ new.authority_generation = rec.authority_generation + 1
      /\ new.invalidation_watermark = rec.authority_generation + 1
      /\ new.programming_generation = rec.programming_generation
  BY <1>1, <1>2, <1>3 DEF RouteRecords, Lifecycles
<1>5. /\ rec.generation \in Nat /\ rec.authority_generation \in Nat
      /\ rec.applied.programmed_generation \in Nat
      /\ rec.invalidation_watermark \in Nat
  BY RecordNumbers
<1>6. ValidRecord(new)
  BY <1>4, <1>5 DEF ValidRecord, BlocksRepublication
<1>7. Moved(rec, new)
  BY <1>4, <1>5, <1>6 DEF Moved, WatermarkOK
<1> QED BY <1>4, <1>7 DEF new

(* Path invalidation moves every route it hits on.                           *)
LEMMA PathChangeForm ==
  ASSUME TypeInv, KeyIndexIsExact, LiveRecordsValid, PathChange
  PROVE  MoveStep
<1>1. ASSUME NEW ps, NEW answers, InvalidatePaths(ps, answers), opened
      PROVE  MoveStep
  <2> DEFINE hit == {r \in RouteIds : \E p \in ps : Invalidates(p, answers[p], r)}
  <2>1. /\ routes' = [r \in RouteIds |-> IF r \in hit THEN InvalidatedRecord(routes[r])
                                                    ELSE routes[r]]
        /\ \A r \in hit : CanAdvance(routes[r])
        /\ key_index' \in [Keys -> RouteIds \cup {None}]
        /\ UNCHANGED <<authorityVars, attempts, revocations, outstanding_programming>>
    BY <1>1 DEF InvalidatePaths
  <2>2. \A r \in hit : r \in Present /\ ~BlocksRepublication(routes[r].lifecycle)
    BY DEF Invalidates, BlocksRepublication
  <2>3. \A k \in Keys : key_index'[k] = key_index[k]
    <3> SUFFICES ASSUME NEW k \in Keys PROVE key_index'[k] = key_index[k]
      OBVIOUS
    <3> DEFINE holders == {r \in hit : routes[r].key = k}
    <3>1. key_index'[k] \in (IF holders = {} THEN {key_index[k]} ELSE holders)
      BY <1>1 DEF InvalidatePaths
    <3>2. \A r \in holders : key_index[k] = r
      BY <1>1, <2>2 DEF KeyIndexIsExact, Present, BlocksRepublication
    <3> QED BY <3>1, <3>2
  <2>4. key_index' = key_index
    BY <2>1, <2>3 DEF TypeInv, TypeOK
  <2> HIDE DEF hit
  <2>5. ASSUME NEW r \in hit
        PROVE  /\ routes'[r] \in RouteRecords
               /\ Moved(routes[r], routes'[r])
               /\ routes'[r].lifecycle = "RevalidationRequired"
    <3>1. /\ r \in RouteIds /\ routes[r] \in RouteRecords /\ WatermarkOK(routes[r])
      BY <2>2, PresentRecord
    <3>2. CanAdvance(routes[r]) /\ ValidRecord(routes[r])
      BY <2>1, <2>2 DEF LiveRecordsValid, BlocksRepublication
    <3>3. routes'[r] = InvalidatedRecord(routes[r])
      BY <2>1, <3>1
    <3> QED BY <2>2, <3>1, <3>2, <3>3, InvalidatedForm
  <2>6. ASSUME NEW s \in RouteIds, s \notin hit PROVE routes'[s] = routes[s]
    BY <2>1, <2>6
  <2>7. \A s \in RouteIds : Bystander(s)
    BY <2>2, <2>5, <2>6 DEF Bystander, Observed, Present, TypeInv, TypeOK
  <2>8. \A s \in Present : routes'[s].lifecycle = "Superseded" <=>
                             routes[s].lifecycle = "Superseded"
    BY <2>2, <2>5, <2>6 DEF Present, BlocksRepublication
  <2>9. epoch' = epoch /\ opened' = opened /\ epoch \in Nat
    BY <2>1, EpochNumber DEF authorityVars
  <2> QED BY <2>1, <2>4, <2>7, <2>8, <2>9 DEF MoveStep
<1> QED BY <1>1 DEF PathChange, OnPathAuthorityChanged, RevalidatePathAuthorities

(* The steps of the authority and of the paths leave the tables alone.       *)
LEMMA StandForm ==
  ASSUME TypeInv, UNCHANGED routeVars, UNCHANGED opened, epoch' \in {epoch, epoch + 1}
  PROVE  MoveStep
<1>1. epoch' >= epoch
  BY EpochNumber
<1>2. \A s \in RouteIds : Bystander(s)
  BY DEF Bystander, Observed, Present, routeVars, TypeInv, TypeOK
<1> QED BY <1>1, <1>2 DEF MoveStep, routeVars

(* So is an authority step of a life, apart from an advance of the epoch.    *)
LEMMA AuthorityStepLife ==
  ASSUME AuthorityStep
  PROVE  UNCHANGED <<epoch, opened>>
BY DEF AuthorityStep, RegisterPublisher, FencePublisher, FenceWorkerBoot,
       ClearAdministrativeFence

-----------------------------------------------------------------------------
(* The steps that start an attempt.                                          *)

(* What preparing an attempt does to a record.                               *)
LEMMA PreparedFields ==
  ASSUME NEW rec \in RouteRecords, NEW l, NEW a
  PROVE  /\ Prepared(rec, l, a).key = rec.key
         /\ Prepared(rec, l, a).generation = rec.generation
         /\ Prepared(rec, l, a).invalidation_watermark = rec.invalidation_watermark
         /\ Prepared(rec, l, a).programming_generation = rec.programming_generation + 1
         /\ Prepared(rec, l, a).lifecycle = l
         /\ Prepared(rec, l, a).applied.attempt = a
BY DEF Prepared, PendingApplied, RouteRecords

(* StartAttempt for the next version rec of a live route.                    *)
LEMMA ReprogramForm ==
  ASSUME TypeInv, IndexInv, opened, NEW r \in Present, NEW rec \in RouteRecords,
         NEW a \in AttemptIds, NEW op \in {"Install", "Replace", "Withdraw"},
         ~BlocksRepublication(routes[r].lifecycle),
         rec.key = routes[r].key,
         rec.generation = routes[r].generation + 1,
         rec.programming_generation = routes[r].programming_generation,
         rec.invalidation_watermark = routes[r].invalidation_watermark,
         StartAttempt(routes, key_index, r, Prepared(rec, WaitingFor(op), a), a, op),
         UNCHANGED authorityVars
  PROVE  StartStep(r, a, op)
<1> DEFINE new == Prepared(rec, WaitingFor(op), a)
           old == routes[r]
<1>1. r \in RouteIds /\ old \in RouteRecords /\ old # None
  BY PresentRecord
<1>2. /\ new.key = old.key
      /\ new.generation = old.generation + 1
      /\ new.programming_generation = old.programming_generation + 1
      /\ new.invalidation_watermark = old.invalidation_watermark
      /\ new.lifecycle = WaitingFor(op)
      /\ new.applied.attempt = a
  BY PreparedFields
<1>3. new \in RouteRecords
  <2>1. rec.programming_generation + 1 <= MaxGeneration
    BY PreparedFields DEF StartAttempt
  <2> QED BY <2>1, PreparedType DEF WaitingFor, Lifecycles
<1> HIDE DEF new
<1>4. /\ attempts[a] = None /\ ValidRecord(new)
      /\ routes' = [routes EXCEPT ![r] = new]
      /\ key_index' = Reindexed(key_index, routes, r, new)
      /\ attempts' = [attempts EXCEPT ![a] =
           [route                  |-> r,
            desired_generation     |-> new.generation,
            programming_generation |-> new.programming_generation,
            operation              |-> op,
            epoch                  |-> epoch,
            resolved               |-> FALSE]]
      /\ outstanding_programming' = outstanding_programming + 1
      /\ UNCHANGED <<revocations, opened, epoch>>
  BY DEF StartAttempt, CommitOn, new, authorityVars
<1>5. routes'[r] = new /\ \A s \in RouteIds \ {r} : routes'[s] = routes[s]
  BY <1>1, <1>4 DEF TypeInv, TypeOK
<1>6. Programs(old, new, a, op)
  <2>1. old.invalidation_watermark \in Nat
    BY <1>1, RecordNumbers
  <2> QED BY <1>2, <1>3, <1>4, <2>1 DEF Programs
<1>7. key_index[old.key] = r /\ old.key \in Keys
  BY <1>1, RecordNumbers DEF IndexInv, KeyIndexIsExact, BlocksRepublication
<1>8. key_index' = [key_index EXCEPT ![new.key] = r]
  <2>1. Reindexed(key_index, routes, r, new) = key_index
    BY <1>2, <1>3, IndexKept DEF IndexInv, WaitingFor, BlocksRepublication
  <2> QED BY <1>2, <1>4, <1>7, <2>1 DEF TypeInv, TypeOK
<1>9. \A s \in RouteIds \ {r} : Bystander(s)
  BY <1>5 DEF Bystander, Observed, Present, TypeInv, TypeOK
<1>10. \A s \in Present \ {r} :
         /\ routes'[s].lifecycle = routes[s].lifecycle
         /\ routes[s].key = new.key => routes[s].lifecycle = "Superseded"
  <2> SUFFICES ASSUME NEW s \in Present \ {r}
               PROVE  /\ routes'[s].lifecycle = routes[s].lifecycle
                      /\ routes[s].key = new.key => routes[s].lifecycle = "Superseded"
    OBVIOUS
  <2>1. s \in RouteIds /\ routes'[s] = routes[s]
    BY <1>5 DEF Present
  <2> QED BY <1>2, <1>7, <2>1 DEF IndexInv, KeyIndexIsExact
<1>11. \A k \in Keys : r = DerivedId[k] => new.key = k
  BY <1>2 DEF IndexInv, IdentitiesKeepKeys
<1> QED BY <1>4, <1>5, <1>6, <1>8, <1>9, <1>10, <1>11 DEF StartStep

(* Withdrawal and revalidation start an attempt, retirement and revocation   *)
(* move the route on.                                                        *)
LEMMA MutateForm ==
  ASSUME TypeInv, IndexInv, ~Lapse, Mutate
  PROVE  StepForm
<1>0. ASSUME NEW r \in Present, CanAdvance(routes[r])
      PROVE  /\ routes[r] \in RouteRecords
             /\ Advanced(routes[r]) \in RouteRecords
             /\ Advanced(routes[r]).key = routes[r].key
             /\ Advanced(routes[r]).generation = routes[r].generation + 1
             /\ Advanced(routes[r]).programming_generation = routes[r].programming_generation
             /\ Advanced(routes[r]).invalidation_watermark = routes[r].invalidation_watermark
  BY <1>0, PresentRecord, AdvancedType, AdvancedKeeps
<1>1. ASSUME NEW p \in Publishers, NEW b \in Boots, NEW r \in RouteIds,
             NEW a \in AttemptIds, WithdrawRoute(p, b, r, a)
      PROVE  StartStep(r, a, "Withdraw")
  <2>1. PICK next \in NextLifecycle(routes[r].lifecycle, "BeginWithdraw") :
          StartAttempt(routes, key_index, r, Prepared(Advanced(routes[r]), next, a),
                       a, "Withdraw")
    BY <1>1 DEF WithdrawRoute
  <2>2. next = WaitingFor("Withdraw")
    BY BeginEvents DEF WaitingFor
  <2>3. /\ r \in Present /\ CanAdvance(routes[r]) /\ opened
        /\ ~BlocksRepublication(routes[r].lifecycle)
        /\ UNCHANGED authorityVars
    BY <1>1 DEF WithdrawRoute, MayMutate, Authorized, Present
  <2> QED BY <1>0, <2>1, <2>2, <2>3, ReprogramForm
<1>2. ASSUME NEW p \in Publishers, NEW b \in Boots, NEW r \in RouteIds,
             NEW a \in AttemptIds, RevalidateRoute(p, b, r, a)
      PROVE  StepForm
  <2> DEFINE rec == Authored(Advanced(routes[r]), p, b)
             op == IF ReportsApplied(routes[r].applied.classification)
                   THEN "Replace" ELSE "Install"
  <2>1. PICK next \in NextLifecycle(routes[r].lifecycle, "BeginInstall") :
          StartAttempt(routes, key_index, r, Prepared(rec, next, a), a, op)
    BY <1>2 DEF RevalidateRoute
  <2>2. op \in {"Install", "Replace", "Withdraw"} /\ next = WaitingFor(op)
    BY BeginEvents DEF WaitingFor
  <2>3. /\ r \in Present /\ CanAdvance(routes[r]) /\ opened
        /\ ~BlocksRepublication(routes[r].lifecycle)
        /\ UNCHANGED authorityVars
    BY <1>2 DEF RevalidateRoute, MayMutate, Authorized, Present
  <2>4. epoch \in 1..MaxEpoch
    BY DEF TypeInv, TypeOK, AuthorityTypeOK
  <2>5. Advanced(routes[r]) \in RouteRecords
    BY <1>0, <2>3
  <2>6. /\ rec \in RouteRecords
        /\ rec.key = Advanced(routes[r]).key
        /\ rec.generation = Advanced(routes[r]).generation
        /\ rec.programming_generation = Advanced(routes[r]).programming_generation
        /\ rec.invalidation_watermark = Advanced(routes[r]).invalidation_watermark
    BY <2>4, <2>5 DEF Authored, RouteRecords
  <2> HIDE DEF rec, op
  <2>7. StartStep(r, a, op)
    BY <1>0, <2>1, <2>2, <2>3, <2>6, ReprogramForm
  <2> QED BY <2>2, <2>7 DEF StepForm
<1>3. ASSUME NEW p \in Publishers, NEW b \in Boots, NEW r \in RouteIds,
             RetireRoute(p, b, r)
      PROVE  MoveStep
  <2>1. PICK next \in NextLifecycle(routes[r].lifecycle, "Retire") :
          CommitValid(r, [Advanced(routes[r]) EXCEPT !.lifecycle = next,
                                                     !.retirement = "Administrative"])
    BY <1>3 DEF RetireRoute
  <2>2. next = "Retired"
    BY BeginEvents
  <2>3. /\ r \in Present /\ CanAdvance(routes[r]) /\ opened
        /\ routes[r].lifecycle # "Superseded"
        /\ UNCHANGED <<authorityVars, attempts, revocations, outstanding_programming>>
    BY <1>3 DEF RetireRoute, MayMutate, Authorized, Present, BlocksRepublication
  <2>4. /\ \A s \in RouteIds : Bystander(s)
        /\ \A s \in Present : routes'[s].lifecycle = "Superseded" <=>
                                routes[s].lifecycle = "Superseded"
        /\ key_index' = key_index
    BY <2>1, <2>2, <2>3, RetireForm DEF IndexInv
  <2>5. epoch' = epoch /\ opened' = opened /\ epoch \in Nat
    BY <2>3, EpochNumber DEF authorityVars
  <2> QED BY <2>3, <2>4, <2>5 DEF MoveStep
<1>4. ASSUME NEW p \in Publishers, NEW b \in Boots, NEW r \in RouteIds,
             RevokeRoute(p, b, r)
      PROVE  MoveStep
  <2>1. PICK next \in NextLifecycle(routes[r].lifecycle, "Revoke") :
          CommitValid(r, [Advanced(routes[r]) EXCEPT !.lifecycle = next,
                                                     !.retirement = "Revoked"])
    BY <1>4 DEF RevokeRoute
  <2>2. next = "Retired"
    BY BeginEvents
  <2>3. /\ r \in Present /\ CanAdvance(routes[r]) /\ opened
        /\ routes[r].lifecycle # "Superseded"
        /\ UNCHANGED <<authorityVars, attempts, outstanding_programming>>
        /\ revocations' = revocations \cup {r}
    BY <1>4 DEF RevokeRoute, Authorized, Present, Lapse, RevokesPredecessor
  <2>4. /\ \A s \in RouteIds : Bystander(s)
        /\ \A s \in Present : routes'[s].lifecycle = "Superseded" <=>
                                routes[s].lifecycle = "Superseded"
        /\ routes'[r].lifecycle = "Retired"
        /\ key_index' = key_index
    BY <2>1, <2>2, <2>3, RetireForm DEF IndexInv
  <2>5. epoch' = epoch /\ opened' = opened /\ epoch \in Nat
    BY <2>3, EpochNumber DEF authorityVars
  <2> QED BY <2>3, <2>4, <2>5 DEF MoveStep
<1> QED BY <1>1, <1>2, <1>3, <1>4 DEF Mutate, StepForm

(* The creation half of publish_one, for an identity no route has.           *)
LEMMA CreateForm ==
  ASSUME TypeInv, NEW rs, NEW ki, NEW p \in Publishers, NEW b \in Boots, NEW k \in Keys,
         NEW binding \in Bindings, NEW r \in RouteIds, NEW a \in AttemptIds,
         rs \in [RouteIds -> RouteRecords \cup {None}],
         ki \in [Keys -> RouteIds \cup {None}],
         routes[r] = None, rs[r] = None,
         CreateOn(rs, ki, p, b, k, binding, r, a)
  PROVE  /\ attempts[a] = None
         /\ Programs(routes[r], routes'[r], a, "Install")
         /\ routes'[r].key = k
         /\ \A s \in RouteIds \ {r} : routes'[s] = rs[s]
         /\ key_index' = [ki EXCEPT ![k] = r]
         /\ attempts' = [attempts EXCEPT ![a] =
              [route                  |-> r,
               desired_generation     |-> routes'[r].generation,
               programming_generation |-> routes'[r].programming_generation,
               operation              |-> "Install",
               epoch                  |-> epoch,
               resolved               |-> FALSE]]
         /\ outstanding_programming' = outstanding_programming + 1
         /\ UNCHANGED revocations
<1> DEFINE fresh == FreshRecord(p, b, k, binding, a)
           new == Prepared(fresh, "Installing", a)
<1>1. 1 \in Generations
  BY RuntimeAssumption DEF Generations
<1>2. fresh \in RouteRecords
  BY <1>1 DEF FreshRecord, RouteRecords, AppliedStates, Lifecycles, Observations,
              Classifications, TypeInv, TypeOK, AuthorityTypeOK
<1>3. fresh.key = k /\ fresh.programming_generation + 1 <= MaxGeneration
  BY RuntimeAssumption DEF FreshRecord
<1> HIDE DEF fresh
<1>4. /\ new \in RouteRecords /\ new.key = k
      /\ new.lifecycle = "Installing" /\ new.applied.attempt = a
  BY <1>2, <1>3, PreparedType, PreparedFields DEF Lifecycles
<1>5. StartAttempt(rs, ki, r, new, a, "Install")
  BY BeginEvents DEF CreateOn, fresh
<1> HIDE DEF new
<1>6. /\ attempts[a] = None /\ ValidRecord(new)
      /\ routes' = [rs EXCEPT ![r] = new]
      /\ key_index' = Reindexed(ki, rs, r, new)
      /\ attempts' = [attempts EXCEPT ![a] =
           [route                  |-> r,
            desired_generation     |-> new.generation,
            programming_generation |-> new.programming_generation,
            operation              |-> "Install",
            epoch                  |-> epoch,
            resolved               |-> FALSE]]
      /\ outstanding_programming' = outstanding_programming + 1
      /\ UNCHANGED revocations
  BY <1>5 DEF StartAttempt, CommitOn
<1>7. routes'[r] = new /\ \A s \in RouteIds \ {r} : routes'[s] = rs[s]
  BY <1>6
<1>8. key_index' = [ki EXCEPT ![k] = r]
  BY <1>4, <1>6 DEF Reindexed
<1>9. Programs(routes[r], new, a, "Install")
  BY <1>4, <1>6 DEF Programs, WaitingFor
<1> QED BY <1>4, <1>6, <1>7, <1>8, <1>9

(* A publication starts an attempt, for a new identity that takes the key    *)
(* over if a retired lineage had it, or for the route that has the key.      *)
LEMMA PublishForm ==
  ASSUME TypeInv, IndexInv, ~Lapse, Publish
  PROVE  StepForm
<1>1. ASSUME NEW p \in Publishers, NEW b \in Boots, NEW k \in Keys,
             NEW binding \in Bindings, NEW a \in AttemptIds,
             NEW lineage \in RouteIds \cup {None},
             PublishNew(p, b, k, binding, lineage, a)
      PROVE  StepForm
  <2> DEFINE r == LineageId(k, lineage)
  <2>1. /\ opened /\ key_index[k] = None
        /\ CreateOn(routes, key_index, p, b, k, binding, r, a)
        /\ UNCHANGED authorityVars
    BY <1>1 DEF PublishNew, Authorized
  <2>2. /\ r \in RouteIds
        /\ r # DerivedId[k] =>
             r \notin Present /\ \A l \in Keys \ {k} : DerivedId[l] # r
    BY <1>1, RuntimeAssumption DEF LineageId, Lapse, ReusesLineage
  <2>3. r \notin Present
    <3>1. CASE r = DerivedId[k]
      BY <2>1, <3>1 DEF IndexInv, IdentitiesKeepKeys, KeysAreHeld
    <3> QED BY <2>2, <3>1
  <2>4. \A l \in Keys : r = DerivedId[l] => k = l
    <3>1. CASE r = DerivedId[k]
      BY <3>1, RuntimeAssumption
    <3> QED BY <2>2, <3>1
  <2> HIDE DEF r
  <2>5. /\ routes[r] = None
        /\ routes \in [RouteIds -> RouteRecords \cup {None}]
        /\ key_index \in [Keys -> RouteIds \cup {None}]
    BY <2>2, <2>3 DEF Present, TypeInv, TypeOK
  <2>6. /\ attempts[a] = None
        /\ Programs(routes[r], routes'[r], a, "Install")
        /\ routes'[r].key = k
        /\ \A s \in RouteIds \ {r} : routes'[s] = routes[s]
        /\ key_index' = [key_index EXCEPT ![k] = r]
        /\ attempts' = [attempts EXCEPT ![a] =
             [route                  |-> r,
              desired_generation     |-> routes'[r].generation,
              programming_generation |-> routes'[r].programming_generation,
              operation              |-> "Install",
              epoch                  |-> epoch,
              resolved               |-> FALSE]]
        /\ outstanding_programming' = outstanding_programming + 1
        /\ UNCHANGED revocations
    BY <2>1, <2>2, <2>5, CreateForm
  <2>7. \A s \in RouteIds \ {r} : Bystander(s)
    BY <2>5, <2>6 DEF Bystander, Observed, Present
  <2>8. \A s \in Present \ {r} :
          /\ routes'[s].lifecycle = routes[s].lifecycle
          /\ routes[s].key = k => routes[s].lifecycle = "Superseded"
    <3> SUFFICES ASSUME NEW s \in Present \ {r}
                 PROVE  /\ routes'[s].lifecycle = routes[s].lifecycle
                        /\ routes[s].key = k => routes[s].lifecycle = "Superseded"
      OBVIOUS
    <3>1. s \in RouteIds /\ routes'[s] = routes[s] /\ s # None
      BY <2>6, NoneAssumption DEF Present
    <3> QED BY <2>1, <3>1 DEF IndexInv, KeyIndexIsExact
  <2>9. UNCHANGED <<opened, epoch>>
    BY <2>1 DEF authorityVars
  <2>10. StartStep(r, a, "Install")
    BY <2>1, <2>4, <2>6, <2>7, <2>8, <2>9 DEF StartStep
  <2> QED BY <2>2, <2>10 DEF StepForm
<1>2. ASSUME NEW p \in Publishers, NEW b \in Boots, NEW k \in Keys,
             NEW binding \in Bindings, NEW a \in AttemptIds,
             NEW lineage \in RouteIds \cup {None},
             PublishTakeover(p, b, k, binding, lineage, a)
      PROVE  StepForm
  <2> DEFINE q == key_index[k]
             gone == SupersededRecord(routes[q])
             rs == [routes EXCEPT ![q] = gone]
             ki == Reindexed(key_index, routes, q, gone)
  <2>1. /\ opened /\ q # None /\ q \notin revocations
        /\ BlocksRepublication(routes[q].lifecycle) /\ CanAdvance(routes[q])
        /\ lineage \in RouteIds /\ lineage # q
        /\ lineage \notin Present /\ \A l \in Keys : lineage = DerivedId[l] => l = k
        /\ CreateOn(rs, ki, p, b, k, binding, lineage, a)
        /\ UNCHANGED authorityVars
    BY <1>2 DEF PublishTakeover, MayTakeOver, Authorized, LineageId, Lapse, ReusesLineage
  <2>2. /\ q \in Present /\ q \in RouteIds
        /\ routes[q].key = k /\ routes[q].lifecycle = "Retired"
    BY <2>1 DEF TypeInv, IndexNamesLive, IndexInv, KeyIndexIsExact, Present,
                BlocksRepublication
  <2>3. routes[q] \in RouteRecords
    BY <2>2, PresentRecord
  <2>4. /\ gone \in RouteRecords
        /\ Moved(routes[q], gone)
        /\ gone.lifecycle = "Superseded" /\ gone.key = k
    <3> DEFINE next == Advanced(routes[q])
    <3>1. /\ next \in RouteRecords
          /\ next.key = k /\ next.binding = routes[q].binding
          /\ next.generation = routes[q].generation + 1
          /\ next.programming_generation = routes[q].programming_generation
          /\ next.invalidation_watermark = routes[q].invalidation_watermark
          /\ next.applied = routes[q].applied
          /\ next.retirement = routes[q].retirement
      BY <2>1, <2>2, <2>3, AdvancedType, AdvancedKeeps
    <3>2. gone = [next EXCEPT !.lifecycle = "Superseded"]
      BY DEF SupersededRecord
    <3> HIDE DEF next, gone
    <3>3. /\ gone \in RouteRecords
          /\ gone.lifecycle = "Superseded"
          /\ gone.key = k /\ gone.binding = next.binding
          /\ gone.generation = next.generation
          /\ gone.programming_generation = next.programming_generation
          /\ gone.invalidation_watermark = next.invalidation_watermark
          /\ gone.applied = next.applied
          /\ gone.retirement = next.retirement
      BY <3>1, <3>2 DEF RouteRecords, Lifecycles
    <3>4. routes[q].invalidation_watermark \in Nat
      BY <2>3, RecordNumbers
    <3> QED BY <2>2, <3>1, <3>3, <3>4 DEF Moved
  <2>5. /\ rs \in [RouteIds -> RouteRecords \cup {None}]
        /\ rs[q] = gone /\ \A s \in RouteIds \ {q} : rs[s] = routes[s]
    BY <2>2, <2>4 DEF TypeInv, TypeOK
  <2>6. /\ ki \in [Keys -> RouteIds \cup {None}]
        /\ \A l \in Keys : l # k => ki[l] = key_index[l]
    <3>0. key_index \in [Keys -> RouteIds \cup {None}]
      BY DEF TypeInv, TypeOK
    <3>1. ki = [l \in Keys |-> IF routes[q] # None /\ routes[q].key = l /\ key_index[l] = q
                               THEN None ELSE key_index[l]]
      BY <2>4 DEF Reindexed
    <3> HIDE DEF ki
    <3> QED BY <2>2, <3>0, <3>1
  <2>7. routes[lineage] = None /\ rs[lineage] = None
    BY <2>1, <2>5 DEF Present
  <2> HIDE DEF q, gone, rs, ki
  <2>8. /\ attempts[a] = None
        /\ Programs(routes[lineage], routes'[lineage], a, "Install")
        /\ routes'[lineage].key = k
        /\ \A s \in RouteIds \ {lineage} : routes'[s] = rs[s]
        /\ key_index' = [ki EXCEPT ![k] = lineage]
        /\ attempts' = [attempts EXCEPT ![a] =
             [route                  |-> lineage,
              desired_generation     |-> routes'[lineage].generation,
              programming_generation |-> routes'[lineage].programming_generation,
              operation              |-> "Install",
              epoch                  |-> epoch,
              resolved               |-> FALSE]]
        /\ outstanding_programming' = outstanding_programming + 1
        /\ UNCHANGED revocations
    BY <2>1, <2>5, <2>6, <2>7, CreateForm
  <2>9. key_index' = [key_index EXCEPT ![k] = lineage]
    BY <2>6, <2>8 DEF TypeInv, TypeOK
  <2>10. routes'[q] = gone /\ \A s \in RouteIds \ {lineage, q} : routes'[s] = routes[s]
    BY <2>1, <2>2, <2>5, <2>8
  <2>11. \A s \in RouteIds \ {lineage} : Bystander(s)
    <3>1. Bystander(q)
      BY <2>2, <2>4, <2>10 DEF Bystander
    <3>2. \A s \in RouteIds \ {lineage, q} : Bystander(s)
      BY <2>10 DEF Bystander, Observed, Present, TypeInv, TypeOK
    <3> QED BY <3>1, <3>2
  <2>12. \A s \in Present \ {lineage} :
           /\ routes[s].lifecycle = "Superseded" => routes'[s].lifecycle = "Superseded"
           /\ routes[s].key = k => routes'[s].lifecycle = "Superseded"
           /\ routes'[s].lifecycle = "Superseded" /\ routes[s].lifecycle # "Superseded"
                => routes[s].key = k /\ s \notin revocations
    <3>1. ASSUME NEW s \in Present \ {lineage, q}
          PROVE  /\ routes'[s].lifecycle = routes[s].lifecycle
                 /\ routes[s].key = k => routes[s].lifecycle = "Superseded"
      <4>1. s \in RouteIds /\ routes'[s] = routes[s] /\ key_index[k] # s
        BY <2>10 DEF Present, q
      <4> QED BY <2>1, <4>1 DEF IndexInv, KeyIndexIsExact
    <3> QED BY <2>1, <2>2, <2>4, <2>10, <3>1
  <2>13. UNCHANGED <<opened, epoch>>
    BY <2>1 DEF authorityVars
  <2>14. StartStep(lineage, a, "Install")
    BY <2>1, <2>8, <2>9, <2>11, <2>12, <2>13 DEF StartStep
  <2> QED BY <2>1, <2>14 DEF StepForm
<1>3. ASSUME NEW p \in Publishers, NEW b \in Boots, NEW k \in Keys,
             NEW binding \in Bindings, NEW a \in AttemptIds,
             PublishReplace(p, b, k, binding, a)
      PROVE  StepForm
  <2> DEFINE r == key_index[k]
             rec == [Authored(Advanced(routes[r]), p, b) EXCEPT !.binding = binding]
  <2>1. PICK next \in NextLifecycle(routes[r].lifecycle, "BeginInstall") :
          StartAttempt(routes, key_index, r, Prepared(rec, next, a), a, "Replace")
    BY <1>3 DEF PublishReplace
  <2>2. next = WaitingFor("Replace")
    BY BeginEvents DEF WaitingFor
  <2>3. /\ r \in Present /\ CanAdvance(routes[r]) /\ opened
        /\ ~BlocksRepublication(routes[r].lifecycle)
        /\ UNCHANGED authorityVars
    BY <1>3 DEF PublishReplace, MayReplace, Authorized, TypeInv, IndexNamesLive
  <2>4. epoch \in 1..MaxEpoch /\ r \in RouteIds
    BY <2>3 DEF TypeInv, TypeOK, AuthorityTypeOK, Present
  <2>5. /\ Advanced(routes[r]) \in RouteRecords
        /\ Advanced(routes[r]).key = routes[r].key
        /\ Advanced(routes[r]).generation = routes[r].generation + 1
        /\ Advanced(routes[r]).programming_generation = routes[r].programming_generation
        /\ Advanced(routes[r]).invalidation_watermark = routes[r].invalidation_watermark
    BY <2>3, PresentRecord, AdvancedType, AdvancedKeeps
  <2>6. /\ rec \in RouteRecords
        /\ rec.key = Advanced(routes[r]).key
        /\ rec.generation = Advanced(routes[r]).generation
        /\ rec.programming_generation = Advanced(routes[r]).programming_generation
        /\ rec.invalidation_watermark = Advanced(routes[r]).invalidation_watermark
    BY <2>4, <2>5 DEF Authored, RouteRecords
  <2> HIDE DEF r, rec
  <2>7. StartStep(r, a, "Replace")
    BY <2>1, <2>2, <2>3, <2>5, <2>6, ReprogramForm
  <2> QED BY <2>4, <2>7 DEF StepForm
<1>4. ASSUME NEW p \in Publishers, NEW b \in Boots, NEW k \in Keys,
             NEW lineage \in RouteIds, PublishTakeoverFails(p, b, k, lineage)
      PROVE  FALSE
  BY <1>4 DEF Lapse, HalvesTakeover
<1> QED BY <1>1, <1>2, <1>3, <1>4 DEF Publish

-----------------------------------------------------------------------------
(* The end of an attempt.                                                    *)

(* The table has a transition for every outcome of an attempt a route waits  *)
(* for.                                                                      *)
LEMMA CompletionLeads ==
  ASSUME NEW op \in {"Install", "Replace", "Withdraw"}, NEW o \in ProgrammingOutcomes
  PROVE  NextLifecycle(WaitingFor(op), CompletionEvent(op, o)) # {}
<1>1. CASE op = "Withdraw"
  <2>1. CASE o \in {"Applied", "Idempotent"}
    <3>1. "Withdrawn" \in NextLifecycle("Withdrawing", "WithdrawApplied")
      BY DEF NextLifecycle, Transitions, Lifecycles
    <3> QED BY <1>1, <2>1, <3>1 DEF CompletionEvent, WithdrawEvent, WaitingFor
  <2>2. CASE o \notin {"Applied", "Idempotent"}
    <3>1. "RevalidationRequired" \in NextLifecycle("Withdrawing", "WithdrawFailed")
      BY DEF NextLifecycle, Transitions, Lifecycles
    <3> QED BY <1>1, <2>2, <3>1 DEF CompletionEvent, WithdrawEvent, WaitingFor
  <2> QED BY <2>1, <2>2
<1>2. CASE op # "Withdraw"
  <2>1. /\ "Installed" \in NextLifecycle("Installing", "BackendApplied")
        /\ "Installed" \in NextLifecycle("Installing", "BackendIdempotent")
        /\ "Failed" \in NextLifecycle("Installing", "BackendRejected")
        /\ "Failed" \in NextLifecycle("Installing", "BackendNotSupported")
        /\ "Failed" \in NextLifecycle("Installing", "BackendPermanentFailure")
        /\ "RevalidationRequired" \in NextLifecycle("Installing", "BackendRetryableFailure")
        /\ "RevalidationRequired" \in NextLifecycle("Installing", "BackendAmbiguous")
        /\ "RevalidationRequired" \in NextLifecycle("Installing", "BackendUnavailable")
    BY DEF NextLifecycle, Transitions, Lifecycles
  <2>2. CompletionEvent(op, o) \in
          {"BackendApplied", "BackendIdempotent", "BackendRejected",
           "BackendNotSupported", "BackendPermanentFailure",
           "BackendRetryableFailure", "BackendAmbiguous", "BackendUnavailable"}
    BY <1>2 DEF CompletionEvent, InstallEvent, ProgrammingOutcomes
  <2>3. WaitingFor(op) = "Installing"
    BY <1>2 DEF WaitingFor
  <2> QED BY <2>1, <2>2, <2>3
<1> QED BY <1>1, <1>2

(* apply_completion_locked: a completion that is not stale finds its route   *)
(* waiting and gives it the outcome, and the record stays valid.             *)
LEMMA ApplyForm ==
  ASSUME TypeInv, KeyIndexIsExact, AttemptInv, LiveRecordsValid,
         NEW a \in AttemptIds, NEW outcome \in Outcomes, ApplyCompletion(a, outcome)
  PROVE  EndStep(a)
<1>1. ApplyCompletion(a, outcome)
  OBVIOUS
<1> DEFINE at == attempts[a]
           r == at.route
           rec == routes[r]
           event == CompletionEvent(at.operation, outcome)
<1>2. /\ opened /\ a \in Unresolved /\ rec # None /\ Resolve(a)
      /\ UNCHANGED <<authorityVars, revocations>>
  BY <1>1 DEF ApplyCompletion
<1>3. /\ at \in AttemptRecords /\ r \in RouteIds /\ r \in Present
      /\ rec \in RouteRecords /\ outcome \in ProgrammingOutcomes
  <2>1. at \in AttemptRecords /\ r \in RouteIds
    BY <1>2, StartedRecord DEF Unresolved
  <2>2. r \in Present
    BY <1>2, <2>1 DEF Present
  <2> QED BY <2>1, <2>2, PresentRecord, RuntimeAssumption
<1>4. /\ attempts' = [attempts EXCEPT ![a].resolved = TRUE]
      /\ outstanding_programming' =
           IF outstanding_programming > 0 THEN outstanding_programming - 1 ELSE 0
      /\ UNCHANGED <<opened, epoch>>
  BY <1>2 DEF Resolve, authorityVars
<1>5. CASE Stale(at, rec)
  <2>1. UNCHANGED <<routes, key_index>>
    BY <1>1, <1>5 DEF ApplyCompletion
  <2> QED BY <1>2, <1>3, <1>4, <1>5, <2>1 DEF EndStep
<1>6. CASE ~Stale(at, rec)
  <2>1. /\ Matches(a, rec) /\ ~BlocksRepublication(rec.lifecycle)
    BY <1>6 DEF Stale, Matches
  <2>2. rec.lifecycle = WaitingFor(at.operation)
    BY <1>2, <2>1 DEF AttemptInv, UnresolvedAreAwaited
  <2>3. at.operation \in {"Install", "Replace", "Withdraw"}
    BY <1>3 DEF AttemptRecords
  <2>4. NextLifecycle(rec.lifecycle, event) # {}
    BY <1>3, <2>2, <2>3, CompletionLeads
  <2>5. PICK next \in NextLifecycle(rec.lifecycle, event) :
          Commit(r, Completed(rec, a, at, outcome, next))
    BY <1>1, <1>6, <2>4 DEF ApplyCompletion
  <2> DEFINE new == Completed(rec, a, at, outcome, next)
             class == CompletionClassification(at.operation, outcome)
  <2>6. /\ next \in {"Installed", "Failed", "RevalidationRequired", "Withdrawn"}
        /\ class \in Classifications
        /\ next = "Installed" => ReportsApplied(class)
        /\ next = "Withdrawn" => class = "Withdrawn"
        /\ next = "Failed" => class \in {"Rejected", "NotSupported", "PermanentFailure"}
    BY <1>3, CompletionEvents
  <2> HIDE DEF class
  <2>7. /\ new \in RouteRecords
        /\ new.lifecycle = next
        /\ new.key = rec.key /\ new.binding = rec.binding
        /\ new.generation = rec.generation
        /\ new.authority_generation = rec.authority_generation
        /\ new.invalidation_watermark = rec.invalidation_watermark
        /\ new.programming_generation = rec.programming_generation
        /\ new.retirement = rec.retirement
        /\ new.applied.attempt = a
        /\ new.applied.classification = class
        /\ new.applied.programmed_generation = at.desired_generation
        /\ new.applied.programming_generation = at.programming_generation
    BY <1>3, <2>6 DEF Completed, RouteRecords, AttemptRecords, AppliedStates, Lifecycles,
                      class
  <2>8. ValidRecord(rec)
    BY <1>3, <2>1 DEF LiveRecordsValid, BlocksRepublication
  <2>9. rec.generation \in Nat /\ rec.programming_generation \in Nat
    BY <1>3, RecordNumbers
  <2> HIDE DEF new
  <2>10. ValidRecord(new)
    BY <2>1, <2>6, <2>7, <2>8, <2>9 DEF ValidRecord, Matches, BlocksRepublication
  <2>11. Ended(rec, new, a)
    BY <2>6, <2>7, <2>10 DEF Ended
  <2>12. /\ routes' = [routes EXCEPT ![r] = new]
         /\ key_index' = Reindexed(key_index, routes, r, new)
    BY <2>5 DEF Commit, CommitOn, new
  <2>13. key_index' = key_index
    BY <1>2, <1>3, <2>1, <2>6, <2>7, <2>12, IndexKept DEF BlocksRepublication
  <2>14. routes'[r] = new /\ \A s \in RouteIds \ {r} : routes'[s] = routes[s]
    BY <1>3, <2>12 DEF TypeInv, TypeOK
  <2> QED BY <1>2, <1>3, <1>4, <1>6, <2>11, <2>13, <2>14 DEF EndStep
<1> QED BY <1>5, <1>6

(* Every step of the runtime that is no lapse has one of the forms.          *)
LEMMA StepForms ==
  ASSUME TableInv, ~Lapse, Next
  PROVE  StepForm
<1>0. /\ TypeInv /\ IndexInv /\ KeyIndexIsExact /\ AttemptInv /\ LiveRecordsValid
  BY DEF TableInv, IndexInv
<1>1. CASE Publish
  BY <1>0, <1>1, PublishForm
<1>2. CASE Mutate
  BY <1>0, <1>2, MutateForm
<1>3. CASE PathChange
  BY <1>0, <1>3, PathChangeForm DEF StepForm
<1>4. CASE Reconcile
  BY <1>0, <1>4, ReconcileForm DEF StepForm
<1>5. CASE PathNext /\ UNCHANGED <<authorityVars, routeVars>>
  BY <1>0, <1>5, StandForm DEF StepForm, authorityVars
<1>6. CASE AuthorityStep /\ UNCHANGED <<path_authority, routeVars>>
  BY <1>0, <1>6, StandForm, AuthorityStepLife DEF StepForm
<1>7. CASE AdvanceEpoch /\ UNCHANGED <<path_authority, routeVars>>
  BY <1>0, <1>7, StandForm DEF StepForm, AdvanceEpoch
<1>8. CASE Complete
  BY <1>0, <1>8, ApplyForm DEF StepForm, Complete
<1>9. CASE Open \/ Crash
  BY <1>9 DEF StepForm
<1> QED
  BY <1>1, <1>2, <1>3, <1>4, <1>5, <1>6, <1>7, <1>8, <1>9 DEF Next, Handle

-----------------------------------------------------------------------------
(* The attempt table.                                                        *)

(* What a bystander keeps.                                                   *)
LEMMA BystanderKeeps ==
  ASSUME TypeInv, NEW s \in Present, Bystander(s)
  PROVE  /\ routes'[s] \in RouteRecords /\ routes'[s] # None
         /\ routes'[s].key = routes[s].key
         /\ routes'[s].binding = routes[s].binding
         /\ routes'[s].applied = routes[s].applied
         /\ routes'[s].programming_generation = routes[s].programming_generation
         /\ routes'[s].generation >= routes[s].generation
         /\ routes'[s].generation = routes[s].generation =>
              routes'[s].lifecycle = routes[s].lifecycle
         /\ HasOutstandingProgramming(routes'[s].lifecycle) =>
              /\ routes'[s].generation = routes[s].generation
              /\ routes'[s].lifecycle = routes[s].lifecycle
         /\ routes'[s].invalidation_watermark >= routes[s].invalidation_watermark
<1>1. /\ routes'[s] \in RouteRecords
      /\ Observed(routes[s], routes'[s]) \/ Moved(routes[s], routes'[s])
  BY DEF Bystander
<1>2. routes'[s] # None
  BY <1>1, NoneAssumption
<1>3. routes[s].generation \in Nat /\ routes[s].invalidation_watermark \in Nat
  BY PresentRecord, RecordNumbers
<1>4. CASE Observed(routes[s], routes'[s])
  BY <1>1, <1>2, <1>3, <1>4 DEF Observed
<1>5. CASE Moved(routes[s], routes'[s])
  BY <1>1, <1>2, <1>3, <1>5 DEF Moved, HasOutstandingProgramming
<1> QED BY <1>1, <1>4, <1>5

(* The same of the state a step leads to.                                    *)
LEMMA NextNumbers ==
  ASSUME TypeInv'
  PROVE  epoch' \in Nat
<1>1. epoch' \in 1..MaxEpoch
  BY DEF TypeInv, TypeOK, AuthorityTypeOK
<1> QED BY <1>1, AuthorityAssumption

(* An attempt whose route stands by stays behind it, and if its generations  *)
(* match they matched before.                                                *)
LEMMA AttemptOfBystander ==
  ASSUME TypeInv, TypeInv', AttemptsArePast, NEW a \in Started,
         attempts'[a] = attempts[a], Bystander(attempts[a].route), epoch' >= epoch
  PROVE  /\ AttemptIsPast(a)'
         /\ Matches(a, routes[attempts[a].route])' =>
              /\ Matches(a, routes[attempts[a].route])
              /\ routes'[attempts[a].route].lifecycle =
                   routes[attempts[a].route].lifecycle
<1> DEFINE at == attempts[a]
           r == at.route
<1>1. /\ r \in Present /\ at.desired_generation <= routes[r].generation
      /\ at.programming_generation <= routes[r].programming_generation
      /\ at.epoch <= epoch
  BY DEF AttemptsArePast, AttemptIsPast
<1>2. /\ routes'[r].programming_generation = routes[r].programming_generation
      /\ routes'[r].generation >= routes[r].generation
      /\ routes'[r].generation = routes[r].generation =>
           routes'[r].lifecycle = routes[r].lifecycle
      /\ routes'[r] \in RouteRecords /\ routes'[r] # None
  BY <1>1, BystanderKeeps
<1>3. /\ routes[r].generation \in Nat /\ routes'[r].generation \in Nat
      /\ at.desired_generation \in Nat /\ at.epoch \in Nat
      /\ epoch \in Nat /\ epoch' \in Nat
  BY <1>1, <1>2, PresentRecord, RecordNumbers, StartedRecord, EpochNumber, NextNumbers
<1>4. r \in Present'
  BY <1>1, <1>2 DEF Present
<1> QED BY <1>1, <1>2, <1>3, <1>4 DEF AttemptIsPast, Matches

(* A route that stands by and waits, waits for the attempt it waited for.    *)
LEMMA BystanderAwaits ==
  ASSUME TypeInv, TypeInv', WaitingAwait, NEW s \in Present, Bystander(s),
         HasOutstandingProgramming(routes'[s].lifecycle), epoch' >= epoch,
         \A b \in Started : attempts[b].route = s => attempts'[b] = attempts[b]
  PROVE  Awaits(s, routes[s].applied.attempt)'
<1>1. /\ routes'[s].applied = routes[s].applied
      /\ routes'[s].programming_generation = routes[s].programming_generation
      /\ routes'[s].generation = routes[s].generation
      /\ routes'[s].lifecycle = routes[s].lifecycle
  BY BystanderKeeps
<1> DEFINE b == routes[s].applied.attempt
<1>2. Awaits(s, b)
  BY <1>1 DEF WaitingAwait
<1>3. b \in Started /\ attempts'[b] = attempts[b]
  BY <1>2 DEF Awaits
<1>4. attempts[b].epoch \in Nat /\ epoch \in Nat /\ epoch' \in Nat
  BY <1>3, StartedRecord, EpochNumber, NextNumbers
<1>5. b \in Started' /\ (b \in Unresolved => b \in Unresolved')
  BY <1>3 DEF Started, Unresolved
<1> QED BY <1>1, <1>2, <1>3, <1>4, <1>5 DEF Awaits, Matches

(* Routes that move on outdate their unresolved attempts.                    *)
LEMMA MoveKeepsAttempts ==
  ASSUME TypeInv, TypeInv', AttemptInv, MoveStep
  PROVE  AttemptInv'
<1> USE DEF AttemptInv
<1>1. /\ attempts' = attempts /\ Started' = Started /\ Unresolved' = Unresolved
      /\ epoch' >= epoch
  BY DEF MoveStep, Started, Unresolved
<1>2. \A s \in RouteIds : Bystander(s)
  BY DEF MoveStep
<1>3. \A s \in Present' : s \in Present /\ Bystander(s)
  BY <1>2 DEF Bystander, Present
<1>4. \A a \in Started : attempts[a].route \in RouteIds
  BY StartedRecord
<1>5. AttemptsArePast'
  BY <1>1, <1>2, <1>4, AttemptOfBystander DEF AttemptsArePast
<1>6. AttemptsDiffer'
  BY <1>1 DEF AttemptsDiffer
<1>7. UnresolvedAreAwaited'
  <2> SUFFICES ASSUME NEW a \in Unresolved,
                      Matches(a, routes[attempts[a].route])',
                      ~BlocksRepublication(routes'[attempts[a].route].lifecycle)
               PROVE  routes'[attempts[a].route].lifecycle =
                        WaitingFor(attempts[a].operation)
    BY <1>1 DEF UnresolvedAreAwaited
  <2>1. a \in Started
    BY DEF Unresolved
  <2> QED BY <1>1, <1>2, <1>4, <2>1, AttemptOfBystander DEF UnresolvedAreAwaited
<1>8. WaitingAwait'
  BY <1>1, <1>3, BystanderAwaits DEF WaitingAwait
<1> QED BY <1>5, <1>6, <1>7, <1>8

(* A new attempt has a programming generation its route never had before.    *)
LEMMA StartKeepsAttempts ==
  ASSUME TypeInv, TypeInv', AttemptInv, NEW r \in RouteIds, NEW a \in AttemptIds,
         NEW op \in {"Install", "Replace", "Withdraw"}, StartStep(r, a, op)
  PROVE  AttemptInv'
<1> DEFINE new == routes'[r]
<1>0. AttemptsArePast /\ AttemptsDiffer /\ UnresolvedAreAwaited /\ WaitingAwait
  BY DEF AttemptInv
<1>1. /\ attempts[a] = None
      /\ attempts'[a] = [route                  |-> r,
                         desired_generation     |-> new.generation,
                         programming_generation |-> new.programming_generation,
                         operation              |-> op,
                         epoch                  |-> epoch,
                         resolved               |-> FALSE]
      /\ \A b \in AttemptIds \ {a} : attempts'[b] = attempts[b]
      /\ epoch' = epoch /\ epoch \in Nat
  BY EpochNumber DEF StartStep, TypeInv, TypeOK
<1>2. /\ attempts'[a].route = r
      /\ attempts'[a].desired_generation = new.generation
      /\ attempts'[a].programming_generation = new.programming_generation
      /\ attempts'[a].operation = op
      /\ attempts'[a].epoch = epoch
      /\ attempts'[a].resolved = FALSE
  BY <1>1
<1>3. /\ Programs(routes[r], new, a, op)
      /\ \A s \in RouteIds \ {r} : Bystander(s)
  BY DEF StartStep
<1>4. /\ new \in RouteRecords /\ new # None /\ r \in Present'
      /\ new.applied.attempt = a /\ new.lifecycle = WaitingFor(op)
      /\ new.generation \in Nat /\ new.programming_generation \in Nat
  BY <1>3, RecordNumbers, NoneAssumption DEF Programs, Present
<1>5. a \notin Started /\ a \in Started' /\ a \in Unresolved'
  <2>1. attempts'[a] \in AttemptRecords \cup {None}
    BY DEF TypeInv, TypeOK
  <2>2. attempts'[a] \in AttemptRecords
    BY <1>1, <1>4, AuthorityAssumption
       DEF AttemptRecords, RouteRecords, TypeInv, TypeOK, AuthorityTypeOK
  <2> QED BY <1>1, <1>2, <2>2, NoneAssumption DEF Started, Unresolved
<1>6. /\ \A b \in Started : attempts'[b] = attempts[b]
      /\ \A b \in Started' : b = a \/ b \in Started
      /\ \A b \in Unresolved' : b = a \/ b \in Unresolved
  BY <1>1, <1>5 DEF Started, Unresolved
<1> HIDE DEF new
<1>7. ASSUME NEW b \in Started, attempts[b].route = r
      PROVE  /\ AttemptIsPast(b)'
             /\ attempts[b].programming_generation < new.programming_generation
  <2>1. /\ r \in Present
        /\ attempts[b].desired_generation <= routes[r].generation
        /\ attempts[b].programming_generation <= routes[r].programming_generation
        /\ attempts[b].epoch <= epoch
    BY <1>0, <1>7 DEF AttemptsArePast, AttemptIsPast
  <2>2. /\ new.generation = routes[r].generation + 1
        /\ new.programming_generation = routes[r].programming_generation + 1
        /\ routes[r] \in RouteRecords
    BY <1>3, <2>1, PresentRecord DEF Programs
  <2>3. /\ routes[r].generation \in Nat /\ routes[r].programming_generation \in Nat
        /\ attempts[b].desired_generation \in Nat
        /\ attempts[b].programming_generation \in Nat
    BY <2>2, RecordNumbers, StartedRecord
  <2> QED BY <1>1, <1>4, <1>6, <1>7, <2>1, <2>2, <2>3 DEF AttemptIsPast, new
<1>8. ASSUME NEW b \in Started, attempts[b].route # r
      PROVE  /\ AttemptIsPast(b)'
             /\ Matches(b, routes[attempts[b].route])' =>
                  /\ Matches(b, routes[attempts[b].route])
                  /\ routes'[attempts[b].route].lifecycle =
                       routes[attempts[b].route].lifecycle
  <2>1. attempts[b].route \in RouteIds
    BY StartedRecord
  <2>2. epoch' >= epoch
    BY <1>1
  <2> QED BY <1>0, <1>3, <1>6, <1>8, <2>1, <2>2, AttemptOfBystander
<1>9. AttemptsArePast'
  <2>1. AttemptIsPast(a)'
    BY <1>1, <1>2, <1>4 DEF AttemptIsPast, new
  <2> QED BY <1>6, <1>7, <1>8, <2>1 DEF AttemptsArePast
<1>10. AttemptsDiffer'
  <2> SUFFICES ASSUME NEW b \in Started', NEW c \in Started',
                      attempts'[b].route = attempts'[c].route,
                      attempts'[b].programming_generation =
                        attempts'[c].programming_generation
               PROVE  b = c
    BY DEF AttemptsDiffer
  <2>1. CASE b \in Started /\ c \in Started
    BY <1>0, <1>6, <2>1 DEF AttemptsDiffer
  <2>2. CASE b = a /\ c \in Started
    <3>1. attempts[c].programming_generation \in Nat
      BY <2>2, StartedRecord
    <3> QED BY <1>2, <1>4, <1>6, <1>7, <2>2, <3>1
  <2>3. CASE b \in Started /\ c = a
    <3>1. attempts[b].programming_generation \in Nat
      BY <2>3, StartedRecord
    <3> QED BY <1>2, <1>4, <1>6, <1>7, <2>3, <3>1
  <2> QED BY <1>6, <2>1, <2>2, <2>3
<1>11. UnresolvedAreAwaited'
  <2> SUFFICES ASSUME NEW b \in Unresolved',
                      Matches(b, routes[attempts[b].route])',
                      ~BlocksRepublication(routes'[attempts'[b].route].lifecycle)
               PROVE  routes'[attempts'[b].route].lifecycle =
                        WaitingFor(attempts'[b].operation)
    BY DEF UnresolvedAreAwaited
  <2>1. CASE b = a
    BY <1>2, <1>4, <2>1 DEF new
  <2>2. CASE b \in Unresolved /\ attempts[b].route = r
    <3>1. b \in Started /\ attempts[b].programming_generation \in Nat
      BY <2>2, StartedRecord DEF Unresolved
    <3> QED BY <1>4, <1>6, <1>7, <2>2, <3>1 DEF Matches, new
  <2>3. CASE b \in Unresolved /\ attempts[b].route # r
    <3>1. b \in Started
      BY <2>3 DEF Unresolved
    <3> QED BY <1>0, <1>6, <1>8, <2>3, <3>1 DEF UnresolvedAreAwaited
  <2> QED BY <1>6, <2>1, <2>2, <2>3
<1>12. WaitingAwait'
  <2> SUFFICES ASSUME NEW s \in Present', HasOutstandingProgramming(routes'[s].lifecycle)
               PROVE  Awaits(s, routes[s].applied.attempt)'
    BY DEF WaitingAwait
  <2>1. CASE s = r
    BY <1>2, <1>4, <1>5, <2>1 DEF Awaits, Matches, new
  <2>2. CASE s # r
    <3>1. s \in Present /\ Bystander(s) /\ epoch' >= epoch
      BY <1>1, <1>3, <2>2 DEF Bystander, Present
    <3> QED BY <1>0, <1>6, <3>1, BystanderAwaits
  <2> QED BY <2>1, <2>2
<1> QED BY <1>9, <1>10, <1>11, <1>12 DEF AttemptInv

(* Resolving an attempt changes nothing else about it.                       *)
LEMMA ResolvedFields ==
  ASSUME NEW at \in AttemptRecords
  PROVE  LET new == [at EXCEPT !.resolved = TRUE] IN
         /\ new \in AttemptRecords
         /\ new.route = at.route
         /\ new.desired_generation = at.desired_generation
         /\ new.programming_generation = at.programming_generation
         /\ new.operation = at.operation
         /\ new.epoch = at.epoch
         /\ new.resolved
BY DEF AttemptRecords

(* The record of attempt a after it ended.                                   *)
LEMMA ResolvedAttempt ==
  ASSUME TypeInv, NEW a \in Started, attempts' = [attempts EXCEPT ![a].resolved = TRUE]
  PROVE  /\ attempts'[a] \in AttemptRecords /\ attempts'[a] # None
         /\ attempts'[a].route = attempts[a].route
         /\ attempts'[a].desired_generation = attempts[a].desired_generation
         /\ attempts'[a].programming_generation = attempts[a].programming_generation
         /\ attempts'[a].operation = attempts[a].operation
         /\ attempts'[a].epoch = attempts[a].epoch
         /\ attempts'[a].resolved
         /\ \A b \in AttemptIds \ {a} : attempts'[b] = attempts[b]
         /\ Started' = Started
         /\ Unresolved' = Unresolved \ {a}
<1>1. a \in AttemptIds /\ attempts[a] \in AttemptRecords
  BY StartedRecord
<1>2. /\ attempts'[a] = [attempts[a] EXCEPT !.resolved = TRUE]
      /\ \A b \in AttemptIds \ {a} : attempts'[b] = attempts[b]
  BY <1>1 DEF TypeInv, TypeOK
<1>3. /\ attempts'[a] \in AttemptRecords
      /\ attempts'[a].route = attempts[a].route
      /\ attempts'[a].desired_generation = attempts[a].desired_generation
      /\ attempts'[a].programming_generation = attempts[a].programming_generation
      /\ attempts'[a].operation = attempts[a].operation
      /\ attempts'[a].epoch = attempts[a].epoch
      /\ attempts'[a].resolved
  BY <1>1, <1>2, ResolvedFields
<1>4. attempts'[a] # None
  BY <1>3, NoneAssumption
<1>5. Started' = Started
  BY <1>1, <1>2, <1>4 DEF Started
<1>6. Unresolved' = Unresolved \ {a}
  BY <1>2, <1>3, <1>5 DEF Unresolved, Started
<1> QED BY <1>2, <1>3, <1>4, <1>5, <1>6

(* Only the attempt a route waits for can end its wait; if it ends without   *)
(* effect it is of an earlier epoch.                                         *)
LEMMA EndKeepsAttempts ==
  ASSUME TypeInv, AttemptInv, RevokedAreRetired, NEW a \in AttemptIds, EndStep(a)
  PROVE  AttemptInv'
<1> DEFINE r == attempts[a].route
<1>0. AttemptsArePast /\ AttemptsDiffer /\ UnresolvedAreAwaited /\ WaitingAwait
  BY DEF AttemptInv
<1>1. /\ a \in Started /\ a \in Unresolved /\ r \in Present /\ r \in RouteIds
      /\ attempts' = [attempts EXCEPT ![a].resolved = TRUE]
      /\ \A s \in RouteIds \ {r} : routes'[s] = routes[s]
      /\ epoch' = epoch
  BY DEF EndStep, Unresolved, Present
<1>2. /\ Started' = Started /\ Unresolved' = Unresolved \ {a}
      /\ \A b \in Started :
           /\ attempts'[b].route = attempts[b].route
           /\ attempts'[b].desired_generation = attempts[b].desired_generation
           /\ attempts'[b].programming_generation = attempts[b].programming_generation
           /\ attempts'[b].operation = attempts[b].operation
           /\ attempts'[b].epoch = attempts[b].epoch
  <2>1. \A b \in AttemptIds \ {a} : attempts'[b] = attempts[b]
    BY <1>1, ResolvedAttempt
  <2> QED BY <1>1, <2>1, ResolvedAttempt DEF Started
<1>3. \/ Stale(attempts[a], routes[r]) /\ routes'[r] = routes[r]
      \/ ~Stale(attempts[a], routes[r]) /\ Ended(routes[r], routes'[r], a)
  BY DEF EndStep
<1>4. /\ routes'[r] # None
      /\ routes'[r].generation = routes[r].generation
      /\ routes'[r].programming_generation = routes[r].programming_generation
  BY <1>1, <1>3, NoneAssumption DEF Ended, Present
<1>5. /\ Present' = Present
      /\ \A s \in Present :
           /\ routes'[s].generation = routes[s].generation
           /\ routes'[s].programming_generation = routes[s].programming_generation
  BY <1>1, <1>4 DEF Present
<1>6. AttemptsArePast'
  BY <1>0, <1>1, <1>2, <1>5 DEF AttemptsArePast, AttemptIsPast
<1>7. AttemptsDiffer'
  BY <1>0, <1>2 DEF AttemptsDiffer
<1>8. UnresolvedAreAwaited'
  <2> SUFFICES ASSUME NEW b \in Unresolved, b # a,
                      Matches(b, routes[attempts[b].route])',
                      ~BlocksRepublication(routes'[attempts'[b].route].lifecycle)
               PROVE  routes'[attempts'[b].route].lifecycle =
                        WaitingFor(attempts'[b].operation)
    BY <1>2 DEF UnresolvedAreAwaited
  <2>1. b \in Started /\ attempts[b].route \in Present
    BY <1>0 DEF Unresolved, AttemptsArePast, AttemptIsPast
  <2>2. Matches(b, routes[attempts[b].route])
    BY <1>2, <1>5, <2>1 DEF Matches
  <2>3. CASE routes'[attempts[b].route] = routes[attempts[b].route]
    BY <1>0, <1>2, <2>1, <2>2, <2>3 DEF UnresolvedAreAwaited
  <2>4. CASE attempts[b].route = r /\ ~Stale(attempts[a], routes[r])
    BY <1>0, <1>1, <2>1, <2>2, <2>4 DEF AttemptsDiffer, Matches, Stale
  <2> QED BY <1>1, <1>3, <2>1, <2>3, <2>4 DEF Present
<1>9. WaitingAwait'
  <2> SUFFICES ASSUME NEW s \in Present, HasOutstandingProgramming(routes'[s].lifecycle)
               PROVE  Awaits(s, routes[s].applied.attempt)'
    BY <1>5 DEF WaitingAwait
  <2>1. routes'[s] = routes[s]
    BY <1>1, <1>3 DEF Ended, HasOutstandingProgramming, Present
  <2> DEFINE b == routes[s].applied.attempt
  <2>2. Awaits(s, b)
    BY <1>0, <2>1 DEF WaitingAwait
  <2>3. b \in Unresolved' \/ attempts[b].epoch < epoch
    <3>1. CASE b # a
      BY <1>2, <2>2, <3>1 DEF Awaits
    <3>2. CASE b = a
      <4>1. s = r /\ Matches(a, routes[r])
        BY <2>2, <3>2 DEF Awaits
      <4>2. Stale(attempts[a], routes[r])
        BY <1>3, <2>1, <4>1 DEF Ended, HasOutstandingProgramming
      <4>3. r \notin revocations /\ ~BlocksRepublication(routes[r].lifecycle)
        BY <2>1, <4>1 DEF RevokedAreRetired, HasOutstandingProgramming,
                          BlocksRepublication
      <4>4. attempts[a].epoch # epoch
        BY <4>1, <4>2, <4>3 DEF Stale, Matches
      <4>5. attempts[a].epoch <= epoch /\ attempts[a].epoch \in Nat /\ epoch \in Nat
        BY <1>0, <1>1, StartedRecord, EpochNumber DEF AttemptsArePast, AttemptIsPast
      <4> QED BY <3>2, <4>4, <4>5
    <3> QED BY <3>1, <3>2
  <2>4. b \in Started
    BY <2>2 DEF Awaits
  <2> QED BY <1>1, <1>2, <2>1, <2>2, <2>3, <2>4 DEF Awaits, Matches
<1> QED BY <1>6, <1>7, <1>8, <1>9 DEF AttemptInv

(* What recovery does to a record.                                           *)
LEMMA RecoveredFields ==
  ASSUME TypeInv, NEW r \in Present, NEW a \in RecoveryAttempts(r)
  PROVE  LET new == RecoveredRecord(routes[r], a) IN
         /\ new \in RouteRecords
         /\ new.lifecycle = "RevalidationRequired"
         /\ new.key = routes[r].key
         /\ new.binding = routes[r].binding
         /\ new.generation = routes[r].generation
         /\ new.authority_generation = routes[r].authority_generation
         /\ new.invalidation_watermark = routes[r].invalidation_watermark
         /\ new.programming_generation = routes[r].programming_generation
         /\ new.retirement = routes[r].retirement
         /\ new.applied.attempt = a
         /\ new.applied.programmed_generation = attempts[a].desired_generation
         /\ new.applied.programming_generation = attempts[a].programming_generation
<1>1. routes[r] \in RouteRecords /\ a \in AttemptIds /\ attempts[a] \in AttemptRecords
  BY PresentRecord, StartedRecord DEF RecoveryAttempts, Unresolved
<1> QED BY <1>1 DEF RecoveredRecord, RouteRecords, AttemptRecords, AppliedStates,
                    Classifications, Lifecycles

\* What Open does to the records and to the attempts.
OpenStep ==
  /\ Present' = Present
  /\ \A r \in Present :
       \/ /\ RecoveryAttempts(r) = {}
          /\ routes'[r] = routes[r]
       \/ \E a \in RecoveryAttempts(r) : routes'[r] = RecoveredRecord(routes[r], a)
  /\ Started' = Started
  /\ Unresolved' = {}
  /\ \A a \in Started :
       /\ attempts'[a].route = attempts[a].route
       /\ attempts'[a].desired_generation = attempts[a].desired_generation
       /\ attempts'[a].programming_generation = attempts[a].programming_generation
       /\ attempts'[a].operation = attempts[a].operation
       /\ attempts'[a].epoch = attempts[a].epoch
  /\ UNCHANGED <<epoch, revocations>>

(* Open has that effect.                                                     *)
LEMMA OpenForm ==
  ASSUME TypeInv, Open
  PROVE  OpenStep
<1>1. PICK claim \in [RouteIds -> AttemptIds \cup {None}] :
        /\ \A r \in RouteIds : IF RecoveryAttempts(r) = {} THEN claim[r] = None
                               ELSE claim[r] \in RecoveryAttempts(r)
        /\ routes' = [r \in RouteIds |-> IF claim[r] = None THEN routes[r]
                                         ELSE RecoveredRecord(routes[r], claim[r])]
  BY DEF Open
<1>2. ASSUME NEW r \in RouteIds
      PROVE  \/ /\ RecoveryAttempts(r) = {}
                /\ routes'[r] = routes[r]
             \/ \E a \in RecoveryAttempts(r) :
                  r \in Present /\ routes'[r] = RecoveredRecord(routes[r], a)
  <2>1. CASE RecoveryAttempts(r) = {}
    BY <1>1, <2>1
  <2>2. CASE RecoveryAttempts(r) # {}
    <3>1. claim[r] \in RecoveryAttempts(r)
      BY <1>1, <2>2
    <3>2. claim[r] # None /\ r \in Present
      BY <3>1, NoneAssumption DEF RecoveryAttempts, Unresolved, Started
    <3> QED BY <1>1, <3>1, <3>2
  <2> QED BY <2>1, <2>2
<1>3. \A r \in RouteIds : r \in Present' <=> r \in Present
  BY <1>2, RecoveredFields, NoneAssumption DEF Present
<1>4. /\ attempts' = [a \in AttemptIds |->
                        IF a \in Unresolved THEN [attempts[a] EXCEPT !.resolved = TRUE]
                                            ELSE attempts[a]]
      /\ UNCHANGED <<epoch, revocations>>
  BY DEF Open, AuthorityOpen
<1>5. ASSUME NEW a \in AttemptIds
      PROVE  /\ attempts[a] = None => attempts'[a] = None
             /\ a \in Started =>
                  /\ attempts'[a] # None /\ attempts'[a].resolved
                  /\ attempts'[a].route = attempts[a].route
                  /\ attempts'[a].desired_generation = attempts[a].desired_generation
                  /\ attempts'[a].programming_generation = attempts[a].programming_generation
                  /\ attempts'[a].operation = attempts[a].operation
                  /\ attempts'[a].epoch = attempts[a].epoch
  <2>1. CASE a \in Unresolved
    <3>1. /\ a \in Started /\ attempts[a] \in AttemptRecords
          /\ attempts'[a] = [attempts[a] EXCEPT !.resolved = TRUE]
      BY <1>4, <2>1, StartedRecord DEF Unresolved
    <3>2. /\ attempts'[a] \in AttemptRecords
          /\ attempts'[a].resolved
          /\ attempts'[a].route = attempts[a].route
          /\ attempts'[a].desired_generation = attempts[a].desired_generation
          /\ attempts'[a].programming_generation = attempts[a].programming_generation
          /\ attempts'[a].operation = attempts[a].operation
          /\ attempts'[a].epoch = attempts[a].epoch
      BY <3>1, ResolvedFields
    <3> QED BY <3>1, <3>2, NoneAssumption DEF Started
  <2>2. CASE a \notin Unresolved
    BY <1>4, <2>2 DEF Unresolved, Started
  <2> QED BY <2>1, <2>2
<1>6. Started' = Started
  BY <1>5 DEF Started
<1>7. Unresolved' = {}
  BY <1>5, <1>6 DEF Unresolved, Started
<1>8. Present' = Present
  BY <1>3 DEF Present
<1>9. \A r \in Present :
        \/ /\ RecoveryAttempts(r) = {}
           /\ routes'[r] = routes[r]
        \/ \E a \in RecoveryAttempts(r) : routes'[r] = RecoveredRecord(routes[r], a)
  BY <1>2 DEF Present
<1> QED BY <1>4, <1>5, <1>6, <1>7, <1>8, <1>9 DEF OpenStep, Started

(* Recovery answers for every unresolved attempt.                            *)
LEMMA OpenKeepsAttempts ==
  ASSUME TypeInv, AttemptInv, OpenStep
  PROVE  AttemptInv'
<1>0. AttemptsArePast /\ AttemptsDiffer /\ WaitingAwait
  BY DEF AttemptInv
<1>1. /\ Present' = Present /\ Started' = Started /\ Unresolved' = {}
      /\ epoch' = epoch
  BY DEF OpenStep
<1>2. \A a \in Started :
        /\ attempts'[a].route = attempts[a].route
        /\ attempts'[a].desired_generation = attempts[a].desired_generation
        /\ attempts'[a].programming_generation = attempts[a].programming_generation
        /\ attempts'[a].operation = attempts[a].operation
        /\ attempts'[a].epoch = attempts[a].epoch
  BY DEF OpenStep
<1>3. \A s \in Present :
        /\ routes'[s].generation = routes[s].generation
        /\ routes'[s].programming_generation = routes[s].programming_generation
  BY RecoveredFields DEF OpenStep
<1>4. AttemptsArePast'
  BY <1>0, <1>1, <1>2, <1>3 DEF AttemptsArePast, AttemptIsPast
<1>5. AttemptsDiffer'
  BY <1>0, <1>1, <1>2 DEF AttemptsDiffer
<1>6. UnresolvedAreAwaited'
  BY <1>1 DEF UnresolvedAreAwaited
<1>7. WaitingAwait'
  <2> SUFFICES ASSUME NEW s \in Present, HasOutstandingProgramming(routes'[s].lifecycle)
               PROVE  Awaits(s, routes[s].applied.attempt)'
    BY <1>1 DEF WaitingAwait
  <2>1. RecoveryAttempts(s) = {} /\ routes'[s] = routes[s]
    BY RecoveredFields DEF OpenStep, HasOutstandingProgramming
  <2> DEFINE b == routes[s].applied.attempt
  <2>2. Awaits(s, b)
    BY <1>0, <2>1 DEF WaitingAwait
  <2>3. b \notin Unresolved
    BY <2>1, <2>2 DEF RecoveryAttempts, Awaits, Matches
  <2>4. b \in Started /\ attempts[b].epoch < epoch
    BY <2>2, <2>3 DEF Awaits
  <2> QED BY <1>1, <1>2, <2>1, <2>2, <2>4 DEF Awaits, Matches
<1> QED BY <1>4, <1>5, <1>6, <1>7 DEF AttemptInv

(* A crash keeps attempts, records and epoch.                                *)
LEMMA CrashKeepsAttempts ==
  ASSUME AttemptInv, Crash
  PROVE  AttemptInv'
<1>1. UNCHANGED <<attempts, routes, epoch>>
  BY DEF Crash, AuthorityCrash
<1> QED BY <1>1 DEF AttemptInv, AttemptsArePast, AttemptIsPast, AttemptsDiffer,
                    UnresolvedAreAwaited, WaitingAwait, Awaits, Matches, Present,
                    Started, Unresolved

-----------------------------------------------------------------------------
(* The index and the records.                                                *)

(* A bystander that was valid stays so unless it is superseded.              *)
LEMMA BystanderValid ==
  ASSUME LiveRecordsValid, NEW s \in Present, Bystander(s),
         routes'[s].lifecycle # "Superseded"
  PROVE  ValidRecord(routes[s])'
<1>1. CASE Observed(routes[s], routes'[s])
  <2>1. ValidRecord(routes[s])
    BY <1>1 DEF Observed, LiveRecordsValid
  <2> QED BY <1>1, <2>1 DEF Observed, ValidRecord
<1>2. CASE Moved(routes[s], routes'[s])
  <2>1. ValidRecord(routes'[s])
    BY <1>2 DEF Moved
  <2> QED BY <2>1 DEF ValidRecord
<1> QED BY <1>1, <1>2 DEF Bystander

(* A bystander that is superseded keeps its retirement.                      *)
LEMMA BystanderCause ==
  ASSUME LiveRecordsValid, SupersededKeepCause, NEW s \in Present, Bystander(s),
         routes'[s].lifecycle = "Superseded"
  PROVE  routes'[s].retirement # "None"
<1>1. CASE Observed(routes[s], routes'[s])
  BY <1>1 DEF Observed, SupersededKeepCause
<1>2. CASE Moved(routes[s], routes'[s])
  <2>1. routes[s].lifecycle = "Retired" /\ routes'[s].retirement = routes[s].retirement
    BY <1>2 DEF Moved
  <2>2. ValidRecord(routes[s])
    BY <2>1 DEF LiveRecordsValid
  <2> QED BY <2>1, <2>2 DEF ValidRecord
<1> QED BY <1>1, <1>2 DEF Bystander

(* Moving on keeps the index exact and every live record valid.              *)
LEMMA MoveKeepsTable ==
  ASSUME TypeInv, IndexInv, LiveRecordsValid, MoveStep
  PROVE  IndexInv' /\ LiveRecordsValid'
<1> USE DEF IndexInv
<1>1. \A s \in RouteIds : Bystander(s)
  BY DEF MoveStep
<1>2. /\ \A s \in Present : /\ s \in RouteIds /\ routes'[s] # None
                            /\ routes'[s].key = routes[s].key
                            /\ routes'[s].lifecycle = "Superseded" <=>
                                 routes[s].lifecycle = "Superseded"
  BY <1>1, BystanderKeeps DEF Present, MoveStep
<1>3. Present' = Present
  BY <1>1, <1>2 DEF Present, Bystander
<1>4. key_index' = key_index /\ opened' = opened
  BY DEF MoveStep
<1>5. KeyIndexIsExact'
  BY <1>2, <1>3, <1>4 DEF KeyIndexIsExact
<1>6. IdentitiesKeepKeys'
  BY <1>2, <1>3 DEF IdentitiesKeepKeys
<1>7. KeysAreHeld'
  BY <1>2, <1>3, <1>4 DEF KeysAreHeld
<1>8. RevokedAreRetired'
  <2> SUFFICES ASSUME NEW s \in revocations'
               PROVE  s \in Present /\ routes'[s].lifecycle = "Retired"
    BY <1>3 DEF RevokedAreRetired
  <2>1. CASE s \notin revocations
    BY <2>1 DEF MoveStep
  <2>2. CASE s \in revocations
    <3>1. s \in Present /\ routes[s].lifecycle = "Retired" /\ Bystander(s)
      BY <1>1, <1>2, <2>2 DEF RevokedAreRetired
    <3> QED BY <1>2, <3>1 DEF Bystander, Observed, Moved, BlocksRepublication
  <2> QED BY <2>1, <2>2
<1>9. LiveRecordsValid'
  <2> SUFFICES ASSUME NEW s \in Present', routes'[s].lifecycle # "Superseded"
               PROVE  ValidRecord(routes[s])'
    BY DEF LiveRecordsValid
  <2>1. s \in Present /\ Bystander(s)
    BY <1>1, <1>2, <1>3
  <2> QED BY <2>1, BystanderValid
<1>10. SupersededKeepCause'
  BY <1>1, <1>2, <1>3, BystanderCause DEF SupersededKeepCause
<1> QED BY <1>5, <1>6, <1>7, <1>8, <1>9, <1>10

(* A new attempt hands the key to its route, and only a takeover takes it    *)
(* from another.                                                             *)
LEMMA StartKeepsTable ==
  ASSUME TypeInv, IndexInv, LiveRecordsValid, NEW r \in RouteIds, NEW a \in AttemptIds,
         NEW op \in {"Install", "Replace", "Withdraw"}, StartStep(r, a, op)
  PROVE  IndexInv' /\ LiveRecordsValid'
<1> DEFINE new == routes'[r]
<1>0. /\ KeyIndexIsExact /\ IdentitiesKeepKeys /\ KeysAreHeld /\ RevokedAreRetired
      /\ SupersededKeepCause
  BY DEF IndexInv
<1>1. /\ opened /\ opened' = opened /\ revocations' = revocations
      /\ key_index' = [key_index EXCEPT ![new.key] = r]
      /\ Programs(routes[r], new, a, op)
      /\ \A s \in RouteIds \ {r} : Bystander(s)
      /\ \A k \in Keys : r = DerivedId[k] => new.key = k
  BY DEF StartStep
<1>2. \A s \in Present \ {r} :
        /\ routes[s].lifecycle = "Superseded" => routes'[s].lifecycle = "Superseded"
        /\ routes[s].key = new.key => routes'[s].lifecycle = "Superseded"
        /\ routes'[s].lifecycle = "Superseded" /\ routes[s].lifecycle # "Superseded"
             => routes[s].key = new.key /\ s \notin revocations
  BY DEF StartStep
<1>3. /\ new \in RouteRecords /\ new # None /\ new.key \in Keys /\ ValidRecord(new)
      /\ new.lifecycle # "Superseded"
      /\ r \in Present => new.key = routes[r].key /\ ~BlocksRepublication(routes[r].lifecycle)
  BY <1>1, RecordNumbers, NoneAssumption DEF Programs, WaitingFor, Present
<1> HIDE DEF new
<1>4. /\ key_index'[new.key] = r
      /\ \A k \in Keys \ {new.key} : key_index'[k] = key_index[k]
  BY <1>1, <1>3 DEF TypeInv, TypeOK
<1>5. \A s \in Present \ {r} : s \in RouteIds /\ Bystander(s)
                               /\ routes'[s] # None /\ routes'[s].key = routes[s].key
  BY <1>1, BystanderKeeps DEF Present
<1>6. \A s \in RouteIds : s \in Present' <=> s = r \/ s \in Present
  BY <1>1, <1>3, <1>5 DEF Present, Bystander, new
<1>7. KeyIndexIsExact'
  <2> SUFFICES ASSUME NEW k \in Keys, NEW s \in RouteIds
               PROVE  key_index'[k] = s <=> /\ s \in Present'
                                            /\ routes'[s].key = k
                                            /\ routes'[s].lifecycle # "Superseded"
    BY DEF KeyIndexIsExact
  <2>1. CASE s = r
    <3>1. CASE k = new.key
      BY <1>3, <1>4, <1>6, <2>1, <3>1 DEF new
    <3>2. CASE k # new.key
      <4>1. key_index[k] # r
        BY <1>0, <1>1, <1>3, <3>2 DEF KeyIndexIsExact
      <4> QED BY <1>4, <2>1, <3>2, <4>1 DEF new
    <3> QED BY <3>1, <3>2
  <2>2. CASE s # r
    <3>1. s \in Present' <=> s \in Present
      BY <1>6, <2>2
    <3>2. CASE k = new.key
      BY <1>2, <1>4, <1>5, <2>2, <3>1, <3>2
    <3>3. CASE k # new.key
      <4>1. key_index[k] = s <=> /\ s \in Present
                                 /\ routes[s].key = k
                                 /\ routes[s].lifecycle # "Superseded"
        BY <1>0, <1>1 DEF KeyIndexIsExact
      <4> QED BY <1>2, <1>4, <1>5, <2>2, <3>1, <3>3, <4>1
    <3> QED BY <3>2, <3>3
  <2> QED BY <2>1, <2>2
<1>8. IdentitiesKeepKeys'
  BY <1>0, <1>1, <1>5, <1>6 DEF IdentitiesKeepKeys, new, Present
<1>9. KeysAreHeld'
  <2> SUFFICES ASSUME NEW s \in Present' PROVE key_index'[routes'[s].key] # None
    BY DEF KeysAreHeld
  <2>1. CASE routes'[s].key = new.key
    BY <1>4, <2>1, NoneAssumption
  <2>2. CASE routes'[s].key # new.key
    <3>1. s \in Present \ {r}
      BY <1>6, <2>2 DEF new, Present
    <3>2. routes'[s].key = routes[s].key /\ routes[s].key \in Keys
      BY <1>5, <3>1, PresentRecord, RecordNumbers
    <3> QED BY <1>0, <1>1, <1>4, <2>2, <3>1, <3>2 DEF KeysAreHeld
  <2> QED BY <2>1, <2>2
<1>10. RevokedAreRetired'
  <2> SUFFICES ASSUME NEW s \in revocations
               PROVE  s \in Present' /\ routes'[s].lifecycle = "Retired"
    BY <1>1 DEF RevokedAreRetired
  <2>1. s \in Present /\ routes[s].lifecycle = "Retired"
    BY <1>0 DEF RevokedAreRetired
  <2>2. s # r
    BY <1>3, <2>1 DEF BlocksRepublication
  <2>3. routes'[s].lifecycle = "Retired"
    BY <1>2, <1>5, <2>1, <2>2 DEF Bystander, Observed, Moved, BlocksRepublication
  <2> QED BY <1>5, <1>6, <2>1, <2>2, <2>3
<1>11. LiveRecordsValid'
  <2> SUFFICES ASSUME NEW s \in Present', routes'[s].lifecycle # "Superseded"
               PROVE  ValidRecord(routes[s])'
    BY DEF LiveRecordsValid
  <2>1. CASE s = r
    BY <1>3, <2>1 DEF new, ValidRecord
  <2>2. CASE s # r
    <3>1. s \in Present /\ Bystander(s)
      BY <1>5, <1>6, <2>2 DEF Present
    <3> QED BY <3>1, BystanderValid
  <2> QED BY <2>1, <2>2
<1>12. SupersededKeepCause'
  <2> SUFFICES ASSUME NEW s \in Present', routes'[s].lifecycle = "Superseded"
               PROVE  routes'[s].retirement # "None"
    BY DEF SupersededKeepCause
  <2>1. s # r
    BY <1>3 DEF new
  <2>2. s \in Present /\ Bystander(s)
    BY <1>5, <1>6, <2>1 DEF Present
  <2> QED BY <1>0, <2>2, BystanderCause
<1> QED BY <1>7, <1>8, <1>9, <1>10, <1>11, <1>12 DEF IndexInv

(* The end of an attempt leaves the index alone.                             *)
LEMMA EndKeepsTable ==
  ASSUME TypeInv, IndexInv, LiveRecordsValid, NEW a \in AttemptIds, EndStep(a)
  PROVE  IndexInv' /\ LiveRecordsValid'
<1> DEFINE r == attempts[a].route
<1>1. /\ r \in Present /\ r \in RouteIds
      /\ \A s \in RouteIds \ {r} : routes'[s] = routes[s]
      /\ UNCHANGED <<key_index, revocations, opened>>
  BY DEF EndStep, Present
<1>2. \/ routes'[r] = routes[r]
      \/ ~Stale(attempts[a], routes[r]) /\ Ended(routes[r], routes'[r], a)
  BY DEF EndStep
<1>3. ASSUME NEW s \in Present
      PROVE  \/ routes'[s] = routes[s]
             \/ /\ s \notin revocations /\ routes[s].lifecycle # "Superseded"
                /\ Ended(routes[s], routes'[s], a)
  <2>1. CASE s = r
    <3>1. CASE routes'[r] = routes[r]
      BY <2>1, <3>1
    <3>2. CASE ~Stale(attempts[a], routes[r]) /\ Ended(routes[r], routes'[r], a)
      BY <2>1, <3>2 DEF Stale, BlocksRepublication
    <3> QED BY <1>2, <3>1, <3>2
  <2>2. CASE s # r
    BY <1>1, <2>2 DEF Present
  <2> QED BY <2>1, <2>2
<1>4. ASSUME NEW s \in Present
      PROVE  /\ routes'[s] # None
             /\ routes'[s].key = routes[s].key
             /\ routes'[s].lifecycle = "Superseded" <=> routes[s].lifecycle = "Superseded"
             /\ s \in revocations => routes'[s] = routes[s]
             /\ routes'[s].lifecycle = "Superseded" => routes'[s] = routes[s]
  BY <1>3, NoneAssumption DEF Ended, Present
<1>5. Present' = Present
  BY <1>1, <1>4 DEF Present
<1>6. IndexInv'
  BY <1>1, <1>4, <1>5 DEF IndexInv, KeyIndexIsExact, IdentitiesKeepKeys, KeysAreHeld,
                    RevokedAreRetired, SupersededKeepCause
<1>7. LiveRecordsValid'
  <2> SUFFICES ASSUME NEW s \in Present, routes'[s].lifecycle # "Superseded"
               PROVE  ValidRecord(routes[s])'
    BY <1>5 DEF LiveRecordsValid
  <2>1. CASE routes'[s] = routes[s]
    <3>1. ValidRecord(routes[s])
      BY <2>1 DEF LiveRecordsValid
    <3> QED BY <2>1, <3>1 DEF ValidRecord
  <2>2. CASE Ended(routes[s], routes'[s], a)
    <3>1. ValidRecord(routes'[s])
      BY <2>2 DEF Ended
    <3> QED BY <3>1 DEF ValidRecord
  <2> QED BY <1>3, <2>1, <2>2
<1> QED BY <1>6, <1>7

(* Recovery rebuilds an exact index, since no two stored records have the    *)
(* same key, and a recovered record is valid, since its attempt is no newer. *)
LEMMA OpenKeepsTable ==
  ASSUME TypeInv, IndexInv, AttemptInv, LiveRecordsValid, Open
  PROVE  IndexInv' /\ LiveRecordsValid'
<1>0. /\ IdentitiesKeepKeys /\ RevokedAreRetired /\ AttemptsArePast
      /\ Present' = Present /\ revocations' = revocations
      /\ StoredRecordsLoad /\ StoredKeysLoad
  BY OpenForm DEF OpenStep, IndexInv, AttemptInv, Open, StoredRoutesLoad
<1>1. ASSUME NEW s \in Present
      PROVE  /\ routes'[s].key = routes[s].key
             /\ routes'[s].lifecycle = "Superseded" <=> routes[s].lifecycle = "Superseded"
             /\ routes[s].lifecycle = "Retired" => routes'[s] = routes[s]
             /\ ValidRecord(routes[s])'
  <2>0. ValidRecord(routes[s])
    BY <1>0 DEF StoredRecordsLoad
  <2>1. CASE routes'[s] = routes[s]
    BY <2>0, <2>1 DEF ValidRecord
  <2>2. ASSUME NEW a \in RecoveryAttempts(s), routes'[s] = RecoveredRecord(routes[s], a)
        PROVE  /\ routes'[s].key = routes[s].key
               /\ routes'[s].lifecycle = "Superseded" <=> routes[s].lifecycle = "Superseded"
               /\ routes[s].lifecycle = "Retired" => routes'[s] = routes[s]
               /\ ValidRecord(routes[s])'
    <3> DEFINE new == RecoveredRecord(routes[s], a)
    <3>1. /\ new.lifecycle = "RevalidationRequired"
          /\ new.key = routes[s].key
          /\ new.generation = routes[s].generation
          /\ new.authority_generation = routes[s].authority_generation
          /\ new.invalidation_watermark = routes[s].invalidation_watermark
          /\ new.programming_generation = routes[s].programming_generation
          /\ new.retirement = routes[s].retirement
          /\ new.applied.programmed_generation = attempts[a].desired_generation
          /\ new.applied.programming_generation = attempts[a].programming_generation
      BY RecoveredFields
    <3>2. /\ a \in Started /\ attempts[a].route = s
          /\ HasOutstandingProgramming(routes[s].lifecycle)
      BY DEF RecoveryAttempts, Unresolved
    <3>3. /\ attempts[a].desired_generation <= routes[s].generation
          /\ attempts[a].programming_generation <= routes[s].programming_generation
      BY <1>0, <3>2 DEF AttemptsArePast, AttemptIsPast
    <3> HIDE DEF new
    <3>4. ValidRecord(new)
      BY <2>0, <3>1, <3>2, <3>3 DEF ValidRecord, HasOutstandingProgramming
    <3> QED BY <2>2, <3>1, <3>2, <3>4 DEF new, HasOutstandingProgramming, ValidRecord
  <2> QED BY <2>1, <2>2, OpenForm DEF OpenStep
<1>2. ASSUME NEW k \in Keys
      PROVE  /\ key_index'[k] = None => \A s \in Present : routes[s].key # k \/
                                           routes[s].lifecycle = "Superseded"
             /\ key_index'[k] # None => /\ key_index'[k] \in Present
                                        /\ routes[key_index'[k]].key = k
                                        /\ routes[key_index'[k]].lifecycle # "Superseded"
  <2> DEFINE holders == {s \in Present : /\ routes[s].key = k
                                         /\ routes[s].lifecycle # "Superseded"}
  <2>1. key_index'[k] \in (IF holders = {} THEN {None} ELSE holders)
    BY DEF Open
  <2>2. None \notin holders
    BY NoneAssumption DEF Present
  <2> QED BY <2>1, <2>2
<1>3. KeyIndexIsExact'
  <2> SUFFICES ASSUME NEW k \in Keys, NEW s \in RouteIds
               PROVE  key_index'[k] = s <=> /\ s \in Present
                                            /\ routes'[s].key = k
                                            /\ routes'[s].lifecycle # "Superseded"
    BY <1>0 DEF KeyIndexIsExact
  <2>1. ASSUME key_index'[k] = s
        PROVE  s \in Present /\ routes'[s].key = k /\ routes'[s].lifecycle # "Superseded"
    BY <1>1, <1>2, <2>1, NoneAssumption
  <2>2. ASSUME s \in Present, routes'[s].key = k, routes'[s].lifecycle # "Superseded"
        PROVE  key_index'[k] = s
    BY <1>0, <1>1, <1>2, <2>2 DEF StoredKeysLoad
  <2> QED BY <2>1, <2>2
<1>4. IdentitiesKeepKeys'
  BY <1>0, <1>1 DEF IdentitiesKeepKeys
<1>5. RevokedAreRetired'
  BY <1>0, <1>1 DEF RevokedAreRetired
<1>6. LiveRecordsValid'
  BY <1>0, <1>1 DEF LiveRecordsValid
<1>7. \A s \in Present : routes[s].lifecycle # "Superseded"
  BY <1>0 DEF StoredRecordsLoad, ValidRecord, IndexInv, SupersededKeepCause
<1>8. KeysAreHeld'
  BY <1>0, <1>1, <1>2, <1>7, PresentRecord, RecordNumbers DEF KeysAreHeld
<1>9. SupersededKeepCause'
  BY <1>0, <1>1, <1>7 DEF SupersededKeepCause
<1> QED BY <1>3, <1>4, <1>5, <1>6, <1>8, <1>9 DEF IndexInv

(* A crash empties the index and keeps the records.                          *)
LEMMA CrashKeepsTable ==
  ASSUME IndexInv, LiveRecordsValid, Crash
  PROVE  IndexInv' /\ LiveRecordsValid'
<1>1. UNCHANGED <<routes, revocations>> /\ ~opened'
  BY DEF Crash, AuthorityCrash
<1> QED BY <1>1 DEF IndexInv, KeyIndexIsExact, IdentitiesKeepKeys, KeysAreHeld,
                    RevokedAreRetired, SupersededKeepCause, LiveRecordsValid, Present,
                    ValidRecord

-----------------------------------------------------------------------------
(* The invariant of the route table, and what follows from it.               *)

LEMMA TableInitially == Init => TableInv
<1> SUFFICES ASSUME Init PROVE TableInv
  OBVIOUS
<1>1. /\ Present = {} /\ Started = {} /\ Unresolved = {} /\ revocations = {}
      /\ ~opened
  BY DEF Init, AuthorityInit, Present, Started, Unresolved
<1>2. TypeInv
  BY TypesInitially
<1>3. IndexInv /\ LiveRecordsValid
  BY <1>1 DEF IndexInv, KeyIndexIsExact, IdentitiesKeepKeys, KeysAreHeld,
              RevokedAreRetired, SupersededKeepCause, LiveRecordsValid
<1>4. AttemptInv
  BY <1>1 DEF AttemptInv, AttemptsArePast, AttemptsDiffer, UnresolvedAreAwaited,
              WaitingAwait
<1> QED BY <1>2, <1>3, <1>4 DEF TableInv

LEMMA TableStep == TableInv /\ [Next]_vars /\ [~Lapse]_vars => TableInv'
<1> SUFFICES ASSUME TableInv, [Next]_vars, [~Lapse]_vars PROVE TableInv'
  OBVIOUS
<1>0. TypeInv /\ IndexInv /\ AttemptInv /\ LiveRecordsValid /\ RevokedAreRetired
  BY DEF TableInv, IndexInv
<1>1. TypeInv'
  BY <1>0, TypesStep
<1>2. CASE Next /\ ~Lapse
  <2>1. StepForm
    BY <1>2, StepForms
  <2>2. CASE MoveStep
    BY <1>0, <1>1, <2>2, MoveKeepsAttempts, MoveKeepsTable DEF TableInv
  <2>3. CASE \E r \in RouteIds, a \in AttemptIds, op \in {"Install", "Replace", "Withdraw"} :
               StartStep(r, a, op)
    BY <1>0, <1>1, <2>3, StartKeepsAttempts, StartKeepsTable DEF TableInv
  <2>4. CASE \E a \in AttemptIds : EndStep(a)
    BY <1>0, <1>1, <2>4, EndKeepsAttempts, EndKeepsTable DEF TableInv
  <2>5. CASE Open
    BY <1>0, <1>1, <2>5, OpenForm, OpenKeepsAttempts, OpenKeepsTable DEF TableInv
  <2>6. CASE Crash
    BY <1>0, <1>1, <2>6, CrashKeepsAttempts, CrashKeepsTable DEF TableInv
  <2> QED BY <2>1, <2>2, <2>3, <2>4, <2>5, <2>6 DEF StepForm
<1>3. CASE UNCHANGED vars
  BY <1>0, <1>1, <1>3
     DEF TableInv, IndexInv, KeyIndexIsExact, IdentitiesKeepKeys, KeysAreHeld,
         RevokedAreRetired, SupersededKeepCause, LiveRecordsValid, ValidRecord,
         AttemptInv, AttemptsArePast, AttemptIsPast, AttemptsDiffer,
         UnresolvedAreAwaited, WaitingAwait, Awaits, Matches, Present, Started,
         Unresolved, vars
<1> QED BY <1>2, <1>3

LEMMA TableAlways == Spec /\ Lapseless => []TableInv
BY TableInitially, TableStep, PTL DEF Spec, Lapseless

(* Every record a later Open would load passes validate_route_record, except *)
(* those of superseded lineages, whatever completions, path changes,         *)
(* retirements, whole takeovers and restarts interleave.                     *)
THEOREM LiveRecordsAreValid == Spec /\ Lapseless => []LiveRecordsValid
<1>1. TableInv => LiveRecordsValid
  BY DEF TableInv
<1> QED BY <1>1, TableAlways, PTL

(* A completion that passes the stale completion defence finds its route in  *)
(* the lifecycle that its operation expects.                                 *)
THEOREM CompletionsAlwaysFit == Spec /\ Lapseless => []CompletionsFitLifecycle
<1>1. ASSUME TableInv PROVE CompletionsFitLifecycle
  BY <1>1 DEF TableInv, AttemptInv, UnresolvedAreAwaited, CompletionsFitLifecycle,
              Stale, Matches, WaitingFor
<1> QED BY <1>1, TableAlways, PTL

(* A route that is INSTALLING or WITHDRAWING has an attempt on its way, or    *)
(* one of an earlier epoch.                                                  *)
THEOREM WaitingRoutesHaveAttempts == Spec /\ Lapseless => []WaitingHasAttempt
<1>1. ASSUME TableInv PROVE WaitingHasAttempt
  <2> SUFFICES ASSUME NEW r \in Present, HasOutstandingProgramming(routes[r].lifecycle)
               PROVE  LET a == routes[r].applied.attempt IN
                      a \in Unresolved \/ (a \in Started /\ attempts[a].epoch # epoch)
    BY DEF WaitingHasAttempt
  <2> DEFINE a == routes[r].applied.attempt
  <2>1. Awaits(r, a) /\ TypeInv
    BY <1>1 DEF TableInv, AttemptInv, WaitingAwait
  <2>2. a \in Started /\ (a \in Unresolved \/ attempts[a].epoch < epoch)
    BY <2>1 DEF Awaits
  <2>3. attempts[a].epoch \in Nat /\ epoch \in Nat
    BY <2>1, <2>2, StartedRecord, EpochNumber
  <2> QED BY <2>2, <2>3
<1> QED BY <1>1, TableAlways, PTL

-----------------------------------------------------------------------------
(* What a step may never do to a route.                                      *)

\* Route r takes the outcome of its attempt a, which is not stale.
TakesOutcome(r, a) ==
  /\ a \in Unresolved /\ attempts[a].route = r
  /\ ~Stale(attempts[a], routes[r])
  /\ Ended(routes[r], routes'[r], a)

\* Recovery gives route r back without knowing the outcome of its attempt a.
IsRecovered(r, a) ==
  /\ a \in RecoveryAttempts(r)
  /\ routes'[r] = RecoveredRecord(routes[r], a)

(* A route stands by, starts an attempt, takes an outcome or is recovered.   *)
LEMMA RouteSteps ==
  ASSUME TableInv, [Next]_vars, [~Lapse]_vars, NEW r \in Present
  PROVE  \/ Bystander(r)
         \/ \E a \in AttemptIds, op \in {"Install", "Replace", "Withdraw"} :
              Programs(routes[r], routes'[r], a, op)
         \/ \E a \in AttemptIds : TakesOutcome(r, a)
         \/ \E a \in AttemptIds : IsRecovered(r, a)
<1>0. r \in RouteIds /\ routes[r] \in RouteRecords /\ TypeInv
  BY PresentRecord DEF TableInv
<1>1. routes'[r] = routes[r] => Bystander(r)
  BY <1>0 DEF Bystander, Observed
<1>2. CASE UNCHANGED vars
  BY <1>1, <1>2 DEF vars
<1>3. CASE Next /\ ~Lapse
  <2>1. StepForm
    BY <1>3, StepForms
  <2>2. CASE MoveStep
    BY <1>0, <2>2 DEF MoveStep
  <2>3. ASSUME NEW q \in RouteIds, NEW a \in AttemptIds,
               NEW op \in {"Install", "Replace", "Withdraw"}, StartStep(q, a, op)
        PROVE  \/ Bystander(r)
               \/ Programs(routes[r], routes'[r], a, op)
    BY <1>0, <2>3 DEF StartStep
  <2>4. ASSUME NEW a \in AttemptIds, EndStep(a)
        PROVE  Bystander(r) \/ TakesOutcome(r, a)
    <3>1. CASE r = attempts[a].route
      BY <1>1, <2>4, <3>1 DEF EndStep, TakesOutcome
    <3>2. CASE r # attempts[a].route
      BY <1>0, <1>1, <2>4, <3>2 DEF EndStep
    <3> QED BY <3>1, <3>2
  <2>5. CASE Open
    <3>1. \/ routes'[r] = routes[r]
          \/ \E a \in RecoveryAttempts(r) : routes'[r] = RecoveredRecord(routes[r], a)
      BY <1>0, <2>5, OpenForm DEF OpenStep
    <3> QED BY <1>1, <3>1 DEF IsRecovered, RecoveryAttempts, Unresolved, Started
  <2>6. CASE Crash
    BY <1>1, <2>6 DEF Crash
  <2> QED BY <2>1, <2>2, <2>3, <2>4, <2>5, <2>6 DEF StepForm
<1> QED BY <1>2, <1>3

(* The key of a lineage is fixed, and its generations only advance.           *)
LEMMA RouteForward ==
  ASSUME TableInv, [Next]_vars, [~Lapse]_vars, NEW r \in Present
  PROVE  /\ r \in Present'
         /\ routes'[r].key = routes[r].key
         /\ routes'[r].generation >= routes[r].generation
         /\ routes'[r].programming_generation >= routes[r].programming_generation
         /\ routes'[r].invalidation_watermark >= routes[r].invalidation_watermark
         /\ routes'[r].binding # routes[r].binding =>
              routes'[r].generation > routes[r].generation
<1>0. TypeInv
  BY DEF TableInv
<1>1. /\ r \in RouteIds
      /\ routes[r].generation \in Nat /\ routes[r].programming_generation \in Nat
      /\ routes[r].invalidation_watermark \in Nat
  BY <1>0, PresentRecord, RecordNumbers
<1>2. CASE Bystander(r)
  BY <1>0, <1>1, <1>2, BystanderKeeps DEF Present
<1>3. CASE \E a \in AttemptIds, op \in {"Install", "Replace", "Withdraw"} :
             Programs(routes[r], routes'[r], a, op)
  BY <1>1, <1>3, NoneAssumption DEF Programs, Present
<1>4. CASE \E a \in AttemptIds : TakesOutcome(r, a)
  BY <1>1, <1>4, NoneAssumption DEF TakesOutcome, Ended, Present
<1>5. CASE \E a \in AttemptIds : IsRecovered(r, a)
  <2>1. PICK a \in RecoveryAttempts(r) : routes'[r] = RecoveredRecord(routes[r], a)
    BY <1>5 DEF IsRecovered
  <2> QED BY <1>0, <1>1, <2>1, RecoveredFields, NoneAssumption DEF Present
<1> QED BY <1>2, <1>3, <1>4, <1>5, RouteSteps

(* A waiting route takes an outcome from no attempt but the one it last      *)
(* started, although completions come late, twice and out of order.          *)
THEOREM OutcomesAreOwn == Spec /\ Lapseless => OutcomeIsOwn
<1> DEFINE TakesOwn(r) ==
      /\ HasOutstandingProgramming(routes[r].lifecycle)
      /\ ~HasOutstandingProgramming(routes'[r].lifecycle)
      => routes'[r].applied.attempt = routes[r].applied.attempt
<1>1. ASSUME TableInv, [Next]_vars, [~Lapse]_vars, NEW r \in Present
      PROVE  TakesOwn(r)
  <2> SUFFICES ASSUME HasOutstandingProgramming(routes[r].lifecycle),
                      ~HasOutstandingProgramming(routes'[r].lifecycle)
               PROVE  routes'[r].applied.attempt = routes[r].applied.attempt
    OBVIOUS
  <2>0. TypeInv /\ AttemptsDiffer /\ Awaits(r, routes[r].applied.attempt)
    BY <1>1 DEF TableInv, AttemptInv, WaitingAwait
  <2>1. CASE Bystander(r)
    BY <2>0, <2>1, BystanderKeeps
  <2>2. ASSUME NEW a \in AttemptIds, NEW op, Programs(routes[r], routes'[r], a, op)
        PROVE  FALSE
    BY <2>2 DEF Programs, WaitingFor, HasOutstandingProgramming
  <2>3. ASSUME NEW a \in Started, attempts[a].route = r,
               attempts[a].programming_generation = routes[r].programming_generation
        PROVE  a = routes[r].applied.attempt
    BY <2>0, <2>3 DEF Awaits, Matches, AttemptsDiffer
  <2>4. ASSUME NEW a \in AttemptIds, TakesOutcome(r, a)
        PROVE  routes'[r].applied.attempt = routes[r].applied.attempt
    BY <2>3, <2>4 DEF TakesOutcome, Unresolved, Stale, Ended
  <2>5. ASSUME NEW a \in AttemptIds, IsRecovered(r, a)
        PROVE  routes'[r].applied.attempt = routes[r].applied.attempt
    BY <2>0, <2>3, <2>5, RecoveredFields DEF IsRecovered, RecoveryAttempts, Unresolved
  <2> QED BY <1>1, <2>1, <2>2, <2>4, <2>5, RouteSteps
<1>2. TableInv /\ [Next]_vars /\ [~Lapse]_vars =>
        [\A r \in Present : TakesOwn(r)]_vars
  BY <1>1
<1> QED BY <1>2, TableAlways, PTL DEF Spec, Lapseless, OutcomeIsOwn

-----------------------------------------------------------------------------
(* The counter of outstanding attempts.  No lapse disturbs it.               *)

SlotInv == IsFiniteSet(Unresolved) /\ OutstandingIsExact

(* A life is begun by Open and ended by Crash, and by nothing else.          *)
LEMMA LifeChanges ==
  ASSUME TypeInv, Next, ~Open, ~Crash
  PROVE  opened' = opened
<1>1. CASE AuthorityStep /\ UNCHANGED <<path_authority, routeVars>>
  BY <1>1, AuthorityStepLife
<1>2. CASE AdvanceEpoch
  BY <1>2 DEF AdvanceEpoch
<1>3. CASE UNCHANGED authorityVars
  BY <1>3 DEF authorityVars
<1>4. Publish \/ Mutate \/ Complete \/ PathChange \/ Reconcile => UNCHANGED authorityVars
  BY PublishEffect, MutateEffect, CompleteEffect, PathChangeEffect, ReconcileEffect
     DEF Elsewhere
<1> QED BY <1>1, <1>2, <1>3, <1>4 DEF Next, Handle

LEMMA SlotStep == TypeInv /\ SlotInv /\ [Next]_vars => SlotInv'
<1> SUFFICES ASSUME TypeInv, SlotInv, [Next]_vars PROVE SlotInv'
  OBVIOUS
<1>0. /\ IsFiniteSet(Unresolved) /\ Cardinality(Unresolved) \in Nat
      /\ opened => outstanding_programming = Cardinality(Unresolved)
  BY FS_CardinalityType DEF SlotInv, OutstandingIsExact
<1>1. ASSUME UNCHANGED <<attempts, outstanding_programming>>, opened' => opened
      PROVE  SlotInv'
  <2>1. Unresolved' = Unresolved
    BY <1>1 DEF Unresolved, Started
  <2> QED BY <1>0, <1>1, <2>1 DEF SlotInv, OutstandingIsExact
<1>2. ASSUME NEW a \in AttemptIds, TakesSlot(a), opened' => opened
      PROVE  SlotInv'
  <2>1. Unresolved' = Unresolved \cup {a} /\ a \notin Unresolved
    BY <1>2, NoneAssumption DEF TakesSlot, Unresolved, Started
  <2>2. /\ IsFiniteSet(Unresolved')
        /\ Cardinality(Unresolved') = Cardinality(Unresolved) + 1
    BY <1>0, <2>1, FS_AddElement
  <2> QED BY <1>0, <1>2, <2>2 DEF TakesSlot, SlotInv, OutstandingIsExact
<1>3. CASE Complete
  <2>1. PICK a \in AttemptIds, outcome \in Outcomes : ApplyCompletion(a, outcome)
    BY <1>3 DEF Complete
  <2>2. /\ opened /\ opened' = opened /\ a \in Unresolved /\ a \in Started
        /\ attempts' = [attempts EXCEPT ![a].resolved = TRUE]
        /\ outstanding_programming' =
             IF outstanding_programming > 0 THEN outstanding_programming - 1 ELSE 0
    BY <2>1 DEF ApplyCompletion, Resolve, authorityVars, Unresolved
  <2>3. Unresolved' = Unresolved \ {a}
    BY <2>2, ResolvedAttempt
  <2>4. /\ IsFiniteSet(Unresolved') /\ Cardinality(Unresolved') \in Nat
        /\ Cardinality(Unresolved') = Cardinality(Unresolved) - 1
    BY <1>0, <2>2, <2>3, FS_RemoveElement, FS_CardinalityType
  <2> QED BY <1>0, <2>2, <2>4 DEF SlotInv, OutstandingIsExact
<1>4. CASE Open
  <2>1. Unresolved' = {} /\ outstanding_programming' = 0
    BY <1>4, OpenForm DEF OpenStep, Open
  <2> QED BY <2>1, FS_EmptySet DEF SlotInv, OutstandingIsExact
<1>5. CASE Crash
  <2>1. attempts' = attempts /\ ~opened'
    BY <1>5 DEF Crash, AuthorityCrash
  <2>2. Unresolved' = Unresolved
    BY <2>1 DEF Unresolved, Started
  <2> QED BY <1>0, <2>1, <2>2 DEF SlotInv, OutstandingIsExact
<1>6. CASE UNCHANGED vars
  BY <1>1, <1>6 DEF vars
<1>7. CASE Next /\ ~Complete /\ ~Open /\ ~Crash
  <2>1. SlotEffect /\ opened' = opened
    BY <1>7, StepEffect, LifeChanges DEF Effect, Next
  <2> QED BY <1>1, <1>2, <1>7, <2>1 DEF SlotEffect
<1> QED BY <1>3, <1>4, <1>5, <1>6, <1>7

(* The outstanding_programming counter of an open runtime is the number of   *)
(* attempts no outcome or recovery has resolved: a duplicate completion      *)
(* frees no second slot, and a takeover that fails leaks none.               *)
THEOREM OutstandingAlwaysExact == Spec => []OutstandingIsExact
<1>1. ASSUME Init PROVE SlotInv
  <2>1. Unresolved = {} /\ ~opened
    BY <1>1 DEF Init, AuthorityInit, Unresolved, Started
  <2> QED BY <2>1, FS_EmptySet DEF SlotInv, OutstandingIsExact
<1>2. SlotInv => OutstandingIsExact
  BY DEF SlotInv
<1>3. Spec => [](TypeInv /\ SlotInv)
  BY <1>1, TypesInitially, TypesStep, SlotStep, PTL DEF Spec
<1> QED BY <1>2, <1>3, PTL
=============================================================================
