------------------------- MODULE RouteLineageProofs -------------------------
(***************************************************************************)
(* What no step of RouteRuntime does to the history of a lineage, with the   *)
(* lapses or without: a record goes on from where it was, and a retired one  *)
(* stays retired, unless a publication creates the lineage anew.             *)
(***************************************************************************)
EXTENDS RouteTableProofs

\* The record of route r goes on: its counters do not fall, and another binding
\* comes with another generation.
GoesOn(r) ==
  /\ routes'[r].generation >= routes[r].generation
  /\ routes'[r].programming_generation >= routes[r].programming_generation
  /\ routes'[r].invalidation_watermark >= routes[r].invalidation_watermark
  /\ routes'[r].binding # routes[r].binding =>
       routes'[r].generation > routes[r].generation

\* Route r does not come back from retirement or supersession.
StaysEnded(r) ==
  /\ routes[r].lifecycle = "Retired" =>
       routes'[r].lifecycle \in {"Retired", "Superseded"}
  /\ routes[r].lifecycle = "Superseded" =>
       \/ routes'[r].lifecycle = "Superseded"
       \/ routes'[r].lifecycle = "Retired" /\ r \in revocations' \ revocations

Lives(r) == GoesOn(r) /\ StaysEnded(r)

LEMMA KeptLives ==
  ASSUME TypeInv, NEW r \in Present, routes'[r] = routes[r]
  PROVE  Lives(r)
<1>1. /\ routes[r].generation \in Nat /\ routes[r].programming_generation \in Nat
      /\ routes[r].invalidation_watermark \in Nat
  BY PresentRecord, RecordNumbers
<1> QED BY <1>1 DEF Lives, GoesOn, StaysEnded

(* The counters of an advanced record, whatever else of it is replaced.      *)
LEMMA AdvancedGoesOn ==
  ASSUME TypeInv, NEW r \in Present, CanAdvance(routes[r]),
         routes'[r].generation = Advanced(routes[r]).generation,
         routes'[r].programming_generation \in
           {Advanced(routes[r]).programming_generation,
            Advanced(routes[r]).programming_generation + 1},
         routes'[r].invalidation_watermark \in
           {Advanced(routes[r]).invalidation_watermark, routes[r].authority_generation + 1}
  PROVE  GoesOn(r)
<1>1. routes[r] \in RouteRecords /\ WatermarkOK(routes[r])
  BY PresentRecord
<1>2. /\ Advanced(routes[r]).generation = routes[r].generation + 1
      /\ Advanced(routes[r]).programming_generation = routes[r].programming_generation
      /\ Advanced(routes[r]).invalidation_watermark = routes[r].invalidation_watermark
  BY <1>1, AdvancedType
<1>3. /\ routes[r].generation \in Nat /\ routes[r].programming_generation \in Nat
      /\ routes[r].invalidation_watermark \in Nat
      /\ routes[r].authority_generation \in Nat
  BY <1>1, RecordNumbers
<1>4. routes[r].invalidation_watermark <= routes[r].authority_generation
  BY <1>1 DEF WatermarkOK
<1> QED BY <1>2, <1>3, <1>4 DEF GoesOn

(* StartAttempt for the next version rec of a route that is not retired.     *)
LEMMA ReprogrammedLives ==
  ASSUME TypeInv, NEW r \in Present, NEW rec \in RouteRecords, NEW l, NEW a, NEW op,
         ~BlocksRepublication(routes[r].lifecycle), CanAdvance(routes[r]),
         rec.generation = Advanced(routes[r]).generation,
         rec.programming_generation = Advanced(routes[r]).programming_generation,
         rec.invalidation_watermark = Advanced(routes[r]).invalidation_watermark,
         StartAttempt(routes, key_index, r, Prepared(rec, l, a), a, op)
  PROVE  \A s \in Present : Lives(s)
<1>1. routes' = [routes EXCEPT ![r] = Prepared(rec, l, a)]
  BY DEF StartAttempt, CommitOn
<1>2. /\ routes'[r] = Prepared(rec, l, a)
      /\ \A s \in Present \ {r} : routes'[s] = routes[s]
  BY <1>1, PresentRecord DEF TypeInv, TypeOK, Present
<1>3. /\ routes'[r].generation = rec.generation
      /\ routes'[r].programming_generation = rec.programming_generation + 1
      /\ routes'[r].invalidation_watermark = rec.invalidation_watermark
  BY <1>2, PreparedFields
<1>4. GoesOn(r)
  BY <1>3, AdvancedGoesOn
<1>5. StaysEnded(r)
  BY DEF StaysEnded, BlocksRepublication
<1> QED BY <1>2, <1>4, <1>5, KeptLives DEF Lives

(* The creation half of publish_one makes the lineage anew.                  *)
LEMMA CreatedAnew ==
  ASSUME TypeInv, NEW rs, NEW ki, NEW p \in Publishers, NEW b \in Boots, NEW k \in Keys,
         NEW binding \in Bindings, NEW r \in RouteIds, NEW a \in AttemptIds,
         rs \in [RouteIds -> RouteRecords \cup {None}],
         key_index[k] # r,
         CreateOn(rs, ki, p, b, k, binding, r, a)
  PROVE  /\ Recreated(r)
         /\ \A s \in RouteIds \ {r} : routes'[s] = rs[s]
<1> DEFINE fresh == FreshRecord(p, b, k, binding, a)
           new == Prepared(fresh, "Installing", a)
<1>1. 1 \in Generations
  BY RuntimeAssumption DEF Generations
<1>2. fresh \in RouteRecords
  BY <1>1 DEF FreshRecord, RouteRecords, AppliedStates, Lifecycles, Observations,
              Classifications, TypeInv, TypeOK, AuthorityTypeOK
<1>3. /\ fresh.key = k /\ fresh.generation = 1
      /\ fresh.programming_generation + 1 <= MaxGeneration
  BY RuntimeAssumption DEF FreshRecord
<1> HIDE DEF fresh
<1>4. /\ new \in RouteRecords /\ new.key = k /\ new.generation = 1
      /\ new.lifecycle = "Installing" /\ new.applied.attempt = a
  BY <1>2, <1>3, PreparedType, PreparedFields DEF Lifecycles
<1>5. StartAttempt(rs, ki, r, new, a, "Install")
  BY BeginEvents DEF CreateOn, fresh
<1> HIDE DEF new
<1>6. /\ attempts[a] = None
      /\ routes' = [rs EXCEPT ![r] = new]
      /\ key_index' = Reindexed(ki, rs, r, new)
  BY <1>5 DEF StartAttempt, CommitOn
<1>7. routes'[r] = new /\ \A s \in RouteIds \ {r} : routes'[s] = rs[s]
  BY <1>6
<1>8. key_index'[k] = r
  BY <1>4, <1>6 DEF Reindexed
<1>9. a \in Started' \ Started
  <2> DEFINE at == [route                  |-> r,
                    desired_generation     |-> new.generation,
                    programming_generation |-> new.programming_generation,
                    operation              |-> "Install",
                    epoch                  |-> epoch,
                    resolved               |-> FALSE]
  <2>1. attempts'[a] = at
    BY <1>5 DEF StartAttempt, TypeInv, TypeOK
  <2>2. at \in AttemptRecords
    BY <1>4 DEF AttemptRecords, RouteRecords, TypeInv, TypeOK, AuthorityTypeOK
  <2> HIDE DEF at
  <2> QED BY <1>6, <2>1, <2>2, NoneAssumption DEF Started
<1> QED BY <1>4, <1>7, <1>8, <1>9 DEF Recreated

\* Every present route lives on or is created anew.
LivesOrRecreated == \A r \in Present : Lives(r) \/ Recreated(r)

LEMMA SupersededLives ==
  ASSUME TypeInv, NEW r \in Present, CanAdvance(routes[r]),
         routes'[r] = SupersededRecord(routes[r])
  PROVE  Lives(r)
<1>1. Advanced(routes[r]) \in RouteRecords
  BY PresentRecord, AdvancedType
<1>2. /\ routes'[r].lifecycle = "Superseded"
      /\ routes'[r].generation = Advanced(routes[r]).generation
      /\ routes'[r].programming_generation = Advanced(routes[r]).programming_generation
      /\ routes'[r].invalidation_watermark = Advanced(routes[r]).invalidation_watermark
  BY <1>1 DEF SupersededRecord, RouteRecords
<1>3. GoesOn(r)
  BY <1>2, AdvancedGoesOn
<1> QED BY <1>2, <1>3 DEF Lives, StaysEnded

LEMMA PublishLives ==
  ASSUME TypeInv, Publish
  PROVE  LivesOrRecreated
<1>0. /\ routes \in [RouteIds -> RouteRecords \cup {None}]
      /\ key_index \in [Keys -> RouteIds \cup {None}]
  BY DEF TypeInv, TypeOK
<1>1. ASSUME NEW p \in Publishers, NEW b \in Boots, NEW k \in Keys,
             NEW binding \in Bindings, NEW a \in AttemptIds,
             NEW lineage \in RouteIds \cup {None},
             PublishNew(p, b, k, binding, lineage, a)
      PROVE  LivesOrRecreated
  <2> DEFINE r == LineageId(k, lineage)
  <2>1. /\ r \in RouteIds /\ key_index[k] # r
        /\ CreateOn(routes, key_index, p, b, k, binding, r, a)
    BY <1>1, RuntimeAssumption, NoneAssumption DEF PublishNew, LineageId
  <2> HIDE DEF r
  <2>2. Recreated(r) /\ \A s \in RouteIds \ {r} : routes'[s] = routes[s]
    BY <1>0, <2>1, CreatedAnew
  <2> QED BY <2>2, KeptLives DEF LivesOrRecreated, Present
<1>2. ASSUME NEW k \in Keys, key_index[k] # None
      PROVE  key_index[k] \in Present
  BY <1>2 DEF TypeInv, IndexNamesLive
<1>3. ASSUME NEW p \in Publishers, NEW b \in Boots, NEW k \in Keys,
             NEW binding \in Bindings, NEW a \in AttemptIds,
             NEW lineage \in RouteIds \cup {None},
             PublishTakeover(p, b, k, binding, lineage, a)
      PROVE  LivesOrRecreated
  <2> DEFINE q == key_index[k]
             gone == SupersededRecord(routes[q])
             rs == [routes EXCEPT ![q] = gone]
             ki == Reindexed(key_index, routes, q, gone)
  <2>1. /\ q # None /\ CanAdvance(routes[q])
        /\ lineage \in RouteIds /\ q # lineage
        /\ CreateOn(rs, ki, p, b, k, binding, lineage, a)
    BY <1>3 DEF PublishTakeover, MayTakeOver, LineageId
  <2>2. q \in Present /\ q \in RouteIds
    BY <1>2, <2>1 DEF Present
  <2>3. gone \in RouteRecords
    <3>1. Advanced(routes[q]) \in RouteRecords
      BY <2>1, <2>2, PresentRecord, AdvancedType
    <3> QED BY <3>1 DEF SupersededRecord, RouteRecords, Lifecycles
  <2>4. /\ rs \in [RouteIds -> RouteRecords \cup {None}]
        /\ rs[q] = gone /\ \A s \in RouteIds \ {q} : rs[s] = routes[s]
    BY <1>0, <2>2, <2>3
  <2> HIDE DEF gone, rs, ki
  <2>5. Recreated(lineage) /\ \A s \in RouteIds \ {lineage} : routes'[s] = rs[s]
    BY <2>1, <2>4, CreatedAnew
  <2>6. Lives(q)
    BY <2>1, <2>2, <2>4, <2>5, SupersededLives DEF gone
  <2>7. ASSUME NEW s \in Present, s # lineage, s # q
        PROVE  Lives(s)
    BY <2>4, <2>5, <2>7, KeptLives DEF Present
  <2> QED BY <2>5, <2>6, <2>7 DEF LivesOrRecreated
<1>4. ASSUME NEW p \in Publishers, NEW b \in Boots, NEW k \in Keys,
             NEW binding \in Bindings, NEW a \in AttemptIds,
             PublishReplace(p, b, k, binding, a)
      PROVE  LivesOrRecreated
  <2> DEFINE r == key_index[k]
             next == Advanced(routes[r])
             rec == [Authored(next, p, b) EXCEPT !.binding = binding]
  <2>1. PICK l \in NextLifecycle(routes[r].lifecycle, "BeginInstall") :
          StartAttempt(routes, key_index, r, Prepared(rec, l, a), a, "Replace")
    BY <1>4 DEF PublishReplace
  <2>2. /\ r \in Present /\ CanAdvance(routes[r])
        /\ ~BlocksRepublication(routes[r].lifecycle)
    BY <1>2, <1>4 DEF PublishReplace, MayReplace
  <2>3. next \in RouteRecords
    BY <2>2, PresentRecord, AdvancedType
  <2>4. epoch \in 1..MaxEpoch
    BY DEF TypeInv, TypeOK, AuthorityTypeOK
  <2> HIDE DEF next
  <2>5. /\ rec \in RouteRecords
        /\ rec.generation = next.generation
        /\ rec.programming_generation = next.programming_generation
        /\ rec.invalidation_watermark = next.invalidation_watermark
    BY <2>3, <2>4 DEF Authored, RouteRecords
  <2> HIDE DEF rec, r
  <2>6. \A s \in Present : Lives(s)
    BY <2>1, <2>2, <2>5, ReprogrammedLives DEF next
  <2> QED BY <2>6 DEF LivesOrRecreated
<1>5. ASSUME NEW p \in Publishers, NEW b \in Boots, NEW k \in Keys,
             NEW lineage \in RouteIds, PublishTakeoverFails(p, b, k, lineage)
      PROVE  LivesOrRecreated
  <2> DEFINE q == key_index[k]
  <2>1. /\ q # None /\ CanAdvance(routes[q])
        /\ routes' = [routes EXCEPT ![q] = SupersededRecord(routes[q])]
    BY <1>5 DEF PublishTakeoverFails, MayTakeOver, Commit, CommitOn
  <2>2. q \in Present /\ q \in RouteIds
    BY <1>2, <2>1 DEF Present
  <2>3. /\ routes'[q] = SupersededRecord(routes[q])
        /\ \A s \in RouteIds \ {q} : routes'[s] = routes[s]
    BY <1>0, <2>1, <2>2
  <2>4. Lives(q)
    BY <2>1, <2>2, <2>3, SupersededLives
  <2> QED BY <2>3, <2>4, KeptLives DEF LivesOrRecreated, Present
<1> QED BY <1>1, <1>3, <1>4, <1>5 DEF Publish

LEMMA MutateLives ==
  ASSUME TypeInv, Mutate
  PROVE  LivesOrRecreated
<1>0. routes \in [RouteIds -> RouteRecords \cup {None}] /\ epoch \in 1..MaxEpoch
  BY DEF TypeInv, TypeOK, AuthorityTypeOK
<1>1. ASSUME NEW r \in Present, CanAdvance(routes[r])
      PROVE  Advanced(routes[r]) \in RouteRecords
  BY <1>1, PresentRecord, AdvancedType
<1>2. ASSUME NEW p \in Publishers, NEW b \in Boots, NEW r \in RouteIds,
             NEW a \in AttemptIds, WithdrawRoute(p, b, r, a)
      PROVE  LivesOrRecreated
  <2>1. PICK l \in NextLifecycle(routes[r].lifecycle, "BeginWithdraw") :
          StartAttempt(routes, key_index, r, Prepared(Advanced(routes[r]), l, a),
                       a, "Withdraw")
    BY <1>2 DEF WithdrawRoute
  <2>2. /\ r \in Present /\ CanAdvance(routes[r])
        /\ ~BlocksRepublication(routes[r].lifecycle)
    BY <1>2 DEF WithdrawRoute, MayMutate, Present
  <2>3. \A s \in Present : Lives(s)
    BY <1>1, <2>1, <2>2, ReprogrammedLives
  <2> QED BY <2>3 DEF LivesOrRecreated
<1>3. ASSUME NEW p \in Publishers, NEW b \in Boots, NEW r \in RouteIds,
             NEW a \in AttemptIds, RevalidateRoute(p, b, r, a)
      PROVE  LivesOrRecreated
  <2> DEFINE next == Advanced(routes[r])
             rec == Authored(next, p, b)
             op == IF ReportsApplied(routes[r].applied.classification)
                   THEN "Replace" ELSE "Install"
  <2>1. PICK l \in NextLifecycle(routes[r].lifecycle, "BeginInstall") :
          StartAttempt(routes, key_index, r, Prepared(rec, l, a), a, op)
    BY <1>3 DEF RevalidateRoute
  <2>2. /\ r \in Present /\ CanAdvance(routes[r])
        /\ ~BlocksRepublication(routes[r].lifecycle)
    BY <1>3 DEF RevalidateRoute, MayMutate, Present
  <2>3. next \in RouteRecords
    BY <1>1, <2>2
  <2> HIDE DEF next
  <2>4. /\ rec \in RouteRecords
        /\ rec.generation = next.generation
        /\ rec.programming_generation = next.programming_generation
        /\ rec.invalidation_watermark = next.invalidation_watermark
    BY <1>0, <2>3 DEF Authored, RouteRecords
  <2> HIDE DEF rec, op
  <2>5. \A s \in Present : Lives(s)
    BY <2>1, <2>2, <2>4, ReprogrammedLives DEF next
  <2> QED BY <2>5 DEF LivesOrRecreated
<1>4. ASSUME NEW r \in Present, CanAdvance(routes[r]), NEW cause,
             Commit(r, [Advanced(routes[r]) EXCEPT !.lifecycle = "Retired",
                                                   !.retirement = cause]),
             routes[r].lifecycle = "Superseded" => r \in revocations' \ revocations
      PROVE  LivesOrRecreated
  <2> DEFINE next == Advanced(routes[r])
             new == [next EXCEPT !.lifecycle = "Retired", !.retirement = cause]
  <2>1. next \in RouteRecords
    BY <1>1, <1>4
  <2>2. routes' = [routes EXCEPT ![r] = new]
    BY <1>4 DEF Commit, CommitOn
  <2> HIDE DEF next
  <2>3. /\ new.lifecycle = "Retired"
        /\ new.generation = next.generation
        /\ new.programming_generation = next.programming_generation
        /\ new.invalidation_watermark = next.invalidation_watermark
    BY <2>1 DEF RouteRecords
  <2> HIDE DEF new
  <2>4. routes'[r] = new /\ \A s \in RouteIds \ {r} : routes'[s] = routes[s]
    BY <1>0, <2>2 DEF Present
  <2>5. GoesOn(r)
    BY <1>4, <2>3, <2>4, AdvancedGoesOn DEF next
  <2>6. StaysEnded(r)
    BY <1>4, <2>3, <2>4 DEF StaysEnded
  <2> QED BY <2>4, <2>5, <2>6, KeptLives DEF LivesOrRecreated, Lives, Present
<1>5. ASSUME NEW p \in Publishers, NEW b \in Boots, NEW r \in RouteIds,
             RetireRoute(p, b, r)
      PROVE  LivesOrRecreated
  <2>1. PICK next \in NextLifecycle(routes[r].lifecycle, "Retire") :
          Commit(r, [Advanced(routes[r]) EXCEPT !.lifecycle = next,
                                                !.retirement = "Administrative"])
    BY <1>5 DEF RetireRoute, CommitValid
  <2>2. next = "Retired"
    BY BeginEvents
  <2>3. /\ r \in Present /\ CanAdvance(routes[r])
        /\ routes[r].lifecycle # "Superseded"
    BY <1>5 DEF RetireRoute, MayMutate, Present, BlocksRepublication
  <2> QED BY <1>4, <2>1, <2>2, <2>3
<1>6. ASSUME NEW p \in Publishers, NEW b \in Boots, NEW r \in RouteIds,
             RevokeRoute(p, b, r)
      PROVE  LivesOrRecreated
  <2>1. PICK next \in NextLifecycle(routes[r].lifecycle, "Revoke") :
          Commit(r, [Advanced(routes[r]) EXCEPT !.lifecycle = next,
                                                !.retirement = "Revoked"])
    BY <1>6 DEF RevokeRoute, CommitValid
  <2>2. next = "Retired"
    BY BeginEvents
  <2>3. /\ r \in Present /\ CanAdvance(routes[r])
        /\ r \in revocations' \ revocations
    BY <1>6 DEF RevokeRoute, Present
  <2> QED BY <1>4, <2>1, <2>2, <2>3
<1> QED BY <1>2, <1>3, <1>5, <1>6 DEF Mutate

LEMMA PathChangeLives ==
  ASSUME TypeInv, PathChange
  PROVE  LivesOrRecreated
<1>1. ASSUME NEW ps, NEW answers, InvalidatePaths(ps, answers)
      PROVE  LivesOrRecreated
  <2> SUFFICES ASSUME NEW r \in Present PROVE Lives(r)
    BY DEF LivesOrRecreated
  <2> DEFINE hit == {s \in RouteIds : \E p \in ps : Invalidates(p, answers[p], s)}
  <2>1. /\ \A s \in hit : CanAdvance(routes[s])
        /\ routes' = [s \in RouteIds |->
                        IF s \in hit THEN InvalidatedRecord(routes[s]) ELSE routes[s]]
    BY <1>1 DEF InvalidatePaths
  <2>2. r \in hit => ~BlocksRepublication(routes[r].lifecycle)
    BY DEF Invalidates, BlocksRepublication
  <2> HIDE DEF hit
  <2>3. r \in RouteIds /\ routes[r] \in RouteRecords
    BY PresentRecord
  <2>4. CASE r \notin hit
    BY <2>1, <2>3, <2>4, KeptLives
  <2>5. CASE r \in hit
    <3> DEFINE next == Advanced(routes[r])
    <3>1. next \in RouteRecords /\ CanAdvance(routes[r])
      BY <2>1, <2>3, <2>5, AdvancedType
    <3>2. routes'[r] = [next EXCEPT !.invalidation_watermark = routes[r].authority_generation + 1,
                                    !.lifecycle = "RevalidationRequired"]
      BY <2>1, <2>3, <2>5 DEF InvalidatedRecord
    <3> HIDE DEF next
    <3>3. /\ routes'[r].generation = next.generation
          /\ routes'[r].programming_generation = next.programming_generation
          /\ routes'[r].invalidation_watermark = routes[r].authority_generation + 1
      BY <3>1, <3>2 DEF RouteRecords
    <3>4. GoesOn(r)
      BY <3>1, <3>3, AdvancedGoesOn DEF next
    <3> QED BY <2>2, <2>5, <3>4 DEF Lives, StaysEnded, BlocksRepublication
  <2> QED BY <2>4, <2>5
<1> QED BY <1>1 DEF PathChange, OnPathAuthorityChanged, RevalidatePathAuthorities

LEMMA ReconcileLives ==
  ASSUME TypeInv, Reconcile
  PROVE  LivesOrRecreated
<1>1. PICK r \in RouteIds, presence \in Presences, agrees \in BOOLEAN :
        ReconcileRoute(r, presence, agrees)
  BY DEF Reconcile
<1>2. /\ r \in Present
      /\ routes' = [routes EXCEPT ![r] = [routes[r] EXCEPT
           !.observation = ObservationOf(routes[r], presence, agrees)]]
  BY <1>1 DEF ReconcileRoute, CommitValid, Commit, CommitOn, Present
<1>3. routes[r] \in RouteRecords /\ routes \in [RouteIds -> RouteRecords \cup {None}]
  BY <1>2, PresentRecord DEF TypeInv, TypeOK
<1>4. /\ routes'[r] = [routes[r] EXCEPT
           !.observation = ObservationOf(routes[r], presence, agrees)]
      /\ \A s \in RouteIds \ {r} : routes'[s] = routes[s]
  BY <1>2, <1>3
<1>5. /\ routes'[r].generation = routes[r].generation
      /\ routes'[r].programming_generation = routes[r].programming_generation
      /\ routes'[r].invalidation_watermark = routes[r].invalidation_watermark
      /\ routes'[r].binding = routes[r].binding
      /\ routes'[r].lifecycle = routes[r].lifecycle
  BY <1>3, <1>4 DEF RouteRecords
<1>6. /\ routes[r].generation \in Nat /\ routes[r].programming_generation \in Nat
      /\ routes[r].invalidation_watermark \in Nat
  BY <1>3, RecordNumbers
<1>7. Lives(r)
  BY <1>5, <1>6 DEF Lives, GoesOn, StaysEnded
<1> QED BY <1>4, <1>7, KeptLives DEF LivesOrRecreated, Present

(* Only an attempt that is not stale moves its route, and a retired route    *)
(* has none.                                                                 *)
LEMMA CompleteLives ==
  ASSUME TypeInv, Complete
  PROVE  LivesOrRecreated
<1>1. PICK a \in AttemptIds, outcome \in Outcomes : ApplyCompletion(a, outcome)
  BY DEF Complete
<1> DEFINE at == attempts[a]
           r == at.route
           nexts == IF Stale(at, routes[r]) THEN {}
                    ELSE NextLifecycle(routes[r].lifecycle,
                                       CompletionEvent(at.operation, outcome))
<1>2. /\ a \in Unresolved /\ routes[r] # None
      /\ IF nexts = {} THEN UNCHANGED routes
         ELSE \E next \in nexts : Commit(r, Completed(routes[r], a, at, outcome, next))
  BY <1>1 DEF ApplyCompletion
<1>3. r \in Present
  BY <1>2, StartedRecord DEF Unresolved, Present
<1>4. CASE UNCHANGED routes
  BY <1>4, KeptLives DEF LivesOrRecreated
<1>5. ASSUME NEW next, ~Stale(at, routes[r]),
             Commit(r, Completed(routes[r], a, at, outcome, next))
      PROVE  LivesOrRecreated
  <2>1. routes[r] \in RouteRecords /\ routes \in [RouteIds -> RouteRecords \cup {None}]
    BY <1>3, PresentRecord DEF TypeInv, TypeOK
  <2>2. routes' = [routes EXCEPT ![r] = Completed(routes[r], a, at, outcome, next)]
    BY <1>5 DEF Commit, CommitOn
  <2>3. ~BlocksRepublication(routes[r].lifecycle)
    BY <1>5 DEF Stale
  <2> HIDE DEF r
  <2>4. /\ routes'[r] = Completed(routes[r], a, at, outcome, next)
        /\ \A s \in RouteIds \ {r} : routes'[s] = routes[s]
    BY <1>3, <2>1, <2>2 DEF Present
  <2>5. /\ routes'[r].generation = routes[r].generation
        /\ routes'[r].programming_generation = routes[r].programming_generation
        /\ routes'[r].invalidation_watermark = routes[r].invalidation_watermark
        /\ routes'[r].binding = routes[r].binding
    BY <2>1, <2>4 DEF Completed, RouteRecords
  <2>6. /\ routes[r].generation \in Nat /\ routes[r].programming_generation \in Nat
        /\ routes[r].invalidation_watermark \in Nat
    BY <2>1, RecordNumbers
  <2>7. Lives(r)
    BY <2>3, <2>5, <2>6 DEF Lives, GoesOn, StaysEnded, BlocksRepublication
  <2> QED BY <2>4, <2>7, KeptLives DEF LivesOrRecreated, Present
<1> QED BY <1>2, <1>4, <1>5

(* Recovery gives back routes that wait for an outcome, and no others.       *)
LEMMA OpenLives ==
  ASSUME TypeInv, Open
  PROVE  LivesOrRecreated
<1> SUFFICES ASSUME NEW r \in Present PROVE Lives(r)
  BY DEF LivesOrRecreated
<1>1. CASE routes'[r] = routes[r]
  BY <1>1, KeptLives
<1>2. ASSUME NEW a \in RecoveryAttempts(r), routes'[r] = RecoveredRecord(routes[r], a)
      PROVE  Lives(r)
  <2>1. /\ routes'[r].generation = routes[r].generation
        /\ routes'[r].programming_generation = routes[r].programming_generation
        /\ routes'[r].invalidation_watermark = routes[r].invalidation_watermark
        /\ routes'[r].binding = routes[r].binding
    BY <1>2, RecoveredFields
  <2>2. routes[r].lifecycle \notin {"Retired", "Superseded"}
    BY DEF RecoveryAttempts, HasOutstandingProgramming
  <2>3. /\ routes[r].generation \in Nat /\ routes[r].programming_generation \in Nat
        /\ routes[r].invalidation_watermark \in Nat
    BY PresentRecord, RecordNumbers
  <2> QED BY <2>1, <2>2, <2>3 DEF Lives, GoesOn, StaysEnded
<1> QED BY <1>1, <1>2, OpenForm DEF OpenStep

(* No step does anything else to a route.                                    *)
LEMMA StepLives ==
  ASSUME TypeInv, [Next]_vars
  PROVE  LivesOrRecreated
<1>1. CASE UNCHANGED routes
  BY <1>1, KeptLives DEF LivesOrRecreated
<1>2. Handle => LivesOrRecreated
  BY <1>1, PublishLives, MutateLives, PathChangeLives, ReconcileLives, OpenLives
     DEF Handle, routeVars
<1>3. Crash => UNCHANGED routes
  BY DEF Crash
<1> QED BY <1>1, <1>2, <1>3, CompleteLives DEF Next, vars, routeVars

(* Generations, programming generations and watermarks go back, or a binding *)
(* changes under its generation, only when publish_one creates the lineage   *)
(* anew for a key it does not hold: the record then starts whole, with an    *)
(* attempt of its own.                                                       *)
THEOREM GenerationsOnlyRestartWhole == Spec => GenerationsRestartWhole
<1> DEFINE Step ==
      \A r \in Present :
        \/ /\ routes'[r].generation >= routes[r].generation
           /\ routes'[r].programming_generation >= routes[r].programming_generation
           /\ routes'[r].invalidation_watermark >= routes[r].invalidation_watermark
           /\ routes'[r].binding # routes[r].binding =>
                routes'[r].generation > routes[r].generation
        \/ Recreated(r)
<1>1. TypeInv /\ [Next]_vars => [Step]_vars
  BY StepLives DEF LivesOrRecreated, Lives, GoesOn
<1>2. GenerationsRestartWhole <=> [][Step]_vars
  BY DEF GenerationsRestartWhole
<1> HIDE DEF Step
<1> QED BY <1>1, <1>2, TypesInitially, TypesStep, PTL DEF Spec

(* No completion, recovery, reconciliation, path change or republication     *)
(* brings a retired or superseded lineage back; only its creation anew does.  *)
THEOREM RetirementOnlyEndsByRecreation == Spec => RetirementEndsByRecreation
<1> DEFINE Step ==
      \A r \in Present :
        \/ /\ routes[r].lifecycle = "Retired" =>
                routes'[r].lifecycle \in {"Retired", "Superseded"}
           /\ routes[r].lifecycle = "Superseded" =>
                \/ routes'[r].lifecycle = "Superseded"
                \/ routes'[r].lifecycle = "Retired" /\ r \in revocations' \ revocations
        \/ Recreated(r)
<1>1. TypeInv /\ [Next]_vars => [Step]_vars
  BY StepLives DEF LivesOrRecreated, Lives, StaysEnded
<1>2. RetirementEndsByRecreation <=> [][Step]_vars
  BY DEF RetirementEndsByRecreation
<1> HIDE DEF Step
<1> QED BY <1>1, <1>2, TypesInitially, TypesStep, PTL DEF Spec
=============================================================================
