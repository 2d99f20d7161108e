------------------------- MODULE RouteRuntimeProofs -------------------------
(***************************************************************************)
(* Theorems about RouteRuntime, for every value of its constants.           *)
(***************************************************************************)
EXTENDS RouteRuntime, PublisherAuthorityProofs

-----------------------------------------------------------------------------
(* The transition table.                                                     *)

(* Every transition of the table leads to a lifecycle state.                 *)
LEMMA NextLifecycleType ==
  ASSUME NEW l, NEW e
  PROVE  NextLifecycle(l, e) \subseteq Lifecycles
BY DEF NextLifecycle

(* BeginInstall and BeginWithdraw lead to the two waiting states only.       *)
LEMMA BeginEvents ==
  ASSUME NEW l, NEW n
  PROVE  /\ n \in NextLifecycle(l, "BeginInstall") => n = "Installing"
         /\ n \in NextLifecycle(l, "BeginWithdraw") => n = "Withdrawing"
         /\ n \in NextLifecycle(l, "Retire") => n = "Retired"
         /\ n \in NextLifecycle(l, "Revoke") => n = "Retired"
BY DEF NextLifecycle, Transitions, ProgrammableStates

(* A completion ends in one of four states, each with the classification     *)
(* validate_route_record asks of it.                                         *)
LEMMA CompletionEvents ==
  ASSUME NEW l, NEW op, NEW o \in ProgrammingOutcomes,
         NEW n \in NextLifecycle(l, CompletionEvent(op, o))
  PROVE  /\ n \in {"Installed", "Failed", "RevalidationRequired", "Withdrawn"}
         /\ CompletionClassification(op, o) \in Classifications
         /\ n = "Installed" => /\ op # "Withdraw"
                               /\ ReportsApplied(CompletionClassification(op, o))
         /\ n = "Withdrawn" => /\ op = "Withdraw"
                               /\ CompletionClassification(op, o) = "Withdrawn"
         /\ n = "Failed" => CompletionClassification(op, o) \in
                              {"Rejected", "NotSupported", "PermanentFailure"}
         /\ n \in {"Installed", "Withdrawn"} => o \in {"Applied", "Idempotent"}
<1>1. CASE op = "Withdraw"
  <2>1. CompletionEvent(op, o) \in {"WithdrawApplied", "WithdrawFailed"}
    BY <1>1 DEF CompletionEvent, WithdrawEvent
  <2>2. n \in {"Withdrawn", "RevalidationRequired"}
    BY <2>1 DEF NextLifecycle, Transitions, ProgrammableStates
  <2>3. n = "Withdrawn" => o \in {"Applied", "Idempotent"}
    BY <1>1 DEF NextLifecycle, Transitions, ProgrammableStates, CompletionEvent,
                WithdrawEvent
  <2> QED
    BY <1>1, <2>2, <2>3 DEF CompletionClassification, WithdrawClassification,
                            Classifications
<1>2. CASE op # "Withdraw"
  <2>1. CompletionEvent(op, o) = InstallEvent(o)
    BY <1>2 DEF CompletionEvent
  <2>2. /\ n = "Installed" => o \in {"Applied", "Idempotent"}
        /\ n = "Failed" => o \in {"Rejected", "NotSupported", "PermanentFailure"}
        /\ n \in {"Installed", "Failed", "RevalidationRequired"}
    BY <2>1 DEF NextLifecycle, Transitions, ProgrammableStates, InstallEvent,
                ProgrammingOutcomes
  <2> QED
    BY <1>2, <2>2 DEF CompletionClassification, InstallClassification,
                      Classifications, ProgrammingOutcomes, ReportsApplied
<1> QED BY <1>1, <1>2

-----------------------------------------------------------------------------
(* Types of the record operators.                                            *)

(* Advancing a record moves its two generations and keeps it a record, with  *)
(* its watermark behind them.                                                *)
LEMMA AdvancedType ==
  ASSUME NEW rec \in RouteRecords, CanAdvance(rec)
  PROVE  /\ Advanced(rec) \in RouteRecords
         /\ Advanced(rec).generation = rec.generation + 1
         /\ Advanced(rec).authority_generation = rec.authority_generation + 1
         /\ Advanced(rec).invalidation_watermark = rec.invalidation_watermark
         /\ Advanced(rec).programming_generation = rec.programming_generation
<1>1. /\ rec.generation + 1 \in Generations
      /\ rec.authority_generation + 1 \in Generations
  BY RuntimeAssumption DEF CanAdvance, RouteRecords, Generations
<1> QED BY <1>1 DEF Advanced, RouteRecords

(* Preparing an attempt keeps a record a record.                             *)
LEMMA PreparedType ==
  ASSUME NEW rec \in RouteRecords, NEW l \in Lifecycles, NEW a \in AttemptIds,
         rec.programming_generation + 1 <= MaxGeneration
  PROVE  Prepared(rec, l, a) \in RouteRecords
<1>1. rec.programming_generation + 1 \in Generations
  BY RuntimeAssumption DEF RouteRecords, Generations
<1>2. PendingApplied(rec, a, rec.programming_generation + 1) \in AppliedStates
  BY <1>1 DEF PendingApplied, AppliedStates, RouteRecords, Classifications
<1> QED BY <1>1, <1>2 DEF Prepared, RouteRecords, Observations

-----------------------------------------------------------------------------
(* Type correctness.  The handlers follow key_index into routes, so the      *)
(* types are inductive only together with what the index names: present      *)
(* routes, that have the key and are not superseded.                         *)

\* The two generations of a record advance together, and the watermark is one of
\* their past values.
WatermarkOK(rec) ==
  /\ rec.authority_generation = rec.generation
  /\ rec.invalidation_watermark <= rec.generation

TypeInv ==
  /\ TypeOK
  /\ IndexNamesLive
  /\ \A r \in Present : WatermarkOK(routes[r])

-----------------------------------------------------------------------------
(* What a step may do to one route.  old and rec are its versions before and *)
(* after the step.                                                           *)

\* A settled outcome is one the route already had.
KeepsOutcome(old, rec) ==
  rec.lifecycle \in {"Installed", "Withdrawn"} =>
    /\ old # None
    /\ rec.lifecycle = old.lifecycle
    /\ rec.generation = old.generation
    /\ rec.programming_generation = old.programming_generation
    /\ rec.applied = old.applied

\* The provenance is the old one, or that of a caller authorized right now.
KeepsProvenance(old, rec) ==
  \/ /\ old # None
     /\ rec.publisher = old.publisher
     /\ rec.worker_boot = old.worker_boot
     /\ rec.epoch = old.epoch
  \/ /\ rec.epoch = epoch
     /\ Authorized(rec.publisher, rec.worker_boot)

\* rs is a table a handler may commit on top of: routes, after zero or one commit.
GoodTable(rs) ==
  /\ rs \in [RouteIds -> RouteRecords \cup {None}]
  /\ \A r \in RouteIds : routes[r] # None => rs[r] # None
  /\ \A r \in RouteIds : rs[r] # None =>
       /\ KeepsOutcome(routes[r], rs[r])
       /\ KeepsProvenance(routes[r], rs[r])
       /\ WatermarkOK(rs[r])

GoodIndex(rs, ki) ==
  /\ ki \in [Keys -> RouteIds \cup {None}]
  /\ \A k \in Keys : ki[k] # None =>
       /\ rs[ki[k]] # None
       /\ rs[ki[k]].key = k
       /\ rs[ki[k]].lifecycle # "Superseded"

\* Attempt a is recorded as unresolved, and takes one more slot.
TakesSlot(a) ==
  /\ attempts[a] = None
  /\ attempts'[a] \in AttemptRecords /\ ~attempts'[a].resolved
  /\ routes'[attempts'[a].route] # None
  /\ \A b \in AttemptIds \ {a} : attempts'[b] = attempts[b]
  /\ outstanding_programming' = outstanding_programming + 1

\* Within a life a handler starts at most one attempt, and ends none.
SlotEffect ==
  \/ UNCHANGED <<attempts, outstanding_programming>>
  \/ \E a \in AttemptIds : TakesSlot(a)
  \/ Open
  \/ Crash

\* What every handler but a completion does to the tables.
Effect ==
  /\ GoodTable(routes')
  /\ GoodIndex(routes', key_index')
  /\ attempts' \in [AttemptIds -> AttemptRecords \cup {None}]
  /\ revocations' \in SUBSET RouteIds
  /\ revocations \subseteq revocations'
  /\ \A r \in revocations' \ revocations :
       routes'[r] # None /\ routes'[r].lifecycle = "Retired"
  /\ outstanding_programming' \in 0..MaxOutstanding
  /\ \A a \in Started : attempts[a].resolved => attempts'[a] = attempts[a]
  /\ SlotEffect

(* An advanced record keeps its watermark behind its generations.            *)
LEMMA AdvancedWatermark ==
  ASSUME NEW rec \in RouteRecords, CanAdvance(rec), WatermarkOK(rec)
  PROVE  WatermarkOK(Advanced(rec))
<1>1. rec.generation \in Nat /\ rec.invalidation_watermark \in Nat
  BY RuntimeAssumption DEF RouteRecords, Generations
<1> QED BY <1>1, AdvancedType DEF WatermarkOK

(* The tables themselves are good.                                           *)
LEMMA TablesAreGood ==
  ASSUME TypeInv
  PROVE  GoodTable(routes) /\ GoodIndex(routes, key_index)
BY DEF TypeInv, TypeOK, IndexNamesLive, Present, GoodTable, GoodIndex,
       KeepsOutcome, KeepsProvenance

(* A commit of a good record on good tables gives good tables.               *)
LEMMA CommitEffect ==
  ASSUME NEW rs, NEW ki, GoodTable(rs), GoodIndex(rs, ki),
         NEW r \in RouteIds, NEW rec \in RouteRecords,
         KeepsOutcome(routes[r], rec), KeepsProvenance(routes[r], rec), WatermarkOK(rec)
  PROVE  /\ GoodTable([rs EXCEPT ![r] = rec])
         /\ GoodIndex([rs EXCEPT ![r] = rec], Reindexed(ki, rs, r, rec))
<1>1. GoodTable([rs EXCEPT ![r] = rec])
  BY NoneAssumption DEF GoodTable
<1>2. Reindexed(ki, rs, r, rec) \in [Keys -> RouteIds \cup {None}]
  BY DEF Reindexed, GoodIndex
<1>3. ASSUME NEW k \in Keys, Reindexed(ki, rs, r, rec)[k] # None
      PROVE  LET holder == [rs EXCEPT ![r] = rec][Reindexed(ki, rs, r, rec)[k]] IN
             /\ holder # None
             /\ holder.key = k
             /\ holder.lifecycle # "Superseded"
  <2>1. rs \in [RouteIds -> RouteRecords \cup {None}] /\ rec # None
    BY NoneAssumption DEF GoodTable
  <2>2. CASE Reindexed(ki, rs, r, rec)[k] = r /\ rec.key = k /\ rec.lifecycle # "Superseded"
    BY <2>1, <2>2
  <2>3. CASE ~(rec.key = k /\ rec.lifecycle # "Superseded")
    <3>1. /\ ki[k] \in RouteIds /\ rs[ki[k]] # None
          /\ rs[ki[k]].key = k /\ rs[ki[k]].lifecycle # "Superseded"
          /\ Reindexed(ki, rs, r, rec)[k] = ki[k] /\ ki[k] # r
      BY <1>3, <2>3 DEF Reindexed, GoodIndex
    <3> QED BY <2>1, <3>1
  <2>4. rec.key = k /\ rec.lifecycle # "Superseded" => Reindexed(ki, rs, r, rec)[k] = r
    BY DEF Reindexed
  <2> QED BY <2>2, <2>3, <2>4
<1> QED BY <1>1, <1>2, <1>3 DEF GoodIndex

(* The same for a commit on top of the current tables.                       *)
LEMMA CommitOnlyEffect ==
  ASSUME TypeInv, NEW r \in RouteIds, NEW rec \in RouteRecords,
         KeepsOutcome(routes[r], rec), KeepsProvenance(routes[r], rec), WatermarkOK(rec),
         Commit(r, rec)
  PROVE  GoodTable(routes') /\ GoodIndex(routes', key_index')
BY TablesAreGood, CommitEffect DEF Commit, CommitOn

(* Starting an attempt: its record waits, so it claims no settled outcome,   *)
(* and the attempts that were resolved are left alone.                       *)
LEMMA StartAttemptEffect ==
  ASSUME TypeInv,
         NEW rs, NEW ki, GoodTable(rs), GoodIndex(rs, ki),
         NEW r \in RouteIds, NEW rec \in RouteRecords, NEW a \in AttemptIds,
         NEW op \in {"Install", "Replace", "Withdraw"},
         rec.lifecycle \in {"Installing", "Withdrawing"},
         KeepsProvenance(routes[r], rec), WatermarkOK(rec),
         StartAttempt(rs, ki, r, rec, a, op)
  PROVE  Effect
<1> USE DEF TypeInv, TypeOK
<1>1. KeepsOutcome(routes[r], rec)
  BY DEF KeepsOutcome
<1>2. GoodTable(routes') /\ GoodIndex(routes', key_index')
  BY <1>1, CommitEffect DEF StartAttempt, CommitOn
<1>3. attempts' \in [AttemptIds -> AttemptRecords \cup {None}]
  BY DEF StartAttempt, AttemptRecords, RouteRecords, AuthorityTypeOK
<1>4. outstanding_programming' \in 0..MaxOutstanding
  BY RuntimeAssumption DEF StartAttempt, WithinLimit
<1>5. \A b \in Started : attempts[b].resolved => attempts'[b] = attempts[b]
  BY DEF StartAttempt, Started
<1>6. SlotEffect
  <2> DEFINE at == [route                  |-> r,
                    desired_generation     |-> rec.generation,
                    programming_generation |-> rec.programming_generation,
                    operation              |-> op,
                    epoch                  |-> epoch,
                    resolved               |-> FALSE]
  <2>1. at \in AttemptRecords /\ ~at.resolved /\ at.route = r
    BY DEF AttemptRecords, RouteRecords, AuthorityTypeOK
  <2>2. /\ attempts[a] = None
        /\ attempts' = [attempts EXCEPT ![a] = at]
        /\ outstanding_programming' = outstanding_programming + 1
        /\ routes' = [rs EXCEPT ![r] = rec]
    BY DEF StartAttempt, CommitOn
  <2> HIDE DEF at
  <2>3. TakesSlot(a)
    BY <2>1, <2>2, NoneAssumption DEF TakesSlot, GoodTable
  <2> QED BY <2>3 DEF SlotEffect
<1> QED BY <1>2, <1>3, <1>4, <1>5, <1>6 DEF Effect, StartAttempt

-----------------------------------------------------------------------------
(* One lemma per handler.                                                    *)

\* Everything a handler leaves alone.
Elsewhere == UNCHANGED <<authorityVars, path_authority>>

(* Creating a route on good tables, by an authorized publisher.              *)
LEMMA CreateEffect ==
  ASSUME TypeInv,
         NEW rs, NEW ki, GoodTable(rs), GoodIndex(rs, ki),
         NEW p \in Publishers, NEW b \in Boots, NEW k \in Keys,
         NEW binding \in Bindings, NEW r \in RouteIds, NEW a \in AttemptIds,
         Authorized(p, b),
         CreateOn(rs, ki, p, b, k, binding, r, a)
  PROVE  Effect
<1> DEFINE fresh == FreshRecord(p, b, k, binding, a)
<1>1. 1 \in Generations
  BY RuntimeAssumption DEF Generations
<1>2. fresh \in RouteRecords
  BY <1>1 DEF FreshRecord, RouteRecords, AppliedStates, Lifecycles, Observations,
              Classifications, TypeInv, TypeOK, AuthorityTypeOK
<1>3. /\ fresh.programming_generation + 1 <= MaxGeneration
      /\ fresh.publisher = p /\ fresh.worker_boot = b /\ fresh.epoch = epoch
  BY RuntimeAssumption DEF FreshRecord
<1>4. PICK next \in NextLifecycle("Ready", "BeginInstall") :
        StartAttempt(rs, ki, r, Prepared(fresh, next, a), a, "Install")
  BY DEF CreateOn
<1>5. next \in Lifecycles /\ next = "Installing"
  BY NextLifecycleType, BeginEvents
<1>6. Prepared(fresh, next, a) \in RouteRecords
  BY <1>2, <1>3, <1>5, PreparedType
<1>7. /\ Prepared(fresh, next, a).lifecycle = "Installing"
      /\ Prepared(fresh, next, a).publisher = p
      /\ Prepared(fresh, next, a).worker_boot = b
      /\ Prepared(fresh, next, a).epoch = epoch
      /\ WatermarkOK(Prepared(fresh, next, a))
  <2>1. WatermarkOK(fresh)
    BY DEF WatermarkOK, FreshRecord
  <2> HIDE DEF fresh
  <2> QED BY <1>2, <1>3, <1>5, <2>1 DEF Prepared, RouteRecords, WatermarkOK
<1>8. KeepsProvenance(routes[r], Prepared(fresh, next, a))
  BY <1>7 DEF KeepsProvenance
<1> HIDE DEF fresh
<1> QED BY <1>4, <1>6, <1>7, <1>8, StartAttemptEffect

(* Programming the next version of an existing route.                        *)
LEMMA ProgramEffect ==
  ASSUME TypeInv, NEW r \in RouteIds, NEW rec \in RouteRecords, NEW a \in AttemptIds,
         NEW op \in {"Install", "Replace", "Withdraw"},
         NEW next \in {"Installing", "Withdrawing"},
         KeepsProvenance(routes[r], rec), WatermarkOK(rec),
         StartAttempt(routes, key_index, r, Prepared(rec, next, a), a, op)
  PROVE  Effect
<1>1. Prepared(rec, next, a).programming_generation = rec.programming_generation + 1
  BY DEF Prepared, RouteRecords
<1>2. rec.programming_generation + 1 <= MaxGeneration
  BY <1>1 DEF StartAttempt
<1>3. Prepared(rec, next, a) \in RouteRecords
  BY <1>2, PreparedType DEF Lifecycles
<1>4. /\ Prepared(rec, next, a).lifecycle = next
      /\ Prepared(rec, next, a).publisher = rec.publisher
      /\ Prepared(rec, next, a).worker_boot = rec.worker_boot
      /\ Prepared(rec, next, a).epoch = rec.epoch
      /\ WatermarkOK(Prepared(rec, next, a))
  BY DEF Prepared, RouteRecords, WatermarkOK
<1>5. KeepsProvenance(routes[r], Prepared(rec, next, a))
  BY <1>4 DEF KeepsProvenance
<1> QED BY <1>3, <1>4, <1>5, StartAttemptEffect, TablesAreGood

(* Superseding the lineage that holds a key.                                 *)
LEMMA SupersedeEffect ==
  ASSUME TypeInv, NEW p \in Publishers, NEW b \in Boots, NEW k \in Keys,
         NEW lineage \in RouteIds \cup {None}, MayTakeOver(p, b, k, lineage)
  PROVE  /\ lineage \in RouteIds
         /\ key_index[k] \in RouteIds
         /\ SupersededRecord(routes[key_index[k]]) \in RouteRecords
         /\ KeepsOutcome(routes[key_index[k]], SupersededRecord(routes[key_index[k]]))
         /\ KeepsProvenance(routes[key_index[k]], SupersededRecord(routes[key_index[k]]))
         /\ WatermarkOK(SupersededRecord(routes[key_index[k]]))
<1> DEFINE old == routes[key_index[k]]
<1>1. lineage \in RouteIds /\ key_index[k] \in RouteIds /\ old \in RouteRecords
  BY DEF MayTakeOver, TypeInv, TypeOK, IndexNamesLive, Present
<1>2. CanAdvance(old)
  BY DEF MayTakeOver
<1>3. old # None
  BY <1>1, NoneAssumption
<1>8. WatermarkOK(old)
  BY <1>1, <1>3 DEF TypeInv, Present
<1> HIDE DEF old
<1>4. Advanced(old) \in RouteRecords
  BY <1>1, <1>2, AdvancedType
<1>5. SupersededRecord(old) \in RouteRecords
  BY <1>4 DEF SupersededRecord, RouteRecords, Lifecycles
<1>6. /\ SupersededRecord(old).lifecycle = "Superseded"
      /\ SupersededRecord(old).publisher = old.publisher
      /\ SupersededRecord(old).worker_boot = old.worker_boot
      /\ SupersededRecord(old).epoch = old.epoch
  BY <1>1 DEF SupersededRecord, Advanced, RouteRecords
<1>7. KeepsOutcome(old, SupersededRecord(old)) /\ KeepsProvenance(old, SupersededRecord(old))
  BY <1>3, <1>6 DEF KeepsOutcome, KeepsProvenance
<1>9. WatermarkOK(SupersededRecord(old))
  <2>1. WatermarkOK(Advanced(old))
    BY <1>1, <1>2, <1>8, AdvancedWatermark
  <2> QED BY <1>4, <2>1 DEF SupersededRecord, RouteRecords, WatermarkOK
<1> QED BY <1>1, <1>5, <1>7, <1>9 DEF old

(* Publication: a new key, a takeover (also one that fails) or a replacement. *)
LEMMA PublishEffect ==
  ASSUME TypeInv, Publish
  PROVE  Effect /\ Elsewhere
<1>1. ASSUME NEW p \in Publishers, NEW b \in Boots, NEW k \in Keys,
             NEW binding \in Bindings, NEW a \in AttemptIds,
             NEW lineage \in RouteIds \cup {None},
             PublishNew(p, b, k, binding, lineage, a)
      PROVE  Effect /\ Elsewhere
  <2>1. LineageId(k, lineage) \in RouteIds
    BY RuntimeAssumption DEF LineageId
  <2>2. Authorized(p, b)
    BY <1>1 DEF PublishNew
  <2>3. Effect
    BY <1>1, <2>1, <2>2, CreateEffect, TablesAreGood DEF PublishNew
  <2> QED BY <1>1, <2>3 DEF PublishNew, Elsewhere
<1>2. ASSUME NEW p \in Publishers, NEW b \in Boots, NEW k \in Keys,
             NEW binding \in Bindings, NEW a \in AttemptIds,
             NEW lineage \in RouteIds \cup {None},
             PublishTakeover(p, b, k, binding, lineage, a)
      PROVE  Effect /\ Elsewhere
  <2> DEFINE r == key_index[k]
             gone == SupersededRecord(routes[r])
             rs == [routes EXCEPT ![r] = gone]
             ki == Reindexed(key_index, routes, r, gone)
  <2>1. /\ MayTakeOver(p, b, k, lineage)
        /\ CreateOn(rs, ki, p, b, k, binding, lineage, a)
        /\ Elsewhere
    BY <1>2 DEF PublishTakeover, Elsewhere, MayTakeOver, LineageId
  <2>2. Authorized(p, b)
    BY <2>1 DEF MayTakeOver
  <2>3. /\ lineage \in RouteIds /\ r \in RouteIds /\ gone \in RouteRecords
        /\ KeepsOutcome(routes[r], gone) /\ KeepsProvenance(routes[r], gone)
        /\ WatermarkOK(gone)
    BY <2>1, SupersedeEffect
  <2> HIDE DEF r, gone
  <2>4. GoodTable(rs) /\ GoodIndex(rs, ki)
    BY <2>3, TablesAreGood, CommitEffect
  <2> HIDE DEF rs, ki
  <2> QED BY <2>1, <2>2, <2>3, <2>4, CreateEffect
<1>3. ASSUME NEW p \in Publishers, NEW b \in Boots, NEW k \in Keys,
             NEW binding \in Bindings, NEW a \in AttemptIds,
             PublishReplace(p, b, k, binding, a)
      PROVE  Effect /\ Elsewhere
  <2> DEFINE r == key_index[k]
             rec == [Authored(Advanced(routes[r]), p, b) EXCEPT !.binding = binding]
  <2>1. PICK next \in NextLifecycle(routes[r].lifecycle, "BeginInstall") :
          StartAttempt(routes, key_index, r, Prepared(rec, next, a), a, "Replace")
    BY <1>3 DEF PublishReplace
  <2>2. /\ r \in RouteIds /\ routes[r] \in RouteRecords
        /\ CanAdvance(routes[r]) /\ Authorized(p, b)
    BY <1>3 DEF PublishReplace, MayReplace, TypeInv, TypeOK, IndexNamesLive, Present
  <2>3. Advanced(routes[r]) \in RouteRecords
    BY <2>2, AdvancedType
  <2>4. epoch \in 1..MaxEpoch
    BY DEF TypeInv, TypeOK, AuthorityTypeOK
  <2>9. WatermarkOK(Advanced(routes[r]))
    BY <2>2, AdvancedWatermark, NoneAssumption DEF TypeInv, Present
  <2>5. /\ rec \in RouteRecords /\ WatermarkOK(rec)
        /\ rec.publisher = p /\ rec.worker_boot = b /\ rec.epoch = epoch
    BY <2>3, <2>4, <2>9 DEF Authored, RouteRecords, WatermarkOK
  <2>6. next = "Installing"
    BY BeginEvents
  <2>7. KeepsProvenance(routes[r], rec)
    BY <2>2, <2>5 DEF KeepsProvenance
  <2> HIDE DEF r, rec
  <2>8. Effect
    BY <2>1, <2>2, <2>5, <2>6, <2>7, ProgramEffect
  <2> QED BY <1>3, <2>8 DEF PublishReplace, Elsewhere
<1>4. ASSUME NEW p \in Publishers, NEW b \in Boots, NEW k \in Keys,
             NEW lineage \in RouteIds, PublishTakeoverFails(p, b, k, lineage)
      PROVE  Effect /\ Elsewhere
  <2> DEFINE r == key_index[k]
             gone == SupersededRecord(routes[r])
  <2>1. MayTakeOver(p, b, k, lineage) /\ Commit(r, gone) /\ Elsewhere
        /\ UNCHANGED <<attempts, revocations, outstanding_programming>>
    BY <1>4 DEF PublishTakeoverFails, Elsewhere
  <2>2. /\ r \in RouteIds /\ gone \in RouteRecords
        /\ KeepsOutcome(routes[r], gone) /\ KeepsProvenance(routes[r], gone)
        /\ WatermarkOK(gone)
    BY <2>1, SupersedeEffect
  <2> HIDE DEF r, gone
  <2>3. GoodTable(routes') /\ GoodIndex(routes', key_index')
    BY <2>1, <2>2, CommitOnlyEffect
  <2> QED BY <2>1, <2>3 DEF Effect, SlotEffect, TypeInv, TypeOK
<1> QED BY <1>1, <1>2, <1>3, <1>4 DEF Publish

(* Withdrawal, revalidation, retirement and revocation.                      *)
LEMMA MutateEffect ==
  ASSUME TypeInv, Mutate
  PROVE  Effect /\ Elsewhere
<1>0. ASSUME NEW r \in RouteIds, routes[r] # None, CanAdvance(routes[r])
      PROVE  /\ routes[r] \in RouteRecords
             /\ Advanced(routes[r]) \in RouteRecords
             /\ Advanced(routes[r]).publisher = routes[r].publisher
             /\ Advanced(routes[r]).worker_boot = routes[r].worker_boot
             /\ Advanced(routes[r]).epoch = routes[r].epoch
             /\ WatermarkOK(Advanced(routes[r]))
  <2>1. routes[r] \in RouteRecords
    BY <1>0 DEF TypeInv, TypeOK
  <2>2. Advanced(routes[r]) \in RouteRecords
    BY <1>0, <2>1, AdvancedType
  <2>3. WatermarkOK(Advanced(routes[r]))
    BY <1>0, <2>1, AdvancedWatermark DEF TypeInv, Present
  <2> QED BY <2>1, <2>2, <2>3 DEF Advanced, RouteRecords
<1>1. ASSUME NEW p \in Publishers, NEW b \in Boots, NEW r \in RouteIds,
             NEW a \in AttemptIds, WithdrawRoute(p, b, r, a)
      PROVE  Effect /\ Elsewhere
  <2>1. PICK next \in NextLifecycle(routes[r].lifecycle, "BeginWithdraw") :
          StartAttempt(routes, key_index, r, Prepared(Advanced(routes[r]), next, a),
                       a, "Withdraw")
    BY <1>1 DEF WithdrawRoute
  <2>2. routes[r] # None /\ CanAdvance(routes[r])
    BY <1>1 DEF WithdrawRoute, MayMutate
  <2>3. KeepsProvenance(routes[r], Advanced(routes[r]))
    BY <1>0, <2>2 DEF KeepsProvenance
  <2>4. next = "Withdrawing"
    BY BeginEvents
  <2>5. Effect
    BY <1>0, <2>1, <2>2, <2>3, <2>4, ProgramEffect
  <2> QED BY <1>1, <2>5 DEF WithdrawRoute, Elsewhere
<1>2. ASSUME NEW p \in Publishers, NEW b \in Boots, NEW r \in RouteIds,
             NEW a \in AttemptIds, RevalidateRoute(p, b, r, a)
      PROVE  Effect /\ Elsewhere
  <2> DEFINE rec == Authored(Advanced(routes[r]), p, b)
             op == IF ReportsApplied(routes[r].applied.classification)
                   THEN "Replace" ELSE "Install"
  <2>1. PICK next \in NextLifecycle(routes[r].lifecycle, "BeginInstall") :
          StartAttempt(routes, key_index, r, Prepared(rec, next, a), a, op)
    BY <1>2 DEF RevalidateRoute
  <2>2. routes[r] # None /\ CanAdvance(routes[r]) /\ Authorized(p, b)
    BY <1>2 DEF RevalidateRoute, MayMutate
  <2>3. epoch \in 1..MaxEpoch
    BY DEF TypeInv, TypeOK, AuthorityTypeOK
  <2>4. Advanced(routes[r]) \in RouteRecords /\ WatermarkOK(Advanced(routes[r]))
    BY <1>0, <2>2
  <2>5. /\ rec \in RouteRecords /\ WatermarkOK(rec)
        /\ rec.publisher = p /\ rec.worker_boot = b /\ rec.epoch = epoch
    BY <2>3, <2>4 DEF Authored, RouteRecords, WatermarkOK
  <2>6. KeepsProvenance(routes[r], rec)
    BY <2>2, <2>5 DEF KeepsProvenance
  <2>7. next = "Installing" /\ op \in {"Install", "Replace", "Withdraw"}
    BY BeginEvents
  <2> HIDE DEF rec, op
  <2>8. Effect
    BY <2>1, <2>5, <2>6, <2>7, ProgramEffect
  <2> QED BY <1>2, <2>8 DEF RevalidateRoute, Elsewhere
<1>3. ASSUME NEW r \in RouteIds, routes[r] # None, CanAdvance(routes[r]),
             NEW cause \in {"Administrative", "Revoked"},
             Commit(r, [Advanced(routes[r]) EXCEPT !.lifecycle = "Retired",
                                                   !.retirement = cause])
      PROVE  GoodTable(routes') /\ GoodIndex(routes', key_index')
  <2> DEFINE rec == [Advanced(routes[r]) EXCEPT !.lifecycle = "Retired",
                                                !.retirement = cause]
  <2>1. /\ rec \in RouteRecords
        /\ rec.lifecycle = "Retired"
        /\ rec.publisher = routes[r].publisher
        /\ rec.worker_boot = routes[r].worker_boot
        /\ rec.epoch = routes[r].epoch
        /\ rec.generation = Advanced(routes[r]).generation
        /\ rec.authority_generation = Advanced(routes[r]).authority_generation
        /\ rec.invalidation_watermark = Advanced(routes[r]).invalidation_watermark
    BY <1>0, <1>3 DEF RouteRecords, Lifecycles
  <2> HIDE DEF rec
  <2>3. WatermarkOK(rec)
    BY <1>0, <1>3, <2>1 DEF WatermarkOK
  <2>2. KeepsOutcome(routes[r], rec) /\ KeepsProvenance(routes[r], rec)
    BY <1>3, <2>1 DEF KeepsOutcome, KeepsProvenance
  <2> QED BY <1>3, <2>1, <2>2, <2>3, CommitOnlyEffect DEF rec
<1>4. ASSUME NEW p \in Publishers, NEW b \in Boots, NEW r \in RouteIds,
             RetireRoute(p, b, r)
      PROVE  Effect /\ Elsewhere
  <2>1. PICK next \in NextLifecycle(routes[r].lifecycle, "Retire") :
          Commit(r, [Advanced(routes[r]) EXCEPT !.lifecycle = next,
                                                !.retirement = "Administrative"])
    BY <1>4 DEF RetireRoute, CommitValid
  <2>2. next = "Retired"
    BY BeginEvents
  <2>3. routes[r] # None /\ CanAdvance(routes[r])
    BY <1>4 DEF RetireRoute, MayMutate
  <2>4. GoodTable(routes') /\ GoodIndex(routes', key_index')
    BY <1>3, <2>1, <2>2, <2>3
  <2> QED BY <1>4, <2>4 DEF RetireRoute, Elsewhere, Effect, SlotEffect, TypeInv, TypeOK
<1>5. ASSUME NEW p \in Publishers, NEW b \in Boots, NEW r \in RouteIds,
             RevokeRoute(p, b, r)
      PROVE  Effect /\ Elsewhere
  <2>1. PICK next \in NextLifecycle(routes[r].lifecycle, "Revoke") :
          Commit(r, [Advanced(routes[r]) EXCEPT !.lifecycle = next,
                                                !.retirement = "Revoked"])
    BY <1>5 DEF RevokeRoute, CommitValid
  <2>2. next = "Retired"
    BY BeginEvents
  <2>3. routes[r] # None /\ CanAdvance(routes[r])
    BY <1>5 DEF RevokeRoute
  <2>4. GoodTable(routes') /\ GoodIndex(routes', key_index')
    BY <1>3, <2>1, <2>2, <2>3
  <2>5. routes'[r] # None /\ routes'[r].lifecycle = "Retired"
    <3> DEFINE rec == [Advanced(routes[r]) EXCEPT !.lifecycle = next,
                                                  !.retirement = "Revoked"]
    <3>3. Advanced(routes[r]) \in RouteRecords
      BY <1>0, <2>3
    <3>1. rec \in RouteRecords /\ rec.lifecycle = "Retired"
      BY <2>2, <3>3 DEF RouteRecords, Lifecycles
    <3> HIDE DEF rec
    <3>2. routes' = [routes EXCEPT ![r] = rec]
      BY <2>1 DEF Commit, CommitOn, rec
    <3> QED BY <3>1, <3>2, NoneAssumption DEF TypeInv, TypeOK
  <2> QED BY <1>5, <2>4, <2>5 DEF RevokeRoute, Elsewhere, Effect, SlotEffect, TypeInv, TypeOK
<1> QED BY <1>1, <1>2, <1>4, <1>5 DEF Mutate

(* Path invalidation.                                                        *)
LEMMA PathChangeEffect ==
  ASSUME TypeInv, PathChange
  PROVE  Effect /\ Elsewhere
<1>1. ASSUME NEW ps, NEW answers, InvalidatePaths(ps, answers)
      PROVE  Effect /\ Elsewhere
  <2> DEFINE hit == {r \in RouteIds : \E p \in ps : Invalidates(p, answers[p], r)}
  <2>1. /\ routes' = [r \in RouteIds |-> IF r \in hit THEN InvalidatedRecord(routes[r])
                                                    ELSE routes[r]]
        /\ \A r \in hit : CanAdvance(routes[r])
        /\ key_index' \in [Keys -> RouteIds \cup {None}]
        /\ Elsewhere
        /\ UNCHANGED <<attempts, revocations, outstanding_programming>>
    BY <1>1 DEF InvalidatePaths, Elsewhere
  <2>2. \A k \in Keys : \/ key_index'[k] = key_index[k]
                        \/ key_index'[k] \in hit /\ routes[key_index'[k]].key = k
    <3> SUFFICES ASSUME NEW k \in Keys
                 PROVE  \/ key_index'[k] = key_index[k]
                        \/ key_index'[k] \in hit /\ routes[key_index'[k]].key = k
      OBVIOUS
    <3> DEFINE holders == {r \in hit : routes[r].key = k}
    <3>1. key_index'[k] \in (IF holders = {} THEN {key_index[k]} ELSE holders)
      BY <1>1 DEF InvalidatePaths
    <3> QED BY <3>1
  <2>3. hit \subseteq Present /\ hit \subseteq RouteIds
    BY DEF Invalidates
  <2> HIDE DEF hit
  <2>4. ASSUME NEW r \in hit
        PROVE  /\ InvalidatedRecord(routes[r]) \in RouteRecords
               /\ KeepsOutcome(routes[r], InvalidatedRecord(routes[r]))
               /\ KeepsProvenance(routes[r], InvalidatedRecord(routes[r]))
               /\ WatermarkOK(InvalidatedRecord(routes[r]))
               /\ InvalidatedRecord(routes[r]).key = routes[r].key
               /\ InvalidatedRecord(routes[r]).lifecycle # "Superseded"
    <3>1. /\ routes[r] \in RouteRecords /\ routes[r] # None /\ CanAdvance(routes[r])
          /\ WatermarkOK(routes[r])
      BY <2>1, <2>3 DEF TypeInv, TypeOK, Present
    <3>2. /\ Advanced(routes[r]) \in RouteRecords
          /\ Advanced(routes[r]).authority_generation = routes[r].authority_generation + 1
      BY <3>1, AdvancedType
    <3>3. routes[r].authority_generation + 1 \in Generations
      BY <3>2 DEF RouteRecords
    <3>4. InvalidatedRecord(routes[r]) \in RouteRecords
      BY <3>2, <3>3 DEF InvalidatedRecord, RouteRecords, Lifecycles
    <3>5. /\ InvalidatedRecord(routes[r]).lifecycle = "RevalidationRequired"
          /\ InvalidatedRecord(routes[r]).key = routes[r].key
          /\ InvalidatedRecord(routes[r]).publisher = routes[r].publisher
          /\ InvalidatedRecord(routes[r]).worker_boot = routes[r].worker_boot
          /\ InvalidatedRecord(routes[r]).epoch = routes[r].epoch
      BY <3>1 DEF InvalidatedRecord, Advanced, RouteRecords
    <3>6. WatermarkOK(Advanced(routes[r]))
      BY <3>1, AdvancedWatermark
    <3>7. WatermarkOK(InvalidatedRecord(routes[r]))
      BY <3>2, <3>3, <3>6, RuntimeAssumption
         DEF InvalidatedRecord, RouteRecords, WatermarkOK, Generations
    <3> QED BY <3>1, <3>4, <3>5, <3>7 DEF KeepsOutcome, KeepsProvenance
  <2>5. GoodTable(routes')
    BY <2>1, <2>3, <2>4, TablesAreGood, NoneAssumption DEF GoodTable
  <2>6. \A r \in RouteIds : r \in hit \/ r \in Present => routes'[r] # None
    BY <2>1, <2>4, NoneAssumption DEF Present
  <2>8. \A r \in RouteIds : /\ r \in hit => routes'[r] = InvalidatedRecord(routes[r])
                            /\ r \notin hit => routes'[r] = routes[r]
    BY <2>1
  <2>7. GoodIndex(routes', key_index')
    <3> SUFFICES ASSUME NEW k \in Keys, key_index'[k] # None
                 PROVE  /\ routes'[key_index'[k]] # None
                        /\ routes'[key_index'[k]].key = k
                        /\ routes'[key_index'[k]].lifecycle # "Superseded"
      BY <2>1 DEF GoodIndex
    <3>1. key_index'[k] \in RouteIds
      BY <2>1
    <3>2. CASE key_index'[k] \in hit /\ routes[key_index'[k]].key = k
      BY <2>3, <2>4, <2>6, <2>8, <3>1, <3>2
    <3>3. CASE key_index'[k] = key_index[k]
      <4>1. /\ key_index[k] \in Present /\ routes[key_index[k]].key = k
            /\ routes[key_index[k]].lifecycle # "Superseded"
        BY <3>3 DEF TypeInv, IndexNamesLive
      <4> QED BY <2>4, <2>6, <2>8, <3>1, <3>3, <4>1
    <3> QED BY <2>2, <3>2, <3>3
  <2> QED BY <2>1, <2>5, <2>7 DEF Effect, SlotEffect, TypeInv, TypeOK
<1> QED BY <1>1 DEF PathChange, OnPathAuthorityChanged, RevalidatePathAuthorities

(* Reconciliation.                                                           *)
LEMMA ReconcileEffect ==
  ASSUME TypeInv, Reconcile
  PROVE  Effect /\ Elsewhere
<1>1. PICK r \in RouteIds, presence \in Presences, agrees \in BOOLEAN :
        ReconcileRoute(r, presence, agrees)
  BY DEF Reconcile
<1> DEFINE seen == ObservationOf(routes[r], presence, agrees)
           rec == [routes[r] EXCEPT !.observation = seen]
<1>2. routes[r] \in RouteRecords /\ routes[r] # None
  BY <1>1 DEF ReconcileRoute, TypeInv, TypeOK
<1>3. seen \in Observations
  BY RuntimeAssumption DEF ObservationOf, Observations
<1>4. Commit(r, rec) /\ Elsewhere
      /\ UNCHANGED <<attempts, revocations, outstanding_programming>>
  BY <1>1 DEF ReconcileRoute, CommitValid, Elsewhere
<1> HIDE DEF seen
<1>5. /\ rec \in RouteRecords
      /\ rec.lifecycle = routes[r].lifecycle
      /\ rec.generation = routes[r].generation
      /\ rec.programming_generation = routes[r].programming_generation
      /\ rec.applied = routes[r].applied
      /\ rec.publisher = routes[r].publisher
      /\ rec.worker_boot = routes[r].worker_boot
      /\ rec.epoch = routes[r].epoch
      /\ WatermarkOK(rec)
  <2>1. WatermarkOK(routes[r])
    BY <1>2 DEF TypeInv, Present
  <2> QED BY <1>2, <1>3, <2>1 DEF RouteRecords, WatermarkOK
<1>6. KeepsOutcome(routes[r], rec) /\ KeepsProvenance(routes[r], rec)
  BY <1>2, <1>5 DEF KeepsOutcome, KeepsProvenance
<1>7. GoodTable(routes') /\ GoodIndex(routes', key_index')
  BY <1>4, <1>5, <1>6, CommitOnlyEffect
<1> QED BY <1>4, <1>7 DEF Effect, SlotEffect, TypeInv, TypeOK

(* The steps that leave the tables alone.                                    *)
LEMMA StutterEffect ==
  ASSUME TypeInv, UNCHANGED routeVars
  PROVE  Effect
BY TablesAreGood DEF Effect, SlotEffect, routeVars, TypeInv, TypeOK, GoodTable, GoodIndex

(* A crash loses the index, which names nothing until Open rebuilds it.      *)
LEMMA CrashEffect ==
  ASSUME TypeInv, Crash
  PROVE  Effect /\ UNCHANGED <<epoch, path_authority>> /\ AuthorityCrash
<1>1. Crash
  OBVIOUS
<1>2. outstanding_programming' \in 0..MaxOutstanding
  BY <1>1, RuntimeAssumption DEF Crash
<1>3. GoodTable(routes')
  BY <1>1, TablesAreGood DEF Crash, GoodTable
<1>4. GoodIndex(routes', key_index')
  BY <1>1 DEF Crash, GoodIndex
<1> QED
  BY <1>1, <1>2, <1>3, <1>4 DEF Effect, SlotEffect, Crash, AuthorityCrash, TypeInv, TypeOK

(* Recovery only turns waiting routes into ones that need revalidation.      *)
LEMMA OpenEffect ==
  ASSUME TypeInv, Open
  PROVE  Effect /\ AuthorityOpen /\ UNCHANGED path_authority
<1>1. PICK claim \in [RouteIds -> AttemptIds \cup {None}] :
        /\ \A r \in RouteIds : IF RecoveryAttempts(r) = {} THEN claim[r] = None
                               ELSE claim[r] \in RecoveryAttempts(r)
        /\ routes' = [r \in RouteIds |-> IF claim[r] = None THEN routes[r]
                                         ELSE RecoveredRecord(routes[r], claim[r])]
  BY DEF Open
<1>2. ASSUME NEW r \in RouteIds, claim[r] # None
      PROVE  /\ r \in Present
             /\ RecoveredRecord(routes[r], claim[r]) \in RouteRecords
             /\ KeepsOutcome(routes[r], RecoveredRecord(routes[r], claim[r]))
             /\ KeepsProvenance(routes[r], RecoveredRecord(routes[r], claim[r]))
             /\ WatermarkOK(RecoveredRecord(routes[r], claim[r]))
             /\ RecoveredRecord(routes[r], claim[r]).key = routes[r].key
             /\ RecoveredRecord(routes[r], claim[r]).lifecycle # "Superseded"
  <2> DEFINE a == claim[r]
  <2>1. a \in RecoveryAttempts(r)
    BY <1>1, <1>2
  <2>2. /\ a \in AttemptIds /\ attempts[a] \in AttemptRecords
        /\ r \in Present /\ routes[r] \in RouteRecords /\ routes[r] # None
    BY <2>1 DEF RecoveryAttempts, Unresolved, Started, TypeInv, TypeOK, Present
  <2> HIDE DEF a
  <2>3. RecoveredRecord(routes[r], a) \in RouteRecords
    BY <2>2 DEF RecoveredRecord, RouteRecords, AttemptRecords, AppliedStates,
                Classifications, Lifecycles
  <2>4. /\ RecoveredRecord(routes[r], a).lifecycle = "RevalidationRequired"
        /\ RecoveredRecord(routes[r], a).key = routes[r].key
        /\ RecoveredRecord(routes[r], a).publisher = routes[r].publisher
        /\ RecoveredRecord(routes[r], a).worker_boot = routes[r].worker_boot
        /\ RecoveredRecord(routes[r], a).epoch = routes[r].epoch
        /\ WatermarkOK(RecoveredRecord(routes[r], a))
    <3>1. WatermarkOK(routes[r])
      BY <2>2 DEF TypeInv
    <3> QED BY <2>2, <3>1 DEF RecoveredRecord, RouteRecords, WatermarkOK
  <2> QED BY <2>2, <2>3, <2>4 DEF a, KeepsOutcome, KeepsProvenance
<1>3. GoodTable(routes')
  BY <1>1, <1>2, TablesAreGood, NoneAssumption DEF GoodTable
<1>4. \A r \in Present : routes'[r] # None
  BY <1>1, <1>2, NoneAssumption DEF Present
<1>5. \A k \in Keys : \/ key_index'[k] = None
                      \/ /\ key_index'[k] \in Present
                         /\ routes[key_index'[k]].key = k
                         /\ routes[key_index'[k]].lifecycle # "Superseded"
  <2> SUFFICES ASSUME NEW k \in Keys
               PROVE  \/ key_index'[k] = None
                      \/ /\ key_index'[k] \in Present
                         /\ routes[key_index'[k]].key = k
                         /\ routes[key_index'[k]].lifecycle # "Superseded"
    OBVIOUS
  <2> DEFINE holders == {r \in Present : /\ routes[r].key = k
                                         /\ routes[r].lifecycle # "Superseded"}
  <2>1. key_index'[k] \in (IF holders = {} THEN {None} ELSE holders)
    BY DEF Open
  <2> QED BY <2>1
<1>10. \A r \in Present : routes[r].lifecycle # "Superseded" =>
         routes'[r].key = routes[r].key /\ routes'[r].lifecycle # "Superseded"
  BY <1>1, <1>2 DEF Present
<1>6. GoodIndex(routes', key_index')
  BY <1>4, <1>5, <1>10 DEF GoodIndex, Open
<1>7. attempts' \in [AttemptIds -> AttemptRecords \cup {None}]
  <2>1. \A a \in Unresolved :
          attempts[a] \in AttemptRecords /\ [attempts[a] EXCEPT !.resolved = TRUE] \in AttemptRecords
    BY DEF Unresolved, Started, TypeInv, TypeOK, AttemptRecords
  <2> QED BY <2>1 DEF Open, TypeInv, TypeOK
<1>8. \A a \in Started : attempts[a].resolved => attempts'[a] = attempts[a]
  BY DEF Open, Unresolved, Started
<1>9. SlotEffect
  BY DEF SlotEffect
<1> QED
  BY <1>3, <1>6, <1>7, <1>8, <1>9, RuntimeAssumption DEF Effect, Open, TypeInv, TypeOK

-----------------------------------------------------------------------------
(* Completions, the only steps that settle an outcome.                       *)

\* Attempt a ends: unless it was stale its route takes the outcome, in one of the
\* states a completion leads to.
CompletionEffect(a, outcome) ==
  LET r == attempts[a].route IN
  /\ a \in Unresolved
  /\ attempts' = [attempts EXCEPT ![a].resolved = TRUE]
  /\ revocations' = revocations
  /\ \A s \in RouteIds \ {r} : routes'[s] = routes[s]
  /\ \/ routes'[r] = routes[r]
     \/ /\ routes[r] # None /\ routes'[r] # None
        /\ r \notin revocations
        /\ routes'[r].applied.attempt = a
        /\ routes'[r].generation = attempts[a].desired_generation
        /\ routes'[r].programming_generation = attempts[a].programming_generation
        /\ routes'[r].publisher = routes[r].publisher
        /\ routes'[r].worker_boot = routes[r].worker_boot
        /\ routes'[r].epoch = routes[r].epoch
        /\ routes'[r].lifecycle = "Installed" => attempts[a].operation # "Withdraw"
        /\ routes'[r].lifecycle = "Withdrawn" => attempts[a].operation = "Withdraw"
        /\ routes'[r].lifecycle \in {"Installed", "Withdrawn"} =>
             outcome \in {"Applied", "Idempotent"}

(* apply_completion_locked keeps the types and has that effect.              *)
LEMMA ApplyEffect ==
  ASSUME TypeInv, NEW a \in AttemptIds, NEW outcome \in Outcomes,
         ApplyCompletion(a, outcome)
  PROVE  TypeInv' /\ Elsewhere /\ CompletionEffect(a, outcome)
<1>1. ApplyCompletion(a, outcome)
  OBVIOUS
<1> DEFINE at == attempts[a]
           r == at.route
           rec == routes[r]
           event == CompletionEvent(at.operation, outcome)
<1>2. /\ a \in Unresolved /\ rec # None /\ Resolve(a) /\ Elsewhere
      /\ UNCHANGED revocations
  BY <1>1 DEF ApplyCompletion, Elsewhere
<1>3. /\ at \in AttemptRecords /\ r \in RouteIds /\ rec \in RouteRecords
      /\ outcome \in ProgrammingOutcomes
  <2>1. at \in AttemptRecords
    BY <1>2 DEF Unresolved, Started, TypeInv, TypeOK
  <2>2. r \in RouteIds
    BY <2>1 DEF AttemptRecords
  <2> QED BY <1>2, <2>1, <2>2, RuntimeAssumption DEF TypeInv, TypeOK
<1>4. /\ attempts' = [attempts EXCEPT ![a].resolved = TRUE]
      /\ attempts' \in [AttemptIds -> AttemptRecords \cup {None}]
      /\ outstanding_programming' \in 0..MaxOutstanding
  <2>1. attempts' = [attempts EXCEPT ![a].resolved = TRUE]
    BY <1>2 DEF Resolve
  <2>2. [at EXCEPT !.resolved = TRUE] \in AttemptRecords
    BY <1>3 DEF AttemptRecords
  <2>3. attempts' \in [AttemptIds -> AttemptRecords \cup {None}]
    BY <2>1, <2>2 DEF TypeInv, TypeOK
  <2>4. outstanding_programming' \in 0..MaxOutstanding
    BY <1>2, RuntimeAssumption DEF Resolve, TypeInv, TypeOK
  <2> QED BY <2>1, <2>3, <2>4
<1>5. CASE UNCHANGED <<routes, key_index>>
  <2>1. TypeInv'
    BY <1>2, <1>4, <1>5 DEF TypeInv, TypeOK, IndexNamesLive, Present, Elsewhere,
         WatermarkOK, authorityVars, AuthorityTypeOK, PathTypeOK, Registrations
  <2>2. CompletionEffect(a, outcome)
    BY <1>2, <1>4, <1>5 DEF CompletionEffect
  <2> QED BY <1>2, <2>1, <2>2
<1>6. ASSUME NEW next \in NextLifecycle(rec.lifecycle, event), ~Stale(at, rec),
             Commit(r, Completed(rec, a, at, outcome, next))
      PROVE  TypeInv' /\ CompletionEffect(a, outcome)
  <2> DEFINE new == Completed(rec, a, at, outcome, next)
  <2>1. /\ CompletionClassification(at.operation, outcome) \in Classifications
        /\ next \in Lifecycles
        /\ next = "Installed" => at.operation # "Withdraw"
        /\ next = "Withdrawn" => at.operation = "Withdraw"
        /\ next \in {"Installed", "Withdrawn"} => outcome \in {"Applied", "Idempotent"}
    BY <1>3, CompletionEvents, NextLifecycleType
  <2>2. new \in RouteRecords
    BY <1>3, <2>1 DEF Completed, RouteRecords, AttemptRecords, AppliedStates
  <2>3. /\ new.lifecycle = next /\ new.applied.attempt = a
        /\ new.generation = rec.generation
        /\ new.programming_generation = rec.programming_generation
        /\ new.publisher = rec.publisher /\ new.worker_boot = rec.worker_boot
        /\ new.epoch = rec.epoch
        /\ WatermarkOK(new)
    <3>1. WatermarkOK(rec)
      BY <1>2, <1>3 DEF TypeInv, Present
    <3> QED BY <1>3, <3>1 DEF Completed, RouteRecords, AppliedStates, WatermarkOK
  <2>4. rec.generation = at.desired_generation
        /\ rec.programming_generation = at.programming_generation
        /\ r \notin revocations
    BY <1>6 DEF Stale
  <2> HIDE DEF new
  <2>5. routes' = [routes EXCEPT ![r] = new]
        /\ key_index' = Reindexed(key_index, routes, r, new)
    BY <1>6 DEF Commit, CommitOn, new
  <2>6. /\ routes' \in [RouteIds -> RouteRecords \cup {None}]
        /\ routes'[r] = new
        /\ \A s \in RouteIds \ {r} : routes'[s] = routes[s]
    BY <1>3, <2>2, <2>5 DEF TypeInv, TypeOK
  <2>7. key_index' \in [Keys -> RouteIds \cup {None}]
    BY <1>3, <2>5 DEF Reindexed, TypeInv, TypeOK
  <2>8. /\ new.key = rec.key
        /\ new.lifecycle # "Superseded"
    <3>1. next # "Superseded"
      BY <1>3, CompletionEvents
    <3> QED BY <1>3, <2>3, <3>1 DEF new, Completed, RouteRecords
  <2>9. \A s \in Present : routes'[s] # None
    BY <2>2, <2>6, NoneAssumption DEF Present
  <2>10. IndexNamesLive'
    <3> SUFFICES ASSUME NEW k \in Keys, key_index'[k] # None
                 PROVE  /\ key_index'[k] \in Present'
                        /\ routes'[key_index'[k]].key = k
                        /\ routes'[key_index'[k]].lifecycle # "Superseded"
      BY DEF IndexNamesLive
    <3>1. key_index'[k] = IF k = rec.key THEN r ELSE key_index[k]
      BY <2>5, <2>8 DEF Reindexed
    <3>2. CASE k = rec.key
      BY <1>3, <2>2, <2>6, <2>8, <3>1, <3>2, NoneAssumption DEF Present
    <3>3. CASE k # rec.key
      <4>1. /\ key_index[k] \in Present /\ routes[key_index[k]].key = k
            /\ routes[key_index[k]].lifecycle # "Superseded"
            /\ key_index'[k] = key_index[k]
        BY <3>1, <3>3 DEF TypeInv, IndexNamesLive
      <4>2. key_index[k] \in RouteIds \ {r}
        BY <3>3, <4>1 DEF Present
      <4> QED BY <2>6, <2>9, <4>1, <4>2 DEF Present
    <3> QED BY <3>2, <3>3
  <2>11. TypeOK'
    BY <1>2, <1>4, <2>6, <2>7 DEF TypeInv, TypeOK, Elsewhere, authorityVars,
         AuthorityTypeOK, PathTypeOK, Registrations
  <2>12. new # None
    BY <2>2, NoneAssumption
  <2>13. CompletionEffect(a, outcome)
    BY <1>2, <1>4, <2>1, <2>3, <2>4, <2>6, <2>12 DEF CompletionEffect
  <2>14. \A s \in Present' : WatermarkOK(routes'[s])
    BY <2>3, <2>6 DEF TypeInv, Present
  <2> QED BY <2>10, <2>11, <2>13, <2>14 DEF TypeInv, WatermarkOK
<1>7. \/ UNCHANGED <<routes, key_index>>
      \/ \E next \in NextLifecycle(rec.lifecycle, event) :
           ~Stale(at, rec) /\ Commit(r, Completed(rec, a, at, outcome, next))
  <2> DEFINE nexts == IF Stale(at, rec) THEN {} ELSE NextLifecycle(rec.lifecycle, event)
  <2>1. IF nexts = {} THEN UNCHANGED <<routes, key_index>>
        ELSE \E next \in nexts : Commit(r, Completed(rec, a, at, outcome, next))
    BY <1>1 DEF ApplyCompletion
  <2> QED BY <2>1
<1> QED BY <1>2, <1>5, <1>6, <1>7

LEMMA CompleteEffect ==
  ASSUME TypeInv, Complete
  PROVE  /\ TypeInv' /\ Elsewhere
         /\ \E a \in AttemptIds, outcome \in Outcomes : CompletionEffect(a, outcome)
BY ApplyEffect DEF Complete

-----------------------------------------------------------------------------
(* The invariants.                                                           *)

(* The path authority keeps its type.                                        *)
LEMMA PathTypes ==
  ASSUME PathTypeOK, PathNext
  PROVE  PathTypeOK'
<1>1. UnknownPath \in PathAnswers
  BY PathAssumption DEF UnknownPath, PathAnswers, PathGenerations, PathStates
<1>2. ASSUME NEW p \in Paths, NEW g \in PathGenerations, NEW s \in PathStates,
             SetPath(p, g, s)
      PROVE  PathTypeOK'
  BY <1>2 DEF PathTypeOK, SetPath, PathAnswers
<1>3. ASSUME NEW p \in Paths, NEW s \in PathStates, InvalidatePath(p, s)
      PROVE  PathTypeOK'
  <2>1. path_authority[p].generation + 1 \in PathGenerations
    BY <1>3, PathAssumption DEF InvalidatePath, PathTypeOK, PathAnswers, PathGenerations
  <2> QED BY <1>2, <1>3, <2>1 DEF InvalidatePath
<1>4. ASSUME NEW p \in Paths, RemovePath(p)
      PROVE  PathTypeOK'
  BY <1>1, <1>4 DEF PathTypeOK, RemovePath
<1> QED BY <1>2, <1>3, <1>4 DEF PathNext

(* Every step that is not a completion has the effect shown above, and       *)
(* changes the authority or the paths only in one of their own steps.        *)
LEMMA StepEffect ==
  ASSUME TypeInv, Handle \/ Crash
  PROVE  /\ Effect
         /\ AuthorityNext \/ UNCHANGED authorityVars
         /\ PathNext \/ UNCHANGED path_authority
<1>1. CASE Publish \/ Mutate \/ PathChange \/ Reconcile
  BY <1>1, PublishEffect, MutateEffect, PathChangeEffect, ReconcileEffect DEF Elsewhere
<1>2. CASE PathNext /\ UNCHANGED <<authorityVars, routeVars>>
  BY <1>2, StutterEffect
<1>3. CASE AuthorityStep /\ UNCHANGED <<path_authority, routeVars>>
  BY <1>3, StutterEffect DEF AuthorityNext
<1>4. CASE AdvanceEpoch /\ UNCHANGED <<path_authority, routeVars>>
  BY <1>4, StutterEffect DEF AuthorityNext
<1>5. CASE Crash
  BY <1>5, CrashEffect DEF AuthorityNext
<1>6. CASE Open
  BY <1>6, OpenEffect DEF AuthorityNext
<1> QED BY <1>1, <1>2, <1>3, <1>4, <1>5, <1>6 DEF Handle

(* The types hold initially.                                                 *)
LEMMA TypesInitially == Init => TypeInv
<1> SUFFICES ASSUME Init PROVE TypeInv
  OBVIOUS
<1> USE DEF Init
<1>1. AuthorityTypeOK
  <2>1. 1 \in 1..MaxEpoch
    BY AuthorityAssumption
  <2> QED BY <2>1 DEF AuthorityInit, AuthorityTypeOK
<1>2. PathTypeOK
  BY PathAssumption DEF PathInit, PathTypeOK, UnknownPath, PathAnswers,
                        PathGenerations, PathStates
<1>3. outstanding_programming \in 0..MaxOutstanding
  BY RuntimeAssumption
<1>4. TypeOK
  BY <1>1, <1>2, <1>3 DEF TypeOK
<1> QED BY <1>4 DEF TypeInv, IndexNamesLive, Present

(* Every step keeps the types and the index on present routes.               *)
LEMMA TypesStep == TypeInv /\ [Next]_vars => TypeInv'
<1> SUFFICES ASSUME TypeInv, [Next]_vars PROVE TypeInv'
  OBVIOUS
<1>1. CASE Complete
  BY <1>1, CompleteEffect
<1>2. CASE Next /\ ~Complete
  <2>1. /\ Effect
        /\ AuthorityNext \/ UNCHANGED authorityVars
        /\ PathNext \/ UNCHANGED path_authority
    BY <1>2, StepEffect DEF Next
  <2>2. AuthorityTypeOK'
    BY <2>1, AuthorityTypes DEF TypeInv, TypeOK, authorityVars, AuthorityTypeOK
  <2>3. PathTypeOK'
    BY <2>1, PathTypes DEF TypeInv, TypeOK, PathTypeOK
  <2>4. TypeOK'
    BY <2>1, <2>2, <2>3 DEF TypeOK, Effect, GoodTable, GoodIndex
  <2>5. IndexNamesLive'
    BY <2>1 DEF Effect, GoodIndex, IndexNamesLive, Present
  <2>6. \A r \in Present' : WatermarkOK(routes'[r])
    BY <2>1 DEF Effect, GoodTable, Present
  <2> QED BY <2>4, <2>5, <2>6 DEF TypeInv, WatermarkOK
<1>3. CASE UNCHANGED vars
  BY <1>3 DEF vars, TypeInv, TypeOK, IndexNamesLive, Present, AuthorityTypeOK,
              PathTypeOK, WatermarkOK
<1> QED BY <1>1, <1>2, <1>3

(* Type correctness: every handler of the runtime, every completion and      *)
(* recovery keep the tables within their types and limits, whatever the      *)
(* callers do.                                                               *)
THEOREM TypeCorrect == Spec => []TypeOK
<1>1. Spec => []TypeInv
  BY TypesInitially, TypesStep, PTL DEF Spec
<1>2. TypeInv => TypeOK
  BY DEF TypeInv
<1> QED BY <1>1, <1>2, PTL

-----------------------------------------------------------------------------
(* Installation evidence.                                                    *)

(* Only a completion makes a settled outcome, and a completion that is not    *)
(* stale belongs to the generation the record has.                           *)
LEMMA OutcomesStep == TypeInv /\ OutcomesAreProven /\ [Next]_vars => OutcomesAreProven'
<1> SUFFICES ASSUME TypeInv, OutcomesAreProven, [Next]_vars PROVE OutcomesAreProven'
  OBVIOUS
<1>1. CASE Complete
  <2>1. PICK a \in AttemptIds, outcome \in Outcomes : CompletionEffect(a, outcome)
    BY <1>1, CompleteEffect
  <2>0. /\ a \in Started /\ ~attempts[a].resolved
        /\ attempts[a] \in AttemptRecords
    BY <2>1 DEF CompletionEffect, Unresolved, Started, TypeInv, TypeOK
  <2>2. PICK r \in RouteIds : r = attempts[a].route
    BY <2>0 DEF AttemptRecords
  <2>3. /\ a \in Started' /\ attempts'[a].resolved
        /\ attempts'[a].route = r
        /\ attempts'[a].operation = attempts[a].operation
        /\ attempts'[a].desired_generation = attempts[a].desired_generation
        /\ attempts'[a].programming_generation = attempts[a].programming_generation
    <3>1. attempts'[a] = [attempts[a] EXCEPT !.resolved = TRUE]
      BY <2>1 DEF CompletionEffect, TypeInv, TypeOK
    <3>2. [attempts[a] EXCEPT !.resolved = TRUE] \in AttemptRecords
      BY <2>0 DEF AttemptRecords
    <3> QED BY <2>0, <2>2, <3>1, <3>2, NoneAssumption DEF Started, AttemptRecords
  <2>4. \A b \in Started : b # a => b \in Started' /\ attempts'[b] = attempts[b]
    BY <2>1 DEF CompletionEffect, Started, TypeInv, TypeOK
  <2>5. ASSUME NEW s \in Present', routes'[s] = routes[s]
        PROVE  /\ routes'[s].lifecycle = "Installed" =>
                    SettledBy(routes[s].applied.attempt, s, {"Install", "Replace"})'
               /\ routes'[s].lifecycle = "Withdrawn" =>
                    SettledBy(routes[s].applied.attempt, s, {"Withdraw"})'
    <3>1. s \in Present
      BY <2>5 DEF Present
    <3> QED BY <2>0, <2>4, <2>5, <3>1 DEF OutcomesAreProven, SettledBy
  <2>6. ASSUME routes'[r] # routes[r]
        PROVE  /\ routes'[r].lifecycle = "Installed" =>
                    SettledBy(routes[r].applied.attempt, r, {"Install", "Replace"})'
               /\ routes'[r].lifecycle = "Withdrawn" =>
                    SettledBy(routes[r].applied.attempt, r, {"Withdraw"})'
    BY <2>0, <2>1, <2>2, <2>3, <2>6 DEF CompletionEffect, SettledBy, AttemptRecords
  <2>7. \A s \in Present' : s # r => routes'[s] = routes[s]
    BY <2>1, <2>2 DEF CompletionEffect, Present
  <2> QED BY <2>5, <2>6, <2>7 DEF OutcomesAreProven
<1>2. CASE Next /\ ~Complete
  <2>1. Effect
    BY <1>2, StepEffect DEF Next
  <2>2. \A a \in Started : attempts[a].resolved =>
          a \in Started' /\ attempts'[a] = attempts[a]
    BY <2>1 DEF Effect, Started
  <2>3. \A r \in Present' : KeepsOutcome(routes[r], routes'[r])
    BY <2>1 DEF Effect, GoodTable, Present
  <2> QED BY <2>2, <2>3 DEF OutcomesAreProven, SettledBy, KeepsOutcome, Present
<1>3. CASE UNCHANGED vars
  BY <1>3 DEF vars, OutcomesAreProven, SettledBy, Present, Started
<1> QED BY <1>1, <1>2, <1>3

(* A committed desire is never reported as an installation: in every         *)
(* reachable state an INSTALLED or WITHDRAWN record rests on a resolved      *)
(* attempt of the right operation for exactly its current generation.        *)
THEOREM InstallationsAreProven == Spec => []OutcomesAreProven
<1>1. Init => OutcomesAreProven
  BY DEF Init, OutcomesAreProven, Present
<1>2. Spec => [](TypeInv /\ OutcomesAreProven)
  BY <1>1, TypesInitially, TypesStep, OutcomesStep, PTL DEF Spec
<1> QED BY <1>2, PTL

(* A completion started before an invalidation never lands after it: the     *)
(* attempt that proves an installation is no older than the watermark of its *)
(* route.                                                                    *)
THEOREM InvalidationsAreFinal == Spec => []InvalidationIsFinal
<1>1. TypeInv /\ OutcomesAreProven => InvalidationIsFinal
  <2> SUFFICES ASSUME TypeInv, OutcomesAreProven, NEW r \in Present,
                      routes[r].lifecycle = "Installed"
               PROVE  LET a == routes[r].applied.attempt IN
                      /\ a \in Started
                      /\ attempts[a].desired_generation >= routes[r].invalidation_watermark
    BY DEF InvalidationIsFinal
  <2>1. SettledBy(routes[r].applied.attempt, r, {"Install", "Replace"})
    BY DEF OutcomesAreProven
  <2>2. WatermarkOK(routes[r]) /\ routes[r] \in RouteRecords
    BY DEF TypeInv, TypeOK, Present
  <2>3. routes[r].generation \in Nat /\ routes[r].invalidation_watermark \in Nat
    BY <2>2, RuntimeAssumption DEF RouteRecords, Generations
  <2> QED BY <2>1, <2>2, <2>3 DEF SettledBy, WatermarkOK
<1>2. Spec => []TypeInv
  BY TypesInitially, TypesStep, PTL DEF Spec
<1> QED BY <1>1, <1>2, InstallationsAreProven, PTL

-----------------------------------------------------------------------------
(* The key index and revocation, whatever the callers do.                    *)

(* The key index never names a route that is gone, has another key or was    *)
(* superseded.                                                               *)
THEOREM IndexAlwaysLive == Spec => []IndexNamesLive
<1>1. Spec => []TypeInv
  BY TypesInitially, TypesStep, PTL DEF Spec
<1>2. TypeInv => IndexNamesLive
  BY DEF TypeInv
<1> QED BY <1>1, <1>2, PTL

LEMMA RevokedStep ==
  TypeInv /\ RevokedNeverInstalled /\ [Next]_vars => RevokedNeverInstalled'
<1> SUFFICES ASSUME TypeInv, RevokedNeverInstalled, [Next]_vars
             PROVE  RevokedNeverInstalled'
  OBVIOUS
<1>0. \A r \in revocations : r \in RouteIds /\ routes[r] # None
                             /\ routes[r].lifecycle # "Installed"
  BY DEF RevokedNeverInstalled, Present
<1>1. CASE Complete
  <2>1. PICK a \in AttemptIds, outcome \in Outcomes : CompletionEffect(a, outcome)
    BY <1>1, CompleteEffect
  <2>2. \A r \in revocations : routes'[r] = routes[r]
    BY <1>0, <2>1 DEF CompletionEffect
  <2> QED BY <1>0, <2>1, <2>2 DEF CompletionEffect, RevokedNeverInstalled, Present
<1>2. CASE Next /\ ~Complete
  <2>1. Effect
    BY <1>2, StepEffect DEF Next
  <2>2. ASSUME NEW r \in revocations
        PROVE  r \in Present' /\ routes'[r].lifecycle # "Installed"
    <3>1. routes'[r] # None /\ KeepsOutcome(routes[r], routes'[r])
      BY <1>0, <2>1 DEF Effect, GoodTable
    <3> QED BY <1>0, <3>1 DEF KeepsOutcome, Present
  <2>3. ASSUME NEW r \in revocations' \ revocations
        PROVE  r \in Present' /\ routes'[r].lifecycle # "Installed"
    BY <2>1 DEF Effect, Present
  <2> QED BY <2>2, <2>3 DEF RevokedNeverInstalled
<1>3. CASE UNCHANGED vars
  BY <1>3 DEF vars, RevokedNeverInstalled, Present
<1> QED BY <1>1, <1>2, <1>3

(* Revocation is absolute for the lineage: whatever is published under its   *)
(* identity again, and whatever comes back for it, it is never INSTALLED.    *)
THEOREM RevokedAreNeverInstalled == Spec => []RevokedNeverInstalled
<1>1. Init => RevokedNeverInstalled
  BY DEF Init, RevokedNeverInstalled
<1>2. Spec => [](TypeInv /\ RevokedNeverInstalled)
  BY <1>1, TypesInitially, TypesStep, RevokedStep, PTL DEF Spec
<1> QED BY <1>2, PTL

-----------------------------------------------------------------------------
(* Currentness and authority.  currentness_of compares a record with the     *)
(* registration of its publisher but never looks at the epoch of that        *)
(* registration or at the administrative fences; ProvenanceInv is why it     *)
(* need not.                                                                 *)

\* A record of this epoch, made by the boot that is registered and not fenced,
\* was made under a registration of this epoch.
ProvenanceOK(rec) ==
  /\ rec.epoch <= epoch
  /\ /\ rec.epoch = epoch
     /\ registrations[rec.publisher] # None
     /\ registrations[rec.publisher].worker_boot = rec.worker_boot
     /\ rec.worker_boot \notin fenced_boots
     => registrations[rec.publisher].epoch = epoch

ProvenanceInv ==
  /\ FencedPublisherUnregistered
  /\ \A r \in Present : ProvenanceOK(routes[r])

(* The epoch is a number.                                                    *)
LEMMA EpochType ==
  ASSUME AuthorityTypeOK
  PROVE  epoch \in 1..MaxEpoch /\ epoch \in Nat
<1>1. epoch \in 1..MaxEpoch
  BY DEF AuthorityTypeOK
<1> QED BY <1>1, AuthorityAssumption

(* No authority step makes the provenance of a record better than it was,    *)
(* except a registration, which is of the current epoch.                     *)
LEMMA AuthorityProvenance ==
  ASSUME AuthorityTypeOK, AuthorityNext, FencedPublisherUnregistered
  PROVE  /\ FencedPublisherUnregistered'
         /\ \A rec \in RouteRecords : ProvenanceOK(rec) => ProvenanceOK(rec)'
<1> USE DEF FencedPublisherUnregistered, Registered
<1>0. ASSUME epoch' = epoch, fenced_boots \subseteq fenced_boots',
             \A p \in Publishers :
               \/ registrations'[p] = registrations[p]
               \/ registrations'[p] = None
               \/ registrations'[p].epoch = epoch
      PROVE  \A rec \in RouteRecords : ProvenanceOK(rec) => ProvenanceOK(rec)'
  BY <1>0 DEF ProvenanceOK, RouteRecords
<1>1. ASSUME NEW p \in Publishers, NEW b \in Boots, NEW s \in Scopes,
             RegisterPublisher(p, b, s)
      PROVE  /\ FencedPublisherUnregistered'
             /\ \A rec \in RouteRecords : ProvenanceOK(rec) => ProvenanceOK(rec)'
  <2>1. \A q \in Publishers : registrations'[q] = registrations[q] \/ q = p
    BY <1>1 DEF RegisterPublisher, AuthorityTypeOK
  <2>2. registrations'[p].epoch = epoch
    BY <1>1 DEF RegisterPublisher, AuthorityTypeOK
  <2>3. p \notin administrative_fences
    BY <1>1 DEF RegisterPublisher, MayRegister
  <2>4. /\ epoch' = epoch /\ administrative_fences' = administrative_fences
        /\ fenced_boots \subseteq fenced_boots'
    BY <1>1 DEF RegisterPublisher
  <2>5. FencedPublisherUnregistered'
    BY <2>1, <2>3, <2>4
  <2> QED BY <1>0, <2>1, <2>2, <2>4, <2>5
<1>2. ASSUME NEW p \in Publishers, NEW m \in BOOLEAN, FencePublisher(p, m)
      PROVE  /\ FencedPublisherUnregistered'
             /\ \A rec \in RouteRecords : ProvenanceOK(rec) => ProvenanceOK(rec)'
  <2>1. /\ \A q \in Publishers : registrations'[q] = IF q = p THEN None ELSE registrations[q]
        /\ administrative_fences' \subseteq administrative_fences \cup {p}
        /\ epoch' = epoch /\ fenced_boots \subseteq fenced_boots'
    BY <1>2 DEF FencePublisher, AuthorityTypeOK
  <2> QED BY <1>0, <2>1
<1>3. ASSUME NEW b \in Boots, NEW m \in BOOLEAN, FenceWorkerBoot(b, m)
      PROVE  /\ FencedPublisherUnregistered'
             /\ \A rec \in RouteRecords : ProvenanceOK(rec) => ProvenanceOK(rec)'
  <2> DEFINE holders == IF m THEN {p \in Registered : registrations[p].worker_boot = b}
                             ELSE {}
  <2>1. /\ registrations' = [p \in Publishers |->
                               IF p \in holders THEN None ELSE registrations[p]]
        /\ administrative_fences' = administrative_fences \cup holders
        /\ epoch' = epoch /\ fenced_boots \subseteq fenced_boots'
    BY <1>3 DEF FenceWorkerBoot
  <2> HIDE DEF holders
  <2>2. \A q \in Publishers : registrations'[q] = IF q \in holders THEN None
                                                  ELSE registrations[q]
    BY <2>1
  <2> QED BY <1>0, <2>1, <2>2
<1>4. ASSUME NEW p \in Publishers, ClearAdministrativeFence(p)
      PROVE  /\ FencedPublisherUnregistered'
             /\ \A rec \in RouteRecords : ProvenanceOK(rec) => ProvenanceOK(rec)'
  BY <1>0, <1>4 DEF ClearAdministrativeFence
<1>5. CASE AdvanceEpoch
  <2>1. /\ epoch' = epoch + 1 /\ epoch \in Nat
        /\ UNCHANGED <<registrations, administrative_fences>>
    BY <1>5, EpochType DEF AdvanceEpoch
  <2>2. \A rec \in RouteRecords : ProvenanceOK(rec) => ProvenanceOK(rec)'
    BY <2>1, AuthorityAssumption DEF ProvenanceOK, RouteRecords
  <2> QED BY <2>1, <2>2
<1>6. CASE AuthorityCrash
  BY <1>0, <1>6 DEF AuthorityCrash, ProvenanceOK, RouteRecords
<1>7. CASE AuthorityOpen
  BY <1>0, <1>7 DEF AuthorityOpen
<1> QED BY <1>1, <1>2, <1>3, <1>4, <1>5, <1>6, <1>7 DEF AuthorityNext, AuthorityStep

(* Every step keeps the provenance: records change it only for an authorized *)
(* caller.                                                                   *)
LEMMA ProvenanceStep == TypeInv /\ ProvenanceInv /\ [Next]_vars => ProvenanceInv'
<1> SUFFICES ASSUME TypeInv, ProvenanceInv, [Next]_vars PROVE ProvenanceInv'
  OBVIOUS
<1>1. TypeInv' /\ epoch \in Nat
  BY TypesStep, EpochType DEF TypeInv, TypeOK
<1>2. \A r \in Present' : routes'[r] \in RouteRecords
  BY <1>1 DEF TypeInv, TypeOK, Present
<1>3. ASSUME NEW r \in Present', KeepsProvenance(routes[r], routes'[r])
      PROVE  /\ routes'[r].epoch <= epoch
             /\ /\ routes'[r].epoch = epoch
                /\ registrations[routes'[r].publisher] # None
                /\ registrations[routes'[r].publisher].worker_boot = routes'[r].worker_boot
                /\ routes'[r].worker_boot \notin fenced_boots
                => registrations[routes'[r].publisher].epoch = epoch
  <2>1. CASE /\ routes[r] # None
             /\ routes'[r].publisher = routes[r].publisher
             /\ routes'[r].worker_boot = routes[r].worker_boot
             /\ routes'[r].epoch = routes[r].epoch
    BY <2>1 DEF ProvenanceInv, ProvenanceOK, Present
  <2>2. CASE /\ routes'[r].epoch = epoch
             /\ Authorized(routes'[r].publisher, routes'[r].worker_boot)
    BY <1>1, <2>2 DEF Authorized
  <2> QED BY <1>3, <2>1, <2>2 DEF KeepsProvenance
<1>4. CASE Complete
  <2>1. PICK a \in AttemptIds, outcome \in Outcomes : CompletionEffect(a, outcome)
    BY <1>4, CompleteEffect
  <2>2. UNCHANGED authorityVars
    BY <1>4, CompleteEffect DEF Elsewhere
  <2>3. \A r \in Present' : KeepsProvenance(routes[r], routes'[r])
    BY <2>1 DEF CompletionEffect, KeepsProvenance, Present
  <2> QED BY <1>3, <2>2, <2>3 DEF ProvenanceInv, ProvenanceOK, authorityVars,
                                  FencedPublisherUnregistered, Registered
<1>5. CASE Next /\ ~Complete
  <2>1. Effect /\ (AuthorityNext \/ UNCHANGED authorityVars)
    BY <1>5, StepEffect DEF Next
  <2>2. \A r \in Present' : KeepsProvenance(routes[r], routes'[r])
    BY <2>1 DEF Effect, GoodTable, Present
  <2>3. CASE UNCHANGED authorityVars
    BY <1>3, <2>2, <2>3 DEF ProvenanceInv, ProvenanceOK, authorityVars,
                            FencedPublisherUnregistered, Registered
  <2>4. CASE AuthorityNext
    <3>1. /\ FencedPublisherUnregistered'
          /\ \A rec \in RouteRecords : ProvenanceOK(rec) => ProvenanceOK(rec)'
      BY <2>4, AuthorityProvenance DEF TypeInv, TypeOK, ProvenanceInv
    <3>2. ASSUME NEW r \in Present' PROVE ProvenanceOK(routes[r])'
      <4>1. PICK rec \in RouteRecords : rec = routes'[r]
        BY <1>2, <3>2
      <4>2. ProvenanceOK(rec)
        BY <1>3, <2>2, <3>2, <4>1 DEF ProvenanceOK
      <4> QED BY <3>1, <4>1, <4>2 DEF ProvenanceOK
    <3> QED BY <3>1, <3>2 DEF ProvenanceInv
  <2> QED BY <2>1, <2>3, <2>4
<1>6. CASE UNCHANGED vars
  BY <1>6 DEF vars, ProvenanceInv, ProvenanceOK, FencedPublisherUnregistered,
              Registered, Present
<1> QED BY <1>4, <1>5, <1>6

LEMMA ProvenanceAlways == Spec => [](TypeInv /\ ProvenanceInv)
<1>1. Init => ProvenanceInv
  BY DEF Init, AuthorityInit, ProvenanceInv, FencedPublisherUnregistered, Present
<1> QED BY <1>1, TypesInitially, TypesStep, ProvenanceStep, PTL DEF Spec

(* A publisher under an administrative fence holds no registration, across   *)
(* registrations, boot changes, epoch advances and restarts, so that a query *)
(* need not look at the fences.                                              *)
THEOREM FencedPublishersAreUnregistered == Spec => []FencedPublisherUnregistered
<1>1. ProvenanceInv => FencedPublisherUnregistered
  BY DEF ProvenanceInv
<1> QED BY <1>1, ProvenanceAlways, PTL

(* A route reported CURRENT is one whose publisher authorize would accept    *)
(* right now.                                                                *)
THEOREM CurrentRoutesAreAuthorized == Spec => []CurrentIsAuthorized
<1>1. TypeInv /\ ProvenanceInv => CurrentIsAuthorized
  <2> SUFFICES ASSUME TypeInv, ProvenanceInv, NEW r \in Present, opened,
                      Currentness(r) = "Current"
               PROVE  Authorized(routes[r].publisher, routes[r].worker_boot)
    BY DEF CurrentIsAuthorized
  <2> DEFINE rec == routes[r]
  <2>1. rec \in RouteRecords /\ rec.publisher \in Publishers
    BY DEF Present, TypeInv, TypeOK, RouteRecords
  <2>2. /\ rec.epoch = epoch
        /\ registrations[rec.publisher] # None
        /\ registrations[rec.publisher].worker_boot = rec.worker_boot
        /\ rec.worker_boot \notin fenced_boots
    BY DEF Currentness
  <2>3. registrations[rec.publisher].epoch = epoch
    BY <2>2 DEF ProvenanceInv, ProvenanceOK
  <2> QED BY <2>1, <2>2, <2>3 DEF Authorized, Registered, ProvenanceInv,
                                  FencedPublisherUnregistered
<1> QED BY <1>1, ProvenanceAlways, PTL

-----------------------------------------------------------------------------
(* The publisher authority inside the runtime.                               *)

(* Whatever the runtime does, its authority state takes steps of the         *)
(* publisher authority only: publishing, programming, completions, recovery  *)
(* and persistence write none of it.                                         *)
THEOREM RuntimeImplementsAuthority == Spec => AuthoritySpec
<1>1. Init => AuthorityInit
  BY DEF Init
<1>2. TypeInv /\ [Next]_vars => [AuthorityNext]_authorityVars
  <2> SUFFICES ASSUME TypeInv, [Next]_vars
               PROVE  AuthorityNext \/ UNCHANGED authorityVars
    OBVIOUS
  <2>1. CASE Complete
    BY <2>1, CompleteEffect DEF Elsewhere
  <2>2. CASE Next /\ ~Complete
    BY <2>2, StepEffect DEF Next
  <2>3. CASE UNCHANGED vars
    BY <2>3 DEF vars, authorityVars
  <2> QED BY <2>1, <2>2, <2>3
<1> QED
  BY <1>1, <1>2, TypesInitially, TypesStep, PTL DEF Spec, AuthoritySpec

(* A boot that lost its registration is not authorized again while the       *)
(* coordinator process lives, although it may register again.                *)
THEOREM DismissedBootsCannotAct == Spec => []DismissedBootCannotAct
BY RuntimeImplementsAuthority, AuthorityDismissesBoots, PTL
=============================================================================
