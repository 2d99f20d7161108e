------------------------- MODULE PublisherAuthority -------------------------
(***************************************************************************)
(* Who may mutate routes: the registrations, administrative fences and      *)
(* fenced worker boots of RouteFabricRuntime, and the coordinator epoch     *)
(* every registration is bound to (src/runtime.cpp, "Authority").           *)
(*                                                                          *)
(* Each handler runs under the exclusive runtime lock, so each is one       *)
(* action.  Only the epoch is durable: a restart starts from an empty       *)
(* registration table and from empty fences.  A refused call changes no     *)
(* state and is not an action.                                              *)
(***************************************************************************)
EXTENDS Naturals, FiniteSets

CONSTANTS
  Publishers,     \* PublisherId
  Boots,          \* WorkerBootId: one per incarnation of a worker process
  Scopes,         \* the PublisherScopes that registration accepts
  None,           \* the absent value of every optional
  MaxEpoch,       \* the highest CoordinatorEpoch (checked arithmetic)
  MaxPublishers   \* Limits::max_publishers

ASSUME AuthorityAssumption ==
  /\ MaxEpoch \in Nat \ {0}
  /\ MaxPublishers \in Nat

VARIABLES
  epoch,                   \* the coordinator epoch
  opened,                  \* Open() has succeeded in this process
  registrations,           \* publisher -> its live registration, or None
  administrative_fences,   \* publishers fenced administratively
  fenced_boots,            \* worker boots that were fenced
  dismissed                \* history: boots that lost a registration in this life

authorityVars == <<epoch, opened, registrations, administrative_fences,
                   fenced_boots, dismissed>>

Registrations == [worker_boot : Boots, epoch : 1..MaxEpoch, scope : Scopes]

AuthorityTypeOK ==
  /\ epoch \in 1..MaxEpoch
  /\ opened \in BOOLEAN
  /\ registrations \in [Publishers -> Registrations \cup {None}]
  /\ administrative_fences \in SUBSET Publishers
  /\ fenced_boots \in SUBSET Boots
  /\ dismissed \in SUBSET Boots

AuthorityInit ==
  /\ epoch = 1
  /\ opened = FALSE
  /\ registrations = [p \in Publishers |-> None]
  /\ administrative_fences = {}
  /\ fenced_boots = {}
  /\ dismissed = {}

-----------------------------------------------------------------------------
Registered == {p \in Publishers : registrations[p] # None}

\* Impl::authorize: the mutation of publisher p from worker boot b is accepted.
Authorized(p, b) ==
  /\ opened
  /\ p \notin administrative_fences
  /\ p \in Registered
  /\ registrations[p].worker_boot = b
  /\ registrations[p].epoch = epoch
  /\ b \notin fenced_boots

\* The boots of bs lose the registration they hold.
Dismiss(bs) == dismissed' = dismissed \cup bs

\* The boot that publisher p is registered with, as a set.
LiveBoots(p) == {registrations[q].worker_boot : q \in {p} \cap Registered}

\* Mutated forms of the two definitions that follow.
ReplacedBootsForgotten(p, b) == {}
MayRegisterFenced(p) == opened /\ p \in Publishers

\* The boots a registration of publisher p from boot b fences: the previous one,
\* when it is another boot.
ReplacedBoots(p, b) == LiveBoots(p) \ {b}

\* The refusals of RegisterPublisher.  The boot that registers is not compared
\* with fenced_boots.
MayRegister(p) ==
  /\ opened
  /\ p \notin administrative_fences
  /\ p \in Registered \/ Cardinality(Registered) < MaxPublishers

RegisterPublisher(p, b, s) ==
  /\ MayRegister(p)
  /\ fenced_boots' = fenced_boots \cup ReplacedBoots(p, b)
  /\ registrations' = [registrations EXCEPT
                         ![p] = [worker_boot |-> b, epoch |-> epoch, scope |-> s]]
  /\ Dismiss(LiveBoots(p) \ {b})
  /\ UNCHANGED <<epoch, opened, administrative_fences>>

\* FencePublisher: the live boot is fenced and its registration dropped; an
\* administrative reason also fences the publisher itself.
FencePublisher(p, administrative) ==
  /\ fenced_boots' = fenced_boots \cup LiveBoots(p)
  /\ registrations' = [registrations EXCEPT ![p] = None]
  /\ administrative_fences' =
       administrative_fences \cup (IF administrative THEN {p} ELSE {})
  /\ Dismiss(LiveBoots(p))
  /\ UNCHANGED <<epoch, opened>>

\* FenceWorkerBoot: with an administrative reason, every publisher registered
\* from that boot is fenced and loses its registration.
FenceWorkerBoot(b, administrative) ==
  LET holders == IF administrative
                 THEN {p \in Registered : registrations[p].worker_boot = b}
                 ELSE {}
  IN /\ fenced_boots' = fenced_boots \cup {b}
     /\ registrations' = [p \in Publishers |->
                            IF p \in holders THEN None ELSE registrations[p]]
     /\ administrative_fences' = administrative_fences \cup holders
     /\ Dismiss(IF holders = {} THEN {} ELSE {b})
     /\ UNCHANGED <<epoch, opened>>

ClearAdministrativeFence(p) ==
  /\ administrative_fences' = administrative_fences \ {p}
  /\ UNCHANGED <<epoch, opened, registrations, fenced_boots, dismissed>>

\* AdvanceEpoch: no registration is touched; they become stale by comparison.
AdvanceEpoch ==
  /\ opened
  /\ epoch < MaxEpoch
  /\ epoch' = epoch + 1
  /\ UNCHANGED <<opened, registrations, administrative_fences, fenced_boots,
                 dismissed>>

\* The process ends: only the epoch is in the store.
AuthorityCrash ==
  /\ opened
  /\ opened' = FALSE
  /\ registrations' = [p \in Publishers |-> None]
  /\ administrative_fences' = {}
  /\ fenced_boots' = {}
  /\ dismissed' = {}
  /\ UNCHANGED epoch

\* Open: what it does to the authority state of a fresh process.
AuthorityOpen ==
  /\ ~opened
  /\ opened' = TRUE
  /\ UNCHANGED <<epoch, registrations, administrative_fences, fenced_boots,
                 dismissed>>

AuthorityStep ==
  \/ \E p \in Publishers, b \in Boots, s \in Scopes : RegisterPublisher(p, b, s)
  \/ \E p \in Publishers, r \in BOOLEAN : FencePublisher(p, r)
  \/ \E b \in Boots, r \in BOOLEAN : FenceWorkerBoot(b, r)
  \/ \E p \in Publishers : ClearAdministrativeFence(p)

AuthorityNext == AuthorityStep \/ AdvanceEpoch \/ AuthorityCrash \/ AuthorityOpen

AuthoritySpec == AuthorityInit /\ [][AuthorityNext]_authorityVars

-----------------------------------------------------------------------------
(* Properties *)

(* A boot that lost its registration in this coordinator life - replaced by  *)
(* a newer boot, fenced at session end or fenced administratively - is never *)
(* authorized again, although RegisterPublisher lets it register again       *)
(* (README 6: "the previous boot can never mutate again").                   *)
DismissedBootCannotAct ==
  \A b \in dismissed, p \in Publishers : ~Authorized(p, b)

(* An administratively fenced publisher holds no registration: currentness_of *)
(* relies on it, since it looks at registrations and never at the fences.    *)
FencedPublisherUnregistered ==
  administrative_fences \cap Registered = {}

(* "Administrative fencing is separate and persists until explicitly         *)
(* cleared": only ClearAdministrativeFence lifts a fence.  The fences are no  *)
(* part of the stored state, so a restart lifts them all.                    *)
FencesPersist ==
  [][\A p \in administrative_fences :
       p \in administrative_fences' \/ ClearAdministrativeFence(p)]_authorityVars
=============================================================================
