----------------------- MODULE PublisherAuthorityProofs -----------------------
(***************************************************************************)
(* Theorems about PublisherAuthority, for every value of its constants.     *)
(* RouteRuntime and CoordinatorServer implement AuthoritySpec, so that they *)
(* inherit its invariants (RouteRuntimeProofs, CoordinatorServerProofs).    *)
(***************************************************************************)
EXTENDS PublisherAuthority, TLAPS

(* Every step of the authority keeps its types.                              *)
LEMMA AuthorityTypes ==
  ASSUME AuthorityTypeOK, AuthorityNext
  PROVE  AuthorityTypeOK'
<1> USE DEF AuthorityTypeOK
<1>1. \A bs : bs \subseteq Boots /\ Dismiss(bs) => dismissed' \subseteq Boots
  BY DEF Dismiss
<1>2. \A p \in Publishers : LiveBoots(p) \subseteq Boots
  BY DEF LiveBoots, Registered, Registrations
<1>3. ASSUME NEW p \in Publishers, NEW b \in Boots, NEW s \in Scopes,
             RegisterPublisher(p, b, s)
      PROVE  AuthorityTypeOK'
  <2>1. [worker_boot |-> b, epoch |-> epoch, scope |-> s] \in Registrations
    BY DEF Registrations
  <2>2. fenced_boots' \subseteq Boots
    BY <1>2, <1>3 DEF RegisterPublisher, ReplacedBoots
  <2>3. dismissed' \subseteq Boots
    BY <1>1, <1>2, <1>3 DEF RegisterPublisher
  <2> QED BY <1>3, <2>1, <2>2, <2>3 DEF RegisterPublisher
<1>4. ASSUME NEW p \in Publishers, NEW m \in BOOLEAN, FencePublisher(p, m)
      PROVE  AuthorityTypeOK'
  BY <1>1, <1>2, <1>4 DEF FencePublisher
<1>5. ASSUME NEW b \in Boots, NEW m \in BOOLEAN, FenceWorkerBoot(b, m)
      PROVE  AuthorityTypeOK'
  BY <1>1, <1>5 DEF FenceWorkerBoot, Registered
<1>6. ASSUME NEW p \in Publishers, ClearAdministrativeFence(p)
      PROVE  AuthorityTypeOK'
  BY <1>6 DEF ClearAdministrativeFence
<1>7. CASE AdvanceEpoch
  <2>1. epoch \in 1..MaxEpoch /\ epoch < MaxEpoch /\ epoch' = epoch + 1
    BY <1>7 DEF AdvanceEpoch
  <2> HIDE DEF AuthorityTypeOK
  <2>2. epoch' \in 1..MaxEpoch
    BY <2>1, AuthorityAssumption
  <2> QED BY <1>7, <2>2 DEF AdvanceEpoch, AuthorityTypeOK
<1>8. CASE AuthorityCrash
  BY <1>8 DEF AuthorityCrash
<1>9. CASE AuthorityOpen
  BY <1>9 DEF AuthorityOpen
<1> QED BY <1>3, <1>4, <1>5, <1>6, <1>7, <1>8, <1>9 DEF AuthorityNext, AuthorityStep

(* Every step that takes a registration away from a boot fences that boot in *)
(* the same critical section.                                                *)
LEMMA AuthorityDismissals ==
  ASSUME dismissed \subseteq fenced_boots, AuthorityNext
  PROVE  dismissed' \subseteq fenced_boots'
<1>1. ASSUME NEW p \in Publishers, NEW b \in Boots, NEW s \in Scopes,
             RegisterPublisher(p, b, s)
      PROVE  dismissed' \subseteq fenced_boots'
  BY <1>1 DEF RegisterPublisher, ReplacedBoots, Dismiss
<1>2. ASSUME NEW p \in Publishers, NEW m \in BOOLEAN, FencePublisher(p, m)
      PROVE  dismissed' \subseteq fenced_boots'
  BY <1>2 DEF FencePublisher, Dismiss
<1>3. ASSUME NEW b \in Boots, NEW m \in BOOLEAN, FenceWorkerBoot(b, m)
      PROVE  dismissed' \subseteq fenced_boots'
  BY <1>3 DEF FenceWorkerBoot, Dismiss
<1>4. ASSUME NEW p \in Publishers, ClearAdministrativeFence(p)
      PROVE  dismissed' \subseteq fenced_boots'
  BY <1>4 DEF ClearAdministrativeFence
<1>5. CASE AdvanceEpoch \/ AuthorityCrash \/ AuthorityOpen
  BY <1>5 DEF AdvanceEpoch, AuthorityCrash, AuthorityOpen
<1> QED BY <1>1, <1>2, <1>3, <1>4, <1>5 DEF AuthorityNext, AuthorityStep

(* A registration is refused to a fenced publisher, and a fence drops the    *)
(* registration.                                                             *)
LEMMA AuthorityFences ==
  ASSUME AuthorityTypeOK, FencedPublisherUnregistered, AuthorityNext
  PROVE  FencedPublisherUnregistered'
<1>0. /\ registrations \in [Publishers -> Registrations \cup {None}]
      /\ administrative_fences \subseteq Publishers
      /\ \A p \in administrative_fences : registrations[p] = None
  BY DEF AuthorityTypeOK, FencedPublisherUnregistered, Registered
<1> SUFFICES \A p \in administrative_fences' : registrations'[p] = None
  BY DEF FencedPublisherUnregistered, Registered
<1>1. ASSUME NEW p \in Publishers, NEW b \in Boots, NEW s \in Scopes,
             RegisterPublisher(p, b, s)
      PROVE  \A q \in administrative_fences' : registrations'[q] = None
  BY <1>0, <1>1 DEF RegisterPublisher, MayRegister
<1>2. ASSUME NEW p \in Publishers, NEW m \in BOOLEAN, FencePublisher(p, m)
      PROVE  \A q \in administrative_fences' : registrations'[q] = None
  BY <1>0, <1>2 DEF FencePublisher
<1>3. ASSUME NEW b \in Boots, NEW m \in BOOLEAN, FenceWorkerBoot(b, m)
      PROVE  \A q \in administrative_fences' : registrations'[q] = None
  <2> DEFINE holders == IF m THEN {p \in Registered : registrations[p].worker_boot = b}
                             ELSE {}
  <2>1. /\ registrations' = [p \in Publishers |->
                               IF p \in holders THEN None ELSE registrations[p]]
        /\ administrative_fences' = administrative_fences \cup holders
        /\ holders \subseteq Publishers
    BY <1>3 DEF FenceWorkerBoot, Registered
  <2> QED BY <1>0, <2>1
<1>4. ASSUME NEW p \in Publishers, ClearAdministrativeFence(p)
      PROVE  \A q \in administrative_fences' : registrations'[q] = None
  BY <1>0, <1>4 DEF ClearAdministrativeFence
<1>5. CASE AdvanceEpoch \/ AuthorityCrash \/ AuthorityOpen
  BY <1>0, <1>5 DEF AdvanceEpoch, AuthorityCrash, AuthorityOpen
<1> QED BY <1>1, <1>2, <1>3, <1>4, <1>5 DEF AuthorityNext, AuthorityStep

-----------------------------------------------------------------------------
(* Type correctness of the authority state.                                  *)
THEOREM AuthorityTypeCorrect == AuthoritySpec => []AuthorityTypeOK
<1>1. AuthorityInit => AuthorityTypeOK
  <2>1. 1 \in 1..MaxEpoch
    BY AuthorityAssumption
  <2> QED BY <2>1 DEF AuthorityInit, AuthorityTypeOK
<1>2. AuthorityTypeOK /\ [AuthorityNext]_authorityVars => AuthorityTypeOK'
  BY AuthorityTypes DEF AuthorityTypeOK, authorityVars
<1> QED BY <1>1, <1>2, PTL DEF AuthoritySpec

(* A boot that lost its registration is never authorized again in the same   *)
(* life of the coordinator: every dismissed boot is a fenced one.            *)
THEOREM AuthorityDismissesBoots == AuthoritySpec => []DismissedBootCannotAct
<1> DEFINE Inv == dismissed \subseteq fenced_boots
<1>1. AuthorityInit => Inv
  BY DEF AuthorityInit
<1>2. Inv /\ [AuthorityNext]_authorityVars => Inv'
  BY AuthorityDismissals DEF authorityVars
<1>3. Inv => DismissedBootCannotAct
  BY DEF DismissedBootCannotAct, Authorized
<1> HIDE DEF Inv
<1> QED BY <1>1, <1>2, <1>3, PTL DEF AuthoritySpec

(* A publisher under an administrative fence holds no registration.          *)
THEOREM AuthorityKeepsFences == AuthoritySpec => []FencedPublisherUnregistered
<1>1. AuthorityInit => FencedPublisherUnregistered
  BY DEF AuthorityInit, FencedPublisherUnregistered
<1>2. /\ AuthorityTypeOK /\ FencedPublisherUnregistered
      /\ [AuthorityNext]_authorityVars
      => FencedPublisherUnregistered'
  BY AuthorityFences DEF authorityVars, FencedPublisherUnregistered, Registered
<1> QED BY <1>1, <1>2, AuthorityTypeCorrect, PTL DEF AuthoritySpec
=============================================================================
