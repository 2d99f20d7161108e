----------------------- MODULE CoordinatorServerProofs -----------------------
(***************************************************************************)
(* Theorems about CoordinatorServer, for every value of its constants: any  *)
(* number of sessions, publishers and boots, and any limit on sessions.     *)
(***************************************************************************)
EXTENDS CoordinatorServer, PublisherAuthorityProofs, FiniteSetTheorems

-----------------------------------------------------------------------------
(* Types, and the authority the server runs on.                              *)

\* A session thread that is about to fence has a publisher to fence.
MatchedHolds == \A s \in Sessions : thread[s] = "matched" => holds[s] # None

ServerInv == ServerTypeOK /\ MatchedHolds

\* The server's own variables have their types.
OwnTypes ==
  /\ thread \in [Sessions -> ThreadStates]
  /\ holds \in [Sessions -> Holdings \cup {None}]
  /\ listed \in SUBSET Sessions
  /\ active_sessions \in 0..MaxSessions
  /\ signalled \in SUBSET Sessions
  /\ acceptor \in {"off", "accepting"}
  /\ stop \in StopStates
  /\ to_signal \in SUBSET Sessions
  /\ target \in Sessions \cup {None}
  /\ owner \in [Publishers -> Sessions \cup {None}]

(* The accept thread keeps the types and leaves the authority alone.         *)
LEMMA AcceptTypes ==
  ASSUME ServerInv, NEW s \in Sessions, Accept(s) \/ Admit(s)
  PROVE  OwnTypes' /\ MatchedHolds' /\ UNCHANGED authorityVars
<1> USE DEF ServerInv, ServerTypeOK, OwnTypes, MatchedHolds
<1>1. CASE Accept(s)
  BY <1>1 DEF Accept, Goto, Reaped, ThreadStates
<1>2. CASE Admit(s)
  <2>1. active_sessions' \in 0..MaxSessions
    BY <1>2, ServerAssumption DEF Admit, HasRoom
  <2> QED BY <1>2, <2>1 DEF Admit, Goto, ThreadStates
<1> QED BY <1>1, <1>2

LEMMA AcceptorTypes ==
  ASSUME ServerInv, Start \/ AcceptorEnds
  PROVE  OwnTypes' /\ MatchedHolds' /\ UNCHANGED authorityVars
<1> USE DEF ServerInv, ServerTypeOK, OwnTypes, MatchedHolds
<1>1. CASE Start
  BY <1>1 DEF Start, StopStates
<1>2. CASE AcceptorEnds
  BY <1>2 DEF AcceptorEnds
<1> QED BY <1>1, <1>2

(* A session thread keeps the types; it changes the authority by a           *)
(* registration and by the fence of its publisher only.                      *)
LEMMA SessionTypes ==
  ASSUME ServerInv, NEW s \in Sessions,
         SessionStep(s) \/ Receive(s) \/ EndOnInput(s)
  PROVE  OwnTypes' /\ MatchedHolds' /\ [AuthorityNext]_authorityVars
<1> USE DEF ServerInv, ServerTypeOK, OwnTypes, MatchedHolds
<1>1. CASE Wait(s) \/ Receive(s)
  BY <1>1 DEF Wait, Receive, Goto, ThreadStates
<1>2. CASE EndLoop(s)
  BY <1>2 DEF EndLoop, Goto, ThreadStates, StillHeld
<1>3. CASE FenceOnClose(s)
  <2>1. holds[s] \in Holdings
    BY <1>3 DEF FenceOnClose
  <2>2. holds[s].publisher \in Publishers
    BY <2>1 DEF Holdings
  <2>3. AuthorityNext
    BY <1>3, <2>2 DEF FenceOnClose, AuthorityNext, AuthorityStep
  <2> QED BY <1>3, <2>3 DEF FenceOnClose, Goto, ThreadStates
<1>4. CASE Unlist(s)
  <2>1. active_sessions' \in 0..MaxSessions
    BY <1>4, ServerAssumption DEF Unlist, Uncounted
  <2> QED BY <1>4, <2>1 DEF Unlist, Goto, ThreadStates
<1>5. CASE Release(s)
  BY <1>5 DEF Release, Goto, ThreadStates, Woken, StopStates
<1> QED
  BY <1>1, <1>2, <1>3, <1>4, <1>5 DEF SessionStep, EndWhenStopping, EndWhenWoken,
                                      EndOnInput

LEMMA RegisterTypes ==
  ASSUME ServerInv, NEW s \in Sessions, NEW p \in Publishers, NEW b \in Boots,
         NEW scope \in Scopes, HandleRegister(s, p, b, scope)
  PROVE  OwnTypes' /\ MatchedHolds' /\ [AuthorityNext]_authorityVars
<1> USE DEF ServerInv, ServerTypeOK, OwnTypes, MatchedHolds
<1>1. AuthorityNext
  BY DEF HandleRegister, AuthorityNext, AuthorityStep
<1>2. [publisher |-> p, worker_boot |-> b] \in Holdings
  BY DEF Holdings
<1> QED BY <1>1, <1>2 DEF HandleRegister

(* Stop keeps the types and leaves the authority alone.                      *)
LEMMA StopTypes ==
  ASSUME ServerInv, StopBegins \/ StopStep
  PROVE  OwnTypes' /\ MatchedHolds' /\ UNCHANGED authorityVars
<1> USE DEF ServerInv, ServerTypeOK, OwnTypes, MatchedHolds
<1>1. CASE StopBegins
  BY <1>1 DEF StopBegins, StopStates
<1>2. CASE StopJoins
  BY <1>2 DEF StopJoins, StopStates
<1>3. ASSUME NEW s \in Sessions, StopReadsHandle(s)
      PROVE  OwnTypes' /\ MatchedHolds' /\ UNCHANGED authorityVars
  BY <1>3 DEF StopReadsHandle
<1>4. CASE StopSignals
  BY <1>4 DEF StopSignals
<1>5. CASE StopWaits
  BY <1>5 DEF StopWaits, StopStates
<1>6. CASE StopChecks
  BY <1>6 DEF StopChecks, StopStates
<1> QED BY <1>1, <1>2, <1>3, <1>4, <1>5, <1>6 DEF StopStep

LEMMA ActsTypes ==
  ASSUME ServerInv, AuthorityActs
  PROVE  OwnTypes' /\ MatchedHolds' /\ [AuthorityNext]_authorityVars
<1> USE DEF ServerInv, ServerTypeOK, OwnTypes, MatchedHolds
<1>1. AuthorityNext
  BY DEF AuthorityActs, AuthorityNext, AuthorityStep
<1> QED BY <1>1 DEF AuthorityActs

(* Every step of the server keeps the types and is a step of the authority.  *)
LEMMA ServerStep ==
  ASSUME ServerInv, [Next]_vars
  PROVE  ServerInv' /\ [AuthorityNext]_authorityVars
<1>1. OwnTypes' /\ MatchedHolds' /\ [AuthorityNext]_authorityVars
  <2>1. CASE UNCHANGED vars
    BY <2>1 DEF vars, serverVars, authorityVars, ServerInv, ServerTypeOK, OwnTypes,
                MatchedHolds
  <2>2. CASE Next
    BY <2>2, AcceptTypes, AcceptorTypes, SessionTypes, RegisterTypes, StopTypes,
       ActsTypes DEF Next
  <2> QED BY <2>1, <2>2
<1>2. AuthorityTypeOK'
  BY <1>1, AuthorityTypes DEF ServerInv, ServerTypeOK, AuthorityTypeOK, authorityVars
<1> QED BY <1>1, <1>2 DEF ServerInv, ServerTypeOK, OwnTypes

LEMMA ServerInitially == Init => ServerInv
<1>1. 1 \in 1..MaxEpoch /\ 0 \in 0..MaxSessions
  BY AuthorityAssumption, ServerAssumption
<1> QED
  BY <1>1 DEF Init, AuthorityInit, AuthorityTypeOK, ServerInv, ServerTypeOK,
              MatchedHolds, ThreadStates, StopStates

LEMMA ServerAlways == Spec => []ServerInv
BY ServerInitially, ServerStep, PTL DEF Spec

(* Type correctness of the server; with it, no more than max_sessions        *)
(* sessions are counted, whatever the accept thread, the session threads and *)
(* Stop interleave.                                                          *)
THEOREM ServerTypeCorrect == Spec => []ServerTypeOK
<1>1. ServerInv => ServerTypeOK
  BY DEF ServerInv
<1> QED BY <1>1, ServerAlways, PTL

(* The threads of the server change the publisher authority by its own       *)
(* operations only.                                                          *)
THEOREM ServerImplementsAuthority == Spec => AuthoritySpec
<1>1. Init => AuthorityInit
  BY DEF Init
<1>2. ServerInv /\ [Next]_vars => [AuthorityNext]_authorityVars
  BY ServerStep
<1> QED BY <1>1, <1>2, ServerAlways, PTL DEF Spec, AuthoritySpec

(* However sessions register, end and fence, a boot that lost its            *)
(* registration stays without authority.                                     *)
THEOREM ServerDismissesBoots == Spec => []DismissedBootCannotAct
BY ServerImplementsAuthority, AuthorityDismissesBoots, PTL

(* However sessions register, end and fence, an administratively fenced      *)
(* publisher holds no registration.                                          *)
THEOREM ServerKeepsFences == Spec => []FencedPublisherUnregistered
BY ServerImplementsAuthority, AuthorityKeepsFences, PTL

-----------------------------------------------------------------------------
(* The session counter.                                                      *)

CountedSessions == {s \in Sessions : Counted(s)}

CountInv ==
  /\ IsFiniteSet(CountedSessions)
  /\ active_sessions = Cardinality(CountedSessions)

(* Admission counts one more session, the locked section of finish_session   *)
(* one less, and no other step of any thread changes who is counted.         *)
LEMMA CountEffect ==
  ASSUME ServerInv, [Next]_vars
  PROVE  \/ CountedSessions' = CountedSessions /\ UNCHANGED active_sessions
         \/ \E s \in Sessions \ CountedSessions :
              /\ ~Stopping
              /\ CountedSessions' = CountedSessions \cup {s}
              /\ active_sessions' = active_sessions + 1
         \/ \E s \in CountedSessions :
              /\ CountedSessions' = CountedSessions \ {s}
              /\ active_sessions' = Uncounted
<1>0. thread \in [Sessions -> ThreadStates]
  BY DEF ServerInv, ServerTypeOK
<1> DEFINE Same == CountedSessions' = CountedSessions /\ UNCHANGED active_sessions
<1>1. UNCHANGED <<thread, active_sessions>> => Same
  BY DEF CountedSessions, Counted
<1>2. ASSUME NEW s \in Sessions, NEW state,
             Goto(s, state), UNCHANGED active_sessions,
             Counted(s) <=> state \in {"serving", "waiting", "matched", "leaving"}
      PROVE  Same
  BY <1>0, <1>2 DEF CountedSessions, Counted, Goto
<1> HIDE DEF Same
<1>3. ASSUME NEW s \in Sessions,
             \/ Accept(s) \/ Wait(s) \/ Receive(s)
             \/ EndWhenStopping(s) \/ EndWhenWoken(s) \/ EndOnInput(s)
      PROVE  Same
  <2>1. CASE Accept(s)
    BY <2>1, <1>2 DEF Accept, Counted
  <2>2. CASE Wait(s) \/ Receive(s)
    BY <2>2, <1>2 DEF Wait, Receive, Counted
  <2>3. CASE EndLoop(s) /\ thread[s] \in {"serving", "waiting"}
    BY <2>3, <1>2 DEF EndLoop, Counted
  <2> QED BY <1>3, <2>1, <2>2, <2>3 DEF EndWhenStopping, EndWhenWoken, EndOnInput
<1>4. ASSUME NEW s \in Sessions, FenceOnClose(s) \/ Release(s) PROVE Same
  BY <1>2, <1>4 DEF FenceOnClose, Release, Counted
<1>5. ASSUME NEW s \in Sessions, Admit(s)
      PROVE  \/ Same
             \/ /\ s \notin CountedSessions /\ ~Stopping
                /\ CountedSessions' = CountedSessions \cup {s}
                /\ active_sessions' = active_sessions + 1
  <2>1. CASE ~Stopping /\ HasRoom
    BY <1>0, <1>5, <2>1 DEF Admit, Goto, CountedSessions, Counted
  <2>2. CASE ~(~Stopping /\ HasRoom)
    BY <1>2, <1>5, <2>2 DEF Admit, Counted
  <2> QED BY <2>1, <2>2
<1>6. ASSUME NEW s \in Sessions, Unlist(s)
      PROVE  /\ s \in CountedSessions
             /\ CountedSessions' = CountedSessions \ {s}
             /\ active_sessions' = Uncounted
  BY <1>0, <1>6 DEF Unlist, Goto, CountedSessions, Counted
<1>7. ASSUME NEW s \in Sessions, NEW p, NEW b, NEW c, HandleRegister(s, p, b, c)
      PROVE  Same
  BY <1>1, <1>7 DEF HandleRegister
<1>8. ASSUME StopBegins \/ StopStep \/ AuthorityActs \/ Start \/ AcceptorEnds
      PROVE  Same
  BY <1>1, <1>8 DEF StopBegins, StopStep, StopJoins, StopSignals, StopWaits,
     StopChecks, StopReadsHandle, AuthorityActs, Start, AcceptorEnds
<1>9. ASSUME UNCHANGED vars PROVE Same
  BY <1>1, <1>9 DEF vars, serverVars
<1>10. CASE \E s \in Sessions : Admit(s)
  BY <1>5, <1>10 DEF Same
<1>11. CASE \E s \in Sessions : Unlist(s)
  BY <1>6, <1>11 DEF CountedSessions
<1>12. CASE /\ [Next]_vars
            /\ ~\E s \in Sessions : Admit(s) \/ Unlist(s)
  <2>1. Same
    BY <1>3, <1>4, <1>7, <1>8, <1>9, <1>12 DEF Next, SessionStep
  <2> QED BY <2>1 DEF Same
<1> QED BY <1>10, <1>11, <1>12

LEMMA CountStep == ServerInv /\ CountInv /\ [Next]_vars => CountInv'
<1> SUFFICES ASSUME ServerInv, CountInv, [Next]_vars PROVE CountInv'
  OBVIOUS
<1>1. CASE CountedSessions' = CountedSessions /\ UNCHANGED active_sessions
  BY <1>1 DEF CountInv
<1>2. ASSUME NEW s \in Sessions \ CountedSessions,
             CountedSessions' = CountedSessions \cup {s},
             active_sessions' = active_sessions + 1
      PROVE  CountInv'
  <2>1. s \notin CountedSessions /\ IsFiniteSet(CountedSessions)
    BY DEF CountInv
  <2>2. /\ IsFiniteSet(CountedSessions \cup {s})
        /\ Cardinality(CountedSessions \cup {s}) = Cardinality(CountedSessions) + 1
    BY <2>1, FS_AddElement
  <2> QED BY <1>2, <2>2 DEF CountInv
<1>3. ASSUME NEW s \in CountedSessions,
             CountedSessions' = CountedSessions \ {s},
             active_sessions' = Uncounted
      PROVE  CountInv'
  <2>1. IsFiniteSet(CountedSessions)
    BY DEF CountInv
  <2>2. /\ IsFiniteSet(CountedSessions \ {s})
        /\ Cardinality(CountedSessions \ {s}) = Cardinality(CountedSessions) - 1
    BY <2>1, FS_RemoveElement
  <2>3. Cardinality(CountedSessions) \in Nat /\ Cardinality(CountedSessions) # 0
    BY <2>1, FS_CardinalityType, FS_EmptySet
  <2> QED BY <1>3, <2>2, <2>3 DEF CountInv, Uncounted
<1> QED BY <1>1, <1>2, <1>3, CountEffect

(* The counter that max_sessions is compared with, and that Stop waits on,   *)
(* is the number of sessions that are being served.                          *)
THEOREM ActiveSessionsAlwaysExact == Spec => []ActiveSessionsExact
<1>1. Init => CountInv
  <2>1. Init => CountedSessions = {}
    BY DEF Init, CountedSessions, Counted
  <2> QED BY <2>1, FS_EmptySet DEF Init, CountInv
<1>2. CountInv => ActiveSessionsExact
  BY DEF CountInv, ActiveSessionsExact, CountedSessions
<1> QED BY <1>1, <1>2, ServerAlways, CountStep, PTL DEF Spec

-----------------------------------------------------------------------------
(* Sessions that end.                                                        *)

\* The clients register the publisher they are configured with, and no other
\* (RouteFabricClient::RegisterPublisher sends config.publisher).
OnePublisherEach == \A s \in Sessions : \A p, q \in Registers[s] : p = q

\* The session that made a live registration is still in session_loop or about
\* to fence, and remembers that registration.
HoldInv ==
  /\ \A s \in Sessions : holds[s] # None => holds[s].publisher \in Registers[s]
  /\ \A p \in Registered, s \in Sessions :
       owner[p] = s => /\ holds[s] # None
                       /\ holds[s].publisher = p
                       /\ holds[s].worker_boot = registrations[p].worker_boot
                       /\ thread[s] \in {"serving", "waiting", "matched"}

(* While nobody registers and nothing is fenced, it is enough that session   *)
(* threads leave session_loop through the lookup of finish_session.          *)
LEMMA HoldQuietly ==
  ASSUME ServerInv, HoldInv,
         UNCHANGED <<authorityVars, holds, owner>>,
         \A s \in Sessions :
           \/ thread'[s] = thread[s]
           \/ thread[s] \notin {"serving", "waiting", "matched"}
           \/ thread'[s] \in {"serving", "waiting", "matched"}
           \/ ~StillHeld(s)
  PROVE  HoldInv'
<1>1. Registered' = Registered /\ registrations' = registrations
  BY DEF authorityVars, Registered
<1>2. ASSUME NEW p \in Registered, NEW s \in Sessions, owner[p] = s
      PROVE  StillHeld(s)
  BY <1>2 DEF HoldInv, StillHeld, LiveBoots
<1>3. ASSUME NEW p \in Registered, NEW s \in Sessions, owner[p] = s
      PROVE  thread'[s] \in {"serving", "waiting", "matched"}
  BY <1>2, <1>3 DEF HoldInv
<1> QED BY <1>1, <1>3 DEF HoldInv

(* A fence of publisher p takes p out of the registrations.                  *)
LEMMA HoldFence ==
  ASSUME ServerInv, HoldInv, NEW p \in Publishers, NEW m \in BOOLEAN,
         FencePublisher(p, m), owner' = [owner EXCEPT ![p] = None],
         UNCHANGED holds,
         \A s \in Sessions :
           \/ thread'[s] = thread[s]
           \/ thread[s] = "matched" /\ holds[s].publisher = p
  PROVE  HoldInv'
<1>1. /\ Registered' = Registered \ {p}
      /\ \A q \in Registered \ {p} : registrations'[q] = registrations[q]
  BY DEF FencePublisher, Registered, ServerInv, ServerTypeOK, AuthorityTypeOK
<1>2. \A q \in Registered \ {p} : owner'[q] = owner[q]
  BY DEF Registered, ServerInv, ServerTypeOK
<1>3. ASSUME NEW q \in Registered \ {p}, NEW s \in Sessions, owner[q] = s
      PROVE  /\ thread'[s] = thread[s]
             /\ holds[s] # None /\ holds[s].publisher = q
             /\ holds[s].worker_boot = registrations[q].worker_boot
             /\ thread[s] \in {"serving", "waiting", "matched"}
  BY <1>3 DEF HoldInv
<1> QED BY <1>1, <1>2, <1>3 DEF HoldInv

(* A registration becomes the one its session remembers; the publisher that  *)
(* session had registered before is the same one.                            *)
LEMMA HoldRegister ==
  ASSUME ServerInv, HoldInv, OnePublisherEach,
         NEW s \in Sessions, NEW p \in Publishers, NEW b \in Boots,
         NEW scope \in Scopes, HandleRegister(s, p, b, scope)
  PROVE  HoldInv'
<1>1. /\ thread[s] = "serving" /\ p \in Registers[s] /\ thread' = thread
      /\ holds' = [holds EXCEPT ![s] = [publisher |-> p, worker_boot |-> b]]
      /\ owner' = [owner EXCEPT ![p] = s]
      /\ registrations' = [registrations EXCEPT
                             ![p] = [worker_boot |-> b, epoch |-> epoch, scope |-> scope]]
  BY DEF HandleRegister, RegisterPublisher
<1>2. /\ registrations'[p].worker_boot = b
      /\ holds'[s].publisher = p /\ holds'[s].worker_boot = b /\ holds'[s] # None
      /\ owner'[p] = s
  <2>1. holds'[s] = [publisher |-> p, worker_boot |-> b] /\ owner'[p] = s
    BY <1>1 DEF ServerInv, ServerTypeOK
  <2>2. holds'[s] # None
    BY <2>1, HoldingsAssumption DEF Holdings
  <2> QED BY <1>1, <2>1, <2>2 DEF ServerInv, ServerTypeOK, AuthorityTypeOK
<1>3. ASSUME NEW q \in Registered', q # p
      PROVE  q \in Registered /\ registrations'[q] = registrations[q] /\ owner'[q] = owner[q]
  BY <1>1, <1>3 DEF Registered, ServerInv, ServerTypeOK, AuthorityTypeOK
<1>4. ASSUME NEW q \in Registered', q # p, NEW t \in Sessions, owner[q] = t
      PROVE  t # s /\ holds'[t] = holds[t]
  <2>1. q \in Registers[t]
    BY <1>3, <1>4 DEF HoldInv
  <2>2. t # s
    BY <1>1, <1>4, <2>1 DEF OnePublisherEach
  <2> QED BY <1>1, <2>2 DEF ServerInv, ServerTypeOK
<1>5. \A t \in Sessions : holds'[t] # None => holds'[t].publisher \in Registers[t]
  BY <1>1, <1>2 DEF HoldInv, ServerInv, ServerTypeOK
<1>6. ASSUME NEW q \in Registered', NEW t \in Sessions, owner'[q] = t
      PROVE  /\ holds'[t] # None
             /\ holds'[t].publisher = q
             /\ holds'[t].worker_boot = registrations'[q].worker_boot
             /\ thread'[t] \in {"serving", "waiting", "matched"}
  <2>1. CASE q = p
    BY <1>1, <1>2, <1>6, <2>1
  <2>2. CASE q # p
    BY <1>1, <1>3, <1>4, <1>6, <2>2 DEF HoldInv
  <2> QED BY <2>1, <2>2
<1> QED BY <1>5, <1>6 DEF HoldInv

LEMMA HoldStep ==
  ServerInv /\ OnePublisherEach /\ HoldInv /\ [Next]_vars => HoldInv'
<1> SUFFICES ASSUME ServerInv, OnePublisherEach, HoldInv, [Next]_vars PROVE HoldInv'
  OBVIOUS
<1>0. thread \in [Sessions -> ThreadStates]
  BY DEF ServerInv, ServerTypeOK
<1>1. CASE UNCHANGED <<authorityVars, holds, owner, thread>>
  BY <1>1, HoldQuietly
<1>2. ASSUME NEW s \in Sessions, NEW state, Goto(s, state),
             UNCHANGED <<authorityVars, holds, owner>>,
             \/ thread[s] \notin {"serving", "waiting", "matched"}
             \/ state \in {"serving", "waiting", "matched"}
             \/ ~StillHeld(s)
      PROVE  HoldInv'
  <2>1. \A t \in Sessions : t # s => thread'[t] = thread[t]
    BY <1>0, <1>2 DEF Goto
  <2>2. thread'[s] = state
    BY <1>0, <1>2 DEF Goto
  <2>3. \A t \in Sessions :
           \/ thread'[t] = thread[t]
           \/ thread[t] \notin {"serving", "waiting", "matched"}
           \/ thread'[t] \in {"serving", "waiting", "matched"}
           \/ ~StillHeld(t)
    BY <1>2, <2>1, <2>2
  <2> QED BY <1>2, <2>3, HoldQuietly
<1>3. ASSUME NEW s \in Sessions,
             \/ Accept(s) \/ Admit(s) \/ Wait(s) \/ Receive(s)
             \/ Unlist(s) \/ Release(s)
      PROVE  HoldInv'
  <2>1. CASE Accept(s)
    BY <1>2, <2>1 DEF Accept
  <2>2. CASE Admit(s)
    <3>1. PICK state \in {"serving", "gone"} : Goto(s, state)
      BY <2>2 DEF Admit
    <3> QED BY <1>2, <2>2, <3>1 DEF Admit
  <2>3. CASE Wait(s) \/ Receive(s)
    BY <1>2, <2>3 DEF Wait, Receive
  <2>4. CASE Unlist(s) \/ Release(s)
    BY <1>2, <2>4 DEF Unlist, Release
  <2> QED BY <1>3, <2>1, <2>2, <2>3, <2>4
<1>4. ASSUME NEW s \in Sessions, EndLoop(s)
      PROVE  HoldInv'
  <2>1. CASE StillHeld(s)
    BY <1>2, <1>4, <2>1 DEF EndLoop
  <2>2. CASE ~StillHeld(s)
    BY <1>2, <1>4, <2>2 DEF EndLoop
  <2> QED BY <2>1, <2>2
<1>5. ASSUME NEW s \in Sessions, FenceOnClose(s)
      PROVE  HoldInv'
  <2>1. holds[s] \in Holdings
    BY <1>5 DEF FenceOnClose, ServerInv, ServerTypeOK, MatchedHolds
  <2>2. PICK p \in Publishers : p = holds[s].publisher
    BY <2>1 DEF Holdings
  <2>3. \A t \in Sessions : thread'[t] = thread[t] \/ t = s
    BY <1>0, <1>5 DEF FenceOnClose, Goto
  <2> QED BY <1>5, <2>2, <2>3, HoldFence DEF FenceOnClose
<1>6. CASE AuthorityActs
  <2>1. ASSUME NEW p \in Publishers, FencePublisher(p, TRUE),
               owner' = [owner EXCEPT ![p] = None]
        PROVE  HoldInv'
    BY <1>6, <2>1, HoldFence DEF AuthorityActs
  <2>2. CASE /\ UNCHANGED owner
             /\ AuthorityOpen \/ \E p \in Publishers : ClearAdministrativeFence(p)
    <3>1. UNCHANGED <<registrations, holds, owner, thread>>
      BY <1>6, <2>2 DEF AuthorityActs, AuthorityOpen, ClearAdministrativeFence
    <3> QED BY <3>1 DEF HoldInv, Registered
  <2> QED BY <1>6, <2>1, <2>2 DEF AuthorityActs
<1>7. CASE StopBegins \/ StopStep \/ Start \/ AcceptorEnds
  BY <1>1, <1>7 DEF StopBegins, StopStep, StopJoins, StopSignals, StopWaits,
     StopChecks, StopReadsHandle, Start, AcceptorEnds
<1>8. CASE UNCHANGED vars
  BY <1>1, <1>8 DEF vars, serverVars
<1> QED
  BY <1>3, <1>4, <1>5, <1>6, <1>7, <1>8, HoldRegister
     DEF Next, SessionStep, EndWhenStopping, EndWhenWoken, EndOnInput

(* However a session ends - the client closes, the protocol is broken, Stop  *)
(* wakes it - and whoever registers or fences in between, the registration   *)
(* it made does not outlive it: it was fenced, or replaced by another        *)
(* session's.  For clients that register one publisher each.                 *)
THEOREM EndedSessionsHoldNothing ==
  ASSUME OnePublisherEach
  PROVE  Spec => []EndedSessionHoldsNothing
<1>1. Init => HoldInv
  BY DEF Init, AuthorityInit, HoldInv, Registered
<1>2. ServerInv /\ HoldInv => EndedSessionHoldsNothing
  BY DEF ServerInv, ServerTypeOK, HoldInv, EndedSessionHoldsNothing, Registered
<1>3. ServerInv /\ HoldInv /\ [Next]_vars => HoldInv'
  BY HoldStep
<1> QED BY <1>1, <1>2, <1>3, ServerAlways, PTL DEF Spec

-----------------------------------------------------------------------------
(* What Stop leaves behind.                                                  *)

\* A stopped server serves no session: what may remain of one is the tail of
\* its thread, after it has left the table.
StoppedServesNobody == stop = "stopped" => CountedSessions = {}

(* When Stop returns, no session is being served, and none is admitted until *)
(* the next Start: what StoppedMeansNoThread asks for, but for the threads   *)
(* that are already uncounted and have not returned.                         *)
THEOREM StopEndsEverySession == Spec => []StoppedServesNobody
<1>1. Init => CountInv /\ StoppedServesNobody
  <2>1. Init => CountedSessions = {}
    BY DEF Init, CountedSessions, Counted
  <2> QED BY <2>1, FS_EmptySet DEF Init, CountInv, StoppedServesNobody
<1>2. ServerInv /\ CountInv /\ StoppedServesNobody /\ [Next]_vars
        => StoppedServesNobody'
  <2> SUFFICES ASSUME ServerInv, CountInv, StoppedServesNobody, [Next]_vars,
                      stop' = "stopped"
               PROVE  CountedSessions' = {}
    BY DEF StoppedServesNobody
  <2>1. CASE StopChecks
    <3>1. active_sessions = 0 /\ thread' = thread
      BY <2>1 DEF StopChecks
    <3>2. CountedSessions = {}
      BY <3>1, FS_EmptySet DEF CountInv
    <3> QED BY <3>1, <3>2 DEF CountedSessions, Counted
  <2>2. CASE ~StopChecks
    <3>1. stop = "stopped"
      BY <2>2 DEF Next, vars, serverVars, SessionStep, Accept, Admit, Wait, Receive,
         EndWhenStopping, EndWhenWoken, EndOnInput, EndLoop, FenceOnClose, Unlist,
         Release, Woken, HandleRegister, Start, AcceptorEnds, StopBegins, StopStep,
         StopJoins, StopSignals, StopWaits, StopReadsHandle, AuthorityActs
    <3>2. CountedSessions = {}
      BY <3>1 DEF StoppedServesNobody
    <3>3. Stopping
      BY <3>1 DEF Stopping, StopStates
    <3> QED BY <3>2, <3>3, CountEffect
  <2> QED BY <2>1, <2>2
<1> QED BY <1>1, <1>2, CountStep, ServerAlways, PTL DEF Spec
=============================================================================
