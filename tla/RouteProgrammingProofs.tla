----------------------- MODULE RouteProgrammingProofs -----------------------
(***************************************************************************)
(* Theorems about the runtime together with its programming calls: it        *)
(* implements RouteRuntime, a proven record says what its call asked for, and *)
(* a backend that drops overtaken requests holds what proven records say.     *)
(***************************************************************************)
EXTENDS RouteProgramming, RouteTableProofs

-----------------------------------------------------------------------------
(* The inductive invariant of the calls, with lapses or without.             *)

\* The call of attempt a makes its request before it has a verdict, and the
\* request is for the route, operation and programming generation of the attempt.
CallOK(a) ==
  /\ call[a] # "none" => a \in Started
  /\ call[a] \in {"calling", "deferred", "answered"} => request[a] # None
  /\ call[a] = "answered" => verdict[a] # None
  /\ verdict[a] # None => call[a] \in {"answered", "over"} /\ request[a] # None
  /\ request[a] # None =>
       /\ a \in Started
       /\ request[a].route = attempts[a].route
       /\ request[a].operation = attempts[a].operation
       /\ request[a].programming_generation = attempts[a].programming_generation

AttemptsHaveRoutes == \A a \in Started : attempts[a].route \in Present

CallInv ==
  /\ call \in [AttemptIds -> CallStates]
  /\ request \in [AttemptIds -> RequestRecords \cup {None}]
  /\ verdict \in [AttemptIds -> Outcomes \cup {None}]
  /\ table \in [Keys -> Entries \cup {None}]
  /\ AttemptsHaveRoutes
  /\ \A a \in AttemptIds : CallOK(a)

(* Every step of a call is a step of the runtime or leaves it alone.         *)
LEMMA CallStepsAreSteps ==
  ASSUME CallInv, [ProgrammingNext]_allVars
  PROVE  [Next]_vars
<1>1. ASSUME NEW a \in AttemptIds, Finish(a)
      PROVE  Complete
  <2>1. verdict[a] \in Outcomes /\ ApplyCompletion(a, verdict[a])
    BY <1>1 DEF CallInv, CallOK, Finish
  <2> QED BY <2>1 DEF Complete
<1>2. ASSUME NEW a \in AttemptIds,
             ReadRecord(a) \/ TurnAway(a) \/ Defer(a)
               \/ \E outcome \in Outcomes : CarryOut(a, outcome)
      PROVE  UNCHANGED vars
  BY <1>2 DEF ReadRecord, TurnAway, Defer, CarryOut
<1> QED BY <1>1, <1>2 DEF ProgrammingNext, CallStep, CrashCalls, Next, allVars

(* Attempts keep what they were started with, and their routes stay.         *)
LEMMA AttemptsPersist ==
  ASSUME TypeInv, AttemptsHaveRoutes, [Next]_vars
  PROVE  /\ AttemptsHaveRoutes'
         /\ \A a \in Started :
              /\ a \in Started'
              /\ attempts'[a].route = attempts[a].route
              /\ attempts'[a].operation = attempts[a].operation
              /\ attempts'[a].desired_generation = attempts[a].desired_generation
              /\ attempts'[a].programming_generation = attempts[a].programming_generation
<1> DEFINE Persist ==
      \A a \in Started :
        /\ a \in Started'
        /\ attempts'[a].route = attempts[a].route
        /\ attempts'[a].operation = attempts[a].operation
        /\ attempts'[a].desired_generation = attempts[a].desired_generation
        /\ attempts'[a].programming_generation = attempts[a].programming_generation
<1>1. CASE Complete
  <2>1. PICK a \in AttemptIds, outcome \in Outcomes : CompletionEffect(a, outcome)
    BY <1>1, CompleteEffect
  <2>2. a \in Started /\ attempts' = [attempts EXCEPT ![a].resolved = TRUE]
    BY <2>1 DEF CompletionEffect, Unresolved
  <2>3. Started' = Started /\ Persist
    BY <2>2, ResolvedAttempt DEF Started
  <2>4. \A s \in Present : s \in Present'
    BY <2>1 DEF CompletionEffect, Present
  <2> QED BY <2>3, <2>4 DEF AttemptsHaveRoutes
<1>2. CASE Handle \/ Crash
  <2>1. SlotEffect /\ GoodTable(routes')
    BY <1>2, StepEffect DEF Effect
  <2>2. \A s \in Present : s \in Present'
    BY <2>1 DEF GoodTable, Present
  <2>3. CASE attempts' = attempts
    BY <2>2, <2>3 DEF AttemptsHaveRoutes, Started
  <2>4. ASSUME NEW a \in AttemptIds, TakesSlot(a)
        PROVE  AttemptsHaveRoutes' /\ Persist
    <3>1. /\ a \notin Started /\ attempts'[a] \in AttemptRecords
          /\ attempts'[a].route \in Present'
          /\ \A b \in AttemptIds \ {a} : attempts'[b] = attempts[b]
      BY <2>4 DEF TakesSlot, Started, Present, AttemptRecords
    <3>2. Persist
      BY <3>1 DEF Started
    <3>3. \A b \in Started' : b = a \/ (b \in Started /\ attempts'[b] = attempts[b])
      BY <3>1 DEF Started
    <3> QED BY <2>2, <3>1, <3>2, <3>3 DEF AttemptsHaveRoutes
  <2>5. CASE Open
    BY <2>2, <2>5, OpenForm DEF OpenStep, AttemptsHaveRoutes
  <2>6. CASE Crash
    BY <2>2, <2>6 DEF Crash, AttemptsHaveRoutes, Started
  <2> QED BY <2>1, <2>3, <2>4, <2>5, <2>6 DEF SlotEffect
<1>3. CASE UNCHANGED vars
  BY <1>3 DEF vars, AttemptsHaveRoutes, Started, Present
<1> QED BY <1>1, <1>2, <1>3 DEF Next

LEMMA CallsInitially == ProgrammingInit => CallInv
<1> SUFFICES ASSUME ProgrammingInit PROVE CallInv
  OBVIOUS
<1>1. Started = {}
  BY DEF ProgrammingInit, Init, Started
<1>2. \A a \in AttemptIds : CallOK(a)
  BY DEF ProgrammingInit, CallOK
<1> QED BY <1>1, <1>2 DEF ProgrammingInit, CallInv, CallStates, AttemptsHaveRoutes

(* The request a call makes is one.                                          *)
LEMMA RequestType ==
  ASSUME TypeInv, NEW a \in Started, attempts[a].route \in Present
  PROVE  LET req == MakeRequest(routes[attempts[a].route], attempts[a]) IN
         /\ req \in RequestRecords
         /\ req # None
<1>1. attempts[a] \in AttemptRecords /\ routes[attempts[a].route] \in RouteRecords
  BY StartedRecord, PresentRecord
<1>2. MakeRequest(routes[attempts[a].route], attempts[a]) \in RequestRecords
  BY <1>1 DEF MakeRequest, RequestRecords, AttemptRecords, RouteRecords
<1> QED BY <1>2, RequestAssumption

(* What the backend holds after a request is a table again.                  *)
LEMMA EffectsType ==
  ASSUME CallInv, NEW a \in AttemptIds, request[a] # None, NEW outcome \in Outcomes,
         NEW held \in Effects(a, outcome)
  PROVE  held \in [Keys -> Entries \cup {None}]
<1>1. request[a] \in RequestRecords /\ table \in [Keys -> Entries \cup {None}]
  BY DEF CallInv
<1>2. Programmed(request[a]) \in [Keys -> Entries \cup {None}]
  BY <1>1 DEF Programmed, RequestRecords, Entries
<1>3. held \in {table, Programmed(request[a])}
  <2>1. CASE BackendOrders /\ Overtaken(a)
    BY <2>1 DEF Effects
  <2>2. CASE ~(BackendOrders /\ Overtaken(a))
    BY <2>2 DEF Effects, Positive
  <2> QED BY <2>1, <2>2
<1> QED BY <1>1, <1>2, <1>3

(* A step of the call of attempt a touches no other call.                    *)
LEMMA CallStepKeeps ==
  ASSUME TypeInv, CallInv, NEW a \in AttemptIds, CallStep(a) \/ Defer(a)
  PROVE  /\ call' \in [AttemptIds -> CallStates]
         /\ request' \in [AttemptIds -> RequestRecords \cup {None}]
         /\ verdict' \in [AttemptIds -> Outcomes \cup {None}]
         /\ table' \in [Keys -> Entries \cup {None}]
         /\ \A b \in AttemptIds \ {a} : /\ call'[b] = call[b]
                                        /\ request'[b] = request[b]
                                        /\ verdict'[b] = verdict[b]
         /\ CallOK(a)'
<1>0. /\ call \in [AttemptIds -> CallStates]
      /\ request \in [AttemptIds -> RequestRecords \cup {None}]
      /\ verdict \in [AttemptIds -> Outcomes \cup {None}]
      /\ table \in [Keys -> Entries \cup {None}]
      /\ AttemptsHaveRoutes
      /\ CallOK(a)
  BY DEF CallInv
<1>1. CASE ReadRecord(a)
  <2> DEFINE req == MakeRequest(routes[attempts[a].route], attempts[a])
  <2>1. /\ call[a] = "committed"
        /\ request' = [request EXCEPT ![a] = req]
        /\ call' = [call EXCEPT ![a] = "calling"]
        /\ UNCHANGED <<vars, verdict, table>>
    BY <1>1 DEF ReadRecord
  <2>2. a \in Started /\ verdict[a] = None
    BY <1>0, <2>1 DEF CallOK
  <2>3. req \in RequestRecords /\ req # None
    BY <1>0, <2>2, RequestType DEF AttemptsHaveRoutes
  <2>4. /\ req.route = attempts[a].route
        /\ req.operation = attempts[a].operation
        /\ req.programming_generation = attempts[a].programming_generation
    BY DEF MakeRequest
  <2> HIDE DEF req
  <2>5. Started' = Started /\ attempts' = attempts
    BY <2>1 DEF vars, Started
  <2>6. CallOK(a)'
    BY <1>0, <2>1, <2>2, <2>3, <2>4, <2>5 DEF CallOK
  <2> QED BY <1>0, <2>1, <2>3, <2>6 DEF CallStates
<1>2. ASSUME NEW outcome \in Outcomes, CarryOut(a, outcome)
      PROVE  /\ call' \in [AttemptIds -> CallStates]
             /\ request' = request
             /\ verdict' \in [AttemptIds -> Outcomes \cup {None}]
             /\ table' \in [Keys -> Entries \cup {None}]
             /\ \A b \in AttemptIds \ {a} : /\ call'[b] = call[b]
                                            /\ verdict'[b] = verdict[b]
             /\ CallOK(a)'
  <2>1. /\ call[a] \in {"calling", "deferred"}
        /\ verdict' = [verdict EXCEPT ![a] = outcome]
        /\ table' \in Effects(a, outcome)
        /\ call' = [call EXCEPT ![a] = "answered"]
        /\ UNCHANGED <<vars, request>>
    BY <1>2 DEF CarryOut
  <2>2. a \in Started /\ request[a] # None
    BY <1>0, <2>1 DEF CallOK
  <2>3. table' \in [Keys -> Entries \cup {None}]
    BY <2>1, <2>2, EffectsType
  <2>4. outcome # None
    BY RuntimeAssumption, RequestAssumption
  <2>5. Started' = Started /\ attempts' = attempts
    BY <2>1 DEF vars, Started
  <2>6. CallOK(a)'
    BY <1>0, <2>1, <2>2, <2>4, <2>5 DEF CallOK
  <2> QED BY <1>0, <2>1, <2>3, <2>6 DEF CallStates
<1>3. a \in Started => /\ a \in Started'
                       /\ attempts'[a].route = attempts[a].route
                       /\ attempts'[a].operation = attempts[a].operation
                       /\ attempts'[a].programming_generation =
                            attempts[a].programming_generation
  BY <1>0, CallStepsAreSteps, AttemptsPersist DEF ProgrammingNext
<1>4. CASE Finish(a) \/ TurnAway(a)
  <2>1. /\ call[a] = "answered" /\ call' = [call EXCEPT ![a] = "over"]
        /\ UNCHANGED <<request, verdict, table>>
    BY <1>4 DEF Finish, TurnAway
  <2>2. /\ call' \in [AttemptIds -> CallStates]
        /\ \A b \in AttemptIds \ {a} : call'[b] = call[b]
        /\ CallOK(a)'
    BY <1>0, <1>3, <2>1 DEF CallOK, CallStates
  <2> QED BY <1>0, <2>1, <2>2
<1>5. CASE Defer(a)
  <2>1. /\ call[a] = "calling" /\ call' = [call EXCEPT ![a] = "deferred"]
        /\ UNCHANGED <<request, verdict, table>>
    BY <1>5 DEF Defer
  <2>2. /\ call' \in [AttemptIds -> CallStates]
        /\ \A b \in AttemptIds \ {a} : call'[b] = call[b]
        /\ CallOK(a)'
    BY <1>0, <1>3, <2>1 DEF CallOK, CallStates
  <2> QED BY <1>0, <2>1, <2>2
<1> QED BY <1>0, <1>1, <1>2, <1>4, <1>5 DEF CallStep

LEMMA CallsStep ==
  TypeInv /\ CallInv /\ [ProgrammingNext]_allVars => CallInv'
<1> SUFFICES ASSUME TypeInv, CallInv, [ProgrammingNext]_allVars PROVE CallInv'
  OBVIOUS
<1>0. /\ call \in [AttemptIds -> CallStates]
      /\ request \in [AttemptIds -> RequestRecords \cup {None}]
      /\ verdict \in [AttemptIds -> Outcomes \cup {None}]
      /\ table \in [Keys -> Entries \cup {None}]
      /\ AttemptsHaveRoutes
      /\ \A a \in AttemptIds : CallOK(a)
  BY DEF CallInv
<1>1. /\ AttemptsHaveRoutes'
      /\ \A a \in Started :
           /\ a \in Started'
           /\ attempts'[a].route = attempts[a].route
           /\ attempts'[a].operation = attempts[a].operation
           /\ attempts'[a].programming_generation = attempts[a].programming_generation
  BY <1>0, CallStepsAreSteps, AttemptsPersist
<1>2. ASSUME NEW b \in AttemptIds, request'[b] = request[b], verdict'[b] = verdict[b],
             \/ call'[b] = call[b]
             \/ call[b] = "none" /\ call'[b] = "committed" /\ b \in Started'
             \/ call[b] \in {"committed", "answered"} /\ call'[b] = "over"
             \/ call[b] = "calling" /\ call'[b] \in {"over", "deferred"}
      PROVE  CallOK(b)'
  BY <1>0, <1>1, <1>2 DEF CallOK
<1>3. CASE Handle /\ CallsFollow
  <2>1. ASSUME NEW b \in AttemptIds
        PROVE  \/ call'[b] = call[b]
               \/ call[b] = "none" /\ call'[b] = "committed" /\ b \in Started'
    BY <1>0, <1>3 DEF CallsFollow, CallOK, Started
  <2>2. call' \in [AttemptIds -> CallStates]
    BY <1>0, <1>3 DEF CallsFollow, CallStates
  <2>3. UNCHANGED <<request, verdict, table>>
    BY <1>3 DEF CallsFollow
  <2> QED BY <1>0, <1>1, <1>2, <2>1, <2>2, <2>3 DEF CallInv
<1>4. CASE CrashCalls
  <2>1. call' \in [AttemptIds -> CallStates] /\ UNCHANGED <<request, verdict, table>>
    BY <1>4 DEF CrashCalls
  <2>2. ASSUME NEW b \in AttemptIds
        PROVE  \/ call'[b] = call[b]
               \/ call[b] \in {"committed", "answered"} /\ call'[b] = "over"
               \/ call[b] = "calling" /\ call'[b] \in {"over", "deferred"}
    BY <1>4 DEF CrashCalls
  <2> QED BY <1>0, <1>1, <1>2, <2>1, <2>2 DEF CallInv
<1>5. ASSUME NEW a \in AttemptIds, CallStep(a) \/ Defer(a)
      PROVE  CallInv'
  <2>1. /\ call' \in [AttemptIds -> CallStates]
        /\ request' \in [AttemptIds -> RequestRecords \cup {None}]
        /\ verdict' \in [AttemptIds -> Outcomes \cup {None}]
        /\ table' \in [Keys -> Entries \cup {None}]
        /\ \A b \in AttemptIds \ {a} : /\ call'[b] = call[b]
                                       /\ request'[b] = request[b]
                                       /\ verdict'[b] = verdict[b]
        /\ CallOK(a)'
    BY <1>5, CallStepKeeps
  <2>2. \A b \in AttemptIds \ {a} : CallOK(b)'
    BY <1>2, <2>1
  <2> QED BY <1>1, <2>1, <2>2 DEF CallInv
<1>6. CASE UNCHANGED allVars
  BY <1>0, <1>1, <1>2, <1>6 DEF allVars, programmingVars, CallInv
<1> QED BY <1>3, <1>4, <1>5, <1>6 DEF ProgrammingNext

(* The runtime with its programming calls implements the runtime alone: what *)
(* run_dispatch does between its two critical sections, and every outcome it  *)
(* brings back, is a step RouteRuntime allows.  With it every theorem about  *)
(* Spec holds of ProgrammingSpec.                                            *)
THEOREM ProgrammingImplementsRuntime == ProgrammingSpec => ImplementsRuntime
<1>1. TypeInv /\ CallInv /\ [ProgrammingNext]_allVars => TypeInv' /\ CallInv'
  BY CallsStep, CallStepsAreSteps, TypesStep
<1>2. ProgrammingInit => Init /\ TypeInv /\ CallInv
  BY CallsInitially, TypesInitially DEF ProgrammingInit
<1>3. CallInv /\ [ProgrammingNext]_allVars => [Next]_vars
  BY CallStepsAreSteps
<1> QED BY <1>1, <1>2, <1>3, PTL DEF ProgrammingSpec, ImplementsRuntime, Spec

LEMMA CallsAlways == ProgrammingSpec => [](TypeInv /\ CallInv)
<1>1. TypeInv /\ CallInv /\ [ProgrammingNext]_allVars => TypeInv' /\ CallInv'
  BY CallsStep, CallStepsAreSteps, TypesStep
<1>2. ProgrammingInit => TypeInv /\ CallInv
  BY CallsInitially, TypesInitially DEF ProgrammingInit
<1> QED BY <1>1, <1>2, PTL DEF ProgrammingSpec

(* Types, and an outcome is brought back only of a call that was made.       *)
THEOREM ProgrammingTypes == ProgrammingSpec => []ProgrammingTypeOK
<1>1. TypeInv /\ CallInv => ProgrammingTypeOK
  BY DEF TypeInv, CallInv, CallOK, ProgrammingTypeOK
<1> QED BY <1>1, CallsAlways, PTL

-----------------------------------------------------------------------------
(* What a proven record says was asked for.                                  *)

\* The request of attempt a is for the key of its route and for a generation the
\* route has had since the attempt started; at its generation it has its binding.
RequestIsPast(a) ==
  LET req == request[a]
      rec == routes[req.route]
  IN /\ req.key = rec.key
     /\ attempts[a].desired_generation <= req.desired_generation
     /\ req.desired_generation <= rec.generation
     /\ req.desired_generation = rec.generation => req.binding = rec.binding

RequestsArePast == \A a \in AttemptIds : request[a] # None => RequestIsPast(a)

\* The attempt of a proven record was carried out.
ProvenWereCarriedOut ==
  \A r \in Present : routes[r].lifecycle \in {"Installed", "Withdrawn"} =>
    LET a == routes[r].applied.attempt
    IN request[a] # None /\ verdict[a] \in Positive

RequestInv ==
  /\ TableInv
  /\ OutcomesAreProven
  /\ CallInv
  /\ RequestsArePast
  /\ ProvenWereCarriedOut

(* A request stays behind the record it was read from.                       *)
LEMMA RequestsStep ==
  ASSUME RequestInv, [ProgrammingNext]_allVars, [~Lapse]_vars
  PROVE  RequestsArePast'
<1>0. TypeInv /\ TableInv /\ CallInv /\ RequestsArePast /\ [Next]_vars /\ AttemptsArePast
  BY CallStepsAreSteps DEF RequestInv, TableInv, AttemptInv
<1>1. TypeInv'
  BY <1>0, TypesStep
<1> SUFFICES ASSUME NEW a \in AttemptIds, request'[a] # None
             PROVE  RequestIsPast(a)'
  BY DEF RequestsArePast
<1>2. ASSUME request'[a] = request[a]
      PROVE  RequestIsPast(a)'
  <2> DEFINE req == request[a]
             r == req.route
  <2>1. /\ a \in Started /\ r = attempts[a].route /\ r \in Present
        /\ attempts'[a].desired_generation = attempts[a].desired_generation
        /\ req \in RequestRecords
    BY <1>0, <1>2, AttemptsPersist DEF CallInv, CallOK, AttemptsHaveRoutes
  <2>2. /\ req.key = routes[r].key
        /\ attempts[a].desired_generation <= req.desired_generation
        /\ req.desired_generation <= routes[r].generation
        /\ req.desired_generation = routes[r].generation => req.binding = routes[r].binding
    BY <1>0, <1>2 DEF RequestsArePast, RequestIsPast
  <2>3. /\ r \in Present'
        /\ routes'[r].key = routes[r].key
        /\ routes'[r].generation >= routes[r].generation
        /\ routes'[r].binding # routes[r].binding =>
             routes'[r].generation > routes[r].generation
    BY <1>0, <2>1, RouteForward
  <2>4. routes'[r] \in RouteRecords
    BY <1>1, <2>3 DEF TypeInv, TypeOK, Present
  <2>5. /\ req.desired_generation \in Nat
        /\ routes[r].generation \in Nat /\ routes'[r].generation \in Nat
    BY <1>0, <2>1, <2>4, PresentRecord, RecordNumbers, RuntimeAssumption
       DEF RequestRecords, Generations
  <2> HIDE DEF req, r
  <2>6. /\ req.desired_generation <= routes'[r].generation
        /\ req.desired_generation = routes'[r].generation => req.binding = routes'[r].binding
    BY <2>2, <2>3, <2>5
  <2>7. request'[a] = req
    BY <1>2 DEF req
  <2>8. r = req.route
    BY DEF r
  <2> QED BY <2>1, <2>2, <2>3, <2>6, <2>7, <2>8 DEF RequestIsPast
<1>3. CASE ReadRecord(a)
  <2> DEFINE rec == routes[attempts[a].route]
             req == MakeRequest(rec, attempts[a])
  <2>1. /\ call[a] = "committed" /\ request' = [request EXCEPT ![a] = req]
        /\ attempts' = attempts /\ routes' = routes
    BY <1>3 DEF ReadRecord, vars
  <2>2. a \in Started /\ attempts[a].desired_generation <= rec.generation
    BY <1>0, <2>1 DEF CallInv, CallOK, AttemptsArePast, AttemptIsPast
  <2>3. rec.generation \in Nat
    BY <1>0, <2>2, PresentRecord, RecordNumbers DEF AttemptsArePast, AttemptIsPast
  <2>4. request'[a] = req
    BY <1>0, <2>1 DEF CallInv
  <2>5. /\ req.route = attempts[a].route /\ req.key = rec.key /\ req.binding = rec.binding
        /\ req.desired_generation = rec.generation
    BY DEF MakeRequest
  <2> HIDE DEF req
  <2> QED BY <2>1, <2>2, <2>3, <2>4, <2>5 DEF RequestIsPast
<1>4. request'[a] = request[a] \/ ReadRecord(a)
  BY <1>0 DEF ProgrammingNext, CallStep, CallsFollow, CrashCalls, ReadRecord, CarryOut,
              Finish, TurnAway, Defer, allVars, programmingVars, CallInv
<1> QED BY <1>2, <1>3, <1>4

(* Only the outcome of its call proves a record.                             *)
LEMMA CarriedOutStep ==
  ASSUME RequestInv, [ProgrammingNext]_allVars
  PROVE  ProvenWereCarriedOut'
<1>0. TypeInv /\ CallInv /\ ProvenWereCarriedOut
  BY DEF RequestInv, TableInv
<1> SUFFICES ASSUME NEW r \in Present', routes'[r].lifecycle \in {"Installed", "Withdrawn"}
             PROVE  LET a == routes'[r].applied.attempt
                    IN request'[a] # None /\ verdict'[a] \in Positive
  BY DEF ProvenWereCarriedOut
<1> DEFINE b == routes'[r].applied.attempt
<1>1. ASSUME r \in Present, routes[r].lifecycle = routes'[r].lifecycle,
             routes[r].applied = routes'[r].applied
      PROVE  b \in AttemptIds /\ request[b] # None /\ verdict[b] \in Positive
  <2>1. routes[r].applied.attempt \in AttemptIds
    BY <1>0, <1>1, PresentRecord DEF RouteRecords, AppliedStates
  <2> QED BY <1>0, <1>1, <2>1 DEF ProvenWereCarriedOut
<1>2. CASE (Handle /\ CallsFollow) \/ CrashCalls
  <2>1. KeepsOutcome(routes[r], routes'[r])
    BY <1>0, <1>2, StepEffect DEF CrashCalls, Effect, GoodTable, Present
  <2>2. UNCHANGED <<request, verdict>>
    BY <1>2 DEF CallsFollow, CrashCalls
  <2> QED BY <1>1, <2>1, <2>2 DEF KeepsOutcome, Present
<1>3. ASSUME NEW a \in AttemptIds, Finish(a)
      PROVE  request'[b] # None /\ verdict'[b] \in Positive
  <2>1. /\ verdict[a] \in Outcomes /\ ApplyCompletion(a, verdict[a])
        /\ request[a] # None /\ UNCHANGED <<request, verdict>>
    BY <1>0, <1>3 DEF CallInv, CallOK, Finish
  <2>2. CompletionEffect(a, verdict[a])
    BY <1>0, <2>1, ApplyEffect
  <2>3. \/ routes'[r] = routes[r]
        \/ b = a /\ verdict[a] \in {"Applied", "Idempotent"}
    BY <2>2 DEF CompletionEffect, Present
  <2> QED BY <1>1, <2>1, <2>3 DEF Present, Positive
<1>4. ASSUME NEW a \in AttemptIds, ReadRecord(a)
      PROVE  request'[b] # None /\ verdict'[b] \in Positive
  <2>1. /\ routes' = routes /\ verdict' = verdict /\ call[a] = "committed"
        /\ \A c \in AttemptIds \ {a} : request'[c] = request[c]
    BY <1>0, <1>4 DEF ReadRecord, vars, CallInv
  <2>2. b \in AttemptIds /\ request[b] # None /\ verdict[b] \in Positive
    BY <1>1, <2>1 DEF Present
  <2>3. b # a
    BY <1>0, <2>1, <2>2, RequestAssumption DEF CallInv, CallOK, Positive, ProgrammingOutcomes
  <2> QED BY <2>1, <2>2, <2>3
<1>5. ASSUME NEW a \in AttemptIds, NEW outcome \in Outcomes, CarryOut(a, outcome)
      PROVE  request'[b] # None /\ verdict'[b] \in Positive
  <2>1. /\ routes' = routes /\ request' = request /\ call[a] \in {"calling", "deferred"}
        /\ \A c \in AttemptIds \ {a} : verdict'[c] = verdict[c]
    BY <1>0, <1>5 DEF CarryOut, vars, CallInv
  <2>2. b \in AttemptIds /\ request[b] # None /\ verdict[b] \in Positive
    BY <1>1, <2>1 DEF Present
  <2>3. b # a
    BY <1>0, <2>1, <2>2, RequestAssumption DEF CallInv, CallOK, Positive, ProgrammingOutcomes
  <2> QED BY <2>1, <2>2, <2>3
<1>6. ASSUME UNCHANGED <<vars, request, verdict>>
      PROVE  request'[b] # None /\ verdict'[b] \in Positive
  BY <1>1, <1>6 DEF vars, Present
<1>7. ASSUME NEW a \in AttemptIds, TurnAway(a) \/ Defer(a)
      PROVE  UNCHANGED <<vars, request, verdict>>
  BY <1>7 DEF TurnAway, Defer
<1> HIDE DEF b
<1>8. request'[b] # None /\ verdict'[b] \in Positive
  BY <1>2, <1>3, <1>4, <1>5, <1>6, <1>7
     DEF ProgrammingNext, CallStep, allVars, programmingVars, b
<1> QED BY <1>8 DEF b

LEMMA RequestAlways == ProgrammingSpec /\ Lapseless => []RequestInv
<1>1. ASSUME ProgrammingInit PROVE RequestInv
  <2>1. Init /\ Present = {} /\ \A a \in AttemptIds : request[a] = None
    BY <1>1 DEF ProgrammingInit, Init, Present
  <2>2. OutcomesAreProven /\ RequestsArePast /\ ProvenWereCarriedOut
    BY <2>1 DEF OutcomesAreProven, RequestsArePast, ProvenWereCarriedOut
  <2> QED BY <1>1, <2>1, <2>2, TableInitially, CallsInitially DEF RequestInv
<1>2. ASSUME RequestInv, [ProgrammingNext]_allVars, [~Lapse]_vars PROVE RequestInv'
  <2>1. /\ TypeInv /\ TableInv /\ OutcomesAreProven /\ CallInv /\ [Next]_vars
    BY <1>2, CallStepsAreSteps DEF RequestInv, TableInv
  <2>2. TableInv' /\ OutcomesAreProven' /\ CallInv'
    BY <1>2, <2>1, TableStep, OutcomesStep, CallsStep
  <2> QED BY <1>2, <2>2, RequestsStep, CarriedOutStep DEF RequestInv
<1> QED BY <1>1, <1>2, PTL DEF ProgrammingSpec, Lapseless

\* What a proven record owes to the request of its attempt a.
WasRequested(r, a) ==
  /\ a \in AttemptIds /\ SettledBy(a, r, {"Install", "Replace", "Withdraw"})
  /\ routes[r].lifecycle = "Withdrawn" <=> attempts[a].operation = "Withdraw"
  /\ verdict[a] \in Positive
  /\ request[a] # None /\ request[a] \in RequestRecords
  /\ request[a].route = r /\ request[a].key = routes[r].key
  /\ request[a].binding = routes[r].binding
  /\ request[a].operation = attempts[a].operation
  /\ request[a].desired_generation = routes[r].generation

LEMMA ProvenWasRequested ==
  ASSUME RequestInv, NEW r \in RouteIds, Proven(r)
  PROVE  WasRequested(r, routes[r].applied.attempt)
<1> DEFINE a == routes[r].applied.attempt
<1>0. /\ TypeInv /\ OutcomesAreProven /\ CallInv /\ RequestsArePast
      /\ ProvenWereCarriedOut
  BY DEF RequestInv, TableInv
<1>1. r \in Present /\ routes[r].lifecycle \in {"Installed", "Withdrawn"}
  BY DEF Proven
<1>2. /\ SettledBy(a, r, {"Install", "Replace", "Withdraw"})
      /\ routes[r].lifecycle = "Withdrawn" <=> attempts[a].operation = "Withdraw"
  BY <1>0, <1>1 DEF OutcomesAreProven, SettledBy
<1>3. /\ a \in Started /\ attempts[a].route = r
      /\ attempts[a].desired_generation = routes[r].generation
  BY <1>2 DEF SettledBy
<1>4. a \in AttemptIds /\ request[a] # None /\ verdict[a] \in Positive
  BY <1>0, <1>1, <1>3 DEF ProvenWereCarriedOut, Started
<1>5. /\ request[a].route = r /\ request[a].operation = attempts[a].operation
      /\ request[a] \in RequestRecords
  BY <1>0, <1>3, <1>4 DEF CallInv, CallOK
<1>6. RequestIsPast(a)
  BY <1>0, <1>4 DEF RequestsArePast
<1>7. request[a].desired_generation \in Nat /\ routes[r].generation \in Nat
  BY <1>0, <1>1, <1>5, PresentRecord, RecordNumbers, RuntimeAssumption
     DEF RequestRecords, Generations
<1> HIDE DEF a
<1>8. request[a].desired_generation = routes[r].generation
  BY <1>3, <1>5, <1>6, <1>7 DEF RequestIsPast
<1>9. request[a].key = routes[r].key /\ request[a].binding = routes[r].binding
  BY <1>5, <1>6, <1>8 DEF RequestIsPast
<1> QED BY <1>2, <1>4, <1>5, <1>8, <1>9 DEF WasRequested, a

(* run_dispatch reads the record after the section that made the attempt, and *)
(* may read a later generation; an outcome that proves a record all the same *)
(* answers a request for exactly its key, binding and generation.            *)
THEOREM OutcomesWereRequested ==
  ProgrammingSpec /\ Lapseless => []OutcomeWasRequested
<1>1. ASSUME RequestInv PROVE OutcomeWasRequested
  BY <1>1, ProvenWasRequested DEF WasRequested, OutcomeWasRequested
<1> QED BY <1>1, RequestAlways, PTL

-----------------------------------------------------------------------------
(* What the backend holds.                                                   *)

\* No other lineage has, or had, the key of route r.
HasKeyAlone(r) == \A s \in Present : routes[s].key = routes[r].key => s = r

\* What the backend holds for the key of request req once it carried req out.
Entry(req) ==
  IF req.operation = "Withdraw" THEN None
  ELSE [route |-> req.route, binding |-> req.binding]

\* The latest request carried out for a route is in force, unless its key went to
\* another lineage.
LatestIsInForce ==
  \A a \in AttemptIds :
    /\ verdict[a] \in Positive
    /\ ~Overtaken(a)
    /\ HasKeyAlone(request[a].route)
    => table[request[a].key] = Entry(request[a])

(* Of two requests for a route that were both carried out one is the later.  *)
LEMMA RequestsDiffer ==
  ASSUME RequestInv, NEW a \in AttemptIds, NEW b \in AttemptIds, a # b,
         request[a] # None, request[b] # None, request[a].route = request[b].route
  PROVE  \/ request[a].programming_generation > request[b].programming_generation
         \/ request[b].programming_generation > request[a].programming_generation
<1>1. /\ a \in Started /\ b \in Started
      /\ attempts[a].route = attempts[b].route
      /\ request[a].programming_generation = attempts[a].programming_generation
      /\ request[b].programming_generation = attempts[b].programming_generation
      /\ AttemptsDiffer /\ TypeInv
  BY DEF RequestInv, CallInv, CallOK, TableInv, AttemptInv
<1>2. attempts[a].programming_generation # attempts[b].programming_generation
  BY <1>1 DEF AttemptsDiffer
<1>3. /\ attempts[a].programming_generation \in Nat
      /\ attempts[b].programming_generation \in Nat
  BY <1>1, StartedRecord
<1> QED BY <1>1, <1>2, <1>3

(* The backend carries a request out: what is then the latest is in force.   *)
LEMMA CarryOutKeepsForce ==
  ASSUME BackendOrders, RequestInv, LatestIsInForce, NEW a \in AttemptIds,
         NEW outcome \in Outcomes, CarryOut(a, outcome)
  PROVE  LatestIsInForce'
<1>0. /\ CallInv /\ call[a] \in {"calling", "deferred"}
      /\ verdict' = [verdict EXCEPT ![a] = outcome]
      /\ table' \in Effects(a, outcome)
      /\ request' = request /\ routes' = routes
  BY DEF RequestInv, CarryOut, vars
<1>1. /\ verdict'[a] = outcome
      /\ \A b \in AttemptIds \ {a} : verdict'[b] = verdict[b]
      /\ verdict[a] = None /\ outcome # None
      /\ request[a] \in RequestRecords /\ request[a] # None
      /\ table \in [Keys -> Entries \cup {None}]
  BY <1>0, RuntimeAssumption, RequestAssumption DEF CallInv, CallOK
<1>2. \A b \in AttemptIds : Overtaken(b) => Overtaken(b)'
  BY <1>0, <1>1 DEF Overtaken
<1>3. \A r : HasKeyAlone(r)' => HasKeyAlone(r)
  BY <1>0 DEF HasKeyAlone, Present
<1> SUFFICES ASSUME NEW b \in AttemptIds, verdict'[b] \in Positive, ~Overtaken(b)',
                    HasKeyAlone(request[b].route)
             PROVE  table'[request[b].key] = Entry(request[b])
  BY <1>0, <1>3 DEF LatestIsInForce, Entry
<1>4. ~Overtaken(b)
  BY <1>2
<1>5. CASE b = a
  <2>1. table' = Programmed(request[a])
    BY <1>0, <1>1, <1>4, <1>5 DEF Effects, Positive
  <2>2. request[a].key \in Keys
    BY <1>1 DEF RequestRecords
  <2> QED BY <1>1, <1>5, <2>1, <2>2 DEF Programmed, Entry
<1>6. CASE b # a
  <2>1. verdict[b] \in Positive /\ verdict[b] # None
    BY <1>1, <1>6, RequestAssumption DEF Positive, ProgrammingOutcomes
  <2>2. table[request[b].key] = Entry(request[b])
    BY <1>4, <2>1 DEF LatestIsInForce
  <2>3. CASE table' = table
    BY <2>2, <2>3
  <2>4. CASE table' # table
    <3>1. ~Overtaken(a) /\ table' = Programmed(request[a])
      <4>1. CASE Overtaken(a)
        BY <1>0, <2>4, <4>1 DEF Effects
      <4>2. CASE ~Overtaken(a)
        BY <1>0, <2>4, <4>2 DEF Effects
      <4> QED BY <4>1, <4>2
    <3>2. request[b] # None /\ request[b] \in RequestRecords
      BY <1>0, <2>1 DEF CallInv, CallOK
    <3>3. request[a].route # request[b].route
      <4>1. ~(request[b].programming_generation > request[a].programming_generation)
            \/ request[a].route # request[b].route
        BY <1>6, <2>1, <3>1 DEF Overtaken
      <4>2. ~(request[a].programming_generation > request[b].programming_generation)
            \/ request[a].route # request[b].route
        BY <1>0, <1>1, <1>6 DEF Overtaken
      <4> QED BY <1>1, <1>6, <3>2, <4>1, <4>2, RequestsDiffer
    <3>4. /\ request[a].route \in Present /\ request[b].route \in Present
          /\ request[a].key = routes[request[a].route].key
          /\ request[b].key = routes[request[b].route].key
      BY <1>0, <1>1, <3>2 DEF RequestInv, RequestsArePast, RequestIsPast, CallInv, CallOK,
                              AttemptsHaveRoutes
    <3>5. request[a].key # request[b].key
      BY <3>3, <3>4 DEF HasKeyAlone
    <3>6. request[a].key \in Keys /\ request[b].key \in Keys
      BY <1>1, <3>2 DEF RequestRecords
    <3> QED BY <1>1, <2>2, <3>1, <3>5, <3>6 DEF Programmed
  <2> QED BY <2>3, <2>4
<1> QED BY <1>5, <1>6

LEMMA ForceStep ==
  ASSUME BackendOrders, RequestInv, LatestIsInForce,
         [ProgrammingNext]_allVars, [~Lapse]_vars
  PROVE  LatestIsInForce'
<1>0. TableInv /\ CallInv /\ [Next]_vars
  BY CallStepsAreSteps DEF RequestInv
<1>1. ASSUME NEW a \in AttemptIds, ReadRecord(a)
      PROVE  /\ UNCHANGED <<verdict, table, routes>> /\ verdict[a] = None
             /\ \A b \in AttemptIds \ {a} : request'[b] = request[b]
  BY <1>0, <1>1 DEF ReadRecord, vars, CallInv, CallOK
<1>2. CASE \E a \in AttemptIds, outcome \in Outcomes : CarryOut(a, outcome)
  BY <1>2, CarryOutKeepsForce
<1>3. ASSUME UNCHANGED <<verdict, table>>,
             \A b \in AttemptIds : verdict[b] # None => request'[b] = request[b]
      PROVE  LatestIsInForce'
  <2> SUFFICES ASSUME NEW b \in AttemptIds, verdict[b] \in Positive, ~Overtaken(b)',
                      HasKeyAlone(request[b].route)'
               PROVE  table[request'[b].key] = Entry(request[b])'
    BY <1>3 DEF LatestIsInForce
  <2>1. verdict[b] # None
    BY RequestAssumption DEF Positive, ProgrammingOutcomes
  <2>2. request'[b] = request[b] /\ request[b] # None /\ request[b].route \in Present
    BY <1>0, <1>3, <2>1 DEF CallInv, CallOK, AttemptsHaveRoutes
  <2>3. ~Overtaken(b)
    BY <1>3, <2>2 DEF Overtaken
  <2>4. HasKeyAlone(request[b].route)
    <3>1. ASSUME NEW s \in Present, routes[s].key = routes[request[b].route].key
          PROVE  s = request[b].route
      <4>1. s \in Present' /\ routes'[s].key = routes[s].key
            /\ routes'[request[b].route].key = routes[request[b].route].key
        BY <1>0, <2>2, RouteForward
      <4> QED BY <2>2, <3>1, <4>1 DEF HasKeyAlone
    <3> QED BY <3>1 DEF HasKeyAlone
  <2>5. table[request[b].key] = Entry(request[b])
    BY <2>3, <2>4 DEF LatestIsInForce
  <2> QED BY <2>2, <2>5 DEF Entry
<1>4. CASE \E a \in AttemptIds : ReadRecord(a)
  BY <1>1, <1>3, <1>4
<1>5. CASE UNCHANGED <<request, verdict, table>>
  BY <1>3, <1>5
<1> QED BY <1>2, <1>4, <1>5
        DEF ProgrammingNext, CallStep, CallsFollow, CrashCalls, Finish, TurnAway, Defer,
            allVars, programmingVars

\* BackendAgrees of the routes whose key no other lineage ever had.
AloneAgrees ==
  \A r \in RouteIds : Proven(r) /\ HasKeyAlone(r) =>
    table[routes[r].key] =
      IF routes[r].lifecycle = "Withdrawn" THEN None
      ELSE [route |-> r, binding |-> routes[r].binding]

LEMMA ForceAgrees ==
  ASSUME RequestInv, LatestIsInForce
  PROVE  AloneAgrees
<1> SUFFICES ASSUME NEW r \in RouteIds, Proven(r), HasKeyAlone(r)
             PROVE  table[routes[r].key] =
                      IF routes[r].lifecycle = "Withdrawn" THEN None
                      ELSE [route |-> r, binding |-> routes[r].binding]
  BY DEF AloneAgrees
<1>0. TypeInv /\ AttemptsArePast /\ CallInv
  BY DEF RequestInv, TableInv, AttemptInv
<1> DEFINE a == routes[r].applied.attempt
<1>1. WasRequested(r, a)
  BY ProvenWasRequested
<1>2. /\ a \in Started /\ a \in AttemptIds /\ attempts[a].route = r
      /\ attempts[a].programming_generation = routes[r].programming_generation
      /\ request[a].route = r /\ request[a] # None /\ verdict[a] \in Positive
      /\ request[a].key = routes[r].key /\ request[a].binding = routes[r].binding
      /\ request[a].operation = "Withdraw" <=> routes[r].lifecycle = "Withdrawn"
  BY <1>1 DEF WasRequested, SettledBy
<1>3. r \in Present /\ routes[r].programming_generation \in Nat
  BY <1>0, PresentRecord, RecordNumbers DEF Proven
<1> HIDE DEF a
<1>4. ~Overtaken(a)
  <2> SUFFICES ASSUME NEW b \in AttemptIds, verdict[b] # None,
                      request[b].route = request[a].route
               PROVE  ~(request[b].programming_generation > request[a].programming_generation)
    BY DEF Overtaken
  <2>1. /\ b \in Started /\ attempts[b].route = r
        /\ request[b].programming_generation = attempts[b].programming_generation
        /\ request[a].programming_generation = attempts[a].programming_generation
    BY <1>0, <1>2 DEF CallInv, CallOK
  <2>2. attempts[b].programming_generation <= routes[r].programming_generation
    BY <1>0, <2>1 DEF AttemptsArePast, AttemptIsPast
  <2>3. attempts[b].programming_generation \in Nat
    BY <1>0, <2>1, StartedRecord
  <2> QED BY <1>2, <1>3, <2>1, <2>2, <2>3
<1>5. table[request[a].key] = Entry(request[a])
  BY <1>2, <1>4 DEF LatestIsInForce
<1> QED BY <1>2, <1>5 DEF Entry

(* A backend that drops the requests it was overtaken on holds exactly what  *)
(* an INSTALLED or WITHDRAWN record says, for every route whose key has had  *)
(* one lineage, whatever order the calls of concurrent handlers reach it in.  *)
THEOREM BackendAgreesAlone ==
  ASSUME BackendOrders
  PROVE  ProgrammingSpec /\ Lapseless => []AloneAgrees
<1>1. ASSUME ProgrammingInit PROVE LatestIsInForce
  BY <1>1, RequestAssumption DEF ProgrammingInit, LatestIsInForce, Positive,
                                 ProgrammingOutcomes
<1>2. /\ RequestInv /\ LatestIsInForce
      /\ [ProgrammingNext]_allVars /\ [~Lapse]_vars
      => LatestIsInForce'
  BY ForceStep
<1>3. RequestInv /\ LatestIsInForce => AloneAgrees
  BY ForceAgrees
<1> QED BY <1>1, <1>2, <1>3, RequestAlways, PTL DEF ProgrammingSpec, Lapseless

(* When every lineage has the identity derived from its key, no takeover is  *)
(* possible and the backend agrees with every proven record.                 *)
THEOREM BackendAlwaysAgrees ==
  ASSUME BackendOrders,
         \A r \in RouteIds : \E k \in Keys : r = DerivedId[k]
  PROVE  ProgrammingSpec /\ Lapseless => []BackendAgrees
<1>1. ASSUME RequestInv, AloneAgrees PROVE BackendAgrees
  <2>1. IdentitiesKeepKeys
    BY <1>1 DEF RequestInv, TableInv, IndexInv
  <2>2. \A r \in Present : HasKeyAlone(r)
    BY <2>1 DEF HasKeyAlone, IdentitiesKeepKeys, Present
  <2> QED BY <1>1, <2>2 DEF AloneAgrees, BackendAgrees, Proven
<1> QED BY <1>1, BackendAgreesAlone, RequestAlways, PTL

(* What is proved of RouteRuntime for any completion holds of the completions  *)
(* run_dispatch and deferring backends really make, whatever the backend and    *)
(* the lapses: installed records are proven, invalidations final, CURRENT routes *)
(* authorized and the outstanding count exact.                                  *)
THEOREM RuntimeGuaranteesCarryOver ==
  ProgrammingSpec => [](/\ OutcomesAreProven /\ InvalidationIsFinal
                        /\ CurrentIsAuthorized /\ OutstandingIsExact)
<1>1. ProgrammingSpec => Spec
  BY ProgrammingImplementsRuntime DEF ImplementsRuntime
<1> QED BY <1>1, InstallationsAreProven, InvalidationsAreFinal, CurrentRoutesAreAuthorized,
           OutstandingAlwaysExact, PTL
=============================================================================
