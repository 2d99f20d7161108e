-------------------------- MODULE RouteProgramming --------------------------
(***************************************************************************)
(* The runtime together with the calls it makes to the programming backend   *)
(* (run_dispatch and dispatch of src/runtime.cpp, src/backend.cpp).          *)
(*                                                                          *)
(* RouteRuntime lets an outcome arrive for any attempt at any time.  Here    *)
(* the thread that committed an attempt reads the record again, with the     *)
(* lock taken anew, calls the backend with what it read, unlocked, and       *)
(* brings the outcome back.  Calls of different threads reach the backend in *)
(* any order; the backend carries a request out within the call or, when it  *)
(* defers it, later.                                                         *)
(***************************************************************************)
EXTENDS RouteRuntime

CONSTANT BackendOrders   \* the backend drops requests it was overtaken on

ASSUME BackendAssumption == BackendOrders \in BOOLEAN

VARIABLES
  call,      \* how far the programming call of each attempt is
  request,   \* the RouteProgrammingRequest sent for each attempt, or None
  verdict,   \* the outcome the backend reached for each attempt, or None
  table      \* the routes the backend holds: Keys -> an entry, or None

programmingVars == <<call, request, verdict, table>>

allVars == <<vars, programmingVars>>

\* none; committed (the critical section is over); calling (the record has been
\* read); deferred (the backend has taken the request over); answered; over.
CallStates == {"none", "committed", "calling", "deferred", "answered", "over"}

RequestRecords ==
  [operation              : {"Install", "Replace", "Withdraw"},
   route                  : RouteIds,
   key                    : Keys,
   binding                : Bindings,
   desired_generation     : Generations,
   programming_generation : Generations]

Entries == [route : RouteIds, binding : Bindings]

ASSUME RequestAssumption == None \notin RequestRecords /\ None \notin ProgrammingOutcomes

\* Type invariant; an answered call has a request and a verdict.
ProgrammingTypeOK ==
  /\ TypeOK
  /\ call \in [AttemptIds -> CallStates]
  /\ request \in [AttemptIds -> RequestRecords \cup {None}]
  /\ verdict \in [AttemptIds -> Outcomes \cup {None}]
  /\ table \in [Keys -> Entries \cup {None}]
  /\ \A a \in AttemptIds : call[a] = "answered" => request[a] # None /\ verdict[a] # None

ProgrammingInit ==
  /\ Init
  /\ call = [a \in AttemptIds |-> "none"]
  /\ request = [a \in AttemptIds |-> None]
  /\ verdict = [a \in AttemptIds |-> None]
  /\ table = [k \in Keys |-> None]

-----------------------------------------------------------------------------
(* The runtime *)

\* A handler that started an attempt goes on to run_dispatch.
CallsFollow ==
  /\ call' = [a \in AttemptIds |->
                IF attempts[a] = None /\ attempts'[a] # None THEN "committed" ELSE call[a]]
  /\ UNCHANGED <<request, verdict, table>>

\* Mutated form of MakeRequest: the binding comes from the record as it was when
\* some earlier generation of the route was programmed.
MakeRequestFromCache(rec, at) ==
  [operation              |-> at.operation,
   route                  |-> at.route,
   key                    |-> rec.key,
   binding                |-> CHOOSE binding \in Bindings : TRUE,
   desired_generation     |-> rec.generation,
   programming_generation |-> at.programming_generation]

\* Mutated form of MakeRequest: the programming generation of the record.
MakeRequestOfLatest(rec, at) ==
  [operation              |-> at.operation,
   route                  |-> at.route,
   key                    |-> rec.key,
   binding                |-> rec.binding,
   desired_generation     |-> rec.generation,
   programming_generation |-> rec.programming_generation]

\* make_programming_request: operation and programming generation of the attempt,
\* everything else of the record as it is now.
MakeRequest(rec, at) ==
  [operation              |-> at.operation,
   route                  |-> at.route,
   key                    |-> rec.key,
   binding                |-> rec.binding,
   desired_generation     |-> rec.generation,
   programming_generation |-> at.programming_generation]

\* run_dispatch up to the call: the record is read under the shared lock.
ReadRecord(a) ==
  /\ call[a] = "committed"
  /\ request' = [request EXCEPT ![a] = MakeRequest(routes[attempts[a].route], attempts[a])]
  /\ call' = [call EXCEPT ![a] = "calling"]
  /\ UNCHANGED <<vars, verdict, table>>

\* Mutated form of Defer: the deferred attempt counts as answered for.
DeferResolved(a) ==
  /\ call[a] = "calling"
  /\ call' = [call EXCEPT ![a] = "deferred"]
  /\ attempts' = [attempts EXCEPT ![a].resolved = TRUE]
  /\ UNCHANGED <<authorityVars, path_authority, routes, key_index, revocations,
                 outstanding_programming, request, verdict, table>>

\* Mutated form of Defer: a deferral is taken for an outcome.
DeferAnswered(a) ==
  /\ call[a] = "calling"
  /\ call' = [call EXCEPT ![a] = "answered"]
  /\ UNCHANGED <<vars, request, verdict, table>>

\* The backend defers: run_dispatch returns and the attempt stays unresolved.
Defer(a) ==
  /\ call[a] = "calling"
  /\ call' = [call EXCEPT ![a] = "deferred"]
  /\ UNCHANGED <<vars, request, verdict, table>>

\* The outcome comes back: the second half of run_dispatch, or
\* ApplyProgrammingCompletion.
Finish(a) ==
  /\ call[a] = "answered" /\ opened /\ a \in Unresolved
  /\ ApplyCompletion(a, verdict[a])
  /\ call' = [call EXCEPT ![a] = "over"]
  /\ UNCHANGED <<request, verdict, table>>

\* The outcome of an attempt that recovery has resolved, or that finds no open
\* runtime, is turned away.
TurnAway(a) ==
  /\ call[a] = "answered" /\ (~opened \/ a \notin Unresolved)
  /\ call' = [call EXCEPT ![a] = "over"]
  /\ UNCHANGED <<vars, request, verdict, table>>

\* The process ends: calls not made are never made; of a call under way the
\* backend has all or nothing; an outcome under way is lost.
CrashCalls ==
  /\ Crash
  /\ call' \in [AttemptIds -> CallStates]
  /\ \A a \in AttemptIds :
       call'[a] \in CASE call[a] \in {"committed", "answered"} -> {"over"}
                      [] call[a] = "calling" -> {"over", "deferred"}
                      [] OTHER -> {call[a]}
  /\ UNCHANGED <<request, verdict, table>>

-----------------------------------------------------------------------------
(* The backend *)

\* A later request for the route has been carried out before.
Overtaken(a) ==
  \E b \in AttemptIds \ {a} :
     /\ verdict[b] # None /\ request[b].route = request[a].route
     /\ request[b].programming_generation > request[a].programming_generation

\* What the backend holds after it carried request req out.
Programmed(req) ==
  [table EXCEPT ![req.key] = IF req.operation = "Withdraw" THEN None
                             ELSE [route |-> req.route, binding |-> req.binding]]

Positive == {"Applied", "Idempotent"}

\* "A backend must never fabricate a successful application it did not
\* perform"; what an ambiguous outcome leaves behind is not known.
Effects(a, outcome) ==
  CASE BackendOrders /\ Overtaken(a) -> {table}
    [] ~(BackendOrders /\ Overtaken(a)) /\ outcome \in Positive -> {Programmed(request[a])}
    [] ~(BackendOrders /\ Overtaken(a)) /\ outcome = "Ambiguous" ->
         {table, Programmed(request[a])}
    [] OTHER -> {table}

\* The backend carries a request out, or fails to.
CarryOut(a, outcome) ==
  /\ call[a] \in {"calling", "deferred"}
  /\ verdict' = [verdict EXCEPT ![a] = outcome]
  /\ table' \in Effects(a, outcome)
  /\ call' = [call EXCEPT ![a] = "answered"]
  /\ UNCHANGED <<vars, request>>

-----------------------------------------------------------------------------
(* Specification *)

CallStep(a) ==
  \/ ReadRecord(a)
  \/ \E outcome \in Outcomes : CarryOut(a, outcome)
  \/ Finish(a)
  \/ TurnAway(a)

ProgrammingNext ==
  \/ Handle /\ CallsFollow
  \/ CrashCalls
  \/ \E a \in AttemptIds : CallStep(a) \/ Defer(a)

ProgrammingSpec == ProgrammingInit /\ [][ProgrammingNext]_allVars

\* The thread of a call runs, and the backend ends what it was asked.
ProgrammingFairSpec ==
  ProgrammingSpec /\ \A a \in AttemptIds : WF_allVars(CallStep(a))

-----------------------------------------------------------------------------
(* Properties *)

\* The record of a route in lifecycle states whose outcome a positive attempt
\* proved.
Proven(r) == r \in Present /\ routes[r].lifecycle \in {"Installed", "Withdrawn"}

(* run_dispatch reads the record after the critical section that made the    *)
(* attempt, so the request may carry a later generation than the attempt.    *)
(* Still, what an INSTALLED or WITHDRAWN record says was programmed is what  *)
(* the call of its attempt asked for: binding, key and generation.           *)
OutcomeWasRequested ==
  \A r \in RouteIds : Proven(r) =>
    LET req == request[routes[r].applied.attempt] IN
    /\ req # None
    /\ req.route = r /\ req.key = routes[r].key
    /\ req.binding = routes[r].binding
    /\ req.desired_generation = routes[r].generation

(* Calls of two threads reach the backend in either order, deferred ones are *)
(* carried out later, also after a restart, and the record is read again     *)
(* between commit and call.  What the runtime sends is enough for a backend  *)
(* that drops the requests it was overtaken on (by programming_generation)   *)
(* to hold exactly what an INSTALLED or WITHDRAWN record says, as long as    *)
(* one lineage has the key.                                                  *)
BackendAgrees ==
  \A r \in RouteIds : Proven(r) =>
    table[routes[r].key] =
      IF routes[r].lifecycle = "Withdrawn" THEN None
      ELSE [route |-> r, binding |-> routes[r].binding]

(* The runtime with its calls implements RouteRuntime, where the outcome of  *)
(* any attempt may come at any time: what is checked and proved of           *)
(* RouteRuntime holds of it.                                                 *)
ImplementsRuntime == Spec
=============================================================================
