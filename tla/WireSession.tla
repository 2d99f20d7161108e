----------------------------- MODULE WireSession -----------------------------
(***************************************************************************)
(* One client (src/client.cpp) and its session with the coordinator: the     *)
(* calls of the client, the two byte streams of the connection, and the      *)
(* frame loop and request handlers of src/server.cpp.  What a handler does   *)
(* in the runtime is in RouteRuntime; here a request is executed or not, and *)
(* the runtime answers Ok, NotFound or with another status.                  *)
(*                                                                          *)
(* The transport is TCP: frames arrive in order and once, or not at all.     *)
(***************************************************************************)
EXTENDS Naturals, Sequences, Functions, WireCodec

CONSTANTS
  Ops,         \* the client methods that are called
  Raws,        \* frames sent with SendFrame and SendRawBytes
  Leftovers,   \* payload sizes, in frame headers, of answers over max_frame_bytes
  MaxCalls,    \* bound: calls of the client
  MaxEpoch     \* bound: coordinator epochs

VARIABLES
  connected,   \* Impl::socket of the client is a handle
  context,     \* context_: epoch (0: none), publisher and boot set, attempt set
  backend,     \* Impl::backend is known
  calls,       \* calls made so far
  pending,     \* the method that waits for its answer, or Idle
  session,     \* the session of the connection: none, pending, serving, closed
  requests,    \* frames sent and not yet handled
  abandoned,   \* such frames of connections the client has closed and replaced
  answers,     \* frames, or garbage, the client has not read
  accepting,   \* the accept thread of the server runs
  epoch,       \* epoch of the coordinator
  executed,    \* how often the runtime executed each call
  returned     \* what the last call returned, and whose answer it was given

vars == <<connected, context, backend, calls, pending, session, requests,
          abandoned, answers, accepting, epoch, executed, returned>>

Idle == "Idle"

-----------------------------------------------------------------------------
(* The methods of the client *)

\* request and answer: the MessageIds; checks: what is refused locally when it
\* is missing; sets: fields the method fills in; args: the fields each argument
\* of the caller fills in.
Method(request, answer, checks, sets, args) ==
  [request |-> request, answer |-> answer, checks |-> checks, sets |-> sets, args |-> args]

Mutation(request, answer, args) ==
  Method(request, answer, {"context", "attempt"}, {}, args)

Handshake ==
  [Hello             |-> Method("Hello", "HelloResult", {}, {"wire_version"}, {{"client_name"}}),
   RegisterPublisher |-> Mutation("RegisterPublisher", "RegisterPublisherResult",
                           {{"scope_fabric"}, {"namespaces", "scope_namespace"},
                            {"destinations", "scope_destination"},
                            {"route_classes", "scope_class"}})]

Mutations ==
  [PublishRoute      |-> Mutation("PublishRoute", "PublishRouteResult",
                           {Names(Key), Names(Binding), {"policy_generation"},
                            {"expected_generation"}, {"lineage"}, {"reason"}}),
   WithdrawRoute     |-> Mutation("WithdrawRoute", "WithdrawRouteResult",
                           {{"route"}, {"expected_generation"}, {"reason"}}),
   RevalidateRoute   |-> Mutation("RevalidateRoute", "RevalidateRouteResult",
                           {{"route"}, {"reason"}}),
   RetireRoute       |-> Mutation("RetireRoute", "RetireRouteResult", {{"route"}, {"reason"}}),
   RevokeRoute       |-> Mutation("RevokeRoute", "RevokeRouteResult", {{"route"}, {"reason"}})]

Queries ==
  [QueryRouteByKey   |-> Method("QueryRoute", "QueryRouteResult", {}, {"by_key"}, {Names(Key)}),
   QueryRouteById    |-> Method("QueryRoute", "QueryRouteResult", {}, {}, {{"route"}}),
   Snapshot          |-> Method("SnapshotRequest", "SnapshotResponse", {"context"}, {}, {}),
   ExplainRouteByKey |-> Method("ExplainRoute", "ExplainRouteResult", {}, {"by_key"}, {Names(Key)}),
   ExplainRouteById  |-> Method("ExplainRoute", "ExplainRouteResult", {}, {}, {{"route"}}),
   Statistics        |-> Method("StatisticsRequest", "StatisticsResult", {}, {}, {}),
   Epoch             |-> Method("EpochRequest", "EpochResult", {}, {}, {})]

Operations ==
  [ReconcileAll      |-> Method("ReconcileRequest", "ReconcileResult", {"context"}, {"all"}, {}),
   ReconcileRoute    |-> Method("ReconcileRequest", "ReconcileResult", {"context"}, {}, {{"route"}}),
   ApplyCompletion   |-> Method("ApplyCompletion", "ApplyCompletionResult", {"context"}, {},
                           {{"completed_attempt"}, {"completion_detail"}}),
   BackendState      |-> Method("BackendState", "BackendState", {"backend"}, {}, {}),
   BackendStateFor   |-> Method("BackendState", "BackendState", {"backend"},
                           {"evidence_included"}, {Names(Key)})]

Methods ==
  [op \in DOMAIN Handshake \cup DOMAIN Mutations \cup DOMAIN Queries \cup DOMAIN Operations |->
     CASE op \in DOMAIN Handshake  -> Handshake[op]
       [] op \in DOMAIN Mutations  -> Mutations[op]
       [] op \in DOMAIN Queries    -> Queries[op]
       [] op \in DOMAIN Operations -> Operations[op]]

\* validate_context and the tests after it.
Usable(op) ==
  /\ "context" \in Methods[op].checks => context.identity /\ context.epoch > 0
  /\ "attempt" \in Methods[op].checks => context.attempt
  /\ "backend" \in Methods[op].checks => backend

\* The fields context() and the handshake fill in.
FromContext ==
  (IF context.epoch > 0 THEN {"epoch"} ELSE {})
  \cup (IF context.identity THEN {"publisher", "worker_boot"} ELSE {})
  \cup (IF context.attempt THEN {"attempt"} ELSE {})
  \cup (IF backend THEN {"backend"} ELSE {})

\* The requests a method may build: all arguments ordinary values, or one of
\* them a default-constructed value, or one of them too long.
Requests(op) ==
  LET method  == Methods[op]
      payload == Payload(method.request)
      unset   == DefaultZero(payload) \ (FromContext \cup method.sets \cup UNION method.args)
      bounded == {f.name : f \in {g \in payload : g.by \in {"text", "count"}}}
  IN  {Message(unset, {})}
      \cup {Message(unset \cup (a \cap DefaultZero(payload)), {}) : a \in method.args}
      \cup {Message(unset, a \cap bounded) : a \in method.args}

Frame(id, kind, m) == [id |-> id, kind |-> kind, m |-> m, of |-> calls + 1]

ASSUME WireAssumption ==
  /\ Ops \subseteq DOMAIN Methods /\ {Idle, "Raw"} \cap Ops = {}
  /\ MaxCalls \in Nat /\ MaxEpoch \in Nat \ {0} /\ Leftovers \subseteq Nat

-----------------------------------------------------------------------------
(* The client *)

\* What a call returns: its outcome, and the call whose answer it was given.
Return(n, outcome, of) == returned' = [call |-> n, outcome |-> outcome, of |-> of]

\* Mutated form of Connect: the frames that were not answered are sent again.
ConnectRetrying ==
  /\ ~connected
  /\ connected' = TRUE
  /\ session' = "pending"
  /\ abandoned' = abandoned \cup Range(requests)
  /\ answers' = <<>>
  /\ UNCHANGED <<context, backend, calls, pending, requests, accepting, epoch,
                 executed, returned>>

\* A session of an earlier connection may still hold frames of this client.
Connect ==
  /\ ~connected
  /\ connected' = TRUE
  /\ session' = "pending"
  /\ abandoned' = abandoned \cup Range(requests)
  /\ requests' = <<>> /\ answers' = <<>>
  /\ UNCHANGED <<context, backend, calls, pending, accepting, epoch, executed,
                 returned>>

\* Close: the frames already sent are still read by the server.
Close ==
  /\ connected /\ pending = Idle
  /\ connected' = FALSE
  /\ answers' = <<>>
  /\ UNCHANGED <<context, backend, calls, pending, session, requests, epoch,
                 executed, returned, accepting, abandoned>>

\* The application sets the identities of the context.
SetIdentity ==
  /\ ~context.identity
  /\ context' = [context EXCEPT !.identity = TRUE]
  /\ UNCHANGED <<connected, backend, calls, pending, session, requests, answers,
                 epoch, executed, returned, accepting, abandoned>>

NextAttempt ==
  /\ ~context.attempt
  /\ context' = [context EXCEPT !.attempt = TRUE]
  /\ UNCHANGED <<connected, backend, calls, pending, session, requests, answers,
                 epoch, executed, returned, accepting, abandoned>>

\* A method is refused locally, or not connected.
RefuseLocally(op) ==
  /\ pending = Idle /\ calls < MaxCalls
  /\ ~Usable(op) \/ ~connected
  /\ calls' = calls + 1
  /\ Return(calls', "local", 0)
  /\ UNCHANGED <<connected, context, backend, pending, session, requests,
                 answers, epoch, executed, accepting, abandoned>>

\* A payload that may exceed max_frame_bytes of the client.
TooLarge(frame) == frame.kind = "oversized" \/ frame.m.long # {}

\* SendFrame: a payload over the bound is refused; after the server has closed,
\* the send fails or goes nowhere.
Send(frame, op) ==
  /\ pending = Idle /\ calls < MaxCalls /\ connected
  /\ calls' = calls + 1
  /\ \/ /\ session # "closed"
        /\ requests' = Append(requests, frame)
        /\ pending' = op
        /\ UNCHANGED returned
     \/ /\ session = "closed"
        /\ pending' = op
        /\ UNCHANGED <<requests, returned>>
     \/ /\ session = "closed"
        /\ Return(calls', "disconnected", 0)
        /\ UNCHANGED <<requests, pending>>
     \/ /\ TooLarge(frame)
        /\ Return(calls', "local", 0)
        /\ UNCHANGED <<requests, pending>>
  /\ UNCHANGED <<connected, context, backend, session, abandoned, answers, accepting,
                 epoch, executed>>

Call(op) ==
  /\ Usable(op)
  /\ \E m \in Requests(op) : Send(Frame(Methods[op].request, "good", m), op)

\* SendFrame and SendRawBytes: a frame whose header is refused, that is longer
\* than the bound of the server, whose checksum is wrong, or whose id is no
\* request; ReceiveFrame follows.
CallRaw(kind) ==
  LET id == IF kind = "unexpected" THEN "HelloResult" ELSE "Hello"
  IN  Send(Frame(id, kind, Message({}, {})), "Raw")

\* The answer the pending method waits for.
Expected == IF pending = "Raw" THEN "Error" ELSE Methods[pending].answer

\* expect_frame and what the method makes of the answer.
Outcome(answer) ==
  CASE answer.id = "Error" -> answer.status
    [] answer.id # "Error" /\ answer.id # Expected -> "protocol_violation"
    [] answer.id = Expected /\ ~Decodes(answer.id, answer.m) -> "protocol_violation"
    [] OTHER -> answer.status

\* Mutated form of Unread: the frame is only looked at.
UnreadPeeked == answers

\* recv_exact takes the frame out of the stream.
Unread == Tail(answers)

Learns(op, answer) ==
  op \in {"Hello", "RegisterPublisher"} /\ Outcome(answer) = "Ok"

\* ReceiveFrame reads a complete frame and the method returns.
Receive ==
  /\ pending # Idle /\ answers # <<>>
  /\ LET answer == Head(answers)
     IN  /\ answer.leftover = 0
         /\ answers' = Unread
         /\ Return(calls, Outcome(answer), answer.of)
         /\ context' = IF Learns(pending, answer)
                       THEN [context EXCEPT !.epoch = answer.epoch] ELSE context
         /\ backend' = (backend \/ (pending = "Hello" /\ Outcome(answer) = "Ok"))
  /\ pending' = Idle
  /\ UNCHANGED <<connected, calls, session, requests, epoch, executed, accepting,
                 abandoned>>

\* ReceiveFrame reads a header that it refuses: of an answer longer than
\* max_frame_bytes, whose payload stays in the stream, or in such a payload.
ReceiveUnusable ==
  /\ pending # Idle /\ answers # <<>> /\ Head(answers).leftover > 0
  /\ answers' = IF Head(answers).id = "garbage" /\ Head(answers).leftover = 1
                THEN Tail(answers)
                ELSE <<[Head(answers) EXCEPT
                         !.id = "garbage",
                         !.leftover = IF Head(answers).id = "garbage" THEN @ - 1 ELSE @]>>
                     \o Tail(answers)
  /\ Return(calls, "protocol_violation", 0)
  /\ pending' = Idle
  /\ UNCHANGED <<connected, context, backend, calls, session, requests, epoch,
                 executed, accepting, abandoned>>

\* The server has closed the connection and there is nothing to read.
ReceiveClosed ==
  /\ pending # Idle /\ answers = <<>> /\ session = "closed"
  /\ Return(calls, "disconnected", 0)
  /\ pending' = Idle
  /\ UNCHANGED <<connected, context, backend, calls, session, requests, answers,
                 epoch, executed, accepting, abandoned>>

-----------------------------------------------------------------------------
(* The session on the server *)

\* accept_loop: admitted, or closed because max_sessions are active.
Accept ==
  /\ accepting /\ session = "pending"
  /\ session' \in {"serving", "closed"}
  /\ requests' = IF session' = "closed" THEN <<>> ELSE requests
  /\ UNCHANGED <<connected, context, backend, calls, pending, answers, epoch,
                 executed, returned, accepting, abandoned>>

\* accept fails and accept_loop ends; the listener stays open until Stop.
AcceptorEnds ==
  /\ accepting
  /\ accepting' = FALSE
  /\ UNCHANGED <<connected, context, backend, calls, pending, session, requests,
                 answers, epoch, executed, returned, abandoned>>

\* The session ends at any time: Stop signals the waiter or closes the listener,
\* or the receive fails.  What was not handled is lost.
DropSession ==
  /\ session \in {"pending", "serving"}
  /\ session' = "closed"
  /\ requests' = <<>>
  /\ UNCHANGED <<connected, context, backend, calls, pending, answers, epoch,
                 executed, returned, accepting, abandoned>>

\* The client has closed and all its frames are read.
EndSession ==
  /\ session = "serving" /\ ~connected /\ requests = <<>>
  /\ session' = "closed"
  /\ UNCHANGED <<connected, context, backend, calls, pending, requests, answers,
                 epoch, executed, returned, accepting, abandoned>>

\* Closing a socket with unread bytes resets the connection: the client loses
\* what it has not read.
Reset ==
  /\ session = "closed" /\ answers # <<>>
  /\ answers' = <<>>
  /\ UNCHANGED <<connected, context, backend, calls, pending, session, requests,
                 epoch, executed, returned, accepting, abandoned>>

Answer(id, status, m, request, leftover) ==
  [id |-> id, status |-> status, m |-> m, of |-> request.of, epoch |-> epoch,
   leftover |-> leftover]

\* Mutated form of Sent: the answer is encoded and not sent.
SentNever(answer) == answers

\* send_payload; nobody reads it once the client has closed.
Sent(answer) == IF connected THEN Append(answers, answer) ELSE answers

\* The frame leaves the buffer before it is handled.
Handled == Tail(requests)

\* The frame is executed by the runtime.
Legal(request) ==
  /\ request.kind = "good"
  /\ Decodes(request.id, request.m)

\* The status of the error frame, in the order of the tests.
Fault(request) ==
  CASE request.kind = "oversized" -> "limit_exceeded"
    [] request.kind = "corrupt"   -> "integrity_failure"
    [] OTHER                      -> "protocol_violation"

\* send_error, and the session ends.
Reject ==
  /\ session = "serving" /\ requests # <<>>
  /\ ~Legal(Head(requests))
  /\ answers' = Sent(Answer("Error", Fault(Head(requests)), Message({}, {}), Head(requests), 0))
  /\ session' = "closed"
  /\ requests' = <<>>
  /\ UNCHANGED <<connected, context, backend, calls, pending, epoch, executed,
                 returned, accepting, abandoned>>

\* Mutated form of ResultOf: the handler answers with the id of the request.
ResultOfRequest(id) == id

\* The MessageId of the answer.
ResultOf(id) == (CHOOSE method \in Range(Methods) : method.request = id).answer

\* Requests the handler answers itself; the runtime may refuse the others.
Infallible == {"Hello", "StatisticsRequest", "EpochRequest", "BackendState"}

\* The fields a filled-in result leaves out: backend evidence nobody asked for.
Omitted(request) ==
  IF request.id = "BackendState" /\ "evidence_included" \in request.m.zero
  THEN {"evidence_included"} ELSE {}

\* Queries answer Ok, and that no route was found.
AnswersNotFound(request) == request.id \in {"QueryRoute", "ExplainRoute"}

\* What the handler answers: a filled-in result, or a value-initialised one with
\* the status.
Results(request) ==
  LET default == Message(DefaultZero(Payload(ResultOf(request.id))), {})
  IN  {<<"Ok", Message(Omitted(request), {})>>}
      \cup (IF request.id \in Infallible THEN {} ELSE {<<"refused", default>>})
      \cup (IF AnswersNotFound(request) THEN {<<"not_found", default>>} ELSE {})

\* Answers that grow with the routes can exceed max_frame_bytes of the client.
Sizes(request, status) ==
  {0} \cup (IF request.id = "SnapshotRequest" /\ status = "Ok" THEN Leftovers ELSE {})

Execute ==
  /\ session = "serving" /\ requests # <<>>
  /\ Legal(Head(requests))
  /\ LET request == Head(requests)
     IN  /\ executed' = [executed EXCEPT ![request.of] = @ + 1]
         /\ \E r \in Results(request) : \E size \in Sizes(request, r[1]) :
               answers' = Sent(Answer(ResultOf(request.id), r[1], r[2],
                                      request, size))
  /\ requests' = Handled
  /\ UNCHANGED <<connected, context, backend, calls, pending, session, epoch,
                 returned, accepting, abandoned>>

\* The session of a connection the client has replaced executes a frame; the
\* answer is lost with the socket.
ExecuteAbandoned(request) ==
  /\ Legal(request)
  /\ executed' = [executed EXCEPT ![request.of] = @ + 1]
  /\ abandoned' = abandoned \ {request}
  /\ UNCHANGED <<connected, context, backend, calls, pending, session, requests,
                 answers, epoch, returned, accepting>>

\* Or it rejects the frame, or ends before it, or was never admitted.
LoseAbandoned(request) ==
  /\ abandoned' = abandoned \ {request}
  /\ UNCHANGED <<connected, context, backend, calls, pending, session, requests,
                 answers, epoch, executed, returned, accepting>>

AdvanceEpoch ==
  /\ epoch < MaxEpoch
  /\ epoch' = epoch + 1
  /\ UNCHANGED <<connected, context, backend, calls, pending, session, requests,
                 answers, executed, returned, accepting, abandoned>>

-----------------------------------------------------------------------------
(* Specification *)

Init ==
  /\ connected = FALSE
  /\ context = [epoch |-> 0, identity |-> FALSE, attempt |-> FALSE]
  /\ backend = FALSE
  /\ calls = 0
  /\ pending = Idle
  /\ session = "none"
  /\ requests = <<>> /\ answers = <<>> /\ abandoned = {}
  /\ accepting = TRUE
  /\ epoch = 1
  /\ executed = [n \in 1..MaxCalls |-> 0]
  /\ returned = [call |-> 0, outcome |-> "none", of |-> 0]

ServerStep == Accept \/ EndSession \/ Reject \/ Execute

ClientReturns == Receive \/ ReceiveUnusable \/ ReceiveClosed

Next ==
  \/ Connect \/ Close \/ SetIdentity \/ NextAttempt
  \/ \E op \in Ops : RefuseLocally(op) \/ Call(op)
  \/ \E kind \in Raws : CallRaw(kind)
  \/ ClientReturns
  \/ ServerStep
  \/ AcceptorEnds \/ DropSession \/ Reset \/ AdvanceEpoch
  \/ \E request \in abandoned : ExecuteAbandoned(request) \/ LoseAbandoned(request)

Spec == Init /\ [][Next]_vars

\* The threads of the server, the accept thread as long as it lives, and the
\* thread that waits in ReceiveFrame run.
FairSpec == Spec /\ WF_vars(ServerStep) /\ WF_vars(ClientReturns)

-----------------------------------------------------------------------------
(* Properties *)

Outcomes == {"none", "local", "Ok", "refused", "not_found", "disconnected",
             "protocol_violation", "limit_exceeded", "integrity_failure"}

AnswerIds == {method.answer : method \in Range(Methods)} \cup {"Error", "garbage"}

\* The requests of the methods that call validate_context.
ContextChecked ==
  {method.request : method \in {m \in Range(Methods) : "context" \in m.checks}}

\* Type invariant; the answers on the wire are results, never requests.
WireTypeOK ==
  /\ connected \in BOOLEAN /\ backend \in BOOLEAN /\ accepting \in BOOLEAN
  /\ context \in [epoch : 0..MaxEpoch, identity : BOOLEAN, attempt : BOOLEAN]
  /\ calls \in 0..MaxCalls
  /\ pending \in Ops \cup {"Raw", Idle}
  /\ session \in {"none", "pending", "serving", "closed"}
  /\ \A i \in DOMAIN requests : requests[i].of \in 1..calls
  /\ \A request \in abandoned : request.of \in 1..calls
  /\ \A i \in DOMAIN answers : answers[i].id \in AnswerIds /\ answers[i].of \in 1..calls
  /\ epoch \in 1..MaxEpoch
  /\ executed \in [1..MaxCalls -> Nat]
  /\ returned \in [call : 0..calls, outcome : Outcomes, of : 0..calls]

\* "Every call performs one request/response exchange": the answer a method
\* hands to its caller is the one the server made for that very call, whatever
\* calls were refused, undecodable or cut off before it.
AnswerIsOwn == returned.of # 0 => returned.of = returned.call

\* "The client never retries a mutation on its own": no call is executed twice,
\* one that succeeded was executed, and one refused locally was not.
OneExecution ==
  /\ \A n \in 1..MaxCalls : executed[n] <= 1
  /\ returned.outcome = "Ok" => executed[returned.call] = 1
  /\ returned.outcome = "local" => executed[returned.call] = 0

\* A method that waits for an answer returns, also when the server rejects the
\* request, refuses the connection, stops or resets it, unless its connection is
\* queued at a listener whose accept thread has ended.
CallReturnsIfServed ==
  pending # Idle ~> pending = Idle \/ (session = "pending" /\ ~accepting)

\* "A disconnected peer is an explicit error; the client never waits
\* indefinitely": every method returns.
CallReturns == pending # Idle ~> pending = Idle

\* validate_context "Rejects an unusable authority context locally instead of
\* emitting a frame the peer cannot decode": no request of a method that calls
\* it is undecodable for what its context lacks, whatever order handshake,
\* identity and attempt are set up in.
ContextDecodes ==
  \A i \in DOMAIN requests :
     LET request == requests[i]
     IN  request.kind = "good" /\ request.id \in ContextChecked =>
            \A f \in Payload(request.id) \cap Context : f.name \notin request.m.zero

=============================================================================
