-------------------------- MODULE WireSessionProofs --------------------------
(***************************************************************************)
(* Theorems about WireSession, for any number of calls, epochs and          *)
(* connections, any subset of the methods and any broken frames.            *)
(***************************************************************************)
EXTENDS WireSession, SequenceTheorems, TLAPS

-----------------------------------------------------------------------------
(* The two streams.                                                          *)

IsStream(s) == \E S : s \in Seq(S)

\* t is s, or s without its head.
Rest(t, s) ==
  /\ IsStream(t)
  /\ \E k \in {0, 1} : \A i \in DOMAIN t : i + k \in DOMAIN s /\ t[i] = s[i + k]

\* t is s and one more frame.
Longer(t, s, frame) ==
  /\ IsStream(t) /\ Len(s) \in Nat /\ Len(t) = Len(s) + 1
  /\ DOMAIN s = 1..Len(s) /\ DOMAIN t = 1..(Len(s) + 1)
  /\ \A i \in DOMAIN s : t[i] = s[i]
  /\ t[Len(s) + 1] = frame

LEMMA StreamBasics ==
  ASSUME NEW s, IsStream(s)
  PROVE  /\ Len(s) \in Nat /\ DOMAIN s = 1..Len(s)
         /\ s # <<>> => Len(s) >= 1 /\ 1 \in DOMAIN s /\ Head(s) = s[1]
         /\ s = <<>> => DOMAIN s = {} /\ Len(s) = 0
<1>1. PICK S : s \in Seq(S)
  BY DEF IsStream
<1> QED BY <1>1

LEMMA StreamRests ==
  ASSUME NEW s, IsStream(s)
  PROVE  /\ Rest(s, s)
         /\ Rest(<<>>, s)
         /\ s # <<>> => Rest(Tail(s), s) /\ Len(Tail(s)) = Len(s) - 1
<1>1. PICK S : s \in Seq(S)
  BY DEF IsStream
<1>2. IsStream(<<>>)
  <2>1. <<>> \in Seq({})
    OBVIOUS
  <2> QED BY <2>1 DEF IsStream
<1>3. Rest(s, s)
  <2>1. \A i \in DOMAIN s : i + 0 \in DOMAIN s /\ s[i] = s[i + 0]
    BY <1>1
  <2> QED BY <2>1 DEF Rest
<1>4. Rest(<<>>, s)
  BY <1>2 DEF Rest
<1>5. ASSUME s # <<>> PROVE Rest(Tail(s), s) /\ Len(Tail(s)) = Len(s) - 1
  <2>1. /\ Tail(s) \in Seq(S) /\ Len(s) \in Nat /\ Len(s) >= 1
        /\ Len(Tail(s)) = Len(s) - 1 /\ DOMAIN Tail(s) = 1..(Len(s) - 1)
        /\ DOMAIN s = 1..Len(s)
        /\ \A i \in 1..(Len(s) - 1) : Tail(s)[i] = s[i + 1]
    BY <1>1, <1>5
  <2>2. IsStream(Tail(s))
    BY <2>1 DEF IsStream
  <2>3. \A i \in DOMAIN Tail(s) : i + 1 \in DOMAIN s /\ Tail(s)[i] = s[i + 1]
    BY <2>1
  <2> QED BY <2>1, <2>2, <2>3 DEF Rest
<1> QED BY <1>3, <1>4, <1>5

LEMMA StreamLonger ==
  ASSUME NEW s, IsStream(s), NEW frame
  PROVE  Longer(Append(s, frame), s, frame)
<1>1. PICK S : s \in Seq(S)
  BY DEF IsStream
<1> DEFINE T == S \cup {frame}
<1>2. s \in Seq(T) /\ frame \in T
  BY <1>1
<1> HIDE DEF T
<1>3. Append(s, frame) \in Seq(T)
  BY <1>2
<1> QED BY <1>2, <1>3, AppendProperties DEF Longer, IsStream

\* t is s with another frame at its head.
Replaced(t, s, frame) ==
  /\ IsStream(t) /\ Len(t) = Len(s) /\ DOMAIN t = DOMAIN s /\ t # <<>> /\ t[1] = frame
  /\ \A i \in DOMAIN s : i # 1 => t[i] = s[i]

LEMMA StreamReplaced ==
  ASSUME NEW s, IsStream(s), s # <<>>, NEW frame
  PROVE  Replaced(<<frame>> \o Tail(s), s, frame)
<1>1. PICK S : s \in Seq(S)
  BY DEF IsStream
<1> DEFINE T == S \cup {frame}
           t == <<frame>> \o Tail(s)
<1>2. s \in Seq(T) /\ frame \in T
  BY <1>1
<1> HIDE DEF T
<1>3. /\ Tail(s) \in Seq(T) /\ Len(s) \in Nat /\ Len(s) >= 1
      /\ Len(Tail(s)) = Len(s) - 1
      /\ \A i \in 1..(Len(s) - 1) : Tail(s)[i] = s[i + 1]
      /\ <<frame>> \in Seq(T) /\ Len(<<frame>>) = 1 /\ <<frame>>[1] = frame
  BY <1>2
<1>4. /\ t \in Seq(T) /\ Len(t) = Len(s)
      /\ \A i \in 1..Len(s) : t[i] = IF i <= 1 THEN <<frame>>[i] ELSE Tail(s)[i - 1]
  BY <1>3, ConcatProperties
<1> HIDE DEF t
<1>5. ASSUME NEW i \in DOMAIN s, i # 1 PROVE t[i] = s[i]
  <2>1. i \in 1..Len(s) /\ i - 1 \in 1..(Len(s) - 1) /\ ~(i <= 1) /\ (i - 1) + 1 = i
    BY <1>2, <1>5
  <2> QED BY <1>3, <1>4, <2>1
<1>6. t[1] = frame
  BY <1>3, <1>4
<1>7. IsStream(t) /\ DOMAIN t = DOMAIN s /\ t # <<>>
  BY <1>2, <1>3, <1>4 DEF IsStream
<1> QED BY <1>4, <1>5, <1>6, <1>7 DEF Replaced, t

-----------------------------------------------------------------------------
(* Type correctness.                                                         *)

\* A well-formed frame is the request of a method.
RequestOK(f) ==
  f.kind = "good" => \E op \in DOMAIN Methods : f.id = Methods[op].request

AnswerOK(a) ==
  /\ a = [id |-> a.id, status |-> a.status, m |-> a.m, of |-> a.of, epoch |-> a.epoch,
          leftover |-> a.leftover]
  /\ a.id \in AnswerIds /\ a.status \in Outcomes \ {"local"}
  /\ a.epoch \in 1..MaxEpoch /\ a.leftover \in Nat

StreamsOK ==
  /\ IsStream(requests) /\ IsStream(answers)
  /\ \A i \in DOMAIN requests : RequestOK(requests[i])
  /\ \A i \in DOMAIN answers : AnswerOK(answers[i])

(* The frame of a call.                                                      *)
LEMMA CallFrame ==
  ASSUME NEW op \in Ops, Call(op)
  PROVE  \E f : f.of = calls + 1 /\ RequestOK(f) /\ Send(f, op)
<1>1. PICK m \in Requests(op) : Send(Frame(Methods[op].request, "good", m), op)
  BY DEF Call
<1> DEFINE f == Frame(Methods[op].request, "good", m)
<1>2. /\ f.id = Methods[op].request /\ f.kind = "good" /\ f.m = m /\ f.of = calls + 1
  BY DEF Frame
<1>3. Send(f, op)
  BY <1>1
<1> HIDE DEF f
<1>4. op \in DOMAIN Methods
  BY WireAssumption
<1>5. RequestOK(f)
  BY <1>2, <1>4 DEF RequestOK
<1> QED BY <1>2, <1>3, <1>5

LEMMA RawFrame ==
  ASSUME NEW kind \in Raws, CallRaw(kind)
  PROVE  \E f : f.of = calls + 1 /\ RequestOK(f) /\ Send(f, "Raw")
<1> DEFINE id == IF kind = "unexpected" THEN "HelloResult" ELSE "Hello"
           f == Frame(id, kind, Message({}, {}))
<1>1. f.id = id /\ f.kind = kind /\ f.m = Message({}, {}) /\ f.of = calls + 1
  BY DEF Frame
<1>2. Send(f, "Raw")
  BY DEF CallRaw
<1> HIDE DEF f
<1>3. "Hello" \in DOMAIN Methods /\ Methods["Hello"].request = "Hello"
  <2>1. "Hello" \in DOMAIN Handshake /\ Handshake["Hello"].request = "Hello"
    BY DEF Handshake, Method
  <2>2. "Hello" \notin DOMAIN Mutations \cup DOMAIN Queries \cup DOMAIN Operations
    BY DEF Mutations, Queries, Operations
  <2> QED BY <2>1, <2>2 DEF Methods
<1>4. RequestOK(f)
  BY <1>1, <1>3 DEF RequestOK
<1> QED BY <1>1, <1>2, <1>4

(* The answers of the session.                                               *)
LEMMA ExecuteAnswer ==
  ASSUME StreamsOK, epoch \in 1..MaxEpoch, Execute
  PROVE  \E a : /\ AnswerOK(a) /\ a.of = requests[1].of
                /\ a.leftover = 0 \/ a.leftover \in Leftovers
                /\ answers' = Sent(a)
<1> DEFINE request == Head(requests)
<1>1. IsStream(requests) /\ requests # <<>> /\ RequestOK(request) /\ request = requests[1]
  BY StreamBasics DEF StreamsOK, Execute
<1>2. PICK r \in Results(request) : \E size \in Sizes(request, r[1]) :
        answers' = Sent(Answer(ResultOf(request.id), r[1], r[2], request, size))
  BY DEF Execute
<1>3. PICK size \in Sizes(request, r[1]) :
        answers' = Sent(Answer(ResultOf(request.id), r[1], r[2], request, size))
  BY <1>2
<1> DEFINE a == Answer(ResultOf(request.id), r[1], r[2], request, size)
<1>4. /\ a.id = ResultOf(request.id) /\ a.status = r[1] /\ a.of = request.of
      /\ a.epoch = epoch /\ a.leftover = size
      /\ a = [id |-> a.id, status |-> a.status, m |-> a.m, of |-> a.of,
              epoch |-> a.epoch, leftover |-> a.leftover]
  BY DEF Answer
<1>5. answers' = Sent(a)
  BY <1>3
<1> HIDE DEF a
<1>6. r[1] \in Outcomes \ {"local"}
  BY DEF Results, Outcomes
<1>7. size = 0 \/ size \in Leftovers
  BY DEF Sizes
<1>8. ResultOf(request.id) \in AnswerIds
  <2>1. request.kind = "good"
    BY DEF Execute, Legal
  <2>2. PICK op \in DOMAIN Methods : request.id = Methods[op].request
    BY <1>1, <2>1 DEF RequestOK
  <2>3. \E method \in Range(Methods) : method.request = request.id
    BY <2>2 DEF Range
  <2>4. (CHOOSE method \in Range(Methods) : method.request = request.id) \in Range(Methods)
    BY <2>3
  <2> QED BY <2>4 DEF ResultOf, AnswerIds
<1>9. AnswerOK(a)
  <2>1. a.leftover \in Nat
    BY <1>4, <1>7, WireAssumption
  <2> QED BY <1>4, <1>6, <1>8, <2>1 DEF AnswerOK
<1> QED BY <1>1, <1>4, <1>5, <1>7, <1>9

LEMMA RejectAnswer ==
  ASSUME StreamsOK, epoch \in 1..MaxEpoch, Reject
  PROVE  \E a : /\ AnswerOK(a) /\ a.of = requests[1].of /\ a.leftover = 0
                /\ a.status # "Ok" /\ answers' = Sent(a)
<1> DEFINE request == Head(requests)
           a == Answer("Error", Fault(request), Message({}, {}), request, 0)
<1>1. request = requests[1]
  BY StreamBasics DEF StreamsOK, Reject
<1>2. /\ a.id = "Error" /\ a.status = Fault(request) /\ a.of = request.of
      /\ a.epoch = epoch /\ a.leftover = 0
      /\ a = [id |-> a.id, status |-> a.status, m |-> a.m, of |-> a.of,
              epoch |-> a.epoch, leftover |-> a.leftover]
  BY DEF Answer
<1>3. answers' = Sent(a)
  BY DEF Reject
<1> HIDE DEF a
<1>4. Fault(request) \in Outcomes \ {"local", "Ok"}
  BY DEF Fault, Outcomes
<1>5. AnswerOK(a)
  BY <1>2, <1>4 DEF AnswerOK, AnswerIds
<1> QED BY <1>1, <1>2, <1>3, <1>4, <1>5

\* What is sent extends the stream, or is lost with the connection.
LEMMA SentAnswer ==
  ASSUME IsStream(answers), NEW a, answers' = Sent(a)
  PROVE  \/ connected /\ Longer(answers', answers, a)
         \/ ~connected /\ answers' = answers
BY StreamLonger DEF Sent

(* What a method makes of an answer.                                         *)
LEMMA OutcomeOf ==
  ASSUME NEW a, AnswerOK(a)
  PROVE  Outcome(a) \in Outcomes \ {"local"} /\ (Outcome(a) = "Ok" => a.status = "Ok")
<1>1. Outcome(a) \in {a.status, "protocol_violation"}
  BY DEF Outcome
<1> QED BY <1>1 DEF AnswerOK, Outcomes

(* A call that sends its frame, or finds the connection closed.              *)
LEMMA SendEffect ==
  ASSUME StreamsOK, NEW f, NEW op, Send(f, op)
  PROVE  /\ pending = Idle /\ calls < MaxCalls /\ connected /\ calls' = calls + 1
         /\ \/ /\ session # "closed" /\ Longer(requests', requests, f)
               /\ pending' = op /\ UNCHANGED returned
            \/ /\ session = "closed" /\ UNCHANGED requests
               /\ pending' = op /\ UNCHANGED returned
            \/ /\ session = "closed" /\ UNCHANGED requests
               /\ UNCHANGED pending
               /\ returned' = [call |-> calls + 1, outcome |-> "disconnected", of |-> 0]
            \/ /\ UNCHANGED requests
               /\ UNCHANGED pending
               /\ returned' = [call |-> calls + 1, outcome |-> "local", of |-> 0]
         /\ UNCHANGED <<connected, context, backend, session, abandoned, answers, accepting,
                        epoch, executed>>
BY StreamLonger DEF Send, Return, StreamsOK

(* A header that the client refuses leaves its payload, or a part of it, at  *)
(* the head of the stream.                                                   *)
LEMMA UnusableEffect ==
  ASSUME StreamsOK, ReceiveUnusable
  PROVE  \/ /\ Rest(answers', answers)
            /\ answers[1].leftover = 1
         \/ \E b : /\ Replaced(answers', answers, b) /\ AnswerOK(b)
                   /\ b.of = answers[1].of /\ b.status = answers[1].status
                   /\ b.leftover \in {answers[1].leftover, answers[1].leftover - 1}
<1> DEFINE h == Head(answers)
           b == [h EXCEPT !.id = "garbage", !.leftover = IF h.id = "garbage" THEN @ - 1 ELSE @]
<1>1. /\ IsStream(answers) /\ answers # <<>> /\ AnswerOK(h) /\ h = answers[1]
      /\ h.leftover \in Nat /\ h.leftover > 0
  BY StreamBasics DEF StreamsOK, ReceiveUnusable, AnswerOK
<1>2. CASE h.id = "garbage" /\ h.leftover = 1
  <2>1. answers' = Tail(answers)
    BY <1>2 DEF ReceiveUnusable
  <2> QED BY <1>1, <1>2, <2>1, StreamRests
<1>3. CASE ~(h.id = "garbage" /\ h.leftover = 1)
  <2>1. answers' = <<b>> \o Tail(answers)
    BY <1>3 DEF ReceiveUnusable
  <2>2. /\ b.id = "garbage" /\ b.of = h.of /\ b.status = h.status /\ b.epoch = h.epoch
        /\ b.leftover \in {h.leftover, h.leftover - 1} /\ b.leftover \in Nat
        /\ b = [id |-> b.id, status |-> b.status, m |-> b.m, of |-> b.of,
                epoch |-> b.epoch, leftover |-> b.leftover]
    <3> DEFINE left == IF h.id = "garbage" THEN h.leftover - 1 ELSE h.leftover
    <3>1. b = [h EXCEPT !.id = "garbage", !.leftover = left]
      OBVIOUS
    <3>2. left \in {h.leftover, h.leftover - 1} /\ left \in Nat
      BY <1>1
    <3>3. h = [id |-> h.id, status |-> h.status, m |-> h.m, of |-> h.of,
               epoch |-> h.epoch, leftover |-> h.leftover]
      BY <1>1 DEF AnswerOK
    <3> HIDE DEF left, b, h
    <3>4. b = [id |-> "garbage", status |-> h.status, m |-> h.m, of |-> h.of,
               epoch |-> h.epoch, leftover |-> left]
      BY <3>1, <3>3
    <3> QED BY <3>2, <3>4
  <2>3. AnswerOK(b)
    <3> HIDE DEF b
    <3> QED BY <1>1, <2>2 DEF AnswerOK, AnswerIds
  <2> HIDE DEF b
  <2>4. Replaced(answers', answers, b)
    BY <1>1, <2>1, StreamReplaced
  <2> QED BY <1>1, <2>2, <2>3, <2>4
<1> QED BY <1>2, <1>3

\* What any step does to the two streams, and to what it abandons.
Moves ==
  /\ \A f \in abandoned' : f \in abandoned \/ \E i \in DOMAIN requests : f = requests[i]
  /\ \/ Rest(requests', requests)
     \/ \E f : /\ Longer(requests', requests, f) /\ RequestOK(f)
               /\ f.of = calls + 1 /\ calls' = calls + 1
  /\ \/ Rest(answers', answers)
     \/ \E a : /\ Longer(answers', answers, a) /\ AnswerOK(a)
               /\ 1 \in DOMAIN requests /\ a.of = requests[1].of
     \/ \E b : /\ Replaced(answers', answers, b) /\ AnswerOK(b)
               /\ b.of = answers[1].of /\ b.status = answers[1].status

(* Every step.                                                               *)
LEMMA StepMoves ==
  ASSUME WireTypeOK, StreamsOK, [Next]_vars
  PROVE  Moves
<1>1. /\ IsStream(requests) /\ IsStream(answers) /\ epoch \in 1..MaxEpoch
      /\ Rest(requests, requests) /\ Rest(answers, answers)
      /\ Rest(<<>>, requests) /\ Rest(<<>>, answers)
  BY StreamRests DEF StreamsOK, WireTypeOK
<1>2. ASSUME requests' \in {requests, <<>>}, answers' \in {answers, <<>>},
             \A f \in abandoned' : f \in abandoned \/ \E i \in DOMAIN requests : f = requests[i]
      PROVE  Moves
  BY <1>1, <1>2 DEF Moves
<1>3. ASSUME \/ Close \/ SetIdentity \/ NextAttempt \/ ReceiveClosed \/ Accept
             \/ AcceptorEnds \/ DropSession \/ EndSession \/ Reset \/ AdvanceEpoch
             \/ UNCHANGED vars \/ \E op \in Ops : RefuseLocally(op)
      PROVE  Moves
  <2>1. /\ requests' \in {requests, <<>>} /\ answers' \in {answers, <<>>}
        /\ abandoned' = abandoned
    BY <1>3 DEF Close, SetIdentity, NextAttempt, ReceiveClosed, Accept, AcceptorEnds,
                DropSession, EndSession, Reset, AdvanceEpoch, vars, RefuseLocally
  <2> QED BY <1>2, <2>1
<1>11. ASSUME Connect PROVE Moves
  BY <1>2, <1>11 DEF Connect, Range
<1>12. ASSUME NEW f \in abandoned, ExecuteAbandoned(f) \/ LoseAbandoned(f) PROVE Moves
  BY <1>2, <1>12 DEF ExecuteAbandoned, LoseAbandoned
<1>4. ASSUME NEW f, NEW op, Send(f, op), f.of = calls + 1, RequestOK(f)
      PROVE  Moves
  BY <1>1, <1>4, SendEffect DEF Moves
<1>5. ASSUME Receive PROVE Moves
  <2>1. /\ answers # <<>> /\ answers' = Tail(answers) /\ requests' = requests
        /\ abandoned' = abandoned
    BY <1>5 DEF Receive, Unread
  <2> QED BY <1>1, <2>1, StreamRests DEF Moves
<1>6. ASSUME ReceiveUnusable PROVE Moves
  <2>1. requests' = requests /\ abandoned' = abandoned
    BY <1>6 DEF ReceiveUnusable
  <2> QED BY <1>1, <1>6, <2>1, UnusableEffect DEF Moves
<1>7. ASSUME Reject PROVE Moves
  <2>1. requests # <<>> /\ requests' = <<>> /\ abandoned' = abandoned
    BY <1>7 DEF Reject
  <2>2. 1 \in DOMAIN requests
    BY <1>1, <2>1, StreamBasics
  <2>3. PICK a : AnswerOK(a) /\ a.of = requests[1].of /\ answers' = Sent(a)
    BY <1>1, <1>7, RejectAnswer
  <2> QED BY <1>1, <2>1, <2>2, <2>3, SentAnswer DEF Moves
<1>8. ASSUME Execute PROVE Moves
  <2>1. requests # <<>> /\ requests' = Tail(requests) /\ abandoned' = abandoned
    BY <1>8 DEF Execute, Handled
  <2>2. 1 \in DOMAIN requests /\ Rest(requests', requests)
    BY <1>1, <2>1, StreamBasics, StreamRests
  <2>3. PICK a : AnswerOK(a) /\ a.of = requests[1].of /\ answers' = Sent(a)
    BY <1>1, <1>8, ExecuteAnswer
  <2> QED BY <1>1, <2>1, <2>2, <2>3, SentAnswer DEF Moves
<1>9. ASSUME NEW op \in Ops, Call(op) PROVE Moves
  BY <1>4, <1>9, CallFrame
<1>10. ASSUME NEW kind \in Raws, CallRaw(kind) PROVE Moves
  BY <1>4, <1>10, RawFrame
<1> QED BY <1>3, <1>5, <1>6, <1>7, <1>8, <1>9, <1>10, <1>11, <1>12
        DEF Next, ClientReturns, ServerStep

\* The type invariant without the streams.
ScalarsOK ==
  /\ connected \in BOOLEAN /\ backend \in BOOLEAN /\ accepting \in BOOLEAN
  /\ context \in [epoch : 0..MaxEpoch, identity : BOOLEAN, attempt : BOOLEAN]
  /\ calls \in 0..MaxCalls
  /\ pending \in Ops \cup {"Raw", Idle}
  /\ session \in {"none", "pending", "serving", "closed"}
  /\ epoch \in 1..MaxEpoch
  /\ executed \in [1..MaxCalls -> Nat]
  /\ returned \in [call : 0..calls, outcome : Outcomes, of : 0..calls]

LEMMA ContextUpdates ==
  ASSUME NEW c \in [epoch : 0..MaxEpoch, identity : BOOLEAN, attempt : BOOLEAN],
         NEW e \in 1..MaxEpoch
  PROVE  /\ [c EXCEPT !.identity = TRUE]
              \in [epoch : 0..MaxEpoch, identity : BOOLEAN, attempt : BOOLEAN]
         /\ [c EXCEPT !.attempt = TRUE]
              \in [epoch : 0..MaxEpoch, identity : BOOLEAN, attempt : BOOLEAN]
         /\ [c EXCEPT !.epoch = e]
              \in [epoch : 0..MaxEpoch, identity : BOOLEAN, attempt : BOOLEAN]
<1>1. e \in 0..MaxEpoch
  BY WireAssumption
<1> QED BY <1>1

LEMMA ReturnTypes ==
  ASSUME NEW n \in Nat, NEW k \in Nat, n <= k, NEW outcome \in Outcomes, NEW of \in 0..k
  PROVE  [call |-> n, outcome |-> outcome, of |-> of]
           \in [call : 0..k, outcome : Outcomes, of : 0..k]
<1>1. n \in 0..k
  OBVIOUS
<1> QED BY <1>1

LEMMA CountsUp ==
  ASSUME NEW D, NEW g \in [D -> Nat], NEW n
  PROVE  [g EXCEPT ![n] = @ + 1] \in [D -> Nat]
<1> DEFINE h == [g EXCEPT ![n] = g[n] + 1]
<1>1. CASE n \in D
  <2>1. g[n] + 1 \in Nat
    BY <1>1
  <2> QED BY <1>1, <2>1
<1>2. CASE n \notin D
  <2>1. h = g
    BY <1>2
  <2> QED BY <2>1
<1> QED BY <1>1, <1>2

LEMMA ScalarsKept ==
  ASSUME WireTypeOK, StreamsOK, [Next]_vars
  PROVE  ScalarsOK' /\ calls' >= calls
<1>1. /\ ScalarsOK /\ calls \in Nat /\ MaxCalls \in Nat /\ MaxEpoch \in Nat
      /\ calls <= MaxCalls
      /\ returned.call \in 0..calls /\ returned.outcome \in Outcomes /\ returned.of \in 0..calls
      /\ returned = [call |-> returned.call, outcome |-> returned.outcome,
                     of |-> returned.of]
  BY WireAssumption DEF WireTypeOK, ScalarsOK
<1> DEFINE Returned(n) == [call : 0..n, outcome : Outcomes, of : 0..n]
<1>2. ASSUME NEW k \in Nat, calls <= k PROVE returned \in Returned(k)
  <2>1. returned.call \in 0..k /\ returned.of \in 0..k
    BY <1>1, <1>2
  <2> QED BY <1>1, <2>1
<1>3. ASSUME \/ Connect \/ Close \/ Accept \/ AcceptorEnds \/ DropSession \/ EndSession
             \/ Reset \/ UNCHANGED vars \/ Reject
             \/ \E f \in abandoned : LoseAbandoned(f)
      PROVE  ScalarsOK' /\ calls' >= calls
  <2>1. /\ connected' \in BOOLEAN /\ session' \in {"none", "pending", "serving", "closed"}
        /\ accepting' \in BOOLEAN
        /\ UNCHANGED <<context, backend, calls, pending, epoch, executed, returned>>
    <3>1. CASE Connect \/ Close
      BY <1>1, <3>1 DEF Connect, Close, ScalarsOK
    <3>2. CASE Accept \/ AcceptorEnds \/ DropSession \/ EndSession
      BY <1>1, <3>2 DEF Accept, AcceptorEnds, DropSession, EndSession, ScalarsOK
    <3>3. CASE Reset \/ Reject \/ UNCHANGED vars \/ \E f \in abandoned : LoseAbandoned(f)
      BY <1>1, <3>3 DEF Reset, Reject, LoseAbandoned, vars, ScalarsOK
    <3> QED BY <1>3, <3>1, <3>2, <3>3
  <2> QED BY <1>1, <2>1 DEF ScalarsOK
<1>4. ASSUME SetIdentity \/ NextAttempt PROVE ScalarsOK' /\ calls' >= calls
  <2>1. context' \in [epoch : 0..MaxEpoch, identity : BOOLEAN, attempt : BOOLEAN]
    <3>1. context' \in {[context EXCEPT !.identity = TRUE], [context EXCEPT !.attempt = TRUE]}
      BY <1>4 DEF SetIdentity, NextAttempt
    <3>2. context \in [epoch : 0..MaxEpoch, identity : BOOLEAN, attempt : BOOLEAN]
          /\ epoch \in 1..MaxEpoch
      BY <1>1 DEF ScalarsOK
    <3>3. /\ [context EXCEPT !.identity = TRUE]
               \in [epoch : 0..MaxEpoch, identity : BOOLEAN, attempt : BOOLEAN]
          /\ [context EXCEPT !.attempt = TRUE]
               \in [epoch : 0..MaxEpoch, identity : BOOLEAN, attempt : BOOLEAN]
      BY <3>2, ContextUpdates
    <3> QED BY <3>1, <3>3
  <2> QED BY <1>1, <1>4, <2>1 DEF SetIdentity, NextAttempt, ScalarsOK
<1>5. ASSUME AdvanceEpoch PROVE ScalarsOK' /\ calls' >= calls
  BY <1>1, <1>5 DEF AdvanceEpoch, ScalarsOK
<1>6. ASSUME NEW op \in Ops, RefuseLocally(op) PROVE ScalarsOK' /\ calls' >= calls
  <2>1. /\ calls' = calls + 1 /\ calls' \in 0..MaxCalls /\ calls' \in Nat /\ calls' >= calls
        /\ 0 \in 0..calls'
    BY <1>1, <1>6 DEF RefuseLocally
  <2>2. returned' \in Returned(calls')
    BY <1>6, <2>1, ReturnTypes DEF RefuseLocally, Return, Outcomes
  <2> QED BY <1>1, <1>6, <2>1, <2>2 DEF RefuseLocally, ScalarsOK
<1>7. ASSUME NEW f, NEW op \in Ops \cup {"Raw"}, Send(f, op)
      PROVE  ScalarsOK' /\ calls' >= calls
  <2>1. /\ calls' = calls + 1 /\ calls' \in 0..MaxCalls /\ calls' \in Nat /\ calls' >= calls
        /\ 0 \in 0..calls'
    BY <1>1, <1>7 DEF Send
  <2>2. returned' \in Returned(calls')
    <3>1. CASE UNCHANGED returned
      BY <1>2, <2>1, <3>1
    <3>2. CASE returned' = [call |-> calls + 1, outcome |-> "disconnected", of |-> 0]
      BY <2>1, <3>2, ReturnTypes DEF Outcomes
    <3>3. CASE returned' = [call |-> calls + 1, outcome |-> "local", of |-> 0]
      BY <2>1, <3>3, ReturnTypes DEF Outcomes
    <3> QED BY <1>7, <3>1, <3>2, <3>3, SendEffect
  <2>3. pending' \in Ops \cup {"Raw", Idle}
    BY <1>1, <1>7 DEF Send, ScalarsOK
  <2> QED BY <1>1, <1>7, <2>1, <2>2, <2>3 DEF Send, ScalarsOK
<1>8. ASSUME ReceiveUnusable \/ ReceiveClosed PROVE ScalarsOK' /\ calls' >= calls
  <2>1. returned' \in Returned(calls) /\ calls' = calls
    BY <1>1, <1>8, ReturnTypes DEF ReceiveUnusable, ReceiveClosed, Return, Outcomes
  <2> QED BY <1>1, <1>8, <2>1 DEF ReceiveUnusable, ReceiveClosed, ScalarsOK
<1>9. ASSUME Receive PROVE ScalarsOK' /\ calls' >= calls
  <2> DEFINE answer == Head(answers)
  <2>1. AnswerOK(answer) /\ answer.of \in 1..calls
    BY <1>9, StreamBasics DEF Receive, StreamsOK, WireTypeOK
  <2>2. returned' \in Returned(calls)
    <3>1. answer.of \in 0..calls /\ Outcome(answer) \in Outcomes
      BY <1>1, <2>1, OutcomeOf
    <3>2. returned' = [call |-> calls, outcome |-> Outcome(answer), of |-> answer.of]
      BY <1>9 DEF Receive, Return
    <3> QED BY <1>1, <3>1, <3>2, ReturnTypes
  <2>3. context' \in [epoch : 0..MaxEpoch, identity : BOOLEAN, attempt : BOOLEAN]
    <3>1. answer.epoch \in 1..MaxEpoch
      BY <2>1 DEF AnswerOK
    <3>2. context' \in {context, [context EXCEPT !.epoch = answer.epoch]}
      BY <1>9 DEF Receive
    <3> QED BY <1>1, <3>1, <3>2, ContextUpdates DEF ScalarsOK
  <2>4. backend' \in BOOLEAN
    BY <1>1, <1>9 DEF Receive, ScalarsOK
  <2> QED BY <1>1, <1>9, <2>2, <2>3, <2>4 DEF Receive, ScalarsOK
<1>10. ASSUME Execute \/ \E f \in abandoned : ExecuteAbandoned(f)
       PROVE  ScalarsOK' /\ calls' >= calls
  <2>1. executed' \in [1..MaxCalls -> Nat]
    <3>1. executed \in [1..MaxCalls -> Nat]
      BY <1>1 DEF ScalarsOK
    <3>2. PICK n : executed' = [executed EXCEPT ![n] = @ + 1]
      BY <1>10 DEF Execute, ExecuteAbandoned
    <3> QED BY <3>1, <3>2, CountsUp
  <2> QED BY <1>1, <1>10, <2>1 DEF Execute, ExecuteAbandoned, ScalarsOK
<1>11. ASSUME NEW op \in Ops, Call(op) PROVE ScalarsOK' /\ calls' >= calls
  BY <1>7, <1>11, CallFrame
<1>12. ASSUME NEW kind \in Raws, CallRaw(kind) PROVE ScalarsOK' /\ calls' >= calls
  BY <1>7, <1>12, RawFrame
<1> QED BY <1>3, <1>4, <1>5, <1>6, <1>8, <1>9, <1>10, <1>11, <1>12
        DEF Next, ClientReturns, ServerStep

LEMMA TypesKept ==
  ASSUME WireTypeOK, StreamsOK, [Next]_vars
  PROVE  WireTypeOK' /\ StreamsOK'
<1>1. Moves /\ ScalarsOK' /\ calls' >= calls /\ calls' \in Nat /\ calls \in Nat
  BY StepMoves, ScalarsKept, WireAssumption DEF ScalarsOK, WireTypeOK
<1> DEFINE RequestsFit == /\ IsStream(requests')
                          /\ \A i \in DOMAIN requests' :
                               RequestOK(requests'[i]) /\ requests'[i].of \in 1..calls'
           AnswersFit == /\ IsStream(answers')
                         /\ \A i \in DOMAIN answers' :
                              AnswerOK(answers'[i]) /\ answers'[i].of \in 1..calls'
<1>3. RequestsFit
  <2>1. \A i \in DOMAIN requests : requests[i].of \in 1..calls'
    BY <1>1 DEF WireTypeOK
  <2>2. CASE Rest(requests', requests)
    BY <2>1, <2>2 DEF Rest, StreamsOK
  <2>3. ASSUME NEW f, Longer(requests', requests, f), RequestOK(f),
               f.of = calls + 1, calls' = calls + 1
        PROVE  RequestsFit
    <3>1. f.of \in 1..calls'
      BY <1>1, <2>3
    <3>2. \A i \in DOMAIN requests' :
            \/ requests'[i] = f
            \/ i \in DOMAIN requests /\ requests'[i] = requests[i]
      BY <2>3 DEF Longer
    <3> QED BY <2>1, <2>3, <3>1, <3>2 DEF Longer, StreamsOK
  <2> QED BY <1>1, <2>2, <2>3 DEF Moves
<1>4. AnswersFit
  <2>1. /\ \A i \in DOMAIN answers : answers[i].of \in 1..calls'
        /\ \A i \in DOMAIN requests : requests[i].of \in 1..calls'
    BY <1>1 DEF WireTypeOK
  <2>2. CASE Rest(answers', answers)
    BY <2>1, <2>2 DEF Rest, StreamsOK
  <2>3. ASSUME NEW a, Longer(answers', answers, a), AnswerOK(a), 1 \in DOMAIN requests,
               a.of = requests[1].of
        PROVE  AnswersFit
    <3>2. \A i \in DOMAIN answers' :
            \/ answers'[i] = a
            \/ i \in DOMAIN answers /\ answers'[i] = answers[i]
      BY <2>3 DEF Longer
    <3> QED BY <2>1, <2>3, <3>2 DEF Longer, StreamsOK
  <2>4. ASSUME NEW b, Replaced(answers', answers, b), AnswerOK(b), b.of = answers[1].of
        PROVE  AnswersFit
    <3>1. 1 \in DOMAIN answers
      BY <2>4, StreamBasics DEF Replaced
    <3>2. \A i \in DOMAIN answers' :
            \/ answers'[i] = b
            \/ i \in DOMAIN answers /\ answers'[i] = answers[i]
      BY <2>4 DEF Replaced
    <3> QED BY <2>1, <2>4, <3>1, <3>2 DEF Replaced, StreamsOK
  <2> QED BY <1>1, <2>2, <2>3, <2>4 DEF Moves
<1>5. WireTypeOK'
  <2>1. \A i \in DOMAIN answers' : answers'[i].id \in AnswerIds
    BY <1>4 DEF AnswerOK
  <2>2. \A f \in abandoned' : f.of \in 1..calls'
    BY <1>1 DEF Moves, WireTypeOK
  <2> QED BY <1>1, <1>3, <1>4, <2>1, <2>2 DEF WireTypeOK, ScalarsOK
<1>6. StreamsOK'
  BY <1>3, <1>4 DEF StreamsOK
<1> QED BY <1>5, <1>6

LEMMA EmptyStream == IsStream(<<>>) /\ DOMAIN <<>> = {} /\ Len(<<>>) = 0
<1>1. <<>> \in Seq({})
  OBVIOUS
<1> QED BY <1>1 DEF IsStream

LEMMA InitTypes == Init => WireTypeOK /\ StreamsOK
<1> SUFFICES ASSUME Init PROVE WireTypeOK /\ StreamsOK
  OBVIOUS
<1>1. requests = <<>> /\ answers = <<>> /\ IsStream(<<>>) /\ DOMAIN <<>> = {}
  BY EmptyStream DEF Init
<1>2. 0 \in 0..MaxEpoch /\ 0 \in 0..MaxCalls /\ 0 \in 0..0 /\ 1 \in 1..MaxEpoch
  BY WireAssumption
<1>3. context \in [epoch : 0..MaxEpoch, identity : BOOLEAN, attempt : BOOLEAN]
  BY <1>2 DEF Init
<1>4. returned \in [call : 0..calls, outcome : Outcomes, of : 0..calls]
  BY <1>2 DEF Init, Outcomes
<1>5. executed \in [1..MaxCalls -> Nat]
  BY DEF Init
<1>6. WireTypeOK
  BY <1>1, <1>2, <1>3, <1>4, <1>5 DEF Init, WireTypeOK
<1>7. StreamsOK
  BY <1>1 DEF StreamsOK
<1> QED BY <1>6, <1>7

LEMMA StreamsAlwaysOK == Spec => [](WireTypeOK /\ StreamsOK)
<1>1. WireTypeOK /\ StreamsOK /\ [Next]_vars => (WireTypeOK /\ StreamsOK)'
  BY TypesKept
<1> QED BY <1>1, InitTypes, PTL DEF Spec

(* Type correctness: the state of the client and of its session keeps its    *)
(* types, and what is on its way to the client are results of methods, error  *)
(* frames or the rest of an answer, never requests (send_payload and          *)
(* send_error of src/server.cpp).                                            *)
THEOREM WireTypeCorrect == Spec => []WireTypeOK
BY StreamsAlwaysOK, PTL

-----------------------------------------------------------------------------
(* Every method is given its own answer.                                     *)

\* An answer over max_frame_bytes leaves a payload that outlasts the calls.
LongLeftovers == \A l \in Leftovers : l > MaxCalls

\* There is one frame at most in the two streams, and it is of the last call.
InExchange ==
  /\ pending = Idle => requests = <<>> /\ answers = <<>>
  /\ requests = <<>> \/ answers = <<>>
  /\ Len(requests) <= 1 /\ Len(answers) <= 1
  /\ \A i \in DOMAIN requests : requests[i].of = calls
  /\ \A i \in DOMAIN answers : /\ answers[i].of = calls
                               /\ answers[i].leftover = 0 \/ answers[i].leftover > MaxCalls

\* The calls that are left read headers in the payload of an answer that was
\* refused.
InPayload ==
  /\ answers # <<>>
  /\ answers[1].leftover + calls > MaxCalls + (IF pending = Idle THEN 0 ELSE 1)

OwnInv ==
  /\ pending # Idle => connected
  /\ session = "closed" => requests = <<>>
  /\ connected => InExchange \/ InPayload
  /\ ~connected => answers = <<>>
  /\ AnswerIsOwn

LEMMA OneFrame ==
  ASSUME NEW s, IsStream(s), Len(s) <= 1, s # <<>>
  PROVE  DOMAIN s = {1} /\ Tail(s) = <<>>
<1>1. PICK S : s \in Seq(S)
  BY DEF IsStream
<1>2. Len(s) = 1 /\ DOMAIN s = {1}
  <2>1. Len(s) \in Nat /\ Len(s) >= 1 /\ DOMAIN s = 1..Len(s)
    BY StreamBasics
  <2>2. Len(s) = 1 /\ 1..1 = {1}
    BY <2>1
  <2> QED BY <2>1, <2>2
<1>3. Tail(s) \in Seq(S) /\ Len(Tail(s)) = 0
  BY <1>1, <1>2
<1>4. Tail(s) = <<>>
  BY <1>3
<1> QED BY <1>2, <1>4

(* Steps that leave the answers, the calls and the connection alone.         *)
LEMMA OwnFrame ==
  ASSUME WireTypeOK, StreamsOK, OwnInv, UNCHANGED <<connected, calls, pending, answers, returned>>,
         requests' \in {requests, <<>>}, session' = "closed" => requests' = <<>>
  PROVE  OwnInv'
<1>1. Len(<<>>) = 0 /\ DOMAIN <<>> = {}
  BY EmptyStream
<1>2. InExchange => InExchange'
  BY <1>1 DEF InExchange
<1>3. InPayload => InPayload'
  BY DEF InPayload
<1>4. AnswerIsOwn'
  BY DEF OwnInv, AnswerIsOwn
<1> QED BY <1>2, <1>3, <1>4 DEF OwnInv

(* The streams are empty.                                                    *)
LEMMA OwnEmpty ==
  ASSUME requests' = <<>>, answers' = <<>>, AnswerIsOwn', pending' # Idle => connected'
  PROVE  OwnInv'
<1>1. Len(<<>>) = 0 /\ DOMAIN <<>> = {}
  BY EmptyStream
<1>2. InExchange'
  BY <1>1 DEF InExchange
<1> QED BY <1>2 DEF OwnInv

(* A call is refused before anything is sent.                                *)
LEMMA OwnRefused ==
  ASSUME WireTypeOK, StreamsOK, OwnInv, pending = Idle, calls' = calls + 1, AnswerIsOwn',
         UNCHANGED <<connected, pending, session, requests, answers>>
  PROVE  OwnInv'
<1>1. DOMAIN <<>> = {}
  BY EmptyStream
<1>2. InExchange => InExchange'
  BY <1>1 DEF InExchange
<1>3. InPayload => InPayload'
  <2> SUFFICES ASSUME InPayload PROVE InPayload'
    OBVIOUS
  <2>1. answers # <<>> /\ answers[1].leftover \in Nat /\ calls \in Nat /\ MaxCalls \in Nat
    BY StreamBasics, WireAssumption DEF InPayload, StreamsOK, AnswerOK, WireTypeOK
  <2> QED BY <2>1 DEF InPayload
<1> QED BY <1>2, <1>3 DEF OwnInv

LEMMA OwnSend ==
  ASSUME WireTypeOK, StreamsOK, OwnInv, NEW f, NEW op, op # Idle, f.of = calls + 1,
         Send(f, op)
  PROVE  OwnInv'
<1>1. /\ pending = Idle /\ connected /\ calls' = calls + 1 /\ session' = session
      /\ answers' = answers /\ connected' = connected
  BY SendEffect
<1>2. calls \in Nat /\ MaxCalls \in Nat /\ DOMAIN <<>> = {} /\ Len(<<>>) = 0
  BY WireAssumption, EmptyStream DEF WireTypeOK
<1>3. AnswerIsOwn'
  <2>1. \/ returned' = returned
        \/ \E o : returned' = [call |-> calls + 1, outcome |-> o, of |-> 0]
    BY SendEffect
  <2> QED BY <2>1 DEF OwnInv, AnswerIsOwn
<1>4. CASE pending' = Idle
  <2>1. UNCHANGED <<pending, requests>>
    BY <1>1, <1>4, SendEffect
  <2> QED BY <1>1, <1>3, <2>1, OwnRefused
<1>5. CASE pending' # Idle
  <2>1. \/ session # "closed" /\ Longer(requests', requests, f)
        \/ session = "closed" /\ requests' = requests
    BY <1>1, <1>5, SendEffect
  <2>2. ASSUME InExchange PROVE InExchange'
    <3>1. requests = <<>> /\ answers = <<>>
      BY <1>1, <2>2 DEF InExchange
    <3>2. Len(requests') <= 1 /\ \A i \in DOMAIN requests' : requests'[i].of = calls'
      BY <1>1, <1>2, <2>1, <3>1 DEF Longer
    <3> QED BY <1>1, <1>2, <1>5, <3>1, <3>2 DEF InExchange
  <2>3. ASSUME InPayload PROVE InPayload'
    <3>1. answers # <<>> /\ answers[1].leftover \in Nat
      BY <2>3, StreamBasics DEF InPayload, StreamsOK, AnswerOK
    <3> QED BY <1>1, <1>2, <2>3, <3>1 DEF InPayload
  <2> QED BY <1>1, <1>3, <2>1, <2>2, <2>3 DEF OwnInv
<1> QED BY <1>4, <1>5

(* The answer a method is given is of its own call, and it was alone.        *)
LEMMA OwnReceive ==
  ASSUME WireTypeOK, StreamsOK, OwnInv, Receive
  PROVE  /\ answers[1].of = calls /\ OwnInv'
         /\ returned' = [call |-> calls, outcome |-> Outcome(answers[1]), of |-> calls]
<1>1. /\ pending # Idle /\ answers # <<>> /\ 1 \in DOMAIN answers /\ Head(answers) = answers[1]
      /\ answers[1].leftover = 0 /\ answers' = Tail(answers)
      /\ calls \in Nat /\ calls <= MaxCalls /\ MaxCalls \in Nat
  BY StreamBasics, WireAssumption DEF Receive, Unread, StreamsOK, WireTypeOK
<1>2. InExchange
  <2>1. ~InPayload
    BY <1>1 DEF InPayload
  <2> QED BY <1>1, <2>1 DEF OwnInv
<1>3. answers[1].of = calls /\ requests = <<>> /\ answers' = <<>>
  BY <1>1, <1>2, OneFrame DEF InExchange, StreamsOK
<1>4. returned' = [call |-> calls, outcome |-> Outcome(answers[1]), of |-> calls]
  BY <1>1, <1>3 DEF Receive, Return
<1>5. AnswerIsOwn'
  BY <1>4 DEF AnswerIsOwn
<1>6. pending' = Idle /\ requests' = <<>>
  BY <1>3 DEF Receive
<1> QED BY <1>3, <1>4, <1>5, <1>6, OwnEmpty

LEMMA OwnUnusable ==
  ASSUME WireTypeOK, StreamsOK, OwnInv, ReceiveUnusable
  PROVE  OwnInv'
<1> DEFINE left == answers[1].leftover
<1>1. /\ pending # Idle /\ answers # <<>> /\ 1 \in DOMAIN answers
      /\ left \in Nat /\ left > 0 /\ answers[1].of \in 1..calls
      /\ calls \in Nat /\ calls <= MaxCalls /\ MaxCalls \in Nat
  BY StreamBasics, WireAssumption DEF ReceiveUnusable, StreamsOK, WireTypeOK, AnswerOK
<1>2. /\ pending' = Idle /\ UNCHANGED <<connected, calls, session, requests>>
      /\ returned' = [call |-> calls, outcome |-> "protocol_violation", of |-> 0]
  BY DEF ReceiveUnusable, Return
<1>3. AnswerIsOwn'
  BY <1>2 DEF AnswerIsOwn
<1>4. left + calls > MaxCalls + 1 /\ left # 1
  <2>1. CASE InExchange
    BY <1>1, <2>1 DEF InExchange
  <2>2. CASE InPayload
    BY <1>1, <2>2 DEF InPayload
  <2> QED BY <1>1, <2>1, <2>2 DEF OwnInv
<1>5. PICK b : Replaced(answers', answers, b) /\ b.leftover \in {left, left - 1}
  BY <1>4, UnusableEffect
<1> HIDE DEF left
<1>6. answers' # <<>> /\ answers'[1] = b
  BY <1>5 DEF Replaced
<1>7. b.leftover + calls > MaxCalls
  BY <1>1, <1>4, <1>5
<1>8. InPayload'
  BY <1>1, <1>2, <1>6, <1>7 DEF InPayload
<1>9. connected
  BY <1>1 DEF OwnInv
<1> QED BY <1>2, <1>3, <1>8, <1>9 DEF OwnInv

(* The session answers the request at the head of its stream.                *)
LEMMA OwnAnswer ==
  ASSUME WireTypeOK, StreamsOK, OwnInv, requests # <<>>, NEW a, a.of = requests[1].of,
         a.leftover = 0 \/ a.leftover > MaxCalls, answers' = Sent(a),
         requests' \in {<<>>, Tail(requests)}, session' = "closed" => requests' = <<>>,
         UNCHANGED <<connected, calls, pending, returned>>
  PROVE  OwnInv'
<1>1. 1 \in DOMAIN requests /\ IsStream(requests) /\ IsStream(answers)
  BY StreamBasics DEF StreamsOK
<1>2. AnswerIsOwn'
  BY DEF OwnInv, AnswerIsOwn
<1>3. CASE ~connected
  <2>1. answers' = answers
    BY <1>3 DEF Sent
  <2> QED BY <1>2, <1>3, <2>1 DEF OwnInv
<1>4. CASE connected
  <2>1. Longer(answers', answers, a)
    BY <1>1, <1>4, SentAnswer
  <2>2. ASSUME InExchange PROVE InExchange'
    <3>1. /\ pending # Idle /\ answers = <<>> /\ requests' = <<>> /\ a.of = calls
          /\ Len(<<>>) = 0 /\ DOMAIN <<>> = {}
      BY <1>1, <2>2, OneFrame, EmptyStream DEF InExchange
    <3>2. Len(answers') = 1 /\ DOMAIN answers' = 1..1 /\ answers'[1] = a
      BY <2>1, <3>1 DEF Longer
    <3> QED BY <3>1, <3>2 DEF InExchange
  <2>3. ASSUME InPayload PROVE InPayload'
    <3>1. answers # <<>> /\ 1 \in DOMAIN answers
      BY <1>1, <2>3, StreamBasics DEF InPayload
    <3>2. answers' # <<>> /\ answers'[1] = answers[1]
      BY <2>1, <3>1, EmptyStream DEF Longer
    <3> QED BY <2>3, <3>2 DEF InPayload
  <2> QED BY <1>2, <1>4, <2>2, <2>3 DEF OwnInv
<1> QED BY <1>3, <1>4

LEMMA OwnKept ==
  ASSUME WireTypeOK, StreamsOK, OwnInv, LongLeftovers, [Next]_vars
  PROVE  OwnInv'
<1>1. ASSUME \/ SetIdentity \/ NextAttempt \/ Accept \/ AcceptorEnds \/ DropSession
             \/ EndSession \/ AdvanceEpoch \/ UNCHANGED vars
             \/ \E f \in abandoned : ExecuteAbandoned(f) \/ LoseAbandoned(f)
      PROVE  OwnInv'
  <2>1. /\ UNCHANGED <<connected, calls, pending, answers, returned>>
        /\ requests' \in {requests, <<>>}
        /\ session' = "closed" => requests' = <<>>
    BY <1>1 DEF SetIdentity, NextAttempt, Accept, AcceptorEnds, DropSession, EndSession,
                AdvanceEpoch, ExecuteAbandoned, LoseAbandoned, vars, OwnInv
  <2> QED BY <2>1, OwnFrame
<1>2. ASSUME Connect PROVE OwnInv'
  <2>1. AnswerIsOwn' /\ requests' = <<>> /\ answers' = <<>> /\ connected'
    BY <1>2 DEF Connect, OwnInv, AnswerIsOwn
  <2> QED BY <2>1, OwnEmpty
<1>3. ASSUME Close PROVE OwnInv'
  BY <1>3 DEF Close, OwnInv, AnswerIsOwn
<1>4. ASSUME Reset PROVE OwnInv'
  <2>1. /\ requests' = <<>> /\ answers' = <<>> /\ AnswerIsOwn'
        /\ pending' # Idle => connected'
    BY <1>4 DEF Reset, OwnInv, AnswerIsOwn
  <2> QED BY <2>1, OwnEmpty
<1>5. ASSUME ReceiveClosed PROVE OwnInv'
  <2>1. requests' = <<>> /\ answers' = <<>> /\ AnswerIsOwn' /\ pending' = Idle
    BY <1>5 DEF ReceiveClosed, Return, OwnInv, AnswerIsOwn
  <2> QED BY <2>1, OwnEmpty
<1>6. ASSUME NEW op \in Ops, RefuseLocally(op) PROVE OwnInv'
  <2>1. AnswerIsOwn'
    BY <1>6 DEF RefuseLocally, Return, AnswerIsOwn
  <2> QED BY <1>6, <2>1, OwnRefused DEF RefuseLocally
<1>7. ASSUME NEW op \in Ops, Call(op) PROVE OwnInv'
  BY <1>7, CallFrame, OwnSend, WireAssumption
<1>8. ASSUME NEW kind \in Raws, CallRaw(kind) PROVE OwnInv'
  <2>1. "Raw" # Idle
    BY DEF Idle
  <2> QED BY <1>8, <2>1, RawFrame, OwnSend
<1>9. ASSUME Reject PROVE OwnInv'
  <2>1. PICK a : a.of = requests[1].of /\ a.leftover = 0 /\ answers' = Sent(a)
    BY <1>9, RejectAnswer DEF WireTypeOK
  <2> QED BY <1>9, <2>1, OwnAnswer DEF Reject
<1>10. ASSUME Execute PROVE OwnInv'
  <2>1. PICK a : /\ a.of = requests[1].of /\ answers' = Sent(a)
                 /\ a.leftover = 0 \/ a.leftover \in Leftovers
    BY <1>10, ExecuteAnswer DEF WireTypeOK
  <2>2. a.leftover = 0 \/ a.leftover > MaxCalls
    BY <2>1 DEF LongLeftovers
  <2>3. session' # "closed"
    BY <1>10 DEF Execute
  <2> QED BY <1>10, <2>1, <2>2, <2>3, OwnAnswer DEF Execute, Handled
<1> QED BY <1>1, <1>2, <1>3, <1>4, <1>5, <1>6, <1>7, <1>8, <1>9, <1>10, OwnReceive, OwnUnusable
        DEF Next, ClientReturns, ServerStep

(* "Every call performs one request/response exchange": whatever calls were  *)
(* refused, cut off or undecodable, the answer a method hands to its caller   *)
(* was made for that call, unless the payload of an answer longer than        *)
(* max_frame_bytes is read to its end (expect_frame of src/client.cpp).       *)
THEOREM AnswersAreOwn == ASSUME LongLeftovers PROVE Spec => []AnswerIsOwn
<1>1. Init => OwnInv
  <2> SUFFICES ASSUME Init PROVE OwnInv
    OBVIOUS
  <2>1. AnswerIsOwn
    BY DEF Init, AnswerIsOwn
  <2> QED BY <2>1 DEF Init, OwnInv
<1>2. WireTypeOK /\ StreamsOK /\ OwnInv /\ [Next]_vars => OwnInv'
  BY OwnKept
<1>3. OwnInv => AnswerIsOwn
  BY DEF OwnInv
<1> QED BY <1>1, <1>2, <1>3, StreamsAlwaysOK, PTL DEF Spec

-----------------------------------------------------------------------------
(* No call is executed twice.                                                *)

\* A call on its way has not been executed, and is on its way once.
WaitingOnce ==
  /\ \A i \in DOMAIN requests : executed[requests[i].of] = 0
  /\ \A i, j \in DOMAIN requests : i # j => requests[i].of # requests[j].of

\* What was answered with Ok was executed.
AnsweredExecuted ==
  \A i \in DOMAIN answers : answers[i].status = "Ok" => executed[answers[i].of] = 1

\* The call whose answer reported success was executed; one refused locally
\* was not and will not be.
ReturnedFits ==
  /\ returned.outcome = "Ok" => returned.of \in 1..calls /\ executed[returned.of] = 1
  /\ returned.outcome = "local" =>
       /\ returned.call \in 1..calls /\ executed[returned.call] = 0
       /\ \A i \in DOMAIN requests : requests[i].of # returned.call

ExecutedOnce ==
  \A n \in 1..MaxCalls : executed[n] \in {0, 1} /\ (n > calls => executed[n] = 0)

\* The same of the frames of connections that were replaced.
AbandonedOnce ==
  /\ \A f \in abandoned : executed[f.of] = 0
  /\ \A f, g \in abandoned : f # g => f.of # g.of
  /\ \A f \in abandoned : \A i \in DOMAIN requests : f.of # requests[i].of
  /\ returned.outcome = "local" => \A f \in abandoned : f.of # returned.call

ExecInv ==
  /\ ExecutedOnce /\ WaitingOnce /\ AnsweredExecuted /\ ReturnedFits
  /\ AbandonedOnce

(* Frames leave the streams, and nothing is executed.                        *)
LEMMA ExecLeaves ==
  ASSUME ExecInv, Rest(requests', requests), UNCHANGED <<calls, executed>>,
         abandoned' \subseteq abandoned,
         \/ Rest(answers', answers)
         \/ \E b : /\ 1 \in DOMAIN answers /\ Replaced(answers', answers, b)
                   /\ b.of = answers[1].of /\ b.status = answers[1].status
  PROVE  /\ ExecutedOnce' /\ WaitingOnce' /\ AnsweredExecuted'
         /\ UNCHANGED returned \/ returned'.outcome \notin {"Ok", "local"}
              => ReturnedFits' /\ AbandonedOnce'
<1>1. PICK k \in {0, 1} :
        \A i \in DOMAIN requests' : i + k \in DOMAIN requests /\ requests'[i] = requests[i + k]
  BY DEF Rest
<1>2. /\ IsStream(requests')
      /\ \A i \in DOMAIN requests' : i \in Nat
  <2>1. IsStream(requests')
    BY DEF Rest
  <2> QED BY <2>1, StreamBasics
<1>3. ExecutedOnce'
  BY DEF ExecInv, ExecutedOnce
<1>4. WaitingOnce'
  <2>1. \A i \in DOMAIN requests' : executed'[requests'[i].of] = 0
    BY <1>1 DEF ExecInv, WaitingOnce
  <2>2. ASSUME NEW i \in DOMAIN requests', NEW j \in DOMAIN requests', i # j
        PROVE  requests'[i].of # requests'[j].of
    <3>1. /\ i + k \in DOMAIN requests /\ j + k \in DOMAIN requests
          /\ requests'[i] = requests[i + k] /\ requests'[j] = requests[j + k]
      BY <1>1
    <3>2. i + k # j + k
      BY <1>2, <2>2
    <3> QED BY <3>1, <3>2 DEF ExecInv, WaitingOnce
  <2> QED BY <2>1, <2>2 DEF WaitingOnce
<1>5. AnsweredExecuted'
  <2>1. ASSUME NEW i \in DOMAIN answers'
        PROVE  \E j \in DOMAIN answers : /\ answers'[i].of = answers[j].of
                                         /\ answers'[i].status = answers[j].status
    BY DEF Rest, Replaced
  <2> QED BY <2>1 DEF ExecInv, AnsweredExecuted
<1>6. ASSUME UNCHANGED returned PROVE ReturnedFits'
  <2>1. returned.outcome = "Ok" => returned.of \in 1..calls /\ executed[returned.of] = 1
    BY DEF ExecInv, ReturnedFits
  <2>2. ASSUME returned.outcome = "local"
        PROVE  /\ returned.call \in 1..calls /\ executed[returned.call] = 0
               /\ \A i \in DOMAIN requests' : requests'[i].of # returned.call
    BY <1>1, <2>2 DEF ExecInv, ReturnedFits
  <2> QED BY <1>6, <2>1, <2>2 DEF ReturnedFits
<1>7. ASSUME returned'.outcome \notin {"Ok", "local"} PROVE ReturnedFits'
  BY <1>7 DEF ReturnedFits
<1>8. ASSUME UNCHANGED returned \/ returned'.outcome \notin {"Ok", "local"} PROVE AbandonedOnce'
  <2>1. ASSUME NEW f \in abandoned'
        PROVE  executed'[f.of] = 0 /\ \A i \in DOMAIN requests' : f.of # requests'[i].of
    BY <1>1 DEF ExecInv, AbandonedOnce
  <2>2. \A f, g \in abandoned' : f # g => f.of # g.of
    BY DEF ExecInv, AbandonedOnce
  <2>3. returned'.outcome = "local" => \A f \in abandoned' : f.of # returned'.call
    BY <1>8 DEF ExecInv, AbandonedOnce
  <2> QED BY <2>1, <2>2, <2>3 DEF AbandonedOnce
<1> QED BY <1>3, <1>4, <1>5, <1>6, <1>7, <1>8

(* A call counts, and nothing is executed.                                   *)
LEMMA ExecCalls ==
  ASSUME WireTypeOK, ExecInv, calls < MaxCalls, calls' = calls + 1, UNCHANGED executed
  PROVE  /\ ExecutedOnce' /\ executed[calls + 1] = 0 /\ calls + 1 \in 1..calls'
         /\ \A i \in DOMAIN requests : requests[i].of # calls + 1
         /\ \A f \in abandoned : f.of # calls + 1
         /\ \A n \in 1..calls : n \in 1..calls' /\ n # calls + 1
<1>1. calls \in Nat /\ MaxCalls \in Nat /\ calls + 1 \in 1..MaxCalls /\ calls + 1 > calls
  BY WireAssumption DEF WireTypeOK
<1>2. executed[calls + 1] = 0
  BY <1>1 DEF ExecInv, ExecutedOnce
<1>3. ExecutedOnce'
  BY <1>1 DEF ExecInv, ExecutedOnce
<1>4. \A n \in 1..calls : n \in 1..calls' /\ n # calls + 1
  BY <1>1
<1>5. /\ \A i \in DOMAIN requests : requests[i].of # calls + 1
      /\ \A f \in abandoned : f.of # calls + 1
  BY <1>4 DEF WireTypeOK
<1> QED BY <1>1, <1>2, <1>3, <1>4, <1>5

LEMMA ExecRefused ==
  ASSUME WireTypeOK, ExecInv, calls < MaxCalls, calls' = calls + 1,
         UNCHANGED <<executed, requests, abandoned, answers>>,
         NEW outcome \in {"local", "disconnected"},
         returned' = [call |-> calls + 1, outcome |-> outcome, of |-> 0]
  PROVE  ExecInv'
<1>1. WaitingOnce' /\ AnsweredExecuted'
  BY DEF ExecInv, WaitingOnce, AnsweredExecuted
<1>2. returned'.outcome # "Ok" /\ returned'.call = calls + 1
  OBVIOUS
<1>3. ReturnedFits'
  BY <1>2, ExecCalls DEF ReturnedFits
<1>4. AbandonedOnce'
  BY <1>2, ExecCalls DEF ExecInv, AbandonedOnce
<1> QED BY <1>1, <1>3, <1>4, ExecCalls DEF ExecInv

LEMMA ExecSend ==
  ASSUME WireTypeOK, StreamsOK, ExecInv, NEW f, NEW op, f.of = calls + 1, Send(f, op)
  PROVE  ExecInv'
<1>1. calls < MaxCalls /\ calls' = calls + 1 /\ UNCHANGED <<executed, abandoned, answers>>
  BY SendEffect
<1>2. /\ ExecutedOnce' /\ executed[calls + 1] = 0
      /\ \A i \in DOMAIN requests : requests[i].of # calls + 1
      /\ \A g \in abandoned : g.of # calls + 1
      /\ \A n \in 1..calls : n \in 1..calls' /\ n # calls + 1
  BY <1>1, ExecCalls
<1>3. AnsweredExecuted'
  BY <1>1 DEF ExecInv, AnsweredExecuted
<1>4. CASE UNCHANGED requests /\ ~UNCHANGED returned
  <2>1. PICK o \in {"local", "disconnected"} :
          returned' = [call |-> calls + 1, outcome |-> o, of |-> 0]
    BY <1>4, SendEffect
  <2> QED BY <1>1, <1>4, <2>1, ExecRefused
<1>5. CASE UNCHANGED <<requests, returned>>
  <2>1. WaitingOnce'
    BY <1>1, <1>5 DEF ExecInv, WaitingOnce
  <2>2. ReturnedFits'
    BY <1>1, <1>2, <1>5 DEF ExecInv, ReturnedFits
  <2>3. AbandonedOnce'
    BY <1>1, <1>5 DEF ExecInv, AbandonedOnce
  <2> QED BY <1>2, <1>3, <2>1, <2>2, <2>3 DEF ExecInv
<1>6. CASE Longer(requests', requests, f) /\ UNCHANGED returned
  <2>1. \A i \in DOMAIN requests' :
          \/ requests'[i] = f /\ i = Len(requests) + 1 /\ i \notin DOMAIN requests
          \/ i \in DOMAIN requests /\ requests'[i] = requests[i]
    BY <1>6 DEF Longer
  <2>2. WaitingOnce'
    <3>1. \A i \in DOMAIN requests' : executed'[requests'[i].of] = 0
      BY <1>1, <1>2, <2>1 DEF ExecInv, WaitingOnce
    <3>2. ASSUME NEW i \in DOMAIN requests', NEW j \in DOMAIN requests', i # j
          PROVE  requests'[i].of # requests'[j].of
      BY <1>2, <2>1, <3>2 DEF ExecInv, WaitingOnce
    <3> QED BY <3>1, <3>2 DEF WaitingOnce
  <2>3. ReturnedFits'
    BY <1>1, <1>2, <1>6, <2>1 DEF ExecInv, ReturnedFits
  <2>4. AbandonedOnce'
    BY <1>1, <1>2, <1>6, <2>1 DEF ExecInv, AbandonedOnce
  <2> QED BY <1>2, <1>3, <2>2, <2>3, <2>4 DEF ExecInv
<1> QED BY <1>4, <1>5, <1>6, SendEffect

LEMMA ExecReject ==
  ASSUME WireTypeOK, StreamsOK, ExecInv, Reject
  PROVE  ExecInv'
<1>1. /\ requests' = <<>> /\ DOMAIN requests' = {} /\ IsStream(answers)
      /\ UNCHANGED <<calls, executed, returned, abandoned>>
  BY EmptyStream DEF Reject, StreamsOK
<1>2. PICK a : a.status # "Ok" /\ answers' = Sent(a)
  BY RejectAnswer DEF WireTypeOK
<1>3. AnsweredExecuted'
  <2>1. CASE answers' = answers
    BY <1>1, <2>1 DEF ExecInv, AnsweredExecuted
  <2>2. CASE Longer(answers', answers, a)
    <3>1. \A i \in DOMAIN answers' :
            answers'[i] = a \/ (i \in DOMAIN answers /\ answers'[i] = answers[i])
      BY <2>2 DEF Longer
    <3> QED BY <1>1, <1>2, <3>1 DEF ExecInv, AnsweredExecuted
  <2> QED BY <1>1, <1>2, <2>1, <2>2, SentAnswer
<1>4. ExecutedOnce' /\ WaitingOnce' /\ ReturnedFits' /\ AbandonedOnce'
  BY <1>1 DEF ExecInv, ExecutedOnce, WaitingOnce, ReturnedFits, AbandonedOnce
<1> QED BY <1>3, <1>4 DEF ExecInv

LEMMA ExecExecute ==
  ASSUME WireTypeOK, StreamsOK, ExecInv, Execute
  PROVE  ExecInv'
<1> DEFINE n == requests[1].of
<1>1. /\ IsStream(requests) /\ IsStream(answers) /\ requests # <<>> /\ 1 \in DOMAIN requests
      /\ Head(requests) = requests[1]
      /\ requests' = Tail(requests) /\ UNCHANGED <<calls, returned, abandoned>>
      /\ executed' = [executed EXCEPT ![n] = @ + 1]
      /\ executed \in [1..MaxCalls -> Nat]
  BY StreamBasics DEF Execute, Handled, StreamsOK, WireTypeOK
<1>2. n \in 1..calls /\ n \in 1..MaxCalls /\ executed[n] = 0 /\ ~(n > calls)
  BY <1>1, WireAssumption DEF WireTypeOK, ExecInv, WaitingOnce
<1>3. PICK a : a.of = n /\ answers' = Sent(a)
  BY ExecuteAnswer DEF WireTypeOK
<1> HIDE DEF n
<1>4. executed'[n] = 1 /\ \A m \in 1..MaxCalls : m # n => executed'[m] = executed[m]
  BY <1>1, <1>2
<1>5. \A m \in 1..calls : m \in 1..MaxCalls
  BY WireAssumption DEF WireTypeOK
<1>6. ExecutedOnce'
  BY <1>1, <1>2, <1>4 DEF ExecInv, ExecutedOnce
<1>7. /\ DOMAIN requests = 1..Len(requests) /\ Len(requests) \in Nat
      /\ DOMAIN requests' = 1..(Len(requests) - 1)
      /\ \A i \in DOMAIN requests' : /\ i + 1 \in DOMAIN requests /\ i + 1 # 1
                                     /\ requests'[i] = requests[i + 1]
  <2>1. PICK S : requests \in Seq(S)
    BY <1>1 DEF IsStream
  <2>2. /\ Len(requests) \in Nat /\ DOMAIN requests = 1..Len(requests)
        /\ DOMAIN requests' = 1..(Len(requests) - 1)
        /\ \A i \in 1..(Len(requests) - 1) : requests'[i] = requests[i + 1]
    BY <1>1, <2>1
  <2> QED BY <2>2
<1>8. \A i \in DOMAIN requests' : /\ requests'[i].of # n /\ requests'[i].of \in 1..MaxCalls
                                  /\ executed[requests'[i].of] = 0
  <2> TAKE i \in DOMAIN requests'
  <2>1. i + 1 \in DOMAIN requests /\ i + 1 # 1 /\ requests'[i] = requests[i + 1]
    BY <1>7
  <2>2. requests[i + 1].of # n /\ executed[requests[i + 1].of] = 0
    BY <1>1, <2>1 DEF ExecInv, WaitingOnce, n
  <2>3. requests[i + 1].of \in 1..MaxCalls
    BY <1>5, <2>1 DEF WireTypeOK
  <2> QED BY <2>1, <2>2, <2>3
<1>9. WaitingOnce'
  <2>1. \A i \in DOMAIN requests' : executed'[requests'[i].of] = 0
    BY <1>4, <1>8
  <2>2. ASSUME NEW i \in DOMAIN requests', NEW j \in DOMAIN requests', i # j
        PROVE  requests'[i].of # requests'[j].of
    <3>1. i + 1 # j + 1
      BY <1>7, <2>2
    <3> QED BY <1>7, <3>1 DEF ExecInv, WaitingOnce
  <2> QED BY <2>1, <2>2 DEF WaitingOnce
<1>10. AnsweredExecuted'
  <2>1. \A i \in DOMAIN answers : answers[i].status = "Ok" => executed'[answers[i].of] = 1
    <3> SUFFICES ASSUME NEW i \in DOMAIN answers, answers[i].status = "Ok"
                 PROVE  executed'[answers[i].of] = 1
      OBVIOUS
    <3>1. executed[answers[i].of] = 1 /\ answers[i].of \in 1..MaxCalls
      BY <1>5 DEF ExecInv, AnsweredExecuted, WireTypeOK
    <3> QED BY <1>4, <3>1
  <2>2. \/ answers' = answers
        \/ \A i \in DOMAIN answers' :
             answers'[i] = a \/ (i \in DOMAIN answers /\ answers'[i] = answers[i])
    <3>1. CASE Longer(answers', answers, a)
      BY <3>1 DEF Longer
    <3> QED BY <1>1, <1>3, <3>1, SentAnswer
  <2> QED BY <1>3, <1>4, <2>1, <2>2 DEF AnsweredExecuted
<1>11. ReturnedFits'
  <2>1. ASSUME returned.outcome = "Ok"
        PROVE  returned.of \in 1..calls /\ executed'[returned.of] = 1
    <3>1. returned.of \in 1..calls /\ executed[returned.of] = 1
      BY <2>1 DEF ExecInv, ReturnedFits
    <3> QED BY <1>4, <1>5, <3>1
  <2>2. ASSUME returned.outcome = "local"
        PROVE  /\ returned.call \in 1..calls /\ executed'[returned.call] = 0
               /\ \A i \in DOMAIN requests' : requests'[i].of # returned.call
    <3>1. /\ returned.call \in 1..calls /\ executed[returned.call] = 0
          /\ \A i \in DOMAIN requests : requests[i].of # returned.call
      BY <2>2 DEF ExecInv, ReturnedFits
    <3>2. returned.call # n
      BY <1>1, <3>1 DEF n
    <3> QED BY <1>4, <1>5, <1>7, <3>1, <3>2
  <2> QED BY <1>1, <2>1, <2>2 DEF ReturnedFits
<1>12. AbandonedOnce'
  <2>1. ASSUME NEW f \in abandoned
        PROVE  executed'[f.of] = 0 /\ \A i \in DOMAIN requests' : f.of # requests'[i].of
    <3>1. /\ f.of \in 1..MaxCalls /\ executed[f.of] = 0 /\ f.of # n
          /\ \A i \in DOMAIN requests : f.of # requests[i].of
      BY <1>1, <1>5 DEF WireTypeOK, ExecInv, AbandonedOnce, n
    <3> QED BY <1>4, <1>7, <3>1
  <2> QED BY <1>1, <2>1 DEF ExecInv, AbandonedOnce
<1> QED BY <1>6, <1>9, <1>10, <1>11, <1>12 DEF ExecInv

(* The session of a connection that was replaced executes a frame.           *)
LEMMA ExecAbandoned ==
  ASSUME WireTypeOK, StreamsOK, ExecInv, NEW f \in abandoned, ExecuteAbandoned(f)
  PROVE  ExecInv'
<1> DEFINE n == f.of
<1>1. /\ UNCHANGED <<calls, requests, answers, returned>>
      /\ abandoned' = abandoned \ {f}
      /\ executed' = [executed EXCEPT ![n] = @ + 1]
      /\ executed \in [1..MaxCalls -> Nat]
  BY DEF ExecuteAbandoned, WireTypeOK
<1>2. n \in 1..calls /\ n \in 1..MaxCalls /\ executed[n] = 0 /\ ~(n > calls)
  BY WireAssumption DEF WireTypeOK, ExecInv, AbandonedOnce
<1>3. /\ \A i \in DOMAIN requests : requests[i].of # n
      /\ \A g \in abandoned' : g \in abandoned /\ g.of # n
      /\ returned.outcome = "local" => returned.call # n
  BY <1>1 DEF ExecInv, AbandonedOnce
<1> HIDE DEF n
<1>4. executed'[n] = 1 /\ \A m \in 1..MaxCalls : m # n => executed'[m] = executed[m]
  BY <1>1, <1>2
<1>5. \A m \in 1..calls : m \in 1..MaxCalls
  BY WireAssumption DEF WireTypeOK
<1>6. ExecutedOnce'
  BY <1>1, <1>2, <1>4 DEF ExecInv, ExecutedOnce
<1>7. WaitingOnce'
  BY <1>1, <1>3, <1>4, <1>5 DEF ExecInv, WaitingOnce, WireTypeOK
<1>8. AnsweredExecuted'
  <2> SUFFICES ASSUME NEW i \in DOMAIN answers, answers[i].status = "Ok"
               PROVE  executed'[answers[i].of] = 1
    BY <1>1 DEF AnsweredExecuted
  <2>1. executed[answers[i].of] = 1 /\ answers[i].of \in 1..MaxCalls
    BY <1>5 DEF ExecInv, AnsweredExecuted, WireTypeOK
  <2> QED BY <1>4, <2>1
<1>9. ReturnedFits'
  <2>1. ASSUME returned.outcome = "Ok"
        PROVE  returned.of \in 1..calls /\ executed'[returned.of] = 1
    <3>1. returned.of \in 1..calls /\ executed[returned.of] = 1
      BY <2>1 DEF ExecInv, ReturnedFits
    <3> QED BY <1>4, <1>5, <3>1
  <2>2. ASSUME returned.outcome = "local"
        PROVE  /\ returned.call \in 1..calls /\ executed'[returned.call] = 0
               /\ \A i \in DOMAIN requests : requests[i].of # returned.call
    <3>1. /\ returned.call \in 1..calls /\ executed[returned.call] = 0
          /\ \A i \in DOMAIN requests : requests[i].of # returned.call
      BY <2>2 DEF ExecInv, ReturnedFits
    <3> QED BY <1>3, <1>4, <1>5, <2>2, <3>1
  <2> QED BY <1>1, <2>1, <2>2 DEF ReturnedFits
<1>10. AbandonedOnce'
  <2>1. ASSUME NEW g \in abandoned' PROVE executed'[g.of] = 0
    <3>1. g.of \in 1..MaxCalls /\ executed[g.of] = 0 /\ g.of # n
      BY <1>3, <1>5 DEF WireTypeOK, ExecInv, AbandonedOnce
    <3> QED BY <1>4, <3>1
  <2> QED BY <1>1, <1>3, <2>1 DEF ExecInv, AbandonedOnce
<1> QED BY <1>6, <1>7, <1>8, <1>9, <1>10 DEF ExecInv

(* A new connection leaves the frames of the old one to its session.         *)
LEMMA ExecConnect ==
  ASSUME ExecInv, Connect
  PROVE  ExecInv'
<1>1. /\ requests' = <<>> /\ answers' = <<>> /\ DOMAIN <<>> = {}
      /\ UNCHANGED <<calls, executed, returned>>
  BY EmptyStream DEF Connect
<1>2. \A f \in abandoned' : f \in abandoned \/ \E i \in DOMAIN requests : f = requests[i]
  BY DEF Connect, Range
<1>3. ExecutedOnce' /\ WaitingOnce' /\ AnsweredExecuted' /\ ReturnedFits'
  BY <1>1 DEF ExecInv, ExecutedOnce, WaitingOnce, AnsweredExecuted, ReturnedFits
<1>4. AbandonedOnce'
  <2>1. \A f \in abandoned' : executed'[f.of] = 0
    BY <1>1, <1>2 DEF ExecInv, AbandonedOnce, WaitingOnce
  <2>2. ASSUME NEW f \in abandoned', NEW g \in abandoned', f # g PROVE f.of # g.of
    BY <1>2, <2>2 DEF ExecInv, AbandonedOnce, WaitingOnce
  <2>3. returned'.outcome = "local" => \A f \in abandoned' : f.of # returned'.call
    BY <1>1, <1>2 DEF ExecInv, AbandonedOnce, ReturnedFits
  <2> QED BY <1>1, <2>1, <2>2, <2>3 DEF AbandonedOnce
<1> QED BY <1>3, <1>4 DEF ExecInv

LEMMA ExecReceive ==
  ASSUME WireTypeOK, StreamsOK, ExecInv, Receive
  PROVE  ExecInv'
<1>1. /\ IsStream(requests) /\ IsStream(answers) /\ answers # <<>> /\ 1 \in DOMAIN answers
      /\ answers' = Tail(answers) /\ requests' = requests
      /\ UNCHANGED <<calls, executed, abandoned>>
  BY StreamBasics DEF Receive, Unread, StreamsOK
<1>2. ExecutedOnce' /\ WaitingOnce' /\ AnsweredExecuted'
  BY <1>1, StreamRests, ExecLeaves
<1>3. returned' = [call |-> calls, outcome |-> Outcome(answers[1]), of |-> answers[1].of]
  BY <1>1, StreamBasics DEF Receive, Return
<1>4. AnswerOK(answers[1]) /\ answers[1].of \in 1..calls
  BY <1>1 DEF StreamsOK, WireTypeOK
<1>5. Outcome(answers[1]) = "Ok" => executed[answers[1].of] = 1
  BY <1>1, <1>4, OutcomeOf DEF ExecInv, AnsweredExecuted
<1>6. Outcome(answers[1]) # "local"
  BY <1>4, OutcomeOf
<1>7. ReturnedFits'
  BY <1>1, <1>3, <1>4, <1>5, <1>6 DEF ReturnedFits
<1>8. AbandonedOnce'
  BY <1>1, <1>3, <1>6 DEF ExecInv, AbandonedOnce
<1> QED BY <1>2, <1>7, <1>8 DEF ExecInv

LEMMA ExecKept ==
  ASSUME WireTypeOK, StreamsOK, ExecInv, [Next]_vars
  PROVE  ExecInv'
<1>1. /\ IsStream(requests) /\ IsStream(answers)
      /\ Rest(requests, requests) /\ Rest(answers, answers)
      /\ Rest(<<>>, requests) /\ Rest(<<>>, answers)
  BY StreamRests DEF StreamsOK
<1>2. ASSUME \/ Close \/ SetIdentity \/ NextAttempt \/ Accept \/ AcceptorEnds \/ DropSession
             \/ EndSession \/ Reset \/ AdvanceEpoch \/ UNCHANGED vars
             \/ \E f \in abandoned : LoseAbandoned(f)
      PROVE  ExecInv'
  <2>1. /\ requests' \in {requests, <<>>} /\ answers' \in {answers, <<>>}
        /\ UNCHANGED <<calls, executed, returned>> /\ abandoned' \subseteq abandoned
    <3>1. CASE Close \/ SetIdentity \/ NextAttempt \/ UNCHANGED vars
      BY <3>1 DEF Close, SetIdentity, NextAttempt, vars
    <3>2. CASE Accept \/ AcceptorEnds \/ DropSession \/ EndSession \/ Reset \/ AdvanceEpoch
      BY <3>2 DEF Accept, AcceptorEnds, DropSession, EndSession, Reset, AdvanceEpoch
    <3>3. CASE \E f \in abandoned : LoseAbandoned(f)
      BY <3>3 DEF LoseAbandoned
    <3> QED BY <1>2, <3>1, <3>2, <3>3
  <2>2. Rest(requests', requests) /\ Rest(answers', answers)
    BY <1>1, <2>1
  <2> QED BY <2>1, <2>2, ExecLeaves DEF ExecInv
<1>3. ASSUME ReceiveClosed PROVE ExecInv'
  <2>1. /\ UNCHANGED <<requests, answers, calls, executed, abandoned>>
        /\ returned'.outcome \notin {"Ok", "local"}
    BY <1>3 DEF ReceiveClosed, Return
  <2> QED BY <1>1, <2>1, ExecLeaves DEF ExecInv
<1>4. ASSUME ReceiveUnusable PROVE ExecInv'
  <2>1. /\ UNCHANGED <<requests, calls, executed, abandoned>> /\ 1 \in DOMAIN answers
        /\ returned'.outcome \notin {"Ok", "local"}
    BY <1>1, <1>4, StreamBasics DEF ReceiveUnusable, Return
  <2>2. \/ Rest(answers', answers)
        \/ \E b : /\ Replaced(answers', answers, b)
                  /\ b.of = answers[1].of /\ b.status = answers[1].status
    BY <1>4, UnusableEffect
  <2> QED BY <1>1, <2>1, <2>2, ExecLeaves DEF ExecInv
<1>5. ASSUME NEW op \in Ops, RefuseLocally(op) PROVE ExecInv'
  BY <1>5, ExecRefused DEF RefuseLocally, Return
<1>6. ASSUME NEW op \in Ops, Call(op) PROVE ExecInv'
  BY <1>6, CallFrame, ExecSend
<1>7. ASSUME NEW kind \in Raws, CallRaw(kind) PROVE ExecInv'
  BY <1>7, RawFrame, ExecSend
<1> QED BY <1>2, <1>3, <1>4, <1>5, <1>6, <1>7, ExecReceive, ExecReject, ExecExecute,
           ExecAbandoned, ExecConnect
        DEF Next, ClientReturns, ServerStep

LEMMA ExecAlways == Spec => []ExecInv
<1>1. Init => ExecInv
  <2> SUFFICES ASSUME Init PROVE ExecInv
    OBVIOUS
  <2>1. DOMAIN requests = {} /\ DOMAIN answers = {}
    BY EmptyStream DEF Init
  <2> QED BY <2>1 DEF Init, ExecInv, ExecutedOnce, WaitingOnce, AnsweredExecuted, ReturnedFits,
                  AbandonedOnce
<1>2. WireTypeOK /\ StreamsOK /\ ExecInv /\ [Next]_vars => ExecInv'
  BY ExecKept
<1> QED BY <1>1, <1>2, StreamsAlwaysOK, PTL DEF Spec

\* No call is executed twice, and a success is the answer of a call that was.
ExecutedAtMostOnce ==
  /\ \A n \in 1..MaxCalls : executed[n] <= 1
  /\ returned.outcome = "Ok" => executed[returned.of] = 1
  /\ returned.outcome = "local" => executed[returned.call] = 0

(* The runtime executes no call twice, and no call that the client refused;   *)
(* whatever is lost, reset, over-long or read out of step, a success is the    *)
(* answer of a call that was executed (the frame leaves the buffer of the      *)
(* session before handle is called, src/server.cpp).                          *)
THEOREM NothingExecutesTwice == Spec => []ExecutedAtMostOnce
<1>1. ExecInv => ExecutedAtMostOnce
  BY DEF ExecInv, ExecutedOnce, ReturnedFits, ExecutedAtMostOnce
<1> QED BY <1>1, ExecAlways, PTL

(* "The client never retries a mutation on its own": no call is executed      *)
(* twice, a call that returned success was itself executed, and one that was   *)
(* refused locally was not.                                                    *)
THEOREM CallsExecuteOnce == ASSUME LongLeftovers PROVE Spec => []OneExecution
<1>1. WireTypeOK /\ ExecInv /\ AnswerIsOwn => OneExecution
  <2> SUFFICES ASSUME WireTypeOK, ExecInv, AnswerIsOwn PROVE OneExecution
    OBVIOUS
  <2>1. \A n \in 1..MaxCalls : executed[n] <= 1
    BY DEF ExecInv, ExecutedOnce
  <2>2. ASSUME returned.outcome = "Ok" PROVE executed[returned.call] = 1
    <3>1. returned.of \in 1..calls /\ executed[returned.of] = 1
      BY <2>2 DEF ExecInv, ReturnedFits
    <3>2. returned.of # 0
      BY <3>1
    <3> QED BY <3>1, <3>2 DEF AnswerIsOwn
  <2>3. returned.outcome = "local" => executed[returned.call] = 0
    BY DEF ExecInv, ReturnedFits
  <2> QED BY <2>1, <2>2, <2>3 DEF OneExecution
<1> QED BY <1>1, WireTypeCorrect, ExecAlways, AnswersAreOwn, PTL
=============================================================================
