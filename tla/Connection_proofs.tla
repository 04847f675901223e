-------------------------- MODULE Connection_proofs --------------------------
(***************************************************************************)
(* For any set of requests and infos, any number of references and any     *)
(* handlers: the types are right, replies are matched to the requests they *)
(* answer, handlers are called in the order of the calls, and no handler   *)
(* waits for nothing.  First TypeOK, then OnePlacePerRequest, which the    *)
(* later invariants (NestedWaits, InSendingOrder and EveryRequestOnItsWay) *)
(* rest on.                                                                *)
(***************************************************************************)
EXTENDS ConnectionInvariant, TokenList_proofs

LEMMA Sides ==
  ASSUME NEW s \in Side
  PROVE  Other(s) \in Side /\ Other(s) # s /\ Other(Other(s)) = s
BY DEF Side, Other

\* The fields of a frame, by its type.
LEMMA FrameShape ==
  ASSUME NEW m \in Frame
  PROVE  /\ m.type = "REQUEST" => m \in RequestMessage /\ m.body \in Request
                                                       /\ m.userReference \in Token
         /\ m.type \in ReplyType => m \in ReplyMessage /\ m.body \in Request
                                                       /\ m.userReference \in Token
         /\ m.type = "INFO" => m \in InfoMessage /\ m.body \in Info
         /\ "body" \in DOMAIN m => m.body \in Request \cup Info /\ m \notin ControlFrame
         /\ m.type \in {"REQUEST", "INFO"} \cup ReplyType => "body" \in DOMAIN m
<1>1. CASE m \in RequestMessage
  BY <1>1 DEF RequestMessage, ReplyType, ControlFrame
<1>2. CASE m \in ReplyMessage
  BY <1>2 DEF ReplyMessage, ReplyType, ControlFrame
<1>3. CASE m \in InfoMessage
  BY <1>3 DEF InfoMessage, ReplyType, ControlFrame
<1>4. CASE m \in ControlFrame
  BY <1>4 DEF ControlFrame, ReplyType
<1> QED  BY <1>1, <1>2, <1>3, <1>4 DEF Frame

LEMMA TaskShape ==
  ASSUME NEW k \in Task
  PROVE  /\ k.pc \in {"invoke", "running", "reply", "callback"}
         /\ k.pc \in {"invoke", "running"} => k.message \in RequestMessage
         /\ k.pc = "reply" => k.message \in ReplyMessage
         /\ k.pc # "callback" => /\ k.message.body \in Request
                                 /\ k.message.userReference \in Token
                                 /\ k.message \in Frame
         /\ k.pc = "callback" => k.handler \in Request /\ k.body \in Request
<1>1. CASE k \in [pc : {"invoke", "running"}, message : RequestMessage]
  BY <1>1 DEF RequestMessage, Frame
<1>2. CASE k \in [pc : {"reply"}, message : ReplyMessage]
  BY <1>2 DEF ReplyMessage, Frame
<1>3. CASE k \in [pc : {"callback"}, handler : Request, body : Request]
  BY <1>3
<1> QED  BY <1>1, <1>2, <1>3 DEF Task

LEMMA ReplyShape ==
  ASSUME NEW m \in RequestMessage, NEW type \in ReplyType
  PROVE  /\ Reply(type, m) \in ReplyMessage /\ Reply(type, m) \in Frame
         /\ Reply(type, m).type = type /\ Reply(type, m).body = m.body
         /\ Reply(type, m).userReference = m.userReference
BY DEF Reply, RequestMessage, ReplyMessage, Frame

LEMMA ListElements ==
  ASSUME NEW E, NEW q \in Seq(E), NEW x \in ToSet(q)
  PROVE  x \in E
BY LenProperties, ElementOfSeq DEF ToSet

LEMMA HeadFrame ==
  ASSUME NEW q \in Seq(Frame), q # <<>>
  PROVE  Head(q) \in Frame /\ Tail(q) \in Seq(Frame)
BY HeadTailProperties
-----------------------------------------------------------------------------
LEMMA InitType == Init => TypeOK
<1> SUFFICES ASSUME Init PROVE TypeOK
  OBVIOUS
<1>1. /\ <<>> \in Seq(Frame) /\ <<>> \in Seq(Entry(Request))
      /\ <<>> \in Seq(Request \cup Info)
      /\ <<>> \in Seq([handler : Request, body : Request])
  BY EmptySeq
<1>2. 0 \in Token
  BY MaxTokenAssumption DEF Token
<1>3. "connecting" \in State /\ "idle" \in Stage
  BY DEF State, Stage
<1> QED  BY <1>1, <1>2, <1>3 DEF Init, TypeOK

\* What the helpers of WebSocket++ do to the queues.
LEMMA SendType ==
  ASSUME TypeOK, NEW s \in Side, NEW f \in Frame, Send(s, f)
  PROVE  wire' \in [Side -> Seq(Frame)]
<1>1. wire \in [Side -> Seq(Frame)] /\ Other(s) \in Side
  BY Sides DEF TypeOK
<1>2. Append(wire[Other(s)], f) \in Seq(Frame)
  BY <1>1, AppendProperties
<1> QED  BY <1>1, <1>2 DEF Send

LEMMA ReadType ==
  ASSUME TypeOK, NEW s \in Side, wire[s] # <<>>
  PROVE  /\ Received(s) \in Frame
         /\ Read(s) => wire' \in [Side -> Seq(Frame)]
         /\ \A f \in Frame : SendBack(s, f) => wire' \in [Side -> Seq(Frame)]
<1>1. wire \in [Side -> Seq(Frame)] /\ Other(s) \in Side /\ Other(s) # s
  BY Sides DEF TypeOK
<1>2. Head(wire[s]) \in Frame /\ Tail(wire[s]) \in Seq(Frame)
  BY <1>1, HeadFrame
<1>3. \A f \in Frame : Append(wire[Other(s)], f) \in Seq(Frame)
  BY <1>1, AppendProperties
<1>4. Read(s) => wire' \in [Side -> Seq(Frame)]
  BY <1>1, <1>2 DEF Read
<1>5. ASSUME NEW f \in Frame, SendBack(s, f) PROVE wire' \in [Side -> Seq(Frame)]
  BY <1>1, <1>2, <1>3, <1>5 DEF SendBack
<1> QED  BY <1>2, <1>4, <1>5 DEF Received

LEMMA StepType == TypeOK /\ [Next]_vars => TypeOK'
<1> SUFFICES ASSUME TypeOK, [Next]_vars PROVE TypeOK'
  OBVIOUS
<1>1. /\ \A x \in State : x \in {"connecting", "open", "closing", "closed"}
      /\ "open" \in State /\ "closing" \in State /\ "closed" \in State
      /\ "client" \in Side /\ "server" \in Side
  BY DEF State, Side
<1>2. /\ [type |-> "accept"] \in Frame /\ [type |-> "close"] \in Frame
  BY DEF Frame, ControlFrame
<1>3. {"pushed", "sent", "handling", "replying", "responding", "answered",
       "refused", "threw", "lost", "handled", "ignored"} \subseteq Stage
  BY DEF Stage
<1>4. ASSUME NEW s \in Side, NEW type, Arrived(s, type) PROVE wire[s] # <<>>
  BY <1>4 DEF Arrived
<1>5. ServerOpen => TypeOK'
  <2> SUFFICES ASSUME ServerOpen PROVE TypeOK'
    OBVIOUS
  <2>1. wire' \in [Side -> Seq(Frame)]
    <3>1. Append(wire["client"], [type |-> "accept"]) \in Seq(Frame)
      BY <1>1, <1>2, AppendProperties DEF TypeOK
    <3> QED  BY <1>1, <3>1 DEF ServerOpen, TypeOK
  <2> QED  BY <1>1, <2>1 DEF ServerOpen, TypeOK, histories
<1>6. ASSUME ClientOpen PROVE TypeOK'
  <2>1. wire["client"] # <<>> /\ Read("client")
    BY <1>4, <1>1, <1>6 DEF ClientOpen
  <2>2. wire' \in [Side -> Seq(Frame)]
    BY <1>1, <2>1, ReadType
  <2> QED  BY <1>1, <1>6, <2>2 DEF ClientOpen, TypeOK, histories
<1>7. ASSUME NEW s \in Side, ReceiveClose(s) PROVE TypeOK'
  <2>1. wire[s] # <<>> /\ (Read(s) \/ SendBack(s, [type |-> "close"]))
    BY <1>4, <1>7 DEF ReceiveClose
  <2>2. wire' \in [Side -> Seq(Frame)]
    BY <1>2, <2>1, ReadType
  <2>3. state' \in [Side -> State]
    BY <1>1, <1>7 DEF ReceiveClose, TypeOK
  <2> QED  BY <1>7, <2>2, <2>3 DEF ReceiveClose, TypeOK, histories
<1>8. ASSUME NEW s \in Side, Discard(s) PROVE TypeOK'
  <2>1. Received(s) \in Frame /\ wire' \in [Side -> Seq(Frame)]
    BY <1>8, ReadType DEF Discard
  <2>2. stage' \in [Request \cup Info -> Stage]
    BY <1>3, <1>8, <2>1, FrameShape DEF Discard, TypeOK
  <2> QED  BY <1>8, <2>1, <2>2 DEF Discard, TypeOK, histories
<1>9. ASSUME NEW s \in Side, Terminate(s) PROVE TypeOK'
  BY <1>1, <1>9 DEF Terminate, TypeOK, histories
<1>10. ASSUME NEW s \in Side, Close(s) PROVE TypeOK'
  BY <1>1, <1>2, <1>10, SendType DEF Close, TypeOK, histories
<1>11. ASSUME NEW s \in Side, SetInfoHandler(s) PROVE TypeOK'
  BY <1>11 DEF SetInfoHandler, TypeOK, histories
<1>12. ASSUME NEW s \in Side, SetRequestHandler(s) PROVE TypeOK'
  BY <1>12 DEF SetRequestHandler, TypeOK, histories
<1>13. ASSUME NEW r \in Request, SendRequestPush(r) PROVE TypeOK'
  <2> DEFINE s == Sender[r]
             c == responseHandlers[s]
  <2>1. s \in Side
    BY CallsAssumption
  <2>2. PICK t \in Token, p \in 1 .. Len(c) + 1 :
          /\ responseHandlers' = [responseHandlers EXCEPT ![s] = Emplace(c, p, t, r)]
          /\ userReference' = [userReference EXCEPT ![r] = t]
    BY <1>13 DEF SendRequestPush
  <2>3. c \in Seq(Entry(Request))
    BY <2>1 DEF TypeOK
  <2>4. Emplace(c, p, t, r) \in Seq(Entry(Request))
    BY <2>3, EmplaceEffect
  <2>5. responseHandlers' \in [Side -> Seq(Entry(Request))]
    BY <2>1, <2>2, <2>4 DEF TypeOK
  <2>6. userReference' \in [Request -> Token] /\ stage' \in [Request \cup Info -> Stage]
    BY <1>3, <1>13, <2>2 DEF SendRequestPush, TypeOK
  <2> QED  BY <1>13, <2>5, <2>6 DEF SendRequestPush, TypeOK, histories
<1>14. ASSUME NEW r \in Request, SendRequestThrows(r) PROVE TypeOK'
  BY <1>3, <1>14 DEF SendRequestThrows, TypeOK, histories
<1>15. ASSUME NEW x \in Request \cup Info, NEW s \in Side, Put(s, x)
       PROVE  put' \in [Side -> Seq(Request \cup Info)]
  <2>1. Append(put[s], x) \in Seq(Request \cup Info)
    BY AppendProperties DEF TypeOK
  <2> QED  BY <1>15, <2>1 DEF Put, TypeOK
<1>16. ASSUME NEW x \in Request \cup Info, NEW s \in Side, NEW on \in Stage,
              NEW off \in Stage, SentOr(s, x, on, off)
       PROVE  stage' \in [Request \cup Info -> Stage]
  BY <1>16 DEF SentOr, TypeOK
<1>17. ASSUME NEW r \in Request, SendRequestSend(r) PROVE TypeOK'
  <2> DEFINE m == [type |-> "REQUEST", userReference |-> userReference[r], body |-> r]
  <2>1. Sender[r] \in Side
    BY CallsAssumption
  <2>2. m \in Frame
    BY DEF TypeOK, Frame, RequestMessage
  <2>3. Send(Sender[r], m) /\ SentOr(Sender[r], r, "sent", "lost") /\ Put(Sender[r], r)
    BY <1>17 DEF SendRequestSend
  <2> HIDE DEF m
  <2>4. /\ wire' \in [Side -> Seq(Frame)]
        /\ stage' \in [Request \cup Info -> Stage]
        /\ put' \in [Side -> Seq(Request \cup Info)]
    BY <1>3, <1>15, <1>16, <2>1, <2>2, <2>3, SendType
  <2> QED  BY <1>17, <2>4 DEF SendRequestSend, TypeOK
<1>18. ASSUME NEW i \in Info, SendInfo(i) PROVE TypeOK'
  <2> DEFINE m == [type |-> "INFO", userReference |-> 0, body |-> i]
  <2>1. Sender[i] \in Side
    BY CallsAssumption
  <2>2. m \in Frame
    BY DEF TypeOK, Frame, InfoMessage
  <2>3. Send(Sender[i], m) /\ SentOr(Sender[i], i, "sent", "lost") /\ Put(Sender[i], i)
    BY <1>18 DEF SendInfo
  <2> HIDE DEF m
  <2>4. /\ wire' \in [Side -> Seq(Frame)]
        /\ stage' \in [Request \cup Info -> Stage]
        /\ put' \in [Side -> Seq(Request \cup Info)]
    BY <1>3, <1>15, <1>16, <2>1, <2>2, <2>3, SendType
  <2> QED  BY <1>18, <2>4 DEF SendInfo, TypeOK
<1>19. ASSUME NEW s \in Side, NEW type, OnMessage(s, type)
       PROVE  wire[s] # <<>> /\ Received(s) \in Frame /\ Received(s).type = type
  BY <1>19, ReadType DEF OnMessage, Arrived
<1>20. ASSUME NEW s \in Side, OnInfo(s) PROVE TypeOK'
  <2>1. wire[s] # <<>> /\ Received(s).body \in Info
    BY <1>19, <1>20, FrameShape DEF OnInfo
  <2>2. wire' \in [Side -> Seq(Frame)]
    BY <1>20, <2>1, ReadType DEF OnInfo
  <2>3. Append(handled[s], Received(s).body) \in Seq(Request \cup Info)
    BY <2>1, AppendProperties DEF TypeOK
  <2>4. handled' \in [Side -> Seq(Request \cup Info)]
    BY <1>20, <2>3 DEF OnInfo, TypeOK
  <2>5. stage' \in [Request \cup Info -> Stage]
    BY <1>3, <1>20, <2>1 DEF OnInfo, TypeOK
  <2> QED  BY <1>20, <2>2, <2>4, <2>5 DEF OnInfo, TypeOK
<1>21. ASSUME NEW s \in Side, OnRequest(s) PROVE TypeOK'
  <2>1. wire[s] # <<>> /\ Received(s) \in RequestMessage /\ Received(s).body \in Request
    BY <1>19, <1>21, FrameShape DEF OnRequest
  <2>2. wire' \in [Side -> Seq(Frame)]
    BY <1>21, <2>1, ReadType DEF OnRequest
  <2>3. [pc |-> "invoke", message |-> Received(s)] \in Task
    BY <2>1 DEF Task
  <2>4. tasks' \in [Side -> SUBSET Task]
    BY <1>21, <2>3 DEF OnRequest, TypeOK
  <2>5. stage' \in [Request \cup Info -> Stage]
    BY <1>3, <1>21, <2>1 DEF OnRequest, TypeOK
  <2> QED  BY <1>21, <2>2, <2>4, <2>5 DEF OnRequest, TypeOK, histories
<1>22. ASSUME NEW s \in Side, OnRequestNoHandler(s) PROVE TypeOK'
  <2>1. wire[s] # <<>> /\ Received(s) \in RequestMessage /\ Received(s).body \in Request
    BY <1>19, <1>22, FrameShape DEF OnRequestNoHandler
  <2>2. Reply("REQUESTERROR", Received(s)) \in Frame
    BY <2>1, ReplyShape DEF ReplyType
  <2>3. wire' \in [Side -> Seq(Frame)]
    BY <1>22, <2>1, <2>2, ReadType DEF OnRequestNoHandler
  <2>4. stage' \in [Request \cup Info -> Stage]
    BY <1>3, <1>22, <2>1 DEF OnRequestNoHandler, TypeOK
  <2> QED  BY <1>22, <2>3, <2>4 DEF OnRequestNoHandler, TypeOK, histories
<1>23. ASSUME NEW s \in Side, OnResponse(s) PROVE TypeOK'
  <2> DEFINE m == Received(s)
             c == responseHandlers[s]
  <2>1. wire[s] # <<>> /\ m.body \in Request
    BY <1>19, <1>23, FrameShape DEF OnResponse, ReplyType
  <2>2. wire' \in [Side -> Seq(Frame)]
    BY <1>23, <2>1, ReadType DEF OnResponse
  <2>3. PICK p \in 1 .. Len(c) + 1 :
          IF p \in DOMAIN c
          THEN /\ responseHandlers' = [responseHandlers EXCEPT ![s] = Erase(c, p)]
               /\ tasks' = [tasks EXCEPT ![s] = @ \cup
                    {[pc |-> "callback", handler |-> c[p].second, body |-> m.body]}]
               /\ stage' = [stage EXCEPT ![m.body] = "responding"]
          ELSE /\ stage' = [stage EXCEPT ![m.body] = "lost"]
               /\ UNCHANGED <<responseHandlers, tasks>>
    BY <1>23 DEF OnResponse
  <2>4. c \in Seq(Entry(Request))
    BY DEF TypeOK
  <2> HIDE DEF m, c
  <2>5. stage' \in [Request \cup Info -> Stage]
    BY <1>3, <2>1, <2>3 DEF TypeOK
  <2>6. responseHandlers' \in [Side -> Seq(Entry(Request))] /\ tasks' \in [Side -> SUBSET Task]
    <3>1. CASE p \in DOMAIN c
      <4>1. p \in 1 .. Len(c) /\ c[p].second \in Request
        BY <2>4, <3>1, ListTypes
      <4>2. Erase(c, p) \in Seq(Entry(Request))
        BY <2>4, <4>1, EraseEffect
      <4> DEFINE k == [pc |-> "callback", handler |-> c[p].second, body |-> m.body]
      <4>3. k \in Task
        BY <2>1, <4>1 DEF Task
      <4>4. /\ responseHandlers' = [responseHandlers EXCEPT ![s] = Erase(c, p)]
            /\ tasks' = [tasks EXCEPT ![s] = @ \cup {k}]
        BY <2>3, <3>1
      <4> HIDE DEF k
      <4>5. responseHandlers' \in [Side -> Seq(Entry(Request))]
        BY <4>2, <4>4 DEF TypeOK
      <4>6. tasks' \in [Side -> SUBSET Task]
        BY <4>3, <4>4 DEF TypeOK
      <4> QED  BY <4>5, <4>6
    <3>2. CASE p \notin DOMAIN c
      BY <2>3, <3>2 DEF TypeOK
    <3> QED  BY <3>1, <3>2
  <2> QED  BY <1>23, <2>2, <2>5, <2>6 DEF OnResponse, TypeOK, histories
<1>24. ASSUME NEW s \in Side, OnRequestError(s) PROVE TypeOK'
  <2>1. wire[s] # <<>> /\ Received(s).body \in Request
    BY <1>19, <1>24, FrameShape DEF OnRequestError, ReplyType
  <2>2. wire' \in [Side -> Seq(Frame)]
    BY <1>24, <2>1, ReadType DEF OnRequestError
  <2>3. stage' \in [Request \cup Info -> Stage]
    BY <1>3, <1>24, <2>1 DEF OnRequestError, TypeOK
  <2> QED  BY <1>24, <2>2, <2>3 DEF OnRequestError, TypeOK, histories
<1>25. ASSUME NEW s \in Side, NEW k \in tasks[s] PROVE k \in Task
  BY DEF TypeOK
<1>26. ASSUME NEW s \in Side, NEW k \in tasks[s], InvokeRequestHandler(s, k) PROVE TypeOK'
  <2>1. k.message \in RequestMessage /\ k.message.body \in Request
    BY <1>25, <1>26, TaskShape DEF InvokeRequestHandler
  <2>2. Reply("REQUESTERROR", k.message) \in ReplyMessage
    BY <2>1, ReplyShape DEF ReplyType
  <2>3. /\ [pc |-> "running", message |-> k.message] \in Task
        /\ [pc |-> "reply", message |-> Reply("REQUESTERROR", k.message)] \in Task
    BY <2>1, <2>2 DEF Task
  <2>4. tasks' \in [Side -> SUBSET Task]
    BY <1>26, <2>3 DEF InvokeRequestHandler, TypeOK
  <2>5. Append(handled[s], k.message.body) \in Seq(Request \cup Info)
    BY <2>1, AppendProperties DEF TypeOK
  <2>6. handled' \in [Side -> Seq(Request \cup Info)]
    BY <1>26, <2>5 DEF InvokeRequestHandler, TypeOK
  <2> QED  BY <1>26, <2>4, <2>6 DEF InvokeRequestHandler, TypeOK
<1>27. ASSUME NEW s \in Side, NEW k \in tasks[s], RequestHandlerReturns(s, k) PROVE TypeOK'
  <2>1. k.message \in RequestMessage
    BY <1>25, <1>27, TaskShape DEF RequestHandlerReturns
  <2>2. PICK type \in ReplyType :
          tasks' = [tasks EXCEPT ![s] =
             (@ \ {k}) \cup {[pc |-> "reply", message |-> Reply(type, k.message)]}]
    BY <1>27 DEF RequestHandlerReturns
  <2>3. [pc |-> "reply", message |-> Reply(type, k.message)] \in Task
    BY <2>1, ReplyShape DEF Task
  <2>4. tasks' \in [Side -> SUBSET Task]
    BY <2>2, <2>3 DEF TypeOK
  <2> QED  BY <1>27, <2>4 DEF RequestHandlerReturns, TypeOK, histories
<1>28. ASSUME NEW s \in Side, NEW k \in tasks[s], SendReply(s, k) PROVE TypeOK'
  <2>1. k.message \in Frame /\ k.message.body \in Request
    BY <1>25, <1>28, TaskShape DEF SendReply
  <2>2. wire' \in [Side -> Seq(Frame)] /\ stage' \in [Request \cup Info -> Stage]
    BY <1>3, <1>16, <1>28, <2>1, SendType DEF SendReply
  <2>3. tasks' \in [Side -> SUBSET Task]
    BY <1>28 DEF SendReply, TypeOK
  <2> QED  BY <1>28, <2>2, <2>3 DEF SendReply, TypeOK, histories
<1>29. ASSUME NEW s \in Side, NEW k \in tasks[s], RunResponseHandler(s, k) PROVE TypeOK'
  <2> DEFINE a == [handler |-> k.handler, body |-> k.body]
             Answer == [handler : Request, body : Request]
  <2>1. k.body \in Request /\ a \in Answer
    BY <1>25, <1>29, TaskShape DEF RunResponseHandler
  <2>2. answered \in [Side -> Seq(Answer)]
    BY DEF TypeOK
  <2>3. answered' = [answered EXCEPT ![s] = Append(@, a)]
    BY <1>29 DEF RunResponseHandler
  <2> HIDE DEF a, Answer
  <2>4. Append(answered[s], a) \in Seq(Answer)
    BY <2>1, <2>2, AppendProperties
  <2>5. answered' \in [Side -> Seq(Answer)]
    BY <2>2, <2>3, <2>4
  <2>6. stage' \in [Request \cup Info -> Stage] /\ tasks' \in [Side -> SUBSET Task]
    BY <1>3, <1>29, <2>1 DEF RunResponseHandler, TypeOK
  <2> QED  BY <1>29, <2>5, <2>6 DEF RunResponseHandler, TypeOK, Answer
<1>30. CASE UNCHANGED vars
  BY <1>30 DEF vars, histories, TypeOK
<1> QED
  BY <1>5, <1>6, <1>7, <1>8, <1>9, <1>10, <1>11, <1>12, <1>13, <1>14, <1>17, <1>18,
     <1>20, <1>21, <1>22, <1>23, <1>24, <1>26, <1>27, <1>28, <1>29, <1>30
  DEF Next, IoThread, RunTask, User

(***************************************************************************)
(* Every variable keeps its type: the frames on the wire, the tasks and    *)
(* the handlers are those of the protocol (Connection.cpp:38-194).         *)
(***************************************************************************)
THEOREM TypeCorrect == Spec => []TypeOK
<1>1. Init => TypeOK
  BY InitType
<1>2. TypeOK /\ [Next]_vars => TypeOK'
  BY StepType
<1> QED  BY <1>1, <1>2, PTL DEF Spec
-----------------------------------------------------------------------------
(***************************************************************************)
(* The queues: what is taken from the front is gone, and what is added at  *)
(* the back is the only thing added.                                       *)
(***************************************************************************)
NoneAbout(q, R) == \A m \in ToSet(q) : IsExchange(m) => m.body \notin R

LEMMA TailEffect ==
  ASSUME NEW q \in Seq(Frame), q # <<>>, Distinct(q)
  PROVE  /\ Head(q) \in ToSet(q)
         /\ ToSet(Tail(q)) \subseteq ToSet(q)
         /\ Distinct(Tail(q))
         /\ IsExchange(Head(q)) => NoneAbout(Tail(q), {Head(q).body})
<1> DEFINE u == Tail(q)
<1>1. /\ Len(q) \in Nat /\ Len(q) > 0 /\ DOMAIN q = 1 .. Len(q)
      /\ Head(q) = q[1]
      /\ DOMAIN u = 1 .. Len(q) - 1
      /\ \A k \in 1 .. Len(q) - 1 : u[k] = q[k+1]
  <2>1. Len(q) \in Nat /\ Len(q) > 0 /\ DOMAIN q = 1 .. Len(q) /\ Head(q) = q[1]
    BY LenProperties, EmptySeq
  <2>2. /\ u \in Seq(Frame) /\ Len(u) = Len(q) - 1
        /\ \A k \in 1 .. Len(u) : u[k] = q[k+1]
    BY HeadTailProperties
  <2> QED  BY <2>1, <2>2, LenProperties
<1> HIDE DEF u
<1>2. Head(q) \in ToSet(q)
  BY <1>1 DEF ToSet
<1>3. \A k \in DOMAIN u : k+1 \in DOMAIN q /\ k+1 # 1 /\ u[k] = q[k+1]
  BY <1>1
<1>4. ToSet(u) \subseteq ToSet(q)
  BY <1>3 DEF ToSet
<1>5. Distinct(u)
  <2> SUFFICES ASSUME NEW k \in DOMAIN u, NEW l \in DOMAIN u, k # l,
                      IsExchange(u[k]), IsExchange(u[l])
               PROVE  u[k].body # u[l].body
    BY DEF Distinct
  <2>1. k+1 # l+1
    BY <1>1
  <2> QED  BY <1>3, <2>1 DEF Distinct
<1>6. ASSUME IsExchange(Head(q)) PROVE NoneAbout(u, {Head(q).body})
  <2>1. 1 \in DOMAIN q
    BY <1>1
  <2> QED  BY <1>1, <1>3, <1>6, <2>1 DEF NoneAbout, ToSet, Distinct
<1> QED  BY <1>2, <1>4, <1>5, <1>6 DEF u

LEMMA AppendEffect ==
  ASSUME NEW q \in Seq(Frame), NEW f \in Frame, Distinct(q),
         IsExchange(f) => NoneAbout(q, {f.body})
  PROVE  ToSet(Append(q, f)) = ToSet(q) \cup {f} /\ Distinct(Append(q, f))
<1> DEFINE u == Append(q, f)
<1>1. /\ Len(q) \in Nat /\ DOMAIN q = 1 .. Len(q)
      /\ DOMAIN u = 1 .. Len(q) + 1
      /\ \A k \in 1 .. Len(q) : u[k] = q[k]
      /\ u[Len(q) + 1] = f
  BY AppendProperties, LenProperties
<1> HIDE DEF u
<1>2. \A k \in DOMAIN u : (k \in DOMAIN q /\ u[k] = q[k]) \/ (k = Len(q) + 1 /\ u[k] = f)
  BY <1>1
<1>3. ToSet(u) = ToSet(q) \cup {f}
  <2>1. \A k \in DOMAIN q : k \in DOMAIN u /\ u[k] = q[k]
    BY <1>1
  <2>2. Len(q) + 1 \in DOMAIN u
    BY <1>1
  <2> QED  BY <1>1, <1>2, <2>1, <2>2 DEF ToSet
<1>4. Distinct(u)
  BY <1>2 DEF Distinct, NoneAbout, ToSet
<1> QED  BY <1>3, <1>4 DEF u

(***************************************************************************)
(* WireStep(R, s, F): in each queue there is nothing about the requests of *)
(* R but the frames of F, which are on their way to s; what is about other *)
(* requests was there before; and no queue has two frames about a request. *)
(***************************************************************************)
WireStep(R, s, F) ==
  \A z \in Side :
    /\ Distinct(wire'[z])
    /\ \A m \in ToSet(wire'[z]) :
         IsExchange(m) => \/ m \in ToSet(wire[z]) /\ m.body \notin R
                          \/ z = s /\ m \in F

\* The frames of R are nowhere before the step.
Unplaced(R) == \A z \in Side : NoneAbout(wire[z], R)

LEMMA WireUnchanged ==
  ASSUME FramesPlaced, NEW R, Unplaced(R), wire' = wire, NEW s
  PROVE  WireStep(R, s, {})
BY DEF FramesPlaced, Unplaced, WireStep, NoneAbout

LEMMA SendEffect ==
  ASSUME TypeOK, FramesPlaced, NEW s \in Side, NEW f \in Frame, Send(s, f),
         NEW R, Unplaced(R), IsExchange(f) => f.body \in R
  PROVE  /\ WireStep(R, Other(s), {f})
         /\ state[s] # "open" => WireStep(R, Other(s), {})
<1>1. wire \in [Side -> Seq(Frame)] /\ Other(s) \in Side
  BY Sides DEF TypeOK
<1>2. CASE state[s] = "open"
  <2>1. wire' = [wire EXCEPT ![Other(s)] = Append(@, f)]
    BY <1>2 DEF Send
  <2>2. wire[Other(s)] \in Seq(Frame) /\ Distinct(wire[Other(s)])
    BY <1>1 DEF FramesPlaced
  <2>3. IsExchange(f) => NoneAbout(wire[Other(s)], {f.body})
    BY <1>1 DEF Unplaced, NoneAbout
  <2>4. /\ ToSet(Append(wire[Other(s)], f)) = ToSet(wire[Other(s)]) \cup {f}
        /\ Distinct(Append(wire[Other(s)], f))
    BY <2>2, <2>3, AppendEffect
  <2>5. /\ wire'[Other(s)] = Append(wire[Other(s)], f)
        /\ \A z \in Side : z # Other(s) => wire'[z] = wire[z]
    BY <1>1, <2>1
  <2> QED  BY <1>2, <2>4, <2>5 DEF WireStep, Unplaced, NoneAbout, FramesPlaced
<1>3. CASE state[s] # "open"
  <2>1. wire' = wire
    BY <1>3 DEF Send
  <2> QED  BY <2>1, WireUnchanged DEF WireStep
<1> QED  BY <1>2, <1>3

(***************************************************************************)
(* The frame an io thread takes was the only one about its request, and no *)
(* task is about it.                                                       *)
(***************************************************************************)
About(k) == IF k.pc = "callback" THEN k.body ELSE k.message.body

LEMMA TakenAlone ==
  ASSUME TypeOK, OnePlacePerRequest, NEW s \in Side, wire[s] # <<>>, IsExchange(Received(s))
  PROVE  /\ Received(s) \in Frame /\ FrameOK(s, Received(s)) /\ Received(s).body \in Request
         /\ NoneAbout(Tail(wire[s]), {Received(s).body})
         /\ NoneAbout(wire[Other(s)], {Received(s).body})
         /\ \A z \in Side : \A k \in tasks[z] : About(k) # Received(s).body
<1> DEFINE m == Received(s)
<1>1. wire[s] \in Seq(Frame) /\ Distinct(wire[s]) /\ Other(s) \in Side /\ Other(s) # s
  BY Sides DEF TypeOK, OnePlacePerRequest, FramesPlaced
<1>2. m \in ToSet(wire[s]) /\ NoneAbout(Tail(wire[s]), {m.body})
  BY <1>1, TailEffect DEF Received
<1>3. m \in Frame /\ FrameOK(s, m)
  BY <1>2, ReadType DEF OnePlacePerRequest, FramesPlaced
<1>4. m.body \in Request
  BY <1>3, FrameShape DEF IsExchange
<1>5. stage[m.body] \in {"sent", "replying"}
  BY <1>3 DEF FrameOK, IsExchange
<1>6. NoneAbout(wire[Other(s)], {m.body})
  <2> SUFFICES ASSUME NEW n \in ToSet(wire[Other(s)]), IsExchange(n), n.body = m.body
               PROVE  FALSE
    BY DEF NoneAbout
  <2>1. FrameOK(Other(s), n)
    BY <1>1 DEF OnePlacePerRequest, FramesPlaced
  <2> QED  BY <1>1, <1>3, <2>1, Sides DEF FrameOK, IsExchange
<1>7. ASSUME NEW z \in Side, NEW k \in tasks[z] PROVE About(k) # m.body
  <2>1. TaskOK(z, k)
    BY DEF OnePlacePerRequest, TasksPlaced
  <2> QED  BY <1>5, <2>1 DEF TaskOK, About
<1> QED  BY <1>2, <1>3, <1>4, <1>6, <1>7

\* The requests that the frame an io thread takes is about.
TakenBy(s) == IF IsExchange(Received(s)) THEN {Received(s).body} ELSE {}

LEMMA ReadEffect ==
  ASSUME TypeOK, OnePlacePerRequest, NEW s \in Side, wire[s] # <<>>, Read(s), NEW x
  PROVE  WireStep(TakenBy(s), x, {})
<1>1. /\ wire \in [Side -> Seq(Frame)] /\ Other(s) \in Side
      /\ \A z \in Side : Distinct(wire[z])
  BY Sides DEF TypeOK, OnePlacePerRequest, FramesPlaced
<1>2. ToSet(Tail(wire[s])) \subseteq ToSet(wire[s]) /\ Distinct(Tail(wire[s]))
  BY <1>1, TailEffect
<1>3. wire'[s] = Tail(wire[s]) /\ \A z \in Side : z # s => wire'[z] = wire[z]
  BY <1>1 DEF Read
<1>4. NoneAbout(Tail(wire[s]), TakenBy(s)) /\ NoneAbout(wire[Other(s)], TakenBy(s))
  BY TakenAlone DEF TakenBy, NoneAbout
<1>5. \A z \in Side : z # s => z = Other(s)
  BY DEF Side, Other
<1> QED  BY <1>1, <1>2, <1>3, <1>4, <1>5 DEF WireStep, NoneAbout

LEMMA SendBackEffect ==
  ASSUME TypeOK, OnePlacePerRequest, NEW s \in Side, wire[s] # <<>>,
         NEW f \in Frame, SendBack(s, f),
         IsExchange(f) => f.body \in TakenBy(s)
  PROVE  WireStep(TakenBy(s), Other(s), {f})
<1>1. /\ wire \in [Side -> Seq(Frame)] /\ Other(s) \in Side /\ Other(s) # s
      /\ \A z \in Side : Distinct(wire[z])
  BY Sides DEF TypeOK, OnePlacePerRequest, FramesPlaced
<1>2. ToSet(Tail(wire[s])) \subseteq ToSet(wire[s]) /\ Distinct(Tail(wire[s]))
  BY <1>1, TailEffect
<1>3. wire'[s] = Tail(wire[s]) /\ wire'[Other(s)] = Append(wire[Other(s)], f)
  BY <1>1 DEF SendBack
<1>4. NoneAbout(Tail(wire[s]), TakenBy(s)) /\ NoneAbout(wire[Other(s)], TakenBy(s))
  BY TakenAlone DEF TakenBy, NoneAbout
<1>5. \A z \in Side : z = s \/ z = Other(s)
  BY DEF Side, Other
<1>6. IsExchange(f) => NoneAbout(wire[Other(s)], {f.body})
  BY <1>4 DEF NoneAbout
<1>7. /\ ToSet(Append(wire[Other(s)], f)) = ToSet(wire[Other(s)]) \cup {f}
      /\ Distinct(Append(wire[Other(s)], f))
  BY <1>1, <1>6, AppendEffect
<1> QED  BY <1>1, <1>2, <1>3, <1>4, <1>5, <1>7 DEF WireStep, NoneAbout
-----------------------------------------------------------------------------
\* A request that is neither sent nor being replied to has no frame.
LEMMA StageUnplaced ==
  ASSUME OnePlacePerRequest, NEW R, \A r \in R : stage[r] \notin {"sent", "replying"}
  PROVE  Unplaced(R)
BY DEF Unplaced, NoneAbout, OnePlacePerRequest, FramesPlaced, FrameOK, IsExchange

(***************************************************************************)
(* A step that changes the stage of the requests R only.  The messages and *)
(* tasks about other requests need no attention.                           *)
(***************************************************************************)
OnlyStages(R) ==
  \A q \in Request \ R : stage'[q] = stage[q] /\ userReference'[q] = userReference[q]

TasksStep(R) ==
  \A z \in Side : /\ \A k \in tasks'[z] : (k \in tasks[z] /\ About(k) \notin R) \/ TaskOK(z, k)'
                  /\ \A k, l \in tasks'[z] : k = l

LEMMA PlacesKept ==
  ASSUME TypeOK, OnePlacePerRequest, NEW R \in SUBSET Request, OnlyStages(R),
         NEW x, NEW F, WireStep(R, x, F), \A f \in F : FrameOK(x, f)',
         TasksStep(R)
  PROVE  FramesPlaced' /\ TasksPlaced'
<1>1. ASSUME NEW z \in Side, NEW m \in ToSet(wire[z]), IsExchange(m), m.body \notin R
      PROVE  FrameOK(z, m)'
  <2>1. FrameOK(z, m)
    BY DEF OnePlacePerRequest, FramesPlaced
  <2>2. m \in Frame
    BY ListElements DEF TypeOK
  <2>3. m.body \in Request \ R
    BY <1>1, <2>2, FrameShape DEF IsExchange
  <2>4. stage'[m.body] = stage[m.body] /\ userReference'[m.body] = userReference[m.body]
    BY <2>3 DEF OnlyStages
  <2> QED  BY <2>1, <2>4 DEF FrameOK
<1>2. ASSUME NEW z \in Side, NEW m, ~ IsExchange(m) PROVE FrameOK(z, m)'
  BY <1>2 DEF FrameOK, IsExchange
<1>3. FramesPlaced'
  BY <1>1, <1>2 DEF FramesPlaced, WireStep
<1>4. ASSUME NEW z \in Side, NEW k \in tasks[z], About(k) \notin R PROVE TaskOK(z, k)'
  <2>1. TaskOK(z, k) /\ k \in Task
    BY DEF TypeOK, OnePlacePerRequest, TasksPlaced
  <2>2. About(k) \in Request \ R
    BY <1>4, <2>1, TaskShape DEF About
  <2>3. stage'[About(k)] = stage[About(k)] /\ userReference'[About(k)] = userReference[About(k)]
    BY <2>2 DEF OnlyStages
  <2> QED  BY <2>1, <2>3 DEF TaskOK, About
<1>5. TasksPlaced'
  BY <1>4 DEF TasksPlaced, TasksStep
<1> QED  BY <1>3, <1>5

LEMMA HandlerShape ==
  ASSUME TypeOK, NEW s \in Side
  PROVE  /\ responseHandlers[s] \in Seq(Entry(Request))
         /\ \A e \in ToSet(responseHandlers[s]) : e \in Entry(Request) /\ e.second \in Request
<1>1. responseHandlers[s] \in Seq(Entry(Request))
  BY DEF TypeOK
<1>2. \A e \in ToSet(responseHandlers[s]) : e \in Entry(Request)
  BY <1>1, ListElements
<1> QED  BY <1>1, <1>2 DEF Entry

LEMMA HandlersKept ==
  ASSUME TypeOK, OnePlacePerRequest, NEW R \in SUBSET Request, OnlyStages(R),
         \A q \in R : /\ stage'[q] # "idle"
                      /\ stage'[q] \in AwaitingStage => stage[q] \in AwaitingStage,
         userReference' = userReference, responseHandlers' = responseHandlers
  PROVE  HandlersOwned' /\ HandlersAwait'
<1>1. HandlersOwned'
  BY HandlerShape DEF OnePlacePerRequest, HandlersOwned, OnlyStages
<1>2. HandlersAwait'
  BY DEF OnePlacePerRequest, HandlersAwait, OnlyStages
<1> QED  BY <1>1, <1>2

LEMMA AnswersKept ==
  ASSUME TypeOK, OnePlacePerRequest, NEW R \in SUBSET Request, OnlyStages(R),
         \A q \in R : stage[q] # "answered", answered' = answered
  PROVE  AnswersPlaced'
<1>1. ASSUME NEW s \in Side, NEW a \in ToSet(answered[s]) PROVE a.body \in Request
  <2>1. a \in [handler : Request, body : Request]
    BY ListElements DEF TypeOK
  <2> QED  BY <2>1
<1> QED  BY <1>1 DEF OnePlacePerRequest, AnswersPlaced, OnlyStages

LEMMA Moved ==
  ASSUME TypeOK, OnePlacePerRequest, NEW R \in SUBSET Request, OnlyStages(R),
         \A q \in R : /\ stage[q] # "answered"
                      /\ stage'[q] # "idle"
                      /\ stage'[q] \in AwaitingStage => stage[q] \in AwaitingStage,
         UNCHANGED <<userReference, responseHandlers, answered>>,
         NEW x, NEW F, WireStep(R, x, F), \A f \in F : FrameOK(x, f)',
         TasksStep(R)
  PROVE  OnePlacePerRequest'
<1>1. FramesPlaced' /\ TasksPlaced'
  BY PlacesKept
<1>2. HandlersOwned' /\ HandlersAwait'
  BY HandlersKept
<1>3. AnswersPlaced'
  BY AnswersKept
<1> QED  BY <1>1, <1>2, <1>3 DEF OnePlacePerRequest

\* The tasks are as before, and none is about R.
LEMMA TasksUnchanged ==
  ASSUME OnePlacePerRequest, NEW R, tasks' = tasks,
         \A z \in Side : \A k \in tasks[z] : About(k) \notin R
  PROVE  TasksStep(R)
BY DEF TasksStep, OnePlacePerRequest, TasksPlaced

\* A request that is not being served, and not being called back, has no task.
LEMMA StageNoTask ==
  ASSUME OnePlacePerRequest, NEW R, \A r \in R : stage[r] \notin {"handling", "responding"}
  PROVE  \A z \in Side : \A k \in tasks[z] : About(k) \notin R
BY DEF OnePlacePerRequest, TasksPlaced, TaskOK, About
-----------------------------------------------------------------------------
LEMMA InitInvariant == Init => OnePlacePerRequest
<1> SUFFICES ASSUME Init PROVE OnePlacePerRequest
  OBVIOUS
<1>1. \A s \in Side : /\ ToSet(responseHandlers[s]) = {} /\ Ascending(responseHandlers[s])
                      /\ ToSet(wire[s]) = {} /\ Distinct(wire[s])
                      /\ tasks[s] = {} /\ DOMAIN answered[s] = {} /\ ToSet(answered[s]) = {}
  BY DEF Init, ToSet, Ascending, Distinct
<1>2. \A r \in Request : stage[r] = "idle"
  BY DEF Init
<1> QED
  BY <1>1, <1>2 DEF OnePlacePerRequest, HandlersOwned, HandlersAwait, AwaitingStage,
                    FramesPlaced, TasksPlaced, AnswersPlaced

(***************************************************************************)
(* Steps that change the stage of no request.                              *)
(***************************************************************************)
LEMMA QuietStep ==
  ASSUME TypeOK, OnePlacePerRequest, OnlyStages({}),
         UNCHANGED <<userReference, responseHandlers, answered, tasks>>,
         NEW x, NEW F, WireStep({}, x, F), \A f \in F : ~ IsExchange(f)
  PROVE  OnePlacePerRequest'
<1>1. TasksStep({})
  BY TasksUnchanged
<1>2. \A f \in F : FrameOK(x, f)'
  BY DEF FrameOK, IsExchange
<1> QED  BY <1>1, <1>2, Moved

LEMMA ControlSteps ==
  ASSUME TypeOK, OnePlacePerRequest, NEW s \in Side,
         \/ ServerOpen \/ ClientOpen \/ ReceiveClose(s) \/ Terminate(s) \/ Close(s)
         \/ SetInfoHandler(s) \/ SetRequestHandler(s)
  PROVE  OnePlacePerRequest'
<1> DEFINE accept == [type |-> "accept"]
           close == [type |-> "close"]
<1>1. /\ accept \in Frame /\ ~ IsExchange(accept) /\ accept.type = "accept"
      /\ close \in Frame /\ ~ IsExchange(close) /\ close.type = "close"
  BY DEF Frame, ControlFrame, IsExchange, ReplyType
<1>2. Unplaced({}) /\ "client" \in Side /\ "server" \in Side
  BY DEF Unplaced, NoneAbout, Side
<1> HIDE DEF accept, close
<1>3. OnlyStages({}) /\ UNCHANGED <<userReference, responseHandlers, answered, tasks>>
  BY DEF ServerOpen, ClientOpen, ReceiveClose, Terminate, Close, SetInfoHandler,
         SetRequestHandler, histories, OnlyStages
<1>4. ASSUME NEW z \in Side, NEW type, Arrived(z, type), type \in {"accept", "close"}
      PROVE  wire[z] # <<>> /\ TakenBy(z) = {}
  BY <1>4 DEF Arrived, TakenBy, IsExchange, ReplyType
<1>5. \E x \in Side, F \in SUBSET {accept, close} : WireStep({}, x, F)
  <2>1. CASE ServerOpen
    <3>1. wire' = [wire EXCEPT !["client"] = Append(@, accept)]
      BY <2>1 DEF ServerOpen, accept
    <3>2. /\ wire \in [Side -> Seq(Frame)]
          /\ \A z \in Side : Distinct(wire[z])
      BY DEF TypeOK, OnePlacePerRequest, FramesPlaced
    <3>3. /\ ToSet(Append(wire["client"], accept)) = ToSet(wire["client"]) \cup {accept}
          /\ Distinct(Append(wire["client"], accept))
      BY <1>1, <1>2, <3>2, AppendEffect
    <3>4. WireStep({}, "client", {accept})
      BY <1>2, <3>1, <3>2, <3>3 DEF WireStep
    <3> QED  BY <1>2, <3>4
  <2>2. CASE ClientOpen
    <3>1. wire["client"] # <<>> /\ TakenBy("client") = {} /\ Read("client")
      BY <1>2, <1>4, <2>2 DEF ClientOpen
    <3>2. WireStep({}, s, {})
      BY <1>2, <3>1, ReadEffect
    <3> QED  BY <3>2
  <2>3. CASE ReceiveClose(s)
    <3>1. wire[s] # <<>> /\ TakenBy(s) = {}
      BY <1>4, <2>3 DEF ReceiveClose
    <3>2. Read(s) \/ SendBack(s, close)
      BY <2>3 DEF ReceiveClose, close
    <3>3. CASE Read(s)
      <4>1. WireStep({}, s, {})
        BY <3>1, <3>3, ReadEffect
      <4> QED  BY <4>1
    <3>4. CASE SendBack(s, close)
      <4>1. WireStep({}, Other(s), {close}) /\ Other(s) \in Side
        BY <1>1, <3>1, <3>4, SendBackEffect, Sides
      <4> QED  BY <4>1
    <3> QED  BY <3>2, <3>3, <3>4
  <2>4. CASE Close(s)
    <3>1. Send(s, close)
      BY <2>4 DEF Close, close
    <3>2. WireStep({}, Other(s), {close}) /\ Other(s) \in Side
      BY <1>1, <1>2, <3>1, SendEffect, Sides DEF OnePlacePerRequest
    <3> QED  BY <3>2
  <2>5. CASE Terminate(s) \/ SetInfoHandler(s) \/ SetRequestHandler(s)
    <3>1. wire' = wire
      BY <2>5 DEF Terminate, SetInfoHandler, SetRequestHandler
    <3>2. WireStep({}, s, {})
      BY <1>2, <3>1, WireUnchanged DEF OnePlacePerRequest
    <3> QED  BY <3>2
  <2> QED  BY <2>1, <2>2, <2>3, <2>4, <2>5
<1>6. PICK x \in Side, F \in SUBSET {accept, close} : WireStep({}, x, F)
  BY <1>5
<1> QED  BY <1>1, <1>3, <1>6, QuietStep

LEMMA InfoSteps ==
  ASSUME TypeOK, OnePlacePerRequest,
         (\E i \in Info : SendInfo(i)) \/ (\E s \in Side : OnInfo(s))
  PROVE  OnePlacePerRequest'
<1>1. \A q \in Request, i \in Info : q # i
  BY CallsAssumption
<1>2. Unplaced({})
  BY DEF Unplaced, NoneAbout
<1>3. ASSUME NEW i \in Info, SendInfo(i) PROVE OnePlacePerRequest'
  <2> DEFINE f == [type |-> "INFO", userReference |-> 0, body |-> i]
  <2>1. f \in Frame /\ ~ IsExchange(f) /\ Sender[i] \in Side
    BY CallsAssumption DEF Frame, InfoMessage, IsExchange, ReplyType
  <2>2. Send(Sender[i], f)
    BY <1>3 DEF SendInfo
  <2> HIDE DEF f
  <2>3. WireStep({}, Other(Sender[i]), {f})
    BY <1>2, <2>1, <2>2, SendEffect DEF OnePlacePerRequest
  <2>4. OnlyStages({}) /\ UNCHANGED <<userReference, responseHandlers, answered, tasks>>
    BY <1>1, <1>3 DEF SendInfo, SentOr, OnlyStages, TypeOK
  <2> QED  BY <2>1, <2>3, <2>4, QuietStep
<1>4. ASSUME NEW s \in Side, OnInfo(s) PROVE OnePlacePerRequest'
  <2>1. wire[s] # <<>> /\ Received(s).type = "INFO" /\ Read(s)
    BY <1>4 DEF OnInfo, OnMessage, Arrived
  <2>2. Received(s).body \in Info
    BY <2>1, ReadType, FrameShape
  <2>3. TakenBy(s) = {}
    BY <2>1 DEF TakenBy, IsExchange, ReplyType
  <2>4. WireStep({}, s, {})
    BY <2>1, <2>3, ReadEffect
  <2>5. OnlyStages({}) /\ UNCHANGED <<userReference, responseHandlers, answered, tasks>>
    BY <1>1, <1>4, <2>2 DEF OnInfo, OnlyStages, TypeOK
  <2> QED  BY <2>4, <2>5, QuietStep
<1> QED  BY <1>3, <1>4
-----------------------------------------------------------------------------
(***************************************************************************)
(* sendRequest.                                                            *)
(***************************************************************************)
LEMMA PushStep ==
  ASSUME TypeOK, OnePlacePerRequest, NEW r \in Request, SendRequestPush(r)
  PROVE  OnePlacePerRequest'
<1> DEFINE s == Sender[r]
           c == responseHandlers[s]
<1>1. /\ s \in Side /\ stage[r] = "idle"
      /\ UNCHANGED <<wire, tasks, answered>>
      /\ stage' = [stage EXCEPT ![r] = "pushed"]
  BY CallsAssumption DEF SendRequestPush, Callable, histories
<1>2. PICK t \in Token, p \in 1 .. Len(c) + 1 :
        /\ FreeToken(c, t, p)
        /\ responseHandlers' = [responseHandlers EXCEPT ![s] = Emplace(c, p, t, r)]
        /\ userReference' = [userReference EXCEPT ![r] = t]
  BY DEF SendRequestPush
<1>3. stage'[r] = "pushed" /\ userReference'[r] = t /\ OnlyStages({r})
  BY <1>1, <1>2 DEF TypeOK, OnlyStages
<1>4. c \in Seq(Entry(Request)) /\ Ascending(c)
  BY <1>1, HandlerShape DEF OnePlacePerRequest, HandlersOwned
<1> DEFINE new == [first |-> t, second |-> r]
<1>5. /\ Ascending(Emplace(c, p, t, r))
      /\ ToSet(Emplace(c, p, t, r)) = ToSet(c) \cup {new}
  BY <1>2, <1>4, EmplaceAscends, EmplaceSet
<1>6. /\ responseHandlers'[s] = Emplace(c, p, t, r)
      /\ \A z \in Side : z # s => responseHandlers'[z] = responseHandlers[z]
  BY <1>1, <1>2 DEF TypeOK
<1>7. new.first = t /\ new.second = r
  OBVIOUS
<1> HIDE DEF new
<1>8. HandlersOwned'
  <2>1. ASSUME NEW z \in Side, NEW e \in ToSet(responseHandlers[z])
        PROVE  /\ Sender[e.second] = z
               /\ e.first = userReference'[e.second]
               /\ stage'[e.second] # "idle"
    <3>1. Sender[e.second] = z /\ e.first = userReference[e.second] /\ stage[e.second] # "idle"
      BY DEF OnePlacePerRequest, HandlersOwned
    <3>2. e.second \in Request \ {r}
      BY <1>1, <3>1, HandlerShape
    <3> QED  BY <1>3, <3>1, <3>2 DEF OnlyStages
  <2>2. \A z \in Side : Ascending(responseHandlers'[z])
    BY <1>5, <1>6 DEF OnePlacePerRequest, HandlersOwned
  <2>3. /\ Sender[new.second] = s /\ new.first = userReference'[new.second]
        /\ stage'[new.second] # "idle"
    BY <1>3, <1>7
  <2> QED  BY <1>5, <1>6, <2>1, <2>2, <2>3 DEF HandlersOwned
<1>9. HandlersAwait'
  <2> SUFFICES ASSUME NEW q \in Request, stage'[q] \in AwaitingStage
               PROVE  [first |-> userReference'[q], second |-> q]
                        \in ToSet(responseHandlers'[Sender[q]])
    BY HoldsSet DEF HandlersAwait
  <2>1. CASE q = r
    BY <1>3, <1>5, <1>6, <2>1 DEF new
  <2>2. CASE q # r
    <3>1. stage'[q] = stage[q] /\ userReference'[q] = userReference[q] /\ Sender[q] \in Side
      BY <1>3, <2>2, CallsAssumption DEF OnlyStages
    <3>2. [first |-> userReference[q], second |-> q] \in ToSet(responseHandlers[Sender[q]])
      BY <3>1, HoldsSet DEF OnePlacePerRequest, HandlersAwait
    <3> QED  BY <1>5, <1>6, <3>1, <3>2
  <2> QED  BY <2>1, <2>2
<1>10. FramesPlaced' /\ TasksPlaced'
  <2>1. Unplaced({r}) /\ TasksStep({r})
    BY <1>1, StageUnplaced, StageNoTask, TasksUnchanged
  <2>2. WireStep({r}, s, {})
    BY <1>1, <2>1, WireUnchanged DEF OnePlacePerRequest
  <2> QED  BY <1>3, <2>1, <2>2, PlacesKept
<1>11. AnswersPlaced'
  BY <1>1, <1>3, AnswersKept
<1> QED  BY <1>8, <1>9, <1>10, <1>11 DEF OnePlacePerRequest

LEMMA ThrowStep ==
  ASSUME TypeOK, OnePlacePerRequest, NEW r \in Request, SendRequestThrows(r)
  PROVE  OnePlacePerRequest'
<1>1. /\ stage[r] = "idle" /\ stage'[r] = "threw" /\ OnlyStages({r})
      /\ UNCHANGED <<wire, tasks, userReference, responseHandlers, answered>>
  BY DEF SendRequestThrows, Callable, OnlyStages, TypeOK, histories
<1>2. Unplaced({r}) /\ TasksStep({r})
  BY <1>1, StageUnplaced, StageNoTask, TasksUnchanged
<1>3. WireStep({r}, r, {})
  BY <1>1, <1>2, WireUnchanged DEF OnePlacePerRequest
<1>4. "threw" \notin AwaitingStage
  BY DEF AwaitingStage
<1> QED  BY <1>1, <1>2, <1>3, <1>4, Moved

LEMMA SendStep ==
  ASSUME TypeOK, OnePlacePerRequest, NEW r \in Request, SendRequestSend(r)
  PROVE  OnePlacePerRequest'
<1> DEFINE s == Sender[r]
<1>1. PICK f : f = [type |-> "REQUEST", userReference |-> userReference[r], body |-> r]
  OBVIOUS
<1>2. /\ f \in Frame /\ f.type = "REQUEST" /\ f.body = r /\ s \in Side
      /\ f.userReference = userReference[r]
  BY <1>1, CallsAssumption DEF TypeOK, Frame, RequestMessage
<1>3. /\ stage[r] = "pushed" /\ OnlyStages({r})
      /\ stage'[r] = IF state[s] = "open" THEN "sent" ELSE "lost"
      /\ UNCHANGED <<tasks, userReference, responseHandlers, answered>>
  BY DEF SendRequestSend, SentOr, OnlyStages, TypeOK
<1>4. Send(s, f)
  BY <1>1 DEF SendRequestSend
<1>5. Unplaced({r}) /\ TasksStep({r})
  BY <1>3, StageUnplaced, StageNoTask, TasksUnchanged
<1>6. /\ WireStep({r}, Other(s), {f})
      /\ state[s] # "open" => WireStep({r}, Other(s), {})
  BY <1>2, <1>4, <1>5, SendEffect DEF OnePlacePerRequest
<1>7. state[s] = "open" => FrameOK(Other(s), f)'
  BY <1>2, <1>3, Sides DEF FrameOK, ReplyType
<1>8. "pushed" \in AwaitingStage
  BY DEF AwaitingStage
<1>9. CASE state[s] = "open"
  BY <1>3, <1>5, <1>6, <1>7, <1>8, <1>9, Moved
<1>10. CASE state[s] # "open"
  BY <1>3, <1>5, <1>6, <1>8, <1>10, Moved
<1> QED  BY <1>9, <1>10
-----------------------------------------------------------------------------
(***************************************************************************)
(* on_message.                                                             *)
(***************************************************************************)
LEMMA DropSteps ==
  ASSUME TypeOK, OnePlacePerRequest, NEW s \in Side, Discard(s) \/ OnRequestError(s)
  PROVE  OnePlacePerRequest'
<1>1. /\ wire[s] # <<>> /\ Read(s)
      /\ UNCHANGED <<tasks, userReference, responseHandlers, answered>>
  BY DEF Discard, OnRequestError, OnMessage, Arrived, histories
<1>2. Received(s) \in Frame /\ \A q \in Request, i \in Info : q # i
  BY <1>1, ReadType, CallsAssumption
<1>3. WireStep(TakenBy(s), s, {})
  BY <1>1, ReadEffect
<1>4. OnlyStages(TakenBy(s)) /\ \A q \in TakenBy(s) : stage'[q] \in {"lost", "refused"}
  <2>1. IsExchange(Received(s)) =>
          "body" \in DOMAIN Received(s) /\ Received(s).body \in Request
    BY <1>2, FrameShape DEF IsExchange
  <2>2. ~ IsExchange(Received(s)) /\ "body" \in DOMAIN Received(s) =>
          Received(s).body \in Info
    BY <1>2, FrameShape DEF IsExchange, Frame, RequestMessage, ReplyMessage, InfoMessage,
                            ControlFrame
  <2>3. OnRequestError(s) => IsExchange(Received(s))
    BY DEF OnRequestError, OnMessage, Arrived, IsExchange, ReplyType
  <2>4. CASE Discard(s)
    BY <1>1, <1>2, <2>1, <2>2, <2>4 DEF Discard, TakenBy, OnlyStages, TypeOK
  <2>5. CASE OnRequestError(s)
    BY <1>1, <1>2, <2>1, <2>3, <2>5 DEF OnRequestError, TakenBy, OnlyStages, TypeOK
  <2> QED  BY <2>4, <2>5
<1>5. /\ TakenBy(s) \in SUBSET Request
      /\ \A q \in TakenBy(s) : stage[q] \in {"sent", "replying"}
      /\ \A z \in Side : \A k \in tasks[z] : About(k) \notin TakenBy(s)
  BY <1>1, TakenAlone DEF TakenBy, FrameOK, IsExchange
<1>6. TasksStep(TakenBy(s))
  BY <1>1, <1>5, TasksUnchanged
<1>7. "lost" \notin AwaitingStage /\ "refused" \notin AwaitingStage
  BY DEF AwaitingStage
<1> QED  BY <1>1, <1>3, <1>4, <1>5, <1>6, <1>7, Moved

LEMMA RequestSteps ==
  ASSUME TypeOK, OnePlacePerRequest, NEW s \in Side, OnRequest(s) \/ OnRequestNoHandler(s)
  PROVE  OnePlacePerRequest'
<1>1. PICK m : m = Received(s)
  OBVIOUS
<1>2. /\ wire[s] # <<>> /\ tasks[s] = {} /\ m.type = "REQUEST" /\ TakenBy(s) = {m.body}
      /\ UNCHANGED <<userReference, responseHandlers, answered>>
  BY <1>1 DEF OnRequest, OnRequestNoHandler, OnMessage, Arrived, TakenBy, IsExchange, histories
<1>3. /\ m \in RequestMessage /\ m.body \in Request
      /\ Sender[m.body] = Other(s) /\ stage[m.body] = "sent"
      /\ m.userReference = userReference[m.body]
      /\ \A z \in Side : \A k \in tasks[z] : About(k) # m.body
  BY <1>1, <1>2, TakenAlone, FrameShape DEF FrameOK, IsExchange
<1>4. OnlyStages({m.body})
  BY <1>1, <1>2, <1>3 DEF OnRequest, OnRequestNoHandler, OnlyStages, TypeOK
<1>5. {"sent", "handling", "replying"} \subseteq AwaitingStage
  BY DEF AwaitingStage
<1>6. CASE OnRequest(s)
  <2>1. PICK k : k = [pc |-> "invoke", message |-> m]
    OBVIOUS
  <2>2. /\ tasks' = [tasks EXCEPT ![s] = @ \cup {k}] /\ Read(s)
        /\ stage' = [stage EXCEPT ![m.body] = "handling"]
    BY <1>1, <1>6, <2>1 DEF OnRequest
  <2>3. k.pc = "invoke" /\ k.message = m
    BY <2>1
  <2>4. stage'[m.body] = "handling"
    BY <1>3, <2>2 DEF TypeOK
  <2>5. TaskOK(s, k)'
    BY <1>2, <1>3, <2>3, <2>4 DEF TaskOK
  <2>6. TasksStep({m.body})
    BY <1>2, <1>3, <2>2, <2>5 DEF TasksStep, TypeOK, OnePlacePerRequest, TasksPlaced
  <2>7. WireStep({m.body}, s, {})
    BY <1>2, <2>2, ReadEffect
  <2> QED  BY <1>2, <1>3, <1>4, <1>5, <2>4, <2>6, <2>7, Moved
<1>7. CASE OnRequestNoHandler(s)
  <2>1. PICK f : f = Reply("REQUESTERROR", m)
    OBVIOUS
  <2>2. /\ f \in Frame /\ f.type = "REQUESTERROR" /\ f.body = m.body
        /\ f.userReference = m.userReference
    BY <1>3, <2>1, ReplyShape DEF ReplyType
  <2>3. /\ SendBack(s, f) /\ tasks' = tasks
        /\ stage' = [stage EXCEPT ![m.body] = "replying"]
    BY <1>1, <1>7, <2>1 DEF OnRequestNoHandler
  <2>4. stage'[m.body] = "replying"
    BY <1>3, <2>3 DEF TypeOK
  <2>5. FrameOK(Other(s), f)'
    BY <1>2, <1>3, <2>2, <2>4 DEF FrameOK
  <2>6. WireStep({m.body}, Other(s), {f})
    BY <1>2, <2>2, <2>3, SendBackEffect
  <2>7. TasksStep({m.body})
    BY <1>3, <2>3, TasksUnchanged
  <2> QED  BY <1>2, <1>3, <1>4, <1>5, <2>4, <2>5, <2>6, <2>7, Moved
<1> QED  BY <1>6, <1>7

\* The handler that a response finds is that of the request it answers.
LEMMA ResponseFinds ==
  ASSUME TypeOK, OnePlacePerRequest, NEW s \in Side, OnResponse(s)
  PROVE  LET m == Received(s)
             c == responseHandlers[s]
             k == [pc |-> "callback", handler |-> m.body, body |-> m.body]
         IN  \E p \in 1 .. Len(c) :
               /\ c[p] = [first |-> m.userReference, second |-> m.body]
               /\ responseHandlers' = [responseHandlers EXCEPT ![s] = Erase(c, p)]
               /\ tasks' = [tasks EXCEPT ![s] = @ \cup {k}]
               /\ stage' = [stage EXCEPT ![m.body] = "responding"]
<1>1. PICK m : m = Received(s)
  OBVIOUS
<1>2. PICK c : c = responseHandlers[s]
  OBVIOUS
<1>3. wire[s] # <<>> /\ m.type = "RESPONSE"
  BY <1>1 DEF OnResponse, OnMessage, Arrived
<1>4. PICK p \in 1 .. Len(c) + 1 :
        /\ Find(c, m.userReference, p)
        /\ IF p \in DOMAIN c
           THEN /\ responseHandlers' = [responseHandlers EXCEPT ![s] = Erase(c, p)]
                /\ tasks' = [tasks EXCEPT ![s] = @ \cup
                     {[pc |-> "callback", handler |-> c[p].second, body |-> m.body]}]
                /\ stage' = [stage EXCEPT ![m.body] = "responding"]
           ELSE /\ stage' = [stage EXCEPT ![m.body] = "lost"]
                /\ UNCHANGED <<responseHandlers, tasks>>
  BY <1>1, <1>2 DEF OnResponse
<1>5. /\ m.body \in Request /\ Sender[m.body] = s /\ stage[m.body] = "replying"
      /\ m.userReference = userReference[m.body]
  BY <1>1, <1>3, TakenAlone DEF FrameOK, IsExchange, ReplyType
<1>6. c \in Seq(Entry(Request)) /\ Ascending(c)
  BY <1>2, HandlerShape DEF OnePlacePerRequest, HandlersOwned
<1>7. Holds(c, m.userReference, m.body)
  BY <1>2, <1>5 DEF OnePlacePerRequest, HandlersAwait, AwaitingStage
<1>8. p \in DOMAIN c /\ c[p] = [first |-> m.userReference, second |-> m.body]
  BY <1>4, <1>6, <1>7, FindHeld
<1>9. p \in 1 .. Len(c) /\ c[p].second = m.body
  BY <1>6, <1>8, LenProperties
<1> QED  BY <1>1, <1>2, <1>4, <1>8, <1>9

LEMMA ResponseStep ==
  ASSUME TypeOK, OnePlacePerRequest, NEW s \in Side, OnResponse(s)
  PROVE  OnePlacePerRequest'
<1>1. PICK m : m = Received(s)
  OBVIOUS
<1>2. PICK c : c = responseHandlers[s]
  OBVIOUS
<1>3. /\ wire[s] # <<>> /\ tasks[s] = {} /\ m.type = "RESPONSE" /\ TakenBy(s) = {m.body}
      /\ Read(s) /\ UNCHANGED <<userReference, answered>>
  BY <1>1 DEF OnResponse, OnMessage, Arrived, TakenBy, IsExchange, ReplyType, histories
<1>4. /\ m.body \in Request /\ Sender[m.body] = s /\ stage[m.body] = "replying"
      /\ m.userReference = userReference[m.body]
      /\ \A z \in Side : \A k \in tasks[z] : About(k) # m.body
  BY <1>1, <1>3, TakenAlone DEF FrameOK, IsExchange, ReplyType
<1>5. c \in Seq(Entry(Request)) /\ Ascending(c)
  BY <1>2, HandlerShape DEF OnePlacePerRequest, HandlersOwned
<1>6. PICK k : k = [pc |-> "callback", handler |-> m.body, body |-> m.body]
  OBVIOUS
<1>7. PICK p \in 1 .. Len(c) :
         /\ c[p] = [first |-> m.userReference, second |-> m.body]
         /\ responseHandlers' = [responseHandlers EXCEPT ![s] = Erase(c, p)]
         /\ tasks' = [tasks EXCEPT ![s] = @ \cup {k}]
         /\ stage' = [stage EXCEPT ![m.body] = "responding"]
  BY <1>1, <1>2, <1>6, ResponseFinds
<1>8. c[p].second = m.body
  BY <1>7
<1>9. /\ responseHandlers' = [responseHandlers EXCEPT ![s] = Erase(c, p)]
       /\ tasks' = [tasks EXCEPT ![s] = @ \cup {k}]
       /\ stage' = [stage EXCEPT ![m.body] = "responding"]
  BY <1>7
<1>10. k.pc = "callback" /\ k.handler = m.body /\ k.body = m.body
  BY <1>6
<1>11. stage'[m.body] = "responding" /\ OnlyStages({m.body})
  BY <1>3, <1>4, <1>9 DEF TypeOK, OnlyStages
<1>12. FramesPlaced' /\ TasksPlaced'
  <2>1. TaskOK(s, k)'
    BY <1>4, <1>10, <1>11 DEF TaskOK
  <2>2. TasksStep({m.body})
    BY <1>3, <1>4, <1>9, <2>1 DEF TasksStep, TypeOK, OnePlacePerRequest, TasksPlaced
  <2>3. WireStep({m.body}, s, {})
    BY <1>3, ReadEffect
  <2> QED  BY <1>4, <1>11, <2>2, <2>3, PlacesKept
<1>13. AnswersPlaced'
  BY <1>3, <1>4, <1>11, AnswersKept
<1>14. /\ Ascending(Erase(c, p))
       /\ ToSet(Erase(c, p)) = ToSet(c) \ {c[p]}
  BY <1>5, <1>8, EraseAscends, EraseSet
<1>15. /\ responseHandlers'[s] = Erase(c, p)
       /\ \A z \in Side : z # s => responseHandlers'[z] = responseHandlers[z]
  BY <1>9 DEF TypeOK
<1>16. HandlersOwned'
  <2>1. ASSUME NEW z \in Side, NEW e \in ToSet(responseHandlers[z])
        PROVE  /\ Sender[e.second] = z
               /\ e.first = userReference'[e.second]
               /\ stage'[e.second] # "idle"
    <3>1. Sender[e.second] = z /\ e.first = userReference[e.second] /\ stage[e.second] # "idle"
      BY DEF OnePlacePerRequest, HandlersOwned
    <3> QED  BY <1>3, <1>11, <3>1, HandlerShape DEF OnlyStages
  <2>2. \A z \in Side : Ascending(responseHandlers'[z])
    BY <1>14, <1>15 DEF OnePlacePerRequest, HandlersOwned
  <2> QED  BY <1>2, <1>14, <1>15, <2>1, <2>2 DEF HandlersOwned
<1>17. HandlersAwait'
  <2> SUFFICES ASSUME NEW q \in Request, stage'[q] \in AwaitingStage
               PROVE  [first |-> userReference'[q], second |-> q]
                        \in ToSet(responseHandlers'[Sender[q]])
    BY HoldsSet DEF HandlersAwait
  <2>1. q # m.body
    BY <1>11 DEF AwaitingStage
  <2>2. stage'[q] = stage[q] /\ userReference'[q] = userReference[q] /\ Sender[q] \in Side
    BY <1>11, <2>1, CallsAssumption DEF OnlyStages
  <2>3. [first |-> userReference[q], second |-> q] \in ToSet(responseHandlers[Sender[q]])
    BY <2>2, HoldsSet DEF OnePlacePerRequest, HandlersAwait
  <2>4. [first |-> userReference[q], second |-> q] # c[p]
    BY <1>7, <2>1
  <2> QED  BY <1>2, <1>14, <1>15, <2>2, <2>3, <2>4
<1> QED  BY <1>12, <1>13, <1>16, <1>17 DEF OnePlacePerRequest
-----------------------------------------------------------------------------
(***************************************************************************)
(* The tasks.  A task that runs is the only one of its end, and the only   *)
(* place of its request.                                                   *)
(***************************************************************************)
LEMMA RunningAlone ==
  ASSUME TypeOK, OnePlacePerRequest, NEW s \in Side, NEW k \in tasks[s]
  PROVE  /\ k \in Task /\ TaskOK(s, k) /\ About(k) \in Request
         /\ tasks[s] = {k}
         /\ \A z \in Side : \A l \in tasks[z] : z # s => About(l) # About(k)
         /\ Unplaced({About(k)})
         /\ stage[About(k)] \in {"handling", "responding"}
<1>1. k \in Task /\ TaskOK(s, k) /\ tasks[s] = {k}
  BY DEF TypeOK, OnePlacePerRequest, TasksPlaced
<1>2. About(k) \in Request
  BY <1>1, TaskShape DEF About
<1>3. stage[About(k)] \in {"handling", "responding"}
  BY <1>1 DEF TaskOK, About
<1>4. Unplaced({About(k)})
  BY <1>3, StageUnplaced
<1>5. ASSUME NEW z \in Side, NEW l \in tasks[z], z # s PROVE About(l) # About(k)
  <2>1. TaskOK(z, l) /\ z = Other(s) /\ Other(z) # Other(s)
    BY <1>5 DEF OnePlacePerRequest, TasksPlaced, Side, Other
  <2> QED  BY <1>1, <1>5, <2>1 DEF TaskOK, About
<1> QED  BY <1>1, <1>2, <1>3, <1>4, <1>5

LEMMA ServeSteps ==
  ASSUME TypeOK, OnePlacePerRequest, NEW s \in Side, NEW k \in tasks[s],
         InvokeRequestHandler(s, k) \/ RequestHandlerReturns(s, k)
  PROVE  OnePlacePerRequest'
<1>1. /\ k.pc \in {"invoke", "running"}
      /\ UNCHANGED <<wire, stage, userReference, responseHandlers, answered>>
  BY DEF InvokeRequestHandler, RequestHandlerReturns, histories
<1>2. k.message \in RequestMessage /\ k.message.body \in Request
  BY <1>1, RunningAlone, TaskShape
<1>3. PICK l : /\ l \in {[pc |-> "running", message |-> k.message]} \cup
                       {[pc |-> "reply", message |-> Reply(type, k.message)] : type \in ReplyType}
               /\ tasks' = [tasks EXCEPT ![s] = (@ \ {k}) \cup {l}]
  <2>1. "REQUESTERROR" \in ReplyType
    BY DEF ReplyType
  <2> QED  BY <2>1 DEF InvokeRequestHandler, RequestHandlerReturns
<1>4. /\ l.pc # "callback"
      /\ l.message.body = k.message.body
      /\ l.message.userReference = k.message.userReference
  BY <1>2, <1>3, ReplyShape
<1>5. TaskOK(s, k) /\ tasks[s] = {k}
  BY RunningAlone
<1>6. TaskOK(s, l)'
  BY <1>1, <1>4, <1>5 DEF TaskOK
<1>7. TasksStep({})
  BY <1>3, <1>5, <1>6 DEF TasksStep, TypeOK, OnePlacePerRequest, TasksPlaced
<1>8. WireStep({}, s, {}) /\ OnlyStages({})
  BY <1>1, WireUnchanged DEF OnePlacePerRequest, Unplaced, NoneAbout, OnlyStages
<1> QED  BY <1>1, <1>7, <1>8, Moved

LEMMA ReplyStep ==
  ASSUME TypeOK, OnePlacePerRequest, NEW s \in Side, NEW k \in tasks[s], SendReply(s, k)
  PROVE  OnePlacePerRequest'
<1>1. PICK f : f = k.message
  OBVIOUS
<1>2. PICK r : r = k.message.body
  OBVIOUS
<1>3. /\ k.pc = "reply" /\ Send(s, f)
      /\ SentOr(s, r, "replying", "lost")
      /\ tasks' = [tasks EXCEPT ![s] = @ \ {k}]
      /\ UNCHANGED <<userReference, responseHandlers, answered>>
  BY <1>1, <1>2 DEF SendReply, histories
<1>4. /\ tasks[s] = {k} /\ r \in Request /\ About(k) = r /\ Unplaced({r})
      /\ \A z \in Side : \A l \in tasks[z] : z # s => About(l) # r
      /\ Sender[r] = Other(s) /\ stage[r] = "handling" /\ f.userReference = userReference[r]
  <2>1. About(k) = r
    BY <1>2, <1>3 DEF About
  <2>2. TaskOK(s, k) /\ tasks[s] = {k} /\ About(k) \in Request /\ Unplaced({About(k)})
    BY RunningAlone
  <2>3. \A z \in Side : \A l \in tasks[z] : z # s => About(l) # About(k)
    BY RunningAlone
  <2> QED  BY <1>1, <1>2, <1>3, <2>1, <2>2, <2>3 DEF TaskOK
<1>5. f \in Frame /\ f.type \in ReplyType /\ f.body = r
  BY <1>1, <1>2, <1>3, RunningAlone, TaskShape DEF ReplyMessage
<1>6. /\ stage'[r] = IF state[s] = "open" THEN "replying" ELSE "lost"
      /\ OnlyStages({r})
  BY <1>3, <1>4 DEF SentOr, OnlyStages, TypeOK
<1>7. TasksStep({r})
  BY <1>3, <1>4 DEF TasksStep, TypeOK, OnePlacePerRequest, TasksPlaced
<1>8. /\ WireStep({r}, Other(s), {f})
      /\ state[s] # "open" => WireStep({r}, Other(s), {})
  BY <1>3, <1>4, <1>5, SendEffect DEF OnePlacePerRequest
<1>9. state[s] = "open" => FrameOK(Other(s), f)'
  BY <1>3, <1>4, <1>5, <1>6 DEF FrameOK, ReplyType
<1>10. "handling" \in AwaitingStage
  BY DEF AwaitingStage
<1>11. CASE state[s] = "open"
  BY <1>3, <1>4, <1>6, <1>7, <1>8, <1>9, <1>10, <1>11, Moved
<1>12. CASE state[s] # "open"
  BY <1>3, <1>4, <1>6, <1>7, <1>8, <1>10, <1>12, Moved
<1> QED  BY <1>11, <1>12

LEMMA CallbackStep ==
  ASSUME TypeOK, OnePlacePerRequest, NEW s \in Side, NEW k \in tasks[s],
         RunResponseHandler(s, k)
  PROVE  OnePlacePerRequest'
<1>1. PICK r : r = k.body
  OBVIOUS
<1>2. PICK a : a = [handler |-> k.handler, body |-> k.body]
  OBVIOUS
<1>3. /\ k.pc = "callback"
      /\ answered' = [answered EXCEPT ![s] = Append(@, a)]
      /\ stage' = [stage EXCEPT ![r] = "answered"]
      /\ tasks' = [tasks EXCEPT ![s] = @ \ {k}]
      /\ UNCHANGED <<wire, userReference, responseHandlers>>
  BY <1>1, <1>2 DEF RunResponseHandler
<1>4. /\ tasks[s] = {k} /\ r \in Request /\ Unplaced({r})
      /\ \A z \in Side : \A l \in tasks[z] : z # s => About(l) # r
      /\ k.handler = r /\ Sender[r] = s /\ stage[r] = "responding"
  <2>1. About(k) = r
    BY <1>1, <1>3 DEF About
  <2>2. TaskOK(s, k) /\ tasks[s] = {k} /\ About(k) \in Request /\ Unplaced({About(k)})
    BY RunningAlone
  <2>3. \A z \in Side : \A l \in tasks[z] : z # s => About(l) # About(k)
    BY RunningAlone
  <2> QED  BY <1>1, <1>3, <2>1, <2>2, <2>3 DEF TaskOK
<1>5. a.handler = r /\ a.body = r /\ a \in [handler : Request, body : Request]
  BY <1>1, <1>2, <1>4
<1>6. stage'[r] = "answered" /\ OnlyStages({r})
  BY <1>3, <1>4 DEF OnlyStages, TypeOK
<1>7. TasksStep({r})
  BY <1>3, <1>4 DEF TasksStep, TypeOK, OnePlacePerRequest, TasksPlaced
<1>8. WireStep({r}, s, {})
  BY <1>3, <1>4, WireUnchanged DEF OnePlacePerRequest
<1>9. FramesPlaced' /\ TasksPlaced'
  BY <1>4, <1>6, <1>7, <1>8, PlacesKept
<1>10. HandlersOwned' /\ HandlersAwait'
  BY <1>3, <1>4, <1>6, HandlersKept DEF AwaitingStage
<1>11. AnswersPlaced'
  <2> DEFINE u == Append(answered[s], a)
  <2>1. /\ DOMAIN answered[s] = 1 .. Len(answered[s]) /\ Len(answered[s]) \in Nat
        /\ DOMAIN u = 1 .. Len(answered[s]) + 1
        /\ \A i \in 1 .. Len(answered[s]) : u[i] = answered[s][i]
        /\ u[Len(answered[s]) + 1] = a
    <3>1. answered[s] \in Seq([handler : Request, body : Request])
      BY DEF TypeOK
    <3> QED  BY <1>5, <3>1, AppendProperties, LenProperties
  <2>2. /\ answered'[s] = u
        /\ \A z \in Side : z # s => answered'[z] = answered[z]
    BY <1>3 DEF TypeOK
  <2> HIDE DEF u
  <2>3. ASSUME NEW z \in Side, NEW i \in DOMAIN answered[z]
        PROVE  /\ answered[z][i].handler = answered[z][i].body
               /\ Sender[answered[z][i].body] = z
               /\ stage'[answered[z][i].body] = "answered"
               /\ answered[z][i].handler # r
    <3>1. /\ answered[z][i].handler = answered[z][i].body
          /\ Sender[answered[z][i].body] = z
          /\ stage[answered[z][i].body] = "answered"
      BY DEF OnePlacePerRequest, AnswersPlaced, ToSet
    <3>2. answered[z][i] \in [handler : Request, body : Request]
      <4>1. answered[z] \in Seq([handler : Request, body : Request])
        BY DEF TypeOK
      <4>2. answered[z][i] \in ToSet(answered[z])
        BY DEF ToSet
      <4> QED  BY <4>1, <4>2, ListElements
    <3>3. answered[z][i].body \in Request
      BY <3>2
    <3> QED  BY <1>4, <1>6, <3>1, <3>3 DEF OnlyStages
  <2>4. \A i \in DOMAIN u : \/ i \in DOMAIN answered[s] /\ u[i] = answered[s][i]
                            \/ i = Len(answered[s]) + 1 /\ u[i] = a
    BY <2>1
  <2>5. \A i \in DOMAIN u : /\ u[i].handler = u[i].body
                            /\ Sender[u[i].body] = s
                            /\ stage'[u[i].body] = "answered"
    BY <1>4, <1>5, <1>6, <2>3, <2>4
  <2>6. \A i, j \in DOMAIN u : i # j => u[i].handler # u[j].handler
    BY <1>5, <2>3, <2>4 DEF OnePlacePerRequest, AnswersPlaced
  <2>7. \A z \in Side : \A x \in ToSet(answered'[z]) :
          /\ x.handler = x.body /\ Sender[x.body] = z /\ stage'[x.body] = "answered"
    BY <2>2, <2>3, <2>5 DEF ToSet
  <2>8. \A z \in Side : \A i, j \in DOMAIN answered'[z] :
          i # j => answered'[z][i].handler # answered'[z][j].handler
    BY <2>2, <2>6 DEF OnePlacePerRequest, AnswersPlaced
  <2> QED  BY <2>7, <2>8 DEF AnswersPlaced
<1> QED  BY <1>9, <1>10, <1>11 DEF OnePlacePerRequest
-----------------------------------------------------------------------------
LEMMA StepInvariant == TypeOK /\ OnePlacePerRequest /\ [Next]_vars => OnePlacePerRequest'
<1> SUFFICES ASSUME TypeOK, OnePlacePerRequest, [Next]_vars PROVE OnePlacePerRequest'
  OBVIOUS
<1>1. ASSUME NEW s \in Side, IoThread(s) PROVE OnePlacePerRequest'
  BY <1>1, ControlSteps, InfoSteps, DropSteps, RequestSteps, ResponseStep DEF IoThread
<1>2. ASSUME NEW s \in Side, RunTask(s) PROVE OnePlacePerRequest'
  BY <1>2, ServeSteps, ReplyStep, CallbackStep DEF RunTask
<1>3. ASSUME NEW s \in Side, User(s) \/ Terminate(s) \/ ServerOpen PROVE OnePlacePerRequest'
  BY <1>3, ControlSteps DEF User
<1>4. "server" \in Side
  BY DEF Side
<1>5. ASSUME NEW r \in Request,
             SendRequestPush(r) \/ SendRequestThrows(r) \/ SendRequestSend(r)
      PROVE  OnePlacePerRequest'
  BY <1>5, PushStep, ThrowStep, SendStep
<1>6. CASE UNCHANGED vars
  BY <1>6 DEF vars, histories, OnePlacePerRequest, HandlersOwned, HandlersAwait,
              FramesPlaced, FrameOK, TasksPlaced, TaskOK, AnswersPlaced
<1> QED
  BY <1>1, <1>2, <1>3, <1>4, <1>5, <1>6, InfoSteps DEF Next

(***************************************************************************)
(* Every request is in at most one frame, task or callback, which agrees   *)
(* with how far the request has got and carries the reference its handler  *)
(* is stored under (Connection.cpp:38-48 and 141-194).                     *)
(***************************************************************************)
THEOREM Placed == Spec => []OnePlacePerRequest
<1>1. Init => TypeOK /\ OnePlacePerRequest
  BY InitType, InitInvariant
<1>2. TypeOK /\ OnePlacePerRequest /\ [Next]_vars => (TypeOK /\ OnePlacePerRequest)'
  BY StepType, StepInvariant
<1> QED  BY <1>1, <1>2, PTL DEF Spec

(***************************************************************************)
(* A response always finds the handler of the request it answers, whatever *)
(* is sent, by however many threads, and however references are reused     *)
(* (Connection.cpp:183-192).                                               *)
(***************************************************************************)
THEOREM Matched == Spec => []ResponsesMatched
<1>1. TypeOK /\ OnePlacePerRequest => ResponsesMatched
  <2> SUFFICES ASSUME TypeOK, OnePlacePerRequest PROVE ResponsesMatched
    OBVIOUS
  <2> SUFFICES ASSUME NEW s \in Side, NEW k \in DOMAIN wire[s],
                      wire[s][k].type = "RESPONSE"
               PROVE  Holds(responseHandlers[s], wire[s][k].userReference, wire[s][k].body)
    BY DEF ResponsesMatched
  <2>1. PICK m : m = wire[s][k]
    OBVIOUS
  <2>2. m \in ToSet(wire[s]) /\ wire[s] \in Seq(Frame)
    BY <2>1 DEF ToSet, TypeOK
  <2>3. m \in Frame /\ m.type = "RESPONSE"
    BY <2>1, <2>2, ListElements
  <2>4. m.body \in Request
    BY <2>3, FrameShape DEF ReplyType
  <2>5. /\ Sender[m.body] = s /\ stage[m.body] = "replying"
        /\ m.userReference = userReference[m.body]
    BY <2>2, <2>3 DEF OnePlacePerRequest, FramesPlaced, FrameOK, ReplyType
  <2> QED
    BY <2>1, <2>4, <2>5 DEF OnePlacePerRequest, HandlersAwait, AwaitingStage
<1> QED  BY <1>1, TypeCorrect, Placed, PTL

(***************************************************************************)
(* A response handler is called at most once, at the end that sent its     *)
(* request, and with the reply to that request (Connection.cpp:176-186).   *)
(***************************************************************************)
THEOREM RepliesCorrect == Spec => []RepliesReachTheirRequest
<1>1. OnePlacePerRequest => RepliesReachTheirRequest
  BY DEF OnePlacePerRequest, AnswersPlaced, RepliesReachTheirRequest, ToSet
<1> QED  BY <1>1, Placed, PTL
-----------------------------------------------------------------------------
(***************************************************************************)
(* Requests that a request handler sends, and waits for.                   *)
(***************************************************************************)
\* None but the requests R are begun, by sendRequest, and what is begun stays so.
BegunOnly(R) ==
  \A q \in Request :
    /\ stage[q] \in {"idle", "threw"} => \/ stage'[q] \in {"idle", "threw"}
                                         \/ q \in R /\ stage'[q] = "pushed" /\ Callable(q)
    /\ stage[q] \notin {"idle", "threw"} => stage'[q] \notin {"idle", "threw"}

\* A request handler returns only when its own requests have ended.
RunsOn ==
  \A s \in Side : \A k \in tasks[s] : k.pc = "running" =>
    \/ k \in tasks'[s]
    \/ \A q \in Nested[k.message.body] : stage[q] \in {"answered", "threw"}

\* No reply is looked at but by the ends S, at which no handler runs.
ReadsOnly(S) ==
  \A q \in Request : stage'[q] \in ReplyRead =>
    \/ stage[q] \in ReplyRead
    \/ Sender[q] \in S /\ tasks[Sender[q]] = {}

LEMMA WaitsOn ==
  ASSUME TypeOK, NestedWaits, NEW R, BegunOnly(R), RunsOn, NEW S, ReadsOnly(S)
  PROVE  NestedWaits'
<1> SUFFICES ASSUME NEW r \in Request, NEW q \in Nested[r], stage'[q] \notin {"idle", "threw"}
             PROVE  /\ stage'[q] \notin ReplyRead
                    /\ \E k \in tasks'[Sender[q]] : k.pc = "running" /\ k.message.body = r
  BY DEF NestedWaits
<1>1. q \in Request /\ Sender[q] \in Side
  BY CallsAssumption
<1>2. PICK k \in tasks[Sender[q]] : k.pc = "running" /\ k.message.body = r
  BY <1>1 DEF NestedWaits, BegunOnly, Callable
<1>3. stage[q] \notin {"answered", "threw"} /\ stage[q] \notin ReplyRead
  BY <1>1 DEF NestedWaits, BegunOnly, Callable, ReplyRead
<1>4. k \in tasks'[Sender[q]]
  BY <1>1, <1>2, <1>3 DEF RunsOn
<1>5. stage'[q] \notin ReplyRead
  BY <1>1, <1>2, <1>3 DEF ReadsOnly
<1> QED  BY <1>2, <1>4, <1>5

\* A step that moves only the requests R on, and only past a stage they have reached.
LEMMA MovedOn ==
  ASSUME NEW R \in SUBSET Request, OnlyStages(R), NEW S,
         \A q \in R : /\ stage[q] \notin {"idle", "threw"}
                      /\ stage'[q] \notin {"idle", "threw"}
                      /\ stage'[q] \in ReplyRead => \/ stage[q] \in ReplyRead
                                                    \/ Sender[q] \in S /\ tasks[Sender[q]] = {}
  PROVE  BegunOnly({}) /\ ReadsOnly(S)
<1>1. BegunOnly({})
  BY DEF BegunOnly, OnlyStages
<1>2. ReadsOnly(S)
  BY DEF ReadsOnly, OnlyStages
<1> QED  BY <1>1, <1>2

LEMMA IoReads ==
  ASSUME TypeOK, OnePlacePerRequest, NEW s \in Side, IoThread(s)
  PROVE  BegunOnly({}) /\ RunsOn /\ ReadsOnly({s})
<1>1. wire[s] # <<>> /\ tasks[s] = {} /\ Received(s) \in Frame
  <2>1. wire[s] # <<>> /\ tasks[s] = {}
    BY DEF IoThread, ClientOpen, OnInfo, OnRequest, OnRequestNoHandler, OnResponse,
           OnRequestError, ReceiveClose, Discard, OnMessage, Arrived
  <2> QED  BY <2>1, ReadType
<1>2. \A q \in Request, i \in Info : q # i
  BY CallsAssumption
<1>3. /\ IsExchange(Received(s)) =>
           "body" \in DOMAIN Received(s) /\ Received(s).body \in Request
      /\ ~ IsExchange(Received(s)) /\ "body" \in DOMAIN Received(s) =>
           Received(s).body \in Info
      /\ Received(s).type = "INFO" => Received(s).body \in Info
  <2>1. IsExchange(Received(s)) =>
          "body" \in DOMAIN Received(s) /\ Received(s).body \in Request
    BY <1>1, FrameShape DEF IsExchange
  <2>2. ~ IsExchange(Received(s)) /\ "body" \in DOMAIN Received(s) =>
          Received(s).body \in Info
    BY <1>1, FrameShape DEF IsExchange, Frame, RequestMessage, ReplyMessage, InfoMessage,
                            ControlFrame
  <2>3. Received(s).type = "INFO" => Received(s).body \in Info
    BY <1>1, FrameShape
  <2> QED  BY <2>1, <2>2, <2>3
<1>4. ASSUME Received(s).type = "INFO" PROVE ~ IsExchange(Received(s))
  BY <1>4 DEF IsExchange, ReplyType
<1>5. /\ OnInfo(s) => Received(s).type = "INFO"
      /\ OnRequest(s) \/ OnRequestNoHandler(s) => Received(s).type = "REQUEST"
      /\ OnResponse(s) => Received(s).type = "RESPONSE"
      /\ OnRequestError(s) => Received(s).type = "REQUESTERROR"
  BY DEF OnInfo, OnRequest, OnRequestNoHandler, OnResponse, OnRequestError, OnMessage, Arrived
<1>6. /\ TakenBy(s) \in SUBSET Request
      /\ \A q \in TakenBy(s) : /\ stage[q] \in {"sent", "replying"}
                               /\ Received(s).type \in ReplyType => Sender[q] = s
  BY <1>1, TakenAlone DEF TakenBy, FrameOK, IsExchange
<1>7. OnlyStages(TakenBy(s))
  <2>1. UNCHANGED userReference
    BY DEF IoThread, ClientOpen, OnInfo, OnRequest, OnRequestNoHandler, OnResponse,
           OnRequestError, ReceiveClose, Discard, histories
  <2>2. stage' = stage \/ \E x \in Stage : stage' = [stage EXCEPT ![Received(s).body] = x]
    BY DEF IoThread, ClientOpen, OnInfo, OnRequest, OnRequestNoHandler, OnResponse,
           OnRequestError, ReceiveClose, Discard, histories, Stage
  <2>3. stage' = stage \/ "body" \in DOMAIN Received(s)
    BY <1>1, <1>5, FrameShape
    DEF IoThread, ClientOpen, OnInfo, OnRequest, OnRequestNoHandler, OnResponse,
        OnRequestError, ReceiveClose, Discard, histories, ReplyType
  <2> QED  BY <1>2, <1>3, <2>1, <2>2, <2>3 DEF OnlyStages, TakenBy, TypeOK
<1>8. RunsOn
  BY <1>1 DEF RunsOn, IoThread, ClientOpen, OnInfo, OnRequest, OnRequestNoHandler, OnResponse,
              OnRequestError, ReceiveClose, Discard, histories, TypeOK
<1>9. ASSUME NEW q \in TakenBy(s), stage'[q] \in ReplyRead
      PROVE  Received(s).type \in ReplyType
  <2>1. IsExchange(Received(s)) /\ q = Received(s).body /\ q \in Request
    BY <1>6, <1>9 DEF TakenBy
  <2>2. stage[q] \notin ReplyRead
    BY <1>6, <1>9 DEF ReplyRead
  <2>3. Received(s).type # "INFO"
    BY <1>4, <2>1
  <2>4. OnResponse(s) \/ OnRequestError(s)
    BY <1>5, <1>9, <2>1, <2>2, <2>3
    DEF IoThread, ClientOpen, OnRequest, OnRequestNoHandler, ReceiveClose, Discard,
        histories, ReplyRead, TypeOK
  <2> QED  BY <1>5, <2>4 DEF ReplyType
<1>10. ASSUME NEW q \in TakenBy(s) PROVE stage'[q] \notin {"idle", "threw"}
  <2>1. stage[q] \notin {"idle", "threw"}
    BY <1>6, <1>10
  <2> QED
    BY <2>1, <1>1, <1>6, <1>10
    DEF IoThread, ClientOpen, OnInfo, OnRequest, OnRequestNoHandler, OnResponse,
        OnRequestError, ReceiveClose, Discard, histories, TypeOK
<1> QED  BY <1>1, <1>6, <1>7, <1>8, <1>9, <1>10, MovedOn

LEMMA TaskReads ==
  ASSUME TypeOK, OnePlacePerRequest, NEW s \in Side, RunTask(s)
  PROVE  BegunOnly({}) /\ RunsOn /\ ReadsOnly({})
<1>1. PICK k \in tasks[s] : \/ InvokeRequestHandler(s, k) \/ RequestHandlerReturns(s, k)
                            \/ SendReply(s, k) \/ RunResponseHandler(s, k)
  BY DEF RunTask
<1>2. /\ About(k) \in Request /\ stage[About(k)] \in {"handling", "responding"}
      /\ TaskOK(s, k) /\ tasks[s] = {k}
  BY RunningAlone
<1>3. OnlyStages({About(k)})
  BY <1>1, <1>2 DEF InvokeRequestHandler, RequestHandlerReturns, SendReply,
                    RunResponseHandler, SentOr, OnlyStages, About, histories, TypeOK
<1>4. RunsOn
  BY <1>1, <1>2 DEF InvokeRequestHandler, RequestHandlerReturns, SendReply,
                    RunResponseHandler, RunsOn, TypeOK
<1>5. /\ stage'[About(k)] \notin {"idle", "threw"}
      /\ stage'[About(k)] \in ReplyRead => stage[About(k)] \in ReplyRead
  BY <1>1, <1>2 DEF InvokeRequestHandler, RequestHandlerReturns, SendReply,
     RunResponseHandler, SentOr, ReplyRead, TaskOK, About, histories, TypeOK
<1>6. BegunOnly({}) /\ ReadsOnly({})
  BY <1>2, <1>3, <1>5, MovedOn
<1> QED  BY <1>4, <1>6

LEMMA CallReads ==
  ASSUME TypeOK, NEW r \in Request,
         SendRequestPush(r) \/ SendRequestThrows(r) \/ SendRequestSend(r)
  PROVE  BegunOnly({r}) /\ RunsOn /\ ReadsOnly({})
<1>1. RunsOn
  BY DEF SendRequestPush, SendRequestThrows, SendRequestSend, RunsOn
<1>2. BegunOnly({r})
  BY DEF SendRequestPush, SendRequestThrows, SendRequestSend, SentOr, BegunOnly, Callable, TypeOK
<1>3. ReadsOnly({})
  BY DEF SendRequestPush, SendRequestThrows, SendRequestSend, SentOr, ReadsOnly, ReplyRead,
         TypeOK
<1> QED  BY <1>1, <1>2, <1>3

LEMMA QuietReads ==
  ASSUME TypeOK, NEW s \in Side,
         \/ ServerOpen \/ Terminate(s) \/ User(s) \/ UNCHANGED vars
         \/ \E i \in Info : SendInfo(i)
  PROVE  BegunOnly({}) /\ RunsOn /\ ReadsOnly({})
<1>1. \A q \in Request, i \in Info : q # i
  BY CallsAssumption
<1>2. tasks' = tasks /\ \A q \in Request : stage'[q] = stage[q]
  BY <1>1 DEF ServerOpen, Terminate, User, Close, SetInfoHandler, SetRequestHandler, SendInfo,
              SentOr, vars, histories, TypeOK
<1> QED  BY <1>2 DEF BegunOnly, RunsOn, ReadsOnly

\* What a step may do to the requests that handlers wait for.
LEMMA StepReads ==
  ASSUME TypeOK, OnePlacePerRequest, [Next]_vars
  PROVE  RunsOn /\ \E R, S : BegunOnly(R) /\ ReadsOnly(S)
<1>1. "server" \in Side
  BY DEF Side
<1> QED  BY <1>1, IoReads, TaskReads, CallReads, QuietReads DEF Next

LEMMA InitWaits == Init => NestedWaits
BY CallsAssumption DEF Init, NestedWaits

LEMMA StepWaits ==
  TypeOK /\ OnePlacePerRequest /\ NestedWaits /\ [Next]_vars => NestedWaits'
BY StepReads, WaitsOn

(***************************************************************************)
(* Whatever handlers the user sets, a request handler that sends a request *)
(* back to the end it serves, and waits for it, is never answered          *)
(* (Connection.cpp:145-167: the io thread waits in the destructor of the   *)
(* future that nobody keeps).                                              *)
(***************************************************************************)
THEOREM NestedBlocked == Spec => []NestedNeverAnswered
<1>1. Init => NestedWaits
  BY InitWaits
<1>2. TypeOK /\ OnePlacePerRequest /\ NestedWaits /\ [Next]_vars => NestedWaits'
  BY StepWaits
<1>3. NestedWaits => NestedNeverAnswered
  BY DEF NestedWaits, NestedNeverAnswered, ReplyRead
<1> QED  BY <1>1, <1>2, <1>3, TypeCorrect, Placed, PTL DEF Spec
-----------------------------------------------------------------------------
(***************************************************************************)
(* The order of what is on its way (ConnectionInvariant).  First about     *)
(* chains of any calls: nothing is moved, one is added at the end, the     *)
(* first of the queue is taken, and what is in progress is done.           *)
(***************************************************************************)
\* p2 is p, or p with more at its end.
Extends(p, p2) == /\ ToSet(p) \subseteq ToSet(p2)
                  /\ \A x, y : Before(p, x, y) => Before(p2, x, y)

LEMMA PutEffect ==
  ASSUME NEW P, NEW p \in Seq(P), NEW x \in P
  PROVE  /\ Extends(p, Append(p, x))
         /\ x \in ToSet(Append(p, x))
         /\ \A y \in ToSet(p) : Before(Append(p, x), y, x)
<1> DEFINE u == Append(p, x)
<1>1. /\ Len(p) \in Nat /\ DOMAIN p = 1 .. Len(p)
      /\ DOMAIN u = 1 .. Len(p) + 1
      /\ \A k \in 1 .. Len(p) : u[k] = p[k]
      /\ u[Len(p) + 1] = x
  BY AppendProperties, LenProperties
<1> HIDE DEF u
<1>2. \A k \in DOMAIN p : k \in DOMAIN u /\ u[k] = p[k] /\ k < Len(p) + 1
  BY <1>1
<1>3. Len(p) + 1 \in DOMAIN u
  BY <1>1
<1>4. Extends(p, u)
  BY <1>2 DEF Extends, Before, ToSet
<1> QED  BY <1>1, <1>2, <1>3, <1>4 DEF u, Before, ToSet

\* A queue that has lost its head at most, or has got a frame of another type.
QueueKept(q, q2, T) ==
  \/ q2 = q
  \/ q # <<>> /\ q2 = Tail(q)
  \/ \E f \in Frame : q2 = Append(q, f) /\ f.type \notin T

LEMMA QueueTail ==
  ASSUME NEW E, NEW q \in Seq(E), q # <<>>
  PROVE  /\ Head(q) = q[1] /\ 1 \in DOMAIN q /\ Head(q) \in ToSet(q)
         /\ \A k \in DOMAIN Tail(q) : /\ k \in Nat /\ k+1 \in DOMAIN q /\ k+1 > 1
                                      /\ Tail(q)[k] = q[k+1]
         /\ ToSet(Tail(q)) \subseteq ToSet(q)
         /\ ToSet(q) = ToSet(Tail(q)) \cup {Head(q)}
<1> DEFINE u == Tail(q)
<1>1. Len(q) \in Nat /\ Len(q) > 0 /\ DOMAIN q = 1 .. Len(q) /\ Head(q) = q[1]
  BY LenProperties, EmptySeq
<1>2. u \in Seq(E) /\ Len(u) = Len(q) - 1 /\ \A k \in 1 .. Len(u) : u[k] = q[k+1]
  BY HeadTailProperties
<1>3. DOMAIN u = 1 .. Len(q) - 1
  BY <1>2, LenProperties
<1> HIDE DEF u
<1>4. \A k \in DOMAIN u : k \in Nat /\ k+1 \in DOMAIN q /\ k+1 > 1 /\ u[k] = q[k+1]
  BY <1>1, <1>2, <1>3
<1>5. 1 \in DOMAIN q
  BY <1>1
<1>6. ASSUME NEW k \in DOMAIN q, k # 1 PROVE k-1 \in DOMAIN u /\ u[k-1] = q[k]
  <2>1. k-1 \in 1 .. Len(q) - 1 /\ (k-1)+1 = k
    BY <1>1, <1>6
  <2> QED  BY <1>2, <1>3, <2>1
<1>7. ToSet(q) = ToSet(u) \cup {q[1]}
  BY <1>4, <1>5, <1>6 DEF ToSet
<1> QED  BY <1>1, <1>4, <1>5, <1>7 DEF u, ToSet

LEMMA QueueAppend ==
  ASSUME NEW E, NEW q \in Seq(E), NEW f \in E
  PROVE  /\ \A k \in DOMAIN Append(q, f) :
              \/ k \in DOMAIN q /\ Append(q, f)[k] = q[k]
              \/ k = Len(q) + 1 /\ Append(q, f)[k] = f
         /\ \A k \in DOMAIN q : k < Len(q) + 1 /\ ~ (Len(q) + 1 < k)
         /\ ToSet(Append(q, f)) = ToSet(q) \cup {f}
<1> DEFINE u == Append(q, f)
<1>1. /\ Len(q) \in Nat /\ DOMAIN q = 1 .. Len(q)
      /\ DOMAIN u = 1 .. Len(q) + 1
      /\ \A k \in 1 .. Len(q) : u[k] = q[k]
      /\ u[Len(q) + 1] = f
  BY AppendProperties, LenProperties
<1> HIDE DEF u
<1>2. \A k \in DOMAIN u : (k \in DOMAIN q /\ u[k] = q[k]) \/ (k = Len(q) + 1 /\ u[k] = f)
  BY <1>1
<1>3. \A k \in DOMAIN q : k \in DOMAIN u /\ u[k] = q[k] /\ k < Len(q) + 1 /\ ~ (Len(q) + 1 < k)
  BY <1>1
<1>4. Len(q) + 1 \in DOMAIN u
  BY <1>1
<1>5. ToSet(u) = ToSet(q) \cup {f}
  BY <1>1, <1>2, <1>3, <1>4 DEF ToSet
<1> QED  BY <1>2, <1>3, <1>5 DEF u

LEMMA ChainKept ==
  ASSUME NEW p, NEW p2, Extends(p, p2), NEW done, NEW progress, NEW T,
         NEW q \in Seq(Frame), Chain(p, done, progress, q, T),
         NEW done2 \in SUBSET done, NEW progress2 \in SUBSET progress,
         NEW q2, QueueKept(q, q2, T)
  PROVE  Chain(p2, done2, progress2, q2, T)
<1>1. CASE q2 = q
  BY <1>1 DEF Chain, Extends
<1>2. CASE q # <<>> /\ q2 = Tail(q)
  <2>1. ASSUME NEW k \in DOMAIN q2, NEW l \in DOMAIN q2, k < l,
               q2[k].type \in T, q2[l].type \in T
        PROVE  Before(p2, q2[k].body, q2[l].body)
    <3>1. /\ k+1 \in DOMAIN q /\ l+1 \in DOMAIN q /\ k+1 < l+1
          /\ q2[k] = q[k+1] /\ q2[l] = q[l+1]
      BY <1>2, <2>1, QueueTail
    <3> QED  BY <2>1, <3>1 DEF Chain, Extends
  <2>2. ToSet(q2) \subseteq ToSet(q)
    BY <1>2, QueueTail
  <2> QED  BY <2>1, <2>2 DEF Chain, Extends
<1>3. ASSUME NEW f \in Frame, q2 = Append(q, f), f.type \notin T
      PROVE  Chain(p2, done2, progress2, q2, T)
  <2>1. \A k \in DOMAIN q2 : q2[k].type \in T => k \in DOMAIN q /\ q2[k] = q[k]
    BY <1>3, QueueAppend
  <2>2. \A m \in ToSet(q2) : m.type \in T => m \in ToSet(q)
    BY <1>3, QueueAppend
  <2> QED  BY <2>1, <2>2 DEF Chain, Extends
<1> QED  BY <1>1, <1>2, <1>3 DEF QueueKept

LEMMA ChainAppend ==
  ASSUME NEW p, NEW p2, Extends(p, p2), NEW done, NEW progress, NEW T,
         NEW q \in Seq(Frame), Chain(p, done, progress, q, T),
         NEW f \in Frame, f.body \in ToSet(p2),
         \A y \in done \cup progress : Before(p2, y, f.body),
         \A m \in ToSet(q) : m.type \in T => Before(p2, m.body, f.body)
  PROVE  Chain(p2, done, progress, Append(q, f), T)
<1> DEFINE q2 == Append(q, f)
<1>1. ASSUME NEW k \in DOMAIN q2, NEW l \in DOMAIN q2, k < l,
             q2[k].type \in T, q2[l].type \in T
      PROVE  Before(p2, q2[k].body, q2[l].body)
  <2>1. /\ (k \in DOMAIN q /\ q2[k] = q[k]) \/ (k = Len(q) + 1 /\ q2[k] = f)
        /\ (l \in DOMAIN q /\ q2[l] = q[l]) \/ (l = Len(q) + 1 /\ q2[l] = f)
        /\ \A i \in DOMAIN q : i < Len(q) + 1 /\ ~ (Len(q) + 1 < i)
    BY QueueAppend
  <2>2. Len(q) \in Nat
    BY LenProperties
  <2> HIDE DEF q2
  <2>3. k \in DOMAIN q /\ q2[k] = q[k]
    BY <1>1, <2>1, <2>2
  <2>4. q[k] \in ToSet(q)
    BY <2>3 DEF ToSet
  <2> QED  BY <1>1, <2>1, <2>3, <2>4 DEF Chain, Extends
<1>2. ToSet(q2) = ToSet(q) \cup {f}
  BY QueueAppend
<1> HIDE DEF q2
<1>3. \A m \in ToSet(q2) : m.type \in T => m.body \in ToSet(p2)
  BY <1>2 DEF Chain, Extends
<1>4. Chain(p2, done, progress, q2, T)
  BY <1>1, <1>2, <1>3 DEF Chain, Extends
<1> QED  BY <1>4 DEF q2

\* The head of the queue leaves it, when nothing is in progress.
LEMMA ChainTake ==
  ASSUME NEW p, NEW done, NEW T, NEW q \in Seq(Frame), Chain(p, done, {}, q, T),
         q # <<>>, Head(q).type \in T
  PROVE  /\ Chain(p, done, {Head(q).body}, Tail(q), T)
         /\ Chain(p, done \cup {Head(q).body}, {}, Tail(q), T)
         /\ Head(q).body \in ToSet(p)
         /\ \A y \in done : Before(p, y, Head(q).body)
<1> DEFINE x == Head(q).body
<1>1. Head(q) \in ToSet(q)
  BY QueueTail
<1>2. x \in ToSet(p) /\ \A y \in done : Before(p, y, x)
  BY <1>1 DEF Chain
<1>3. ASSUME NEW m \in ToSet(Tail(q)), m.type \in T PROVE Before(p, x, m.body)
  <2>1. PICK k \in DOMAIN Tail(q) : Tail(q)[k] = m
    BY DEF ToSet
  <2>2. k+1 \in DOMAIN q /\ 1 < k+1 /\ q[k+1] = m /\ 1 \in DOMAIN q /\ q[1] = Head(q)
    BY <2>1, QueueTail
  <2> QED  BY <1>3, <2>2 DEF Chain
<1>4. Extends(p, p) /\ QueueKept(q, Tail(q), T)
  BY DEF Extends, QueueKept
<1>5. Chain(p, done, {}, Tail(q), T)
  BY <1>4, ChainKept
<1> HIDE DEF x
<1>6. Chain(p, done, {x}, Tail(q), T) /\ Chain(p, done \cup {x}, {}, Tail(q), T)
  BY <1>2, <1>3, <1>5 DEF Chain
<1> QED  BY <1>2, <1>6 DEF x

\* What was in progress is done.
LEMMA ChainFinish ==
  ASSUME NEW p, NEW done, NEW x, NEW q, NEW T, Chain(p, done, {x}, q, T)
  PROVE  /\ Chain(p, done \cup {x}, {}, q, T)
         /\ x \in ToSet(p)
         /\ \A y \in done : Before(p, y, x)
BY DEF Chain

LEMMA ListedKept ==
  ASSUME NEW p, NEW p2, Extends(p, p2), NEW q, Listed(p, q)
  PROVE  Listed(p2, q)
BY DEF Listed, Extends

LEMMA ListedAppend ==
  ASSUME NEW E, NEW p, NEW q \in Seq(E), Listed(p, q), NEW x \in E,
         \A y \in ToSet(q) : Before(p, y, x)
  PROVE  Listed(p, Append(q, x))
<1> DEFINE u == Append(q, x)
<1> SUFFICES ASSUME NEW k \in DOMAIN u, NEW l \in DOMAIN u, k < l
             PROVE  Before(p, u[k], u[l])
  BY DEF Listed
<1>1. /\ (k \in DOMAIN q /\ u[k] = q[k]) \/ (k = Len(q) + 1 /\ u[k] = x)
      /\ (l \in DOMAIN q /\ u[l] = q[l]) \/ (l = Len(q) + 1 /\ u[l] = x)
      /\ \A i \in DOMAIN q : i < Len(q) + 1 /\ ~ (Len(q) + 1 < i)
  BY QueueAppend
<1>2. Len(q) \in Nat
  BY LenProperties
<1> HIDE DEF u
<1>3. k \in DOMAIN q /\ u[k] = q[k]
  BY <1>1, <1>2
<1> QED  BY <1>1, <1>3 DEF Listed, ToSet
-----------------------------------------------------------------------------
(***************************************************************************)
(* The three orders of an end, when a step takes nothing of it out of the  *)
(* queues and adds nothing to them.                                        *)
(***************************************************************************)
\* The queues and histories, as sequences.
LEMMA OrderTypes ==
  ASSUME TypeOK, NEW s \in Side
  PROVE  /\ put[s] \in Seq(Request \cup Info) /\ handled[s] \in Seq(Request \cup Info)
         /\ wire[s] \in Seq(Frame) /\ tasks[s] \in SUBSET Task
         /\ answered[s] \in Seq([handler : Request, body : Request])
         /\ Other(s) \in Side /\ Other(s) # s /\ Other(Other(s)) = s
BY Sides DEF TypeOK

LEMMA DataOrderKept ==
  ASSUME TypeOK, NEW s \in Side, DataOrder(s), Extends(put[s], put'[s]),
         handled'[Other(s)] = handled[Other(s)],
         Invoked(Other(s))' \subseteq Invoked(Other(s)),
         QueueKept(wire[Other(s)], wire'[Other(s)], {"REQUEST", "INFO"})
  PROVE  DataOrder(s)'
<1> DEFINE o == Other(s)
<1>1. Chain(put'[s], ToSet(handled[o]), Invoked(o)', wire'[o], {"REQUEST", "INFO"})
  BY ChainKept, OrderTypes DEF DataOrder
<1>2. Listed(put'[s], handled[o])
  BY ListedKept DEF DataOrder
<1> QED  BY <1>1, <1>2 DEF DataOrder

LEMMA RequestOrderKept ==
  ASSUME TypeOK, NEW s \in Side, RequestOrder(s), Extends(put[s], put'[s]),
         Replied(s)' \subseteq Replied(s),
         Serving(Other(s))' \subseteq Serving(Other(s)),
         QueueKept(wire[Other(s)], wire'[Other(s)], {"REQUEST"})
  PROVE  RequestOrder(s)'
<1>1. Chain(put'[s], Replied(s)', Serving(Other(s))', wire'[Other(s)], {"REQUEST"})
  BY ChainKept, OrderTypes DEF RequestOrder
<1> QED  BY <1>1 DEF RequestOrder

LEMMA ReplyOrderKept ==
  ASSUME TypeOK, NEW s \in Side, ReplyOrder(s), Extends(put[s], put'[s]),
         HandlersCalled(s)' = HandlersCalled(s),
         CallingBack(s)' \subseteq CallingBack(s),
         QueueKept(wire[s], wire'[s], ReplyType)
  PROVE  ReplyOrder(s)'
<1>1. Chain(put'[s], ToSet(HandlersCalled(s)), CallingBack(s)', wire'[s], ReplyType)
  BY ChainKept, OrderTypes DEF ReplyOrder
<1>2. Listed(put'[s], HandlersCalled(s))
  BY ListedKept DEF ReplyOrder
<1> QED  BY <1>1, <1>2 DEF ReplyOrder

LEMMA RepliedKept ==
  ASSUME TypeOK, NEW s \in Side, HandlersCalled(s)' = HandlersCalled(s),
         CallingBack(s)' \subseteq CallingBack(s),
         QueueKept(wire[s], wire'[s], ReplyType)
  PROVE  Replied(s)' \subseteq Replied(s)
<1>1. \A m \in ToSet(wire'[s]) : m.type \in ReplyType => m \in ToSet(wire[s])
  <2>1. wire[s] \in Seq(Frame)
    BY OrderTypes
  <2>2. CASE wire'[s] = wire[s]
    BY <2>2
  <2>3. CASE wire[s] # <<>> /\ wire'[s] = Tail(wire[s])
    BY <2>1, <2>3, QueueTail
  <2>4. ASSUME NEW f \in Frame, wire'[s] = Append(wire[s], f), f.type \notin ReplyType
        PROVE  \A m \in ToSet(wire'[s]) : m.type \in ReplyType => m \in ToSet(wire[s])
    BY <2>1, <2>4, QueueAppend
  <2> QED  BY <2>2, <2>3, <2>4 DEF QueueKept
<1> QED  BY <1>1 DEF Replied

\* The reply side of s is as it was, or has lost something.
QuietReplies(s) == /\ answered'[s] = answered[s]
                   /\ CallingBack(s)' \subseteq CallingBack(s)
                   /\ QueueKept(wire[s], wire'[s], ReplyType)

LEMMA QuietRepliesKept ==
  ASSUME TypeOK, NEW s \in Side, QuietReplies(s)
  PROVE  /\ HandlersCalled(s)' = HandlersCalled(s)
         /\ Replied(s)' \subseteq Replied(s)
<1>1. HandlersCalled(s)' = HandlersCalled(s)
  BY DEF QuietReplies, HandlersCalled
<1> QED  BY <1>1, RepliedKept DEF QuietReplies

\* The serving side of s is as it was, or has lost something.
QuietServing(s) == /\ handled'[s] = handled[s]
                   /\ Invoked(s)' \subseteq Invoked(s)
                   /\ Serving(s)' \subseteq Serving(s)
                   /\ QueueKept(wire[s], wire'[s], {"REQUEST", "INFO"})

\* A queue that has kept its data frames has kept its requests.
LEMMA FewerTypes ==
  ASSUME NEW q, NEW q2, QueueKept(q, q2, {"REQUEST", "INFO"})
  PROVE  QueueKept(q, q2, {"REQUEST"})
BY DEF QueueKept

LEMMA QuietOrder ==
  ASSUME TypeOK, NEW s \in Side, DataOrder(s), RequestOrder(s), ReplyOrder(s),
         put'[s] = put[s], QuietReplies(s), QuietServing(Other(s))
  PROVE  DataOrder(s)' /\ RequestOrder(s)' /\ ReplyOrder(s)'
<1>1. Extends(put[s], put'[s])
  BY DEF Extends
<1>2. QueueKept(wire[Other(s)], wire'[Other(s)], {"REQUEST"})
  BY FewerTypes DEF QuietServing
<1>3. DataOrder(s)'
  BY <1>1, DataOrderKept DEF QuietServing
<1>4. RequestOrder(s)'
  BY <1>1, <1>2, QuietRepliesKept, RequestOrderKept DEF QuietServing
<1>5. ReplyOrder(s)'
  BY <1>1, QuietRepliesKept, ReplyOrderKept DEF QuietReplies
<1> QED  BY <1>3, <1>4, <1>5
-----------------------------------------------------------------------------
(***************************************************************************)
(* What the helpers of WebSocket++, and changes of the tasks, do to the    *)
(* queues and sets that the orders are about.                              *)
(***************************************************************************)
LEMMA SendKept ==
  ASSUME TypeOK, NEW s \in Side, NEW f \in Frame, Send(s, f)
  PROVE  /\ wire'[s] = wire[s]
         /\ state[s] = "open" => wire'[Other(s)] = Append(wire[Other(s)], f)
         /\ state[s] # "open" => wire'[Other(s)] = wire[Other(s)]
         /\ \A T : f.type \notin T \/ state[s] # "open" =>
              QueueKept(wire[Other(s)], wire'[Other(s)], T)
         /\ \A T : QueueKept(wire[s], wire'[s], T)
BY Sides DEF Send, QueueKept, TypeOK

LEMMA ReadKept ==
  ASSUME TypeOK, NEW s \in Side, wire[s] # <<>>, Read(s)
  PROVE  /\ wire'[s] = Tail(wire[s]) /\ wire'[Other(s)] = wire[Other(s)]
         /\ \A z \in Side : \A T : QueueKept(wire[z], wire'[z], T)
BY Sides DEF Read, QueueKept, TypeOK, Side, Other

LEMMA SendBackKept ==
  ASSUME TypeOK, NEW s \in Side, NEW f \in Frame, wire[s] # <<>>, SendBack(s, f)
  PROVE  /\ wire'[s] = Tail(wire[s]) /\ wire'[Other(s)] = Append(wire[Other(s)], f)
         /\ \A T : QueueKept(wire[s], wire'[s], T)
         /\ \A T : f.type \notin T => QueueKept(wire[Other(s)], wire'[Other(s)], T)
BY Sides DEF SendBack, QueueKept, TypeOK

\* Fewer tasks, or the same ones.
LEMMA FewerTasks ==
  ASSUME NEW s \in Side, tasks'[s] \subseteq tasks[s]
  PROVE  /\ Invoked(s)' \subseteq Invoked(s) /\ Serving(s)' \subseteq Serving(s)
         /\ CallingBack(s)' \subseteq CallingBack(s)
BY DEF Invoked, Serving, CallingBack

LEMMA NoTasks ==
  ASSUME NEW s \in Side, tasks[s] = {}
  PROVE  Invoked(s) = {} /\ Serving(s) = {} /\ CallingBack(s) = {}
BY DEF Invoked, Serving, CallingBack

\* The three sets when an end has one task.
LEMMA OneTask ==
  ASSUME NEW S, NEW k, S = {k}
  PROVE  /\ {t.message.body : t \in {u \in S : u.pc = "invoke"}} =
              IF k.pc = "invoke" THEN {k.message.body} ELSE {}
         /\ {t.message.body : t \in {u \in S : u.pc # "callback"}} =
              IF k.pc # "callback" THEN {k.message.body} ELSE {}
         /\ {t.handler : t \in {u \in S : u.pc = "callback"}} =
              IF k.pc = "callback" THEN {k.handler} ELSE {}
OBVIOUS

LEMMA BothSides ==
  ASSUME NEW s \in Side,
         DataOrder(s)' /\ RequestOrder(s)' /\ ReplyOrder(s)',
         DataOrder(Other(s))' /\ RequestOrder(Other(s))' /\ ReplyOrder(Other(s))'
  PROVE  InSendingOrder'
BY DEF InSendingOrder, Side, Other

(***************************************************************************)
(* Steps that take nothing out of its turn and put nothing on the wire     *)
(* that has one.                                                           *)
(***************************************************************************)
LEMMA QuietOrders ==
  ASSUME TypeOK, InSendingOrder, put' = put,
         \A z \in Side : QuietReplies(z) /\ QuietServing(z)
  PROVE  InSendingOrder'
<1> SUFFICES ASSUME NEW s \in Side PROVE DataOrder(s)' /\ RequestOrder(s)' /\ ReplyOrder(s)'
  BY DEF InSendingOrder
<1>1. Other(s) \in Side
  BY Sides
<1> QED  BY <1>1, QuietOrder DEF InSendingOrder

LEMMA UnsentOrder ==
  ASSUME TypeOK, InSendingOrder, UNCHANGED <<wire, tasks, put, handled, answered>>
  PROVE  InSendingOrder'
<1>1. \A z \in Side : QuietReplies(z) /\ QuietServing(z)
  BY DEF QuietReplies, QuietServing, QueueKept, Invoked, Serving, CallingBack
<1> QED  BY <1>1, QuietOrders

LEMMA OpenOrder ==
  ASSUME TypeOK, InSendingOrder, ServerOpen
  PROVE  InSendingOrder'
<1>1. PICK accept : accept = [type |-> "accept"]
  OBVIOUS
<1>2. accept \in Frame /\ accept.type = "accept"
  BY <1>1 DEF Frame, ControlFrame
<1>3. /\ wire' = [wire EXCEPT !["client"] = Append(@, accept)] /\ "client" \in Side
      /\ UNCHANGED <<tasks, put, handled, answered>>
  BY <1>1 DEF ServerOpen, Side, histories
<1>4. ASSUME NEW z \in Side, NEW T, "accept" \notin T
      PROVE  QueueKept(wire[z], wire'[z], T)
  BY <1>2, <1>3, <1>4 DEF QueueKept, TypeOK
<1>5. ASSUME NEW z \in Side PROVE QuietReplies(z) /\ QuietServing(z)
  <2>1. QueueKept(wire[z], wire'[z], ReplyType)
    BY <1>4 DEF ReplyType
  <2>2. QueueKept(wire[z], wire'[z], {"REQUEST", "INFO"})
    BY <1>4
  <2> QED  BY <1>3, <2>1, <2>2, FewerTasks DEF QuietReplies, QuietServing
<1> QED  BY <1>3, <1>5, QuietOrders

LEMMA ControlOrder ==
  ASSUME TypeOK, InSendingOrder, NEW s \in Side,
         \/ s = "client" /\ ClientOpen
         \/ ReceiveClose(s) \/ User(s)
         \/ Discard(s) \/ OnRequestError(s)
  PROVE  InSendingOrder'
<1>1. PICK close : close = [type |-> "close"]
  OBVIOUS
<1>2. close \in Frame /\ close.type = "close"
  BY <1>1 DEF Frame, ControlFrame
<1>3. UNCHANGED <<tasks, put, handled, answered>>
  BY DEF ClientOpen, ReceiveClose, User, Close, SetInfoHandler, SetRequestHandler,
         Discard, OnRequestError, histories
<1>4. ASSUME NEW z \in Side, NEW T, "close" \notin T
      PROVE  QueueKept(wire[z], wire'[z], T)
  <2>1. z = s \/ z = Other(s)
    BY DEF Side, Other
  <2>2. CASE Read(s) /\ wire[s] # <<>>
    BY <2>2, ReadKept
  <2>3. CASE SendBack(s, close) /\ wire[s] # <<>>
    BY <1>2, <1>4, <2>1, <2>3, SendBackKept
  <2>4. CASE Send(s, close)
    BY <1>2, <1>4, <2>1, <2>4, SendKept
  <2>5. CASE wire' = wire
    BY <2>5 DEF QueueKept
  <2>6. ClientOpen /\ s = "client" => Read(s) /\ wire[s] # <<>>
    BY DEF ClientOpen, Arrived
  <2>7. ReceiveClose(s) => wire[s] # <<>> /\ (Read(s) \/ SendBack(s, close))
    BY <1>1 DEF ReceiveClose, Arrived
  <2>8. Discard(s) \/ OnRequestError(s) => Read(s) /\ wire[s] # <<>>
    BY DEF Discard, OnRequestError, OnMessage, Arrived
  <2>9. User(s) => Send(s, close) \/ wire' = wire
    BY <1>1 DEF User, Close, SetInfoHandler, SetRequestHandler
  <2> QED  BY <2>2, <2>3, <2>4, <2>5, <2>6, <2>7, <2>8, <2>9
<1>5. \A z \in Side : QuietReplies(z) /\ QuietServing(z)
  <2> SUFFICES ASSUME NEW z \in Side PROVE QuietReplies(z) /\ QuietServing(z)
    OBVIOUS
  <2>1. QueueKept(wire[z], wire'[z], ReplyType)
    BY <1>4 DEF ReplyType
  <2>2. QueueKept(wire[z], wire'[z], {"REQUEST", "INFO"})
    BY <1>4
  <2> QED  BY <1>3, <2>1, <2>2, FewerTasks DEF QuietReplies, QuietServing
<1> QED  BY <1>3, <1>5, QuietOrders

(***************************************************************************)
(* A message that goes out is the last of its end's.                       *)
(***************************************************************************)
LEMMA SendOrder ==
  ASSUME TypeOK, InSendingOrder, NEW s \in Side, NEW f \in Frame,
         f.type \in {"REQUEST", "INFO"}, f.body \in Request \cup Info,
         Send(s, f), Put(s, f.body), UNCHANGED <<tasks, handled, answered>>
  PROVE  InSendingOrder'
<1> DEFINE o == Other(s)
           x == f.body
<1>1. o \in Side /\ o # s /\ Other(o) = s
  BY Sides
<1>2. \A z \in Side : /\ Invoked(z)' = Invoked(z) /\ Serving(z)' = Serving(z)
                      /\ CallingBack(z)' = CallingBack(z)
                      /\ handled'[z] = handled[z] /\ answered'[z] = answered[z]
  BY DEF Invoked, Serving, CallingBack
<1>3. \A T : QueueKept(wire[s], wire'[s], T)
  BY SendKept
<1>4. QueueKept(wire[o], wire'[o], ReplyType)
  BY SendKept DEF ReplyType
<1>5. put'[o] = put[o]
  BY <1>1 DEF Put, TypeOK
<1>6. QuietReplies(s) /\ QuietReplies(o) /\ QuietServing(s)
  BY <1>1, <1>2, <1>3, <1>4 DEF QuietReplies, QuietServing
<1>7. DataOrder(o)' /\ RequestOrder(o)' /\ ReplyOrder(o)'
  BY <1>1, <1>5, <1>6, QuietOrder DEF InSendingOrder
<1>8. CASE state[s] # "open"
  <2>1. put'[s] = put[s] /\ QuietServing(o)
    BY <1>1, <1>2, <1>8, SendKept DEF QuietServing, Put
  <2>2. DataOrder(s)' /\ RequestOrder(s)' /\ ReplyOrder(s)'
    BY <1>6, <2>1, QuietOrder DEF InSendingOrder
  <2> QED  BY <1>7, <2>2, BothSides
<1>9. CASE state[s] = "open"
  <2>1. wire'[o] = Append(wire[o], f) /\ put'[s] = Append(put[s], x)
    BY <1>9, SendKept DEF Put, TypeOK
  <2>2. /\ Extends(put[s], put'[s]) /\ x \in ToSet(put'[s])
        /\ \A y \in ToSet(put[s]) : Before(put'[s], y, x)
    BY <2>1, PutEffect, OrderTypes
  <2>3. wire[o] \in Seq(Frame)
    BY <1>1, OrderTypes
  <2>4. ASSUME NEW done, NEW progress, NEW T, Chain(put[s], done, progress, wire[o], T)
        PROVE  Chain(put'[s], done, progress, wire'[o], T)
    <3>1. /\ \A y \in done \cup progress : Before(put'[s], y, x)
          /\ \A m \in ToSet(wire[o]) : m.type \in T => Before(put'[s], m.body, x)
      BY <2>2, <2>4 DEF Chain
    <3> QED  BY <2>1, <2>2, <2>3, <2>4, <3>1, ChainAppend
  <2>5. Listed(put'[s], handled[o])
    BY <2>2, ListedKept DEF InSendingOrder, DataOrder
  <2>6. DataOrder(s)'
    BY <1>1, <1>2, <2>4, <2>5 DEF InSendingOrder, DataOrder
  <2>7. RequestOrder(s)'
    <3>1. Replied(s)' = Replied(s)
      BY <1>2, <1>3, SendKept DEF Replied, HandlersCalled
    <3> QED  BY <1>1, <1>2, <2>4, <3>1 DEF InSendingOrder, RequestOrder
  <2>8. ReplyOrder(s)'
    BY <1>2, <1>3, <1>6, <2>2, QuietRepliesKept, ReplyOrderKept DEF InSendingOrder
  <2> QED  BY <1>7, <2>6, <2>7, <2>8, BothSides
<1> QED  BY <1>8, <1>9

LEMMA CallOrder ==
  ASSUME TypeOK, InSendingOrder,
         \/ \E r \in Request : SendRequestSend(r)
         \/ \E i \in Info : SendInfo(i)
  PROVE  InSendingOrder'
<1>1. ASSUME NEW r \in Request, SendRequestSend(r) PROVE InSendingOrder'
  <2>1. PICK f : f = [type |-> "REQUEST", userReference |-> userReference[r], body |-> r]
    OBVIOUS
  <2>2. f \in Frame /\ f.type = "REQUEST" /\ f.body = r /\ Sender[r] \in Side
    BY <2>1, CallsAssumption DEF TypeOK, Frame, RequestMessage
  <2>3. /\ Send(Sender[r], f) /\ Put(Sender[r], f.body)
        /\ UNCHANGED <<tasks, handled, answered>>
    BY <1>1, <2>1, <2>2 DEF SendRequestSend
  <2> QED  BY <2>2, <2>3, SendOrder
<1>2. ASSUME NEW i \in Info, SendInfo(i) PROVE InSendingOrder'
  <2>1. PICK f : f = [type |-> "INFO", userReference |-> 0, body |-> i]
    OBVIOUS
  <2>2. f \in Frame /\ f.type = "INFO" /\ f.body = i /\ Sender[i] \in Side
    BY <2>1, CallsAssumption DEF Frame, InfoMessage
  <2>3. /\ Send(Sender[i], f) /\ Put(Sender[i], f.body)
        /\ UNCHANGED <<tasks, handled, answered>>
    BY <1>2, <2>1, <2>2 DEF SendInfo
  <2> QED  BY <2>2, <2>3, SendOrder
<1> QED  BY <1>1, <1>2
-----------------------------------------------------------------------------
(***************************************************************************)
(* on_message takes the first frame of its queue: it is the next one in    *)
(* the order of the other end.                                             *)
(***************************************************************************)
\* The io thread of s reads, changes its own tasks at most, and sends nothing.
LEMMA ReadOrders ==
  ASSUME TypeOK, NEW s \in Side, wire[s] # <<>>, Read(s),
         UNCHANGED <<put, answered>>,
         \A z \in Side : z # s => handled'[z] = handled[z] /\ tasks'[z] = tasks[z]
  PROVE  /\ Extends(put[s], put'[s]) /\ Extends(put[Other(s)], put'[Other(s)])
         /\ QuietReplies(Other(s)) /\ QuietServing(Other(s))
         /\ CallingBack(s)' \subseteq CallingBack(s) => QuietReplies(s)
         /\ \A T : QueueKept(wire[s], wire'[s], T)
<1>1. Other(s) \in Side /\ Other(s) # s
  BY Sides
<1>2. \A T : QueueKept(wire[s], wire'[s], T) /\ QueueKept(wire[Other(s)], wire'[Other(s)], T)
  BY <1>1, ReadKept
<1>3. tasks'[Other(s)] \subseteq tasks[Other(s)] /\ handled'[Other(s)] = handled[Other(s)]
  BY <1>1
<1>4. QuietReplies(Other(s)) /\ QuietServing(Other(s))
  BY <1>1, <1>2, <1>3, FewerTasks DEF QuietReplies, QuietServing
<1>5. CallingBack(s)' \subseteq CallingBack(s) => QuietReplies(s)
  BY <1>2 DEF QuietReplies
<1>6. Extends(put[s], put'[s]) /\ Extends(put[Other(s)], put'[Other(s)])
  BY DEF Extends
<1> QED  BY <1>2, <1>4, <1>5, <1>6

LEMMA InfoOrder ==
  ASSUME TypeOK, InSendingOrder, NEW s \in Side, OnInfo(s)
  PROVE  InSendingOrder'
<1> DEFINE o == Other(s)
<1>1. PICK m : m = Received(s)
  OBVIOUS
<1>2. /\ wire[s] # <<>> /\ tasks[s] = {} /\ m.type = "INFO" /\ Read(s)
      /\ UNCHANGED <<put, answered, tasks>>
      /\ handled' = IF infoHandler[s] THEN [handled EXCEPT ![s] = Append(@, m.body)] ELSE handled
  BY <1>1 DEF OnInfo, OnMessage, Arrived
<1>3. o \in Side /\ o # s /\ Other(o) = s /\ m = Head(wire[s])
  BY <1>1, Sides DEF Received
<1>4. m \in Frame /\ m.body \in Info
  BY <1>1, <1>2, ReadType, FrameShape
<1>5. /\ \A z \in Side : z # s => handled'[z] = handled[z]
      /\ handled'[s] = IF infoHandler[s] THEN Append(handled[s], m.body) ELSE handled[s]
  BY <1>2 DEF TypeOK
<1>6. /\ Invoked(s)' = {} /\ Serving(s)' = {} /\ CallingBack(s)' = {}
      /\ Invoked(s) = {} /\ Serving(s) = {} /\ CallingBack(s) = {}
  BY <1>2, NoTasks DEF Invoked, Serving, CallingBack
<1>7. /\ Extends(put[s], put'[s]) /\ Extends(put[o], put'[o])
      /\ QuietReplies(o) /\ QuietServing(o) /\ QuietReplies(s)
      /\ \A T : QueueKept(wire[s], wire'[s], T)
  BY <1>2, <1>5, <1>6, ReadOrders
<1>8. DataOrder(s)' /\ RequestOrder(s)' /\ ReplyOrder(s)'
  BY <1>2, <1>7, QuietOrder DEF InSendingOrder
<1>9. CASE ~ infoHandler[s]
  <2>1. QuietServing(s)
    BY <1>5, <1>6, <1>7, <1>9 DEF QuietServing
  <2> QED  BY <1>2, <1>3, <1>7, <1>8, <2>1, QuietOrder, BothSides DEF InSendingOrder
<1>10. CASE infoHandler[s]
  <2>1. RequestOrder(o)' /\ ReplyOrder(o)'
    BY <1>3, <1>6, <1>7, QuietRepliesKept, RequestOrderKept, ReplyOrderKept
    DEF InSendingOrder, QuietReplies
  <2>2. wire[s] \in Seq(Frame) /\ handled[s] \in Seq(Request \cup Info)
    BY OrderTypes
  <2>3. /\ Chain(put[o], ToSet(handled[s]), {}, wire[s], {"REQUEST", "INFO"})
        /\ Listed(put[o], handled[s])
    BY <1>3, <1>6 DEF InSendingOrder, DataOrder
  <2>4. /\ Chain(put[o], ToSet(handled[s]) \cup {m.body}, {}, Tail(wire[s]), {"REQUEST", "INFO"})
        /\ \A y \in ToSet(handled[s]) : Before(put[o], y, m.body)
    <3>1. PICK done : done = ToSet(handled[s])
      OBVIOUS
    <3>2. Head(wire[s]).type \in {"REQUEST", "INFO"}
      BY <1>2, <1>3
    <3>3. Chain(put[o], done, {}, wire[s], {"REQUEST", "INFO"})
      BY <2>3, <3>1
    <3>4. /\ Chain(put[o], done \cup {Head(wire[s]).body}, {}, Tail(wire[s]), {"REQUEST", "INFO"})
          /\ \A y \in done : Before(put[o], y, Head(wire[s]).body)
      BY <1>2, <2>2, <3>2, <3>3, ChainTake
    <3> QED  BY <1>3, <3>1, <3>4
  <2>5. Listed(put[o], Append(handled[s], m.body))
    BY <1>4, <2>2, <2>3, <2>4, ListedAppend
  <2>6. ToSet(Append(handled[s], m.body)) = ToSet(handled[s]) \cup {m.body}
    <3>1. m.body \in Request \cup Info
      BY <1>4
    <3> QED  BY <2>2, <3>1, QueueAppend
  <2>7. wire'[s] = Tail(wire[s]) /\ put'[o] = put[o] /\ handled'[s] = Append(handled[s], m.body)
    BY <1>2, <1>5, <1>10, ReadKept
  <2>8. DataOrder(o)'
    BY <1>3, <1>6, <2>4, <2>5, <2>6, <2>7 DEF DataOrder
  <2> QED  BY <1>8, <2>1, <2>8, BothSides
<1> QED  BY <1>9, <1>10

LEMMA RequestOrdered ==
  ASSUME TypeOK, InSendingOrder, NEW s \in Side, OnRequest(s)
  PROVE  InSendingOrder'
<1> DEFINE o == Other(s)
<1>1. PICK m : m = Received(s)
  OBVIOUS
<1>2. PICK k : k = [pc |-> "invoke", message |-> m]
  OBVIOUS
<1>3. /\ wire[s] # <<>> /\ tasks[s] = {} /\ m.type = "REQUEST" /\ Read(s)
      /\ UNCHANGED <<put, answered, handled>>
      /\ tasks' = [tasks EXCEPT ![s] = @ \cup {k}]
  BY <1>1, <1>2 DEF OnRequest, OnMessage, Arrived, histories
<1>4. o \in Side /\ o # s /\ Other(o) = s /\ m = Head(wire[s])
  BY <1>1, Sides DEF Received
<1>5. k.pc = "invoke" /\ k.message = m
  BY <1>2
<1>6. tasks'[s] = {k} /\ \A z \in Side : z # s => tasks'[z] = tasks[z]
  BY <1>3 DEF TypeOK
<1>7. /\ Invoked(s)' = {m.body} /\ Serving(s)' = {m.body} /\ CallingBack(s)' = {}
      /\ Invoked(s) = {} /\ Serving(s) = {}
  <2>1. \A S : S = {k} =>
          /\ {t.message.body : t \in {u \in S : u.pc = "invoke"}} = {m.body}
          /\ {t.message.body : t \in {u \in S : u.pc # "callback"}} = {m.body}
          /\ {t.handler : t \in {u \in S : u.pc = "callback"}} = {}
    BY <1>5, OneTask
  <2>2. Invoked(s)' = {m.body} /\ Serving(s)' = {m.body} /\ CallingBack(s)' = {}
    BY <1>6, <2>1 DEF Invoked, Serving, CallingBack
  <2> QED  BY <1>3, <2>2, NoTasks
<1>8. /\ Extends(put[s], put'[s]) /\ Extends(put[o], put'[o])
      /\ QuietReplies(o) /\ QuietServing(o) /\ QuietReplies(s)
  BY <1>3, <1>6, <1>7, ReadOrders
<1>9. DataOrder(s)' /\ RequestOrder(s)' /\ ReplyOrder(s)'
  BY <1>3, <1>8, QuietOrder DEF InSendingOrder
<1>10. wire[s] \in Seq(Frame) /\ wire'[s] = Tail(wire[s]) /\ put'[o] = put[o]
  BY <1>3, OrderTypes, ReadKept
<1>11. DataOrder(o)'
  <2>1. /\ Chain(put[o], ToSet(handled[s]), {}, wire[s], {"REQUEST", "INFO"})
        /\ Listed(put[o], handled[s])
    BY <1>4, <1>7 DEF InSendingOrder, DataOrder
  <2>2. Chain(put[o], ToSet(handled[s]), {m.body}, Tail(wire[s]), {"REQUEST", "INFO"})
    BY <1>3, <1>4, <1>10, <2>1, ChainTake
  <2> QED  BY <1>3, <1>4, <1>7, <1>10, <2>1, <2>2 DEF DataOrder
<1>12. RequestOrder(o)'
  <2>1. Chain(put[o], Replied(o), {}, wire[s], {"REQUEST"})
    BY <1>4, <1>7 DEF InSendingOrder, RequestOrder
  <2>2. Chain(put[o], Replied(o), {m.body}, Tail(wire[s]), {"REQUEST"})
    BY <1>3, <1>4, <1>10, <2>1, ChainTake
  <2>3. Chain(put[o], Replied(o)', {m.body}, Tail(wire[s]), {"REQUEST"})
    BY <1>4, <1>8, <2>2, QuietRepliesKept DEF Chain
  <2> QED  BY <1>4, <1>7, <1>10, <2>3 DEF RequestOrder
<1>13. ReplyOrder(o)'
  BY <1>4, <1>8, QuietRepliesKept, ReplyOrderKept DEF InSendingOrder, QuietReplies
<1> QED  BY <1>9, <1>11, <1>12, <1>13, BothSides
-----------------------------------------------------------------------------
\* A reply goes out after all the replies to the requests sent before its own.
LEMMA ReplyAppended ==
  ASSUME TypeOK, NEW o \in Side, ReplyOrder(o), UNCHANGED <<put, answered>>,
         tasks'[o] = tasks[o], NEW f \in Frame, f.type \in ReplyType,
         wire'[o] = Append(wire[o], f), f.body \in ToSet(put[o]),
         \A y \in Replied(o) : Before(put[o], y, f.body)
  PROVE  ReplyOrder(o)' /\ Replied(o)' \subseteq Replied(o) \cup {f.body}
<1>1. wire[o] \in Seq(Frame)
  BY OrderTypes
<1>2. HandlersCalled(o)' = HandlersCalled(o) /\ CallingBack(o)' = CallingBack(o)
  BY DEF HandlersCalled, CallingBack
<1>3. ToSet(wire'[o]) = ToSet(wire[o]) \cup {f}
  BY <1>1, QueueAppend
<1>4. Replied(o)' \subseteq Replied(o) \cup {f.body}
  BY <1>2, <1>3 DEF Replied
<1>5. ReplyOrder(o)'
  <2>1. PICK done : done = ToSet(HandlersCalled(o))
    OBVIOUS
  <2>2. PICK progress : progress = CallingBack(o)
    OBVIOUS
  <2>3. Chain(put[o], done, progress, wire[o], ReplyType) /\ Extends(put[o], put[o])
    BY <2>1, <2>2 DEF ReplyOrder, Extends
  <2>4. /\ \A y \in done \cup progress : Before(put[o], y, f.body)
        /\ \A m \in ToSet(wire[o]) : m.type \in ReplyType => Before(put[o], m.body, f.body)
    BY <2>1, <2>2 DEF Replied
  <2>5. Chain(put[o], done, progress, Append(wire[o], f), ReplyType)
    BY <1>1, <2>3, <2>4, ChainAppend
  <2> QED  BY <1>2, <2>1, <2>2, <2>5 DEF ReplyOrder
<1> QED  BY <1>4, <1>5

LEMMA RefuseOrder ==
  ASSUME TypeOK, InSendingOrder, NEW s \in Side, OnRequestNoHandler(s)
  PROVE  InSendingOrder'
<1> DEFINE o == Other(s)
<1>1. PICK m : m = Received(s)
  OBVIOUS
<1>2. PICK f : f = Reply("REQUESTERROR", m)
  OBVIOUS
<1>3. /\ wire[s] # <<>> /\ tasks[s] = {} /\ m.type = "REQUEST" /\ SendBack(s, f)
      /\ UNCHANGED <<put, answered, handled, tasks>>
  BY <1>1, <1>2 DEF OnRequestNoHandler, OnMessage, Arrived, histories
<1>4. o \in Side /\ o # s /\ Other(o) = s /\ m = Head(wire[s])
  BY <1>1, Sides DEF Received
<1>5. m \in RequestMessage
  BY <1>1, <1>3, ReadType, FrameShape
<1>6. f \in Frame /\ f.type = "REQUESTERROR" /\ f.type \in ReplyType /\ f.body = m.body
  BY <1>2, <1>5, ReplyShape DEF ReplyType
<1>7. /\ wire'[s] = Tail(wire[s]) /\ wire'[o] = Append(wire[o], f)
      /\ \A T : QueueKept(wire[s], wire'[s], T)
      /\ QueueKept(wire[o], wire'[o], {"REQUEST", "INFO"})
  BY <1>3, <1>6, SendBackKept
<1>8. QuietReplies(s) /\ QuietServing(o) /\ QuietServing(s)
  BY <1>3, <1>7, <1>4, FewerTasks DEF QuietReplies, QuietServing
<1>9. DataOrder(s)' /\ RequestOrder(s)' /\ ReplyOrder(s)'
  BY <1>3, <1>8, QuietOrder DEF InSendingOrder
<1>10. wire[s] \in Seq(Frame) /\ put'[o] = put[o] /\ Extends(put[o], put'[o])
  BY <1>3, OrderTypes DEF Extends
<1>11. DataOrder(o)'
  BY <1>3, <1>4, <1>8, <1>10, DataOrderKept DEF InSendingOrder, QuietServing
<1>12. /\ Chain(put[o], Replied(o) \cup {m.body}, {}, Tail(wire[s]), {"REQUEST"})
       /\ m.body \in ToSet(put[o])
       /\ \A y \in Replied(o) : Before(put[o], y, m.body)
  <2>1. PICK done : done = Replied(o)
    OBVIOUS
  <2>2. Chain(put[o], done, {}, wire[s], {"REQUEST"})
    BY <1>3, <1>4, <2>1, NoTasks DEF InSendingOrder, RequestOrder
  <2>3. Head(wire[s]).type \in {"REQUEST"}
    BY <1>3, <1>4
  <2>4. /\ Chain(put[o], done \cup {Head(wire[s]).body}, {}, Tail(wire[s]), {"REQUEST"})
        /\ Head(wire[s]).body \in ToSet(put[o])
        /\ \A y \in done : Before(put[o], y, Head(wire[s]).body)
    BY <1>3, <1>10, <2>2, <2>3, ChainTake
  <2> QED  BY <1>4, <2>1, <2>4
<1>13. ReplyOrder(o)' /\ Replied(o)' \subseteq Replied(o) \cup {m.body}
  BY <1>3, <1>4, <1>6, <1>7, <1>12, ReplyAppended DEF InSendingOrder
<1>14. RequestOrder(o)'
  <2>1. Chain(put[o], Replied(o)', {}, Tail(wire[s]), {"REQUEST"})
    BY <1>12, <1>13 DEF Chain
  <2>2. Serving(s)' = {}
    BY <1>3 DEF Serving
  <2> QED  BY <1>4, <1>7, <1>10, <2>1, <2>2 DEF RequestOrder
<1> QED  BY <1>9, <1>11, <1>13, <1>14, BothSides

LEMMA ResponseOrder ==
  ASSUME TypeOK, OnePlacePerRequest, InSendingOrder, NEW s \in Side, OnResponse(s)
  PROVE  InSendingOrder'
<1> DEFINE o == Other(s)
<1>1. PICK m : m = Received(s)
  OBVIOUS
<1>2. PICK k : k = [pc |-> "callback", handler |-> m.body, body |-> m.body]
  OBVIOUS
<1>3. /\ wire[s] # <<>> /\ tasks[s] = {} /\ m.type = "RESPONSE" /\ m.type \in ReplyType
      /\ Read(s) /\ UNCHANGED <<put, answered, handled>>
  BY <1>1 DEF OnResponse, OnMessage, Arrived, histories, ReplyType
<1>4. tasks' = [tasks EXCEPT ![s] = @ \cup {k}]
  BY <1>1, <1>2, ResponseFinds
<1>5. o \in Side /\ o # s /\ Other(o) = s /\ m = Head(wire[s])
  BY <1>1, Sides DEF Received
<1>6. k.pc = "callback" /\ k.handler = m.body
  BY <1>2
<1>7. tasks'[s] = {k} /\ \A z \in Side : z # s => tasks'[z] = tasks[z]
  BY <1>3, <1>4 DEF TypeOK
<1>8. /\ Invoked(s)' = {} /\ Serving(s)' = {} /\ CallingBack(s)' = {m.body}
      /\ CallingBack(s) = {}
  <2>1. \A S : S = {k} =>
          /\ {t.message.body : t \in {u \in S : u.pc = "invoke"}} = {}
          /\ {t.message.body : t \in {u \in S : u.pc # "callback"}} = {}
          /\ {t.handler : t \in {u \in S : u.pc = "callback"}} = {m.body}
    BY <1>6, OneTask
  <2>2. Invoked(s)' = {} /\ Serving(s)' = {} /\ CallingBack(s)' = {m.body}
    BY <1>7, <2>1 DEF Invoked, Serving, CallingBack
  <2> QED  BY <1>3, <2>2, NoTasks
<1>9. /\ Extends(put[s], put'[s]) /\ QuietReplies(o) /\ QuietServing(o)
      /\ \A T : QueueKept(wire[s], wire'[s], T)
  BY <1>3, <1>7, ReadOrders
<1>10. QuietServing(s)
  BY <1>3, <1>8, <1>9 DEF QuietServing
<1>11. DataOrder(o)' /\ RequestOrder(o)' /\ ReplyOrder(o)'
  BY <1>3, <1>5, <1>9, <1>10, QuietOrder DEF InSendingOrder
<1>12. DataOrder(s)'
  BY <1>9, DataOrderKept DEF InSendingOrder, QuietServing
<1>13. /\ wire[s] \in Seq(Frame) /\ wire'[s] = Tail(wire[s]) /\ put'[s] = put[s]
       /\ HandlersCalled(s)' = HandlersCalled(s)
  BY <1>3, OrderTypes, ReadKept DEF HandlersCalled
<1>14. Replied(s)' \subseteq Replied(s)
  <2>1. ToSet(wire[s]) = ToSet(wire'[s]) \cup {m}
    BY <1>3, <1>5, <1>13, QueueTail
  <2> QED  BY <1>3, <1>8, <1>13, <2>1 DEF Replied
<1>15. RequestOrder(s)'
  <2>1. QueueKept(wire[o], wire'[o], {"REQUEST"})
    BY <1>9, FewerTypes DEF QuietServing
  <2> QED  BY <1>9, <1>14, <2>1, RequestOrderKept DEF InSendingOrder, QuietServing
<1>16. ReplyOrder(s)'
  <2>1. /\ Chain(put[s], ToSet(HandlersCalled(s)), {}, wire[s], ReplyType)
        /\ Listed(put[s], HandlersCalled(s))
    BY <1>8 DEF InSendingOrder, ReplyOrder
  <2>2. Chain(put[s], ToSet(HandlersCalled(s)), {m.body}, Tail(wire[s]), ReplyType)
    BY <1>3, <1>5, <1>13, <2>1, ChainTake
  <2> QED  BY <1>8, <1>13, <2>1, <2>2 DEF ReplyOrder
<1> QED  BY <1>11, <1>12, <1>15, <1>16, BothSides
-----------------------------------------------------------------------------
(***************************************************************************)
(* The tasks carry on with what was taken from the queue.                  *)
(***************************************************************************)
\* A task of s serves on: from its stage k to its stage l.
LEMMA ServesOn ==
  ASSUME TypeOK, OnePlacePerRequest, NEW s \in Side, NEW k \in tasks[s], NEW l,
         k.pc \in {"invoke", "running"}, l.pc \in {"running", "reply"},
         l.message.body = k.message.body,
         tasks'[s] = {l}, \A z \in Side : z # s => tasks'[z] = tasks[z],
         UNCHANGED <<wire, put, answered>>
  PROVE  /\ Invoked(s) = IF k.pc = "invoke" THEN {k.message.body} ELSE {}
         /\ Invoked(s)' = {} /\ Serving(s)' = Serving(s)
         /\ \A z \in Side : QuietReplies(z) /\ Extends(put[z], put'[z])
         /\ \A z \in Side : /\ QueueKept(wire[z], wire'[z], {"REQUEST", "INFO"})
                            /\ QueueKept(wire[z], wire'[z], {"REQUEST"})
         /\ handled'[Other(s)] = handled[Other(s)] => QuietServing(Other(s))
<1>1. tasks[s] = {k}
  BY RunningAlone
<1>2. tasks'[s] = {l} /\ \A z \in Side : z # s => tasks'[z] = tasks[z]
  OBVIOUS
<1>3. /\ Invoked(s) = IF k.pc = "invoke" THEN {k.message.body} ELSE {}
      /\ Serving(s) = {k.message.body}
  <2>1. /\ Invoked(s) = {t.message.body : t \in {u \in tasks[s] : u.pc = "invoke"}}
        /\ Serving(s) = {t.message.body : t \in {u \in tasks[s] : u.pc # "callback"}}
    BY DEF Invoked, Serving
  <2> QED  BY <1>1, <2>1, OneTask
<1>4. Invoked(s)' = {} /\ Serving(s)' = {k.message.body} /\ CallingBack(s)' = {}
  <2>1. \A S : S = {l} =>
          /\ {t.message.body : t \in {u \in S : u.pc = "invoke"}} = {}
          /\ {t.message.body : t \in {u \in S : u.pc # "callback"}} = {k.message.body}
          /\ {t.handler : t \in {u \in S : u.pc = "callback"}} = {}
    BY OneTask
  <2> QED  BY <1>2, <2>1 DEF Invoked, Serving, CallingBack
<1>5. \A z \in Side : \A T : QueueKept(wire[z], wire'[z], T)
  BY DEF QueueKept
<1>6. \A z \in Side : z # s => CallingBack(z)' \subseteq CallingBack(z)
  BY <1>2, FewerTasks
<1>7. \A z \in Side : QuietReplies(z) /\ Extends(put[z], put'[z])
  BY <1>4, <1>5, <1>6 DEF QuietReplies, Extends
<1>8. handled'[Other(s)] = handled[Other(s)] => QuietServing(Other(s))
  BY <1>2, <1>5, Sides, FewerTasks DEF QuietServing
<1> QED  BY <1>3, <1>4, <1>5, <1>7, <1>8

LEMMA ServeOrder ==
  ASSUME TypeOK, OnePlacePerRequest, InSendingOrder, NEW s \in Side, NEW k \in tasks[s],
         InvokeRequestHandler(s, k) \/ RequestHandlerReturns(s, k)
  PROVE  InSendingOrder'
<1> DEFINE o == Other(s)
<1>1. PICK x : x = k.message.body
  OBVIOUS
<1>2. k.message \in RequestMessage /\ x \in Request /\ k.pc \in {"invoke", "running"}
  BY <1>1, RunningAlone, TaskShape DEF InvokeRequestHandler, RequestHandlerReturns
<1>3. /\ o \in Side /\ o # s /\ Other(o) = s
      /\ UNCHANGED <<wire, put, answered>>
      /\ \/ handled' = handled
         \/ k.pc = "invoke" /\ handled' = [handled EXCEPT ![s] = Append(@, x)]
  BY <1>1, Sides DEF InvokeRequestHandler, RequestHandlerReturns, histories
<1>4. PICK l : /\ l \in {[pc |-> "running", message |-> k.message]} \cup
                       {[pc |-> "reply", message |-> Reply(type, k.message)] : type \in ReplyType}
               /\ tasks' = [tasks EXCEPT ![s] = (@ \ {k}) \cup {l}]
  <2>1. "REQUESTERROR" \in ReplyType
    BY DEF ReplyType
  <2> QED  BY <2>1 DEF InvokeRequestHandler, RequestHandlerReturns
<1>5. l.pc \in {"running", "reply"} /\ l.message.body = k.message.body
  BY <1>2, <1>4, ReplyShape
<1>6. \A z \in Side : z # s => handled'[z] = handled[z]
  BY <1>3 DEF TypeOK
<1>7. /\ Invoked(s) = IF k.pc = "invoke" THEN {x} ELSE {}
      /\ Invoked(s)' = {} /\ Serving(s)' = Serving(s)
      /\ \A z \in Side : QuietReplies(z) /\ Extends(put[z], put'[z])
      /\ \A z \in Side : /\ QueueKept(wire[z], wire'[z], {"REQUEST", "INFO"})
                         /\ QueueKept(wire[z], wire'[z], {"REQUEST"})
      /\ QuietServing(o)
  <2>1. handled'[Other(s)] = handled[Other(s)]
    BY <1>3, <1>6
  <2>2. /\ Invoked(s) = IF k.pc = "invoke" THEN {k.message.body} ELSE {}
        /\ Invoked(s)' = {} /\ Serving(s)' = Serving(s)
        /\ \A z \in Side : QuietReplies(z) /\ Extends(put[z], put'[z])
        /\ \A z \in Side : /\ QueueKept(wire[z], wire'[z], {"REQUEST", "INFO"})
                           /\ QueueKept(wire[z], wire'[z], {"REQUEST"})
        /\ QuietServing(Other(s))
    <3>1. tasks'[s] = {l} /\ \A z \in Side : z # s => tasks'[z] = tasks[z]
      BY <1>4, RunningAlone DEF TypeOK
    <3>2. UNCHANGED <<wire, put, answered>>
      BY <1>3
    <3>3. k.pc \in {"invoke", "running"}
      BY <1>2
    <3> QED  BY <1>5, <2>1, <3>1, <3>2, <3>3, ServesOn
  <2> QED  BY <1>1, <2>2
<1>8. DataOrder(s)' /\ RequestOrder(s)' /\ ReplyOrder(s)'
  BY <1>3, <1>7, QuietOrder DEF InSendingOrder
<1>9. RequestOrder(o)' /\ ReplyOrder(o)'
  BY <1>3, <1>7, QuietRepliesKept, RequestOrderKept, ReplyOrderKept
  DEF InSendingOrder, QuietReplies
<1>10. DataOrder(o)'
  <2>1. CASE handled' = handled
    BY <1>3, <1>7, <2>1, DataOrderKept DEF InSendingOrder
  <2>2. CASE k.pc = "invoke" /\ handled' = [handled EXCEPT ![s] = Append(@, x)]
    <3>1. PICK done : done = ToSet(handled[s])
      OBVIOUS
    <3>2. handled[s] \in Seq(Request \cup Info) /\ x \in Request \cup Info
      BY <1>2, OrderTypes
    <3>3. Chain(put[o], done, {x}, wire[s], {"REQUEST", "INFO"}) /\ Listed(put[o], handled[s])
      BY <1>3, <1>7, <2>2, <3>1 DEF InSendingOrder, DataOrder
    <3>4. /\ Chain(put[o], done \cup {x}, {}, wire[s], {"REQUEST", "INFO"})
          /\ \A y \in ToSet(handled[s]) : Before(put[o], y, x)
      BY <3>1, <3>3, ChainFinish
    <3>5. Listed(put[o], Append(handled[s], x))
      BY <3>2, <3>3, <3>4, ListedAppend
    <3>6. ToSet(Append(handled[s], x)) = done \cup {x}
      BY <3>1, <3>2, QueueAppend
    <3>7. handled'[s] = Append(handled[s], x)
      BY <2>2 DEF TypeOK
    <3> QED  BY <1>3, <1>7, <3>4, <3>5, <3>6, <3>7 DEF DataOrder
  <2> QED  BY <1>3, <2>1, <2>2
<1> QED  BY <1>8, <1>9, <1>10, BothSides

LEMMA ReplyOrdered ==
  ASSUME TypeOK, OnePlacePerRequest, InSendingOrder, NEW s \in Side, NEW k \in tasks[s],
         SendReply(s, k)
  PROVE  InSendingOrder'
<1> DEFINE o == Other(s)
<1>1. PICK f : f = k.message
  OBVIOUS
<1>2. /\ k.pc = "reply" /\ Send(s, f)
      /\ tasks' = [tasks EXCEPT ![s] = @ \ {k}]
      /\ UNCHANGED <<put, handled, answered>>
  BY <1>1 DEF SendReply, histories
<1>3. f \in Frame /\ f.type \in ReplyType /\ tasks[s] = {k}
  BY <1>1, <1>2, RunningAlone, TaskShape DEF ReplyMessage
<1>4. o \in Side /\ o # s /\ Other(o) = s
  BY Sides
<1>5. tasks'[s] = {} /\ \A z \in Side : z # s => tasks'[z] = tasks[z]
  BY <1>2, <1>3 DEF TypeOK
<1>6. Serving(s) = {f.body}
  <2>1. Serving(s) = {t.message.body : t \in {u \in tasks[s] : u.pc # "callback"}}
    BY DEF Serving
  <2> QED  BY <1>1, <1>2, <1>3, <2>1, OneTask
<1>7. Serving(s)' = {} /\ Invoked(s)' = {} /\ CallingBack(s)' = {}
  BY <1>5 DEF Serving, Invoked, CallingBack
<1>8. /\ wire'[s] = wire[s]
      /\ \A T : QueueKept(wire[s], wire'[s], T)
      /\ QueueKept(wire[o], wire'[o], {"REQUEST", "INFO"})
      /\ state[s] # "open" => \A T : QueueKept(wire[o], wire'[o], T)
      /\ state[s] = "open" => wire'[o] = Append(wire[o], f)
  BY <1>2, <1>3, SendKept DEF ReplyType
<1>9. QuietReplies(s) /\ QuietServing(s) /\ QuietServing(o)
  BY <1>2, <1>4, <1>5, <1>7, <1>8, FewerTasks DEF QuietReplies, QuietServing
<1>10. CASE state[s] # "open"
  <2>1. QuietReplies(o)
    BY <1>2, <1>4, <1>5, <1>8, <1>10, FewerTasks DEF QuietReplies
  <2>2. \A z \in Side : QuietReplies(z) /\ QuietServing(z)
    BY <1>9, <2>1 DEF Side, Other
  <2> QED  BY <1>2, <2>2, QuietOrders
<1>11. CASE state[s] = "open"
  <2>1. DataOrder(s)' /\ RequestOrder(s)' /\ ReplyOrder(s)'
    BY <1>2, <1>9, QuietOrder DEF InSendingOrder
  <2>2. DataOrder(o)'
    <3>1. Extends(put[o], put'[o])
      BY <1>2 DEF Extends
    <3> QED  BY <1>2, <1>4, <1>9, <3>1, DataOrderKept DEF InSendingOrder, QuietServing
  <2>3. /\ Chain(put[o], Replied(o) \cup {f.body}, {}, wire[s], {"REQUEST"})
        /\ f.body \in ToSet(put[o])
        /\ \A y \in Replied(o) : Before(put[o], y, f.body)
    <3>1. PICK done : done = Replied(o)
      OBVIOUS
    <3>2. Chain(put[o], done, {f.body}, wire[s], {"REQUEST"})
      BY <1>4, <1>6, <3>1 DEF InSendingOrder, RequestOrder
    <3> QED  BY <3>1, <3>2, ChainFinish
  <2>4. ReplyOrder(o)' /\ Replied(o)' \subseteq Replied(o) \cup {f.body}
    BY <1>2, <1>3, <1>4, <1>5, <1>8, <1>11, <2>3, ReplyAppended DEF InSendingOrder
  <2>5. RequestOrder(o)'
    <3>1. Chain(put[o], Replied(o)', {}, wire[s], {"REQUEST"})
      BY <2>3, <2>4 DEF Chain
    <3> QED  BY <1>2, <1>4, <1>7, <1>8, <3>1 DEF RequestOrder
  <2> QED  BY <2>1, <2>2, <2>4, <2>5, BothSides
<1> QED  BY <1>10, <1>11

\* The handler called back is added to those called.
LEMMA HandlerCalled ==
  ASSUME TypeOK, NEW s \in Side, NEW a \in [handler : Request, body : Request],
         answered'[s] = Append(answered[s], a)
  PROVE  /\ HandlersCalled(s) \in Seq(Request)
         /\ HandlersCalled(s)' = Append(HandlersCalled(s), a.handler)
<1> DEFINE c == answered[s]
           h == HandlersCalled(s)
           u == Append(c, a)
           v == Append(h, a.handler)
<1>1. c \in Seq([handler : Request, body : Request])
  BY OrderTypes
<1>2. /\ Len(c) \in Nat /\ DOMAIN c = 1 .. Len(c)
      /\ \A i \in 1 .. Len(c) : c[i] \in [handler : Request, body : Request]
  BY <1>1, LenProperties, ElementOfSeq
<1>3. h = [i \in 1 .. Len(c) |-> c[i].handler]
  BY <1>2 DEF HandlersCalled
<1>4. h \in Seq(Request)
  BY <1>2, <1>3, IsASeq
<1>5. Len(h) = Len(c)
  BY <1>2, <1>3, <1>4, LenProperties
<1>6. /\ DOMAIN u = 1 .. Len(c) + 1
      /\ \A i \in 1 .. Len(c) : u[i] = c[i]
      /\ u[Len(c) + 1] = a
  BY <1>1, AppendProperties, LenProperties
<1>7. /\ v \in Seq(Request) /\ DOMAIN v = 1 .. Len(c) + 1
      /\ \A i \in 1 .. Len(c) : v[i] = h[i]
      /\ v[Len(c) + 1] = a.handler
  BY <1>4, <1>5, AppendProperties, LenProperties
<1>8. h' = [i \in DOMAIN u |-> u[i].handler]
  BY DEF HandlersCalled
<1>9. v = [i \in 1 .. Len(c) + 1 |-> v[i]]
  BY <1>7, LenProperties
<1> HIDE DEF u, v
<1>10. \A i \in 1 .. Len(c) + 1 : u[i].handler = v[i]
  <2>1. \A i \in 1 .. Len(c) : h[i] = c[i].handler
    BY <1>3
  <2>2. ASSUME NEW i \in 1 .. Len(c) PROVE u[i].handler = v[i]
    BY <1>6, <1>7, <2>1
  <2>3. \A i \in 1 .. Len(c) + 1 : i \in 1 .. Len(c) \/ i = Len(c) + 1
    BY <1>2
  <2> QED  BY <1>6, <1>7, <2>2, <2>3
<1>11. h' = v
  BY <1>6, <1>8, <1>9, <1>10
<1> QED  BY <1>4, <1>11 DEF v

LEMMA CallbackOrder ==
  ASSUME TypeOK, OnePlacePerRequest, InSendingOrder, NEW s \in Side, NEW k \in tasks[s],
         RunResponseHandler(s, k)
  PROVE  InSendingOrder'
<1> DEFINE o == Other(s)
<1>1. PICK a : a = [handler |-> k.handler, body |-> k.body]
  OBVIOUS
<1>2. /\ k.pc = "callback"
      /\ answered' = [answered EXCEPT ![s] = Append(@, a)]
      /\ tasks' = [tasks EXCEPT ![s] = @ \ {k}]
      /\ UNCHANGED <<wire, put, handled>>
  BY <1>1 DEF RunResponseHandler
<1>3. k.handler \in Request /\ k.body \in Request /\ tasks[s] = {k}
  BY <1>2, RunningAlone, TaskShape
<1>4. a.handler = k.handler /\ a \in [handler : Request, body : Request]
  BY <1>1, <1>3
<1>5. o \in Side /\ o # s /\ Other(o) = s
  BY Sides
<1>6. /\ tasks'[s] = {} /\ answered'[s] = Append(answered[s], a)
      /\ \A z \in Side : z # s => tasks'[z] = tasks[z] /\ answered'[z] = answered[z]
  BY <1>2, <1>3 DEF TypeOK
<1>7. CallingBack(s) = {k.handler}
  <2>1. CallingBack(s) = {t.handler : t \in {u \in tasks[s] : u.pc = "callback"}}
    BY DEF CallingBack
  <2> QED  BY <1>2, <1>3, <2>1, OneTask
<1>8. Serving(s)' = {} /\ Invoked(s)' = {} /\ CallingBack(s)' = {}
  BY <1>6 DEF Serving, Invoked, CallingBack
<1>9. /\ \A z \in Side : \A T : QueueKept(wire[z], wire'[z], T)
      /\ \A z \in Side : Extends(put[z], put'[z])
  BY <1>2 DEF QueueKept, Extends
<1>10. QuietServing(s) /\ QuietServing(o) /\ QuietReplies(o)
  BY <1>2, <1>5, <1>6, <1>8, <1>9, FewerTasks DEF QuietReplies, QuietServing
<1>11. DataOrder(o)' /\ RequestOrder(o)' /\ ReplyOrder(o)'
  BY <1>2, <1>5, <1>10, QuietOrder DEF InSendingOrder
<1>12. DataOrder(s)'
  BY <1>9, <1>10, DataOrderKept DEF InSendingOrder, QuietServing
<1>13. /\ HandlersCalled(s) \in Seq(Request)
       /\ HandlersCalled(s)' = Append(HandlersCalled(s), k.handler)
  BY <1>4, <1>6, HandlerCalled
<1>14. ToSet(HandlersCalled(s)') = ToSet(HandlersCalled(s)) \cup {k.handler}
  BY <1>3, <1>13, QueueAppend
<1>15. RequestOrder(s)'
  <2>1. Replied(s)' \subseteq Replied(s)
    BY <1>2, <1>7, <1>8, <1>14 DEF Replied
  <2> QED  BY <1>5, <1>9, <1>10, <2>1, RequestOrderKept DEF InSendingOrder, QuietServing
<1>16. ReplyOrder(s)'
  <2>1. PICK done : done = ToSet(HandlersCalled(s))
    OBVIOUS
  <2>2. Chain(put[s], done, {k.handler}, wire[s], ReplyType) /\ Listed(put[s], HandlersCalled(s))
    BY <1>7, <2>1 DEF InSendingOrder, ReplyOrder
  <2>3. /\ Chain(put[s], done \cup {k.handler}, {}, wire[s], ReplyType)
        /\ \A y \in ToSet(HandlersCalled(s)) : Before(put[s], y, k.handler)
    BY <2>1, <2>2, ChainFinish
  <2>4. Listed(put[s], Append(HandlersCalled(s), k.handler))
    BY <1>3, <1>13, <2>2, <2>3, ListedAppend
  <2> QED  BY <1>2, <1>8, <1>13, <1>14, <2>1, <2>3, <2>4 DEF ReplyOrder
<1> QED  BY <1>11, <1>12, <1>15, <1>16, BothSides
-----------------------------------------------------------------------------
LEMMA InitOrder == Init => InSendingOrder
<1> SUFFICES ASSUME Init, NEW s \in Side
             PROVE  DataOrder(s) /\ RequestOrder(s) /\ ReplyOrder(s)
  BY DEF InSendingOrder
<1>1. Other(s) \in Side
  BY Sides
<1>2. \A z \in Side : /\ DOMAIN wire[z] = {} /\ ToSet(wire[z]) = {} /\ tasks[z] = {}
                      /\ DOMAIN handled[z] = {} /\ ToSet(handled[z]) = {}
                      /\ DOMAIN answered[z] = {}
  BY DEF Init, ToSet
<1>3. DOMAIN HandlersCalled(s) = {} /\ ToSet(HandlersCalled(s)) = {}
  BY <1>2 DEF HandlersCalled, ToSet
<1>4. \A z \in Side : Invoked(z) = {} /\ Serving(z) = {} /\ CallingBack(z) = {}
  BY <1>2, NoTasks
<1>5. Replied(s) = {}
  BY <1>2, <1>3, <1>4 DEF Replied
<1> QED  BY <1>1, <1>2, <1>3, <1>4, <1>5 DEF DataOrder, RequestOrder, ReplyOrder, Chain, Listed

LEMMA StepOrder ==
  TypeOK /\ OnePlacePerRequest /\ InSendingOrder /\ [Next]_vars => InSendingOrder'
<1> SUFFICES ASSUME TypeOK, OnePlacePerRequest, InSendingOrder, [Next]_vars
             PROVE  InSendingOrder'
  OBVIOUS
<1>1. ASSUME NEW s \in Side, IoThread(s) PROVE InSendingOrder'
  BY <1>1, ControlOrder, InfoOrder, RequestOrdered, RefuseOrder, ResponseOrder DEF IoThread
<1>2. ASSUME NEW s \in Side, RunTask(s) PROVE InSendingOrder'
  BY <1>2, ServeOrder, ReplyOrdered, CallbackOrder DEF RunTask
<1>3. "server" \in Side
  BY DEF Side
<1>4. ASSUME NEW s \in Side, User(s) PROVE InSendingOrder'
  BY <1>4, ControlOrder
<1>5. CASE UNCHANGED <<wire, tasks, put, handled, answered>>
  BY <1>5, UnsentOrder
<1>6. /\ \A s \in Side : Terminate(s) => UNCHANGED <<wire, tasks, put, handled, answered>>
      /\ \A r \in Request : SendRequestPush(r) \/ SendRequestThrows(r) =>
           UNCHANGED <<wire, tasks, put, handled, answered>>
      /\ UNCHANGED vars => UNCHANGED <<wire, tasks, put, handled, answered>>
  BY DEF Terminate, vars, SendRequestPush, SendRequestThrows, histories
<1> QED  BY <1>1, <1>2, <1>3, <1>4, <1>5, <1>6, OpenOrder, CallOrder DEF Next

(***************************************************************************)
(* What is on its way is in the order in which it was sent: what has been  *)
(* handled, then what is being handled, then the queue; for requests and   *)
(* infos, for requests and their replies, and for replies and the response *)
(* handlers (Connection.cpp:38-65 and 130-194).                            *)
(***************************************************************************)
THEOREM Ordered == Spec => []InSendingOrder
<1>1. Init => InSendingOrder
  BY InitOrder
<1>2. TypeOK /\ OnePlacePerRequest /\ InSendingOrder /\ [Next]_vars => InSendingOrder'
  BY StepOrder
<1> QED  BY <1>1, <1>2, TypeCorrect, Placed, PTL DEF Spec

(***************************************************************************)
(* The info and request handlers of an end are called in the order in      *)
(* which the other end sent the messages, whatever both ends send and      *)
(* whichever handlers are set when (Connection.cpp:130-175).               *)
(***************************************************************************)
THEOREM HandlersInOrder == Spec => []HandledInOrder
<1>1. InSendingOrder => HandledInOrder
  BY DEF InSendingOrder, DataOrder, Listed, Before, HandledInOrder, InOrderOf
<1> QED  BY <1>1, Ordered, PTL

(***************************************************************************)
(* Response handlers are called in the order in which their requests were  *)
(* sent, whatever the request handlers do and however long they take       *)
(* (Connection.cpp:141-193).                                               *)
(***************************************************************************)
THEOREM RepliesInOrder == Spec => []AnsweredInOrder
<1>1. InSendingOrder => AnsweredInOrder
  BY DEF InSendingOrder, ReplyOrder, Listed, Before, AnsweredInOrder, InOrderOf, HandlersCalled
<1> QED  BY <1>1, Ordered, PTL
-----------------------------------------------------------------------------
(***************************************************************************)
(* Requests that are on their way.  A step leaves all but the requests R   *)
(* where they are.                                                         *)
(***************************************************************************)
FramesStay(R) ==
  \A z \in Side : \A m \in ToSet(wire[z]) :
    IsExchange(m) => m.body \in R \/ m \in ToSet(wire'[z])

TasksStay(R) ==
  \A z \in Side : \A k \in tasks[z] :
    k.pc # "callback" => k.message.body \in R \/ k \in tasks'[z]

NoneSent(R) ==
  \A q \in Request \ R, z \in Side : q \in ToSet(put'[z]) => q \in ToSet(put[z])

NoneStored(R) ==
  \A z \in Side : \A e \in ToSet(responseHandlers'[z]) :
    e.second \in R \/ e \in ToSet(responseHandlers[z])

\* No end opens again, and no task is started before it has opened.
NoneReopened ==
  \A z \in Side : /\ state[z] # "connecting" => state'[z] # "connecting"
                  /\ state[z] \in {"closing", "closed"} => state'[z] \in {"closing", "closed"}

NoneEarly == \A z \in Side : tasks'[z] # {} => tasks[z] # {} \/ state[z] = "open"

\* A request is in flight when it has a frame, or a task that serves it.
LEMMA InFlightPlace ==
  ASSUME NEW r, InFlight(r)
  PROVE  \E s \in Side : \/ \E m \in ToSet(wire[s]) : IsExchange(m) /\ m.body = r
                         \/ \E k \in tasks[s] : k.pc # "callback" /\ k.message.body = r
BY DEF InFlight, IsExchange, ToSet

LEMMA InFlightNext ==
  ASSUME TypeOK', NEW r, NEW s \in Side
  PROVE  /\ \A m \in ToSet(wire'[s]) : IsExchange(m) /\ m.body = r => InFlight(r)'
         /\ \A k \in tasks'[s] : k.pc # "callback" /\ k.message.body = r => InFlight(r)'
<1>1. \A k \in tasks'[s] : k.pc # "callback" => k.pc \in {"invoke", "running", "reply"}
  BY TaskShape DEF TypeOK
<1> QED  BY <1>1 DEF InFlight, IsExchange, ToSet

LEMMA OthersOnTheirWay ==
  ASSUME TypeOK, TypeOK', EveryRequestOnItsWay, NEW R \in SUBSET Request, OnlyStages(R),
         FramesStay(R), TasksStay(R), NoneSent(R), NoneStored(R), NoneReopened, NoneEarly,
         \A r \in R : OnItsWay(r)'
  PROVE  EveryRequestOnItsWay'
<1>1. TasksOpened'
  BY DEF EveryRequestOnItsWay, TasksOpened, NoneReopened, NoneEarly
<1>2. ASSUME NEW q \in Request \ R PROVE OnItsWay(q)'
  <2>1. OnItsWay(q) /\ stage'[q] = stage[q] /\ Sender[q] \in Side
    BY CallsAssumption DEF EveryRequestOnItsWay, OnlyStages
  <2>2. ASSUME InFlight(q) PROVE InFlight(q)'
    <3>1. PICK s \in Side : \/ \E m \in ToSet(wire[s]) : IsExchange(m) /\ m.body = q
                            \/ \E k \in tasks[s] : k.pc # "callback" /\ k.message.body = q
      BY <2>2, InFlightPlace
    <3>2. \/ \E m \in ToSet(wire'[s]) : IsExchange(m) /\ m.body = q
          \/ \E k \in tasks'[s] : k.pc # "callback" /\ k.message.body = q
      BY <3>1 DEF FramesStay, TasksStay
    <3> QED  BY <3>2, InFlightNext
  <2>3. \A e \in ToSet(responseHandlers'[Sender[q]]) :
          e.second = q => e \in ToSet(responseHandlers[Sender[q]])
    BY <2>1 DEF NoneStored
  <2>4. q \in ToSet(put'[Sender[q]]) => q \in ToSet(put[Sender[q]])
    BY <2>1 DEF NoneSent
  <2>5. (\E s \in Side : state[s] \in {"closing", "closed"}) =>
          \E s \in Side : state'[s] \in {"closing", "closed"}
    BY DEF NoneReopened
  <2> QED  BY <2>1, <2>2, <2>3, <2>4, <2>5 DEF OnItsWay
<1> QED  BY <1>1, <1>2 DEF EveryRequestOnItsWay
-----------------------------------------------------------------------------
LEMMA ReadStays ==
  ASSUME TypeOK, NEW s \in Side, wire[s] # <<>>, Read(s)
  PROVE  FramesStay(TakenBy(s))
<1>1. wire[s] \in Seq(Frame) /\ wire'[s] = Tail(wire[s]) /\ wire'[Other(s)] = wire[Other(s)]
  BY OrderTypes, ReadKept
<1>2. ToSet(wire[s]) = ToSet(wire'[s]) \cup {Received(s)}
  BY <1>1, QueueTail DEF Received
<1>3. \A z \in Side : z = s \/ z = Other(s)
  BY DEF Side, Other
<1> QED  BY <1>1, <1>2, <1>3 DEF FramesStay, TakenBy

LEMMA SendBackStays ==
  ASSUME TypeOK, NEW s \in Side, wire[s] # <<>>, NEW f \in Frame, SendBack(s, f)
  PROVE  FramesStay(TakenBy(s)) /\ f \in ToSet(wire'[Other(s)])
<1>1. /\ wire[s] \in Seq(Frame) /\ wire'[s] = Tail(wire[s])
      /\ wire[Other(s)] \in Seq(Frame) /\ wire'[Other(s)] = Append(wire[Other(s)], f)
  BY OrderTypes, SendBackKept
<1>2. ToSet(wire[s]) = ToSet(wire'[s]) \cup {Received(s)}
  BY <1>1, QueueTail DEF Received
<1>3. ToSet(wire'[Other(s)]) = ToSet(wire[Other(s)]) \cup {f}
  BY <1>1, QueueAppend
<1>4. \A z \in Side : z = s \/ z = Other(s)
  BY DEF Side, Other
<1>5. \A m \in ToSet(wire[s]) : m \in ToSet(wire'[s]) \/ m = Received(s)
  BY <1>2
<1>6. \A m \in ToSet(wire[Other(s)]) : m \in ToSet(wire'[Other(s)])
  BY <1>3
<1>7. FramesStay(TakenBy(s))
  BY <1>4, <1>5, <1>6 DEF FramesStay, TakenBy
<1> QED  BY <1>3, <1>7

LEMMA SendStays ==
  ASSUME TypeOK, NEW s \in Side, NEW f \in Frame, Send(s, f)
  PROVE  /\ \A R : FramesStay(R)
         /\ state[s] = "open" => f \in ToSet(wire'[Other(s)])
<1>1. /\ wire[Other(s)] \in Seq(Frame) /\ wire'[s] = wire[s]
      /\ state[s] = "open" => wire'[Other(s)] = Append(wire[Other(s)], f)
      /\ state[s] # "open" => wire'[Other(s)] = wire[Other(s)]
  BY OrderTypes, SendKept
<1>2. ToSet(Append(wire[Other(s)], f)) = ToSet(wire[Other(s)]) \cup {f}
  BY <1>1, QueueAppend
<1>3. \A z \in Side : z = s \/ z = Other(s)
  BY DEF Side, Other
<1> QED  BY <1>1, <1>2, <1>3 DEF FramesStay

\* What most steps leave alone.
LEMMA OthersStay ==
  ASSUME NEW R
  PROVE  /\ wire' = wire => FramesStay(R)
         /\ tasks' = tasks => TasksStay(R) /\ NoneEarly
         /\ put' = put => NoneSent(R)
         /\ responseHandlers' = responseHandlers => NoneStored(R)
         /\ state' = state => NoneReopened
BY DEF FramesStay, TasksStay, NoneEarly, NoneSent, NoneStored, NoneReopened
-----------------------------------------------------------------------------
(***************************************************************************)
(* Steps that move no request.                                             *)
(***************************************************************************)
LEMMA ControlWay ==
  ASSUME TypeOK, TypeOK', OnePlacePerRequest, EveryRequestOnItsWay, NEW s \in Side,
         \/ s = "client" /\ ClientOpen
         \/ ReceiveClose(s) \/ User(s) \/ Terminate(s)
  PROVE  EveryRequestOnItsWay'
<1>1. PICK close : close = [type |-> "close"]
  OBVIOUS
<1>2. close \in Frame
  BY <1>1 DEF Frame, ControlFrame
<1>3. UNCHANGED <<responseHandlers, tasks, userReference, stage, put>>
  BY DEF ClientOpen, ReceiveClose, Terminate, User, Close, SetInfoHandler, SetRequestHandler,
         histories
<1>4. FramesStay({})
  <2>1. CASE Read(s) /\ wire[s] # <<>> /\ TakenBy(s) = {}
    BY <2>1, ReadStays
  <2>2. CASE SendBack(s, close) /\ wire[s] # <<>> /\ TakenBy(s) = {}
    BY <1>2, <2>2, SendBackStays
  <2>3. CASE Send(s, close)
    BY <1>2, <2>3, SendStays
  <2>4. CASE wire' = wire
    BY <2>4, OthersStay
  <2>5. ASSUME NEW type \in {"accept", "close"}, Arrived(s, type)
        PROVE  wire[s] # <<>> /\ TakenBy(s) = {}
    BY <2>5 DEF Arrived, TakenBy, IsExchange, ReplyType
  <2>6. ClientOpen /\ s = "client" => Read(s) /\ wire[s] # <<>> /\ TakenBy(s) = {}
    BY <2>5 DEF ClientOpen
  <2>7. ReceiveClose(s) => /\ wire[s] # <<>> /\ TakenBy(s) = {}
                           /\ Read(s) \/ SendBack(s, close)
    BY <1>1, <2>5 DEF ReceiveClose
  <2>8. User(s) \/ Terminate(s) => Send(s, close) \/ wire' = wire
    BY <1>1 DEF User, Close, SetInfoHandler, SetRequestHandler, Terminate
  <2> QED  BY <2>1, <2>2, <2>3, <2>4, <2>6, <2>7, <2>8
<1>5. NoneReopened
  BY DEF NoneReopened, ClientOpen, ReceiveClose, Terminate, User, Close, SetInfoHandler,
         SetRequestHandler, TypeOK
<1>6. TasksStay({}) /\ NoneEarly /\ NoneSent({}) /\ NoneStored({}) /\ OnlyStages({})
  BY <1>3, OthersStay DEF OnlyStages
<1> QED  BY <1>4, <1>5, <1>6, OthersOnTheirWay

LEMMA OpenWay ==
  ASSUME TypeOK, TypeOK', EveryRequestOnItsWay, ServerOpen
  PROVE  EveryRequestOnItsWay'
<1>1. PICK accept : accept = [type |-> "accept"]
  OBVIOUS
<1>2. accept \in Frame
  BY <1>1 DEF Frame, ControlFrame
<1>3. /\ wire' = [wire EXCEPT !["client"] = Append(@, accept)] /\ "client" \in Side
      /\ UNCHANGED <<responseHandlers, tasks, userReference, stage, put>>
  BY <1>1 DEF ServerOpen, Side, histories
<1>4. ToSet(Append(wire["client"], accept)) = ToSet(wire["client"]) \cup {accept}
  BY <1>2, <1>3, OrderTypes, QueueAppend
<1>5. FramesStay({})
  BY <1>3, <1>4 DEF FramesStay, TypeOK
<1>6. NoneReopened
  BY DEF NoneReopened, ServerOpen, TypeOK
<1>7. TasksStay({}) /\ NoneEarly /\ NoneSent({}) /\ NoneStored({}) /\ OnlyStages({})
  BY <1>3, OthersStay DEF OnlyStages
<1> QED  BY <1>5, <1>6, <1>7, OthersOnTheirWay

LEMMA InfoWay ==
  ASSUME TypeOK, TypeOK', OnePlacePerRequest, EveryRequestOnItsWay,
         (\E i \in Info : SendInfo(i)) \/ (\E s \in Side : OnInfo(s))
  PROVE  EveryRequestOnItsWay'
<1>1. \A q \in Request, i \in Info : q # i
  BY CallsAssumption
<1>2. UNCHANGED <<state, responseHandlers, tasks, userReference>>
  BY DEF SendInfo, OnInfo
<1>3. NoneReopened /\ TasksStay({}) /\ NoneEarly /\ NoneStored({})
  BY <1>2, OthersStay
<1>4. ASSUME NEW i \in Info, SendInfo(i)
      PROVE  FramesStay({}) /\ NoneSent({}) /\ OnlyStages({})
  <2>1. PICK f : f = [type |-> "INFO", userReference |-> 0, body |-> i]
    OBVIOUS
  <2>2. f \in Frame /\ Sender[i] \in Side
    BY <2>1, CallsAssumption DEF Frame, InfoMessage
  <2>3. Send(Sender[i], f) /\ Put(Sender[i], i)
    BY <1>4, <2>1 DEF SendInfo
  <2>4. FramesStay({})
    BY <2>2, <2>3, SendStays
  <2>5. OnlyStages({})
    BY <1>1, <1>2, <1>4 DEF SendInfo, SentOr, OnlyStages, TypeOK
  <2>6. NoneSent({})
    <3>1. put[Sender[i]] \in Seq(Request \cup Info) /\ i \in Request \cup Info
      BY <2>2, OrderTypes
    <3>2. ToSet(Append(put[Sender[i]], i)) = ToSet(put[Sender[i]]) \cup {i}
      BY <3>1, QueueAppend
    <3> QED  BY <1>1, <2>2, <2>3, <3>2 DEF Put, NoneSent, TypeOK
  <2> QED  BY <2>4, <2>5, <2>6
<1>5. ASSUME NEW s \in Side, OnInfo(s)
      PROVE  FramesStay({}) /\ NoneSent({}) /\ OnlyStages({})
  <2>1. wire[s] # <<>> /\ Received(s).type = "INFO" /\ Read(s) /\ put' = put
    BY <1>5 DEF OnInfo, OnMessage, Arrived
  <2>2. Received(s).body \in Info
    BY <2>1, ReadType, FrameShape
  <2>3. TakenBy(s) = {}
    BY <2>1 DEF TakenBy, IsExchange, ReplyType
  <2>4. FramesStay({}) /\ NoneSent({})
    BY <2>1, <2>3, ReadStays, OthersStay
  <2>5. OnlyStages({})
    BY <1>1, <1>2, <1>5, <2>2 DEF OnInfo, OnlyStages, TypeOK
  <2> QED  BY <2>4, <2>5
<1> QED  BY <1>3, <1>4, <1>5, OthersOnTheirWay
-----------------------------------------------------------------------------
(***************************************************************************)
(* sendRequest.                                                            *)
(***************************************************************************)
LEMMA PushWay ==
  ASSUME TypeOK, TypeOK', OnePlacePerRequest, EveryRequestOnItsWay, NEW r \in Request,
         SendRequestPush(r) \/ SendRequestThrows(r)
  PROVE  EveryRequestOnItsWay'
<1> DEFINE s == Sender[r]
           c == responseHandlers[s]
<1>1. /\ s \in Side /\ stage[r] = "idle" /\ OnlyStages({r})
      /\ stage'[r] \in {"pushed", "threw"}
      /\ UNCHANGED <<state, wire, tasks, put>>
  BY CallsAssumption DEF SendRequestPush, SendRequestThrows, Callable, OnlyStages, TypeOK,
                         histories
<1>2. NoneReopened /\ FramesStay({r}) /\ TasksStay({r}) /\ NoneEarly /\ NoneSent({r})
  BY <1>1, OthersStay
<1>3. NoneStored({r})
  <2>1. CASE SendRequestThrows(r)
    <3>1. responseHandlers' = responseHandlers
      BY <2>1 DEF SendRequestThrows
    <3> QED  BY <3>1, OthersStay
  <2>2. CASE SendRequestPush(r)
    <3>1. PICK t \in Token, p \in 1 .. Len(c) + 1 :
            responseHandlers' = [responseHandlers EXCEPT ![s] = Emplace(c, p, t, r)]
      BY <2>2 DEF SendRequestPush
    <3>2. c \in Seq(Entry(Request))
      BY <1>1, HandlerShape
    <3>3. PICK new : new = [first |-> t, second |-> r]
      OBVIOUS
    <3>4. ToSet(Emplace(c, p, t, r)) = ToSet(c) \cup {new} /\ new.second = r
      BY <3>2, <3>3, EmplaceSet
    <3> QED  BY <1>1, <3>1, <3>4 DEF NoneStored, TypeOK
  <2> QED  BY <2>1, <2>2
<1>4. OnItsWay(r)'
  BY <1>1 DEF EveryRequestOnItsWay, OnItsWay
<1> QED  BY <1>1, <1>2, <1>3, <1>4, OthersOnTheirWay

LEMMA SendWay ==
  ASSUME TypeOK, TypeOK', OnePlacePerRequest, EveryRequestOnItsWay, NEW r \in Request,
         SendRequestSend(r)
  PROVE  EveryRequestOnItsWay'
<1> DEFINE s == Sender[r]
<1>1. PICK f : f = [type |-> "REQUEST", userReference |-> userReference[r], body |-> r]
  OBVIOUS
<1>2. /\ f \in Frame /\ f.type = "REQUEST" /\ f.body = r /\ IsExchange(f)
      /\ s \in Side /\ Other(s) \in Side
  BY <1>1, CallsAssumption, Sides DEF TypeOK, Frame, RequestMessage, IsExchange
<1>3. /\ stage[r] = "pushed" /\ OnlyStages({r})
      /\ stage'[r] = IF state[s] = "open" THEN "sent" ELSE "lost"
      /\ Send(s, f) /\ Put(s, r)
      /\ UNCHANGED <<state, responseHandlers, tasks>>
  BY <1>1 DEF SendRequestSend, SentOr, OnlyStages, TypeOK
<1>4. FramesStay({r}) /\ (state[s] = "open" => f \in ToSet(wire'[Other(s)]))
  BY <1>2, <1>3, SendStays
<1>5. NoneReopened /\ TasksStay({r}) /\ NoneEarly /\ NoneStored({r})
  BY <1>3, OthersStay
<1>6. NoneSent({r})
  <2>1. put[s] \in Seq(Request \cup Info) /\ r \in Request \cup Info
    BY <1>2, OrderTypes
  <2>2. ToSet(Append(put[s], r)) = ToSet(put[s]) \cup {r}
    BY <2>1, QueueAppend
  <2> QED  BY <1>2, <1>3, <2>2 DEF Put, NoneSent, TypeOK
<1>7. OnItsWay(r)'
  <2>1. CASE state[s] = "open"
    <3>1. InFlight(r)'
      BY <1>2, <1>4, <2>1, InFlightNext
    <3> QED  BY <1>3, <2>1, <3>1 DEF OnItsWay
  <2>2. CASE state[s] # "open"
    <3>1. put' = put /\ stage'[r] = "lost"
      BY <1>3, <2>2 DEF Put
    <3> QED  BY <1>3, <3>1 DEF EveryRequestOnItsWay, OnItsWay
  <2> QED  BY <2>1, <2>2
<1> QED  BY <1>3, <1>4, <1>5, <1>6, <1>7, OthersOnTheirWay
-----------------------------------------------------------------------------
(***************************************************************************)
(* on_message, and what the io thread drops.                               *)
(***************************************************************************)
LEMMA DropWay ==
  ASSUME TypeOK, TypeOK', OnePlacePerRequest, EveryRequestOnItsWay, NEW s \in Side,
         Discard(s) \/ OnRequestError(s)
  PROVE  EveryRequestOnItsWay'
<1> DEFINE R == TakenBy(s)
<1>1. /\ wire[s] # <<>> /\ Read(s)
      /\ UNCHANGED <<state, tasks, userReference, responseHandlers, put>>
  BY DEF Discard, OnRequestError, OnMessage, Arrived, histories
<1>2. /\ R \in SUBSET Request
      /\ \A q \in R : stage[q] \in {"sent", "replying"} /\ q = Received(s).body
  BY <1>1, TakenAlone DEF TakenBy, FrameOK, IsExchange
<1>3. OnlyStages(R) /\ \A q \in R : stage'[q] = IF Discard(s) THEN "lost" ELSE "refused"
  <2>1. Received(s) \in Frame /\ \A q \in Request, i \in Info : q # i
    BY <1>1, ReadType, CallsAssumption
  <2>2. IsExchange(Received(s)) =>
          "body" \in DOMAIN Received(s) /\ Received(s).body \in Request
    BY <2>1, FrameShape DEF IsExchange
  <2>3. ~ IsExchange(Received(s)) /\ "body" \in DOMAIN Received(s) =>
          Received(s).body \in Info
    BY <2>1, FrameShape DEF IsExchange, Frame, RequestMessage, ReplyMessage, InfoMessage,
                            ControlFrame
  <2>4. CASE Discard(s)
    BY <1>1, <2>1, <2>2, <2>3, <2>4 DEF Discard, TakenBy, OnlyStages, TypeOK
  <2>5. CASE ~ Discard(s)
    <3>1. IsExchange(Received(s)) /\ stage' = [stage EXCEPT ![Received(s).body] = "refused"]
      BY <2>5 DEF OnRequestError, OnMessage, Arrived, IsExchange, ReplyType
    <3> QED  BY <1>1, <2>2, <2>5, <3>1 DEF TakenBy, OnlyStages, TypeOK
  <2> QED  BY <2>4, <2>5
<1>4. FramesStay(R) /\ TasksStay(R) /\ NoneEarly /\ NoneSent(R) /\ NoneStored(R) /\ NoneReopened
  BY <1>1, ReadStays, OthersStay
<1>5. ASSUME NEW q \in R PROVE OnItsWay(q)'
  <2>1. Discard(s) => state'[s] \in {"closing", "closed"}
    BY <1>1 DEF Discard
  <2> QED  BY <1>3, <2>1 DEF OnItsWay
<1> QED  BY <1>2, <1>3, <1>4, <1>5, OthersOnTheirWay

LEMMA RequestWay ==
  ASSUME TypeOK, TypeOK', OnePlacePerRequest, EveryRequestOnItsWay, NEW s \in Side,
         OnRequest(s) \/ OnRequestNoHandler(s)
  PROVE  EveryRequestOnItsWay'
<1>1. PICK m : m = Received(s)
  OBVIOUS
<1>2. /\ wire[s] # <<>> /\ tasks[s] = {} /\ m.type = "REQUEST" /\ TakenBy(s) = {m.body}
      /\ state[s] = "open"
      /\ UNCHANGED <<state, userReference, responseHandlers, put>>
  BY <1>1 DEF OnRequest, OnRequestNoHandler, OnMessage, Arrived, TakenBy, IsExchange, histories
<1>3. m \in RequestMessage /\ m.body \in Request /\ Other(s) \in Side
  BY <1>1, <1>2, TakenAlone, FrameShape, Sides DEF IsExchange
<1>4. OnlyStages({m.body}) /\ stage'[m.body] \in {"handling", "replying"}
  BY <1>1, <1>2, <1>3 DEF OnRequest, OnRequestNoHandler, OnlyStages, TypeOK
<1>5. NoneSent({m.body}) /\ NoneStored({m.body}) /\ NoneReopened
  BY <1>2, OthersStay
<1>6. FramesStay({m.body}) /\ TasksStay({m.body}) /\ NoneEarly /\ InFlight(m.body)'
  <2>1. CASE OnRequest(s)
    <3>1. PICK k : k = [pc |-> "invoke", message |-> m]
      OBVIOUS
    <3>2. tasks' = [tasks EXCEPT ![s] = @ \cup {k}] /\ Read(s)
      BY <1>1, <2>1, <3>1 DEF OnRequest
    <3>3. k.pc = "invoke" /\ k.message = m /\ k \in tasks'[s]
      BY <3>1, <3>2 DEF TypeOK
    <3>4. TasksStay({m.body}) /\ NoneEarly
      BY <1>2, <3>2 DEF TasksStay, NoneEarly, TypeOK
    <3>5. InFlight(m.body)'
      BY <3>3, InFlightNext
    <3> QED  BY <1>2, <3>2, <3>4, <3>5, ReadStays
  <2>2. CASE OnRequestNoHandler(s)
    <3>1. PICK f : f = Reply("REQUESTERROR", m)
      OBVIOUS
    <3>2. f \in Frame /\ f.type = "REQUESTERROR" /\ f.body = m.body
      BY <1>3, <3>1, ReplyShape DEF ReplyType
    <3>3. SendBack(s, f) /\ tasks' = tasks
      BY <1>1, <2>2, <3>1 DEF OnRequestNoHandler
    <3>4. FramesStay({m.body}) /\ f \in ToSet(wire'[Other(s)])
      BY <1>2, <3>2, <3>3, SendBackStays
    <3>5. InFlight(m.body)'
      BY <1>3, <3>2, <3>4, InFlightNext DEF IsExchange, ReplyType
    <3> QED  BY <3>3, <3>4, <3>5, OthersStay
  <2> QED  BY <2>1, <2>2
<1>7. OnItsWay(m.body)'
  BY <1>4, <1>6 DEF OnItsWay
<1> QED  BY <1>3, <1>4, <1>5, <1>6, <1>7, OthersOnTheirWay

\* The response handler of a request is no longer stored while it runs.
LEMMA ResponseWay ==
  ASSUME TypeOK, TypeOK', OnePlacePerRequest, EveryRequestOnItsWay, NEW s \in Side,
         OnResponse(s)
  PROVE  EveryRequestOnItsWay'
<1>1. PICK m : m = Received(s)
  OBVIOUS
<1>2. PICK c : c = responseHandlers[s]
  OBVIOUS
<1>3. PICK k : k = [pc |-> "callback", handler |-> m.body, body |-> m.body]
  OBVIOUS
<1>4. /\ wire[s] # <<>> /\ tasks[s] = {} /\ m.type = "RESPONSE" /\ TakenBy(s) = {m.body}
      /\ state[s] = "open" /\ Read(s) /\ UNCHANGED <<state, userReference, put>>
  BY <1>1 DEF OnResponse, OnMessage, Arrived, TakenBy, IsExchange, ReplyType, histories
<1>5. /\ m.body \in Request /\ Sender[m.body] = s
      /\ m.userReference = userReference[m.body]
  BY <1>1, <1>4, TakenAlone DEF FrameOK, IsExchange, ReplyType
<1>6. c \in Seq(Entry(Request)) /\ Ascending(c)
  BY <1>2, HandlerShape DEF OnePlacePerRequest, HandlersOwned
<1>7. PICK p \in 1 .. Len(c) :
        /\ c[p] = [first |-> m.userReference, second |-> m.body]
        /\ responseHandlers' = [responseHandlers EXCEPT ![s] = Erase(c, p)]
        /\ tasks' = [tasks EXCEPT ![s] = @ \cup {k}]
        /\ stage' = [stage EXCEPT ![m.body] = "responding"]
  BY <1>1, <1>2, <1>3, ResponseFinds
<1>8. stage'[m.body] = "responding" /\ OnlyStages({m.body})
  <2>1. stage' = [stage EXCEPT ![m.body] = "responding"]
    BY <1>7
  <2> QED  BY <1>4, <1>5, <2>1 DEF TypeOK, OnlyStages
<1>9. TasksStay({m.body}) /\ NoneEarly
  <2>1. tasks' = [tasks EXCEPT ![s] = @ \cup {k}]
    BY <1>7
  <2> QED  BY <1>4, <2>1 DEF TasksStay, NoneEarly, TypeOK
<1>10. FramesStay({m.body}) /\ NoneSent({m.body}) /\ NoneReopened
  BY <1>4, ReadStays, OthersStay
<1>11. /\ ToSet(responseHandlers'[s]) = ToSet(c) \ {c[p]}
       /\ \A z \in Side : z # s => responseHandlers'[z] = responseHandlers[z]
  <2>1. responseHandlers' = [responseHandlers EXCEPT ![s] = Erase(c, p)]
    BY <1>7
  <2>2. ToSet(Erase(c, p)) = ToSet(c) \ {c[p]}
    BY <1>6, EraseSet
  <2> QED  BY <2>1, <2>2 DEF TypeOK
<1>12. NoneStored({m.body})
  BY <1>2, <1>11 DEF NoneStored
<1>13. \A e \in ToSet(responseHandlers'[s]) : e.second # m.body
  <2> SUFFICES ASSUME NEW e \in ToSet(c), e.second = m.body PROVE e = c[p]
    BY <1>11
  <2>1. e \in Entry(Request) /\ e.first = userReference[m.body]
    BY <1>2, HandlerShape DEF OnePlacePerRequest, HandlersOwned
  <2>2. e = [first |-> e.first, second |-> e.second]
    BY <2>1 DEF Entry
  <2> QED  BY <1>5, <1>7, <2>1, <2>2
<1>14. OnItsWay(m.body)'
  BY <1>5, <1>8, <1>13 DEF OnItsWay
<1> QED  BY <1>5, <1>8, <1>9, <1>10, <1>12, <1>14, OthersOnTheirWay
-----------------------------------------------------------------------------
(***************************************************************************)
(* The tasks.                                                              *)
(***************************************************************************)
\* A task that ends, or goes on about the same request, is the only one of its end.
LEMMA TaskStays ==
  ASSUME TypeOK, OnePlacePerRequest, NEW s \in Side, NEW k \in tasks[s],
         \A z \in Side : z # s => tasks'[z] = tasks[z]
  PROVE  TasksStay({About(k)}) /\ NoneEarly
<1>1. tasks[s] = {k}
  BY RunningAlone
<1> QED  BY <1>1 DEF TasksStay, NoneEarly, About

LEMMA ServeWay ==
  ASSUME TypeOK, TypeOK', OnePlacePerRequest, EveryRequestOnItsWay, NEW s \in Side,
         NEW k \in tasks[s], InvokeRequestHandler(s, k) \/ RequestHandlerReturns(s, k)
  PROVE  EveryRequestOnItsWay'
<1>1. PICK x : x = k.message.body
  OBVIOUS
<1>2. /\ k.pc \in {"invoke", "running"} /\ k.message \in RequestMessage /\ x \in Request
      /\ About(k) = x /\ stage[x] = "handling" /\ tasks[s] = {k}
      /\ UNCHANGED <<state, wire, responseHandlers, userReference, stage, put>>
  <2>1. /\ k.pc \in {"invoke", "running"}
        /\ UNCHANGED <<state, wire, responseHandlers, userReference, stage, put>>
    BY DEF InvokeRequestHandler, RequestHandlerReturns, histories
  <2>2. k \in Task /\ TaskOK(s, k) /\ tasks[s] = {k}
    BY RunningAlone
  <2> QED  BY <1>1, <2>1, <2>2, TaskShape DEF About, TaskOK
<1>3. PICK l : /\ l \in {[pc |-> "running", message |-> k.message]} \cup
                       {[pc |-> "reply", message |-> Reply(type, k.message)] : type \in ReplyType}
               /\ tasks' = [tasks EXCEPT ![s] = (@ \ {k}) \cup {l}]
  <2>1. "REQUESTERROR" \in ReplyType
    BY DEF ReplyType
  <2> QED  BY <2>1 DEF InvokeRequestHandler, RequestHandlerReturns
<1>4. l.pc # "callback" /\ l.message.body = x
  BY <1>1, <1>2, <1>3, ReplyShape
<1>5. l \in tasks'[s] /\ \A z \in Side : z # s => tasks'[z] = tasks[z]
  BY <1>3 DEF TypeOK
<1>6. InFlight(x)'
  BY <1>4, <1>5, InFlightNext
<1>7. OnItsWay(x)'
  BY <1>2, <1>6 DEF OnItsWay
<1>8. TasksStay({x}) /\ NoneEarly
  BY <1>2, <1>5, TaskStays
<1>9. /\ FramesStay({x}) /\ NoneSent({x}) /\ NoneStored({x}) /\ NoneReopened
      /\ OnlyStages({x})
  BY <1>2, OthersStay DEF OnlyStages
<1> QED  BY <1>2, <1>7, <1>8, <1>9, OthersOnTheirWay

LEMMA ReplyWay ==
  ASSUME TypeOK, TypeOK', OnePlacePerRequest, EveryRequestOnItsWay, NEW s \in Side,
         NEW k \in tasks[s], SendReply(s, k)
  PROVE  EveryRequestOnItsWay'
<1>1. PICK f : f = k.message
  OBVIOUS
<1>2. PICK x : x = f.body
  OBVIOUS
<1>3. /\ k.pc = "reply" /\ Send(s, f) /\ SentOr(s, x, "replying", "lost")
      /\ tasks' = [tasks EXCEPT ![s] = @ \ {k}]
      /\ UNCHANGED <<state, responseHandlers, userReference, put>>
  BY <1>1, <1>2 DEF SendReply, histories
<1>4. /\ f \in Frame /\ IsExchange(f) /\ x \in Request /\ About(k) = x
      /\ Other(s) \in Side
  BY <1>1, <1>2, <1>3, RunningAlone, TaskShape, Sides DEF ReplyMessage, About, IsExchange
<1>5. /\ stage'[x] = IF state[s] = "open" THEN "replying" ELSE "lost"
      /\ OnlyStages({x})
  BY <1>3, <1>4 DEF SentOr, OnlyStages, TypeOK
<1>6. FramesStay({x}) /\ (state[s] = "open" => f \in ToSet(wire'[Other(s)]))
  BY <1>3, <1>4, SendStays
<1>7. TasksStay({x}) /\ NoneEarly
  <2>1. \A z \in Side : z # s => tasks'[z] = tasks[z]
    BY <1>3 DEF TypeOK
  <2> QED  BY <1>4, <2>1, TaskStays
<1>8. NoneSent({x}) /\ NoneStored({x}) /\ NoneReopened
  BY <1>3, OthersStay
<1>9. OnItsWay(x)'
  <2>1. CASE state[s] = "open"
    <3>1. InFlight(x)'
      BY <1>2, <1>4, <1>6, <2>1, InFlightNext
    <3> QED  BY <1>5, <2>1, <3>1 DEF OnItsWay
  <2>2. CASE state[s] # "open"
    <3>1. state'[s] \in {"closing", "closed"}
      BY <1>3, <2>2 DEF EveryRequestOnItsWay, TasksOpened, TypeOK, State
    <3> QED  BY <1>5, <2>2, <3>1 DEF OnItsWay
  <2> QED  BY <2>1, <2>2
<1> QED  BY <1>4, <1>5, <1>6, <1>7, <1>8, <1>9, OthersOnTheirWay

LEMMA CallbackWay ==
  ASSUME TypeOK, TypeOK', OnePlacePerRequest, EveryRequestOnItsWay, NEW s \in Side,
         NEW k \in tasks[s], RunResponseHandler(s, k)
  PROVE  EveryRequestOnItsWay'
<1>1. PICK x : x = k.body
  OBVIOUS
<1>2. /\ k.pc = "callback" /\ stage' = [stage EXCEPT ![x] = "answered"]
      /\ tasks' = [tasks EXCEPT ![s] = @ \ {k}]
      /\ UNCHANGED <<state, wire, responseHandlers, userReference, put>>
  BY <1>1 DEF RunResponseHandler
<1>3. x \in Request /\ About(k) = x /\ stage[x] = "responding"
  <2>1. k \in Task /\ TaskOK(s, k)
    BY RunningAlone
  <2> QED  BY <1>1, <1>2, <2>1, TaskShape DEF About, TaskOK
<1>4. stage'[x] = "answered" /\ OnlyStages({x})
  BY <1>2, <1>3 DEF OnlyStages, TypeOK
<1>5. TasksStay({x}) /\ NoneEarly
  <2>1. \A z \in Side : z # s => tasks'[z] = tasks[z]
    BY <1>2 DEF TypeOK
  <2> QED  BY <1>3, <2>1, TaskStays
<1>6. FramesStay({x}) /\ NoneSent({x}) /\ NoneStored({x}) /\ NoneReopened
  BY <1>2, OthersStay
<1>7. OnItsWay(x)'
  BY <1>2, <1>3, <1>4 DEF EveryRequestOnItsWay, OnItsWay
<1> QED  BY <1>3, <1>4, <1>5, <1>6, <1>7, OthersOnTheirWay
-----------------------------------------------------------------------------
LEMMA InitWay == Init => EveryRequestOnItsWay
BY CallsAssumption DEF Init, EveryRequestOnItsWay, TasksOpened, OnItsWay, ToSet

LEMMA StepWay ==
  TypeOK /\ OnePlacePerRequest /\ EveryRequestOnItsWay /\ [Next]_vars => EveryRequestOnItsWay'
<1> SUFFICES ASSUME TypeOK, OnePlacePerRequest, EveryRequestOnItsWay, [Next]_vars
             PROVE  EveryRequestOnItsWay'
  OBVIOUS
<1>1. TypeOK'
  BY StepType
<1>2. ASSUME NEW s \in Side, IoThread(s) PROVE EveryRequestOnItsWay'
  BY <1>1, <1>2, ControlWay, InfoWay, DropWay, RequestWay, ResponseWay DEF IoThread
<1>3. ASSUME NEW s \in Side, RunTask(s) PROVE EveryRequestOnItsWay'
  BY <1>1, <1>3, ServeWay, ReplyWay, CallbackWay DEF RunTask
<1>4. ASSUME NEW s \in Side, User(s) \/ Terminate(s) PROVE EveryRequestOnItsWay'
  BY <1>1, <1>4, ControlWay
<1>5. ASSUME NEW r \in Request,
             SendRequestPush(r) \/ SendRequestThrows(r) \/ SendRequestSend(r)
      PROVE  EveryRequestOnItsWay'
  BY <1>1, <1>5, PushWay, SendWay
<1>6. CASE UNCHANGED vars
  BY <1>6 DEF vars, EveryRequestOnItsWay, TasksOpened, OnItsWay, InFlight
<1> QED  BY <1>1, <1>2, <1>3, <1>4, <1>5, <1>6, OpenWay, InfoWay DEF Next

(***************************************************************************)
(* A request that has been sent has a frame or a task until its reply is   *)
(* read, and is lost only when an end has closed; its handler is no longer *)
(* stored once it is called (Connection.cpp:38-48 and 130-194).            *)
(***************************************************************************)
THEOREM OnTheirWay == Spec => []EveryRequestOnItsWay
<1>1. Init => EveryRequestOnItsWay
  BY InitWay
<1>2. TypeOK /\ OnePlacePerRequest /\ EveryRequestOnItsWay /\ [Next]_vars
        => EveryRequestOnItsWay'
  BY StepWay
<1> QED  BY <1>1, <1>2, TypeCorrect, Placed, PTL DEF Spec

(***************************************************************************)
(* While both ends are open, whatever they send and whichever handlers are *)
(* set when, a stored handler whose request was sent has something to wait *)
(* for, unless the reply was an error (Connection.cpp:130-194).            *)
(***************************************************************************)
THEOREM NoneForgotten == Spec => []NoHandlerForgotten
<1>1. TypeOK /\ OnePlacePerRequest /\ EveryRequestOnItsWay => NoHandlerForgotten
  <2> SUFFICES ASSUME TypeOK, OnePlacePerRequest, EveryRequestOnItsWay,
                      \A z \in Side : state[z] = "open",
                      NEW s \in Side, NEW k \in DOMAIN responseHandlers[s],
                      responseHandlers[s][k].second \in ToSet(put[s])
               PROVE  \/ InFlight(responseHandlers[s][k].second)
                      \/ stage[responseHandlers[s][k].second] = "refused"
    BY DEF NoHandlerForgotten
  <2>1. PICK e : e = responseHandlers[s][k]
    OBVIOUS
  <2>2. e \in ToSet(responseHandlers[s]) /\ e.second \in Request /\ Sender[e.second] = s
    <3>1. e \in ToSet(responseHandlers[s])
      BY <2>1 DEF ToSet
    <3> QED  BY <3>1, HandlerShape DEF OnePlacePerRequest, HandlersOwned
  <2>3. OnItsWay(e.second) /\ stage[e.second] \in Stage
    BY <2>2 DEF EveryRequestOnItsWay, TypeOK
  <2> QED  BY <2>1, <2>2, <2>3 DEF OnItsWay, Stage
<1> QED  BY <1>1, TypeCorrect, Placed, OnTheirWay, PTL
=============================================================================
