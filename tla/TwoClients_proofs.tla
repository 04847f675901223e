-------------------------- MODULE TwoClients_proofs --------------------------
(***************************************************************************)
(* Proofs about TwoClients.  PA and PB are the two connections again, with *)
(* what Connection_proofs proves of each.                                  *)
(***************************************************************************)
EXTENDS TwoClients, FiniteSetTheorems, TLAPS

PA == INSTANCE Connection_proofs WITH
        Request <- RequestA, Info <- {}, Replaced <- ReplacedA, Sender <- SenderA,
        Nested <- NestedA, state <- stateA, wire <- wireA,
        responseHandlers <- responseHandlersA, infoHandler <- infoHandlerA,
        requestHandler <- requestHandlerA, tasks <- tasksA,
        userReference <- userReferenceA, stage <- stageA, put <- putA,
        handled <- handledA, answered <- answeredA

PB == INSTANCE Connection_proofs WITH
        Request <- RequestB, Info <- {}, Replaced <- ReplacedB, Sender <- SenderB,
        Nested <- NestedB, state <- stateB, wire <- wireB,
        responseHandlers <- responseHandlersB, infoHandler <- infoHandlerB,
        requestHandler <- requestHandlerB, tasks <- tasksB,
        userReference <- userReferenceB, stage <- stageB, put <- putB,
        handled <- handledB, answered <- answeredB

\* What Connection assumes of its constants holds for each.
LEMMA AssumptionsA ==
  /\ RequestA \cap {} = {}
  /\ SenderA \in [RequestA \cup {} -> PA!Side]
  /\ ReplacedA \subseteq {"info", "request"} \X PA!Side
  /\ NestedA \in [RequestA -> SUBSET RequestA]
  /\ MaxToken \in Nat
BY CompositionAssumption DEF RequestA, SenderA, NestedA, ReplacedA, PA!Side, Side

LEMMA AssumptionsB ==
  /\ RequestB \cap {} = {}
  /\ SenderB \in [RequestB \cup {} -> PB!Side]
  /\ ReplacedB \subseteq {"info", "request"} \X PB!Side
  /\ NestedB \in [RequestB -> SUBSET RequestB]
  /\ MaxToken \in Nat
BY CompositionAssumption DEF RequestB, SenderB, NestedB, ReplacedB, PB!Side, Side

\* The definitions of A and PA, and of B and PB, are the same text.
LEMMA SameA ==
  ASSUME NEW s, NEW r, NEW k
  PROVE  /\ A!ServerOpen <=> PA!ServerOpen
         /\ A!IoThread(s) <=> PA!IoThread(s)
         /\ A!RunTask(s) <=> PA!RunTask(s)
         /\ A!Terminate(s) <=> PA!Terminate(s)
         /\ A!Close(s) <=> PA!Close(s)
         /\ A!SetRequestHandler(s) <=> PA!SetRequestHandler(s)
         /\ A!InvokeRequestHandler(s, k) <=> PA!InvokeRequestHandler(s, k)
         /\ A!RequestHandlerReturns(s, k) <=> PA!RequestHandlerReturns(s, k)
         /\ A!SendReply(s, k) <=> PA!SendReply(s, k)
         /\ A!RunResponseHandler(s, k) <=> PA!RunResponseHandler(s, k)
         /\ A!SendRequestPush(r) <=> PA!SendRequestPush(r)
         /\ A!SendRequestThrows(r) <=> PA!SendRequestThrows(r)
         /\ A!SendRequestSend(r) <=> PA!SendRequestSend(r)
<1> USE DEF A!Side, PA!Side, A!Other, PA!Other, A!histories, PA!histories, A!Received,
            PA!Received, A!Arrived, PA!Arrived, A!OnMessage, PA!OnMessage, A!Read,
            PA!Read, A!Send, PA!Send, A!SendBack, PA!SendBack, A!SentOr, PA!SentOr,
            A!Reply, PA!Reply, A!ReplyType, PA!ReplyType
<1>1. /\ A!ServerOpen <=> PA!ServerOpen
      /\ A!Terminate(s) <=> PA!Terminate(s)
      /\ A!Close(s) <=> PA!Close(s)
      /\ A!SetRequestHandler(s) <=> PA!SetRequestHandler(s)
  BY DEF A!ServerOpen, PA!ServerOpen, A!Terminate, PA!Terminate, A!Close, PA!Close,
         A!SetRequestHandler, PA!SetRequestHandler, A!Exists, PA!Exists
<1>2. A!OnResponse(s) <=> PA!OnResponse(s)
  BY DEF A!OnResponse, PA!OnResponse, A!Find, PA!Find, A!Erase, PA!Erase, A!RemoveAt,
         PA!RemoveAt
<1>3. /\ A!ClientOpen <=> PA!ClientOpen
      /\ A!OnInfo(s) <=> PA!OnInfo(s)
      /\ A!OnRequest(s) <=> PA!OnRequest(s)
      /\ A!OnRequestNoHandler(s) <=> PA!OnRequestNoHandler(s)
      /\ A!OnRequestError(s) <=> PA!OnRequestError(s)
      /\ A!ReceiveClose(s) <=> PA!ReceiveClose(s)
      /\ A!Discard(s) <=> PA!Discard(s)
  BY DEF A!ClientOpen, PA!ClientOpen, A!OnInfo, PA!OnInfo, A!OnRequest, PA!OnRequest,
         A!OnRequestNoHandler, PA!OnRequestNoHandler, A!OnRequestError,
         PA!OnRequestError, A!ReceiveClose, PA!ReceiveClose, A!Discard, PA!Discard
<1>4. A!IoThread(s) <=> PA!IoThread(s)
  BY <1>2, <1>3 DEF A!IoThread, PA!IoThread
<1>5. ASSUME NEW l
      PROVE  /\ A!InvokeRequestHandler(s, l) <=> PA!InvokeRequestHandler(s, l)
             /\ A!RequestHandlerReturns(s, l) <=> PA!RequestHandlerReturns(s, l)
             /\ A!SendReply(s, l) <=> PA!SendReply(s, l)
             /\ A!RunResponseHandler(s, l) <=> PA!RunResponseHandler(s, l)
  BY DEF A!InvokeRequestHandler, PA!InvokeRequestHandler, A!RequestHandlerReturns,
         PA!RequestHandlerReturns, A!SendReply, PA!SendReply, A!RunResponseHandler,
         PA!RunResponseHandler
<1>6. A!RunTask(s) <=> PA!RunTask(s)
  BY <1>5 DEF A!RunTask, PA!RunTask
<1>7. /\ A!SendRequestPush(r) <=> PA!SendRequestPush(r)
      /\ A!SendRequestThrows(r) <=> PA!SendRequestThrows(r)
      /\ A!SendRequestSend(r) <=> PA!SendRequestSend(r)
  BY DEF A!SendRequestPush, PA!SendRequestPush, A!SendRequestThrows,
         PA!SendRequestThrows, A!SendRequestSend, PA!SendRequestSend, A!Callable,
         PA!Callable, A!Exists, PA!Exists, A!Put, PA!Put, A!Token, PA!Token,
         A!FreeToken, PA!FreeToken, A!Full, PA!Full, A!Emplace, PA!Emplace, A!Last,
         PA!Last, A!InsertAt, PA!InsertAt
<1> QED  BY <1>1, <1>4, <1>5, <1>6, <1>7

LEMMA SameB ==
  ASSUME NEW s, NEW r, NEW k
  PROVE  /\ B!ServerOpen <=> PB!ServerOpen
         /\ B!IoThread(s) <=> PB!IoThread(s)
         /\ B!RunTask(s) <=> PB!RunTask(s)
         /\ B!Terminate(s) <=> PB!Terminate(s)
         /\ B!Close(s) <=> PB!Close(s)
         /\ B!SetRequestHandler(s) <=> PB!SetRequestHandler(s)
         /\ B!InvokeRequestHandler(s, k) <=> PB!InvokeRequestHandler(s, k)
         /\ B!RequestHandlerReturns(s, k) <=> PB!RequestHandlerReturns(s, k)
         /\ B!SendReply(s, k) <=> PB!SendReply(s, k)
         /\ B!RunResponseHandler(s, k) <=> PB!RunResponseHandler(s, k)
         /\ B!SendRequestPush(r) <=> PB!SendRequestPush(r)
         /\ B!SendRequestThrows(r) <=> PB!SendRequestThrows(r)
         /\ B!SendRequestSend(r) <=> PB!SendRequestSend(r)
<1> USE DEF B!Side, PB!Side, B!Other, PB!Other, B!histories, PB!histories, B!Received,
            PB!Received, B!Arrived, PB!Arrived, B!OnMessage, PB!OnMessage, B!Read,
            PB!Read, B!Send, PB!Send, B!SendBack, PB!SendBack, B!SentOr, PB!SentOr,
            B!Reply, PB!Reply, B!ReplyType, PB!ReplyType
<1>1. /\ B!ServerOpen <=> PB!ServerOpen
      /\ B!Terminate(s) <=> PB!Terminate(s)
      /\ B!Close(s) <=> PB!Close(s)
      /\ B!SetRequestHandler(s) <=> PB!SetRequestHandler(s)
  BY DEF B!ServerOpen, PB!ServerOpen, B!Terminate, PB!Terminate, B!Close, PB!Close,
         B!SetRequestHandler, PB!SetRequestHandler, B!Exists, PB!Exists
<1>2. B!OnResponse(s) <=> PB!OnResponse(s)
  BY DEF B!OnResponse, PB!OnResponse, B!Find, PB!Find, B!Erase, PB!Erase, B!RemoveAt,
         PB!RemoveAt
<1>3. /\ B!ClientOpen <=> PB!ClientOpen
      /\ B!OnInfo(s) <=> PB!OnInfo(s)
      /\ B!OnRequest(s) <=> PB!OnRequest(s)
      /\ B!OnRequestNoHandler(s) <=> PB!OnRequestNoHandler(s)
      /\ B!OnRequestError(s) <=> PB!OnRequestError(s)
      /\ B!ReceiveClose(s) <=> PB!ReceiveClose(s)
      /\ B!Discard(s) <=> PB!Discard(s)
  BY DEF B!ClientOpen, PB!ClientOpen, B!OnInfo, PB!OnInfo, B!OnRequest, PB!OnRequest,
         B!OnRequestNoHandler, PB!OnRequestNoHandler, B!OnRequestError,
         PB!OnRequestError, B!ReceiveClose, PB!ReceiveClose, B!Discard, PB!Discard
<1>4. B!IoThread(s) <=> PB!IoThread(s)
  BY <1>2, <1>3 DEF B!IoThread, PB!IoThread
<1>5. ASSUME NEW l
      PROVE  /\ B!InvokeRequestHandler(s, l) <=> PB!InvokeRequestHandler(s, l)
             /\ B!RequestHandlerReturns(s, l) <=> PB!RequestHandlerReturns(s, l)
             /\ B!SendReply(s, l) <=> PB!SendReply(s, l)
             /\ B!RunResponseHandler(s, l) <=> PB!RunResponseHandler(s, l)
  BY DEF B!InvokeRequestHandler, PB!InvokeRequestHandler, B!RequestHandlerReturns,
         PB!RequestHandlerReturns, B!SendReply, PB!SendReply, B!RunResponseHandler,
         PB!RunResponseHandler
<1>6. B!RunTask(s) <=> PB!RunTask(s)
  BY <1>5 DEF B!RunTask, PB!RunTask
<1>7. /\ B!SendRequestPush(r) <=> PB!SendRequestPush(r)
      /\ B!SendRequestThrows(r) <=> PB!SendRequestThrows(r)
      /\ B!SendRequestSend(r) <=> PB!SendRequestSend(r)
  BY DEF B!SendRequestPush, PB!SendRequestPush, B!SendRequestThrows,
         PB!SendRequestThrows, B!SendRequestSend, PB!SendRequestSend, B!Callable,
         PB!Callable, B!Exists, PB!Exists, B!Put, PB!Put, B!Token, PB!Token,
         B!FreeToken, PB!FreeToken, B!Full, PB!Full, B!Emplace, PB!Emplace, B!Last,
         PB!Last, B!InsertAt, PB!InsertAt
<1> QED  BY <1>1, <1>4, <1>5, <1>6, <1>7


\* A step of connection A in TwoClients is one that Connection allows.
LEMMA StepsA ==
  ASSUME NextA
  PROVE  PA!Next
<1> USE DEF PA!Side, Side, A!Side
<1>1. ASSUME IoThreadA PROVE PA!Next
  BY <1>1, SameA DEF IoThreadA, PA!Next
<1>2. ASSUME RunTaskA PROVE PA!Next
  <2>1. PICK k \in tasksA["server"] :
          \/ A!InvokeRequestHandler("server", k) \/ A!RequestHandlerReturns("server", k)
          \/ A!SendReply("server", k) \/ A!RunResponseHandler("server", k)
    BY <1>2 DEF RunTaskA
  <2>2. PA!RunTask("server")
    BY <2>1, SameA DEF PA!RunTask
  <2> QED  BY <2>2 DEF PA!Next
<1>3. ASSUME ClientA \/ UserA PROVE PA!Next
  BY <1>3, SameA DEF ClientA, UserA, PA!Next, PA!User
<1>4. ASSUME NEW r \in RequestA, SendA(r) PROVE PA!Next
  BY <1>4, SameA DEF SendA, PA!Next
<1> QED  BY <1>1, <1>2, <1>3, <1>4 DEF NextA

\* A step of connection B in TwoClients is one that Connection allows.
LEMMA StepsB ==
  ASSUME NextB
  PROVE  PB!Next
<1> USE DEF PB!Side, Side, B!Side
<1>1. ASSUME IoThreadB PROVE PB!Next
  BY <1>1, SameB DEF IoThreadB, PB!Next
<1>2. ASSUME RunTaskB PROVE PB!Next
  <2>1. PICK k \in tasksB["server"] :
          \/ B!InvokeRequestHandler("server", k) \/ B!RequestHandlerReturns("server", k)
          \/ B!SendReply("server", k) \/ B!RunResponseHandler("server", k)
    BY <1>2 DEF RunTaskB
  <2>2. PB!RunTask("server")
    BY <2>1, SameB DEF PB!RunTask
  <2> QED  BY <2>2 DEF PB!Next
<1>3. ASSUME ClientB \/ UserB PROVE PB!Next
  BY <1>3, SameB DEF ClientB, UserB, PB!Next, PB!User
<1>4. ASSUME NEW r \in RequestB, SendB(r) PROVE PB!Next
  BY <1>4, SameB DEF SendB, PB!Next
<1> QED  BY <1>1, <1>2, <1>3, <1>4 DEF NextB

-----------------------------------------------------------------------------
(***************************************************************************)
(* What Connection_proofs shows of one connection, of both.                *)
(***************************************************************************)
Placed ==
  /\ PA!TypeOK /\ PA!OnePlacePerRequest /\ PA!NestedWaits
  /\ PB!TypeOK /\ PB!OnePlacePerRequest /\ PB!NestedWaits

LEMMA InitPlaced == Init => Placed
<1>1. Init => PA!Init /\ PB!Init
  BY DEF Init, A!Init, B!Init, PA!Init, PB!Init, A!Side, B!Side, PA!Side, PB!Side
<1>2. PA!Init => PA!TypeOK /\ PA!OnePlacePerRequest /\ PA!NestedWaits
  BY AssumptionsA, PA!InitType, PA!InitInvariant, PA!InitWaits
<1>3. PB!Init => PB!TypeOK /\ PB!OnePlacePerRequest /\ PB!NestedWaits
  BY AssumptionsB, PB!InitType, PB!InitInvariant, PB!InitWaits
<1> QED  BY <1>1, <1>2, <1>3 DEF Placed

LEMMA StepPlaced == Placed /\ [Next]_vars => Placed'
<1> SUFFICES ASSUME Placed, [Next]_vars PROVE Placed'
  OBVIOUS
<1>1. [PA!Next]_(PA!vars)
  <2>1. UNCHANGED a => UNCHANGED PA!vars
    BY DEF a, PA!vars
  <2> QED  BY <2>1, StepsA DEF Next, NextB, IoThreadB, RunTaskB, SendB, ClientB, UserB, vars
<1>2. [PB!Next]_(PB!vars)
  <2>1. UNCHANGED b => UNCHANGED PB!vars
    BY DEF b, PB!vars
  <2> QED  BY <2>1, StepsB DEF Next, NextA, IoThreadA, RunTaskA, SendA, ClientA, UserA, vars
<1>3. (PA!TypeOK /\ PA!OnePlacePerRequest /\ PA!NestedWaits)'
  BY <1>1, AssumptionsA, PA!StepType, PA!StepInvariant, PA!StepWaits DEF Placed
<1>4. (PB!TypeOK /\ PB!OnePlacePerRequest /\ PB!NestedWaits)'
  BY <1>2, AssumptionsB, PB!StepType, PB!StepInvariant, PB!StepWaits DEF Placed
<1> QED  BY <1>3, <1>4 DEF Placed
-----------------------------------------------------------------------------
\* Only one of the two connections has a handler or callback at work at the server.
Apart == tasksA["server"] = {} \/ tasksB["server"] = {}

\* Of what connection A does, only the io thread starts a task of the server, and only
\* RunTaskA changes one.
LEMMA TasksA ==
  ASSUME Placed, NextA, ~ RunTaskA
  PROVE  tasksA'["server"] = tasksA["server"] \/ tasksB["server"] = {}
<1>1. DOMAIN tasksA = Side /\ "server" \in Side /\ "server" # "client"
  BY DEF Placed, PA!TypeOK, PA!Side, Side
<1>2. ASSUME IoThreadA PROVE tasksB["server"] = {}
  BY <1>2 DEF IoThreadA, IoThreadFree
<1>3. ASSUME A!IoThread("client") PROVE tasksA'["server"] = tasksA["server"]
  BY <1>1, <1>3 DEF A!IoThread, A!ClientOpen, A!OnInfo, A!OnRequest, A!OnRequestNoHandler,
     A!OnResponse, A!OnRequestError, A!ReceiveClose, A!Discard
<1>4. ASSUME A!RunTask("client") PROVE tasksA'["server"] = tasksA["server"]
  BY <1>1, <1>4 DEF A!RunTask, A!InvokeRequestHandler, A!RequestHandlerReturns, A!SendReply,
     A!RunResponseHandler
<1>5. ASSUME UserA \/ \E r \in RequestA : SendA(r) PROVE tasksA' = tasksA
  BY <1>5 DEF UserA, SendA, A!Terminate, A!Close, A!SetRequestHandler,
     A!SendRequestPush, A!SendRequestThrows,
     A!SendRequestSend
<1> QED  BY <1>2, <1>3, <1>4, <1>5 DEF NextA, ClientA

\* Of what connection B does, only the io thread starts a task of the server, and only
\* RunTaskB changes one.
LEMMA TasksB ==
  ASSUME Placed, NextB, ~ RunTaskB
  PROVE  tasksB'["server"] = tasksB["server"] \/ tasksA["server"] = {}
<1>1. DOMAIN tasksB = Side /\ "server" \in Side /\ "server" # "client"
  BY DEF Placed, PB!TypeOK, PB!Side, Side
<1>2. ASSUME IoThreadB PROVE tasksA["server"] = {}
  BY <1>2 DEF IoThreadB, IoThreadFree
<1>3. ASSUME B!IoThread("client") PROVE tasksB'["server"] = tasksB["server"]
  BY <1>1, <1>3 DEF B!IoThread, B!ClientOpen, B!OnInfo, B!OnRequest, B!OnRequestNoHandler,
     B!OnResponse, B!OnRequestError, B!ReceiveClose, B!Discard
<1>4. ASSUME B!RunTask("client") PROVE tasksB'["server"] = tasksB["server"]
  BY <1>1, <1>4 DEF B!RunTask, B!InvokeRequestHandler, B!RequestHandlerReturns, B!SendReply,
     B!RunResponseHandler
<1>5. ASSUME UserB \/ \E r \in RequestB : SendB(r) PROVE tasksB' = tasksB
  BY <1>5 DEF UserB, SendB, B!Terminate, B!Close, B!SetRequestHandler,
     B!SendRequestPush, B!SendRequestThrows,
     B!SendRequestSend
<1> QED  BY <1>2, <1>3, <1>4, <1>5 DEF NextB, ClientB

LEMMA StepApart == Placed /\ Apart /\ [Next]_vars => Apart'
<1> SUFFICES ASSUME Placed, Apart, [Next]_vars PROVE Apart'
  OBVIOUS
<1>1. ASSUME NextA PROVE Apart'
  <2>1. tasksB' = tasksB
    BY <1>1 DEF NextA, IoThreadA, RunTaskA, SendA, ClientA, UserA, b
  <2>2. RunTaskA => tasksB["server"] = {}
    BY DEF RunTaskA, Apart
  <2> QED  BY <1>1, <2>1, <2>2, TasksA DEF Apart
<1>2. ASSUME NextB PROVE Apart'
  <2>1. tasksA' = tasksA
    BY <1>2 DEF NextB, IoThreadB, RunTaskB, SendB, ClientB, UserB, a
  <2>2. RunTaskB => tasksA["server"] = {}
    BY DEF RunTaskB, Apart
  <2> QED  BY <1>2, <2>1, <2>2, TasksB DEF Apart
<1>3. UNCHANGED vars => Apart'
  BY DEF vars, a, b, Apart
<1> QED  BY <1>1, <1>2, <1>3 DEF Next

LEMMA AlwaysPlaced == Spec => [](Placed /\ Apart)
<1>1. Init => Placed /\ Apart
  BY InitPlaced DEF Init, A!Init, A!Side, Apart
<1>2. Placed /\ Apart /\ [Next]_vars => (Placed /\ Apart)'
  BY StepPlaced, StepApart
<1> QED  BY <1>1, <1>2, PTL DEF Spec

(***************************************************************************)
(* At most one handler or callback of a server runs, whichever of its      *)
(* clients it serves (Connection.cpp:145,185, Server.cpp:79): the io       *)
(* thread that starts them all waits for each.                             *)
(***************************************************************************)
THEOREM HandlersAlone == Spec => []OneHandlerAtATime
<1>1. Placed /\ Apart => OneHandlerAtATime
  <2> SUFFICES ASSUME Placed, Apart PROVE OneHandlerAtATime
    OBVIOUS
  <2>1. ASSUME NEW S, \A k, l \in S : k = l
        PROVE  Cardinality(S) \in {0, 1}
    <3>1. S = {} \/ \E k : S = {k}
      BY <2>1
    <3> QED  BY <3>1, FS_EmptySet, FS_Singleton
  <2>2. /\ \A k, l \in tasksA["server"] : k = l
        /\ \A k, l \in tasksB["server"] : k = l
    BY DEF Placed, PA!OnePlacePerRequest, PA!TasksPlaced, PA!Side,
           PB!OnePlacePerRequest, PB!TasksPlaced, PB!Side
  <2>3. /\ Cardinality(tasksA["server"]) \in {0, 1}
        /\ Cardinality(tasksB["server"]) \in {0, 1}
    BY <2>1, <2>2
  <2>4. Cardinality({}) = 0
    BY FS_EmptySet
  <2> QED  BY <2>3, <2>4 DEF Apart, OneHandlerAtATime
<1> QED  BY <1>1, AlwaysPlaced, PTL
-----------------------------------------------------------------------------
(***************************************************************************)
(* Requests that a handler of one connection sends on the other.  What a   *)
(* step of that other connection may do to one of them:                    *)
(***************************************************************************)
LEMMA ForwardedA ==
  ASSUME Placed, NextA, NEW q \in RequestA, Sender[q] = "server"
  PROVE  /\ stageA[q] \in {"idle", "threw"} =>
              \/ stageA'[q] \in {"idle", "threw"}
              \/ stageA'[q] = "pushed" /\ MaySend(q, tasksB)
         /\ stageA[q] \notin {"idle", "threw"} => stageA'[q] \notin {"idle", "threw"}
         /\ stageA'[q] \in PA!ReplyRead =>
              stageA[q] \in PA!ReplyRead \/ IoThreadFree(tasksB)
<1>1. /\ PA!TypeOK /\ PA!OnePlacePerRequest
      /\ "server" \in PA!Side /\ "client" \in PA!Side
      /\ SenderA[q] = "server"
  BY DEF Placed, PA!Side, SenderA
<1>2. ASSUME IoThreadA PROVE PA!BegunOnly({}) /\ IoThreadFree(tasksB)
  <2>1. IoThreadFree(tasksB)
    BY <1>2 DEF IoThreadA
  <2>2. PA!IoThread("server") => PA!BegunOnly({})
    BY <1>1, AssumptionsA, PA!IoReads
  <2>3. PA!ServerOpen \/ PA!Terminate("server") => PA!BegunOnly({})
    BY <1>1, AssumptionsA, PA!QuietReads
  <2> QED  BY <1>2, <2>1, <2>2, <2>3, SameA DEF IoThreadA
<1>3. ASSUME RunTaskA PROVE PA!BegunOnly({}) /\ PA!ReadsOnly({})
  <2>1. PICK k \in tasksA["server"] :
          \/ A!InvokeRequestHandler("server", k) \/ A!RequestHandlerReturns("server", k)
          \/ A!SendReply("server", k) \/ A!RunResponseHandler("server", k)
    BY <1>3 DEF RunTaskA
  <2>2. PA!RunTask("server")
    BY <2>1, SameA DEF PA!RunTask
  <2> QED  BY <1>1, <2>2, AssumptionsA, PA!TaskReads
<1>4. ASSUME ClientA PROVE PA!BegunOnly({}) /\ PA!ReadsOnly({"client"})
  <2>1. PA!IoThread("client") => PA!BegunOnly({}) /\ PA!ReadsOnly({"client"})
    BY <1>1, AssumptionsA, PA!IoReads
  <2>2. PA!RunTask("client") => PA!BegunOnly({}) /\ PA!ReadsOnly({})
    BY <1>1, AssumptionsA, PA!TaskReads
  <2> QED  BY <1>4, <2>1, <2>2, SameA DEF ClientA, PA!ReadsOnly
<1>5. ASSUME UserA PROVE PA!BegunOnly({}) /\ PA!ReadsOnly({})
  <2>1. PA!Terminate("client") => PA!BegunOnly({}) /\ PA!ReadsOnly({})
    BY <1>1, AssumptionsA, PA!QuietReads
  <2>2. ASSUME NEW s \in Side, PA!Close(s) PROVE PA!BegunOnly({}) /\ PA!ReadsOnly({})
    <3>1. s \in PA!Side /\ PA!User(s)
      BY <2>2 DEF Side, PA!Side, PA!User
    <3> QED  BY <1>1, <3>1, AssumptionsA, PA!QuietReads
  <2>3. PA!SetRequestHandler("server") => PA!BegunOnly({}) /\ PA!ReadsOnly({})
    BY <1>1, AssumptionsA, PA!QuietReads DEF PA!User
  <2> QED  BY <1>5, <2>1, <2>2, <2>3, SameA DEF UserA
<1>6. ASSUME NEW r \in RequestA, SendA(r)
      PROVE  /\ PA!BegunOnly({r}) /\ PA!ReadsOnly({})
             /\ stageA[r] = "idle" => MaySend(r, tasksB)
  <2>1. PA!SendRequestPush(r) \/ PA!SendRequestThrows(r) \/ PA!SendRequestSend(r)
    BY <1>6, SameA DEF SendA
  <2>2. PA!BegunOnly({r}) /\ PA!ReadsOnly({})
    BY <1>1, <2>1, AssumptionsA, PA!CallReads
  <2>3. PA!SendRequestSend(r) => stageA[r] # "idle"
    BY DEF PA!SendRequestSend
  <2> QED  BY <1>6, <2>2, <2>3, SameA DEF SendA
<1>7. ASSUME NEW R, PA!BegunOnly(R)
      PROVE  /\ stageA[q] \in {"idle", "threw"} =>
                  \/ stageA'[q] \in {"idle", "threw"}
                  \/ q \in R /\ stageA'[q] = "pushed" /\ stageA[q] = "idle"
             /\ stageA[q] \notin {"idle", "threw"} => stageA'[q] \notin {"idle", "threw"}
  BY <1>7 DEF PA!BegunOnly, PA!Callable
<1>8. ASSUME NEW S, PA!ReadsOnly(S), "server" \notin S, stageA'[q] \in PA!ReplyRead
      PROVE  stageA[q] \in PA!ReplyRead
  BY <1>1, <1>8 DEF PA!ReadsOnly
<1>9. CASE IoThreadA
  BY <1>2, <1>7, <1>9
<1>10. CASE RunTaskA \/ ClientA \/ UserA
  <2>1. PA!BegunOnly({}) /\ (PA!ReadsOnly({}) \/ PA!ReadsOnly({"client"}))
    BY <1>3, <1>4, <1>5, <1>10
  <2>2. "server" \notin {"client"}
    OBVIOUS
  <2> QED  BY <1>7, <1>8, <2>1, <2>2
<1>11. CASE \E r \in RequestA : SendA(r)
  <2>1. PICK r \in RequestA : SendA(r)
    BY <1>11
  <2>2. PA!BegunOnly({r}) /\ PA!ReadsOnly({}) /\ (stageA[r] = "idle" => MaySend(r, tasksB))
    BY <1>6, <2>1
  <2>3. stageA'[q] \in PA!ReplyRead => stageA[q] \in PA!ReplyRead
    BY <1>8, <2>2
  <2>4. /\ stageA[q] \in {"idle", "threw"} =>
             \/ stageA'[q] \in {"idle", "threw"}
             \/ q = r /\ stageA'[q] = "pushed" /\ stageA[q] = "idle"
        /\ stageA[q] \notin {"idle", "threw"} => stageA'[q] \notin {"idle", "threw"}
    BY <1>7, <2>2
  <2> QED  BY <2>2, <2>3, <2>4
<1> QED  BY <1>9, <1>10, <1>11 DEF NextA

LEMMA ForwardedB ==
  ASSUME Placed, NextB, NEW q \in RequestB, Sender[q] = "server"
  PROVE  /\ stageB[q] \in {"idle", "threw"} =>
              \/ stageB'[q] \in {"idle", "threw"}
              \/ stageB'[q] = "pushed" /\ MaySend(q, tasksA)
         /\ stageB[q] \notin {"idle", "threw"} => stageB'[q] \notin {"idle", "threw"}
         /\ stageB'[q] \in PB!ReplyRead =>
              stageB[q] \in PB!ReplyRead \/ IoThreadFree(tasksA)
<1>1. /\ PB!TypeOK /\ PB!OnePlacePerRequest
      /\ "server" \in PB!Side /\ "client" \in PB!Side
      /\ SenderB[q] = "server"
  BY DEF Placed, PB!Side, SenderB
<1>2. ASSUME IoThreadB PROVE PB!BegunOnly({}) /\ IoThreadFree(tasksA)
  <2>1. IoThreadFree(tasksA)
    BY <1>2 DEF IoThreadB
  <2>2. PB!IoThread("server") => PB!BegunOnly({})
    BY <1>1, AssumptionsB, PB!IoReads
  <2>3. PB!ServerOpen \/ PB!Terminate("server") => PB!BegunOnly({})
    BY <1>1, AssumptionsB, PB!QuietReads
  <2> QED  BY <1>2, <2>1, <2>2, <2>3, SameB DEF IoThreadB
<1>3. ASSUME RunTaskB PROVE PB!BegunOnly({}) /\ PB!ReadsOnly({})
  <2>1. PICK k \in tasksB["server"] :
          \/ B!InvokeRequestHandler("server", k) \/ B!RequestHandlerReturns("server", k)
          \/ B!SendReply("server", k) \/ B!RunResponseHandler("server", k)
    BY <1>3 DEF RunTaskB
  <2>2. PB!RunTask("server")
    BY <2>1, SameB DEF PB!RunTask
  <2> QED  BY <1>1, <2>2, AssumptionsB, PB!TaskReads
<1>4. ASSUME ClientB PROVE PB!BegunOnly({}) /\ PB!ReadsOnly({"client"})
  <2>1. PB!IoThread("client") => PB!BegunOnly({}) /\ PB!ReadsOnly({"client"})
    BY <1>1, AssumptionsB, PB!IoReads
  <2>2. PB!RunTask("client") => PB!BegunOnly({}) /\ PB!ReadsOnly({})
    BY <1>1, AssumptionsB, PB!TaskReads
  <2> QED  BY <1>4, <2>1, <2>2, SameB DEF ClientB, PB!ReadsOnly
<1>5. ASSUME UserB PROVE PB!BegunOnly({}) /\ PB!ReadsOnly({})
  <2>1. PB!Terminate("client") => PB!BegunOnly({}) /\ PB!ReadsOnly({})
    BY <1>1, AssumptionsB, PB!QuietReads
  <2>2. ASSUME NEW s \in Side, PB!Close(s) PROVE PB!BegunOnly({}) /\ PB!ReadsOnly({})
    <3>1. s \in PB!Side /\ PB!User(s)
      BY <2>2 DEF Side, PB!Side, PB!User
    <3> QED  BY <1>1, <3>1, AssumptionsB, PB!QuietReads
  <2>3. PB!SetRequestHandler("server") => PB!BegunOnly({}) /\ PB!ReadsOnly({})
    BY <1>1, AssumptionsB, PB!QuietReads DEF PB!User
  <2> QED  BY <1>5, <2>1, <2>2, <2>3, SameB DEF UserB
<1>6. ASSUME NEW r \in RequestB, SendB(r)
      PROVE  /\ PB!BegunOnly({r}) /\ PB!ReadsOnly({})
             /\ stageB[r] = "idle" => MaySend(r, tasksA)
  <2>1. PB!SendRequestPush(r) \/ PB!SendRequestThrows(r) \/ PB!SendRequestSend(r)
    BY <1>6, SameB DEF SendB
  <2>2. PB!BegunOnly({r}) /\ PB!ReadsOnly({})
    BY <1>1, <2>1, AssumptionsB, PB!CallReads
  <2>3. PB!SendRequestSend(r) => stageB[r] # "idle"
    BY DEF PB!SendRequestSend
  <2> QED  BY <1>6, <2>2, <2>3, SameB DEF SendB
<1>7. ASSUME NEW R, PB!BegunOnly(R)
      PROVE  /\ stageB[q] \in {"idle", "threw"} =>
                  \/ stageB'[q] \in {"idle", "threw"}
                  \/ q \in R /\ stageB'[q] = "pushed" /\ stageB[q] = "idle"
             /\ stageB[q] \notin {"idle", "threw"} => stageB'[q] \notin {"idle", "threw"}
  BY <1>7 DEF PB!BegunOnly, PB!Callable
<1>8. ASSUME NEW S, PB!ReadsOnly(S), "server" \notin S, stageB'[q] \in PB!ReplyRead
      PROVE  stageB[q] \in PB!ReplyRead
  BY <1>1, <1>8 DEF PB!ReadsOnly
<1>9. CASE IoThreadB
  BY <1>2, <1>7, <1>9
<1>10. CASE RunTaskB \/ ClientB \/ UserB
  <2>1. PB!BegunOnly({}) /\ (PB!ReadsOnly({}) \/ PB!ReadsOnly({"client"}))
    BY <1>3, <1>4, <1>5, <1>10
  <2>2. "server" \notin {"client"}
    OBVIOUS
  <2> QED  BY <1>7, <1>8, <2>1, <2>2
<1>11. CASE \E r \in RequestB : SendB(r)
  <2>1. PICK r \in RequestB : SendB(r)
    BY <1>11
  <2>2. PB!BegunOnly({r}) /\ PB!ReadsOnly({}) /\ (stageB[r] = "idle" => MaySend(r, tasksA))
    BY <1>6, <2>1
  <2>3. stageB'[q] \in PB!ReplyRead => stageB[q] \in PB!ReplyRead
    BY <1>8, <2>2
  <2>4. /\ stageB[q] \in {"idle", "threw"} =>
             \/ stageB'[q] \in {"idle", "threw"}
             \/ q = r /\ stageB'[q] = "pushed" /\ stageB[q] = "idle"
        /\ stageB[q] \notin {"idle", "threw"} => stageB'[q] \notin {"idle", "threw"}
    BY <1>7, <2>2
  <2> QED  BY <2>2, <2>3, <2>4
<1> QED  BY <1>9, <1>10, <1>11 DEF NextB

\* A handler of connection A that has begun a request on the other goes on.
LEMMA WaitingA ==
  ASSUME Placed, NextA, NEW k \in tasksA["server"], k.pc = "running",
         NEW q \in Nested[k.message.body] \cap RequestB, k.message.body \in RequestA,
         stageB[q] \notin {"idle", "threw", "answered"}
  PROVE  k \in tasksA'["server"]
<1>1. DOMAIN tasksA = Side /\ "server" \in Side /\ "server" # "client"
  BY DEF Placed, PA!TypeOK, PA!Side, Side
<1>2. ASSUME IoThreadA PROVE tasksA' = tasksA
  BY <1>2 DEF IoThreadA, A!ServerOpen, A!Terminate, A!IoThread, A!ClientOpen, A!OnInfo,
     A!OnRequest, A!OnRequestNoHandler, A!OnResponse, A!OnRequestError, A!ReceiveClose,
     A!Discard, A!OnMessage, A!Arrived
<1>3. ASSUME RunTaskA PROVE k \in tasksA'["server"]
  <2>1. PICK l \in tasksA["server"] :
          \/ A!InvokeRequestHandler("server", l)
          \/ A!RequestHandlerReturns("server", l) /\ MayReturn(l.message.body, stageB, stateB)
          \/ A!SendReply("server", l) \/ A!RunResponseHandler("server", l)
    BY <1>3 DEF RunTaskA
  <2>2. l # k
    <3>1. Client[q] # Client[k.message.body] /\ q \in Nested[k.message.body]
      BY DEF RequestA, RequestB
    <3>2. ~ MayReturn(k.message.body, stageB, stateB)
      BY <3>1 DEF MayReturn
    <3> QED
      BY <2>1, <3>2 DEF A!InvokeRequestHandler, A!SendReply, A!RunResponseHandler
  <2> QED
    BY <1>1, <2>1, <2>2 DEF A!InvokeRequestHandler, A!RequestHandlerReturns, A!SendReply,
       A!RunResponseHandler
<1>4. ASSUME ClientA PROVE tasksA'["server"] = tasksA["server"]
  <2>1. ASSUME A!IoThread("client") PROVE tasksA'["server"] = tasksA["server"]
    BY <1>1, <2>1 DEF A!IoThread, A!ClientOpen, A!OnInfo, A!OnRequest, A!OnRequestNoHandler,
       A!OnResponse, A!OnRequestError, A!ReceiveClose, A!Discard
  <2>2. ASSUME A!RunTask("client") PROVE tasksA'["server"] = tasksA["server"]
    BY <1>1, <2>2 DEF A!RunTask, A!InvokeRequestHandler, A!RequestHandlerReturns,
       A!SendReply, A!RunResponseHandler
  <2> QED  BY <1>4, <2>1, <2>2 DEF ClientA
<1>5. ASSUME UserA \/ \E r \in RequestA : SendA(r) PROVE tasksA' = tasksA
  BY <1>5 DEF UserA, SendA, A!Terminate, A!Close, A!SetRequestHandler,
     A!SendRequestPush, A!SendRequestThrows,
     A!SendRequestSend
<1> QED  BY <1>2, <1>3, <1>4, <1>5 DEF NextA

\* A handler of connection B that has begun a request on the other goes on.
LEMMA WaitingB ==
  ASSUME Placed, NextB, NEW k \in tasksB["server"], k.pc = "running",
         NEW q \in Nested[k.message.body] \cap RequestA, k.message.body \in RequestB,
         stageA[q] \notin {"idle", "threw", "answered"}
  PROVE  k \in tasksB'["server"]
<1>1. DOMAIN tasksB = Side /\ "server" \in Side /\ "server" # "client"
  BY DEF Placed, PB!TypeOK, PB!Side, Side
<1>2. ASSUME IoThreadB PROVE tasksB' = tasksB
  BY <1>2 DEF IoThreadB, B!ServerOpen, B!Terminate, B!IoThread, B!ClientOpen, B!OnInfo,
     B!OnRequest, B!OnRequestNoHandler, B!OnResponse, B!OnRequestError, B!ReceiveClose,
     B!Discard, B!OnMessage, B!Arrived
<1>3. ASSUME RunTaskB PROVE k \in tasksB'["server"]
  <2>1. PICK l \in tasksB["server"] :
          \/ B!InvokeRequestHandler("server", l)
          \/ B!RequestHandlerReturns("server", l) /\ MayReturn(l.message.body, stageA, stateA)
          \/ B!SendReply("server", l) \/ B!RunResponseHandler("server", l)
    BY <1>3 DEF RunTaskB
  <2>2. l # k
    <3>1. Client[q] # Client[k.message.body] /\ q \in Nested[k.message.body]
      BY DEF RequestB, RequestA
    <3>2. ~ MayReturn(k.message.body, stageA, stateA)
      BY <3>1 DEF MayReturn
    <3> QED
      BY <2>1, <3>2 DEF B!InvokeRequestHandler, B!SendReply, B!RunResponseHandler
  <2> QED
    BY <1>1, <2>1, <2>2 DEF B!InvokeRequestHandler, B!RequestHandlerReturns, B!SendReply,
       B!RunResponseHandler
<1>4. ASSUME ClientB PROVE tasksB'["server"] = tasksB["server"]
  <2>1. ASSUME B!IoThread("client") PROVE tasksB'["server"] = tasksB["server"]
    BY <1>1, <2>1 DEF B!IoThread, B!ClientOpen, B!OnInfo, B!OnRequest, B!OnRequestNoHandler,
       B!OnResponse, B!OnRequestError, B!ReceiveClose, B!Discard
  <2>2. ASSUME B!RunTask("client") PROVE tasksB'["server"] = tasksB["server"]
    BY <1>1, <2>2 DEF B!RunTask, B!InvokeRequestHandler, B!RequestHandlerReturns,
       B!SendReply, B!RunResponseHandler
  <2> QED  BY <1>4, <2>1, <2>2 DEF ClientB
<1>5. ASSUME UserB \/ \E r \in RequestB : SendB(r) PROVE tasksB' = tasksB
  BY <1>5 DEF UserB, SendB, B!Terminate, B!Close, B!SetRequestHandler,
     B!SendRequestPush, B!SendRequestThrows,
     B!SendRequestSend
<1> QED  BY <1>2, <1>3, <1>4, <1>5 DEF NextB

\* Requests that handlers of connection A wait for, with whom they wait.
WaitsA ==
  \A r \in RequestA : \A q \in Nested[r] \cap RequestB :
    stageB[q] \notin {"idle", "threw"} =>
      /\ stageB[q] \notin PB!ReplyRead
      /\ \E k \in tasksA["server"] : k.pc = "running" /\ k.message.body = r

\* Requests that handlers of connection B wait for, with whom they wait.
WaitsB ==
  \A r \in RequestB : \A q \in Nested[r] \cap RequestA :
    stageA[q] \notin {"idle", "threw"} =>
      /\ stageA[q] \notin PA!ReplyRead
      /\ \E k \in tasksB["server"] : k.pc = "running" /\ k.message.body = r

LEMMA StepWaitsA ==
  ASSUME Placed, WaitsA, [Next]_vars
  PROVE  WaitsA'
<1> SUFFICES ASSUME NEW r \in RequestA, NEW q \in Nested[r] \cap RequestB,
                    stageB'[q] \notin {"idle", "threw"}
             PROVE  /\ stageB'[q] \notin PB!ReplyRead
                    /\ \E k \in tasksA'["server"] : k.pc = "running" /\ k.message.body = r
  BY DEF WaitsA, PB!ReplyRead
<1>1. /\ r \in Request /\ q \in Request /\ Client[q] # Client[r]
      /\ Sender[q] = "server"
  BY CompositionAssumption DEF RequestA, RequestB
<1>2. CASE NextA
  <2>1. stageB' = stageB
    BY <1>2 DEF NextA, IoThreadA, RunTaskA, SendA, ClientA, UserA, b
  <2>2. PICK k \in tasksA["server"] : k.pc = "running" /\ k.message.body = r
    BY <2>1 DEF WaitsA
  <2>3. stageB[q] \notin PB!ReplyRead /\ stageB[q] # "answered"
    BY <2>1 DEF WaitsA, PB!ReplyRead
  <2>4. k \in tasksA'["server"]
    BY <1>2, <2>1, <2>2, <2>3, WaitingA
  <2> QED  BY <2>1, <2>2, <2>3, <2>4
<1>3. CASE NextB
  <2>1. tasksA' = tasksA
    BY <1>3 DEF NextB, IoThreadB, RunTaskB, SendB, ClientB, UserB, a
  <2>2. CASE stageB[q] \in {"idle", "threw"}
    <3>1. stageB'[q] = "pushed" /\ MaySend(q, tasksA)
      BY <1>1, <1>3, <2>2, ForwardedB
    <3> QED  BY <1>1, <2>1, <3>1 DEF MaySend, PB!ReplyRead
  <2>3. CASE stageB[q] \notin {"idle", "threw"}
    <3>1. /\ stageB[q] \notin PB!ReplyRead
          /\ \E k \in tasksA["server"] : k.pc = "running" /\ k.message.body = r
      BY <2>3 DEF WaitsA
    <3>2. ~ IoThreadFree(tasksA)
      BY <3>1 DEF IoThreadFree
    <3> QED  BY <1>1, <1>3, <2>1, <3>1, <3>2, ForwardedB
  <2> QED  BY <2>2, <2>3
<1>4. CASE UNCHANGED vars
  BY <1>4 DEF vars, a, b, WaitsA
<1> QED  BY <1>2, <1>3, <1>4 DEF Next

LEMMA StepWaitsB ==
  ASSUME Placed, WaitsB, [Next]_vars
  PROVE  WaitsB'
<1> SUFFICES ASSUME NEW r \in RequestB, NEW q \in Nested[r] \cap RequestA,
                    stageA'[q] \notin {"idle", "threw"}
             PROVE  /\ stageA'[q] \notin PA!ReplyRead
                    /\ \E k \in tasksB'["server"] : k.pc = "running" /\ k.message.body = r
  BY DEF WaitsB, PA!ReplyRead
<1>1. /\ r \in Request /\ q \in Request /\ Client[q] # Client[r]
      /\ Sender[q] = "server"
  BY CompositionAssumption DEF RequestB, RequestA
<1>2. CASE NextB
  <2>1. stageA' = stageA
    BY <1>2 DEF NextB, IoThreadB, RunTaskB, SendB, ClientB, UserB, a
  <2>2. PICK k \in tasksB["server"] : k.pc = "running" /\ k.message.body = r
    BY <2>1 DEF WaitsB
  <2>3. stageA[q] \notin PA!ReplyRead /\ stageA[q] # "answered"
    BY <2>1 DEF WaitsB, PA!ReplyRead
  <2>4. k \in tasksB'["server"]
    BY <1>2, <2>1, <2>2, <2>3, WaitingB
  <2> QED  BY <2>1, <2>2, <2>3, <2>4
<1>3. CASE NextA
  <2>1. tasksB' = tasksB
    BY <1>3 DEF NextA, IoThreadA, RunTaskA, SendA, ClientA, UserA, b
  <2>2. CASE stageA[q] \in {"idle", "threw"}
    <3>1. stageA'[q] = "pushed" /\ MaySend(q, tasksB)
      BY <1>1, <1>3, <2>2, ForwardedA
    <3> QED  BY <1>1, <2>1, <3>1 DEF MaySend, PA!ReplyRead
  <2>3. CASE stageA[q] \notin {"idle", "threw"}
    <3>1. /\ stageA[q] \notin PA!ReplyRead
          /\ \E k \in tasksB["server"] : k.pc = "running" /\ k.message.body = r
      BY <2>3 DEF WaitsB
    <3>2. ~ IoThreadFree(tasksB)
      BY <3>1 DEF IoThreadFree
    <3> QED  BY <1>1, <1>3, <2>1, <3>1, <3>2, ForwardedA
  <2> QED  BY <2>2, <2>3
<1>4. CASE UNCHANGED vars
  BY <1>4 DEF vars, a, b, WaitsB
<1> QED  BY <1>2, <1>3, <1>4 DEF Next

LEMMA AlwaysWaits == Spec => [](Placed /\ Apart /\ WaitsA /\ WaitsB)
<1>1. Init => WaitsA /\ WaitsB
  <2>1. Init => /\ \A q \in RequestA : stageA[q] = "idle"
                /\ \A q \in RequestB : stageB[q] = "idle"
    BY DEF Init, A!Init, B!Init
  <2> QED  BY <2>1 DEF WaitsA, WaitsB
<1>2. Placed /\ WaitsA /\ WaitsB /\ [Next]_vars => (WaitsA /\ WaitsB)'
  BY StepWaitsA, StepWaitsB
<1> QED  BY <1>1, <1>2, AlwaysPlaced, PTL DEF Spec

(***************************************************************************)
(* No handler is ever answered by the client it forwards a request to, nor *)
(* by the one it serves (Connection.cpp:145-167, Server.cpp:79,151).       *)
(***************************************************************************)
THEOREM ForwardedBlocked == Spec => []ForwardedNeverAnswered
<1>1. Placed /\ WaitsA /\ WaitsB => ForwardedNeverAnswered
  <2> SUFFICES ASSUME Placed, WaitsA, WaitsB, NEW r \in Request, NEW q \in Nested[r]
               PROVE  IF Client[q] = "a" THEN stageA[q] # "answered"
                                         ELSE stageB[q] # "answered"
    BY DEF ForwardedNeverAnswered
  <2>1. /\ q \in Request /\ Client[q] \in {"a", "b"} /\ Client[r] \in {"a", "b"}
        /\ q \in RequestA <=> Client[q] = "a"
        /\ r \in RequestA <=> Client[r] = "a"
        /\ q \in RequestB <=> Client[q] = "b"
        /\ r \in RequestB <=> Client[r] = "b"
    BY CompositionAssumption DEF RequestA, RequestB
  <2>2. ASSUME q \in RequestA, r \in RequestA PROVE stageA[q] # "answered"
    BY <2>2 DEF Placed, PA!NestedWaits, PA!ReplyRead, NestedA
  <2>3. ASSUME q \in RequestB, r \in RequestB PROVE stageB[q] # "answered"
    BY <2>3 DEF Placed, PB!NestedWaits, PB!ReplyRead, NestedB
  <2>4. ASSUME q \in RequestB, r \in RequestA PROVE stageB[q] # "answered"
    BY <2>4 DEF WaitsA, PB!ReplyRead
  <2>5. ASSUME q \in RequestA, r \in RequestB PROVE stageA[q] # "answered"
    BY <2>5 DEF WaitsB, PA!ReplyRead
  <2> QED  BY <2>1, <2>2, <2>3, <2>4, <2>5
<1> QED  BY <1>1, AlwaysWaits, PTL

\* While a task of the server is at work, nothing but that task calls a handler there.
LEMMA QuietA ==
  ASSUME Placed, NextA, ~ RunTaskA, tasksA["server"] # {} \/ tasksB["server"] # {}
  PROVE  UNCHANGED <<handledA["server"], answeredA["server"]>>
<1>1. /\ DOMAIN handledA = Side /\ DOMAIN answeredA = Side
      /\ "server" \in Side /\ "server" # "client"
  BY DEF Placed, PA!TypeOK, PA!Side, Side
<1>2. ASSUME IoThreadA PROVE handledA' = handledA /\ answeredA' = answeredA
  BY <1>2 DEF IoThreadA, IoThreadFree, A!ServerOpen, A!Terminate, A!IoThread, A!ClientOpen,
     A!OnInfo, A!OnRequest, A!OnRequestNoHandler, A!OnResponse, A!OnRequestError,
     A!ReceiveClose, A!Discard, A!OnMessage, A!Arrived, A!histories
<1>3. ASSUME A!IoThread("client")
      PROVE  UNCHANGED <<handledA["server"], answeredA["server"]>>
  BY <1>1, <1>3 DEF A!IoThread, A!ClientOpen, A!OnInfo, A!OnRequest, A!OnRequestNoHandler,
     A!OnResponse, A!OnRequestError, A!ReceiveClose, A!Discard, A!histories
<1>4. ASSUME A!RunTask("client")
      PROVE  UNCHANGED <<handledA["server"], answeredA["server"]>>
  BY <1>1, <1>4 DEF A!RunTask, A!InvokeRequestHandler, A!RequestHandlerReturns, A!SendReply,
     A!RunResponseHandler, A!histories
<1>5. ASSUME UserA \/ \E r \in RequestA : SendA(r)
      PROVE  handledA' = handledA /\ answeredA' = answeredA
  BY <1>5 DEF UserA, SendA, A!Terminate, A!Close, A!SetRequestHandler,
     A!SendRequestPush, A!SendRequestThrows,
     A!SendRequestSend, A!histories
<1> QED  BY <1>2, <1>3, <1>4, <1>5 DEF NextA, ClientA

LEMMA QuietB ==
  ASSUME Placed, NextB, ~ RunTaskB, tasksA["server"] # {} \/ tasksB["server"] # {}
  PROVE  UNCHANGED <<handledB["server"], answeredB["server"]>>
<1>1. /\ DOMAIN handledB = Side /\ DOMAIN answeredB = Side
      /\ "server" \in Side /\ "server" # "client"
  BY DEF Placed, PB!TypeOK, PB!Side, Side
<1>2. ASSUME IoThreadB PROVE handledB' = handledB /\ answeredB' = answeredB
  BY <1>2 DEF IoThreadB, IoThreadFree, B!ServerOpen, B!Terminate, B!IoThread, B!ClientOpen,
     B!OnInfo, B!OnRequest, B!OnRequestNoHandler, B!OnResponse, B!OnRequestError,
     B!ReceiveClose, B!Discard, B!OnMessage, B!Arrived, B!histories
<1>3. ASSUME B!IoThread("client")
      PROVE  UNCHANGED <<handledB["server"], answeredB["server"]>>
  BY <1>1, <1>3 DEF B!IoThread, B!ClientOpen, B!OnInfo, B!OnRequest, B!OnRequestNoHandler,
     B!OnResponse, B!OnRequestError, B!ReceiveClose, B!Discard, B!histories
<1>4. ASSUME B!RunTask("client")
      PROVE  UNCHANGED <<handledB["server"], answeredB["server"]>>
  BY <1>1, <1>4 DEF B!RunTask, B!InvokeRequestHandler, B!RequestHandlerReturns, B!SendReply,
     B!RunResponseHandler, B!histories
<1>5. ASSUME UserB \/ \E r \in RequestB : SendB(r)
      PROVE  handledB' = handledB /\ answeredB' = answeredB
  BY <1>5 DEF UserB, SendB, B!Terminate, B!Close, B!SetRequestHandler,
     B!SendRequestPush, B!SendRequestThrows,
     B!SendRequestSend, B!histories
<1> QED  BY <1>2, <1>3, <1>4, <1>5 DEF NextB, ClientB

LEMMA StopsA ==
  ASSUME Placed, Apart, WaitsA, [Next]_vars,
         NEW k \in tasksA["server"], k.pc = "running",
         NEW q \in Nested[k.message.body] \cap RequestB, stageB[q] \notin {"idle", "threw"}
  PROVE  /\ k \in tasksA'["server"] /\ stageB'[q] \notin {"idle", "threw"}
         /\ UNCHANGED <<handledA["server"], handledB["server"],
                        answeredA["server"], answeredB["server"]>>
<1>1. k.message.body \in RequestA
  <2>1. k \in PA!Task
    BY DEF Placed, PA!TypeOK, PA!Side
  <2> QED  BY <2>1, AssumptionsA, PA!TaskShape
<1>2. /\ k.message.body \in Request /\ q \in Request
      /\ Client[q] # Client[k.message.body] /\ Sender[q] = "server"
  BY <1>1, CompositionAssumption DEF RequestA, RequestB
<1>3. stageB[q] \notin {"idle", "threw", "answered"}
  BY <1>1 DEF WaitsA, PB!ReplyRead
<1>4. CASE NextA
  <2>1. UNCHANGED <<stageB, handledB, answeredB>>
    BY <1>4 DEF NextA, IoThreadA, RunTaskA, SendA, ClientA, UserA, b
  <2>2. k \in tasksA'["server"]
    BY <1>1, <1>3, <1>4, WaitingA
  <2>3. UNCHANGED <<handledA["server"], answeredA["server"]>>
    <3>1. CASE RunTaskA
      <4>1. PICK l \in tasksA["server"] :
              \/ A!InvokeRequestHandler("server", l)
              \/ A!RequestHandlerReturns("server", l)
              \/ A!SendReply("server", l) \/ A!RunResponseHandler("server", l)
        BY <3>1 DEF RunTaskA
      <4>2. l = k
        BY DEF Placed, PA!OnePlacePerRequest, PA!TasksPlaced, PA!Side
      <4> QED
        BY <4>1, <4>2 DEF A!InvokeRequestHandler, A!RequestHandlerReturns, A!SendReply,
           A!RunResponseHandler, A!histories
    <3> QED  BY <1>4, <3>1, QuietA
  <2> QED  BY <1>3, <2>1, <2>2, <2>3
<1>5. CASE NextB
  <2>1. UNCHANGED <<tasksA, handledA, answeredA>>
    BY <1>5 DEF NextB, IoThreadB, RunTaskB, SendB, ClientB, UserB, a
  <2>2. stageB'[q] \notin {"idle", "threw"}
    BY <1>2, <1>5, ForwardedB
  <2>3. ~ RunTaskB
    BY DEF RunTaskB, Apart
  <2> QED  BY <1>5, <2>1, <2>2, <2>3, QuietB
<1>6. CASE UNCHANGED vars
  BY <1>6 DEF vars, a, b
<1> QED  BY <1>4, <1>5, <1>6 DEF Next

LEMMA StopsB ==
  ASSUME Placed, Apart, WaitsB, [Next]_vars,
         NEW k \in tasksB["server"], k.pc = "running",
         NEW q \in Nested[k.message.body] \cap RequestA, stageA[q] \notin {"idle", "threw"}
  PROVE  /\ k \in tasksB'["server"] /\ stageA'[q] \notin {"idle", "threw"}
         /\ UNCHANGED <<handledA["server"], handledB["server"],
                        answeredA["server"], answeredB["server"]>>
<1>1. k.message.body \in RequestB
  <2>1. k \in PB!Task
    BY DEF Placed, PB!TypeOK, PB!Side
  <2> QED  BY <2>1, AssumptionsB, PB!TaskShape
<1>2. /\ k.message.body \in Request /\ q \in Request
      /\ Client[q] # Client[k.message.body] /\ Sender[q] = "server"
  BY <1>1, CompositionAssumption DEF RequestB, RequestA
<1>3. stageA[q] \notin {"idle", "threw", "answered"}
  BY <1>1 DEF WaitsB, PA!ReplyRead
<1>4. CASE NextB
  <2>1. UNCHANGED <<stageA, handledA, answeredA>>
    BY <1>4 DEF NextB, IoThreadB, RunTaskB, SendB, ClientB, UserB, a
  <2>2. k \in tasksB'["server"]
    BY <1>1, <1>3, <1>4, WaitingB
  <2>3. UNCHANGED <<handledB["server"], answeredB["server"]>>
    <3>1. CASE RunTaskB
      <4>1. PICK l \in tasksB["server"] :
              \/ B!InvokeRequestHandler("server", l)
              \/ B!RequestHandlerReturns("server", l)
              \/ B!SendReply("server", l) \/ B!RunResponseHandler("server", l)
        BY <3>1 DEF RunTaskB
      <4>2. l = k
        BY DEF Placed, PB!OnePlacePerRequest, PB!TasksPlaced, PB!Side
      <4> QED
        BY <4>1, <4>2 DEF B!InvokeRequestHandler, B!RequestHandlerReturns, B!SendReply,
           B!RunResponseHandler, B!histories
    <3> QED  BY <1>4, <3>1, QuietB
  <2> QED  BY <1>3, <2>1, <2>2, <2>3
<1>5. CASE NextA
  <2>1. UNCHANGED <<tasksB, handledB, answeredB>>
    BY <1>5 DEF NextA, IoThreadA, RunTaskA, SendA, ClientA, UserA, b
  <2>2. stageA'[q] \notin {"idle", "threw"}
    BY <1>2, <1>5, ForwardedA
  <2>3. ~ RunTaskA
    BY DEF RunTaskA, Apart
  <2> QED  BY <1>5, <2>1, <2>2, <2>3, QuietA
<1>6. CASE UNCHANGED vars
  BY <1>6 DEF vars, a, b
<1> QED  BY <1>4, <1>5, <1>6 DEF Next

(***************************************************************************)
(* Once a handler has forwarded a request, the server calls no handler and *)
(* no callback any more, for any client, and that handler never returns    *)
(* (Connection.cpp:145-167, Server.cpp:79,151).                            *)
(***************************************************************************)
THEOREM ServerStops == Spec => ForwardingStopsServer
<1>1. /\ Placed /\ Apart /\ WaitsA /\ WaitsB /\ [Next]_vars /\ Forwarding
      => /\ Forwarding'
         /\ UNCHANGED <<handledA["server"], handledB["server"],
                        answeredA["server"], answeredB["server"]>>
  <2> SUFFICES ASSUME Placed, Apart, WaitsA, WaitsB, [Next]_vars, Forwarding
               PROVE  /\ Forwarding'
                      /\ UNCHANGED <<handledA["server"], handledB["server"],
                                     answeredA["server"], answeredB["server"]>>
    OBVIOUS
  <2>1. ASSUME NEW k \in tasksA["server"], k.pc = "running",
               NEW q \in Nested[k.message.body] \cap RequestB,
               stageB[q] \notin {"idle", "threw"}
        PROVE  /\ Forwarding'
               /\ UNCHANGED <<handledA["server"], handledB["server"],
                              answeredA["server"], answeredB["server"]>>
    BY <2>1, StopsA DEF Forwarding
  <2>2. ASSUME NEW k \in tasksB["server"], k.pc = "running",
               NEW q \in Nested[k.message.body] \cap RequestA,
               stageA[q] \notin {"idle", "threw"}
        PROVE  /\ Forwarding'
               /\ UNCHANGED <<handledA["server"], handledB["server"],
                              answeredA["server"], answeredB["server"]>>
    BY <2>2, StopsB DEF Forwarding
  <2> QED  BY <2>1, <2>2 DEF Forwarding
<1> QED  BY <1>1, AlwaysWaits, PTL DEF Spec, ForwardingStopsServer

(***************************************************************************)
(* Each client and the server behave to each other as module Connection    *)
(* has it, whatever the other client does (Server.cpp:184-188): its safety *)
(* holds of each of a server's connections.                                *)
(***************************************************************************)
THEOREM EachIsAConnection ==
  Spec => /\ A!Init /\ [][A!Next]_(A!vars)
          /\ B!Init /\ [][B!Next]_(B!vars)
<1> USE DEF A!Side, B!Side, Side
<1>1. [Next]_vars => [A!Next]_(A!vars)
  <2>1. IoThreadA \/ ClientA \/ UserA => A!Next
    BY DEF IoThreadA, ClientA, UserA, A!User, A!Next
  <2>2. RunTaskA => A!Next
    <3>1. RunTaskA => A!RunTask("server")
      BY DEF RunTaskA, A!RunTask
    <3> QED  BY <3>1 DEF A!Next
  <2>3. \A r \in RequestA : SendA(r) => A!Next
    BY DEF SendA, A!Next
  <2>4. UNCHANGED a => UNCHANGED A!vars
    BY DEF a, A!vars
  <2> QED
    BY <2>1, <2>2, <2>3, <2>4
    DEF Next, NextA, NextB, IoThreadB, RunTaskB, SendB, ClientB, UserB, vars
<1>2. [Next]_vars => [B!Next]_(B!vars)
  <2>1. IoThreadB \/ ClientB \/ UserB => B!Next
    BY DEF IoThreadB, ClientB, UserB, B!User, B!Next
  <2>2. RunTaskB => B!Next
    <3>1. RunTaskB => B!RunTask("server")
      BY DEF RunTaskB, B!RunTask
    <3> QED  BY <3>1 DEF B!Next
  <2>3. \A r \in RequestB : SendB(r) => B!Next
    BY DEF SendB, B!Next
  <2>4. UNCHANGED b => UNCHANGED B!vars
    BY DEF b, B!vars
  <2> QED
    BY <2>1, <2>2, <2>3, <2>4
    DEF Next, NextB, NextA, IoThreadA, RunTaskA, SendA, ClientA, UserA, vars
<1>3. Init => A!Init /\ B!Init
  BY DEF Init
<1> QED  BY <1>1, <1>2, <1>3, PTL DEF Spec
=============================================================================
