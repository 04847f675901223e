----------------------------- MODULE TwoClients -----------------------------
(***************************************************************************)
(* A server with two clients, a and b: two connections, as in module       *)
(* Connection, whose server ends share one io thread, the ioThread_ of the *)
(* Server (Server.cpp:79).  While a handler or a callback of one           *)
(* connection runs, that thread waits for it and serves neither.           *)
(*                                                                         *)
(* A request handler is given its own connection, and can reach the others *)
(* through Server::currentConnections().  So Nested, here, may name        *)
(* requests to the other client: a handler that forwards what it is asked, *)
(* and waits for the answer.                                               *)
(***************************************************************************)
EXTENDS Naturals, FiniteSets

CONSTANTS Request, Sender, Nested, MaxToken,   \* as in Connection
          Client,    \* Client[r]: the connection, "a" or "b", that r is sent on
          Replaced   \* the connections whose request handler at the server may be
                     \* unset and is set at any time

VARIABLES    \* those of Connection, for each
  stateA, wireA, responseHandlersA, infoHandlerA, requestHandlerA, tasksA,
  userReferenceA, stageA, putA, handledA, answeredA,
  stateB, wireB, responseHandlersB, infoHandlerB, requestHandlerB, tasksB,
  userReferenceB, stageB, putB, handledB, answeredB

a == <<stateA, wireA, responseHandlersA, infoHandlerA, requestHandlerA, tasksA,
       userReferenceA, stageA, putA, handledA, answeredA>>
b == <<stateB, wireB, responseHandlersB, infoHandlerB, requestHandlerB, tasksB,
       userReferenceB, stageB, putB, handledB, answeredB>>
vars == <<a, b>>

RequestA == {r \in Request : Client[r] = "a"}
RequestB == {r \in Request : Client[r] = "b"}
SenderA == [r \in RequestA |-> Sender[r]]
SenderB == [r \in RequestB |-> Sender[r]]
NestedA == [r \in RequestA |-> Nested[r] \cap RequestA]
NestedB == [r \in RequestB |-> Nested[r] \cap RequestB]
ReplacedA == {<<"request", "server">> : c \in Replaced \cap {"a"}}
ReplacedB == {<<"request", "server">> : c \in Replaced \cap {"b"}}

A == INSTANCE Connection WITH
       Request <- RequestA, Info <- {}, Replaced <- ReplacedA, Sender <- SenderA,
       Nested <- NestedA, state <- stateA, wire <- wireA,
       responseHandlers <- responseHandlersA, infoHandler <- infoHandlerA,
       requestHandler <- requestHandlerA, tasks <- tasksA,
       userReference <- userReferenceA, stage <- stageA, put <- putA,
       handled <- handledA, answered <- answeredA

B == INSTANCE Connection WITH
       Request <- RequestB, Info <- {}, Replaced <- ReplacedB, Sender <- SenderB,
       Nested <- NestedB, state <- stateB, wire <- wireB,
       responseHandlers <- responseHandlersB, infoHandler <- infoHandlerB,
       requestHandler <- requestHandlerB, tasks <- tasksB,
       userReference <- userReferenceB, stage <- stageB, put <- putB,
       handled <- handledB, answered <- answeredB


Side == {"client", "server"}

ASSUME CompositionAssumption ==
  /\ MaxToken \in Nat
  /\ Client \in [Request -> {"a", "b"}]
  /\ Replaced \subseteq {"a", "b"}
  /\ Sender \in [Request -> Side]
  /\ Nested \in [Request -> SUBSET Request]
  /\ \A r \in Request : \A q \in Nested[r] :
       Client[q] # Client[r] => Sender[r] = "client" /\ Sender[q] = "server"

Init == A!Init /\ B!Init
-----------------------------------------------------------------------------
\* A plausible bug: run() is called by a thread for each client.
IoThreadFree_ThreadPerClient(tasks) == TRUE

\* The io thread is not waiting for a task of the other connection.
IoThreadFree(tasks) == tasks["server"] = {}

\* A request that a handler of the other connection sends is sent while it runs.
MaySend(q, tasks) ==
  \A r \in Request : q \in Nested[r] /\ Client[q] # Client[r] =>
    \E k \in tasks["server"] : k.pc = "running" /\ k.message.body = r

\* That handler returns when it has the answer it waits for, or when the other client
\* is not among the current connections.
MayReturn(r, stage, state) ==
  \A q \in Nested[r] : Client[q] # Client[r] =>
    \/ stage[q] \in {"answered", "threw"}
    \/ stage[q] = "idle" /\ state["server"] \in {"connecting", "closed"}

IoThreadA ==
  /\ UNCHANGED b
  /\ IoThreadFree(tasksB)
  /\ A!ServerOpen \/ A!IoThread("server") \/ A!Terminate("server")

RunTaskA ==
  /\ UNCHANGED b
  /\ \E k \in tasksA["server"] :
       \/ A!InvokeRequestHandler("server", k)
       \/ A!RequestHandlerReturns("server", k) /\ MayReturn(k.message.body, stageB, stateB)
       \/ A!SendReply("server", k)
       \/ A!RunResponseHandler("server", k)

SendA(r) ==
  /\ UNCHANGED b
  /\ \/ (A!SendRequestPush(r) \/ A!SendRequestThrows(r)) /\ MaySend(r, tasksB)
     \/ A!SendRequestSend(r)

\* The client's two threads, and what users do at either end.
ClientA == UNCHANGED b /\ (A!IoThread("client") \/ A!RunTask("client"))

UserA ==
  /\ UNCHANGED b
  /\ A!Terminate("client") \/ A!SetRequestHandler("server") \/ \E s \in Side : A!Close(s)

NextA == IoThreadA \/ RunTaskA \/ ClientA \/ UserA \/ \E r \in RequestA : SendA(r)
-----------------------------------------------------------------------------
IoThreadB ==
  /\ UNCHANGED a
  /\ IoThreadFree(tasksA)
  /\ B!ServerOpen \/ B!IoThread("server") \/ B!Terminate("server")

RunTaskB ==
  /\ UNCHANGED a
  /\ \E k \in tasksB["server"] :
       \/ B!InvokeRequestHandler("server", k)
       \/ B!RequestHandlerReturns("server", k) /\ MayReturn(k.message.body, stageA, stateA)
       \/ B!SendReply("server", k)
       \/ B!RunResponseHandler("server", k)

SendB(r) ==
  /\ UNCHANGED a
  /\ \/ (B!SendRequestPush(r) \/ B!SendRequestThrows(r)) /\ MaySend(r, tasksA)
     \/ B!SendRequestSend(r)

ClientB == UNCHANGED a /\ (B!IoThread("client") \/ B!RunTask("client"))

UserB ==
  /\ UNCHANGED a
  /\ B!Terminate("client") \/ B!SetRequestHandler("server") \/ \E s \in Side : B!Close(s)

NextB == IoThreadB \/ RunTaskB \/ ClientB \/ UserB \/ \E r \in RequestB : SendB(r)
-----------------------------------------------------------------------------
Next == NextA \/ NextB

(***************************************************************************)
(* The threads go on while they have something to do, and a handler that   *)
(* forwards a request does send it.  The calls are finitely many, so that  *)
(* nothing need be assumed about which thread comes first.                 *)
(***************************************************************************)
Begun(r, stage) ==
  stage[r] = "pushed" \/ \E p \in Request : r \in Nested[p] /\ Client[r] # Client[p]

Progress ==
  \/ UNCHANGED b /\ IoThreadFree(tasksB) /\ A!IoThread("server")
  \/ UNCHANGED a /\ IoThreadFree(tasksA) /\ B!IoThread("server")
  \/ RunTaskA \/ RunTaskB \/ ClientA \/ ClientB
  \/ \E r \in RequestA : Begun(r, stageA) /\ SendA(r)
  \/ \E r \in RequestB : Begun(r, stageB) /\ SendB(r)

Spec == Init /\ [][Next]_vars /\ WF_vars(Progress)
-----------------------------------------------------------------------------
(***************************************************************************)
(* The handlers and callbacks of one server never run at the same time,    *)
(* whichever clients they serve, although each has a thread of its own     *)
(* (Connection.cpp:145,185): users may share state between them without a  *)
(* lock.                                                                   *)
(***************************************************************************)
OneHandlerAtATime == Cardinality(tasksA["server"]) + Cardinality(tasksB["server"]) <= 1

(***************************************************************************)
(* A handler that waits for the answer of the other client waits for ever: *)
(* the io thread that would read that answer is waiting for the handler.   *)
(* So a server cannot forward a request and wait (Connection.cpp:145).     *)
(***************************************************************************)
ForwardedNeverAnswered ==
  \A r \in Request : \A q \in Nested[r] :
    IF Client[q] = "a" THEN stageA[q] # "answered" ELSE stageB[q] # "answered"

\* A handler of the server that has sent what it waits for.
Forwarding ==
  \/ \E k \in tasksA["server"] : /\ k.pc = "running"
                                 /\ \E q \in Nested[k.message.body] \cap RequestB :
                                      stageB[q] \notin {"idle", "threw"}
  \/ \E k \in tasksB["server"] : /\ k.pc = "running"
                                 /\ \E q \in Nested[k.message.body] \cap RequestA :
                                      stageA[q] \notin {"idle", "threw"}

(***************************************************************************)
(* From then on the server is dead for everybody: it reads no message of   *)
(* either client, it notices no closing, and it answers nothing.           *)
(***************************************************************************)
ForwardingStopsServer ==
  [][Forwarding => /\ Forwarding'
                   /\ UNCHANGED <<handledA["server"], handledB["server"],
                                  answeredA["server"], answeredB["server"]>>]_vars

\* The requests that an open connection has sent have been answered, or refused.
Ended(state, put, stage) ==
  (\A s \in Side : state[s] = "open") =>
    \A s \in Side : \A k \in DOMAIN put[s] : stage[put[s][k]] \in {"answered", "refused"}

(***************************************************************************)
(* Otherwise each client's requests, and the server's requests to it, end, *)
(* while that connection is open, whatever the other client sends, whether *)
(* or not it closes, however its handlers end and although they may be     *)
(* unset when a request arrives or is about to be served (Connection.cpp:  *)
(* 141-175).                                                               *)
(***************************************************************************)
BothServed ==
  <>[](~Forwarding => Ended(stateA, putA, stageA) /\ Ended(stateB, putB, stageB))
=============================================================================
