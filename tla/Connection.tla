----------------------------- MODULE Connection -----------------------------
(***************************************************************************)
(* The two Connection objects (Connection.cpp) at the ends of one          *)
(* websocket, the caller's threads that send requests and infos on them,   *)
(* the io thread of each end, which reads frames and calls on_message, and *)
(* the asynchronous tasks on_message starts.                               *)
(*                                                                         *)
(* The future that std::async returns is discarded, and its destructor     *)
(* waits for the task.  So the io thread of an end does nothing while      *)
(* tasks[s] is not empty.  Handlers are the user's code; they may send     *)
(* requests of their own, like any thread, and wait for the answers only   *)
(* as the constant Nested says.                                            *)
(*                                                                         *)
(* A message body is represented by the sendRequest or sendInfo call it    *)
(* comes from, the body of a reply by the request it answers.  WebSocket++ *)
(* is not in the repository: state, wire and the frames "accept" and       *)
(* "close" model what Connection.cpp and Client.cpp rely on.  It delivers  *)
(* in order, drops what is sent or received while the connection is not    *)
(* open, and may lose the link at any time.                                *)
(***************************************************************************)
EXTENDS TokenList

CONSTANTS Request,    \* the calls of sendRequest, each on a thread of its own
          Info,       \* the calls of sendInfo
          Sender,     \* Sender[x]: the end that call x is made on
          Replaced,   \* the handlers that are set and emptied at any time; the
                      \* others are set before there is a connection, and then
                      \* only give way to another handler
          Nested      \* Nested[r]: the requests that the request handler called
                      \* with r sends back, and waits for, before it returns

Side == {"client", "server"}

Other(s) == IF s = "client" THEN "server" ELSE "client"

ASSUME CallsAssumption == /\ Request \cap Info = {}
                          /\ Sender \in [Request \cup Info -> Side]
                          /\ Replaced \subseteq {"info", "request"} \X Side
                          /\ Nested \in [Request -> SUBSET Request]

VARIABLES
  state,              \* pConnection_->get_state()
  wire,               \* wire[s]: the frames on their way to s, oldest first
  responseHandlers,   \* responseHandlers_: the handler of request r is r
  infoHandler,        \* infoHandler_ is not empty
  requestHandler,     \* requestHandler_ is not empty
  tasks,              \* tasks[s]: the std::async calls of s that are not finished
  userReference,      \* the local variable of sendRequest
  stage,              \* where each call has got to
  put,                \* history: the calls whose message went on the wire, in order
  handled,            \* history: the messages an info or request handler was called with
  answered            \* history: the response handlers called, and with which reply

vars == <<state, wire, responseHandlers, infoHandler, requestHandler, tasks,
          userReference, stage, put, handled, answered>>
histories == <<put, handled, answered>>

State == {"connecting", "open", "closing", "closed"}

ReplyType == {"RESPONSE", "REQUESTERROR"}

RequestMessage == [type : {"REQUEST"}, userReference : Token, body : Request]
ReplyMessage   == [type : ReplyType, userReference : Token, body : Request]
InfoMessage    == [type : {"INFO"}, userReference : {0}, body : Info]
ControlFrame   == [type : {"accept", "close"}]

Frame == RequestMessage \cup ReplyMessage \cup InfoMessage \cup ControlFrame

(***************************************************************************)
(* A task either serves a request (it invokes the request handler, which   *)
(* runs for a while, then sends the reply) or calls back a response        *)
(* handler.                                                                *)
(***************************************************************************)
Task ==      [pc : {"invoke", "running"}, message : RequestMessage]
        \cup [pc : {"reply"}, message : ReplyMessage]
        \cup [pc : {"callback"}, handler : Request, body : Request]

(***************************************************************************)
(* A request is "pushed" when sendRequest has its reference, "sent" when   *)
(* its frame is on the wire, "handling" while the other end serves it,     *)
(* "replying" when the reply is on the wire, "responding" while its        *)
(* response handler runs.  It ends "answered", "refused" (the reply was an *)
(* error), "threw" (no reference was free) or "lost" (a message was        *)
(* dropped); an info ends "handled", "ignored" or "lost".  The code only   *)
(* knows whether a call is idle, pushed or neither; the rest is history.   *)
(***************************************************************************)
Stage == {"idle", "pushed", "sent", "handling", "replying", "responding",
          "answered", "refused", "threw", "lost", "handled", "ignored"}

TypeOK ==
  /\ state \in [Side -> State]
  /\ wire \in [Side -> Seq(Frame)]
  /\ responseHandlers \in [Side -> Seq(Entry(Request))]
  /\ infoHandler \in [Side -> BOOLEAN]
  /\ requestHandler \in [Side -> BOOLEAN]
  /\ tasks \in [Side -> SUBSET Task]
  /\ userReference \in [Request -> Token]
  /\ stage \in [Request \cup Info -> Stage]
  /\ put \in [Side -> Seq(Request \cup Info)]
  /\ handled \in [Side -> Seq(Request \cup Info)]
  /\ answered \in [Side -> Seq([handler : Request, body : Request])]

Init ==
  /\ state = [s \in Side |-> "connecting"]
  /\ wire = [s \in Side |-> <<>>]
  /\ responseHandlers = [s \in Side |-> <<>>]
  /\ infoHandler \in [Side -> BOOLEAN]
  /\ requestHandler \in [Side -> BOOLEAN]
  /\ \A s \in Side : /\ <<"info", s>> \in Replaced \/ infoHandler[s]
                     /\ <<"request", s>> \in Replaced \/ requestHandler[s]
  /\ tasks = [s \in Side |-> {}]
  /\ userReference = [r \in Request |-> 0]
  /\ stage = [x \in Request \cup Info |-> "idle"]
  /\ put = [s \in Side |-> <<>>]
  /\ handled = [s \in Side |-> <<>>]
  /\ answered = [s \in Side |-> <<>>]
-----------------------------------------------------------------------------
(***************************************************************************)
(* WebSocket++.  send() puts a frame in the queue of an open connection    *)
(* and otherwise returns an error code, which every caller ignores.        *)
(***************************************************************************)
Send(s, frame) ==
  wire' = IF state[s] = "open" THEN [wire EXCEPT ![Other(s)] = Append(@, frame)]
                               ELSE wire

\* send() by an io thread that has just taken frame wire[s][1].
SendBack(s, frame) ==
  wire' = [wire EXCEPT ![s] = Tail(@), ![Other(s)] = Append(@, frame)]

SentOr(s, x, on, off) ==
  stage' = [stage EXCEPT ![x] = IF state[s] = "open" THEN on ELSE off]

Received(s) == Head(wire[s])

\* A plausible bug: the futures are kept in a container, to be waited for later,
\* so that the io thread does not wait for the tasks.
Arrived_FutureKept(s, type) ==
  /\ wire[s] # <<>>
  /\ Received(s).type = type

Arrived(s, type) ==
  /\ tasks[s] = {}
  /\ wire[s] # <<>>
  /\ Received(s).type = type

\* websocketpp hands a data frame to on_message only while it is open.
OnMessage(s, type) == state[s] = "open" /\ Arrived(s, type)

Read(s) == wire' = [wire EXCEPT ![s] = Tail(@)]

\* The server accepts the handshake, and Server::on_open makes its Connection.
ServerOpen ==
  /\ state["server"] = "connecting" /\ state["client"] = "connecting"
  /\ state' = [state EXCEPT !["server"] = "open"]
  /\ wire' = [wire EXCEPT !["client"] = Append(@, [type |-> "accept"])]
  /\ UNCHANGED <<responseHandlers, infoHandler, requestHandler, tasks,
                 userReference, stage, histories>>

ClientOpen ==
  /\ state["client"] = "connecting"
  /\ Arrived("client", "accept")
  /\ state' = [state EXCEPT !["client"] = "open"]
  /\ Read("client")
  /\ UNCHANGED <<responseHandlers, infoHandler, requestHandler, tasks,
                 userReference, stage, histories>>

\* The peer's close frame: acknowledged if it was the first, else the end.
ReceiveClose(s) ==
  /\ state[s] \in {"open", "closing"}
  /\ Arrived(s, "close")
  /\ \/ /\ state[s] = "open"
        /\ state' = [state EXCEPT ![s] = "closing"]
        /\ SendBack(s, [type |-> "close"])
     \/ /\ state[s] = "closing"
        /\ state' = [state EXCEPT ![s] = "closed"]
        /\ Read(s)
  /\ UNCHANGED <<responseHandlers, infoHandler, requestHandler, tasks,
                 userReference, stage, histories>>

\* A data frame that arrives after close() was called, or after the end.
Discard(s) ==
  /\ state[s] \in {"closing", "closed"}
  /\ tasks[s] = {} /\ wire[s] # <<>>
  /\ state[s] = "closing" => Received(s).type # "close"
  /\ Read(s)
  /\ stage' = IF "body" \in DOMAIN Received(s)
              THEN [stage EXCEPT ![Received(s).body] = "lost"] ELSE stage
  /\ UNCHANGED <<state, responseHandlers, infoHandler, requestHandler, tasks,
                 userReference, histories>>

(***************************************************************************)
(* The link fails, the handshake or the closing handshake times out, or    *)
(* the closing handshake is complete.  Until the server has opened there   *)
(* is no Connection object at that end to be told.                         *)
(***************************************************************************)
Terminate(s) ==
  /\ state[s] \in {"open", "closing"} \/ (s = "client" /\ state[s] = "connecting")
  /\ tasks[s] = {}
  /\ state' = [state EXCEPT ![s] = "closed"]
  /\ UNCHANGED <<wire, responseHandlers, infoHandler, requestHandler, tasks,
                 userReference, stage, histories>>
-----------------------------------------------------------------------------
(***************************************************************************)
(* The threads of the user.                                                *)
(***************************************************************************)
\* The server's Connection object is made when the connection opens.
Exists(s) == s = "client" \/ state[s] # "connecting"

\* close() waits in isConnected() while connecting, and does nothing when
\* the connection is closing or closed.
Close(s) ==
  /\ state[s] = "open"
  /\ state' = [state EXCEPT ![s] = "closing"]
  /\ Send(s, [type |-> "close"])
  /\ UNCHANGED <<responseHandlers, infoHandler, requestHandler, tasks,
                 userReference, stage, histories>>

SetInfoHandler(s) ==
  /\ Exists(s)
  /\ \E set \in BOOLEAN :
       /\ set \/ <<"info", s>> \in Replaced
       /\ infoHandler' = [infoHandler EXCEPT ![s] = set]
  /\ UNCHANGED <<state, wire, responseHandlers, requestHandler, tasks,
                 userReference, stage, histories>>

SetRequestHandler(s) ==
  /\ Exists(s)
  /\ \E set \in BOOLEAN :
       /\ set \/ <<"request", s>> \in Replaced
       /\ requestHandler' = [requestHandler EXCEPT ![s] = set]
  /\ UNCHANGED <<state, wire, responseHandlers, infoHandler, tasks,
                 userReference, stage, histories>>

\* A request that a request handler sends is sent while that handler runs.
Callable(q) ==
  /\ Exists(Sender[q]) /\ stage[q] = "idle"
  /\ \A r \in Request : q \in Nested[r] =>
       \E k \in tasks[Sender[q]] : k.pc = "running" /\ k.message.body = r

\* The first half of sendRequest: responseHandlers_.push( responseHandler ).
SendRequestPush(r) ==
  LET s == Sender[r]
      c == responseHandlers[s]
  IN  /\ Callable(r)
      /\ \E t \in Token, p \in 1 .. Len(c) + 1 :
           /\ FreeToken(c, t, p)
           /\ responseHandlers' = [responseHandlers EXCEPT ![s] = Emplace(c, p, t, r)]
           /\ userReference' = [userReference EXCEPT ![r] = t]
      /\ stage' = [stage EXCEPT ![r] = "pushed"]
      /\ UNCHANGED <<state, wire, infoHandler, requestHandler, tasks, histories>>

SendRequestThrows(r) ==
  /\ Callable(r)
  /\ Full(responseHandlers[Sender[r]])
  /\ stage' = [stage EXCEPT ![r] = "threw"]
  /\ UNCHANGED <<state, wire, responseHandlers, infoHandler, requestHandler, tasks,
                 userReference, histories>>

\* put is the order of the messages that send() accepted.
Put(s, x) ==
  put' = IF state[s] = "open" THEN [put EXCEPT ![s] = Append(@, x)] ELSE put

\* The second half of sendRequest, another thread's steps in between.
SendRequestSend(r) ==
  LET s == Sender[r]
  IN  /\ stage[r] = "pushed"
      /\ Send(s, [type |-> "REQUEST", userReference |-> userReference[r], body |-> r])
      /\ SentOr(s, r, "sent", "lost")
      /\ Put(s, r)
      /\ UNCHANGED <<state, responseHandlers, infoHandler, requestHandler, tasks,
                     userReference, handled, answered>>

SendInfo(i) ==
  LET s == Sender[i]
  IN  /\ Exists(s) /\ stage[i] = "idle"
      /\ Send(s, [type |-> "INFO", userReference |-> 0, body |-> i])
      /\ SentOr(s, i, "sent", "lost")
      /\ Put(s, i)
      /\ UNCHANGED <<state, responseHandlers, infoHandler, requestHandler, tasks,
                     userReference, handled, answered>>
-----------------------------------------------------------------------------
(***************************************************************************)
(* on_message, on the io thread of s: one action per type of message.      *)
(***************************************************************************)
OnInfo(s) ==
  /\ OnMessage(s, "INFO")
  /\ LET i == Received(s).body
     IN  /\ handled' = IF infoHandler[s] THEN [handled EXCEPT ![s] = Append(@, i)]
                                         ELSE handled
         /\ stage' = [stage EXCEPT ![i] = IF infoHandler[s] THEN "handled" ELSE "ignored"]
  /\ Read(s)
  /\ UNCHANGED <<state, responseHandlers, infoHandler, requestHandler, tasks,
                 userReference, put, answered>>

\* A plausible bug: the reply is built like an info, without the reference.
Reply_NoReference(type, m) == [type |-> type, userReference |-> 0, body |-> m.body]

\* A plausible bug: the reply carries the type of an info.
Reply_AsInfo(type, m) == [type |-> "INFO", userReference |-> m.userReference,
                          body |-> m.body]

Reply(type, m) == [type |-> type, userReference |-> m.userReference, body |-> m.body]

\* With a request handler, the request is served by a task.
OnRequest(s) ==
  /\ OnMessage(s, "REQUEST") /\ requestHandler[s]
  /\ Read(s)
  /\ tasks' = [tasks EXCEPT ![s] = @ \cup {[pc |-> "invoke", message |-> Received(s)]}]
  /\ stage' = [stage EXCEPT ![Received(s).body] = "handling"]
  /\ UNCHANGED <<state, responseHandlers, infoHandler, requestHandler,
                 userReference, histories>>

\* A plausible bug: the request is only ignored, as the log says.
OnRequestNoHandler_NoReply(s) ==
  /\ OnMessage(s, "REQUEST") /\ ~requestHandler[s]
  /\ Read(s)
  /\ stage' = [stage EXCEPT ![Received(s).body] = "lost"]
  /\ UNCHANGED <<state, responseHandlers, infoHandler, requestHandler, tasks,
                 userReference, histories>>

\* Without one, the io thread itself sends back an error.
OnRequestNoHandler(s) ==
  /\ OnMessage(s, "REQUEST") /\ ~requestHandler[s]
  /\ SendBack(s, Reply("REQUESTERROR", Received(s)))
  /\ stage' = [stage EXCEPT ![Received(s).body] = "replying"]
  /\ UNCHANGED <<state, responseHandlers, infoHandler, requestHandler, tasks,
                 userReference, histories>>

\* A plausible bug: the handler is looked up with at(), which leaves it stored.
OnResponse_KeepsHandler(s) ==
  /\ OnMessage(s, "RESPONSE")
  /\ LET m == Received(s)
         c == responseHandlers[s]
     IN  \E p \in DOMAIN c :
           /\ Find(c, m.userReference, p)
           /\ tasks' = [tasks EXCEPT ![s] = @ \cup
                {[pc |-> "callback", handler |-> c[p].second, body |-> m.body]}]
           /\ stage' = [stage EXCEPT ![m.body] = "responding"]
  /\ Read(s)
  /\ UNCHANGED <<state, responseHandlers, infoHandler, requestHandler,
                 userReference, histories>>

(***************************************************************************)
(* The handler registered under the reference is taken out and started, or *)
(* the message is ignored "because no handler found".                      *)
(***************************************************************************)
OnResponse(s) ==
  /\ OnMessage(s, "RESPONSE")
  /\ LET m == Received(s)
         c == responseHandlers[s]
     IN  \E p \in 1 .. Len(c) + 1 :
           /\ Find(c, m.userReference, p)
           /\ IF p \in DOMAIN c
              THEN /\ responseHandlers' = [responseHandlers EXCEPT ![s] = Erase(c, p)]
                   /\ tasks' = [tasks EXCEPT ![s] = @ \cup
                        {[pc |-> "callback", handler |-> c[p].second, body |-> m.body]}]
                   /\ stage' = [stage EXCEPT ![m.body] = "responding"]
              ELSE /\ stage' = [stage EXCEPT ![m.body] = "lost"]
                   /\ UNCHANGED <<responseHandlers, tasks>>
  /\ Read(s)
  /\ UNCHANGED <<state, infoHandler, requestHandler, userReference, histories>>

\* on_message has no branch for this type.
OnRequestError(s) ==
  /\ OnMessage(s, "REQUESTERROR")
  /\ Read(s)
  /\ stage' = [stage EXCEPT ![Received(s).body] = "refused"]
  /\ UNCHANGED <<state, responseHandlers, infoHandler, requestHandler, tasks,
                 userReference, histories>>
-----------------------------------------------------------------------------
(***************************************************************************)
(* The tasks.  The io thread saw a request handler, but it may have been   *)
(* removed since; calling an empty std::function throws.                   *)
(***************************************************************************)
InvokeRequestHandler(s, k) ==
  /\ k \in tasks[s] /\ k.pc = "invoke"
  /\ tasks' = [tasks EXCEPT ![s] = (@ \ {k}) \cup
       {IF requestHandler[s]
        THEN [pc |-> "running", message |-> k.message]
        ELSE [pc |-> "reply", message |-> Reply("REQUESTERROR", k.message)]}]
  /\ handled' = IF requestHandler[s]
                THEN [handled EXCEPT ![s] = Append(@, k.message.body)] ELSE handled
  /\ UNCHANGED <<state, wire, responseHandlers, infoHandler, requestHandler,
                 userReference, stage, put, answered>>

\* A plausible bug: the exception of a handler is caught, and no reply sent.
RequestHandlerReturns_ThrowUnanswered(s, k) ==
  /\ k \in tasks[s] /\ k.pc = "running"
  /\ \A q \in Nested[k.message.body] : stage[q] \in {"answered", "threw"}
  /\ \/ /\ tasks' = [tasks EXCEPT ![s] = (@ \ {k}) \cup
               {[pc |-> "reply", message |-> Reply("RESPONSE", k.message)]}]
        /\ UNCHANGED stage
     \/ /\ tasks' = [tasks EXCEPT ![s] = @ \ {k}]
        /\ stage' = [stage EXCEPT ![k.message.body] = "lost"]
  /\ UNCHANGED <<state, wire, responseHandlers, infoHandler, requestHandler,
                 userReference, histories>>

\* The user's handler returns a reply, or throws.
RequestHandlerReturns(s, k) ==
  /\ k \in tasks[s] /\ k.pc = "running"
  /\ \A q \in Nested[k.message.body] : stage[q] \in {"answered", "threw"}
  /\ \E type \in ReplyType :
       tasks' = [tasks EXCEPT ![s] =
                   (@ \ {k}) \cup {[pc |-> "reply", message |-> Reply(type, k.message)]}]
  /\ UNCHANGED <<state, wire, responseHandlers, infoHandler, requestHandler,
                 userReference, stage, histories>>

SendReply(s, k) ==
  /\ k \in tasks[s] /\ k.pc = "reply"
  /\ Send(s, k.message)
  /\ SentOr(s, k.message.body, "replying", "lost")
  /\ tasks' = [tasks EXCEPT ![s] = @ \ {k}]
  /\ UNCHANGED <<state, responseHandlers, infoHandler, requestHandler,
                 userReference, histories>>

RunResponseHandler(s, k) ==
  /\ k \in tasks[s] /\ k.pc = "callback"
  /\ answered' = [answered EXCEPT ![s] =
                    Append(@, [handler |-> k.handler, body |-> k.body])]
  /\ stage' = [stage EXCEPT ![k.body] = "answered"]
  /\ tasks' = [tasks EXCEPT ![s] = @ \ {k}]
  /\ UNCHANGED <<state, wire, responseHandlers, infoHandler, requestHandler,
                 userReference, put, handled>>
-----------------------------------------------------------------------------
IoThread(s) ==
  \/ s = "client" /\ ClientOpen
  \/ OnInfo(s) \/ OnRequest(s) \/ OnRequestNoHandler(s)
  \/ OnResponse(s) \/ OnRequestError(s)
  \/ ReceiveClose(s) \/ Discard(s)

RunTask(s) ==
  \E k \in tasks[s] :
    \/ InvokeRequestHandler(s, k) \/ RequestHandlerReturns(s, k)
    \/ SendReply(s, k) \/ RunResponseHandler(s, k)

User(s) == Close(s) \/ SetInfoHandler(s) \/ SetRequestHandler(s)

Next ==
  \/ ServerOpen
  \/ \E s \in Side : IoThread(s) \/ RunTask(s) \/ User(s) \/ Terminate(s)
  \/ \E r \in Request : SendRequestPush(r) \/ SendRequestThrows(r) \/ SendRequestSend(r)
  \/ \E i \in Info : SendInfo(i)

SentBack(q) == \E r \in Request : q \in Nested[r]

(***************************************************************************)
(* The io threads run until their connection is closed, the tasks have a   *)
(* thread each, sendRequest returns once it is called, the user's handlers *)
(* return, and those that send a request back do send it.  Nobody else has *)
(* to call anything, to open or to close.  The calls are finitely many, so *)
(* that nothing need be assumed about which thread comes first.            *)
(***************************************************************************)
Progress ==
  \/ \E s \in Side : IoThread(s) \/ RunTask(s)
  \/ \E r \in Request : SendRequestSend(r)
  \/ \E q \in Request : SentBack(q) /\ (SendRequestPush(q) \/ SendRequestThrows(q))

Spec == Init /\ [][Next]_vars /\ WF_vars(Progress)
-----------------------------------------------------------------------------
(***************************************************************************)
(* A response finds, under the reference it carries, the handler of the    *)
(* very request it answers: the branch "This should never happen for well  *)
(* behaved clients/servers" (Connection.cpp:187-192) is never taken.       *)
(***************************************************************************)
ResponsesMatched ==
  \A s \in Side : \A k \in DOMAIN wire[s] :
    LET m == wire[s][k]
    IN  m.type = "RESPONSE" => Holds(responseHandlers[s], m.userReference, m.body)

(***************************************************************************)
(* A response handler is called with the reply to its own request, at the  *)
(* end that sent it, and never twice, although references are used again   *)
(* as soon as a response arrives (Connection.cpp:38-48 and 176-193).       *)
(***************************************************************************)
RepliesReachTheirRequest ==
  \A s \in Side :
    /\ \A k \in DOMAIN answered[s] :
         /\ answered[s][k].handler = answered[s][k].body
         /\ Sender[answered[s][k].handler] = s
    /\ \A k, l \in DOMAIN answered[s] :
         k # l => answered[s][k].handler # answered[s][l].handler

\* The elements of sub are in seq, in the same order.
InOrderOf(sub, seq) ==
  \A i, j \in DOMAIN sub :
    i < j => \E k, l \in DOMAIN seq : k < l /\ seq[k] = sub[i] /\ seq[l] = sub[j]

(***************************************************************************)
(* Handlers are called in the order in which the messages were sent, one   *)
(* after the other, infos and requests alike.  It is the discarded future  *)
(* of Connection.cpp:145 that makes it so.                                 *)
(***************************************************************************)
HandledInOrder == \A s \in Side : InOrderOf(handled[Other(s)], put[s])

(***************************************************************************)
(* Response handlers are called in the order in which their requests were  *)
(* sent.  Here the discarded futures of both ends matter (Connection.cpp:  *)
(* 145 and 185).                                                           *)
(***************************************************************************)
AnsweredInOrder ==
  \A s \in Side :
    InOrderOf([k \in DOMAIN answered[s] |-> answered[s][k].handler], put[s])

InFlight(r) ==
  \E s \in Side :
    \/ \E k \in DOMAIN wire[s] : wire[s][k].type \in {"REQUEST"} \cup ReplyType
                                /\ wire[s][k].body = r
    \/ \E k \in tasks[s] : k.pc \in {"invoke", "running", "reply"} /\ k.message.body = r

(***************************************************************************)
(* While both ends are open a handler that waits in responseHandlers_ for  *)
(* a request that was sent has something to wait for: the request, the     *)
(* task that serves it or its reply is somewhere, unless the reply was an  *)
(* error.  Every path through on_message answers (Connection.cpp:141-175). *)
(***************************************************************************)
NoHandlerForgotten ==
  (\A s \in Side : state[s] = "open") =>
     \A s \in Side : \A k \in DOMAIN responseHandlers[s] :
       LET r == responseHandlers[s][k].second
       IN  r \in ToSet(put[s]) => InFlight(r) \/ stage[r] = "refused"

\* A handler has sent a request back, and waits (see NestedNeverAnswered).
HandlerWaits ==
  \E r \in Request : \E q \in Nested[r] : stage[q] \notin {"idle", "threw"}

(***************************************************************************)
(* A request that was put on the wire is answered, or refused with an      *)
(* error, as long as neither end closes and the link holds, whatever else  *)
(* both ends are sending, whichever handlers are set and whether or not    *)
(* they throw (Connection.cpp:130-194).  The calls are finitely many, and  *)
(* so it is enough that in the end all requests have ended.                *)
(***************************************************************************)
EveryRequestEnds ==
  <>[]((\A s \in Side : state[s] = "open") /\ ~HandlerWaits =>
         \A s \in Side : \A r \in ToSet(put[s]) \cap Request :
           stage[r] \in {"answered", "refused"})

(***************************************************************************)
(* A request handler that sends a request back to the end it serves, and   *)
(* waits for the answer, waits for ever: its own end's io thread would     *)
(* have to read that answer, and is waiting for the handler (Connection.   *)
(* cpp:145, the discarded future).  Handlers must not do this.             *)
(***************************************************************************)
NestedNeverAnswered ==
  \A r \in Request : \A q \in Nested[r] : stage[q] # "answered"

(***************************************************************************)
(* README.md:6 of the library: "The reply is passed to a callback function *)
(* supplied when the message is sent."  It does not hold of the reply that *)
(* reports an error (Connection.cpp:155,161,172): on_message drops it.     *)
(***************************************************************************)
ReplyIsPassedToCallback ==
  \A r \in Request :
    stage[r] \in {"answered", "refused"} =>
      \E k \in DOMAIN answered[Sender[r]] : answered[Sender[r]][k].handler = r
=============================================================================
