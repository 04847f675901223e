------------------------------- MODULE Server -------------------------------
(***************************************************************************)
(* communique::Server (Server.cpp): the list of open connections, the io   *)
(* thread that WebSocket++ runs on, and the calls of listen and stop.      *)
(*                                                                         *)
(* One call of listen or stop is under way at a time, made by a user's     *)
(* thread or by a request handler.  As in module Connection, the io thread *)
(* waits for the handler it started, so it does nothing while tasks is not *)
(* empty; a request needs no more than that here.                          *)
(*                                                                         *)
(* WebSocket++ and asio are not in the repository.  raw[c] is the state of *)
(* their connection c, from its arrival in the acceptor's queue on; every  *)
(* change of it is made by the io thread, except that stop() closes.       *)
(* Handshakes end, because WebSocket++ gives up on them after a while.     *)
(***************************************************************************)
EXTENDS Naturals

CONSTANTS Conn,       \* the connections that clients make
          Replaced    \* the default handlers that are set and emptied at any
                      \* time; the others are set before listen()

ASSUME ConnAssumption == /\ "thread" \notin Conn
                         /\ Replaced \subseteq {"info", "request"}

VARIABLES
  listening,            \* server_.is_listening()
  exhausted,            \* run() has returned once, so that asio's service is stopped
  ioThread,             \* ioThread_: not joinable, in run(), or joinable after run()
  io,                   \* what the io thread is at: run(), or a handler it called
  raw,                  \* raw[c]: the WebSocket++ connection
  tasks,                \* the connections that a request handler runs for
  currentConnections,   \* currentConnections_: the handlers of each Connection in it
  mutex,                \* currentConnectionsMutex_, as stop() holds it
  defaultHandlers,      \* defaultInfoHandler_ and defaultRequestHandler_ are not empty
  pc,                   \* where listen() or stop() is
  caller,               \* who called it: a thread, or the handler of a connection
  relisten,             \* stop() was called by listen()
  unclosed              \* the rest of the range that the loop of stop() runs over

service == <<listening, exhausted, ioThread>>
call == <<pc, caller, relisten>>
vars == <<service, io, raw, tasks, currentConnections, mutex, defaultHandlers,
          call, unclosed>>

\* "terminated" is closed for get_state(), but the close handler is still to come.
RawState == {"none", "arrived", "connecting", "open", "closing", "terminated",
             "closed"}

Handlers == [info : BOOLEAN, request : BOOLEAN]

Listed == DOMAIN currentConnections

TypeOK ==
  /\ listening \in BOOLEAN
  /\ exhausted \in BOOLEAN
  /\ ioThread \in {"none", "running", "finished"}
  /\ io \in [at : {"run"}] \cup [at : {"on_open", "on_close"}, hdl : Conn]
  /\ raw \in [Conn -> RawState]
  /\ tasks \subseteq Conn
  /\ Listed \subseteq Conn
  /\ currentConnections \in [Listed -> Handlers]
  /\ mutex \in {"free", "stop"}
  /\ defaultHandlers \in Handlers
  /\ pc \in {"idle", "stop", "lock", "loop", "join", "listen", "start_accept",
             "start_thread"}
  /\ caller \in Conn \cup {"thread"}
  /\ relisten \in BOOLEAN
  /\ unclosed \subseteq Conn

Init ==
  /\ listening = FALSE
  /\ exhausted = FALSE
  /\ ioThread = "none"
  /\ io = [at |-> "run"]
  /\ raw = [c \in Conn |-> "none"]
  /\ tasks = {}
  /\ currentConnections = [c \in {} |-> [info |-> TRUE, request |-> TRUE]]
  /\ mutex = "free"
  /\ defaultHandlers \in Handlers
  /\ \A h \in {"info", "request"} : h \in Replaced \/ defaultHandlers[h]
  /\ pc = "idle"
  /\ caller = "thread"
  /\ relisten = FALSE
  /\ unclosed = {}
-----------------------------------------------------------------------------
(***************************************************************************)
(* listen() and stop().                                                    *)
(***************************************************************************)
Joinable == ioThread # "none"

Goto(label) ==
  /\ pc' = label
  /\ UNCHANGED <<caller, relisten>>

Return ==
  /\ pc' = "idle"
  /\ caller' = "thread"
  /\ relisten' = FALSE

ListenCall(who) ==
  /\ pc = "idle"
  /\ who \in tasks \cup {"thread"}
  /\ caller' = who
  /\ relisten' = Joinable
  /\ pc' = IF Joinable THEN "stop" ELSE "listen"
  /\ UNCHANGED <<service, io, raw, tasks, currentConnections, mutex,
                 defaultHandlers, unclosed>>

StopCall(who) ==
  /\ pc = "idle"
  /\ who \in tasks \cup {"thread"}
  /\ caller' = who
  /\ relisten' = FALSE
  /\ pc' = "stop"
  /\ UNCHANGED <<service, io, raw, tasks, currentConnections, mutex,
                 defaultHandlers, unclosed>>

\* A plausible bug: the acceptor is left open.
StopListening_Skipped ==
  /\ pc = "stop"
  /\ Goto("lock")
  /\ UNCHANGED <<service, io, raw, tasks, currentConnections, mutex,
                 defaultHandlers, unclosed>>

\* Closing the acceptor drops the connections it had not accepted.
StopListening ==
  /\ pc = "stop"
  /\ Goto("lock")
  /\ listening' = FALSE
  /\ raw' = [c \in Conn |-> IF raw[c] = "arrived" THEN "none" ELSE raw[c]]
  /\ UNCHANGED <<exhausted, ioThread, io, tasks, currentConnections, mutex,
                 defaultHandlers, unclosed>>

LockConnections ==
  /\ pc = "lock"
  /\ mutex = "free"
  /\ mutex' = "stop"
  /\ unclosed' = Listed
  /\ Goto("loop")
  /\ UNCHANGED <<service, io, raw, tasks, currentConnections, defaultHandlers>>

\* Connection::close(): isConnected() waits while c is connecting.
CloseNext(c) ==
  /\ pc = "loop"
  /\ c \in unclosed
  /\ raw[c] # "connecting"
  /\ raw' = [raw EXCEPT ![c] = IF @ = "open" THEN "closing" ELSE @]
  /\ unclosed' = unclosed \ {c}
  /\ UNCHANGED <<service, io, tasks, currentConnections, mutex, defaultHandlers,
                 call>>

UnlockConnections ==
  /\ pc = "loop"
  /\ unclosed = {}
  /\ mutex' = "free"
  /\ Goto("join")
  /\ UNCHANGED <<service, io, raw, tasks, currentConnections, defaultHandlers,
                 unclosed>>

Join ==
  /\ pc = "join"
  /\ ioThread # "running"
  /\ ioThread' = "none"
  /\ IF relisten THEN Goto("listen") ELSE Return
  /\ UNCHANGED <<listening, exhausted, io, raw, tasks, currentConnections, mutex,
                 defaultHandlers, unclosed>>

Listen ==
  /\ pc = "listen"
  /\ ~listening
  /\ listening' = TRUE
  /\ Goto("start_accept")
  /\ UNCHANGED <<exhausted, ioThread, io, raw, tasks, currentConnections, mutex,
                 defaultHandlers, unclosed>>

\* The port is taken, or the acceptor is open already.
ListenThrows ==
  /\ pc = "listen"
  /\ Return
  /\ UNCHANGED <<service, io, raw, tasks, currentConnections, mutex,
                 defaultHandlers, unclosed>>

StartAccept ==
  /\ pc = "start_accept"
  /\ Goto("start_thread")
  /\ UNCHANGED <<service, io, raw, tasks, currentConnections, mutex,
                 defaultHandlers, unclosed>>

\* No connection can be made, for want of a certificate say.
StartAcceptThrows ==
  /\ pc = "start_accept"
  /\ Return
  /\ UNCHANGED <<service, io, raw, tasks, currentConnections, mutex,
                 defaultHandlers, unclosed>>

StartThread ==
  /\ pc = "start_thread"
  /\ ioThread' = "running"
  /\ Return
  /\ UNCHANGED <<listening, exhausted, io, raw, tasks, currentConnections, mutex,
                 defaultHandlers, unclosed>>

SetDefaultHandler(h) ==
  /\ h \in Replaced
  /\ defaultHandlers' = [defaultHandlers EXCEPT ![h] = ~@]
  /\ UNCHANGED <<service, io, raw, tasks, currentConnections, mutex, call, unclosed>>
-----------------------------------------------------------------------------
(***************************************************************************)
(* The io thread.                                                          *)
(***************************************************************************)

\* A plausible bug: the future of the task is kept, so that run() goes on
\* while a request handler runs.
Dispatching_FutureKept ==
  /\ ioThread = "running"
  /\ ~exhausted
  /\ io.at = "run"

\* The service has the thread, and the thread is free to call a handler.
Dispatching ==
  /\ ioThread = "running"
  /\ ~exhausted
  /\ io.at = "run"
  /\ tasks = {}

RawStep(c, from, to) ==
  /\ Dispatching
  /\ raw[c] = from
  /\ raw' = [raw EXCEPT ![c] = to]
  /\ UNCHANGED <<service, io, tasks, currentConnections, mutex, defaultHandlers,
                 call, unclosed>>

\* A client connects to the port: nothing but the operating system is involved.
Arrive(c) ==
  /\ listening
  /\ raw[c] = "none"
  /\ raw' = [raw EXCEPT ![c] = "arrived"]
  /\ UNCHANGED <<service, io, tasks, currentConnections, mutex, defaultHandlers,
                 call, unclosed>>

Accept(c) ==
  /\ listening
  /\ RawStep(c, "arrived", "connecting")

\* The fail handler is not set.
HandshakeFails(c) == RawStep(c, "connecting", "closed")

\* The connection is open before the open handler is called.
HandshakeDone(c) ==
  /\ Dispatching
  /\ raw[c] = "connecting"
  /\ raw' = [raw EXCEPT ![c] = "open"]
  /\ io' = [at |-> "on_open", hdl |-> c]
  /\ UNCHANGED <<service, tasks, currentConnections, mutex, defaultHandlers, call,
                 unclosed>>

OnOpen ==
  /\ io.at = "on_open"
  /\ mutex = "free"
  /\ currentConnections' = [c \in Listed \cup {io.hdl} |->
       IF c = io.hdl THEN defaultHandlers ELSE currentConnections[c]]
  /\ io' = [at |-> "run"]
  /\ UNCHANGED <<service, raw, tasks, mutex, defaultHandlers, call, unclosed>>

\* on_message, for a request; without a handler it only sends a reply.
ReceiveRequest(c) ==
  /\ Dispatching
  /\ raw[c] = "open"
  /\ c \in Listed
  /\ currentConnections[c].request
  /\ tasks' = tasks \cup {c}
  /\ UNCHANGED <<service, io, raw, currentConnections, mutex, defaultHandlers, call,
                 unclosed>>

\* A handler that called stop() returns when that has returned.
TaskReturns(c) ==
  /\ c \in tasks
  /\ caller # c
  /\ tasks' = tasks \ {c}
  /\ UNCHANGED <<service, io, raw, currentConnections, mutex, defaultHandlers, call,
                 unclosed>>

\* The client closes.
ReceiveClose(c) == RawStep(c, "open", "closing")

\* The closing handshake ends or times out.
CloseDone(c) == RawStep(c, "closing", "terminated")

LinkLost(c) == RawStep(c, "open", "terminated")

CallOnClose(c) ==
  /\ Dispatching
  /\ raw[c] = "terminated"
  /\ raw' = [raw EXCEPT ![c] = "closed"]
  /\ io' = [at |-> "on_close", hdl |-> c]
  /\ UNCHANGED <<service, tasks, currentConnections, mutex, defaultHandlers, call,
                 unclosed>>

\* A plausible bug: the pointer is emptied and the entry stays.
OnClose_Reset ==
  /\ io.at = "on_close"
  /\ mutex = "free"
  /\ currentConnections' = [c \in Listed |->
       IF c = io.hdl THEN [h \in {} |-> FALSE] ELSE currentConnections[c]]
  /\ io' = [at |-> "run"]
  /\ UNCHANGED <<service, raw, tasks, mutex, defaultHandlers, call, unclosed>>

\* A plausible bug: the list is changed without the mutex.
OnClose_NoLock ==
  /\ io.at = "on_close"
  /\ currentConnections' = [c \in Listed \ {io.hdl} |-> currentConnections[c]]
  /\ io' = [at |-> "run"]
  /\ UNCHANGED <<service, raw, tasks, mutex, defaultHandlers, call, unclosed>>

\* A plausible bug: the connection is not found, as if the handles were compared.
OnClose_NotFound ==
  /\ io.at = "on_close"
  /\ mutex = "free"
  /\ io' = [at |-> "run"]
  /\ UNCHANGED <<service, raw, tasks, currentConnections, mutex, defaultHandlers,
                 call, unclosed>>

OnClose ==
  /\ io.at = "on_close"
  /\ mutex = "free"
  /\ currentConnections' = [c \in Listed \ {io.hdl} |-> currentConnections[c]]
  /\ io' = [at |-> "run"]
  /\ UNCHANGED <<service, raw, tasks, mutex, defaultHandlers, call, unclosed>>

\* run() returns when nothing is left to wait for, and at once if it has
\* returned before: nobody resets the service.
RunReturns ==
  /\ ioThread = "running"
  /\ \/ exhausted
     \/ /\ Dispatching
        /\ ~listening
        /\ \A c \in Conn : raw[c] \in {"none", "arrived", "closed"}
  /\ ioThread' = "finished"
  /\ exhausted' = TRUE
  /\ UNCHANGED <<listening, io, raw, tasks, currentConnections, mutex,
                 defaultHandlers, call, unclosed>>
-----------------------------------------------------------------------------
CallStep ==
  \/ StopListening \/ LockConnections \/ UnlockConnections \/ Join
  \/ Listen \/ ListenThrows \/ StartAccept \/ StartAcceptThrows \/ StartThread
  \/ \E c \in Conn : CloseNext(c)

Handshake(c) == HandshakeDone(c) \/ HandshakeFails(c)

Next ==
  \/ CallStep
  \/ \E who \in Conn \cup {"thread"} : ListenCall(who) \/ StopCall(who)
  \/ \E h \in {"info", "request"} : SetDefaultHandler(h)
  \/ OnOpen \/ OnClose \/ RunReturns
  \/ \E c \in Conn : \/ Arrive(c) \/ Accept(c) \/ Handshake(c)
                     \/ ReceiveRequest(c) \/ TaskReturns(c)
                     \/ ReceiveClose(c) \/ CloseDone(c) \/ LinkLost(c)
                     \/ CallOnClose(c)

(***************************************************************************)
(* The caller of listen and stop, the io thread and the handlers run       *)
(* whenever they can.  asio serves what is ready in turn, so that an event *)
(* that is ready again and again is served.  No client has to do anything. *)
(***************************************************************************)
Fairness ==
  /\ WF_vars(CallStep)
  /\ WF_vars(OnOpen)
  /\ WF_vars(OnClose)
  /\ WF_vars(RunReturns)
  /\ \A c \in Conn : /\ WF_vars(TaskReturns(c))
                     /\ SF_vars(Accept(c))
                     /\ SF_vars(Handshake(c))
                     /\ SF_vars(CloseDone(c))
                     /\ SF_vars(CallOnClose(c))

Spec == Init /\ [][Next]_vars /\ Fairness
-----------------------------------------------------------------------------
(***************************************************************************)
(* The list has exactly the connections whose open handler has run and     *)
(* whose close handler has not: no connection is lost from it, none stays, *)
(* and on_close finds what it looks for.  Over the whole of a connection's *)
(* life, whatever stop() and the io thread do to each other.               *)
(***************************************************************************)
Calling(handler, c) == io.at = handler /\ io.hdl = c

OpenOrClosing(c) ==
  \/ raw[c] \in {"open", "closing", "terminated"} /\ ~Calling("on_open", c)
  \/ Calling("on_close", c)

ListTracksConnections == \A c \in Conn : c \in Listed <=> OpenOrClosing(c)

(***************************************************************************)
(* A request handler runs on a Connection (through its this pointer, and   *)
(* to send the reply) only as long as the list keeps that object alive.    *)
(***************************************************************************)
TaskHasConnection == tasks \subseteq Listed

(***************************************************************************)
(* The loop of stop() never meets an element that has been erased.         *)
(***************************************************************************)
LoopIsValid == unclosed \subseteq Listed

(***************************************************************************)
(* The strengthening of the three that is inductive.  The io thread is in  *)
(* an open or close handler of a connection in the right state, so that    *)
(* the list may lag behind; the list does not change under the loop,       *)
(* because the loop holds the mutex; and while a request handler runs, the *)
(* io thread is in run() with nothing called, so that no connection goes   *)
(* away and no call of that handler can join it.                           *)
(***************************************************************************)
HandlersPlaced ==
  \A c \in Conn : /\ Calling("on_open", c) => raw[c] = "open"
                  /\ Calling("on_close", c) => raw[c] = "closed"

LoopHoldsMutex ==
  /\ mutex = "stop" <=> pc = "loop"
  /\ pc # "loop" => unclosed = {}

TasksBlock == tasks # {} => ioThread = "running" /\ ~exhausted /\ io.at = "run"

CallerBlocked ==
  caller # "thread" => caller \in tasks /\ pc \in {"stop", "lock", "loop", "join"}

ListInvariant ==
  /\ ListTracksConnections
  /\ TaskHasConnection
  /\ LoopIsValid
  /\ HandlersPlaced
  /\ LoopHoldsMutex
  /\ TasksBlock
  /\ CallerBlocked

(***************************************************************************)
(* stop(), or listen() on a running server, called by a request handler    *)
(* does not return: it joins the io thread, which waits for the handler.   *)
(***************************************************************************)
HandlerStopHangs == [][caller # "thread" => caller' = caller]_vars

(***************************************************************************)
(* stop() returns, if no handshake was under way when it closed the        *)
(* acceptor; otherwise the client may keep open a connection that the loop *)
(* missed.                                                                 *)
(***************************************************************************)
NoHandshake == \A c \in Conn : raw[c] # "connecting" /\ ~Calling("on_open", c)

StopReturns ==
  (pc = "lock" /\ caller = "thread" /\ NoHandshake) ~> (pc \in {"idle", "listen"})
=============================================================================
