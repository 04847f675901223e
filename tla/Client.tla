------------------------------- MODULE Client -------------------------------
(***************************************************************************)
(* communique::Client (Client.cpp): connecting and disconnecting, the io   *)
(* thread that WebSocket++ runs on, and the two functions that poll the    *)
(* state of the connection.                                                *)
(*                                                                         *)
(* One call of connect or disconnect is under way at a time, made by a     *)
(* user's thread or by a handler; another thread may call isConnected and  *)
(* isDisconnected meanwhile.  A handler is one that the io thread waits    *)
(* for (see Connection): a request handler, or the callback of a response. *)
(*                                                                         *)
(* WebSocket++ and asio are not in the repository.  Connection attempts    *)
(* and closing handshakes end, because WebSocket++ gives up on them after  *)
(* a while; the server need not do anything.                               *)
(***************************************************************************)
EXTENDS Naturals

CONSTANTS Conn,       \* the connections, one for each call of connect()
          Replaced    \* the handlers that are set and emptied at any time;
                      \* the others are set before connect()

ASSUME ConnAssumption == /\ Conn \cap {"thread", "none"} = {}
                         /\ Replaced \subseteq {"info", "request"}

VARIABLES
  exhausted,     \* run() has returned once, so that asio's service is stopped
  ioThread,      \* ioThread_: not joinable, in run(), or joinable after run()
  raw,           \* raw[c]: the WebSocket++ connection
  handling,      \* a handler runs, and the io thread waits for it
  handlers,      \* infoHandler_ and requestHandler_ of the client are not empty
  pConnection,   \* pConnection_: the connection that it wraps
  connection,    \* *pConnection_, if there is one: its two handlers
  pc,            \* where connect() or disconnect() is
  caller,        \* who called it: a thread or a handler
  poll,          \* the function that another thread is in
  polled         \* the connection whose state that function looks at

call == <<pc, caller>>
poller == <<poll, polled>>
vars == <<exhausted, ioThread, raw, handling, handlers, pConnection, connection,
          call, poller>>

\* "created" is connecting for get_state(), before client_.connect().
RawState == {"none", "created", "connecting", "open", "closing", "closed"}

get_state(c) == IF raw[c] = "created" THEN "connecting" ELSE raw[c]

Handlers == [info : BOOLEAN, request : BOOLEAN]

TypeOK ==
  /\ exhausted \in BOOLEAN
  /\ ioThread \in {"none", "running", "finished"}
  /\ raw \in [Conn -> RawState]
  /\ handling \in BOOLEAN
  /\ handlers \in Handlers
  /\ pConnection \in Conn \cup {"none"}
  /\ connection \in [Conn \cap {pConnection} -> Handlers]
  /\ pc \in {"idle", "connect", "start_thread", "close", "join", "terminated"}
  /\ caller \in {"thread", "handler"}
  /\ poll \in {"idle", "isConnected", "isDisconnected"}
  /\ polled \in Conn \cup {"none"}

Init ==
  /\ exhausted = FALSE
  /\ ioThread = "none"
  /\ raw = [c \in Conn |-> "none"]
  /\ handling = FALSE
  /\ handlers \in Handlers
  /\ \A h \in {"info", "request"} : h \in Replaced \/ handlers[h]
  /\ pConnection = "none"
  /\ connection = [c \in {} |-> handlers]
  /\ pc = "idle"
  /\ caller = "thread"
  /\ poll = "idle"
  /\ polled = "none"

Alive == pc # "terminated"
-----------------------------------------------------------------------------
(***************************************************************************)
(* connect().                                                              *)
(***************************************************************************)
May(who) == who = "thread" \/ handling

\* get_connection() succeeds and there is a new Connection; a connect() that
\* throws because it fails changes nothing.
Connect(who, c) ==
  /\ pc = "idle"
  /\ May(who)
  /\ raw[c] = "none"
  /\ raw' = [raw EXCEPT ![c] = "created"]
  /\ pConnection' = c
  /\ connection' = [d \in {c} |-> handlers]
  /\ pc' = "connect"
  /\ caller' = who
  /\ UNCHANGED <<exhausted, ioThread, handling, handlers, poller>>

\* client_.connect() only queues the work for the io thread.
StartConnecting ==
  /\ pc = "connect"
  /\ raw' = [raw EXCEPT ![pConnection] = "connecting"]
  /\ pc' = "start_thread"
  /\ UNCHANGED <<exhausted, ioThread, handling, handlers, pConnection, connection,
                 caller, poller>>

\* Assigning to a std::thread that is joinable terminates the program.
StartThread ==
  /\ pc = "start_thread"
  /\ IF ioThread = "none"
       THEN ioThread' = "running" /\ pc' = "idle" /\ caller' = "thread"
       ELSE pc' = "terminated" /\ UNCHANGED <<ioThread, caller>>
  /\ UNCHANGED <<exhausted, raw, handling, handlers, pConnection, connection, poller>>
-----------------------------------------------------------------------------
(***************************************************************************)
(* disconnect(), which the destructor calls too.                           *)
(***************************************************************************)
Disconnect(who) ==
  /\ pc = "idle"
  /\ May(who)
  /\ pc' = "close"
  /\ caller' = who
  /\ UNCHANGED <<exhausted, ioThread, raw, handling, handlers, pConnection,
                 connection, poller>>

\* A plausible bug: close() looks at the state without waiting for it to settle.
Close_NoWait ==
  /\ pc = "close"
  /\ raw' = IF pConnection = "none" THEN raw ELSE
              [raw EXCEPT ![pConnection] = IF @ = "open" THEN "closing" ELSE @]
  /\ pc' = "join"
  /\ UNCHANGED <<exhausted, ioThread, handling, handlers, pConnection, connection,
                 caller, poller>>

\* Connection::close(): isConnected() waits while the connection is connecting.
Close ==
  /\ pc = "close"
  /\ pConnection # "none" => get_state(pConnection) # "connecting"
  /\ raw' = IF pConnection = "none" THEN raw ELSE
              [raw EXCEPT ![pConnection] = IF @ = "open" THEN "closing" ELSE @]
  /\ pc' = "join"
  /\ UNCHANGED <<exhausted, ioThread, handling, handlers, pConnection, connection,
                 caller, poller>>

\* A plausible bug: the thread is detached, not joined.
Join_Detached ==
  /\ pc = "join"
  /\ ioThread' = "none"
  /\ pc' = "idle"
  /\ caller' = "thread"
  /\ UNCHANGED <<exhausted, raw, handling, handlers, pConnection, connection, poller>>

Join ==
  /\ pc = "join"
  /\ ioThread # "running"
  /\ ioThread' = "none"
  /\ pc' = "idle"
  /\ caller' = "thread"
  /\ UNCHANGED <<exhausted, raw, handling, handlers, pConnection, connection, poller>>
-----------------------------------------------------------------------------
(***************************************************************************)
(* isConnected() and isDisconnected(), on a thread of their own.           *)
(***************************************************************************)
Look(function) ==
  /\ Alive
  /\ poll = "idle"
  /\ pConnection # "none"       \* else it returns at once
  /\ poll' = function
  /\ polled' = pConnection
  /\ UNCHANGED <<exhausted, ioThread, raw, handling, handlers, pConnection,
                 connection, call>>

Seen ==
  /\ Alive
  /\ poll' = "idle"
  /\ polled' = "none"
  /\ UNCHANGED <<exhausted, ioThread, raw, handling, handlers, pConnection,
                 connection, call>>

IsConnected ==
  /\ poll = "isConnected"
  /\ get_state(polled) # "connecting"
  /\ Seen

\* A plausible bug: it waits for "closed", not for the end of "closing".
IsDisconnected_WaitsForClosed ==
  /\ poll = "isDisconnected"
  /\ get_state(polled) = "closed"
  /\ Seen

IsDisconnected ==
  /\ poll = "isDisconnected"
  /\ get_state(polled) # "closing"
  /\ Seen
-----------------------------------------------------------------------------
(***************************************************************************)
(* Setting a handler: of the client and, if there is one, its Connection.  *)
(***************************************************************************)

\* A plausible bug: whether there is a connection is not checked.
SetHandler_NoCheck(h) ==
  /\ Alive
  /\ h \in Replaced
  /\ handlers' = [handlers EXCEPT ![h] = ~@]
  /\ connection' = [c \in {pConnection} |-> handlers']
  /\ UNCHANGED <<exhausted, ioThread, raw, handling, pConnection, call, poller>>

\* A plausible bug: a handler set while connected is kept for the next connection.
SetHandler_NotForwarded(h) ==
  /\ Alive
  /\ h \in Replaced
  /\ handlers' = [handlers EXCEPT ![h] = ~@]
  /\ UNCHANGED <<exhausted, ioThread, raw, handling, pConnection, connection, call,
                 poller>>

SetHandler(h) ==
  /\ Alive
  /\ h \in Replaced
  /\ handlers' = [handlers EXCEPT ![h] = ~@]
  /\ connection' = [c \in DOMAIN connection |->
       [connection[c] EXCEPT ![h] = handlers'[h]]]
  /\ UNCHANGED <<exhausted, ioThread, raw, handling, pConnection, call, poller>>
-----------------------------------------------------------------------------
(***************************************************************************)
(* The io thread.                                                          *)
(***************************************************************************)

\* A plausible bug: the future of the task is kept, so that run() goes on
\* while a handler runs.
Dispatching_FutureKept ==
  /\ Alive
  /\ ioThread = "running"
  /\ ~exhausted

\* The service has the thread, and the thread is free to call a handler.
Dispatching ==
  /\ Alive
  /\ ioThread = "running"
  /\ ~exhausted
  /\ ~handling

RawStep(c, from, to) ==
  /\ Dispatching
  /\ raw[c] = from
  /\ raw' = [raw EXCEPT ![c] = to]
  /\ UNCHANGED <<exhausted, ioThread, handling, handlers, pConnection, connection,
                 call, poller>>

HandshakeDone(c) == RawStep(c, "connecting", "open")

HandshakeFails(c) == RawStep(c, "connecting", "closed")

\* The server closes.
ReceiveClose(c) == RawStep(c, "open", "closing")

\* The closing handshake ends or times out.
CloseDone(c) == RawStep(c, "closing", "closed")

LinkLost(c) == RawStep(c, "open", "closed")

\* on_message, for a request if there is a handler, or for a response.
StartHandler(c) ==
  /\ Dispatching
  /\ raw[c] = "open"
  /\ handling' = TRUE
  /\ UNCHANGED <<exhausted, ioThread, raw, handlers, pConnection, connection, call,
                 poller>>

\* A handler that called connect() or disconnect() returns when that has returned.
HandlerReturns ==
  /\ Alive
  /\ handling
  /\ caller # "handler"
  /\ handling' = FALSE
  /\ UNCHANGED <<exhausted, ioThread, raw, handlers, pConnection, connection, call,
                 poller>>

\* run() returns when nothing is left to wait for, and at once if it has
\* returned before: nobody resets the service.
RunReturns ==
  /\ Alive
  /\ ioThread = "running"
  /\ \/ exhausted
     \/ /\ Dispatching
        /\ \A c \in Conn : raw[c] \in {"none", "created", "closed"}
  /\ ioThread' = "finished"
  /\ exhausted' = TRUE
  /\ UNCHANGED <<raw, handling, handlers, pConnection, connection, call, poller>>
-----------------------------------------------------------------------------
CallStep == StartConnecting \/ StartThread \/ Close \/ Join

PollStep == IsConnected \/ IsDisconnected

Handshake(c) == HandshakeDone(c) \/ HandshakeFails(c)

Next ==
  \/ CallStep
  \/ PollStep
  \/ \E who \in {"thread", "handler"} : \/ Disconnect(who)
                                        \/ \E c \in Conn : Connect(who, c)
  \/ Look("isConnected") \/ Look("isDisconnected")
  \/ \E h \in {"info", "request"} : SetHandler(h)
  \/ HandlerReturns \/ RunReturns
  \/ \E c \in Conn : \/ Handshake(c) \/ StartHandler(c)
                     \/ ReceiveClose(c) \/ CloseDone(c) \/ LinkLost(c)

(***************************************************************************)
(* A thread that is in a call goes on, a poll looks again and again, and   *)
(* handlers return.  asio serves what is ready in turn, so that an event   *)
(* that is ready again and again is served.                                *)
(***************************************************************************)
Fairness ==
  /\ WF_vars(CallStep)
  /\ WF_vars(PollStep)
  /\ WF_vars(HandlerReturns)
  /\ WF_vars(RunReturns)
  /\ \A c \in Conn : SF_vars(Handshake(c)) /\ SF_vars(CloseDone(c))

Spec == Init /\ [][Next]_vars /\ Fairness
-----------------------------------------------------------------------------
(***************************************************************************)
(* A connection is open or closing only while the io thread is in run().   *)
(* So it never stays open with nobody to read it, and none is left when    *)
(* disconnect() has returned, whichever end closed and whenever.           *)
(***************************************************************************)
OpenHasThread ==
  \A c \in Conn : raw[c] \in {"open", "closing"} => ioThread = "running"

(***************************************************************************)
(* The strengthening that is inductive: it is the first run() that serves  *)
(* an open connection, and it does not return while a handler runs, so     *)
(* that a handler never finds a thread to join.                            *)
(***************************************************************************)
InFirstRun == ioThread = "running" /\ ~exhausted

ThreadInvariant ==
  /\ \A c \in Conn : raw[c] \in {"open", "closing"} => InFirstRun
  /\ handling => InFirstRun
  /\ caller = "handler" => handling /\ pc # "idle"

(***************************************************************************)
(* The Connection always has the client's handlers, those set before       *)
(* connect() and those set at any time after it (Client.cpp:130).          *)
(***************************************************************************)
HandlersForwarded == \A c \in DOMAIN connection : connection[c] = handlers

(***************************************************************************)
(* disconnect(), called by a handler, does not return: it joins the io     *)
(* thread, which waits for the handler.                                    *)
(***************************************************************************)
Disconnecting == pc \in {"close", "join"}

HandlerDisconnectHangs == [][caller = "handler" /\ Disconnecting => Disconnecting']_vars

(***************************************************************************)
(* disconnect() returns, whatever the connection is doing, unless it is    *)
(* one of a service that is stopped, whose handshake never begins.         *)
(***************************************************************************)
NeverBegins ==
  exhausted /\ pConnection # "none" /\ get_state(pConnection) = "connecting"

DisconnectReturns ==
  (pc = "close" /\ caller = "thread" /\ ~NeverBegins) ~> (pc = "idle")

(***************************************************************************)
(* isDisconnected() "only blocks while closing" (Client.h:30), and closing *)
(* ends, unless a handler hangs in disconnect().                           *)
(***************************************************************************)
IsDisconnectedReturns ==
  (poll = "isDisconnected") ~> (poll = "idle" \/ ~Alive \/ caller = "handler")

(***************************************************************************)
(* Client.h:25: isConnected() returns "true if the connection is           *)
(* established.  If the handshake is still ongoing, blocks until that is   *)
(* finished."  So it returns.                                              *)
(***************************************************************************)
IsConnectedReturns ==
  (poll = "isConnected") ~> (poll = "idle" \/ ~Alive \/ caller = "handler")

(***************************************************************************)
(* Client.h:22: connect() "Attempts to connect to the URI provided.        *)
(* Returns before the connection is established."  So it returns, too,     *)
(* when an earlier attempt is over.                                        *)
(***************************************************************************)
ConnectReturns == (pc = "connect" /\ ioThread = "finished") ~> (pc = "idle")
=============================================================================
