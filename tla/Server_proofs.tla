--------------------------- MODULE Server_proofs ---------------------------
(***************************************************************************)
(* The list of connections, for any number of connections: it tracks them, *)
(* and neither a running request handler nor the loop of stop() meets one  *)
(* that has left it.                                                       *)
(***************************************************************************)
EXTENDS Server, TLAPS

LEMMA InitTypeOK == Init => TypeOK
<1> SUFFICES ASSUME Init PROVE TypeOK
  OBVIOUS
<1>1. Listed = {}
  BY DEF Init, Listed
<1> QED  BY <1>1 DEF Init, TypeOK, Handlers, RawState

LEMMA NextTypeOK == TypeOK /\ [Next]_vars => TypeOK'
<1> SUFFICES ASSUME TypeOK, [Next]_vars PROVE TypeOK'
  OBVIOUS
<1> USE DEF TypeOK, service, call
<1>1. CASE CallStep
  <2>1. CASE StopListening
    BY <2>1 DEF StopListening, Goto, RawState, Listed
  <2>2. CASE LockConnections
    BY <2>2 DEF LockConnections, Goto, Listed
  <2>3. CASE UnlockConnections
    BY <2>3 DEF UnlockConnections, Goto, Listed
  <2>4. CASE Join
    BY <2>4 DEF Join, Goto, Return, Listed
  <2>5. CASE Listen \/ ListenThrows
    BY <2>5 DEF Listen, ListenThrows, Goto, Return, Listed
  <2>6. CASE StartAccept \/ StartAcceptThrows \/ StartThread
    BY <2>6 DEF StartAccept, StartAcceptThrows, StartThread, Goto, Return, Listed
  <2>7. ASSUME NEW c \in Conn, CloseNext(c) PROVE TypeOK'
    BY <2>7 DEF CloseNext, RawState, Listed
  <2> QED  BY <1>1, <2>1, <2>2, <2>3, <2>4, <2>5, <2>6, <2>7 DEF CallStep
<1>2. ASSUME NEW who \in Conn \cup {"thread"}, ListenCall(who) \/ StopCall(who)
      PROVE  TypeOK'
  BY <1>2 DEF ListenCall, StopCall, Joinable, Listed
<1>3. ASSUME NEW h \in {"info", "request"}, SetDefaultHandler(h) PROVE TypeOK'
  <2>1. defaultHandlers' = [defaultHandlers EXCEPT ![h] = ~defaultHandlers[h]]
    BY <1>3 DEF SetDefaultHandler
  <2>2. (~defaultHandlers[h]) \in BOOLEAN
    OBVIOUS
  <2> DEFINE b == ~defaultHandlers[h]
  <2>3. defaultHandlers' = [defaultHandlers EXCEPT ![h] = b] /\ b \in BOOLEAN
    BY <2>1, <2>2
  <2> HIDE DEF b
  <2>4. defaultHandlers' \in Handlers
    BY <2>3 DEF Handlers
  <2> QED  BY <1>3, <2>4 DEF SetDefaultHandler, Listed
<1>4. CASE OnOpen
  <2>1. io.hdl \in Conn
    BY <1>4 DEF OnOpen
  <2>2. Listed' = Listed \cup {io.hdl}
    BY <1>4 DEF OnOpen, Listed
  <2>3. currentConnections' \in [Listed' -> Handlers]
    BY <1>4, <2>2 DEF OnOpen
  <2> QED  BY <1>4, <2>1, <2>2, <2>3 DEF OnOpen
<1>5. CASE OnClose
  <2>1. Listed' = Listed \ {io.hdl}
    BY <1>5 DEF OnClose, Listed
  <2>2. currentConnections' \in [Listed' -> Handlers]
    BY <1>5, <2>1 DEF OnClose
  <2> QED  BY <1>5, <2>1, <2>2 DEF OnClose
<1>6. CASE RunReturns
  BY <1>6 DEF RunReturns, Listed
<1>7. ASSUME NEW c \in Conn,
             \/ Arrive(c) \/ Accept(c) \/ HandshakeFails(c)
             \/ ReceiveClose(c) \/ CloseDone(c) \/ LinkLost(c)
      PROVE  TypeOK'
  BY <1>7 DEF Arrive, Accept, HandshakeFails, ReceiveClose, CloseDone, LinkLost,
              RawStep, RawState, Listed
<1>8. ASSUME NEW c \in Conn, HandshakeDone(c) \/ CallOnClose(c) PROVE TypeOK'
  BY <1>8 DEF HandshakeDone, CallOnClose, RawState, Listed
<1>9. ASSUME NEW c \in Conn, ReceiveRequest(c) \/ TaskReturns(c) PROVE TypeOK'
  BY <1>9 DEF ReceiveRequest, TaskReturns, Listed
<1>10. CASE UNCHANGED vars
  BY <1>10 DEF vars, Listed
<1> QED  BY <1>1, <1>2, <1>3, <1>4, <1>5, <1>6, <1>7, <1>8, <1>9, <1>10
         DEF Next, Handshake

(***************************************************************************)
(* The variables keep their types in every behaviour.                      *)
(***************************************************************************)
THEOREM TypeCorrect == Spec => []TypeOK
  BY InitTypeOK, NextTypeOK, PTL DEF Spec
-----------------------------------------------------------------------------
LEMMA InitList == Init => ListInvariant
  BY DEF Init, ListInvariant, ListTracksConnections, OpenOrClosing, Calling, Listed,
         TaskHasConnection, LoopIsValid, HandlersPlaced, LoopHoldsMutex, TasksBlock,
         CallerBlocked

LEMMA NextList == TypeOK /\ ListInvariant /\ [Next]_vars => ListInvariant'
<1> SUFFICES ASSUME TypeOK, ListInvariant, [Next]_vars PROVE ListInvariant'
  OBVIOUS
<1> USE ConnAssumption
    DEF TypeOK, service, call, ListInvariant, ListTracksConnections, OpenOrClosing,
        Calling, TaskHasConnection, LoopIsValid, HandlersPlaced, LoopHoldsMutex,
        TasksBlock, CallerBlocked
<1>1. CASE CallStep
  <2>1. CASE StopListening
    BY <2>1 DEF StopListening, Goto, Listed
  <2>2. CASE LockConnections
    BY <2>2 DEF LockConnections, Goto, Listed
  <2>3. CASE UnlockConnections
    BY <2>3 DEF UnlockConnections, Goto, Listed
  <2>4. CASE Join
    BY <2>4 DEF Join, Goto, Return, Listed
  <2>5. CASE Listen \/ ListenThrows
    BY <2>5 DEF Listen, ListenThrows, Goto, Return, Listed
  <2>6. CASE StartAccept \/ StartAcceptThrows \/ StartThread
    BY <2>6 DEF StartAccept, StartAcceptThrows, StartThread, Goto, Return, Listed
  <2>7. ASSUME NEW c \in Conn, CloseNext(c) PROVE ListInvariant'
    BY <2>7 DEF CloseNext, Listed
  <2> QED  BY <1>1, <2>1, <2>2, <2>3, <2>4, <2>5, <2>6, <2>7 DEF CallStep
<1>2. ASSUME NEW who \in Conn \cup {"thread"}, ListenCall(who) \/ StopCall(who)
      PROVE  ListInvariant'
  BY <1>2 DEF ListenCall, StopCall, Joinable, Listed
<1>3. ASSUME NEW h \in {"info", "request"}, SetDefaultHandler(h) PROVE ListInvariant'
  BY <1>3 DEF SetDefaultHandler, Listed
<1>4. CASE OnOpen
  <2>1. Listed' = Listed \cup {io.hdl}
    BY <1>4 DEF OnOpen, Listed
  <2>2. io.hdl \in Conn /\ raw[io.hdl] = "open" /\ io'.at = "run"
    <3>1. io.at = "on_open" /\ io.hdl \in Conn
      BY <1>4 DEF OnOpen
    <3>2. raw[io.hdl] = "open"
      BY <3>1
    <3>3. io' = [at |-> "run"]
      BY <1>4 DEF OnOpen
    <3> QED  BY <3>1, <3>2, <3>3
  <2>3. ListTracksConnections'
    <3> SUFFICES ASSUME NEW c \in Conn PROVE (c \in Listed <=> OpenOrClosing(c))'
      OBVIOUS
    <3>1. raw' = raw /\ io.at = "on_open"
      BY <1>4 DEF OnOpen
    <3>2. CASE c = io.hdl
      BY <2>1, <2>2, <3>1, <3>2
    <3>3. CASE c # io.hdl
      BY <2>1, <2>2, <3>1, <3>3
    <3> QED  BY <3>2, <3>3
  <2> QED  BY <1>4, <2>1, <2>2, <2>3 DEF OnOpen
<1>5. CASE OnClose
  <2>1. Listed' = Listed \ {io.hdl}
    BY <1>5 DEF OnClose, Listed
  <2> QED  BY <1>5, <2>1 DEF OnClose
<1>6. CASE RunReturns
  BY <1>6 DEF RunReturns, Dispatching, Listed
<1>7. ASSUME NEW c \in Conn, Arrive(c) PROVE ListInvariant'
  BY <1>7 DEF Arrive, Listed
<1>8. ASSUME NEW c \in Conn,
             \/ Accept(c) \/ HandshakeFails(c)
             \/ ReceiveClose(c) \/ CloseDone(c) \/ LinkLost(c)
      PROVE  ListInvariant'
  BY <1>8 DEF Accept, HandshakeFails, ReceiveClose, CloseDone, LinkLost, RawStep,
              Dispatching, Listed
<1>9. ASSUME NEW c \in Conn, HandshakeDone(c) \/ CallOnClose(c) PROVE ListInvariant'
  BY <1>9 DEF HandshakeDone, CallOnClose, Dispatching, Listed
<1>10. ASSUME NEW c \in Conn, ReceiveRequest(c) \/ TaskReturns(c) PROVE ListInvariant'
  BY <1>10 DEF ReceiveRequest, TaskReturns, Dispatching, Listed
<1>11. CASE UNCHANGED vars
  BY <1>11 DEF vars, Listed
<1> QED  BY <1>1, <1>2, <1>3, <1>4, <1>5, <1>6, <1>7, <1>8, <1>9, <1>10, <1>11
         DEF Next, Handshake

LEMMA ListInductive == Spec => []ListInvariant
<1>1. Init => TypeOK /\ ListInvariant
  BY InitTypeOK, InitList
<1>2. TypeOK /\ ListInvariant /\ [Next]_vars => (TypeOK /\ ListInvariant)'
  BY NextTypeOK, NextList
<1> QED  BY <1>1, <1>2, PTL DEF Spec

(***************************************************************************)
(* currentConnections_ agrees with the connections that are open, through  *)
(* any interleaving of listen, stop, on_open and on_close                  *)
(* (Server.cpp:93-107, 184-198).                                           *)
(***************************************************************************)
THEOREM ListCorrect == Spec => []ListTracksConnections
<1>1. ListInvariant => ListTracksConnections
  BY DEF ListInvariant
<1> QED  BY <1>1, ListInductive, PTL

(***************************************************************************)
(* The Connection of a running request handler is in the list              *)
(* (Connection.cpp:145, Server.cpp:190).                                   *)
(***************************************************************************)
THEOREM TasksSafe == Spec => []TaskHasConnection
<1>1. ListInvariant => TaskHasConnection
  BY DEF ListInvariant
<1> QED  BY <1>1, ListInductive, PTL

(***************************************************************************)
(* The loop of stop() runs over elements of the list only                  *)
(* (Server.cpp:99-103).                                                    *)
(***************************************************************************)
THEOREM LoopSafe == Spec => []LoopIsValid
<1>1. ListInvariant => LoopIsValid
  BY DEF ListInvariant
<1> QED  BY <1>1, ListInductive, PTL
-----------------------------------------------------------------------------
(***************************************************************************)
(* stop() called by a request handler never returns (Server.cpp:106).      *)
(***************************************************************************)
THEOREM HandlerHangs == Spec => HandlerStopHangs
<1>1. ListInvariant /\ [Next]_vars => [caller # "thread" => caller' = caller]_vars
  <2> SUFFICES ASSUME ListInvariant, Next, caller # "thread" PROVE caller' = caller
    OBVIOUS
  <2>1. ioThread = "running" /\ pc \in {"stop", "lock", "loop", "join"}
    BY DEF ListInvariant, CallerBlocked, TasksBlock
  <2> QED
    BY <2>1 DEF Next, CallStep, StopListening, LockConnections, UnlockConnections,
         Join, Listen, ListenThrows, StartAccept, StartAcceptThrows, StartThread,
         CloseNext, ListenCall, StopCall, SetDefaultHandler, OnOpen, OnClose,
         RunReturns, Arrive, Accept, Handshake, HandshakeDone, HandshakeFails,
         ReceiveRequest, TaskReturns, ReceiveClose, CloseDone, LinkLost, RawStep,
         CallOnClose, Goto, call
<1> QED  BY <1>1, ListInductive, PTL DEF Spec, HandlerStopHangs
=============================================================================
