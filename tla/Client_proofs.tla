--------------------------- MODULE Client_proofs ---------------------------
(***************************************************************************)
(* An open connection has its thread, and its client's handlers, for any   *)
(* number of calls of connect(); a handler cannot disconnect.              *)
(***************************************************************************)
EXTENDS Client, TLAPS

LEMMA InitTypeOK == Init => TypeOK
<1> SUFFICES ASSUME Init PROVE TypeOK
  OBVIOUS
<1>1. connection \in [Conn \cap {pConnection} -> Handlers]
  BY ConnAssumption DEF Init
<1> QED  BY <1>1 DEF Init, TypeOK, RawState

LEMMA NextTypeOK == TypeOK /\ [Next]_vars => TypeOK'
<1> SUFFICES ASSUME TypeOK, [Next]_vars PROVE TypeOK'
  OBVIOUS
<1> USE DEF TypeOK, call, poller
<1>1. ASSUME NEW who \in {"thread", "handler"}, NEW c \in Conn, Connect(who, c)
      PROVE  TypeOK'
  BY <1>1 DEF Connect, RawState
<1>2. ASSUME NEW who \in {"thread", "handler"}, Disconnect(who) PROVE TypeOK'
  BY <1>2 DEF Disconnect
<1>3. CASE StartConnecting
  BY <1>3 DEF StartConnecting, RawState
<1>4. CASE StartThread
  BY <1>4 DEF StartThread
<1>5. CASE Close
  BY <1>5 DEF Close, RawState
<1>6. CASE Join
  BY <1>6 DEF Join
<1>7. CASE PollStep \/ Look("isConnected") \/ Look("isDisconnected")
  BY <1>7 DEF PollStep, IsConnected, IsDisconnected, Seen, Look
<1>8. ASSUME NEW h \in {"info", "request"}, SetHandler(h) PROVE TypeOK'
  <2> DEFINE b == ~handlers[h]
  <2>1. b \in BOOLEAN /\ handlers' = [handlers EXCEPT ![h] = b]
    BY <1>8 DEF SetHandler
  <2> HIDE DEF b
  <2>2. handlers' \in Handlers
    BY <2>1 DEF Handlers
  <2>3. handlers'[h] \in BOOLEAN
    BY <2>2 DEF Handlers
  <2>4. \A c \in DOMAIN connection :
          [connection[c] EXCEPT ![h] = handlers'[h]] \in Handlers
    BY <2>3 DEF Handlers
  <2>5. /\ DOMAIN connection = Conn \cap {pConnection}
        /\ connection' = [c \in DOMAIN connection |->
                            [connection[c] EXCEPT ![h] = handlers'[h]]]
    BY <1>8 DEF SetHandler
  <2>6. connection' \in [Conn \cap {pConnection} -> Handlers]
    BY <2>4, <2>5
  <2> QED  BY <1>8, <2>2, <2>6 DEF SetHandler
<1>9. CASE HandlerReturns \/ RunReturns
  BY <1>9 DEF HandlerReturns, RunReturns
<1>10. ASSUME NEW c \in Conn,
              \/ HandshakeDone(c) \/ HandshakeFails(c) \/ StartHandler(c)
              \/ ReceiveClose(c) \/ CloseDone(c) \/ LinkLost(c)
       PROVE  TypeOK'
  BY <1>10 DEF HandshakeDone, HandshakeFails, StartHandler, ReceiveClose, CloseDone,
               LinkLost, RawStep, RawState
<1>11. CASE UNCHANGED vars
  BY <1>11 DEF vars
<1> QED  BY <1>1, <1>2, <1>3, <1>4, <1>5, <1>6, <1>7, <1>8, <1>9, <1>10, <1>11
         DEF Next, CallStep, Handshake

(***************************************************************************)
(* The variables keep their types in every behaviour.                      *)
(***************************************************************************)
THEOREM TypeCorrect == Spec => []TypeOK
  BY InitTypeOK, NextTypeOK, PTL DEF Spec
-----------------------------------------------------------------------------
LEMMA NextThread ==
  TypeOK /\ ThreadInvariant /\ [Next]_vars => ThreadInvariant'
<1> SUFFICES ASSUME TypeOK, ThreadInvariant, [Next]_vars PROVE ThreadInvariant'
  OBVIOUS
<1> USE DEF ThreadInvariant, InFirstRun, call, poller
<1>1. ASSUME NEW who \in {"thread", "handler"}, NEW c \in Conn, Connect(who, c)
      PROVE  ThreadInvariant'
  BY <1>1 DEF Connect, May, TypeOK
<1>2. ASSUME NEW who \in {"thread", "handler"}, Disconnect(who)
      PROVE  ThreadInvariant'
  BY <1>2 DEF Disconnect, May
<1>3. CASE StartConnecting
  BY <1>3 DEF StartConnecting, TypeOK
<1>4. CASE StartThread
  BY <1>4 DEF StartThread
<1>5. CASE Close
  BY <1>5 DEF Close, TypeOK
<1>6. CASE Join
  BY <1>6 DEF Join
<1>7. CASE PollStep \/ Look("isConnected") \/ Look("isDisconnected")
  BY <1>7 DEF PollStep, IsConnected, IsDisconnected, Seen, Look
<1>8. ASSUME NEW h \in {"info", "request"}, SetHandler(h) PROVE ThreadInvariant'
  BY <1>8 DEF SetHandler
<1>9. CASE HandlerReturns \/ RunReturns
  BY <1>9 DEF HandlerReturns, RunReturns, Dispatching
<1>10. ASSUME NEW c \in Conn,
              \/ HandshakeDone(c) \/ HandshakeFails(c) \/ StartHandler(c)
              \/ ReceiveClose(c) \/ CloseDone(c) \/ LinkLost(c)
       PROVE  ThreadInvariant'
  BY <1>10 DEF HandshakeDone, HandshakeFails, StartHandler, ReceiveClose, CloseDone,
               LinkLost, RawStep, Dispatching, TypeOK
<1>11. CASE UNCHANGED vars
  BY <1>11 DEF vars
<1> QED  BY <1>1, <1>2, <1>3, <1>4, <1>5, <1>6, <1>7, <1>8, <1>9, <1>10, <1>11
         DEF Next, CallStep, Handshake

LEMMA ThreadInductive == Spec => []ThreadInvariant
<1>1. Init => TypeOK /\ ThreadInvariant
  <2>1. Init => ThreadInvariant
    BY DEF Init, ThreadInvariant
  <2> QED  BY <2>1, InitTypeOK
<1>2. TypeOK /\ ThreadInvariant /\ [Next]_vars => (TypeOK /\ ThreadInvariant)'
  BY NextTypeOK, NextThread
<1> QED  BY <1>1, <1>2, PTL DEF Spec

(***************************************************************************)
(* No connection is open, or closing, without the io thread, whatever      *)
(* connect() and disconnect() and the other end do (Client.cpp:68-101).    *)
(***************************************************************************)
THEOREM OpenServed == Spec => []OpenHasThread
<1>1. ThreadInvariant => OpenHasThread
  BY DEF ThreadInvariant, InFirstRun, OpenHasThread
<1> QED  BY <1>1, ThreadInductive, PTL

(***************************************************************************)
(* disconnect() called by a handler never returns (Client.cpp:100).        *)
(***************************************************************************)
THEOREM HandlerHangs == Spec => HandlerDisconnectHangs
<1>1. ThreadInvariant /\ [Next]_vars
        => [caller = "handler" /\ Disconnecting => Disconnecting']_vars
  <2> SUFFICES ASSUME ThreadInvariant, Next, caller = "handler", Disconnecting
               PROVE  Disconnecting'
    OBVIOUS
  <2>1. ioThread = "running" /\ pc \in {"close", "join"}
    BY DEF ThreadInvariant, InFirstRun, Disconnecting
  <2> QED
    BY <2>1 DEF Next, CallStep, PollStep, Disconnecting, StartConnecting,
         StartThread, Close, Join, IsConnected, IsDisconnected, Seen, Look, Disconnect,
         Connect, SetHandler, HandlerReturns, RunReturns, Handshake, HandshakeDone,
         HandshakeFails, StartHandler, ReceiveClose, CloseDone, LinkLost, RawStep,
         call
<1> QED  BY <1>1, ThreadInductive, PTL DEF Spec, HandlerDisconnectHangs
-----------------------------------------------------------------------------
(***************************************************************************)
(* The Connection has the handlers that its client has (Client.cpp:73,     *)
(* 130-166).                                                               *)
(***************************************************************************)
THEOREM HandlersCorrect == Spec => []HandlersForwarded
<1>1. Init => HandlersForwarded
  BY DEF Init, HandlersForwarded
<1>2. TypeOK /\ HandlersForwarded /\ [Next]_vars => HandlersForwarded'
  <2> SUFFICES ASSUME TypeOK, HandlersForwarded, [Next]_vars
               PROVE  HandlersForwarded'
    OBVIOUS
  <2>1. ASSUME NEW h \in {"info", "request"}, SetHandler(h)
        PROVE  HandlersForwarded'
    <3> DEFINE b == ~handlers[h]
    <3>1. b \in BOOLEAN /\ handlers' = [handlers EXCEPT ![h] = b]
      BY <2>1 DEF SetHandler
    <3> HIDE DEF b
    <3>2. handlers'[h] = b
      BY <3>1 DEF TypeOK, Handlers
    <3>3. connection' = [c \in DOMAIN connection |-> [handlers EXCEPT ![h] = b]]
      BY <2>1, <3>2 DEF SetHandler, HandlersForwarded
    <3> QED  BY <3>1, <3>3 DEF HandlersForwarded
  <2>2. ASSUME NEW who \in {"thread", "handler"}, NEW c \in Conn, Connect(who, c)
        PROVE  HandlersForwarded'
    BY <2>2 DEF Connect, HandlersForwarded
  <2>3. ASSUME UNCHANGED <<handlers, connection>> PROVE HandlersForwarded'
    BY <2>3 DEF HandlersForwarded
  <2> QED
    BY <2>1, <2>2, <2>3 DEF Next, CallStep, PollStep, StartConnecting,
         StartThread, Close, Join, IsConnected, IsDisconnected, Seen, Look, Disconnect,
         HandlerReturns, RunReturns, Handshake, HandshakeDone, HandshakeFails,
         StartHandler, ReceiveClose, CloseDone, LinkLost, RawStep, vars
<1> QED  BY <1>1, <1>2, TypeCorrect, PTL DEF Spec
=============================================================================
