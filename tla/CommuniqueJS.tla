---------------------------- MODULE CommuniqueJS ----------------------------
(***************************************************************************)
(* CommuniqueClient (Communique.js): the browser's end of a connection,    *)
(* with its own way to choose user references and to keep the handlers.    *)
(* A browser runs one function at a time; a handler may call sendRequest,  *)
(* which is then a step that follows.                                      *)
(*                                                                         *)
(* The other end is a Connection (see that module), of which only this     *)
(* matters here: it serves one request after the other, and answers with   *)
(* a RESPONSE or a REQUESTERROR that carries the reference it was given.   *)
(* It may send infos and requests of its own.  The WebSocket is the        *)
(* browser's: readyState and the two queues model what its standard says.  *)
(***************************************************************************)
EXTENDS Naturals, Sequences, SequencesExt

CONSTANTS Request,   \* the calls of sendRequest; also the messages and handlers
          Info,      \* the calls of sendInfo
          Notice     \* the infos and requests that the other end sends

ASSUME CallsAssumption == /\ Request \cap (Info \cup Notice) = {}
                          /\ Info \cap Notice = {}

VARIABLES
  readyState,         \* websocket.readyState
  responseHandlers,   \* the array of that name; the handler of request r is r
  sent,               \* the frames on their way to the other end, oldest first
  received,           \* the frames on their way to the browser, oldest first
  stage,              \* where each call, and each notice, has got to
  answered            \* history: the handlers called, with the reply's request

vars == <<readyState, responseHandlers, sent, received, stage, answered>>

FirstReference == 124

Call == Request \cup Info \cup Notice

Entry == [userReference : Nat, handler : Request]

Frame ==      [type : {"REQUEST", "RESPONSE", "REQUESTERROR"}, userReference : Nat,
               message : Request]
         \cup [type : {"INFO", "REQUEST"}, userReference : Nat, message : Info \cup Notice]

Stage == {"idle", "threw", "sent", "lost", "replying", "answered", "refused", "done"}

TypeOK ==
  /\ readyState \in {"CONNECTING", "OPEN", "CLOSING", "CLOSED"}
  /\ responseHandlers \in Seq(Entry)
  /\ sent \in Seq(Frame)
  /\ received \in Seq(Frame)
  /\ stage \in [Call -> Stage]
  /\ answered \in Seq([handler : Request, message : Request])

Init ==
  /\ readyState = "CONNECTING"
  /\ responseHandlers = <<>>
  /\ sent = <<>>
  /\ received = <<>>
  /\ stage = [x \in Call |-> "idle"]
  /\ answered = <<>>
-----------------------------------------------------------------------------
References == {responseHandlers[i].userReference : i \in DOMAIN responseHandlers}

\* A plausible bug: the handlers are counted.
NewUserReference_Counted(n) == n = FirstReference + Len(responseHandlers)

\* The search starts again with the next reference when one is in use.
NewUserReference(n) ==
  /\ n >= FirstReference
  /\ n \notin References
  /\ \A m \in FirstReference .. n - 1 : m \in References

Store(r, n) ==
  responseHandlers' = Append(responseHandlers, [userReference |-> n, handler |-> r])

\* websocket.send() throws while connecting, and drops what it is given once the
\* closing has begun.
Send(frame) ==
  /\ sent' = IF readyState = "OPEN" THEN Append(sent, frame) ELSE sent
  /\ stage' = [stage EXCEPT ![frame.message] =
                 CASE readyState = "OPEN" -> "sent"
                   [] readyState = "CONNECTING" -> "threw"
                   [] OTHER -> "lost"]

sendInfo(i) ==
  /\ stage[i] = "idle"
  /\ Send([type |-> "INFO", userReference |-> 0, message |-> i])
  /\ UNCHANGED <<readyState, responseHandlers, received, answered>>

\* The handler is stored before the message is sent, whether or not that throws.
sendRequest(r) ==
  /\ stage[r] = "idle"
  /\ \E n \in FirstReference .. FirstReference + Len(responseHandlers) :
       /\ NewUserReference(n)
       /\ Store(r, n)
       /\ Send([type |-> "REQUEST", userReference |-> n, message |-> r])
  /\ UNCHANGED <<readyState, received, answered>>

close ==
  /\ readyState' = IF readyState = "CLOSED" THEN "CLOSED" ELSE "CLOSING"
  /\ UNCHANGED <<responseHandlers, sent, received, stage, answered>>
-----------------------------------------------------------------------------
(***************************************************************************)
(* handleMessage, called while the socket is open.                         *)
(***************************************************************************)
Message == Head(received)

Arrived == readyState = "OPEN" /\ received # <<>>

Indices(reference) ==
  {i \in DOMAIN responseHandlers : responseHandlers[i].userReference = reference}

Least(S) == CHOOSE i \in S : \A j \in S : i <= j

\* A plausible bug: the entry is not removed.
HandleResponse_NoSplice ==
  /\ Arrived /\ Message.type = "RESPONSE"
  /\ received' = Tail(received)
  /\ Indices(Message.userReference) # {}
  /\ LET index == Least(Indices(Message.userReference))
     IN  answered' = Append(answered, [handler |-> responseHandlers[index].handler,
                                       message |-> Message.message])
  /\ stage' = [stage EXCEPT ![Message.message] = "answered"]
  /\ UNCHANGED <<readyState, responseHandlers, sent>>

\* A plausible bug: only the oldest entry is compared with the reference.
HandleResponse_FirstOnly ==
  /\ Arrived /\ Message.type = "RESPONSE"
  /\ received' = Tail(received)
  /\ IF 1 \in Indices(Message.userReference)
       THEN /\ responseHandlers' = Tail(responseHandlers)
            /\ answered' = Append(answered, [handler |-> Head(responseHandlers).handler,
                                             message |-> Message.message])
            /\ stage' = [stage EXCEPT ![Message.message] = "answered"]
       ELSE /\ stage' = [stage EXCEPT ![Message.message] = "lost"]
            /\ UNCHANGED <<responseHandlers, answered>>
  /\ UNCHANGED <<readyState, sent>>

\* The handler is called after its entry has been removed; an alert tells the user
\* if there is none.
HandleResponse ==
  /\ Arrived /\ Message.type = "RESPONSE"
  /\ received' = Tail(received)
  /\ IF Indices(Message.userReference) = {}
       THEN /\ stage' = [stage EXCEPT ![Message.message] = "lost"]
            /\ UNCHANGED <<responseHandlers, answered>>
       ELSE LET index == Least(Indices(Message.userReference))
            IN  /\ responseHandlers' = RemoveAt(responseHandlers, index)
                /\ answered' = Append(answered,
                     [handler |-> responseHandlers[index].handler,
                      message |-> Message.message])
                /\ stage' = [stage EXCEPT ![Message.message] = "answered"]
  /\ UNCHANGED <<readyState, sent>>

\* handleMessage has no branch for this type.
HandleRequestError ==
  /\ Arrived /\ Message.type = "REQUESTERROR"
  /\ received' = Tail(received)
  /\ stage' = [stage EXCEPT ![Message.message] = "refused"]
  /\ UNCHANGED <<readyState, responseHandlers, sent, answered>>

\* A plausible bug: what carries the reference of a handler is taken for its answer.
HandleNotice_TypeIgnored ==
  /\ Arrived /\ Message.type \in {"INFO", "REQUEST"}
  /\ received' = Tail(received)
  /\ stage' = [stage EXCEPT ![Message.message] = "done"]
  /\ answered' = IF Indices(Message.userReference) = {} THEN answered
                 ELSE Append(answered,
                   [handler |-> responseHandlers[
                                  Least(Indices(Message.userReference))].handler,
                    message |-> Message.message])
  /\ UNCHANGED <<readyState, responseHandlers, sent>>

\* oninfo and onrequest are called; nothing is sent back, to a request either.
HandleNotice ==
  /\ Arrived /\ Message.type \in {"INFO", "REQUEST"}
  /\ received' = Tail(received)
  /\ stage' = [stage EXCEPT ![Message.message] = "done"]
  /\ UNCHANGED <<readyState, responseHandlers, sent, answered>>
-----------------------------------------------------------------------------
(***************************************************************************)
(* The other end and the browser's socket.                                 *)
(***************************************************************************)
ServeInfo ==
  /\ readyState \in {"OPEN", "CLOSING"} /\ sent # <<>> /\ Head(sent).type = "INFO"
  /\ sent' = Tail(sent)
  /\ stage' = [stage EXCEPT ![Head(sent).message] = "done"]
  /\ UNCHANGED <<readyState, responseHandlers, received, answered>>

ServeRequest ==
  /\ readyState \in {"OPEN", "CLOSING"} /\ sent # <<>> /\ Head(sent).type = "REQUEST"
  /\ sent' = Tail(sent)
  /\ \E type \in {"RESPONSE", "REQUESTERROR"} :
       received' = Append(received, [Head(sent) EXCEPT !.type = type])
  /\ stage' = [stage EXCEPT ![Head(sent).message] = "replying"]
  /\ UNCHANGED <<readyState, responseHandlers, answered>>

\* The other end numbers its requests by itself, so that a reference of its own may
\* be one that is in use here.
OtherReferences == {1, FirstReference}

Notify(n) ==
  /\ readyState = "OPEN" /\ stage[n] = "idle"
  /\ \/ received' = Append(received,
          [type |-> "INFO", userReference |-> 0, message |-> n])
     \/ \E reference \in OtherReferences :
          received' = Append(received,
            [type |-> "REQUEST", userReference |-> reference, message |-> n])
  /\ stage' = [stage EXCEPT ![n] = "sent"]
  /\ UNCHANGED <<readyState, responseHandlers, sent, answered>>

Open ==
  /\ readyState = "CONNECTING"
  /\ readyState' = "OPEN"
  /\ UNCHANGED <<responseHandlers, sent, received, stage, answered>>

\* What is still on its way is lost.
Closed ==
  /\ readyState # "CLOSED"
  /\ readyState' = "CLOSED"
  /\ sent' = <<>>
  /\ received' = <<>>
  /\ stage' = [x \in DOMAIN stage |->
                 IF stage[x] \in {"sent", "replying"} THEN "lost" ELSE stage[x]]
  /\ UNCHANGED <<responseHandlers, answered>>

Serve == ServeInfo \/ ServeRequest

handleMessage ==
  HandleResponse \/ HandleRequestError \/ HandleNotice

Next ==
  \/ \E r \in Request : sendRequest(r)
  \/ \E i \in Info : sendInfo(i)
  \/ close \/ handleMessage
  \/ Serve \/ \E n \in Notice : Notify(n)
  \/ Open \/ Closed

\* The other end serves what arrives, and the browser handles what arrives.
Spec == Init /\ [][Next]_vars /\ WF_vars(Serve) /\ WF_vars(handleMessage)
-----------------------------------------------------------------------------
(***************************************************************************)
(* The handler called is the one supplied with the request that the reply  *)
(* answers, and it is called once (Communique.js:40-60, 100-113).          *)
(***************************************************************************)
RepliesReachTheirHandler ==
  \A i \in DOMAIN answered :
    /\ answered[i].handler = answered[i].message
    /\ \A j \in 1 .. i - 1 : answered[j] # answered[i]

(***************************************************************************)
(* The array holds the handlers that are still to be called, one entry for *)
(* each, and besides them those of requests that will get no response:     *)
(* lost, refused, or stored by a sendRequest that threw.  So an open       *)
(* connection forgets no handler, and no response finds none.              *)
(***************************************************************************)
Waiting == {"sent", "replying", "threw", "lost", "refused"}

HandlersKept ==
  /\ \A r \in Request :
       stage[r] \in Waiting <=>
         \E i \in DOMAIN responseHandlers : responseHandlers[i].handler = r
  /\ \A i, j \in DOMAIN responseHandlers :
       i # j => /\ responseHandlers[i].handler # responseHandlers[j].handler
                /\ responseHandlers[i].userReference # responseHandlers[j].userReference

(***************************************************************************)
(* Every request sent while the connection is open is answered or refused, *)
(* unless an end closes.                                                   *)
(***************************************************************************)
RequestsEnd ==
  \A r \in Request :
    (stage[r] = "sent") ~> (stage[r] \in {"answered", "refused"} \/ readyState # "OPEN")

=============================================================================
