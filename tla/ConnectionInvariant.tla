------------------------ MODULE ConnectionInvariant ------------------------
(***************************************************************************)
(* The inductive invariants of Connection.  Every request is in at most    *)
(* one place (a frame, a task, a callback), that place agrees with its     *)
(* stage, and wherever it is it carries the reference its handler is       *)
(* stored under.  What is on its way keeps the order of the calls, and     *)
(* none of it is lost while both ends are open.                            *)
(***************************************************************************)
EXTENDS Connection

\* The messages that belong to one request.
IsExchange(m) == m.type \in {"REQUEST"} \cup ReplyType

\* A handler that is stored is one of its own end, under its own reference.
HandlersOwned ==
  \A s \in Side :
    /\ Ascending(responseHandlers[s])
    /\ \A e \in ToSet(responseHandlers[s]) :
         /\ Sender[e.second] = s
         /\ e.first = userReference[e.second]
         /\ stage[e.second] # "idle"

\* The handler of a request that a reply may still come to is stored.
AwaitingStage == {"pushed", "sent", "handling", "replying"}

HandlersAwait ==
  \A r \in Request :
    stage[r] \in AwaitingStage =>
      Holds(responseHandlers[Sender[r]], userReference[r], r)

FrameOK(s, m) ==
  /\ m.type = "REQUEST" => /\ Sender[m.body] = Other(s)
                           /\ stage[m.body] = "sent"
                           /\ m.userReference = userReference[m.body]
  /\ m.type \in ReplyType => /\ Sender[m.body] = s
                             /\ stage[m.body] = "replying"
                             /\ m.userReference = userReference[m.body]

\* No two messages in a queue belong to the same request.
Distinct(q) ==
  \A k, l \in DOMAIN q :
    k # l /\ IsExchange(q[k]) /\ IsExchange(q[l]) => q[k].body # q[l].body

FramesPlaced ==
  \A s \in Side : /\ \A m \in ToSet(wire[s]) : FrameOK(s, m)
                  /\ Distinct(wire[s])

TaskOK(s, k) ==
  /\ k.pc # "callback" => /\ Sender[k.message.body] = Other(s)
                          /\ stage[k.message.body] = "handling"
                          /\ k.message.userReference = userReference[k.message.body]
  /\ k.pc = "callback" => /\ k.handler = k.body
                          /\ Sender[k.body] = s
                          /\ stage[k.body] = "responding"

\* The io thread waits for the task it started, so there is never another.
TasksPlaced ==
  \A s \in Side : /\ \A k \in tasks[s] : TaskOK(s, k)
                  /\ \A k, l \in tasks[s] : k = l

AnswersPlaced ==
  \A s \in Side :
    /\ \A a \in ToSet(answered[s]) : /\ a.handler = a.body
                                     /\ Sender[a.body] = s
                                     /\ stage[a.body] = "answered"
    /\ \A k, l \in DOMAIN answered[s] :
         k # l => answered[s][k].handler # answered[s][l].handler

(***************************************************************************)
(* All of it.  ResponsesMatched and RepliesReachTheirRequest follow        *)
(* (Connection_proofs).                                                    *)
(***************************************************************************)
OnePlacePerRequest ==
  /\ HandlersOwned /\ HandlersAwait
  /\ FramesPlaced /\ TasksPlaced /\ AnswersPlaced

(***************************************************************************)
(* While a handler waits for the requests it sent, its task keeps the io   *)
(* thread of its end from reading, so none of them gets as far as a reply  *)
(* that is looked at.  NestedNeverAnswered follows (Connection_proofs).    *)
(***************************************************************************)
ReplyRead == {"responding", "answered", "refused"}

NestedWaits ==
  \A r \in Request : \A q \in Nested[r] :
    stage[q] \notin {"idle", "threw"} =>
      /\ stage[q] \notin ReplyRead
      /\ \E k \in tasks[Sender[q]] : k.pc = "running" /\ k.message.body = r
-----------------------------------------------------------------------------
(***************************************************************************)
(* The order of what is on its way.  A call passes a queue, then the one   *)
(* task that is started for it, and then a handler is called.              *)
(***************************************************************************)
\* p has x, and y after it.
Before(p, x, y) == \E k, l \in DOMAIN p : k < l /\ p[k] = x /\ p[l] = y

\* The elements of q are in p, in the same order.
Listed(p, q) == \A k, l \in DOMAIN q : k < l => Before(p, q[k], q[l])

(***************************************************************************)
(* The calls done came before those in progress, and both before those     *)
(* that the frames of types T in the queue are about, all in the order p.  *)
(***************************************************************************)
Chain(p, done, progress, queue, T) ==
  /\ \A k, l \in DOMAIN queue :
       k < l /\ queue[k].type \in T /\ queue[l].type \in T =>
         Before(p, queue[k].body, queue[l].body)
  /\ \A m \in ToSet(queue) : m.type \in T => m.body \in ToSet(p)
  /\ \A x \in done \cup progress :
       /\ x \in ToSet(p)
       /\ \A m \in ToSet(queue) : m.type \in T => Before(p, x, m.body)
  /\ \A x \in done, y \in progress : Before(p, x, y)

\* The requests whose handler will be called, those being served, those called back.
Invoked(s)     == {k.message.body : k \in {t \in tasks[s] : t.pc = "invoke"}}
Serving(s)     == {k.message.body : k \in {t \in tasks[s] : t.pc # "callback"}}
CallingBack(s) == {k.handler : k \in {t \in tasks[s] : t.pc = "callback"}}

HandlersCalled(s) == [k \in DOMAIN answered[s] |-> answered[s][k].handler]

\* The requests of s that have been replied to.
Replied(s) ==
  ToSet(HandlersCalled(s)) \cup CallingBack(s)
    \cup {m.body : m \in {f \in ToSet(wire[s]) : f.type \in ReplyType}}

\* From sendRequest and sendInfo to the handlers of the other end.
DataOrder(s) ==
  /\ Chain(put[s], ToSet(handled[Other(s)]), Invoked(Other(s)), wire[Other(s)],
           {"REQUEST", "INFO"})
  /\ Listed(put[s], handled[Other(s)])

\* From sendRequest to the reply.
RequestOrder(s) ==
  Chain(put[s], Replied(s), Serving(Other(s)), wire[Other(s)], {"REQUEST"})

\* From the reply to the response handler.
ReplyOrder(s) ==
  /\ Chain(put[s], ToSet(HandlersCalled(s)), CallingBack(s), wire[s], ReplyType)
  /\ Listed(put[s], HandlersCalled(s))

(***************************************************************************)
(* HandledInOrder and AnsweredInOrder follow (Connection_proofs).          *)
(***************************************************************************)
InSendingOrder == \A s \in Side : DataOrder(s) /\ RequestOrder(s) /\ ReplyOrder(s)
-----------------------------------------------------------------------------
(***************************************************************************)
(* A request that is not lost has its frame or its task, its handler stays *)
(* until the response is read, and no request on the wire is lost while    *)
(* both ends are open.  NoHandlerForgotten follows (Connection_proofs).    *)
(***************************************************************************)
OnItsWay(r) ==
  /\ stage[r] \notin {"handled", "ignored"}
  /\ stage[r] \in {"sent", "handling", "replying"} => InFlight(r)
  /\ stage[r] \in {"responding", "answered"} =>
       \A e \in ToSet(responseHandlers[Sender[r]]) : e.second # r
  /\ r \in ToSet(put[Sender[r]]) =>
       /\ stage[r] \notin {"idle", "pushed", "threw"}
       /\ stage[r] = "lost" => \E s \in Side : state[s] \in {"closing", "closed"}

\* A task is started on a connection that has been opened.
TasksOpened ==
  \A s \in Side : tasks[s] # {} => state[s] # "connecting"

EveryRequestOnItsWay == TasksOpened /\ \A r \in Request : OnItsWay(r)
=============================================================================
