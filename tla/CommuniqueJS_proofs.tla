------------------------ MODULE CommuniqueJS_proofs ------------------------
(***************************************************************************)
(* For any number of calls: a browser calls each handler at most once,     *)
(* with the reply to its own request, and forgets none, whatever           *)
(* references the other end uses for the requests it sends.                *)
(***************************************************************************)
EXTENDS CommuniqueJS, SequenceTheorems, TLAPS

(***************************************************************************)
(* The inductive invariant.  Every call is in one frame at most, which     *)
(* agrees with its stage; and as long as a request may be answered its     *)
(* frame carries the reference its handler is stored under.                *)
(***************************************************************************)
Stored(n, r) == [userReference |-> n, handler |-> r] \in ToSet(responseHandlers)

Outgoing(f) ==
  /\ stage[f.message] = "sent"
  /\ \/ f.type = "INFO" /\ f.message \in Info
     \/ f.type = "REQUEST" /\ f.message \in Request /\ Stored(f.userReference, f.message)

Incoming(f) ==
  \/ /\ f.type \in {"INFO", "REQUEST"}
     /\ f.message \in Notice /\ stage[f.message] = "sent"
  \/ /\ f.type \in {"RESPONSE", "REQUESTERROR"}
     /\ f.message \in Request /\ stage[f.message] = "replying"
     /\ Stored(f.userReference, f.message)

\* No two elements are about the same call.
Distinct(q) == \A k, l \in DOMAIN q : k # l => q[k].message # q[l].message

FramesPlaced ==
  /\ \A f \in ToSet(sent) : Outgoing(f)
  /\ \A f \in ToSet(received) : Incoming(f)
  /\ Distinct(sent) /\ Distinct(received)

AnswersPlaced ==
  /\ \A a \in ToSet(answered) : a.handler = a.message /\ stage[a.message] = "answered"
  /\ Distinct(answered)

Placed == FramesPlaced /\ AnswersPlaced /\ HandlersKept
-----------------------------------------------------------------------------
(***************************************************************************)
(* The queues and the array.                                               *)
(***************************************************************************)
LEMMA Elements ==
  ASSUME NEW E, NEW q \in Seq(E)
  PROVE  /\ Len(q) \in Nat /\ DOMAIN q = 1 .. Len(q)
         /\ \A k \in DOMAIN q : q[k] \in E
         /\ \A x \in ToSet(q) : x \in E
BY LenProperties, ElementOfSeq DEF ToSet

\* What is taken from the front is gone.
LEMMA TailEffect ==
  ASSUME NEW E, NEW q \in Seq(E), q # <<>>, Distinct(q)
  PROVE  /\ Tail(q) \in Seq(E) /\ Head(q) \in E /\ Head(q) \in ToSet(q)
         /\ ToSet(Tail(q)) \subseteq ToSet(q)
         /\ \A x \in ToSet(Tail(q)) : x.message # Head(q).message
         /\ Distinct(Tail(q))
<1> DEFINE u == Tail(q)
<1>1. Len(q) \in Nat /\ Len(q) > 0 /\ DOMAIN q = 1 .. Len(q) /\ Head(q) = q[1] /\ Head(q) \in E
  BY LenProperties, EmptySeq, HeadTailProperties
<1>2. u \in Seq(E) /\ Len(u) = Len(q) - 1 /\ \A k \in 1 .. Len(u) : u[k] = q[k+1]
  BY HeadTailProperties
<1>3. DOMAIN u = 1 .. Len(q) - 1
  BY <1>2, LenProperties
<1> HIDE DEF u
<1>4. \A k \in DOMAIN u : k+1 \in DOMAIN q /\ k+1 # 1 /\ u[k] = q[k+1]
  BY <1>1, <1>2, <1>3
<1>5. 1 \in DOMAIN q
  BY <1>1
<1>6. Distinct(u)
  <2> SUFFICES ASSUME NEW k \in DOMAIN u, NEW l \in DOMAIN u, k # l
               PROVE  u[k].message # u[l].message
    BY DEF Distinct
  <2>1. k+1 # l+1
    BY <1>1, <1>3
  <2> QED  BY <1>4, <2>1 DEF Distinct
<1> QED  BY <1>1, <1>2, <1>4, <1>5, <1>6 DEF u, ToSet, Distinct

\* What is added at the back is the only thing added.
LEMMA AppendEffect ==
  ASSUME NEW E, NEW q \in Seq(E), NEW e \in E, Distinct(q),
         \A x \in ToSet(q) : x.message # e.message
  PROVE  /\ Append(q, e) \in Seq(E)
         /\ ToSet(Append(q, e)) = ToSet(q) \cup {e}
         /\ Distinct(Append(q, e))
<1> DEFINE u == Append(q, e)
<1>1. /\ Len(q) \in Nat /\ DOMAIN q = 1 .. Len(q)
      /\ u \in Seq(E) /\ DOMAIN u = 1 .. Len(q) + 1
      /\ \A k \in 1 .. Len(q) : u[k] = q[k]
      /\ u[Len(q) + 1] = e
  BY AppendProperties, LenProperties
<1> HIDE DEF u
<1>2. \A k \in DOMAIN u : (k \in DOMAIN q /\ u[k] = q[k]) \/ (k = Len(q) + 1 /\ u[k] = e)
  BY <1>1
<1>3. (\A k \in DOMAIN q : k \in DOMAIN u /\ u[k] = q[k]) /\ Len(q) + 1 \in DOMAIN u
  BY <1>1
<1>4. ToSet(u) = ToSet(q) \cup {e}
  BY <1>1, <1>2, <1>3 DEF ToSet
<1>5. Distinct(u)
  BY <1>2 DEF Distinct, ToSet
<1> QED  BY <1>1, <1>4, <1>5 DEF u

\* splice( index, 1 ) takes out the entry at the index and closes the gap.
LEMMA SpliceEffect ==
  ASSUME NEW E, NEW q \in Seq(E), NEW i \in DOMAIN q
  PROVE  /\ RemoveAt(q, i) \in Seq(E)
         /\ DOMAIN RemoveAt(q, i) = 1 .. Len(q) - 1
         /\ \A k \in 1 .. Len(q) - 1 : RemoveAt(q, i)[k] = IF k < i THEN q[k] ELSE q[k+1]
<1> DEFINE front == SubSeq(q, 1, i-1)
           back == SubSeq(q, i+1, Len(q))
<1>1. Len(q) \in Nat /\ i \in 1 .. Len(q) /\ \A k \in 1 .. Len(q) : q[k] \in E
  BY Elements
<1>2. /\ front \in Seq(E) /\ Len(front) = i - 1
      /\ \A k \in 1 .. i-1 : front[k] = q[k]
  <2>1. \A k \in 1 .. i-1 : q[k] \in E
    BY <1>1
  <2> QED  BY <1>1, <2>1, SubSeqProperties
<1>3. /\ back \in Seq(E) /\ Len(back) = Len(q) - i
      /\ \A k \in 1 .. Len(q) - i : back[k] = q[i+k]
  <2>1. \A k \in i+1 .. Len(q) : q[k] \in E
    BY <1>1
  <2> QED  BY <1>1, <2>1, SubSeqProperties
<1>4. RemoveAt(q, i) = front \o back
  BY DEF RemoveAt
<1> HIDE DEF front, back
<1>5. /\ front \o back \in Seq(E)
      /\ Len(front \o back) = Len(front) + Len(back)
      /\ \A k \in 1 .. Len(front) + Len(back) :
           (front \o back)[k] = IF k <= Len(front) THEN front[k] ELSE back[k-Len(front)]
  BY <1>2, <1>3, ConcatProperties
<1>6. Len(front) + Len(back) = Len(q) - 1
  BY <1>1, <1>2, <1>3
<1>7. ASSUME NEW k \in 1 .. Len(q) - 1
      PROVE  (front \o back)[k] = IF k < i THEN q[k] ELSE q[k+1]
  <2>1. CASE k < i
    <3>1. k \in 1 .. i-1 /\ k <= i-1
      BY <1>1, <2>1
    <3> QED  BY <1>2, <1>5, <1>6, <2>1, <3>1
  <2>2. CASE ~ (k < i)
    <3>1. k-(i-1) \in 1 .. Len(q) - i /\ i + (k-(i-1)) = k+1 /\ ~ (k <= i-1)
      BY <1>1, <2>2
    <3> QED  BY <1>2, <1>3, <1>5, <1>6, <2>2, <3>1
  <2> QED  BY <2>1, <2>2
<1> QED  BY <1>4, <1>5, <1>6, <1>7, LenProperties
-----------------------------------------------------------------------------
LEMMA InitPlaced == Init => TypeOK /\ Placed
<1> SUFFICES ASSUME Init PROVE TypeOK /\ Placed
  OBVIOUS
<1>1. TypeOK
  BY EmptySeq DEF Init, TypeOK, Stage
<1>2. ToSet(<<>>) = {} /\ DOMAIN <<>> = {}
  BY DEF ToSet
<1>3. \A r \in Request : stage[r] = "idle"
  BY DEF Init, Call
<1> QED
  BY <1>1, <1>2, <1>3 DEF Init, Placed, FramesPlaced, AnswersPlaced, HandlersKept, Waiting,
                          Distinct

(***************************************************************************)
(* A step that moves only the calls C on.  The frames about other calls    *)
(* need no attention.                                                      *)
(***************************************************************************)
OnlyStages(C) == /\ stage' \in [Call -> Stage]
                 /\ \A x \in Call \ C : stage'[x] = stage[x]

FramesStep(C) ==
  /\ \A f \in ToSet(sent') : (f \in ToSet(sent) /\ f.message \notin C) \/ Outgoing(f)'
  /\ \A f \in ToSet(received') : (f \in ToSet(received) /\ f.message \notin C) \/ Incoming(f)'
  /\ Distinct(sent') /\ Distinct(received')

LEMMA FramesKept ==
  ASSUME TypeOK, Placed, NEW C, OnlyStages(C), FramesStep(C),
         \A r \in Request \ C : \A n : Stored(n, r) => Stored(n, r)'
  PROVE  FramesPlaced'
<1>1. ASSUME NEW f \in ToSet(sent), f.message \notin C PROVE Outgoing(f)'
  <2>1. Outgoing(f) /\ f.message \in Call
    BY DEF Placed, FramesPlaced, Outgoing, Call
  <2> QED  BY <1>1, <2>1 DEF Outgoing, OnlyStages
<1>2. ASSUME NEW f \in ToSet(received), f.message \notin C PROVE Incoming(f)'
  <2>1. Incoming(f) /\ f.message \in Call
    BY DEF Placed, FramesPlaced, Incoming, Call
  <2> QED  BY <1>2, <2>1 DEF Incoming, OnlyStages
<1> QED  BY <1>1, <1>2 DEF FramesStep, FramesPlaced

LEMMA AnswersKept ==
  ASSUME TypeOK, Placed, NEW C, OnlyStages(C), \A x \in C : stage[x] # "answered",
         answered' = answered
  PROVE  AnswersPlaced'
<1>1. ASSUME NEW a \in ToSet(answered) PROVE a.message \in Call
  <2>1. a \in [handler : Request, message : Request]
    BY Elements DEF TypeOK
  <2> QED  BY <2>1 DEF Call
<1> QED  BY <1>1 DEF Placed, AnswersPlaced, OnlyStages

\* The array is as before, and no request of C enters or leaves it.
LEMMA HandlersUnchanged ==
  ASSUME TypeOK, Placed, NEW C, OnlyStages(C), responseHandlers' = responseHandlers,
         \A r \in C \cap Request : stage[r] \in Waiting <=> stage'[r] \in Waiting
  PROVE  HandlersKept'
BY DEF Placed, HandlersKept, OnlyStages, Call

LEMMA Moved ==
  ASSUME TypeOK, Placed, NEW C, OnlyStages(C), FramesStep(C),
         responseHandlers' = responseHandlers, answered' = answered,
         \A x \in C : /\ stage[x] # "answered"
                      /\ x \in Request => (stage[x] \in Waiting <=> stage'[x] \in Waiting)
  PROVE  Placed'
<1>1. FramesPlaced'
  BY FramesKept DEF Stored
<1>2. AnswersPlaced' /\ HandlersKept'
  BY AnswersKept, HandlersUnchanged
<1> QED  BY <1>1, <1>2 DEF Placed

\* A call has no frame before it is made, or after its frame was read.
LEMMA NoFrame ==
  ASSUME Placed, NEW x, stage[x] \notin {"sent", "replying"}
  PROVE  /\ \A f \in ToSet(sent) : f.message # x
         /\ \A f \in ToSet(received) : f.message # x
BY DEF Placed, FramesPlaced, Outgoing, Incoming
-----------------------------------------------------------------------------
(***************************************************************************)
(* sendInfo and sendRequest.                                               *)
(***************************************************************************)
SentStage == IF readyState = "OPEN" THEN "sent"
             ELSE IF readyState = "CONNECTING" THEN "threw" ELSE "lost"

LEMMA SendEffect ==
  ASSUME TypeOK, Placed, NEW f \in Frame, f.message \in Call, stage[f.message] = "idle",
         Send(f), received' = received
  PROVE  /\ sent' \in Seq(Frame)
         /\ OnlyStages({f.message}) /\ stage'[f.message] = SentStage
         /\ (readyState = "OPEN" => Outgoing(f)') => FramesStep({f.message})
<1>1. sent \in Seq(Frame) /\ stage \in [Call -> Stage] /\ Distinct(sent) /\ Distinct(received)
  BY DEF TypeOK, Placed, FramesPlaced
<1>2. stage' = [stage EXCEPT ![f.message] = SentStage]
  BY DEF Send, SentStage
<1>3. SentStage \in Stage
  BY DEF SentStage, Stage
<1>4. OnlyStages({f.message}) /\ stage'[f.message] = SentStage
  BY <1>1, <1>2, <1>3 DEF OnlyStages
<1>5. /\ \A g \in ToSet(sent) : g.message # f.message
      /\ \A g \in ToSet(received) : g.message # f.message
  BY NoFrame
<1>6. /\ Append(sent, f) \in Seq(Frame)
      /\ ToSet(Append(sent, f)) = ToSet(sent) \cup {f}
      /\ Distinct(Append(sent, f))
  BY <1>1, <1>5, AppendEffect
<1>7. sent' = IF readyState = "OPEN" THEN Append(sent, f) ELSE sent
  BY DEF Send
<1> QED  BY <1>1, <1>4, <1>5, <1>6, <1>7 DEF FramesStep

LEMMA InfoStep ==
  ASSUME TypeOK, Placed, NEW i \in Info, sendInfo(i)
  PROVE  (TypeOK /\ Placed)'
<1>1. PICK f : f = [type |-> "INFO", userReference |-> 0, message |-> i]
  OBVIOUS
<1>2. /\ f \in Frame /\ f.message = i /\ f.type = "INFO"
      /\ i \in Call /\ i \notin Request
  BY <1>1, CallsAssumption DEF Frame, Call
<1>3. /\ stage[i] = "idle" /\ Send(f)
      /\ UNCHANGED <<readyState, responseHandlers, received, answered>>
  BY <1>1 DEF sendInfo
<1>4. /\ sent' \in Seq(Frame) /\ OnlyStages({i}) /\ stage'[i] = SentStage
      /\ (readyState = "OPEN" => Outgoing(f)') => FramesStep({i})
  BY <1>2, <1>3, SendEffect
<1>5. readyState = "OPEN" => Outgoing(f)'
  BY <1>2, <1>4 DEF Outgoing, SentStage
<1>6. TypeOK'
  BY <1>3, <1>4 DEF TypeOK, OnlyStages
<1> QED  BY <1>2, <1>3, <1>4, <1>5, <1>6, Moved

LEMMA RequestStep ==
  ASSUME TypeOK, Placed, NEW r \in Request, sendRequest(r)
  PROVE  (TypeOK /\ Placed)'
<1>1. PICK n \in FirstReference .. FirstReference + Len(responseHandlers) :
        /\ NewUserReference(n) /\ Store(r, n)
        /\ Send([type |-> "REQUEST", userReference |-> n, message |-> r])
  BY DEF sendRequest
<1>2. PICK f : f = [type |-> "REQUEST", userReference |-> n, message |-> r]
  OBVIOUS
<1>3. PICK e : e = [userReference |-> n, handler |-> r]
  OBVIOUS
<1>4. /\ responseHandlers \in Seq(Entry)
      /\ Len(responseHandlers) \in Nat
      /\ DOMAIN responseHandlers = 1 .. Len(responseHandlers)
  BY Elements DEF TypeOK
<1>5. n \in Nat /\ r \in Call
  BY <1>4 DEF FirstReference, Call
<1>6. /\ f \in Frame /\ f.message = r /\ f.type = "REQUEST" /\ f.userReference = n
      /\ e \in Entry /\ e.userReference = n /\ e.handler = r
  BY <1>2, <1>3, <1>5 DEF Frame, Entry
<1>7. /\ stage[r] = "idle" /\ Send(f)
      /\ responseHandlers' = Append(responseHandlers, e)
      /\ UNCHANGED <<readyState, received, answered>>
  BY <1>1, <1>2, <1>3 DEF sendRequest, Store
<1>8. /\ sent' \in Seq(Frame) /\ OnlyStages({r}) /\ stage'[r] = SentStage
      /\ (readyState = "OPEN" => Outgoing(f)') => FramesStep({r})
  BY <1>5, <1>6, <1>7, SendEffect
<1>9. /\ responseHandlers' \in Seq(Entry)
      /\ DOMAIN responseHandlers' = 1 .. Len(responseHandlers) + 1
      /\ \A i \in 1 .. Len(responseHandlers) : responseHandlers'[i] = responseHandlers[i]
      /\ responseHandlers'[Len(responseHandlers) + 1] = e
  BY <1>4, <1>6, <1>7, AppendProperties, LenProperties
<1>10. ToSet(responseHandlers) \subseteq ToSet(responseHandlers') /\ e \in ToSet(responseHandlers')
  <2>1. /\ \A i \in DOMAIN responseHandlers : i \in DOMAIN responseHandlers'
        /\ Len(responseHandlers) + 1 \in DOMAIN responseHandlers'
    BY <1>4, <1>9
  <2> QED  BY <1>4, <1>9, <2>1 DEF ToSet
<1>11. readyState = "OPEN" => Outgoing(f)'
  BY <1>3, <1>6, <1>8, <1>10 DEF Outgoing, SentStage, Stored
<1>12. FramesPlaced'
  BY <1>8, <1>10, <1>11, FramesKept DEF Stored
<1>13. AnswersPlaced'
  BY <1>7, <1>8, AnswersKept
<1>14. HandlersKept'
  <2>1. \A i \in DOMAIN responseHandlers' :
          \/ i \in DOMAIN responseHandlers /\ responseHandlers'[i] = responseHandlers[i]
          \/ i = Len(responseHandlers) + 1 /\ responseHandlers'[i] = e
    BY <1>4, <1>9
  <2>2. \A i \in DOMAIN responseHandlers :
          /\ responseHandlers[i].handler # r
          /\ responseHandlers[i].userReference # n
    BY <1>1, <1>7 DEF Placed, HandlersKept, Waiting, NewUserReference, References
  <2>3. \A i, j \in DOMAIN responseHandlers' :
          i # j => /\ responseHandlers'[i].handler # responseHandlers'[j].handler
                   /\ responseHandlers'[i].userReference # responseHandlers'[j].userReference
    BY <1>6, <2>1, <2>2 DEF Placed, HandlersKept
  <2>4. ASSUME NEW q \in Request
        PROVE  stage'[q] \in Waiting <=>
                 \E i \in DOMAIN responseHandlers' : responseHandlers'[i].handler = q
    <3>1. CASE q = r
      <4>1. stage'[q] \in Waiting
        BY <1>8, <3>1 DEF SentStage, Waiting
      <4>2. Len(responseHandlers) + 1 \in DOMAIN responseHandlers'
        BY <1>4, <1>9
      <4> QED  BY <1>6, <1>9, <3>1, <4>1, <4>2
    <3>2. CASE q # r
      <4>1. stage'[q] = stage[q]
        BY <1>8, <3>2 DEF OnlyStages, Call
      <4>2. \A i \in DOMAIN responseHandlers :
              i \in DOMAIN responseHandlers' /\ responseHandlers'[i] = responseHandlers[i]
        BY <1>4, <1>9
      <4>3. stage[q] \in Waiting <=>
              \E i \in DOMAIN responseHandlers : responseHandlers[i].handler = q
        BY DEF Placed, HandlersKept
      <4> QED  BY <1>6, <2>1, <3>2, <4>1, <4>2, <4>3
    <3> QED  BY <3>1, <3>2
  <2> QED  BY <2>3, <2>4 DEF HandlersKept
<1>15. TypeOK'
  BY <1>7, <1>8, <1>9 DEF TypeOK, OnlyStages
<1> QED  BY <1>12, <1>13, <1>14, <1>15 DEF Placed
-----------------------------------------------------------------------------
(***************************************************************************)
(* handleMessage.                                                          *)
(***************************************************************************)
\* The frame that is read, and what becomes of the others.
LEMMA ReadEffect ==
  ASSUME TypeOK, Placed, received # <<>>, received' = Tail(received), sent' = sent
  PROVE  /\ Message \in Frame /\ Incoming(Message) /\ Message.message \in Call
         /\ received' \in Seq(Frame) /\ FramesStep({Message.message})
<1>1. received \in Seq(Frame) /\ Distinct(received) /\ Distinct(sent)
  BY DEF TypeOK, Placed, FramesPlaced
<1>2. /\ Tail(received) \in Seq(Frame) /\ Message \in Frame /\ Message \in ToSet(received)
      /\ ToSet(Tail(received)) \subseteq ToSet(received)
      /\ \A f \in ToSet(Tail(received)) : f.message # Message.message
      /\ Distinct(Tail(received))
  BY <1>1, TailEffect DEF Message
<1>3. Incoming(Message)
  BY <1>2 DEF Placed, FramesPlaced
<1>4. Message.message \in Call
  BY <1>3 DEF Incoming, Call
<1>5. \A f \in ToSet(sent) : f.message # Message.message
  <2> SUFFICES ASSUME NEW f \in ToSet(sent), f.message = Message.message PROVE FALSE
    OBVIOUS
  <2>1. Outgoing(f)
    BY DEF Placed, FramesPlaced
  <2> QED  BY <1>3, <2>1, CallsAssumption DEF Outgoing, Incoming
<1> QED  BY <1>1, <1>2, <1>3, <1>4, <1>5 DEF FramesStep

\* Under the reference of a response there is one handler, that of its request.
LEMMA OneIndex ==
  ASSUME TypeOK, Placed, NEW n, NEW r, Stored(n, r)
  PROVE  \E i \in DOMAIN responseHandlers :
           /\ responseHandlers[i] = [userReference |-> n, handler |-> r]
           /\ Indices(n) = {i} /\ Least(Indices(n)) = i
<1>1. PICK i \in DOMAIN responseHandlers :
        responseHandlers[i] = [userReference |-> n, handler |-> r]
  BY DEF Stored, ToSet
<1>2. responseHandlers[i].userReference = n
  BY <1>1
<1>3. Indices(n) = {i}
  BY <1>2 DEF Indices, Placed, HandlersKept
<1>4. i \in Nat
  <2>1. responseHandlers \in Seq(Entry)
    BY DEF TypeOK
  <2>2. i \in 1 .. Len(responseHandlers) /\ Len(responseHandlers) \in Nat
    BY <2>1, Elements
  <2> QED  BY <2>2
<1>5. Least({i}) = i
  BY <1>4 DEF Least
<1> QED  BY <1>1, <1>3, <1>5

LEMMA ResponseStep ==
  ASSUME TypeOK, Placed, HandleResponse
  PROVE  (TypeOK /\ Placed)'
<1>1. PICK m : m = Message
  OBVIOUS
<1>2. PICK r : r = m.message
  OBVIOUS
<1>3. /\ received # <<>> /\ m.type = "RESPONSE" /\ received' = Tail(received)
      /\ UNCHANGED <<readyState, sent>>
  BY <1>1 DEF HandleResponse, Arrived
<1>4. Incoming(m) /\ r \in Call /\ received' \in Seq(Frame) /\ FramesStep({r})
  BY <1>1, <1>2, <1>3, ReadEffect
<1>5. r \in Request /\ stage[r] = "replying" /\ Stored(m.userReference, r)
  BY <1>2, <1>3, <1>4 DEF Incoming
<1>6. PICK i \in DOMAIN responseHandlers :
        /\ responseHandlers[i] = [userReference |-> m.userReference, handler |-> r]
        /\ Indices(m.userReference) = {i} /\ Least(Indices(m.userReference)) = i
  BY <1>5, OneIndex
<1>7. PICK a : a = [handler |-> r, message |-> r]
  OBVIOUS
<1>8. responseHandlers[i].handler = r /\ responseHandlers[i].userReference = m.userReference
  BY <1>6
<1>9. /\ responseHandlers' = RemoveAt(responseHandlers, i)
      /\ answered' = Append(answered, a)
      /\ stage' = [stage EXCEPT ![r] = "answered"]
  BY <1>1, <1>2, <1>6, <1>7, <1>8 DEF HandleResponse
<1>10. OnlyStages({r}) /\ stage'[r] = "answered"
  BY <1>4, <1>9 DEF TypeOK, OnlyStages, Stage
<1>11. PICK c : c = responseHandlers
  OBVIOUS
<1>12. c \in Seq(Entry) /\ Len(c) \in Nat /\ DOMAIN c = 1 .. Len(c) /\ i \in 1 .. Len(c)
  BY <1>11, Elements DEF TypeOK
<1>13. /\ responseHandlers' \in Seq(Entry)
       /\ DOMAIN responseHandlers' = 1 .. Len(c) - 1
       /\ \A k \in 1 .. Len(c) - 1 : responseHandlers'[k] = IF k < i THEN c[k] ELSE c[k+1]
  BY <1>9, <1>11, <1>12, SpliceEffect
\* Each entry left was one of the others, and each of the others is left.
<1>14. ASSUME NEW k \in DOMAIN responseHandlers'
       PROVE  \E l \in DOMAIN c : /\ l # i /\ responseHandlers'[k] = c[l]
                                  /\ l = IF k < i THEN k ELSE k+1
  <2>1. CASE k < i
    BY <1>12, <1>13, <2>1
  <2>2. CASE ~ (k < i)
    <3>1. k+1 \in 1 .. Len(c) /\ k+1 # i
      BY <1>12, <1>13, <2>2
    <3> QED  BY <1>12, <1>13, <2>2, <3>1
  <2> QED  BY <2>1, <2>2
<1>15. ASSUME NEW l \in DOMAIN c, l # i
       PROVE  \E k \in DOMAIN responseHandlers' : responseHandlers'[k] = c[l]
  <2>1. CASE l < i
    <3>1. l \in 1 .. Len(c) - 1
      BY <1>12, <2>1
    <3> QED  BY <1>13, <2>1, <3>1
  <2>2. CASE ~ (l < i)
    <3>1. l-1 \in 1 .. Len(c) - 1 /\ ~ (l-1 < i) /\ (l-1)+1 = l
      BY <1>12, <1>15, <2>2
    <3> QED  BY <1>13, <2>2, <3>1
  <2> QED  BY <2>1, <2>2
<1>16. \A q \in Request \ {r} : \A n : Stored(n, q) => Stored(n, q)'
  <2> SUFFICES ASSUME NEW q \in Request \ {r}, NEW n, Stored(n, q) PROVE Stored(n, q)'
    OBVIOUS
  <2>1. PICK l \in DOMAIN c : c[l] = [userReference |-> n, handler |-> q]
    BY <1>11 DEF Stored, ToSet
  <2>2. c[l].handler = q
    BY <2>1
  <2>3. l # i
    BY <1>8, <1>11, <2>2
  <2> QED  BY <1>15, <2>1, <2>3 DEF Stored, ToSet
<1>17. FramesPlaced'
  BY <1>4, <1>10, <1>16, FramesKept
<1>18. HandlersKept'
  <2>1. ASSUME NEW q \in Request
        PROVE  stage'[q] \in Waiting <=>
                 \E k \in DOMAIN responseHandlers' : responseHandlers'[k].handler = q
    <3>1. stage[q] \in Waiting <=> \E l \in DOMAIN c : c[l].handler = q
      BY <1>11 DEF Placed, HandlersKept
    <3>2. \A l \in DOMAIN c : l # i => c[l].handler # r
      BY <1>8, <1>11 DEF Placed, HandlersKept
    <3>3. CASE q = r
      <4>1. stage'[q] \notin Waiting
        BY <1>10, <3>3 DEF Waiting
      <4> QED  BY <1>14, <3>2, <3>3, <4>1
    <3>4. CASE q # r
      <4>1. stage'[q] = stage[q]
        BY <1>10, <3>4 DEF OnlyStages, Call
      <4> QED  BY <1>8, <1>11, <1>14, <1>15, <3>1, <3>4, <4>1
    <3> QED  BY <3>3, <3>4
  <2>2. ASSUME NEW k \in DOMAIN responseHandlers', NEW l \in DOMAIN responseHandlers', k # l
        PROVE  /\ responseHandlers'[k].handler # responseHandlers'[l].handler
               /\ responseHandlers'[k].userReference # responseHandlers'[l].userReference
    <3>1. PICK x \in DOMAIN c : responseHandlers'[k] = c[x] /\ x = IF k < i THEN k ELSE k+1
      BY <1>14
    <3>2. PICK y \in DOMAIN c : responseHandlers'[l] = c[y] /\ y = IF l < i THEN l ELSE l+1
      BY <1>14
    <3>3. x # y
      BY <1>12, <1>13, <2>2, <3>1, <3>2
    <3> QED  BY <1>11, <3>1, <3>2, <3>3 DEF Placed, HandlersKept
  <2> QED  BY <2>1, <2>2 DEF HandlersKept
<1>19. answered' \in Seq([handler : Request, message : Request]) /\ AnswersPlaced'
  <2>1. answered \in Seq([handler : Request, message : Request]) /\ Distinct(answered)
    BY DEF TypeOK, Placed, AnswersPlaced
  <2>2. a \in [handler : Request, message : Request] /\ a.handler = r /\ a.message = r
    BY <1>5, <1>7
  <2>3. ASSUME NEW b \in ToSet(answered)
        PROVE  b.handler = b.message /\ stage'[b.message] = "answered" /\ b.message # r
    <3>1. b.handler = b.message /\ stage[b.message] = "answered"
      BY DEF Placed, AnswersPlaced
    <3>2. b \in [handler : Request, message : Request]
      BY <2>1, Elements
    <3>3. b.message \in Call
      BY <3>2 DEF Call
    <3> QED  BY <1>5, <1>10, <3>1, <3>3 DEF OnlyStages
  <2>4. /\ Append(answered, a) \in Seq([handler : Request, message : Request])
        /\ ToSet(Append(answered, a)) = ToSet(answered) \cup {a}
        /\ Distinct(Append(answered, a))
    BY <2>1, <2>2, <2>3, AppendEffect
  <2> QED  BY <1>9, <1>10, <2>2, <2>3, <2>4 DEF AnswersPlaced
<1>20. TypeOK'
  BY <1>3, <1>4, <1>10, <1>13, <1>19 DEF TypeOK, OnlyStages
<1> QED  BY <1>17, <1>18, <1>19, <1>20 DEF Placed

LEMMA OtherMessageStep ==
  ASSUME TypeOK, Placed, HandleRequestError \/ HandleNotice
  PROVE  (TypeOK /\ Placed)'
<1>1. PICK x : x = Message.message
  OBVIOUS
<1>2. /\ received # <<>> /\ received' = Tail(received)
      /\ UNCHANGED <<readyState, responseHandlers, sent, answered>>
  BY DEF HandleRequestError, HandleNotice, Arrived
<1>3. Incoming(Message) /\ x \in Call /\ received' \in Seq(Frame) /\ FramesStep({x})
  BY <1>1, <1>2, ReadEffect
<1>4. OnlyStages({x})
  BY <1>1, <1>3 DEF HandleRequestError, HandleNotice, TypeOK, OnlyStages, Stage
<1>5. TypeOK'
  BY <1>2, <1>3, <1>4 DEF TypeOK, OnlyStages
<1>6. /\ stage[x] # "answered"
      /\ x \in Request => (stage[x] \in Waiting <=> stage'[x] \in Waiting)
  <2>1. CASE HandleRequestError
    <3>1. x \in Request /\ stage[x] = "replying"
      BY <1>1, <1>3, <2>1 DEF HandleRequestError, Incoming
    <3>2. stage'[x] = "refused"
      BY <1>1, <1>3, <2>1 DEF HandleRequestError, TypeOK
    <3> QED  BY <3>1, <3>2 DEF Waiting
  <2>2. CASE HandleNotice
    BY <1>1, <1>3, <2>2, CallsAssumption DEF HandleNotice, Incoming
  <2> QED  BY <2>1, <2>2
<1> QED  BY <1>2, <1>3, <1>4, <1>5, <1>6, Moved
-----------------------------------------------------------------------------
(***************************************************************************)
(* The other end and the socket.                                           *)
(***************************************************************************)
LEMMA ServeEffect ==
  ASSUME TypeOK, Placed, sent # <<>>
  PROVE  /\ Head(sent) \in Frame /\ Outgoing(Head(sent)) /\ Head(sent).message \in Call
         /\ Tail(sent) \in Seq(Frame) /\ Distinct(Tail(sent))
         /\ ToSet(Tail(sent)) \subseteq ToSet(sent)
         /\ \A f \in ToSet(Tail(sent)) : f.message # Head(sent).message
         /\ \A f \in ToSet(received) : f.message # Head(sent).message
<1>1. sent \in Seq(Frame) /\ Distinct(sent)
  BY DEF TypeOK, Placed, FramesPlaced
<1>2. /\ Tail(sent) \in Seq(Frame) /\ Head(sent) \in Frame /\ Head(sent) \in ToSet(sent)
      /\ ToSet(Tail(sent)) \subseteq ToSet(sent)
      /\ \A f \in ToSet(Tail(sent)) : f.message # Head(sent).message
      /\ Distinct(Tail(sent))
  BY <1>1, TailEffect
<1>3. Outgoing(Head(sent)) /\ Head(sent).message \in Call
  BY <1>2 DEF Placed, FramesPlaced, Outgoing, Call
<1>4. ASSUME NEW f \in ToSet(received), f.message = Head(sent).message PROVE FALSE
  <2>1. Incoming(f)
    BY DEF Placed, FramesPlaced
  <2> QED  BY <1>3, <1>4, <2>1, CallsAssumption DEF Outgoing, Incoming
<1> QED  BY <1>2, <1>3, <1>4

LEMMA ServeInfoStep ==
  ASSUME TypeOK, Placed, ServeInfo
  PROVE  (TypeOK /\ Placed)'
<1>1. PICK x : x = Head(sent).message
  OBVIOUS
<1>2. /\ sent # <<>> /\ Head(sent).type = "INFO" /\ sent' = Tail(sent)
      /\ stage' = [stage EXCEPT ![x] = "done"]
      /\ UNCHANGED <<readyState, responseHandlers, received, answered>>
  BY <1>1 DEF ServeInfo
<1>3. x \in Info /\ x \in Call /\ x \notin Request /\ stage[x] = "sent"
  BY <1>1, <1>2, ServeEffect, CallsAssumption DEF Outgoing
<1>4. OnlyStages({x})
  BY <1>2, <1>3 DEF TypeOK, OnlyStages, Stage
<1>5. FramesStep({x}) /\ sent' \in Seq(Frame)
  BY <1>1, <1>2, ServeEffect DEF FramesStep, Placed, FramesPlaced
<1>6. TypeOK'
  BY <1>2, <1>4, <1>5 DEF TypeOK, OnlyStages
<1> QED  BY <1>2, <1>3, <1>4, <1>5, <1>6, Moved

LEMMA ServeRequestStep ==
  ASSUME TypeOK, Placed, ServeRequest
  PROVE  (TypeOK /\ Placed)'
<1>1. PICK m : m = Head(sent)
  OBVIOUS
<1>2. PICK x : x = m.message
  OBVIOUS
<1>3. PICK type \in {"RESPONSE", "REQUESTERROR"} :
        received' = Append(received, [m EXCEPT !.type = type])
  BY <1>1 DEF ServeRequest
<1>4. /\ sent # <<>> /\ m.type = "REQUEST" /\ sent' = Tail(sent)
      /\ stage' = [stage EXCEPT ![x] = "replying"]
      /\ UNCHANGED <<readyState, responseHandlers, answered>>
  BY <1>1, <1>2 DEF ServeRequest
<1>5. /\ m \in Frame /\ x \in Request /\ x \in Call /\ stage[x] = "sent"
      /\ Stored(m.userReference, x)
  BY <1>1, <1>2, <1>4, ServeEffect DEF Outgoing
<1>6. PICK f : f = [m EXCEPT !.type = type]
  OBVIOUS
<1>7. /\ f \in Frame /\ f.type = type /\ f.message = x
      /\ f.userReference = m.userReference
  <2>1. m \in [type : {"REQUEST", "RESPONSE", "REQUESTERROR"}, userReference : Nat,
                message : Request]
    BY <1>2, <1>5, CallsAssumption DEF Frame
  <2> QED  BY <1>2, <1>6, <2>1 DEF Frame
<1>8. OnlyStages({x}) /\ stage'[x] = "replying"
  BY <1>4, <1>5 DEF TypeOK, OnlyStages, Stage
<1>9. /\ received' \in Seq(Frame) /\ ToSet(received') = ToSet(received) \cup {f}
      /\ Distinct(received')
  <2>1. received \in Seq(Frame) /\ Distinct(received)
    BY DEF TypeOK, Placed, FramesPlaced
  <2>2. \A g \in ToSet(received) : g.message # f.message
    BY <1>1, <1>2, <1>4, <1>7, ServeEffect
  <2>3. received' = Append(received, f)
    BY <1>3, <1>6
  <2> QED  BY <1>7, <2>1, <2>2, <2>3, AppendEffect
<1>10. Incoming(f)'
  BY <1>4, <1>5, <1>7, <1>8 DEF Incoming, Stored
<1>11. FramesStep({x}) /\ sent' \in Seq(Frame)
  BY <1>1, <1>2, <1>4, <1>9, <1>10, ServeEffect DEF FramesStep
<1>12. TypeOK'
  BY <1>4, <1>8, <1>9, <1>11 DEF TypeOK, OnlyStages
<1>13. stage[x] \in Waiting /\ stage'[x] \in Waiting /\ stage[x] # "answered"
  BY <1>5, <1>8 DEF Waiting
<1> QED  BY <1>4, <1>8, <1>11, <1>12, <1>13, Moved

LEMMA NotifyStep ==
  ASSUME TypeOK, Placed, NEW x \in Notice, Notify(x)
  PROVE  (TypeOK /\ Placed)'
<1>1. PICK f : /\ f \in {[type |-> "INFO", userReference |-> 0, message |-> x]} \cup
                        {[type |-> "REQUEST", userReference |-> reference, message |-> x] :
                           reference \in OtherReferences}
               /\ received' = Append(received, f)
  BY DEF Notify
<1>2. /\ stage[x] = "idle" /\ stage' = [stage EXCEPT ![x] = "sent"]
      /\ UNCHANGED <<readyState, responseHandlers, sent, answered>>
  BY DEF Notify
<1>3. f.message = x /\ f.type \in {"INFO", "REQUEST"} /\ f \in Frame
  BY <1>1 DEF Frame, OtherReferences, FirstReference
<1>4. x \in Call /\ x \notin Request
  BY CallsAssumption DEF Call
<1>5. OnlyStages({x}) /\ stage'[x] = "sent"
  BY <1>2, <1>4 DEF TypeOK, OnlyStages, Stage
<1>6. /\ received' \in Seq(Frame) /\ ToSet(received') = ToSet(received) \cup {f}
      /\ Distinct(received')
  <2>1. received \in Seq(Frame) /\ Distinct(received)
    BY DEF TypeOK, Placed, FramesPlaced
  <2>2. \A g \in ToSet(received) : g.message # f.message
    BY <1>2, <1>3, NoFrame
  <2> QED  BY <1>1, <1>3, <2>1, <2>2, AppendEffect
<1>7. Incoming(f)'
  BY <1>3, <1>5 DEF Incoming
<1>8. /\ \A g \in ToSet(sent) : g.message # x
      /\ \A g \in ToSet(received) : g.message # x
  BY <1>2, NoFrame
<1>9. FramesStep({x})
  BY <1>2, <1>6, <1>7, <1>8 DEF FramesStep, Placed, FramesPlaced
<1>10. TypeOK'
  BY <1>2, <1>5, <1>6 DEF TypeOK, OnlyStages
<1> QED  BY <1>2, <1>4, <1>5, <1>9, <1>10, Moved

LEMMA ClosedStep ==
  ASSUME TypeOK, Placed, Closed
  PROVE  (TypeOK /\ Placed)'
<1>1. /\ readyState' = "CLOSED" /\ sent' = <<>> /\ received' = <<>>
      /\ UNCHANGED <<responseHandlers, answered>>
  BY DEF Closed
<1>2. \A x \in Call : stage'[x] = IF stage[x] \in {"sent", "replying"} THEN "lost" ELSE stage[x]
  BY DEF Closed, TypeOK
<1>3. stage' \in [Call -> Stage]
  BY DEF Closed, TypeOK, Stage
<1>4. <<>> \in Seq(Frame) /\ ToSet(<<>>) = {} /\ Distinct(<<>>)
  BY EmptySeq DEF ToSet, Distinct
<1>5. TypeOK'
  BY <1>1, <1>3, <1>4 DEF TypeOK
<1> DEFINE C == {x \in Call : stage[x] \in {"sent", "replying"}}
<1>6. OnlyStages(C) /\ FramesStep(C)
  BY <1>1, <1>2, <1>3, <1>4 DEF OnlyStages, FramesStep
<1>7. \A x \in C : /\ stage[x] # "answered"
                   /\ stage[x] \in Waiting /\ stage'[x] \in Waiting
  BY <1>2 DEF Waiting
<1> HIDE DEF C
<1> QED  BY <1>1, <1>5, <1>6, <1>7, Moved

\* A step of the socket's state alone.
LEMMA SocketSteps ==
  ASSUME TypeOK, Placed, close \/ Open \/ UNCHANGED vars
  PROVE  (TypeOK /\ Placed)'
<1>1. UNCHANGED <<responseHandlers, sent, received, stage, answered>>
  BY DEF close, Open, vars
<1>2. TypeOK'
  BY <1>1 DEF TypeOK, close, Open, vars
<1> QED
  BY <1>1, <1>2 DEF Placed, FramesPlaced, Outgoing, Incoming, Stored, AnswersPlaced,
                    HandlersKept, Distinct
-----------------------------------------------------------------------------
LEMMA StepPlaced == TypeOK /\ Placed /\ [Next]_vars => (TypeOK /\ Placed)'
<1> SUFFICES ASSUME TypeOK, Placed, [Next]_vars PROVE (TypeOK /\ Placed)'
  OBVIOUS
<1>1. CASE (\E r \in Request : sendRequest(r)) \/ (\E i \in Info : sendInfo(i))
  BY <1>1, RequestStep, InfoStep
<1>2. CASE handleMessage
  BY <1>2, ResponseStep, OtherMessageStep DEF handleMessage
<1>3. CASE Serve \/ \E n \in Notice : Notify(n)
  BY <1>3, ServeInfoStep, ServeRequestStep, NotifyStep DEF Serve
<1>4. CASE close \/ Open \/ Closed \/ UNCHANGED vars
  BY <1>4, SocketSteps, ClosedStep
<1> QED  BY <1>1, <1>2, <1>3, <1>4 DEF Next

(***************************************************************************)
(* Every call is in one frame at most, which agrees with how far the call  *)
(* has got; every handler that may still be called is stored under the     *)
(* reference that frame carries (Communique.js:40-113).                    *)
(***************************************************************************)
THEOREM CallsPlaced == Spec => [](TypeOK /\ Placed)
BY InitPlaced, StepPlaced, PTL DEF Spec

(***************************************************************************)
(* Every variable keeps its type: in particular the other end replies to   *)
(* requests only, so that every reply is about a request.                  *)
(***************************************************************************)
THEOREM TypeCorrect == Spec => []TypeOK
BY CallsPlaced, PTL

(***************************************************************************)
(* The array holds the handlers that are still to be called and those      *)
(* whose request will get no response, one entry and one reference each    *)
(* (Communique.js:50-60, 100-113).                                         *)
(***************************************************************************)
THEOREM HandlersCorrect == Spec => []HandlersKept
<1>1. Placed => HandlersKept
  BY DEF Placed
<1> QED  BY <1>1, CallsPlaced, PTL

(***************************************************************************)
(* A handler is called once, with the response to its own request, though  *)
(* references are used again, and the other end uses the same ones for     *)
(* requests of its own (Communique.js:40-60, 100-113).                     *)
(***************************************************************************)
THEOREM RepliesCorrect == Spec => []RepliesReachTheirHandler
<1>1. TypeOK /\ Placed => RepliesReachTheirHandler
  <2> SUFFICES ASSUME TypeOK, Placed, NEW i \in DOMAIN answered
               PROVE  /\ answered[i].handler = answered[i].message
                      /\ \A j \in 1 .. i - 1 : answered[j] # answered[i]
    BY DEF RepliesReachTheirHandler
  <2>1. answered \in Seq([handler : Request, message : Request])
    BY DEF TypeOK
  <2>2. i \in 1 .. Len(answered) /\ Len(answered) \in Nat /\ DOMAIN answered = 1 .. Len(answered)
    BY <2>1, LenProperties
  <2>3. \A j \in 1 .. i - 1 : j \in DOMAIN answered /\ j # i
    BY <2>2
  <2> QED  BY <2>3 DEF Placed, AnswersPlaced, Distinct, ToSet
<1> QED  BY <1>1, CallsPlaced, PTL
=============================================================================
