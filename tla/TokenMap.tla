------------------------------ MODULE TokenMap ------------------------------
(***************************************************************************)
(* What UniqueTokenStorage promises (UniqueTokenStorage.h:26-36): push     *)
(* stores an element under a token that nothing else is stored under, pop  *)
(* takes out what was stored under the token, and threads may call both at *)
(* the same time.  Between its call and its return an operation takes      *)
(* effect in one step, whatever the other threads do meanwhile.            *)
(***************************************************************************)
CONSTANTS Thread, Token, Element, NoElement

VARIABLES store,    \* store[t]: the element stored under token t, or NoElement
          call      \* call[n]: what thread n is doing, or what its last call returned

vars == <<store, call>>

Idle    == [pc : {"idle"}]
Pending == [pc : {"push"}, element : Element] \cup [pc : {"pop"}, token : Token]
Outcome ==      [pc : {"pushed"}, element : Element, token : Token]
           \cup [pc : {"full"}, element : Element]
           \cup [pc : {"popped"}, token : Token, element : Element]
           \cup [pc : {"missed"}, token : Token]

Init ==
  /\ store = [t \in Token |-> NoElement]
  /\ call = [n \in Thread |-> [pc |-> "idle"]]

Call(n) ==
  /\ call[n].pc \notin {"push", "pop"}
  /\ \E c \in Pending : call' = [call EXCEPT ![n] = c]
  /\ UNCHANGED store

\* Any free token will do: which one is the implementation's choice.
Push(n, t) ==
  /\ call[n].pc = "push"
  /\ store[t] = NoElement
  /\ store' = [store EXCEPT ![t] = call[n].element]
  /\ call' = [call EXCEPT ![n] =
                [pc |-> "pushed", element |-> call[n].element, token |-> t]]

\* push may fail only when every token is in use.
PushThrows(n) ==
  /\ call[n].pc = "push"
  /\ \A t \in Token : store[t] # NoElement
  /\ call' = [call EXCEPT ![n] = [pc |-> "full", element |-> call[n].element]]
  /\ UNCHANGED store

Pop(n) ==
  /\ call[n].pc = "pop"
  /\ store[call[n].token] # NoElement
  /\ store' = [store EXCEPT ![call[n].token] = NoElement]
  /\ call' = [call EXCEPT ![n] =
                [pc |-> "popped", token |-> call[n].token,
                 element |-> store[call[n].token]]]

PopMiss(n) ==
  /\ call[n].pc = "pop"
  /\ store[call[n].token] = NoElement
  /\ call' = [call EXCEPT ![n] = [pc |-> "missed", token |-> call[n].token]]
  /\ UNCHANGED store

Next ==
  \E n \in Thread : \/ Call(n) \/ PushThrows(n) \/ Pop(n) \/ PopMiss(n)
                    \/ \E t \in Token : Push(n, t)

Spec == Init /\ [][Next]_vars
=============================================================================
