--------------------- MODULE UniqueTokenStorage_proofs ---------------------
(***************************************************************************)
(* For any number of threads and elements and any limit of the token type: *)
(* the token list stays sorted, what getFreeToken and find computed is     *)
(* still right when it is used, and the class implements TokenMap.         *)
(***************************************************************************)
EXTENDS UniqueTokenStorage, TokenList_proofs

\* The inductive invariant: emplace needs the token and the place to be right.
Inv == TypeOK /\ TokensAscend /\ LocalsFresh

Calls == Returned \cup Waiting \cup Locked

\* The locals of a call, by where it has got to.
LEMMA CallShape ==
  ASSUME NEW c \in Calls
  PROVE  /\ c.pc \in ReturnedPc \cup LockedPc \cup {"push", "pop"}
         /\ c.pc \in {"push", "getFreeToken", "emplace"} => c.element \in Element
         /\ c.pc \in {"pop", "find", "erase", "emplace"} => c.token \in Token
         /\ c.pc \in {"emplace", "erase"} => c.iterator \in Nat
<1>1. CASE c \in Returned
  BY <1>1 DEF Returned, ReturnedPc
<1>2. CASE c \in Waiting
  BY <1>2 DEF Waiting
<1>3. CASE c \in Locked
  BY <1>3 DEF Locked, LockedPc
<1> QED  BY <1>1, <1>2, <1>3 DEF Calls

(***************************************************************************)
(* A thread that takes the lock, works under it or gives it back leaves    *)
(* the others alone, for they do not hold it.                              *)
(***************************************************************************)
LEMMA OthersFresh ==
  ASSUME Inv, NEW n \in Thread, NEW c,
         call' = [call EXCEPT ![n] = c],
         \/ lockMutex = n /\ lockMutex' \in {n, NoThread}
         \/ lockMutex = NoThread /\ lockMutex' = n /\ container' = container
         \/ lockMutex' = lockMutex /\ container' = container,
         lockMutex' = n <=> c.pc \in LockedPc,
         c.pc = "emplace" => FreeToken(container', c.token, c.iterator),
         c.pc = "erase" => /\ c.iterator \in DOMAIN container'
                           /\ container'[c.iterator].first = c.token
  PROVE  LocalsFresh'
<1>1. ASSUME NEW m \in Thread
      PROVE  /\ call'[m].pc \in LockedPc <=> lockMutex' = m
             /\ call'[m].pc = "emplace" =>
                  FreeToken(container', call'[m].token, call'[m].iterator)
             /\ call'[m].pc = "erase" =>
                  /\ call'[m].iterator \in DOMAIN container'
                  /\ container'[call'[m].iterator].first = call'[m].token
  <2>1. CASE m = n
    <3>1. call'[m] = c
      BY <2>1 DEF Inv, TypeOK
    <3> QED  BY <2>1, <3>1
  <2>2. CASE m # n
    <3>1. call'[m] = call[m]
      BY <2>2 DEF Inv, TypeOK
    <3>2. /\ call[m].pc \in LockedPc <=> lockMutex = m
          /\ call[m].pc = "emplace" =>
               FreeToken(container, call[m].token, call[m].iterator)
          /\ call[m].pc = "erase" => /\ call[m].iterator \in DOMAIN container
                                     /\ container[call[m].iterator].first = call[m].token
      BY DEF Inv, LocalsFresh
    <3>3. lockMutex' = m <=> lockMutex = m
      BY <2>2, ThreadAssumption
    <3>4. CASE container' = container
      BY <3>1, <3>2, <3>3, <3>4
    <3>5. CASE lockMutex = n
      <4>1. call[m].pc \notin LockedPc
        BY <2>2, <3>2, <3>5
      <4> QED  BY <3>1, <3>3, <3>5, <4>1, <2>2 DEF LockedPc
    <3> QED  BY <3>4, <3>5
  <2> QED  BY <2>1, <2>2
<1> QED  BY <1>1 DEF LocalsFresh

LEMMA InitInv == Init => Inv
<1> SUFFICES ASSUME Init PROVE Inv
  OBVIOUS
<1> USE DEF Init
<1>1. TypeOK
  BY EmptySeq DEF TypeOK, Returned
<1>2. TokensAscend
  BY DEF TokensAscend, Ascending
<1>3. LocalsFresh
  BY ThreadAssumption DEF LocalsFresh, LockedPc
<1> QED  BY <1>1, <1>2, <1>3 DEF Inv

LEMMA StepInv == Inv /\ [Next]_vars => Inv'
<1> SUFFICES ASSUME Inv, [Next]_vars PROVE Inv'
  OBVIOUS
<1> USE DEF Calls
<1>1. /\ container \in Seq(Entry(Element)) /\ Ascending(container)
      /\ call \in [Thread -> Calls]
      /\ lockMutex \in Thread \cup {NoThread}
  BY DEF Inv, TypeOK, TokensAscend
<1>2. /\ Len(container) \in Nat /\ DOMAIN container = 1 .. Len(container)
      /\ \A q \in DOMAIN container : container[q].second \in Element
  BY <1>1, ListTypes
\* What an action has to establish, if it changes the call of thread n only.
<1>3. ASSUME NEW n \in Thread, NEW c \in Calls, call' = [call EXCEPT ![n] = c],
             lockMutex' \in {lockMutex, n, NoThread},
             container' \in Seq(Entry(Element)), Ascending(container'), LocalsFresh'
      PROVE  Inv'
  BY <1>1, <1>3 DEF Inv, TypeOK, TokensAscend
<1>4. ASSUME NEW n \in Thread
      PROVE  /\ call[n] \in Calls
             /\ call[n].pc \in LockedPc <=> lockMutex = n
             /\ call[n].pc = "emplace" =>
                  FreeToken(container, call[n].token, call[n].iterator)
             /\ call[n].pc = "erase" => /\ call[n].iterator \in DOMAIN container
                                        /\ container[call[n].iterator].first = call[n].token
  BY <1>1 DEF Inv, LocalsFresh
<1>5. ASSUME NEW n \in Thread, NEW e \in Element, StartPush(n, e) PROVE Inv'
  <2> DEFINE c == [pc |-> "push", element |-> e]
  <2>1. c \in Calls /\ c.pc \notin LockedPc /\ c.pc = "push"
    BY DEF Waiting, LockedPc
  <2>2. /\ call' = [call EXCEPT ![n] = c] /\ call[n].pc \in ReturnedPc
        /\ container' = container /\ lockMutex' = lockMutex
    BY <1>5 DEF StartPush
  <2>3. lockMutex # n
    BY <1>4, <2>2 DEF ReturnedPc, LockedPc
  <2> HIDE DEF c
  <2>4. LocalsFresh'
    BY <2>1, <2>2, <2>3, OthersFresh
  <2> QED  BY <1>1, <1>3, <2>1, <2>2, <2>4
<1>6. ASSUME NEW n \in Thread, NEW t \in Token, StartPop(n, t) PROVE Inv'
  <2> DEFINE c == [pc |-> "pop", token |-> t]
  <2>1. c \in Calls /\ c.pc \notin LockedPc /\ c.pc = "pop"
    BY DEF Waiting, LockedPc
  <2>2. /\ call' = [call EXCEPT ![n] = c] /\ call[n].pc \in ReturnedPc
        /\ container' = container /\ lockMutex' = lockMutex
    BY <1>6 DEF StartPop
  <2>3. lockMutex # n
    BY <1>4, <2>2 DEF ReturnedPc, LockedPc
  <2> HIDE DEF c
  <2>4. LocalsFresh'
    BY <2>1, <2>2, <2>3, OthersFresh
  <2> QED  BY <1>1, <1>3, <2>1, <2>2, <2>4
<1>7. ASSUME NEW n \in Thread, LockPush(n) PROVE Inv'
  <2> DEFINE c == [pc |-> "getFreeToken", element |-> call[n].element]
  <2>1. c \in Calls /\ c.pc \in LockedPc /\ c.pc = "getFreeToken"
    <3>1. call[n].element \in Element
      BY <1>4, <1>7, CallShape DEF LockPush
    <3> QED  BY <3>1 DEF Locked, LockedPc
  <2>2. /\ call' = [call EXCEPT ![n] = c]
        /\ lockMutex = NoThread /\ lockMutex' = n /\ container' = container
    BY <1>7 DEF LockPush
  <2> HIDE DEF c
  <2>3. LocalsFresh'
    BY <2>1, <2>2, OthersFresh
  <2> QED  BY <1>1, <1>3, <2>1, <2>2, <2>3
<1>8. ASSUME NEW n \in Thread, NEW t \in Token, NEW p \in 1 .. Len(container) + 1,
             GetFreeToken(n, t, p)
      PROVE  Inv'
  <2> DEFINE c == [pc |-> "emplace", element |-> call[n].element,
                   token |-> t, iterator |-> p]
  <2>1. c \in Calls /\ c.pc \in LockedPc /\ c.pc = "emplace"
    <3>1. call[n].element \in Element
      BY <1>4, <1>8, CallShape DEF GetFreeToken
    <3> QED  BY <1>2, <3>1 DEF Locked, LockedPc
  <2>2. /\ call' = [call EXCEPT ![n] = c] /\ call[n].pc = "getFreeToken"
        /\ lockMutex' = lockMutex /\ container' = container
        /\ FreeToken(container, c.token, c.iterator)
    BY <1>8 DEF GetFreeToken
  <2>3. lockMutex = n
    BY <1>4, <2>2 DEF LockedPc
  <2> HIDE DEF c
  <2>4. LocalsFresh'
    BY <2>1, <2>2, <2>3, OthersFresh
  <2> QED  BY <1>1, <1>3, <2>1, <2>2, <2>4
<1>9. ASSUME NEW n \in Thread, GetFreeTokenThrows(n) PROVE Inv'
  <2> DEFINE c == [pc |-> "full", element |-> call[n].element]
  <2>1. c \in Calls /\ c.pc \notin LockedPc /\ c.pc = "full"
    <3>1. call[n].element \in Element
      BY <1>4, <1>9, CallShape DEF GetFreeTokenThrows
    <3> QED  BY <3>1 DEF Returned, LockedPc
  <2>2. /\ call' = [call EXCEPT ![n] = c] /\ call[n].pc = "getFreeToken"
        /\ lockMutex' = NoThread /\ container' = container
    BY <1>9 DEF GetFreeTokenThrows
  <2>3. lockMutex = n
    BY <1>4, <2>2 DEF LockedPc
  <2> HIDE DEF c
  <2>4. LocalsFresh'
    BY <2>1, <2>2, <2>3, ThreadAssumption, OthersFresh
  <2> QED  BY <1>1, <1>3, <2>1, <2>2, <2>4
<1>10. ASSUME NEW n \in Thread, EmplaceToken(n) PROVE Inv'
  <2> DEFINE c == [pc |-> "pushed", element |-> call[n].element,
                   token |-> call[n].token]
  <2>1. call[n].element \in Element /\ call[n].token \in Token /\ call[n].pc = "emplace"
    BY <1>4, <1>10, CallShape DEF EmplaceToken
  <2>2. c \in Calls /\ c.pc \notin LockedPc /\ c.pc = "pushed"
    BY <2>1 DEF Returned, LockedPc
  <2>3. /\ call' = [call EXCEPT ![n] = c] /\ lockMutex' = NoThread
        /\ container' = Emplace(container, call[n].iterator, call[n].token, call[n].element)
    BY <1>10 DEF EmplaceToken
  <2>4. lockMutex = n /\ FreeToken(container, call[n].token, call[n].iterator)
    BY <1>4, <2>1 DEF LockedPc
  <2>5. container' \in Seq(Entry(Element)) /\ Ascending(container')
    <3>1. call[n].iterator \in 1 .. Len(container) + 1
      BY <1>1, <2>4, FreeTokenFits
    <3> QED  BY <1>1, <2>1, <2>3, <2>4, <3>1, EmplaceEffect, EmplaceAscends
  <2> HIDE DEF c
  <2>6. LocalsFresh'
    BY <2>2, <2>3, <2>4, ThreadAssumption, OthersFresh
  <2> QED  BY <1>3, <2>2, <2>3, <2>5, <2>6
<1>11. ASSUME NEW n \in Thread, LockPop(n) PROVE Inv'
  <2> DEFINE c == [pc |-> "find", token |-> call[n].token]
  <2>1. c \in Calls /\ c.pc \in LockedPc /\ c.pc = "find"
    <3>1. call[n].token \in Token
      BY <1>4, <1>11, CallShape DEF LockPop
    <3> QED  BY <3>1 DEF Locked, LockedPc
  <2>2. /\ call' = [call EXCEPT ![n] = c]
        /\ lockMutex = NoThread /\ lockMutex' = n /\ container' = container
    BY <1>11 DEF LockPop
  <2> HIDE DEF c
  <2>3. LocalsFresh'
    BY <2>1, <2>2, OthersFresh
  <2> QED  BY <1>1, <1>3, <2>1, <2>2, <2>3
<1>12. ASSUME NEW n \in Thread, NEW p \in 1 .. Len(container), FindToken(n, p) PROVE Inv'
  <2> DEFINE c == [pc |-> "erase", token |-> call[n].token, iterator |-> p]
  <2>1. c \in Calls /\ c.pc \in LockedPc /\ c.pc = "erase"
    <3>1. call[n].token \in Token
      BY <1>4, <1>12, CallShape DEF FindToken
    <3> QED  BY <1>2, <3>1 DEF Locked, LockedPc
  <2>2. /\ call' = [call EXCEPT ![n] = c] /\ call[n].pc = "find"
        /\ lockMutex' = lockMutex /\ container' = container
        /\ c.iterator \in DOMAIN container /\ container[c.iterator].first = c.token
    BY <1>12 DEF FindToken, Find
  <2>3. lockMutex = n
    BY <1>4, <2>2 DEF LockedPc
  <2> HIDE DEF c
  <2>4. LocalsFresh'
    BY <2>1, <2>2, <2>3, OthersFresh
  <2> QED  BY <1>1, <1>3, <2>1, <2>2, <2>4
<1>13. ASSUME NEW n \in Thread, PopMiss(n) PROVE Inv'
  <2> DEFINE c == [pc |-> "missed", token |-> call[n].token]
  <2>1. c \in Calls /\ c.pc \notin LockedPc /\ c.pc = "missed"
    <3>1. call[n].token \in Token
      BY <1>4, <1>13, CallShape DEF PopMiss
    <3> QED  BY <3>1 DEF Returned, LockedPc
  <2>2. /\ call' = [call EXCEPT ![n] = c] /\ call[n].pc = "find"
        /\ lockMutex' = NoThread /\ container' = container
    BY <1>13 DEF PopMiss
  <2>3. lockMutex = n
    BY <1>4, <2>2 DEF LockedPc
  <2> HIDE DEF c
  <2>4. LocalsFresh'
    BY <2>1, <2>2, <2>3, ThreadAssumption, OthersFresh
  <2> QED  BY <1>1, <1>3, <2>1, <2>2, <2>4
<1>14. ASSUME NEW n \in Thread, EraseToken(n) PROVE Inv'
  <2> DEFINE c == [pc |-> "popped", token |-> call[n].token,
                   element |-> container[call[n].iterator].second]
  <2>1. /\ call[n].pc = "erase" /\ call[n].iterator \in DOMAIN container
        /\ call[n].token \in Token /\ container[call[n].iterator].second \in Element
    BY <1>2, <1>4, <1>14, CallShape DEF EraseToken
  <2>2. c \in Calls /\ c.pc \notin LockedPc /\ c.pc = "popped"
    BY <2>1 DEF Returned, LockedPc
  <2>3. /\ call' = [call EXCEPT ![n] = c] /\ lockMutex' = NoThread
        /\ container' = Erase(container, call[n].iterator)
    BY <1>14 DEF EraseToken
  <2>4. lockMutex = n
    BY <1>4, <2>1 DEF LockedPc
  <2>5. container' \in Seq(Entry(Element)) /\ Ascending(container')
    BY <1>1, <1>2, <2>1, <2>3, EraseEffect, EraseAscends
  <2> HIDE DEF c
  <2>6. LocalsFresh'
    BY <2>2, <2>3, <2>4, ThreadAssumption, OthersFresh
  <2> QED  BY <1>3, <2>2, <2>3, <2>5, <2>6
<1>15. CASE UNCHANGED vars
  BY <1>15 DEF vars, Inv, TypeOK, TokensAscend, LocalsFresh
<1> QED  BY <1>5, <1>6, <1>7, <1>8, <1>9, <1>10, <1>11, <1>12, <1>13, <1>14, <1>15
         DEF Next, Start, Step

THEOREM Invariance == Spec => []Inv
<1>1. Init => Inv
  BY InitInv
<1>2. Inv /\ [Next]_vars => Inv'
  BY StepInv
<1> QED  BY <1>1, <1>2, PTL DEF Spec

\* The variables and the locals of every call have the types declared for them.
THEOREM TypeCorrect == Spec => []TypeOK
<1>1. Inv => TypeOK
  BY DEF Inv
<1> QED  BY <1>1, Invariance, PTL

(***************************************************************************)
(* Whatever calls overlap, the token list is sorted and so holds no token  *)
(* twice (UniqueTokenStorage.h:183-218).                                   *)
(***************************************************************************)
THEOREM TokensUnique == Spec => []TokensAscend
<1>1. Inv => TokensAscend
  BY DEF Inv
<1> QED  BY <1>1, Invariance, PTL

(***************************************************************************)
(* The token, the place and the entry computed at the start of push or pop *)
(* are right when they are used (the lock_guard of lines 80 and 115).      *)
(***************************************************************************)
THEOREM LockProtects == Spec => []LocalsFresh
<1>1. Inv => LocalsFresh
  BY DEF Inv
<1> QED  BY <1>1, Invariance, PTL
-----------------------------------------------------------------------------
(***************************************************************************)
(* The list as the map from tokens to elements that TokenMap speaks of.    *)
(***************************************************************************)
LEMMA StoreAt ==
  ASSUME NEW c \in Seq(Entry(Element)), Ascending(c)
  PROVE  /\ \A p \in DOMAIN c : AsStore(c)[c[p].first] = c[p].second
         /\ \A t \in Token : (\A p \in DOMAIN c : c[p].first # t)
                             => AsStore(c)[t] = NoElement
<1>1. ASSUME NEW p \in DOMAIN c PROVE AsStore(c)[c[p].first] = c[p].second
  <2> DEFINE q == CHOOSE q \in DOMAIN c : c[q].first = c[p].first
  <2>1. q \in DOMAIN c /\ c[q].first = c[p].first
    OBVIOUS
  <2> HIDE DEF q
  <2>2. q = p
    BY <2>1, OnePlace
  <2>3. c[p].first \in Token
    BY ListTypes
  <2>4. AsStore(c)[c[p].first] = c[q].second
    BY <2>3 DEF AsStore, q
  <2> QED  BY <2>2, <2>4
<1>2. ASSUME NEW t \in Token, \A p \in DOMAIN c : c[p].first # t
      PROVE  AsStore(c)[t] = NoElement
  BY <1>2 DEF AsStore
<1> QED  BY <1>1, <1>2

LEMMA StoreOfEmplace ==
  ASSUME NEW c \in Seq(Entry(Element)), Ascending(c),
         NEW t, NEW p, FreeToken(c, t, p), NEW e \in Element
  PROVE  /\ t \in Token /\ AsStore(c)[t] = NoElement
         /\ AsStore(Emplace(c, p, t, e)) = [AsStore(c) EXCEPT ![t] = e]
<1> DEFINE d == Emplace(c, p, t, e)
<1>1. /\ t \in Token /\ p \in 1 .. Len(c) + 1
      /\ \A q \in DOMAIN c : /\ q < p => c[q].first < t
                             /\ q >= p => c[q].first > t
  BY FreeTokenFits
<1>2. /\ Len(c) \in Nat /\ DOMAIN c = 1 .. Len(c)
      /\ \A q \in DOMAIN c : c[q].first \in Token
  BY ListTypes
<1>3. /\ d \in Seq(Entry(Element)) /\ DOMAIN d = 1 .. Len(c) + 1
      /\ \A q \in 1 .. Len(c) + 1 :
           d[q] = IF q < p THEN c[q]
                  ELSE IF q = p THEN [first |-> t, second |-> e] ELSE c[q-1]
      /\ Ascending(d)
  BY <1>1, EmplaceEffect, EmplaceAscends
<1> HIDE DEF d
<1>4. \A q \in DOMAIN c : c[q].first # t
  BY <1>1, <1>2, MaxTokenAssumption DEF Token
<1>5. AsStore(c)[t] = NoElement
  BY <1>1, <1>4, StoreAt
<1>6. ASSUME NEW u \in Token
      PROVE  AsStore(d)[u] = IF u = t THEN e ELSE AsStore(c)[u]
  <2>1. CASE u = t
    <3>1. p \in DOMAIN d /\ d[p].first = t /\ d[p].second = e
      BY <1>1, <1>2, <1>3
    <3> QED  BY <1>3, <2>1, <3>1, StoreAt
  <2>2. CASE u # t /\ \E q \in DOMAIN c : c[q].first = u
    <3>1. PICK q \in DOMAIN c : c[q].first = u
      BY <2>2
    <3>2. \E k \in DOMAIN d : d[k] = c[q]
      <4>1. CASE q < p
        BY <1>1, <1>2, <1>3, <4>1
      <4>2. CASE q >= p
        <5>1. q+1 \in DOMAIN d /\ d[q+1] = c[q]
          BY <1>1, <1>2, <1>3, <4>2
        <5> QED  BY <5>1
      <4> QED  BY <1>1, <1>2, <4>1, <4>2
    <3> QED  BY <1>3, <2>2, <3>1, <3>2, StoreAt
  <2>3. CASE u # t /\ \A q \in DOMAIN c : c[q].first # u
    <3>1. ASSUME NEW k \in DOMAIN d PROVE d[k].first # u
      <4>1. CASE k < p
        BY <1>1, <1>2, <1>3, <2>3, <4>1
      <4>2. CASE k = p
        BY <1>3, <2>3, <4>2
      <4>3. CASE k > p
        <5>1. k-1 \in DOMAIN c /\ d[k] = c[k-1]
          BY <1>1, <1>2, <1>3, <4>3
        <5> QED  BY <2>3, <5>1
      <4> QED  BY <1>1, <1>2, <1>3, <4>1, <4>2, <4>3
    <3> QED  BY <1>3, <2>3, <3>1, StoreAt
  <2> QED  BY <2>1, <2>2, <2>3
<1>7. AsStore(d) = [AsStore(c) EXCEPT ![t] = e]
  BY <1>1, <1>6 DEF AsStore
<1> QED  BY <1>1, <1>5, <1>7 DEF d

LEMMA StoreOfErase ==
  ASSUME NEW c \in Seq(Entry(Element)), Ascending(c), NEW p \in DOMAIN c
  PROVE  AsStore(Erase(c, p)) = [AsStore(c) EXCEPT ![c[p].first] = NoElement]
<1> DEFINE d == Erase(c, p)
<1>1. /\ Len(c) \in Nat /\ DOMAIN c = 1 .. Len(c)
      /\ \A q \in DOMAIN c : c[q].first \in Token
  BY ListTypes
<1>2. /\ d \in Seq(Entry(Element)) /\ DOMAIN d = 1 .. Len(c) - 1
      /\ \A q \in 1 .. Len(c) - 1 : d[q] = IF q < p THEN c[q] ELSE c[q+1]
      /\ Ascending(d)
  BY <1>1, EraseEffect, EraseAscends
<1> HIDE DEF d
<1>3. ASSUME NEW k \in DOMAIN d
      PROVE  \E q \in DOMAIN c : q # p /\ d[k] = c[q]
  <2>1. CASE k < p
    <3>1. k \in DOMAIN c /\ k # p /\ d[k] = c[k]
      BY <1>1, <1>2, <2>1
    <3> QED  BY <3>1
  <2>2. CASE k >= p
    <3>1. k+1 \in DOMAIN c /\ k+1 # p /\ d[k] = c[k+1]
      BY <1>1, <1>2, <2>2
    <3> QED  BY <3>1
  <2> QED  BY <1>1, <1>2, <2>1, <2>2
<1>4. ASSUME NEW q \in DOMAIN c, q # p
      PROVE  \E k \in DOMAIN d : d[k] = c[q]
  <2>1. CASE q < p
    <3>1. q \in DOMAIN d /\ d[q] = c[q]
      BY <1>1, <1>2, <2>1
    <3> QED  BY <3>1
  <2>2. CASE q > p
    <3>1. q-1 \in DOMAIN d /\ d[q-1] = c[q]
      BY <1>1, <1>2, <2>2
    <3> QED  BY <3>1
  <2> QED  BY <1>1, <1>4, <2>1, <2>2
<1>5. ASSUME NEW u \in Token
      PROVE  AsStore(d)[u] = IF u = c[p].first THEN NoElement ELSE AsStore(c)[u]
  <2>1. CASE u = c[p].first
    <3>1. \A k \in DOMAIN d : d[k].first # u
      BY <1>3, <2>1, OnePlace
    <3> QED  BY <1>2, <2>1, <3>1, StoreAt
  <2>2. CASE u # c[p].first /\ \E q \in DOMAIN c : c[q].first = u
    <3>1. PICK q \in DOMAIN c : c[q].first = u
      BY <2>2
    <3>2. PICK k \in DOMAIN d : d[k] = c[q]
      BY <1>4, <2>2, <3>1
    <3> QED  BY <1>2, <2>2, <3>1, <3>2, StoreAt
  <2>3. CASE u # c[p].first /\ \A q \in DOMAIN c : c[q].first # u
    <3>1. \A k \in DOMAIN d : d[k].first # u
      BY <1>3, <2>3
    <3> QED  BY <1>2, <2>3, <3>1, StoreAt
  <2> QED  BY <2>1, <2>2, <2>3
<1>6. AsStore(d) = [AsStore(c) EXCEPT ![c[p].first] = NoElement]
  BY <1>1, <1>5 DEF AsStore
<1> QED  BY <1>6 DEF d

\* What the calls look like to TokenMap.
LEMMA AsCallCases ==
  ASSUME NEW c \in Calls
  PROVE  /\ c.pc \in {"getFreeToken", "emplace"} =>
              AsCall(c) = [pc |-> "push", element |-> c.element]
         /\ c.pc \in {"find", "erase"} => AsCall(c) = [pc |-> "pop", token |-> c.token]
         /\ c.pc \in ReturnedPc \cup {"push", "pop"} => AsCall(c) = c
         /\ c.pc = "push" => c = [pc |-> "push", element |-> c.element]
         /\ c.pc = "pop" => c = [pc |-> "pop", token |-> c.token]
<1>1. c.pc \in {"getFreeToken", "emplace"} =>
        AsCall(c) = [pc |-> "push", element |-> c.element]
  BY DEF AsCall
<1>2. c.pc \in {"find", "erase"} => AsCall(c) = [pc |-> "pop", token |-> c.token]
  BY DEF AsCall
<1>3. c.pc \in ReturnedPc \cup {"push", "pop"} => AsCall(c) = c
  BY DEF AsCall, ReturnedPc
<1>4. c.pc \in {"push", "pop"} => c \in Waiting
  BY DEF Calls, Returned, Locked
<1>5. /\ c.pc = "push" => c = [pc |-> "push", element |-> c.element]
      /\ c.pc = "pop" => c = [pc |-> "pop", token |-> c.token]
  BY <1>4 DEF Waiting
<1> QED  BY <1>1, <1>2, <1>3, <1>5

LEMMA InitRefines == Init => Map!Init
<1> SUFFICES ASSUME Init PROVE Map!Init
  OBVIOUS
<1>1. AsStore(container) = [t \in Token |-> NoElement]
  BY DEF Init, AsStore
<1>2. [n \in Thread |-> AsCall(call[n])] = [n \in Thread |-> [pc |-> "idle"]]
  <2>1. ASSUME NEW n \in Thread PROVE AsCall(call[n]) = [pc |-> "idle"]
    <3>1. call[n] = [pc |-> "idle"]
      BY DEF Init
    <3> QED  BY <3>1 DEF AsCall
  <2> QED  BY <2>1
<1> QED  BY <1>1, <1>2 DEF Map!Init

(***************************************************************************)
(* emplace and erase are the steps at which push and pop take effect; a    *)
(* miss and an exception take effect when they are found out.  The other   *)
(* steps of a call change nothing in the map.                              *)
(***************************************************************************)
LEMMA StepRefines == Inv /\ [Next]_vars => [Map!Next]_(Map!vars)
<1> SUFFICES ASSUME Inv, [Next]_vars PROVE [Map!Next]_(Map!vars)
  OBVIOUS
<1> DEFINE store == AsStore(container)
           calls == [n \in Thread |-> AsCall(call[n])]
<1>1. /\ container \in Seq(Entry(Element)) /\ Ascending(container)
      /\ call \in [Thread -> Calls]
  BY DEF Inv, TypeOK, TokensAscend, Calls
<1>2. /\ DOMAIN container = 1 .. Len(container)
      /\ \A q \in DOMAIN container : /\ container[q].first \in Token
                                     /\ container[q].second \in Element
  BY <1>1, ListTypes
<1>3. ASSUME NEW n \in Thread
      PROVE  /\ call[n] \in Calls
             /\ call[n].pc = "emplace" =>
                  FreeToken(container, call[n].token, call[n].iterator)
             /\ call[n].pc = "erase" => /\ call[n].iterator \in DOMAIN container
                                        /\ container[call[n].iterator].first = call[n].token
  BY <1>1 DEF Inv, LocalsFresh
\* The map's view of a step that changes the call of thread n to c.
<1>4. ASSUME NEW n \in Thread, NEW c, call' = [call EXCEPT ![n] = c]
      PROVE  /\ calls' = [calls EXCEPT ![n] = AsCall(c)]
             /\ calls[n] = AsCall(call[n])
  BY <1>1, <1>4
<1> HIDE DEF store, calls
<1>5. ASSUME NEW n \in Thread, NEW c, call' = [call EXCEPT ![n] = c],
             container' = container, AsCall(c) = AsCall(call[n])
      PROVE  UNCHANGED Map!vars
  <2>1. calls' = calls
    BY <1>1, <1>5 DEF calls
  <2> QED  BY <1>5, <2>1 DEF Map!vars, calls
<1>6. ASSUME NEW n \in Thread, NEW c \in Waiting, call[n].pc \in ReturnedPc,
             call' = [call EXCEPT ![n] = c], container' = container
      PROVE  Map!Next
  <2>1. calls[n] = call[n]
    BY <1>3, <1>4, <1>6, AsCallCases
  <2>2. AsCall(c) = c
    BY AsCallCases DEF Waiting, Calls
  <2>3. calls' = [calls EXCEPT ![n] = c] /\ store' = store
    BY <1>4, <1>6, <2>2 DEF store
  <2>4. c \in Map!Pending
    BY DEF Waiting, Map!Pending
  <2>5. Map!Call(n)
    BY <1>6, <2>1, <2>3, <2>4 DEF Map!Call, ReturnedPc, store, calls
  <2> QED  BY <2>5 DEF Map!Next
<1>7. ASSUME NEW n \in Thread, NEW e \in Element, StartPush(n, e) PROVE Map!Next
  BY <1>6, <1>7 DEF StartPush, Waiting
<1>8. ASSUME NEW n \in Thread, NEW t \in Token, StartPop(n, t) PROVE Map!Next
  BY <1>6, <1>8 DEF StartPop, Waiting
<1>9. ASSUME NEW n \in Thread, LockPush(n) PROVE UNCHANGED Map!vars
  <2> DEFINE c == [pc |-> "getFreeToken", element |-> call[n].element]
  <2>1. call[n].pc = "push" /\ call' = [call EXCEPT ![n] = c] /\ container' = container
    BY <1>9 DEF LockPush
  <2>2. AsCall(c) = AsCall(call[n])
    <3>1. AsCall(c) = [pc |-> "push", element |-> call[n].element]
      BY DEF AsCall
    <3>2. AsCall(call[n]) = [pc |-> "push", element |-> call[n].element]
      BY <1>3, <2>1, AsCallCases
    <3> QED  BY <3>1, <3>2
  <2> QED  BY <1>5, <2>1, <2>2
<1>10. ASSUME NEW n \in Thread, NEW t \in Token, NEW p \in 1 .. Len(container) + 1,
              GetFreeToken(n, t, p)
       PROVE  UNCHANGED Map!vars
  <2> DEFINE c == [pc |-> "emplace", element |-> call[n].element,
                   token |-> t, iterator |-> p]
  <2>1. /\ call[n].pc = "getFreeToken" /\ call' = [call EXCEPT ![n] = c]
        /\ container' = container
    BY <1>10 DEF GetFreeToken
  <2>2. AsCall(c) = AsCall(call[n])
    <3>1. AsCall(c) = [pc |-> "push", element |-> call[n].element]
      BY DEF AsCall
    <3>2. AsCall(call[n]) = [pc |-> "push", element |-> call[n].element]
      BY <1>3, <2>1, AsCallCases
    <3> QED  BY <3>1, <3>2
  <2> QED  BY <1>5, <2>1, <2>2
<1>11. ASSUME NEW n \in Thread, LockPop(n) PROVE UNCHANGED Map!vars
  <2> DEFINE c == [pc |-> "find", token |-> call[n].token]
  <2>1. call[n].pc = "pop" /\ call' = [call EXCEPT ![n] = c] /\ container' = container
    BY <1>11 DEF LockPop
  <2>2. AsCall(c) = AsCall(call[n])
    <3>1. AsCall(c) = [pc |-> "pop", token |-> call[n].token]
      BY DEF AsCall
    <3>2. AsCall(call[n]) = [pc |-> "pop", token |-> call[n].token]
      BY <1>3, <2>1, AsCallCases
    <3> QED  BY <3>1, <3>2
  <2> QED  BY <1>5, <2>1, <2>2
<1>12. ASSUME NEW n \in Thread, NEW p \in 1 .. Len(container), FindToken(n, p)
       PROVE  UNCHANGED Map!vars
  <2> DEFINE c == [pc |-> "erase", token |-> call[n].token, iterator |-> p]
  <2>1. call[n].pc = "find" /\ call' = [call EXCEPT ![n] = c] /\ container' = container
    BY <1>12 DEF FindToken
  <2>2. AsCall(c) = AsCall(call[n])
    <3>1. AsCall(c) = [pc |-> "pop", token |-> call[n].token]
      BY DEF AsCall
    <3>2. AsCall(call[n]) = [pc |-> "pop", token |-> call[n].token]
      BY <1>3, <2>1, AsCallCases
    <3> QED  BY <3>1, <3>2
  <2> QED  BY <1>5, <2>1, <2>2
<1>13. ASSUME NEW n \in Thread, GetFreeTokenThrows(n) PROVE Map!Next
  <2> DEFINE c == [pc |-> "full", element |-> call[n].element]
  <2>1. /\ call[n].pc = "getFreeToken" /\ Full(container)
        /\ call' = [call EXCEPT ![n] = c] /\ container' = container
    BY <1>13 DEF GetFreeTokenThrows
  <2>2. AsCall(c) = c
    BY DEF AsCall
  <2>3. calls[n] = [pc |-> "push", element |-> call[n].element]
    BY <1>3, <1>4, <2>1, AsCallCases
  <2>4. c = [pc |-> "full", element |-> calls[n].element]
    BY <2>3
  <2> HIDE DEF c
  <2>5. calls' = [calls EXCEPT ![n] = [pc |-> "full", element |-> calls[n].element]]
        /\ store' = store
    <3>1. calls' = [calls EXCEPT ![n] = AsCall(c)]
      BY <1>4, <2>1
    <3>2. store' = store
      BY <2>1 DEF store
    <3> QED  BY <2>2, <2>4, <3>1, <3>2
  <2>6. \A t \in Token : store[t] # NoElement
    <3>1. ASSUME NEW t \in Token PROVE store[t] # NoElement
      <4>1. PICK p \in DOMAIN container : container[p].first = t
        BY <1>1, <2>1, FullHoldsEveryToken
      <4>2. store[t] = container[p].second
        BY <1>1, <4>1, StoreAt DEF store
      <4> QED  BY <1>2, <4>2, ElementAssumption
    <3> QED  BY <3>1
  <2>7. Map!PushThrows(n)
    BY <2>3, <2>5, <2>6 DEF Map!PushThrows, store, calls
  <2> QED  BY <2>7 DEF Map!Next
<1>14. ASSUME NEW n \in Thread, EmplaceToken(n) PROVE Map!Next
  <2> DEFINE t == call[n].token
             c == [pc |-> "pushed", element |-> call[n].element, token |-> t]
  <2>1. /\ call[n].pc = "emplace" /\ call' = [call EXCEPT ![n] = c]
        /\ container' = Emplace(container, call[n].iterator, t, call[n].element)
    BY <1>14 DEF EmplaceToken
  <2>2. AsCall(c) = c
    BY DEF AsCall
  <2>3. calls[n] = [pc |-> "push", element |-> call[n].element]
    BY <1>3, <1>4, <2>1, AsCallCases
  <2>4. call[n].element \in Element /\ FreeToken(container, t, call[n].iterator)
    BY <1>3, <2>1, CallShape
  <2>5. /\ t \in Token /\ store[t] = NoElement
        /\ store' = [store EXCEPT ![t] = call[n].element]
    BY <1>1, <2>1, <2>4, StoreOfEmplace DEF store
  <2>6. c = [pc |-> "pushed", element |-> calls[n].element, token |-> t]
    BY <2>3
  <2> HIDE DEF c
  <2>7. calls' = [calls EXCEPT ![n] = [pc |-> "pushed", element |-> calls[n].element,
                                       token |-> t]]
    <3>1. calls' = [calls EXCEPT ![n] = AsCall(c)]
      BY <1>4, <2>1
    <3> QED  BY <2>2, <2>6, <3>1
  <2> HIDE DEF t
  <2>8. /\ calls[n].pc = "push" /\ store[t] = NoElement
        /\ store' = [store EXCEPT ![t] = calls[n].element]
    BY <2>3, <2>5
  <2>9. Map!Push(n, t)
    BY <2>7, <2>8 DEF Map!Push, store, calls
  <2> QED  BY <2>5, <2>9 DEF Map!Next
<1>15. ASSUME NEW n \in Thread, PopMiss(n) PROVE Map!Next
  <2> DEFINE c == [pc |-> "missed", token |-> call[n].token]
  <2>1. /\ call[n].pc = "find" /\ Find(container, call[n].token, Len(container) + 1)
        /\ call' = [call EXCEPT ![n] = c] /\ container' = container
    BY <1>15 DEF PopMiss
  <2>2. AsCall(c) = c
    BY DEF AsCall
  <2>3. calls[n] = [pc |-> "pop", token |-> call[n].token]
    BY <1>3, <1>4, <2>1, AsCallCases
  <2>4. c = [pc |-> "missed", token |-> calls[n].token]
    BY <2>3
  <2> HIDE DEF c
  <2>5. calls' = [calls EXCEPT ![n] = [pc |-> "missed", token |-> calls[n].token]]
        /\ store' = store
    <3>1. calls' = [calls EXCEPT ![n] = AsCall(c)]
      BY <1>4, <2>1
    <3>2. store' = store
      BY <2>1 DEF store
    <3> QED  BY <2>2, <2>4, <3>1, <3>2
  <2>6. store[calls[n].token] = NoElement
    <3>1. \A q \in DOMAIN container : container[q].first # call[n].token
      <4>1. Len(container) \in Nat
        BY <1>1, ListTypes
      <4> QED  BY <1>2, <2>1, <4>1 DEF Find
    <3>2. call[n].token \in Token
      BY <1>3, <2>1, CallShape
    <3> QED  BY <1>1, <2>3, <3>1, <3>2, StoreAt DEF store
  <2>7. Map!PopMiss(n)
    BY <2>3, <2>5, <2>6 DEF Map!PopMiss, store, calls
  <2> QED  BY <2>7 DEF Map!Next
<1>16. ASSUME NEW n \in Thread, EraseToken(n) PROVE Map!Next
  <2> DEFINE p == call[n].iterator
             c == [pc |-> "popped", token |-> call[n].token,
                   element |-> container[p].second]
  <2>1. /\ call[n].pc = "erase" /\ call' = [call EXCEPT ![n] = c]
        /\ container' = Erase(container, p)
    BY <1>16 DEF EraseToken
  <2>2. AsCall(c) = c
    BY DEF AsCall
  <2>3. calls[n] = [pc |-> "pop", token |-> call[n].token]
    BY <1>3, <1>4, <2>1, AsCallCases
  <2>4. p \in DOMAIN container /\ container[p].first = call[n].token
    BY <1>3, <2>1
  <2>5. store[call[n].token] = container[p].second /\ container[p].second # NoElement
    BY <1>1, <1>2, <2>4, StoreAt, ElementAssumption DEF store
  <2>6. store' = [store EXCEPT ![calls[n].token] = NoElement]
    BY <1>1, <2>1, <2>3, <2>4, StoreOfErase DEF store
  <2>7. c = [pc |-> "popped", token |-> calls[n].token,
             element |-> store[calls[n].token]]
    BY <2>3, <2>5
  <2> HIDE DEF c
  <2>8. calls' = [calls EXCEPT ![n] = [pc |-> "popped", token |-> calls[n].token,
                                       element |-> store[calls[n].token]]]
    <3>1. calls' = [calls EXCEPT ![n] = AsCall(c)]
      BY <1>4, <2>1
    <3> QED  BY <2>2, <2>7, <3>1
  <2>9. calls[n].pc = "pop" /\ store[calls[n].token] # NoElement
    BY <2>3, <2>5
  <2>10. Map!Pop(n)
    BY <2>6, <2>8, <2>9 DEF Map!Pop, store, calls
  <2> QED  BY <2>10 DEF Map!Next
<1>17. CASE UNCHANGED vars
  BY <1>17 DEF vars, Map!vars, AsStore, AsCall
<1> QED  BY <1>7, <1>8, <1>9, <1>10, <1>11, <1>12, <1>13, <1>14, <1>15, <1>16, <1>17
         DEF Next, Start, Step

(***************************************************************************)
(* UniqueTokenStorage implements TokenMap: calls of push and pop that      *)
(* overlap take effect one at a time (UniqueTokenStorage.h:77-129).        *)
(***************************************************************************)
THEOREM Refinement == Spec => ImplementsTokenMap
<1>1. Init => Map!Init
  BY InitRefines
<1>2. Inv /\ [Next]_vars => [Map!Next]_(Map!vars)
  BY StepRefines
<1> QED  BY <1>1, <1>2, Invariance, PTL DEF Spec, ImplementsTokenMap, Map!Spec
=============================================================================
