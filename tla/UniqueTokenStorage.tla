------------------------- MODULE UniqueTokenStorage -------------------------
(***************************************************************************)
(* UniqueTokenStorage called by several threads: push and pop step by      *)
(* step, under the lock_guard both open with.  The guard is released on    *)
(* return, in the step that last touches the container.                    *)
(*                                                                         *)
(* The version of pop that throws calls the one that returns a bool        *)
(* without a lock of its own, and turns "missed" into an exception.        *)
(***************************************************************************)
EXTENDS TokenList

CONSTANTS Thread, Element, NoElement, NoThread

ASSUME ElementAssumption == NoElement \notin Element
ASSUME ThreadAssumption == NoThread \notin Thread

VARIABLES container,    \* container_
          lockMutex,    \* lockMutex_: the thread that holds it, or NoThread
          call          \* call[n]: the call thread n is in, with its locals

vars == <<container, lockMutex, call>>

Returned ==      [pc : {"idle"}]
            \cup [pc : {"pushed"}, element : Element, token : Token]
            \cup [pc : {"full"}, element : Element]
            \cup [pc : {"popped"}, token : Token, element : Element]
            \cup [pc : {"missed"}, token : Token]
Waiting  ==      [pc : {"push"}, element : Element]
            \cup [pc : {"pop"}, token : Token]
Locked   ==      [pc : {"getFreeToken"}, element : Element]
            \cup [pc : {"emplace"}, element : Element, token : Token, iterator : Nat]
            \cup [pc : {"find"}, token : Token]
            \cup [pc : {"erase"}, token : Token, iterator : Nat]

ReturnedPc == {"idle", "pushed", "full", "popped", "missed"}
LockedPc   == {"getFreeToken", "emplace", "find", "erase"}

TypeOK ==
  /\ container \in Seq(Entry(Element))
  /\ lockMutex \in Thread \cup {NoThread}
  /\ call \in [Thread -> Returned \cup Waiting \cup Locked]

Init ==
  /\ container = <<>>
  /\ lockMutex = NoThread
  /\ call = [n \in Thread |-> [pc |-> "idle"]]

StartPush(n, e) ==
  /\ call[n].pc \in ReturnedPc
  /\ call' = [call EXCEPT ![n] = [pc |-> "push", element |-> e]]
  /\ UNCHANGED <<container, lockMutex>>

StartPop(n, t) ==
  /\ call[n].pc \in ReturnedPc
  /\ call' = [call EXCEPT ![n] = [pc |-> "pop", token |-> t]]
  /\ UNCHANGED <<container, lockMutex>>

\* A plausible bug: push does not take the lock.
LockPush_NoLock(n) ==
  /\ call[n].pc = "push"
  /\ call' = [call EXCEPT ![n] = [pc |-> "getFreeToken", element |-> call[n].element]]
  /\ UNCHANGED <<container, lockMutex>>

LockPush(n) ==
  /\ call[n].pc = "push"
  /\ lockMutex = NoThread
  /\ lockMutex' = n
  /\ call' = [call EXCEPT ![n] = [pc |-> "getFreeToken", element |-> call[n].element]]
  /\ UNCHANGED container

GetFreeToken(n, t, p) ==
  /\ call[n].pc = "getFreeToken"
  /\ FreeToken(container, t, p)
  /\ call' = [call EXCEPT ![n] = [pc |-> "emplace", element |-> call[n].element,
                                  token |-> t, iterator |-> p]]
  /\ UNCHANGED <<container, lockMutex>>

\* A plausible bug: a mutex unlocked by hand at the end of push, which the
\* exception jumps over.
GetFreeTokenThrows_KeepsLock(n) ==
  /\ call[n].pc = "getFreeToken"
  /\ Full(container)
  /\ call' = [call EXCEPT ![n] = [pc |-> "full", element |-> call[n].element]]
  /\ UNCHANGED <<container, lockMutex>>

\* The exception leaves push, whose guard unlocks the mutex.
GetFreeTokenThrows(n) ==
  /\ call[n].pc = "getFreeToken"
  /\ Full(container)
  /\ lockMutex' = NoThread
  /\ call' = [call EXCEPT ![n] = [pc |-> "full", element |-> call[n].element]]
  /\ UNCHANGED container

EmplaceToken(n) ==
  /\ call[n].pc = "emplace"
  /\ container' = Emplace(container, call[n].iterator, call[n].token, call[n].element)
  /\ lockMutex' = NoThread
  /\ call' = [call EXCEPT ![n] = [pc |-> "pushed", element |-> call[n].element,
                                  token |-> call[n].token]]

LockPop(n) ==
  /\ call[n].pc = "pop"
  /\ lockMutex = NoThread
  /\ lockMutex' = n
  /\ call' = [call EXCEPT ![n] = [pc |-> "find", token |-> call[n].token]]
  /\ UNCHANGED container

FindToken(n, p) ==
  /\ call[n].pc = "find"
  /\ Find(container, call[n].token, p) /\ p \in DOMAIN container
  /\ call' = [call EXCEPT ![n] = [pc |-> "erase", token |-> call[n].token,
                                  iterator |-> p]]
  /\ UNCHANGED <<container, lockMutex>>

\* A plausible bug: the caller ignores that pop found nothing and uses the
\* default-constructed element.
PopMiss_ReturnsDefault(n) ==
  /\ call[n].pc = "find"
  /\ Find(container, call[n].token, Len(container) + 1)
  /\ lockMutex' = NoThread
  /\ call' = [call EXCEPT ![n] = [pc |-> "popped", token |-> call[n].token,
                                  element |-> NoElement]]
  /\ UNCHANGED container

PopMiss(n) ==
  /\ call[n].pc = "find"
  /\ Find(container, call[n].token, Len(container) + 1)
  /\ lockMutex' = NoThread
  /\ call' = [call EXCEPT ![n] = [pc |-> "missed", token |-> call[n].token]]
  /\ UNCHANGED container

EraseToken(n) ==
  /\ call[n].pc = "erase"
  /\ container' = Erase(container, call[n].iterator)
  /\ lockMutex' = NoThread
  /\ call' = [call EXCEPT ![n] = [pc |-> "popped", token |-> call[n].token,
                                  element |-> container[call[n].iterator].second]]

Start(n) ==
  \/ \E e \in Element : StartPush(n, e)
  \/ \E t \in Token : StartPop(n, t)

\* The steps of a thread inside push or pop.
Step(n) ==
  \/ LockPush(n)
  \/ \E t \in Token, p \in 1 .. Len(container) + 1 : GetFreeToken(n, t, p)
  \/ GetFreeTokenThrows(n)
  \/ EmplaceToken(n)
  \/ LockPop(n)
  \/ \E p \in 1 .. Len(container) : FindToken(n, p)
  \/ PopMiss(n)
  \/ EraseToken(n)

Next == \E n \in Thread : Start(n) \/ Step(n)

(***************************************************************************)
(* A thread that has begun a call is scheduled until it returns.  Nothing  *)
(* is assumed of the order in which std::mutex serves waiting threads.     *)
(***************************************************************************)
Spec == Init /\ [][Next]_vars /\ \A n \in Thread : WF_vars(Step(n))
-----------------------------------------------------------------------------
(***************************************************************************)
(* The token list never holds two elements under one token, and its order  *)
(* is the one the gap search of getFreeToken relies on, even after the     *)
(* tokens reach their limit and are taken from the front and from gaps     *)
(* (UniqueTokenStorage.h:183-218), and whatever calls overlap.             *)
(***************************************************************************)
TokensAscend == Ascending(container)

(***************************************************************************)
(* Under the lock, the token and iterator that getFreeToken returned are   *)
(* still right when emplace uses them, and so is the entry pop found.      *)
(***************************************************************************)
LocalsFresh ==
  \A n \in Thread :
    /\ call[n].pc \in LockedPc <=> lockMutex = n
    /\ call[n].pc = "emplace" =>
         FreeToken(container, call[n].token, call[n].iterator)
    /\ call[n].pc = "erase" =>
         /\ call[n].iterator \in DOMAIN container
         /\ container[call[n].iterator].first = call[n].token

(***************************************************************************)
(* A thread that holds the mutex gives it back, on every way out of push   *)
(* and pop, the exception included (the lock_guard of lines 80 and 115).   *)
(***************************************************************************)
LockReleased == \A n \in Thread : lockMutex = n ~> lockMutex # n

(***************************************************************************)
(* The class implements TokenMap: overlapping calls of push and pop take   *)
(* effect one at a time, no element is lost or returned twice, and push    *)
(* throws only when every token is in use.                                 *)
(***************************************************************************)
AsStore(c) ==
  [t \in Token |-> IF \E p \in DOMAIN c : c[p].first = t
                   THEN c[CHOOSE p \in DOMAIN c : c[p].first = t].second
                   ELSE NoElement]

AsCall(c) ==
  CASE c.pc \in {"getFreeToken", "emplace"} -> [pc |-> "push", element |-> c.element]
    [] c.pc \in {"find", "erase"} -> [pc |-> "pop", token |-> c.token]
    [] OTHER -> c

Map == INSTANCE TokenMap WITH
         store <- AsStore(container),
         call <- [n \in Thread |-> AsCall(call[n])]

ImplementsTokenMap == Map!Spec
=============================================================================
