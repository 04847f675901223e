----------------------------- MODULE TokenList -----------------------------
(***************************************************************************)
(* The algorithms of UniqueTokenStorage (UniqueTokenStorage.h) as          *)
(* operators on its std::list of (token, element) pairs.  The list is a    *)
(* sequence of records with the pair's field names; an iterator is a       *)
(* position of the sequence, Len + 1 standing for end().  The mutex and    *)
(* the threads are in module UniqueTokenStorage; module Connection uses    *)
(* the operators directly, which that module's refinement justifies.       *)
(***************************************************************************)
EXTENDS Integers, Sequences, SequencesExt

CONSTANT MaxToken    \* std::numeric_limits<T_Token>::max(), 2^32-1 in the library

ASSUME MaxTokenAssumption == MaxToken \in Nat

Token == 0 .. MaxToken

Entry(Element) == [first : Token, second : Element]

(***************************************************************************)
(* A plausible bug: the back of the list is incremented without looking    *)
(* whether it is at its limit, so that the token wraps round to 0.         *)
(***************************************************************************)
FreeToken_NoLimitCheck(c, t, p) ==
  \/ c = <<>> /\ t = 0 /\ p = 1
  \/ /\ c # <<>>
     /\ t = (Last(c).first + 1) % (MaxToken + 1)
     /\ p = Len(c) + 1

(***************************************************************************)
(* A plausible bug: once neither end of the list has room, give up without *)
(* searching for a gap.                                                    *)
(***************************************************************************)
FreeToken_NoGapSearch(c, t, p) ==
  \/ c = <<>> /\ t = 0 /\ p = 1
  \/ /\ c # <<>>
     /\ Last(c).first # MaxToken
     /\ t = Last(c).first + 1 /\ p = Len(c) + 1
  \/ /\ c # <<>>
     /\ Last(c).first = MaxToken /\ c[1].first # 0
     /\ t = c[1].first - 1 /\ p = 1

(***************************************************************************)
(* getFreeToken(): t is the token it returns and p the position to insert  *)
(* it at.  An empty list gives the smallest token; otherwise the back is   *)
(* incremented, or the front decremented, or the first gap is taken, in    *)
(* this order.  No t and p satisfy it when the list holds every token.     *)
(***************************************************************************)
FreeToken(c, t, p) ==
  \/ c = <<>> /\ t = 0 /\ p = 1
  \/ /\ c # <<>>
     /\ Last(c).first # MaxToken
     /\ t = Last(c).first + 1 /\ p = Len(c) + 1
  \/ /\ c # <<>>
     /\ Last(c).first = MaxToken /\ c[1].first # 0
     /\ t = c[1].first - 1 /\ p = 1
  \/ /\ c # <<>>
     /\ Last(c).first = MaxToken /\ c[1].first = 0
     /\ p \in DOMAIN c /\ c[p].first # p - 1
     /\ \A q \in 1 .. p-1 : c[q].first = q - 1
     /\ t = p - 1

\* The case in which getFreeToken() throws "couldn't find free space".
Full(c) == ~ \E t \in Token, p \in 1 .. Len(c) + 1 : FreeToken(c, t, p)

\* container_.emplace( iterator, token, newElement )
Emplace(c, p, t, e) == InsertAt(c, p, [first |-> t, second |-> e])

\* The loop of pop(): p is the first entry with token t, or the end.
Find(c, t, p) ==
  /\ p \in 1 .. Len(c) + 1
  /\ \A q \in 1 .. p-1 : c[q].first # t
  /\ p \in DOMAIN c => c[p].first = t

\* container_.erase( iEntry )
Erase(c, p) == RemoveAt(c, p)

Holds(c, t, e) == \E p \in DOMAIN c : c[p] = [first |-> t, second |-> e]

(***************************************************************************)
(* The list is sorted by token, without duplicates.  The gap search and    *)
(* the uniqueness of the tokens both rest on it.                           *)
(***************************************************************************)
Ascending(c) == \A p, q \in DOMAIN c : p < q => c[p].first < c[q].first
============================================================================
