-------------------------- MODULE TokenList_proofs --------------------------
(***************************************************************************)
(* What the list algorithms of UniqueTokenStorage do to a list of any      *)
(* length, for every limit of the token type.                              *)
(***************************************************************************)
EXTENDS TokenList, SequenceTheorems, WellFoundedInduction, TLAPS

LEMMA ListTypes ==
  ASSUME NEW E, NEW c \in Seq(Entry(E))
  PROVE  /\ Len(c) \in Nat
         /\ DOMAIN c = 1 .. Len(c)
         /\ \A q \in DOMAIN c : /\ c[q] \in Entry(E)
                                /\ c[q].first \in Token
                                /\ c[q].second \in E
<1>1. Len(c) \in Nat /\ DOMAIN c = 1 .. Len(c)
  BY LenProperties
<1>2. \A q \in DOMAIN c : c[q] \in Entry(E)
  BY <1>1, ElementOfSeq
<1>3. \A x \in Entry(E) : x.first \in Token /\ x.second \in E
  BY DEF Entry
<1> QED  BY <1>1, <1>2, <1>3

(***************************************************************************)
(* container_.emplace puts the new pair at the iterator and moves what was *)
(* there, and after it, one place back.                                    *)
(***************************************************************************)
LEMMA EmplaceEffect ==
  ASSUME NEW E, NEW c \in Seq(Entry(E)), NEW p \in 1 .. Len(c) + 1,
         NEW t \in Token, NEW e \in E
  PROVE  /\ Emplace(c, p, t, e) \in Seq(Entry(E))
         /\ Len(Emplace(c, p, t, e)) = Len(c) + 1
         /\ DOMAIN Emplace(c, p, t, e) = 1 .. Len(c) + 1
         /\ \A q \in 1 .. Len(c) + 1 :
              Emplace(c, p, t, e)[q] = IF q < p THEN c[q]
                                       ELSE IF q = p THEN [first |-> t, second |-> e]
                                       ELSE c[q-1]
<1> DEFINE new == [first |-> t, second |-> e]
           front == SubSeq(c, 1, p-1)
           back == SubSeq(c, p, Len(c))
<1>1. new \in Entry(E)
  BY DEF Entry
<1>2. Len(c) \in Nat /\ \A q \in 1 .. Len(c) : c[q] \in Entry(E)
  BY ListTypes
<1>3. /\ front \in Seq(Entry(E)) /\ Len(front) = p - 1
      /\ \A q \in 1 .. p-1 : front[q] = c[q]
  <2>1. \A q \in 1 .. p-1 : c[q] \in Entry(E)
    BY <1>2
  <2> QED  BY <1>2, <2>1, SubSeqProperties
<1>4. /\ back \in Seq(Entry(E)) /\ Len(back) = Len(c) - p + 1
      /\ \A q \in 1 .. Len(c) - p + 1 : back[q] = c[p+q-1]
  <2>1. \A q \in p .. Len(c) : c[q] \in Entry(E)
    BY <1>2
  <2> QED  BY <1>2, <2>1, SubSeqProperties
<1>5. /\ <<new>> \in Seq(Entry(E)) /\ Len(<<new>>) = 1 /\ <<new>>[1] = new
  BY <1>1
<1> DEFINE mid == front \o <<new>>
<1>6. /\ mid \in Seq(Entry(E)) /\ Len(mid) = p
      /\ \A q \in 1 .. p : mid[q] = IF q < p THEN c[q] ELSE new
  <2> HIDE DEF new, front
  <2>1. /\ mid \in Seq(Entry(E)) /\ Len(mid) = p
        /\ \A q \in 1 .. p : mid[q] = IF q <= p-1 THEN front[q] ELSE <<new>>[q-(p-1)]
    BY <1>3, <1>5, ConcatProperties
  <2> QED  BY <2>1, <1>3, <1>5
<1>7. Emplace(c, p, t, e) = mid \o back
  BY DEF Emplace, InsertAt
<1> HIDE DEF new, front, back, mid
<1>8. /\ mid \o back \in Seq(Entry(E))
      /\ Len(mid \o back) = Len(c) + 1
      /\ \A q \in 1 .. Len(c) + 1 :
           (mid \o back)[q] = IF q <= p THEN mid[q] ELSE back[q-p]
  <2>1. /\ mid \o back \in Seq(Entry(E))
        /\ Len(mid \o back) = Len(mid) + Len(back)
        /\ \A q \in 1 .. Len(mid) + Len(back) :
             (mid \o back)[q] = IF q <= Len(mid) THEN mid[q] ELSE back[q-Len(mid)]
    BY <1>4, <1>6, ConcatProperties
  <2>2. Len(mid) + Len(back) = Len(c) + 1
    BY <1>2, <1>4, <1>6
  <2> QED  BY <2>1, <2>2, <1>6
<1>9. \A q \in 1 .. Len(c) + 1 :
        (mid \o back)[q] = IF q < p THEN c[q] ELSE IF q = p THEN new ELSE c[q-1]
  BY <1>2, <1>4, <1>6, <1>8
<1>10. DOMAIN (mid \o back) = 1 .. Len(c) + 1
  BY <1>8, LenProperties
<1> QED  BY <1>7, <1>8, <1>9, <1>10 DEF new

(***************************************************************************)
(* container_.erase takes out the pair at the iterator, nothing else.      *)
(***************************************************************************)
LEMMA EraseEffect ==
  ASSUME NEW E, NEW c \in Seq(Entry(E)), NEW p \in 1 .. Len(c)
  PROVE  /\ Erase(c, p) \in Seq(Entry(E))
         /\ Len(Erase(c, p)) = Len(c) - 1
         /\ DOMAIN Erase(c, p) = 1 .. Len(c) - 1
         /\ \A q \in 1 .. Len(c) - 1 :
              Erase(c, p)[q] = IF q < p THEN c[q] ELSE c[q+1]
<1> DEFINE front == SubSeq(c, 1, p-1)
           back == SubSeq(c, p+1, Len(c))
<1>1. Len(c) \in Nat /\ \A q \in 1 .. Len(c) : c[q] \in Entry(E)
  BY LenProperties, ElementOfSeq
<1>2. /\ front \in Seq(Entry(E)) /\ Len(front) = p - 1
      /\ \A q \in 1 .. p-1 : front[q] = c[q]
  <2>1. \A q \in 1 .. p-1 : c[q] \in Entry(E)
    BY <1>1
  <2> QED  BY <1>1, <2>1, SubSeqProperties
<1>3. /\ back \in Seq(Entry(E)) /\ Len(back) = Len(c) - p
      /\ \A q \in 1 .. Len(c) - p : back[q] = c[p+q]
  <2>1. \A q \in p+1 .. Len(c) : c[q] \in Entry(E)
    BY <1>1
  <2> QED  BY <1>1, <2>1, SubSeqProperties
<1>4. Erase(c, p) = front \o back
  BY DEF Erase, RemoveAt
<1> HIDE DEF front, back
<1>5. /\ front \o back \in Seq(Entry(E))
      /\ Len(front \o back) = Len(c) - 1
      /\ \A q \in 1 .. Len(c) - 1 :
           (front \o back)[q] = IF q <= p-1 THEN front[q] ELSE back[q-(p-1)]
  <2>1. /\ front \o back \in Seq(Entry(E))
        /\ Len(front \o back) = Len(front) + Len(back)
        /\ \A q \in 1 .. Len(front) + Len(back) :
             (front \o back)[q] = IF q <= Len(front) THEN front[q]
                                   ELSE back[q-Len(front)]
    BY <1>2, <1>3, ConcatProperties
  <2>2. Len(front) + Len(back) = Len(c) - 1
    BY <1>1, <1>2, <1>3
  <2> QED  BY <2>1, <2>2, <1>2
<1>6. ASSUME NEW q \in 1 .. Len(c) - 1
      PROVE  (front \o back)[q] = IF q < p THEN c[q] ELSE c[q+1]
  <2>1. CASE q < p
    <3>1. q \in 1 .. p-1 /\ q <= p-1
      BY <1>1, <2>1
    <3> QED  BY <1>2, <1>5, <2>1, <3>1
  <2>2. CASE q >= p
    <3>1. q-(p-1) \in 1 .. Len(c) - p /\ p + (q-(p-1)) = q+1 /\ ~ (q <= p-1) /\ ~ (q < p)
      BY <1>1, <2>2
    <3> QED  BY <1>3, <1>5, <3>1
  <2>3. q < p \/ q >= p
    BY <1>1
  <2> QED  BY <2>1, <2>2, <2>3
<1>7. DOMAIN (front \o back) = 1 .. Len(c) - 1
  BY <1>5, LenProperties
<1> QED  BY <1>4, <1>5, <1>6, <1>7

(***************************************************************************)
(* In an ascending list, the token getFreeToken returns lies strictly      *)
(* between those before and those after the place it returns with it.      *)
(***************************************************************************)
LEMMA FreeTokenFits ==
  ASSUME NEW E, NEW c \in Seq(Entry(E)), Ascending(c),
         NEW t, NEW p, FreeToken(c, t, p)
  PROVE  /\ t \in Token
         /\ p \in 1 .. Len(c) + 1
         /\ \A q \in DOMAIN c : /\ q < p => c[q].first < t
                                /\ q >= p => c[q].first > t
<1>1. /\ Len(c) \in Nat /\ DOMAIN c = 1 .. Len(c)
      /\ \A q \in DOMAIN c : c[q].first \in Token
  BY ListTypes
<1>2. c = <<>> => Len(c) = 0
  OBVIOUS
<1>3. c # <<>> => Len(c) > 0
  BY <1>1, EmptySeq
<1>4. CASE c = <<>> /\ t = 0 /\ p = 1
  BY <1>1, <1>2, <1>4, MaxTokenAssumption DEF Token
<1>5. CASE c # <<>> /\ Last(c).first # MaxToken /\ t = Last(c).first + 1 /\ p = Len(c) + 1
  BY <1>1, <1>3, <1>5, MaxTokenAssumption DEF Token, Last, Ascending
<1>6. CASE /\ c # <<>> /\ Last(c).first = MaxToken /\ c[1].first # 0
           /\ t = c[1].first - 1 /\ p = 1
  BY <1>1, <1>3, <1>6, MaxTokenAssumption DEF Token, Ascending
<1>7. CASE /\ c # <<>> /\ Last(c).first = MaxToken /\ c[1].first = 0
           /\ p \in DOMAIN c /\ c[p].first # p - 1
           /\ \A q \in 1 .. p-1 : c[q].first = q - 1
           /\ t = p - 1
  <2>1. p > 1
    BY <1>1, <1>7
  <2>2. p-1 \in DOMAIN c /\ c[p-1].first = p - 2
    BY <1>1, <1>7, <2>1
  <2>3. c[p].first > t
    BY <1>1, <1>7, <2>2, MaxTokenAssumption DEF Ascending, Token
  <2>4. \A q \in DOMAIN c : q >= p => c[q].first > t
    BY <1>1, <1>7, <2>3, MaxTokenAssumption DEF Ascending, Token
  <2>5. t \in Token
    BY <1>1, <1>7, <2>1, <2>3, MaxTokenAssumption DEF Token
  <2>6. \A q \in DOMAIN c : q < p => c[q].first < t
    BY <1>1, <1>7
  <2> QED  BY <1>1, <1>7, <2>4, <2>5, <2>6
<1> QED  BY <1>4, <1>5, <1>6, <1>7 DEF FreeToken

LEMMA EmplaceAscends ==
  ASSUME NEW E, NEW c \in Seq(Entry(E)), Ascending(c),
         NEW t, NEW p, FreeToken(c, t, p), NEW e \in E
  PROVE  Ascending(Emplace(c, p, t, e))
<1>1. /\ Len(c) \in Nat /\ DOMAIN c = 1 .. Len(c)
      /\ \A q \in DOMAIN c : c[q].first \in Token
  BY ListTypes
<1>2. /\ t \in Token /\ p \in 1 .. Len(c) + 1
      /\ \A q \in DOMAIN c : /\ q < p => c[q].first < t
                             /\ q >= p => c[q].first > t
  BY FreeTokenFits
<1> DEFINE d == Emplace(c, p, t, e)
<1>3. /\ DOMAIN d = 1 .. Len(c) + 1
      /\ \A q \in 1 .. Len(c) + 1 :
           d[q] = IF q < p THEN c[q]
                  ELSE IF q = p THEN [first |-> t, second |-> e] ELSE c[q-1]
  BY <1>2, EmplaceEffect
<1>4. \A q \in 1 .. Len(c) + 1 :
        d[q].first = IF q < p THEN c[q].first
                     ELSE IF q = p THEN t ELSE c[q-1].first
  BY <1>3
<1> HIDE DEF d
<1>5. ASSUME NEW i \in DOMAIN d, NEW j \in DOMAIN d, i < j
      PROVE  d[i].first < d[j].first
  <2>1. CASE j < p
    BY <1>1, <1>2, <1>3, <1>4, <1>5, <2>1 DEF Ascending
  <2>2. CASE j = p
    BY <1>1, <1>2, <1>3, <1>4, <1>5, <2>2
  <2>3. CASE j > p /\ i < p
    <3>1. d[i].first = c[i].first /\ d[j].first = c[j-1].first
      BY <1>1, <1>2, <1>3, <1>4, <1>5, <2>3
    <3>2. i \in DOMAIN c /\ j-1 \in DOMAIN c /\ i < j-1
      BY <1>1, <1>2, <1>3, <1>5, <2>3
    <3> QED  BY <3>1, <3>2 DEF Ascending
  <2>4. CASE j > p /\ i = p
    BY <1>1, <1>2, <1>3, <1>4, <1>5, <2>4
  <2>5. CASE j > p /\ i > p
    <3>1. d[i].first = c[i-1].first /\ d[j].first = c[j-1].first
      BY <1>1, <1>2, <1>3, <1>4, <1>5, <2>5
    <3>2. i-1 \in DOMAIN c /\ j-1 \in DOMAIN c /\ i-1 < j-1
      BY <1>1, <1>2, <1>3, <1>5, <2>5
    <3> QED  BY <3>1, <3>2 DEF Ascending
  <2> QED  BY <1>2, <1>3, <2>1, <2>2, <2>3, <2>4, <2>5
<1> QED  BY <1>5 DEF Ascending, d

LEMMA EraseAscends ==
  ASSUME NEW E, NEW c \in Seq(Entry(E)), Ascending(c), NEW p \in 1 .. Len(c)
  PROVE  Ascending(Erase(c, p))
<1>1. /\ Len(c) \in Nat /\ DOMAIN c = 1 .. Len(c)
  BY LenProperties
<1> DEFINE d == Erase(c, p)
<1>2. /\ DOMAIN d = 1 .. Len(c) - 1
      /\ \A q \in 1 .. Len(c) - 1 : d[q] = IF q < p THEN c[q] ELSE c[q+1]
  BY EraseEffect
<1> HIDE DEF d
<1> DEFINE old(q) == IF q < p THEN q ELSE q+1
<1>3. ASSUME NEW i \in DOMAIN d, NEW j \in DOMAIN d, i < j
      PROVE  d[i].first < d[j].first
  <2>1. old(i) \in DOMAIN c /\ old(j) \in DOMAIN c /\ old(i) < old(j)
    BY <1>1, <1>2, <1>3
  <2>2. d[i] = c[old(i)] /\ d[j] = c[old(j)]
    BY <1>2
  <2> HIDE DEF old
  <2> QED  BY <2>1, <2>2 DEF Ascending
<1> QED  BY <1>3 DEF Ascending, d

\* In an ascending list a token has one place.
LEMMA OnePlace ==
  ASSUME NEW E, NEW c \in Seq(Entry(E)), Ascending(c),
         NEW p \in DOMAIN c, NEW q \in DOMAIN c, c[p].first = c[q].first
  PROVE  p = q
<1>1. /\ Len(c) \in Nat /\ DOMAIN c = 1 .. Len(c)
      /\ \A k \in DOMAIN c : c[k].first \in Token
  BY ListTypes
<1> QED  BY <1>1, MaxTokenAssumption DEF Ascending, Token

(***************************************************************************)
(* getFreeToken throws only when every token is in use.                    *)
(***************************************************************************)
LEMMA FullHoldsEveryToken ==
  ASSUME NEW E, NEW c \in Seq(Entry(E)), Ascending(c), Full(c), NEW t \in Token
  PROVE  \E p \in DOMAIN c : c[p].first = t
<1>1. /\ Len(c) \in Nat /\ DOMAIN c = 1 .. Len(c)
      /\ \A q \in DOMAIN c : c[q].first \in Token
  BY ListTypes
<1>2. \A u \in Token, p \in 1 .. Len(c) + 1 : ~ FreeToken(c, u, p)
  BY DEF Full
<1>3. c # <<>> /\ Len(c) > 0
  <2>1. c # <<>>
    <3> SUFFICES ASSUME c = <<>> PROVE FALSE
      OBVIOUS
    <3>1. FreeToken(c, 0, 1)
      BY DEF FreeToken
    <3>2. 0 \in Token /\ 1 \in 1 .. Len(c) + 1
      BY <1>1, MaxTokenAssumption DEF Token
    <3> QED  BY <1>2, <3>1, <3>2
  <2> QED  BY <1>1, <2>1, EmptySeq
<1>4. Last(c).first = MaxToken
  <2> SUFFICES ASSUME Last(c).first # MaxToken PROVE FALSE
    OBVIOUS
  <2>1. Last(c).first + 1 \in Token /\ Len(c) + 1 \in 1 .. Len(c) + 1
    BY <1>1, <1>3, MaxTokenAssumption DEF Last, Token
  <2>2. FreeToken(c, Last(c).first + 1, Len(c) + 1)
    BY <1>3 DEF FreeToken
  <2> QED  BY <1>2, <2>1, <2>2
<1>5. c[1].first = 0
  <2> SUFFICES ASSUME c[1].first # 0 PROVE FALSE
    OBVIOUS
  <2>1. c[1].first - 1 \in Token /\ 1 \in 1 .. Len(c) + 1
    BY <1>1, <1>3, MaxTokenAssumption DEF Token
  <2>2. FreeToken(c, c[1].first - 1, 1)
    BY <1>3, <1>4 DEF FreeToken
  <2> QED  BY <1>2, <2>1, <2>2
<1> DEFINE Gaps == {p \in 1 .. Len(c) : c[p].first # p - 1}
<1>6. Gaps = {}
  <2> SUFFICES ASSUME Gaps # {} PROVE FALSE
    OBVIOUS
  <2>1. Gaps \subseteq Nat
    BY <1>1
  <2>2. PICK p \in Gaps : \A q \in Gaps : ~ (<<q, p>> \in OpToRel(<, Nat))
    <3>1. IsWellFoundedOn(OpToRel(<, Nat), Nat)
      BY NatLessThanWellFounded
    <3> HIDE DEF Gaps
    <3> QED  BY <2>1, <3>1, WFMin
  <2>3. \A q \in Gaps : ~ (q < p)
    BY <2>1, <2>2 DEF OpToRel
  <2>4. \A q \in 1 .. p-1 : c[q].first = q - 1
    BY <1>1, <2>3
  <2>5. p \in 1 .. Len(c) /\ c[p].first # p - 1 /\ p > 1
    BY <1>1, <1>5
  <2>6. FreeToken(c, p-1, p)
    BY <1>1, <1>3, <1>4, <1>5, <2>4, <2>5 DEF FreeToken
  <2>7. p-1 \in Token
    BY <1>1, <2>6, FreeTokenFits
  <2> QED  BY <1>1, <1>2, <2>5, <2>6, <2>7
<1>7. \A p \in 1 .. Len(c) : c[p].first = p - 1
  BY <1>6
<1>8. MaxToken = Len(c) - 1
  BY <1>1, <1>3, <1>4, <1>7 DEF Last
<1>9. t + 1 \in DOMAIN c /\ c[t+1].first = t
  BY <1>1, <1>3, <1>7, <1>8 DEF Token
<1> QED  BY <1>9

(***************************************************************************)
(* The list as the set of its pairs.                                       *)
(***************************************************************************)
LEMMA EmplaceSet ==
  ASSUME NEW E, NEW c \in Seq(Entry(E)), NEW p \in 1 .. Len(c) + 1,
         NEW t \in Token, NEW e \in E
  PROVE  ToSet(Emplace(c, p, t, e)) = ToSet(c) \cup {[first |-> t, second |-> e]}
<1> DEFINE d == Emplace(c, p, t, e)
           new == [first |-> t, second |-> e]
<1>1. Len(c) \in Nat /\ DOMAIN c = 1 .. Len(c)
  BY ListTypes
<1>2. /\ DOMAIN d = 1 .. Len(c) + 1
      /\ \A q \in 1 .. Len(c) + 1 :
           d[q] = IF q < p THEN c[q] ELSE IF q = p THEN new ELSE c[q-1]
  BY EmplaceEffect
<1> HIDE DEF d, new
<1>3. ASSUME NEW q \in DOMAIN d PROVE d[q] \in ToSet(c) \cup {new}
  <2>1. CASE q < p
    <3>1. q \in DOMAIN c /\ d[q] = c[q]
      BY <1>1, <1>2, <2>1
    <3> QED  BY <3>1 DEF ToSet
  <2>2. CASE q = p
    BY <1>2, <2>2
  <2>3. CASE q > p
    <3>1. q-1 \in DOMAIN c /\ d[q] = c[q-1]
      BY <1>1, <1>2, <2>3
    <3> QED  BY <3>1 DEF ToSet
  <2> QED  BY <1>1, <1>2, <2>1, <2>2, <2>3
<1>4. ASSUME NEW q \in DOMAIN c PROVE c[q] \in ToSet(d)
  <2>1. CASE q < p
    BY <1>1, <1>2, <2>1 DEF ToSet
  <2>2. CASE q >= p
    <3>1. q+1 \in DOMAIN d /\ d[q+1] = c[q]
      BY <1>1, <1>2, <2>2
    <3> QED  BY <3>1 DEF ToSet
  <2> QED  BY <1>1, <2>1, <2>2
<1>5. new \in ToSet(d)
  BY <1>1, <1>2 DEF ToSet
<1>6. ToSet(d) = ToSet(c) \cup {new}
  BY <1>3, <1>4, <1>5 DEF ToSet
<1> QED  BY <1>6 DEF d, new

LEMMA EraseSet ==
  ASSUME NEW E, NEW c \in Seq(Entry(E)), Ascending(c), NEW p \in 1 .. Len(c)
  PROVE  ToSet(Erase(c, p)) = ToSet(c) \ {c[p]}
<1> DEFINE d == Erase(c, p)
<1>1. Len(c) \in Nat /\ DOMAIN c = 1 .. Len(c)
  BY ListTypes
<1>2. /\ DOMAIN d = 1 .. Len(c) - 1
      /\ \A q \in 1 .. Len(c) - 1 : d[q] = IF q < p THEN c[q] ELSE c[q+1]
  BY EraseEffect
<1> HIDE DEF d
<1>3. \A q \in DOMAIN c : q # p => c[q] # c[p]
  BY <1>1, OnePlace
<1>4. \A q \in DOMAIN d : d[q] \in ToSet(c) \ {c[p]}
  BY <1>1, <1>2, <1>3 DEF ToSet
<1>5. ASSUME NEW q \in DOMAIN c, q # p PROVE c[q] \in ToSet(d)
  <2>1. CASE q < p
    BY <1>1, <1>2, <2>1 DEF ToSet
  <2>2. CASE q > p
    <3>1. q-1 \in DOMAIN d /\ d[q-1] = c[q]
      BY <1>1, <1>2, <2>2
    <3> QED  BY <3>1 DEF ToSet
  <2> QED  BY <1>1, <1>5, <2>1, <2>2
<1>6. ToSet(d) = ToSet(c) \ {c[p]}
  BY <1>4, <1>5 DEF ToSet
<1> QED  BY <1>6 DEF d

LEMMA HoldsSet ==
  ASSUME NEW c, NEW t, NEW e
  PROVE  Holds(c, t, e) <=> [first |-> t, second |-> e] \in ToSet(c)
BY DEF Holds, ToSet

(***************************************************************************)
(* The loop of pop finds the pair that is stored under the token.          *)
(***************************************************************************)
LEMMA FindHeld ==
  ASSUME NEW E, NEW c \in Seq(Entry(E)), Ascending(c), NEW t, NEW e, Holds(c, t, e),
         NEW p, Find(c, t, p)
  PROVE  p \in DOMAIN c /\ c[p] = [first |-> t, second |-> e]
<1>1. Len(c) \in Nat /\ DOMAIN c = 1 .. Len(c)
  BY ListTypes
<1>2. PICK q \in DOMAIN c : c[q] = [first |-> t, second |-> e]
  BY DEF Holds
<1>3. c[q].first = t
  BY <1>2
<1>4. p \in DOMAIN c
  BY <1>1, <1>3 DEF Find
<1>5. p = q
  BY <1>3, <1>4, OnePlace DEF Find
<1> QED  BY <1>2, <1>4, <1>5
=============================================================================
