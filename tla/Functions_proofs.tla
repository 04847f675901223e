-------------------------- MODULE Functions_proofs --------------------------
(***************************************************************************)
(* What the functions of MCFunctions return, proved of arguments of every  *)
(* length and size, and from that the invariants of MCFunctions.           *)
(*                                                                         *)
(* A recursive function of the model is a CHOOSE of one that solves its    *)
(* equation.  RecursionExists, LoopExists and JumpsExist say that there is *)
(* a solution, UpTo and DownTo are the induction, as a statement about a   *)
(* set of numbers, that says what it is.                                   *)
(***************************************************************************)
EXTENDS MCFunctions, SequenceTheorems, WellFoundedInduction, TLAPS

\* Induction, as a statement about a set of numbers.
LEMMA UpTo ==
  ASSUME NEW n \in Nat, NEW S, 0 \in S,
         \A i \in Nat : i < n /\ i \in S => i + 1 \in S
  PROVE  \A i \in 0 .. n : i \in S
<1> DEFINE Missing == {i \in 0 .. n : i \notin S}
<1>1. SUFFICES ASSUME Missing # {} PROVE FALSE
  OBVIOUS
<1>a. Missing \subseteq Nat
  OBVIOUS
<1>2. PICK m \in Missing : \A j \in Missing : ~ (<<j, m>> \in OpToRel(<, Nat))
  <2>1. IsWellFoundedOn(OpToRel(<, Nat), Nat)
    BY NatLessThanWellFounded
  <2> HIDE DEF Missing
  <2> QED  BY <1>1, <2>1, <1>a, WFMin
<1>b. \A j \in Missing : ~ (j < m)
  BY <1>a, <1>2 DEF OpToRel
<1>3. m \in Nat /\ m <= n /\ m \notin S /\ m # 0
  OBVIOUS
<1>4. ~ (m - 1 \in Missing)
  BY <1>b, <1>3
<1>5. m - 1 \in S
  BY <1>3, <1>4
<1> QED  BY <1>3, <1>5

(***************************************************************************)
(* Whatever OpenSSL says of the certificates of a chain, and however many  *)
(* there are: with a file to verify against, the peer is accepted just if  *)
(* it shows a chain, of nine at most, in which OpenSSL finds no error; and *)
(* without one it always is (TLSHandler.cpp:31-92).                        *)
(***************************************************************************)
THEOREM ChainExact ==
  ASSUME NEW verifyFileName \in BOOLEAN, NEW chain \in Seq(BOOLEAN)
  PROVE  Verify(on_tls_init(verifyFileName), chain)
           <=> (verifyFileName =>
                  /\ Len(chain) \in 1 .. 9
                  /\ \A d \in DOMAIN chain : chain[d])
<1> DEFINE N == Len(chain)
           OK(d) == verify_certificate(chain[d], d - 1)
           Is(f) == f = [n \in 0 .. N |-> n > 0 => OK(n) /\ f[n - 1]]
           From == CHOOSE f : Is(f)
           All == [n \in 0 .. N |-> \A d \in 1 .. n : OK(d)]
<1>0. N \in Nat /\ DOMAIN chain = 1 .. N /\ \A d \in 1 .. N : chain[d] \in BOOLEAN
  BY LenProperties, ElementOfSeq
<1>n. N \in Nat
  BY <1>0
<1>1. Is(All)
  <2> SUFFICES ASSUME NEW n \in 0 .. N
               PROVE  (\A d \in 1 .. n : OK(d)) = (n > 0 => OK(n) /\ All[n - 1])
    BY Zenon
  <2>1. CASE n = 0
    <3>1. 1 .. n = {} /\ ~ (n > 0)
      BY <2>1
    <3> QED  BY <3>1, Zenon
  <2>2. CASE n > 0
    <3>1. n - 1 \in 0 .. N /\ 1 .. n = (1 .. (n - 1)) \cup {n}
      BY <2>2, <1>0
    <3>2. All[n - 1] = \A d \in 1 .. (n - 1) : OK(d)
      BY <3>1, Zenon
    <3> HIDE DEF OK, All
    <3> QED  BY <3>1, <3>2, <2>2, Zenon
  <2>3. n = 0 \/ n > 0
    BY <1>0
  <2> QED  BY <2>1, <2>2, <2>3, Zenon
<1>2. Is(From)
  <2> HIDE DEF Is
  <2> QED  BY <1>1, Zenon
<1>3. Verify(on_tls_init(verifyFileName), chain)
        <=> /\ "verify_peer" \in on_tls_init(verifyFileName) => From[N]
            /\ "verify_fail_if_no_peer_cert" \in on_tls_init(verifyFileName) => chain # <<>>
  BY DEF Verify
<1> HIDE DEF From
<1>4. \A n \in 0 .. N : From[n] = (n > 0 => OK(n) /\ From[n - 1])
  <2>1. From = [n \in 0 .. N |-> n > 0 => OK(n) /\ From[n - 1]]
    BY <1>2
  <2> HIDE DEF OK
  <2> QED  BY <2>1, Zenon
<1> DEFINE S == {n \in 0 .. N : From[n] <=> \A d \in 1 .. n : OK(d)}
<1>5. \A n \in 0 .. N : n \in S
  <2>1. 0 \in S
    <3>1. 0 \in 0 .. N /\ 1 .. 0 = {} /\ ~ (0 > 0)
      BY <1>0
    <3> HIDE DEF OK
    <3> QED  BY <3>1, <1>4, Zenon
  <2>2. ASSUME NEW n \in Nat, n < N, n \in S
        PROVE  n + 1 \in S
    <3>1. /\ n + 1 \in 0 .. N /\ n + 1 > 0 /\ (n + 1) - 1 = n /\ n \in 0 .. N
          /\ 1 .. (n + 1) = (1 .. n) \cup {n + 1}
      BY <2>2, <1>0
    <3> HIDE DEF OK
    <3>2. From[n] <=> \A d \in 1 .. n : OK(d)
      BY <2>2, Zenon
    <3>3. From[n + 1] = (OK(n + 1) /\ From[n])
      BY <3>1, <1>4, Zenon
    <3> QED  BY <3>1, <3>2, <3>3, Zenon
  <2> HIDE DEF S
  <2> QED  BY <1>0, <2>1, <2>2, UpTo
<1>6. From[N] <=> \A d \in 1 .. N : OK(d)
  <2>1. N \in 0 .. N
    BY <1>0
  <2> HIDE DEF OK
  <2> QED  BY <1>5, <2>1, Zenon
<1>7. (\A d \in 1 .. N : OK(d)) /\ chain # <<>>
        <=> N \in 1 .. 9 /\ \A d \in 1 .. N : chain[d]
  <2>1. \A d \in 1 .. N : OK(d) <=> chain[d] /\ d <= 9
    BY <1>0 DEF verify_certificate, maxDepth
  <2>2. chain # <<>> <=> N >= 1
    BY <1>0
  <2> HIDE DEF OK
  <2>3. (\A d \in 1 .. N : d <= 9) <=> N <= 9
    BY <1>0
  <2>4. (\A d \in 1 .. N : OK(d))
          <=> (\A d \in 1 .. N : chain[d]) /\ (\A d \in 1 .. N : d <= 9)
    BY <2>1, Zenon
  <2>5. N \in 1 .. 9 <=> N >= 1 /\ N <= 9
    <3> HIDE DEF N
    <3> QED  BY <1>n
  <2> QED  BY <2>2, <2>3, <2>4, <2>5, Zenon
<1> HIDE DEF OK
<1>8. CASE verifyFileName
  <2>1. /\ "verify_peer" \in on_tls_init(verifyFileName)
        /\ "verify_fail_if_no_peer_cert" \in on_tls_init(verifyFileName)
    BY <1>8 DEF on_tls_init
  <2> QED  BY <1>0, <1>3, <1>6, <1>7, <1>8, <2>1
<1>9. CASE ~ verifyFileName
  <2>1. on_tls_init(verifyFileName) = {}
    BY <1>9 DEF on_tls_init
  <2> QED  BY <1>3, <1>9, <2>1, Zenon
<1> QED  BY <1>8, <1>9

(***************************************************************************)
(* The functions that are defined by their value for 0 and, for each other *)
(* number, from the value before.  There is one.                           *)
(***************************************************************************)
Recursive(n, X, x0, G) ==
  {f \in [0 .. n -> X] : f[0] = x0 /\ \A i \in 1 .. n : f[i] = G[i][f[i - 1]]}

LEMMA RecursionExists ==
  ASSUME NEW n \in Nat, NEW X, NEW x0 \in X, NEW G \in [1 .. n -> [X -> X]]
  PROVE  Recursive(n, X, x0, G) # {}
<1> DEFINE Is(f, k) == /\ f \in [0 .. k -> X] /\ f[0] = x0
                       /\ \A i \in 1 .. k : f[i] = G[i][f[i - 1]]
           S == {k \in 0 .. n : \E f : Is(f, k)}
<1>1. 0 \in S
  <2> DEFINE g == [i \in 0 .. 0 |-> x0]
  <2>1. Is(g, 0)
    OBVIOUS
  <2> HIDE DEF Is
  <2> QED  BY <2>1
<1>2. ASSUME NEW k \in Nat, k < n, k \in S
      PROVE  k + 1 \in S
  <2>1. PICK f : Is(f, k)
    BY <1>2
  <2> DEFINE g == [i \in 0 .. k + 1 |-> IF i <= k THEN f[i] ELSE G[k + 1][f[k]]]
  <2>2. G[k + 1][f[k]] \in X
    BY <1>2, <2>1
  <2>3. g \in [0 .. k + 1 -> X]
    BY <1>2, <2>1, <2>2
  <2>4. \A i \in 0 .. k : g[i] = f[i]
    BY <1>2
  <2>5. g[k + 1] = G[k + 1][f[k]]
    BY <1>2
  <2> HIDE DEF g
  <2>6. g[0] = x0
    BY <1>2, <2>1, <2>4
  <2>7. ASSUME NEW i \in 1 .. k + 1 PROVE g[i] = G[i][g[i - 1]]
    <3>1. CASE i = k + 1
      BY <1>2, <2>4, <2>5, <3>1
    <3>2. CASE i \in 1 .. k
      <4>1. i \in 0 .. k /\ i - 1 \in 0 .. k
        BY <1>2, <3>2
      <4>2. f[i] = G[i][f[i - 1]]
        BY <2>1, <3>2
      <4> QED  BY <2>4, <4>1, <4>2
    <3> QED  BY <1>2, <3>1, <3>2
  <2>8. Is(g, k + 1)
    BY <2>3, <2>6, <2>7
  <2> HIDE DEF Is
  <2> QED  BY <1>2, <2>8
<1>3. n \in S
  <2> HIDE DEF S
  <2>1. \A k \in 0 .. n : k \in S
    BY <1>1, <1>2, UpTo
  <2> QED  BY <2>1
<1>4. PICK f : Is(f, n)
  <2> HIDE DEF Is
  <2> QED  BY <1>3
<1> QED  BY <1>4 DEF Recursive

(***************************************************************************)
(* The same for a loop that ends at last and goes from each position to    *)
(* the next.                                                               *)
(***************************************************************************)
Loops(first, last, X, x0, G) ==
  {f \in [first .. last -> X] :
     f[last] = x0 /\ \A i \in first .. last - 1 : f[i] = G[i][f[i + 1]]}

LEMMA LoopExists ==
  ASSUME NEW first \in Nat, NEW last \in Nat, first <= last,
         NEW X, NEW x0 \in X, NEW G \in [first .. last - 1 -> [X -> X]]
  PROVE  Loops(first, last, X, x0, G) # {}
<1> DEFINE n == last - first
           H == [i \in 1 .. n |-> G[last - i]]
<1>1. n \in Nat /\ H \in [1 .. n -> [X -> X]]
  <2>1. n \in Nat
    OBVIOUS
  <2>2. \A i \in 1 .. n : last - i \in first .. last - 1
    OBVIOUS
  <2> HIDE DEF n
  <2> QED  BY <2>1, <2>2
<1>2. PICK f \in [0 .. n -> X] : f[0] = x0 /\ \A i \in 1 .. n : f[i] = H[i][f[i - 1]]
  <2> HIDE DEF n, H
  <2>1. Recursive(n, X, x0, H) # {}
    BY <1>1, RecursionExists
  <2> QED  BY <2>1 DEF Recursive
<1> DEFINE g == [i \in first .. last |-> f[last - i]]
<1>3. g \in [first .. last -> X]
  OBVIOUS
<1>4. g[last] = x0
  BY <1>2
<1>5. ASSUME NEW i \in first .. last - 1 PROVE g[i] = G[i][g[i + 1]]
  <2>1. last - i \in 1 .. n /\ last - (last - i) = i /\ (last - i) - 1 = last - (i + 1)
        /\ i \in first .. last /\ i + 1 \in first .. last
    OBVIOUS
  <2>2. f[last - i] = H[last - i][f[(last - i) - 1]]
    BY <1>2, <2>1
  <2>3. H[last - i] = G[i]
    BY <2>1
  <2>4. g[i] = f[last - i] /\ g[i + 1] = f[last - (i + 1)]
    BY <2>1
  <2> QED  BY <2>1, <2>2, <2>3, <2>4
<1> QED  BY <1>3, <1>4, <1>5 DEF Loops

\* Induction from the end of a loop to its beginning.
LEMMA DownTo ==
  ASSUME NEW first \in Nat, NEW last \in Nat, NEW S, last \in S,
         \A i \in Nat : first <= i /\ i < last /\ i + 1 \in S => i \in S
  PROVE  \A i \in first .. last : i \in S
<1>1. SUFFICES ASSUME first <= last PROVE \A i \in first .. last : i \in S
  OBVIOUS
<1> DEFINE n == last - first
           T == {k \in 0 .. n : last - k \in S}
<1>2. n \in Nat
  BY <1>1
<1>3. 0 \in T
  BY <1>2
<1>4. ASSUME NEW k \in Nat, k < n, k \in T PROVE k + 1 \in T
  <2>1. last - (k + 1) \in Nat /\ first <= last - (k + 1) /\ last - (k + 1) < last
        /\ (last - (k + 1)) + 1 = last - k /\ k + 1 \in 0 .. n
    BY <1>1, <1>4
  <2> QED  BY <1>4, <2>1
<1>5. \A k \in 0 .. n : k \in T
  <2> HIDE DEF n, T
  <2> QED  BY <1>2, <1>3, <1>4, UpTo
<1>6. ASSUME NEW i \in first .. last PROVE i \in S
  <2>1. last - i \in 0 .. n /\ last - (last - i) = i
    OBVIOUS
  <2> QED  BY <1>5, <2>1
<1> QED  BY <1>6

\* uint32_t
UserReference == {ref \in Nat : ref \div 16777216 < 256}

LEMMA ReferenceBytes ==
  ASSUME NEW ref \in UserReference
  PROVE  htonl(ref) \in Seq(Byte) /\ Len(htonl(ref)) = 4 /\ ntohl(htonl(ref)) = ref
<1> DEFINE b1 == ref \div 16777216
           b2 == (ref \div 65536) % 256
           b3 == (ref \div 256) % 256
           b4 == ref % 256
<1>1. ref \in Nat /\ b1 < 256
  BY DEF UserReference
<1>2. b1 \in Byte /\ b2 \in Byte /\ b3 \in Byte /\ b4 \in Byte
  BY <1>1 DEF Byte
<1>3. ((b1 * 256 + b2) * 256 + b3) * 256 + b4 = ref
  BY <1>1
<1>4. htonl(ref) = <<b1, b2, b3, b4>>
  BY DEF htonl
<1> HIDE DEF b1, b2, b3, b4
<1> QED  BY <1>2, <1>3, <1>4 DEF ntohl

(***************************************************************************)
(* The receiver reads back the type, the reference and the body that the   *)
(* sender put in, for every reference of 32 bits and every body, and never *)
(* refuses the message as too small (Message.cpp:3-42).                    *)
(***************************************************************************)
THEOREM RoundTrip ==
  ASSUME NEW t \in DOMAIN MessageType, NEW ref \in UserReference,
         NEW body \in Seq(Byte)
  PROVE  SurvivesTheWire(t, ref, body)
<1> DEFINE code == MessageType[t]
           header == <<code>> \o htonl(ref)
           payload == Encode(t, ref, body)
<1>1. /\ htonl(ref) \in Seq(Byte) /\ Len(htonl(ref)) = 4
      /\ ntohl(htonl(ref)) = ref
  BY ReferenceBytes
<1>2. /\ <<code>> \in Seq(Byte) /\ Len(<<code>>) = 1 /\ <<code>>[1] = code
  <2>1. code \in Byte
    <3>1. DOMAIN MessageType = {"REQUEST", "RESPONSE", "INFO", "REQUESTERROR"}
      BY DEF MessageType
    <3>2. code \in 0 .. 3
      BY <3>1 DEF MessageType
    <3> QED  BY <3>2 DEF Byte
  <2> HIDE DEF code
  <2> QED  BY <2>1
<1>3. payload = header \o body
  BY DEF Encode
<1> HIDE DEF code, payload
<1>4. /\ header \in Seq(Byte) /\ Len(header) = 5
      /\ header[1] = code
      /\ \A i \in 1 .. 4 : header[i+1] = htonl(ref)[i]
  <2>1. /\ header \in Seq(Byte) /\ Len(header) = Len(<<code>>) + Len(htonl(ref))
        /\ \A i \in 1 .. Len(<<code>>) + Len(htonl(ref)) :
             header[i] = IF i <= Len(<<code>>) THEN <<code>>[i]
                         ELSE htonl(ref)[i - Len(<<code>>)]
    BY <1>1, <1>2, ConcatProperties
  <2> HIDE DEF header
  <2> QED  BY <1>1, <1>2, <2>1
<1> HIDE DEF header
<1>5. /\ Len(body) \in Nat
      /\ payload \in Seq(Byte) /\ Len(payload) = 5 + Len(body)
      /\ \A i \in 1 .. 5 : payload[i] = header[i]
      /\ \A i \in 1 .. Len(body) : payload[i+5] = body[i]
  <2>1. /\ payload \in Seq(Byte) /\ Len(payload) = Len(header) + Len(body)
        /\ \A i \in 1 .. Len(header) + Len(body) :
             payload[i] = IF i <= Len(header) THEN header[i] ELSE body[i - Len(header)]
    BY <1>3, <1>4, ConcatProperties
  <2>2. Len(body) \in Nat
    BY LenProperties
  <2> QED  BY <1>4, <2>1, <2>2
<1>6. LargeEnough(payload)
  BY <1>5 DEF LargeEnough, HeaderSize
<1>7. type(payload) = t
  <2>1. payload[1] = MessageType[t]
    BY <1>4, <1>5 DEF code
  <2>2. \A m, n \in DOMAIN MessageType : MessageType[m] = MessageType[n] => m = n
    BY DEF MessageType
  <2> QED  BY <2>1, <2>2 DEF type
<1>8. userReference(payload) = ref
  <2>1. \A i \in 2 .. 5 : payload[i] \in Byte
    BY <1>5, ElementOfSeq
  <2>2. /\ Len(SubSeq(payload, 2, 5)) = 4
        /\ \A i \in 1 .. 4 : SubSeq(payload, 2, 5)[i] = payload[i+1]
    BY <2>1, SubSeqProperties
  <2>3. \A i \in 1 .. 4 : SubSeq(payload, 2, 5)[i] = htonl(ref)[i]
    BY <1>4, <1>5, <2>2
  <2> QED  BY <1>1, <2>3 DEF userReference, ntohl
<1>9. messageBody(payload) = body
  <2>1. \A i \in 6 .. Len(payload) : payload[i] \in Byte
    BY <1>5, ElementOfSeq
  <2>2. /\ messageBody(payload) \in Seq(Byte)
        /\ Len(messageBody(payload)) = Len(body)
        /\ \A i \in 1 .. Len(body) : messageBody(payload)[i] = payload[i+5]
    BY <1>5, <2>1, SubSeqProperties DEF messageBody
  <2> QED  BY <1>5, <2>2, SeqEqual
<1> QED  BY <1>6, <1>7, <1>8, <1>9 DEF SurvivesTheWire, payload

\* The characters that one code stands for, without the surrogates.
Code == {c \in Nat : c < 55296}

LEMMA Bytes ==
  ASSUME NEW b \in Nat, b < 256
  PROVE  b \in Byte
BY DEF Byte

LEMMA UTF8Length ==
  ASSUME NEW c \in Code
  PROVE  /\ UTF8(c) \in Seq(Byte) /\ Len(UTF8(c)) \in Nat /\ Len(UTF8(c)) >= 1
         /\ Len(UTF8(c)) = 1 <=> c < 128
         /\ c < 128 => UTF8(c)[1] = c
<1>1. c \in Nat /\ c < 55296
  BY DEF Code
<1>2. CASE c < 128
  <2>1. UTF8(c) = <<c>> /\ c \in Byte
    BY <1>1, <1>2, Bytes DEF UTF8
  <2> QED  BY <1>2, <2>1, SMT
<1>3. CASE ~ (c < 128) /\ c < 2048
  <2> DEFINE a == 192 + (c \div 64)
             b == 128 + (c % 64)
  <2>1. UTF8(c) = <<a, b>>
    BY <1>3, SMT DEF UTF8
  <2>2. a \in Nat /\ a < 256 /\ b \in Nat /\ b < 256
    BY <1>1, <1>3, SMT
  <2> HIDE DEF a, b
  <2>3. a \in Byte /\ b \in Byte
    BY <2>2, Bytes, SMT
  <2> QED  BY <1>3, <2>1, <2>3, SMT
<1>4. CASE ~ (c < 2048)
  <2> DEFINE a == 224 + (c \div 4096)
             b == 128 + ((c \div 64) % 64)
             d == 128 + (c % 64)
  <2>1. UTF8(c) = <<a, b, d>>
    BY <1>1, <1>4, SMT DEF UTF8
  <2>2. a \in Nat /\ a < 256 /\ b \in Nat /\ b < 256 /\ d \in Nat /\ d < 256
    BY <1>1, <1>4, SMT
  <2> HIDE DEF a, b, d
  <2>3. a \in Byte /\ b \in Byte /\ d \in Byte
    BY <2>2, Bytes, SMT
  <2> QED  BY <1>1, <1>4, <2>1, <2>3, SMT
<1> QED  BY <1>2, <1>3, <1>4

\* FlattenSeq puts one sequence after the other.
LEMMA FlattenSeqIs ==
  ASSUME NEW S, NEW s \in Seq(Seq(S)), s # <<>>
  PROVE  \E f : /\ FlattenSeq(s) = f[Len(s)]
                /\ f[1] = s[1]
                /\ \A i \in 2 .. Len(s) : f[i] = f[i - 1] \o s[i]
<1> DEFINE N == Len(s)
           X == Seq(S)
           G == [i \in 1 .. N |-> [x \in X |-> x \o s[i]]]
           Is(f) == f = [i \in 1 .. N |-> IF i = 1 THEN s[i] ELSE f[i - 1] \o s[i]]
           flatten == CHOOSE f : Is(f)
<1>1. N \in Nat /\ N # 0 /\ \A i \in 1 .. N : s[i] \in X
  BY EmptySeq, LenProperties, ElementOfSeq
<1>2. <<>> \in X /\ G \in [1 .. N -> [X -> X]]
  <2>1. \A i \in 1 .. N : \A x \in X : x \o s[i] \in X
    BY <1>1, ConcatProperties
  <2>2. <<>> \in X
    BY EmptySeq
  <2> HIDE DEF X, N
  <2> QED  BY <2>1, <2>2
<1>3. PICK f \in [0 .. N -> X] : f[0] = <<>> /\ \A i \in 1 .. N : f[i] = G[i][f[i - 1]]
  <2> HIDE DEF N, X, G
  <2>1. Recursive(N, X, <<>>, G) # {}
    BY <1>1, <1>2, RecursionExists
  <2> QED  BY <2>1 DEF Recursive
<1>4. \A i \in 1 .. N : f[i] = f[i - 1] \o s[i]
  <2> SUFFICES ASSUME NEW i \in 1 .. N PROVE f[i] = f[i - 1] \o s[i]
    OBVIOUS
  <2>1. i - 1 \in 0 .. N
    BY <1>1
  <2>2. f[i - 1] \in X
    BY <1>3, <2>1
  <2>3. G[i][f[i - 1]] = f[i - 1] \o s[i]
    BY <2>2
  <2> QED  BY <1>3, <2>3
<1>5. f[1] = s[1]
  <2>0. 1 \in 1 .. N /\ 1 - 1 = 0
    BY <1>1
  <2>1. f[1] = f[0] \o s[1] /\ s[1] \in X
    <3> HIDE DEF N
    <3> QED  BY <1>1, <1>4, <2>0
  <2> QED  BY <1>3, <2>1, ConcatEmptySeq
<1>6. \E g : Is(g)
  <2> DEFINE g == [i \in 1 .. N |-> f[i]]
  <2>1. \A i \in 1 .. N : f[i] = IF i = 1 THEN s[i] ELSE g[i - 1] \o s[i]
    <3> SUFFICES ASSUME NEW i \in 1 .. N
                 PROVE  f[i] = IF i = 1 THEN s[i] ELSE g[i - 1] \o s[i]
      OBVIOUS
    <3>1. CASE i = 1
      BY <1>5, <3>1
    <3>2. CASE i # 1
      <4>1. i - 1 \in 1 .. N
        BY <1>1, <3>2
      <4>2. g[i - 1] = f[i - 1]
        BY <4>1
      <4> QED  BY <1>4, <3>2, <4>2
    <3> QED  BY <3>1, <3>2
  <2>2. Is(g)
    <3> HIDE DEF N
    <3> QED  BY <2>1
  <2> HIDE DEF Is, g
  <2> QED  BY <2>2
<1>7. Is(flatten)
  <2> HIDE DEF Is
  <2> QED  BY <1>6, Zenon
<1>8. FlattenSeq(s) = flatten[N]
  BY <1>1 DEF FlattenSeq
<1> HIDE DEF flatten
<1>9. \A i \in 1 .. N : flatten[i] = IF i = 1 THEN s[i] ELSE flatten[i - 1] \o s[i]
  <2> HIDE DEF N
  <2>1. flatten = [i \in 1 .. N |-> IF i = 1 THEN s[i] ELSE flatten[i - 1] \o s[i]]
    BY <1>7
  <2> QED  BY <2>1, Zenon
<1>10. flatten[1] = s[1] /\ \A i \in 2 .. N : flatten[i] = flatten[i - 1] \o s[i]
  <2>1. 1 \in 1 .. N
    BY <1>1
  <2>2. \A i \in 2 .. N : i \in 1 .. N /\ i # 1
    BY <1>1
  <2> HIDE DEF N
  <2> QED  BY <1>9, <2>1, <2>2
<1> QED  BY <1>8, <1>10

(***************************************************************************)
(* A text in UTF-8 has at least a byte for each character, and just one    *)
(* for each if they are ASCII.  What is in front of the first character    *)
(* that is not ASCII is there as it is.                                    *)
(***************************************************************************)
LEMMA UTF8Text ==
  ASSUME NEW string \in Seq(Code), string # <<>>
  PROVE  LET bytes == FlattenSeq([i \in DOMAIN string |-> UTF8(string[i])])
         IN  /\ bytes \in Seq(Byte)
             /\ Len(bytes) >= Len(string)
             /\ Len(bytes) = Len(string) <=> \A i \in DOMAIN string : string[i] < 128
             /\ \A k \in 1 .. Len(string) :
                  (\A j \in 1 .. k : string[j] < 128) => \A j \in 1 .. k : bytes[j] = string[j]
<1> DEFINE N == Len(string)
           s == [i \in 1 .. N |-> UTF8(string[i])]
<1>1. /\ N \in Nat /\ N # 0 /\ DOMAIN string = 1 .. N
      /\ \A i \in 1 .. N : string[i] \in Code
  BY EmptySeq, LenProperties, ElementOfSeq
<1>2. s \in Seq(Seq(Byte)) /\ Len(s) = N /\ \A i \in 1 .. N : s[i] = UTF8(string[i])
  <2>1. \A i \in 1 .. N : UTF8(string[i]) \in Seq(Byte)
    BY <1>1, UTF8Length
  <2>2. s \in Seq(Seq(Byte)) /\ Len(s) = N
    <3> HIDE DEF N
    <3> QED  BY <1>1, <2>1, IsASeq
  <2> HIDE DEF N
  <2> QED  BY <2>2
<1>3. s # <<>>
  <2> HIDE DEF s, N
  <2> QED  BY <1>1, <1>2
<1>4. PICK f : /\ FlattenSeq(s) = f[N] /\ f[1] = s[1]
               /\ \A i \in 2 .. N : f[i] = f[i - 1] \o s[i]
  <2> HIDE DEF s, N
  <2> QED  BY <1>2, <1>3, FlattenSeqIs
<1> DEFINE Ascii(k) == \A j \in 1 .. k : string[j] < 128
           Good(i) == /\ f[i] \in Seq(Byte) /\ Len(f[i]) \in Nat
                      /\ Len(f[i]) >= i
                      /\ Len(f[i]) = i <=> Ascii(i)
                      /\ \A k \in 1 .. i : Ascii(k) => \A j \in 1 .. k : f[i][j] = string[j]
           T == {i \in 0 .. N : i = 0 \/ Good(i)}
<1>5. ASSUME NEW c \in Nat, c < N, c \in T
      PROVE  c + 1 \in T
  <2> DEFINE i == c + 1
             u == UTF8(string[i])
  <2>1. /\ i \in 1 .. N /\ i \in 0 .. N /\ i - 1 = c /\ s[i] = u
        /\ 1 .. i = (1 .. c) \cup {i}
    BY <1>1, <1>2, <1>5
  <2>2. /\ u \in Seq(Byte) /\ Len(u) \in Nat /\ Len(u) >= 1
        /\ Len(u) = 1 <=> string[i] < 128
        /\ string[i] < 128 => u[1] = string[i]
    BY <1>1, <2>1, UTF8Length
  <2>3. CASE c = 0
    <3>1. i = 1 /\ f[1] = u
      BY <1>4, <2>1, <2>3
    <3>2. /\ \A k \in 1 .. 1 : k = 1
          /\ Ascii(1) <=> string[1] < 128
      OBVIOUS
    <3> HIDE DEF u
    <3>3. Good(1)
      BY <2>2, <3>1, <3>2
    <3> QED  BY <2>1, <3>1, <3>3
  <2>4. CASE c # 0
    <3>1. Good(c) /\ f[i] = f[c] \o u
      <4>1. i \in 2 .. N
        BY <2>1, <2>4
      <4> QED  BY <1>4, <1>5, <2>1, <2>4, <4>1
    <3> HIDE DEF u
    <3>2. /\ f[i] \in Seq(Byte) /\ Len(f[i]) = Len(f[c]) + Len(u)
          /\ \A j \in 1 .. Len(f[c]) + Len(u) :
               f[i][j] = IF j <= Len(f[c]) THEN f[c][j] ELSE u[j - Len(f[c])]
      BY <2>2, <3>1, ConcatProperties
    <3>3. Ascii(i) <=> Ascii(c) /\ string[i] < 128
      BY <2>1
    <3>4. Len(f[i]) \in Nat /\ Len(f[i]) >= i /\ (Len(f[i]) = i <=> Ascii(i))
      <4>1. /\ Len(f[c]) \in Nat /\ Len(f[c]) >= c /\ Len(u) \in Nat /\ Len(u) >= 1
            /\ Len(f[i]) = Len(f[c]) + Len(u)
        BY <2>2, <3>1, <3>2
      <4>2. Len(f[c]) = c <=> Ascii(c)
        BY <3>1
      <4>3. /\ Len(f[i]) \in Nat /\ Len(f[i]) >= i
            /\ Len(f[i]) = i <=> Len(f[c]) = c /\ Len(u) = 1
        <5> DEFINE l == Len(f[c])
                   m == Len(u)
                   n == Len(f[i])
        <5>1. l \in Nat /\ l >= c /\ m \in Nat /\ m >= 1 /\ n = l + m /\ c \in Nat
          BY <4>1
        <5> HIDE DEF l, m, n
        <5>2. n \in Nat /\ n >= c + 1
          BY <5>1
        <5>3. n = c + 1 <=> l = c /\ m = 1
          BY <5>1
        <5> QED  BY <5>2, <5>3 DEF l, m, n
      <4> HIDE DEF Ascii, i
      <4> QED  BY <2>2, <3>3, <4>2, <4>3
    <3>5. ASSUME NEW k \in 1 .. i, Ascii(k), NEW j \in 1 .. k
          PROVE  f[i][j] = string[j]
      <4>1. CASE k \in 1 .. c
        <5>1. j <= Len(f[c]) /\ j \in 1 .. Len(f[c]) + Len(u)
          BY <2>2, <3>1, <4>1
        <5>2. f[c][j] = string[j]
          BY <3>1, <3>5, <4>1
        <5> QED  BY <3>2, <5>1, <5>2
      <4>2. CASE k = i
        <5>1. /\ Ascii(c) /\ string[i] < 128 /\ Len(f[c]) = c /\ Len(u) = 1
              /\ u[1] = string[i]
          BY <2>2, <3>1, <3>3, <3>5, <4>2
        <5>2. CASE j = i
          <6>1. ~ (i <= c) /\ i - c = 1 /\ i \in 1 .. c + 1
            BY <2>1
          <6> QED  BY <3>2, <5>1, <5>2, <6>1
        <5>3. CASE j \in 1 .. c
          <6>1. f[c][j] = string[j]
            <7>1. c \in 1 .. c
              BY <2>4
            <7> QED  BY <3>1, <5>1, <5>3, <7>1
          <6>2. j \in 1 .. c + 1 /\ j <= c
            BY <5>3
          <6> QED  BY <3>2, <5>1, <6>1, <6>2
        <5> QED  BY <2>1, <4>2, <5>2, <5>3
      <4> QED  BY <2>1, <4>1, <4>2
    <3>6. Good(i)
      BY <3>2, <3>4, <3>5
    <3> QED  BY <2>1, <3>6
  <2> QED  BY <2>3, <2>4
<1>6. Good(N)
  <2>1. 0 \in T
    BY <1>1
  <2>2. \A i \in 0 .. N : i \in T
    <3> HIDE DEF T, N
    <3> QED  BY <1>1, <1>5, <2>1, UpTo
  <2>3. N \in 0 .. N
    BY <1>1
  <2> HIDE DEF Good, N
  <2> QED  BY <1>1, <2>2, <2>3
<1> QED  BY <1>1, <1>4, <1>6

\* Received(Encode(...)), from RoundTrip.
LEMMA ReceivedIs ==
  ASSUME NEW t \in DOMAIN MessageType, NEW ref \in UserReference, NEW body \in Seq(Byte)
  PROVE  Received(Encode(t, ref, body))
           = [large |-> TRUE, type |-> t, userReference |-> ref, body |-> body]
BY RoundTrip, Zenon DEF SurvivesTheWire, Received

\* The bytes of a text in an ArrayBuffer.
LEMMA CharacterBytes ==
  ASSUME NEW text \in Seq(Code)
  PROVE  LET bytes == [i \in DOMAIN text |-> setUint8(text[i])]
         IN  bytes \in Seq(Byte) /\ (bytes = text <=> Within(text, 256))
<1> DEFINE bytes == [i \in 1 .. Len(text) |-> setUint8(text[i])]
<1>1. /\ Len(text) \in Nat /\ DOMAIN text = 1 .. Len(text)
      /\ text = [i \in 1 .. Len(text) |-> text[i]]
      /\ \A i \in 1 .. Len(text) : text[i] \in Code /\ text[i] \in Nat
  BY LenProperties, ElementOfSeq DEF Code
<1>2. \A i \in 1 .. Len(text) : /\ setUint8(text[i]) \in Byte
                                /\ setUint8(text[i]) = text[i] <=> text[i] < 256
  <2> SUFFICES ASSUME NEW i \in 1 .. Len(text)
               PROVE  /\ setUint8(text[i]) \in Byte
                      /\ setUint8(text[i]) = text[i] <=> text[i] < 256
    OBVIOUS
  <2> DEFINE c == text[i]
  <2>1. c \in Nat
    BY <1>1
  <2> HIDE DEF c
  <2>2. c % 256 \in Nat /\ c % 256 < 256 /\ (c % 256 = c <=> c < 256)
    BY <2>1
  <2>3. c % 256 \in Byte
    BY <2>2, Bytes
  <2> QED  BY <2>2, <2>3 DEF setUint8, c
<1>3. bytes \in Seq(Byte)
  BY <1>1, <1>2, IsASeq
<1>4. bytes = text <=> \A i \in 1 .. Len(text) : text[i] < 256
  <2>1. ASSUME bytes = text PROVE \A i \in 1 .. Len(text) : text[i] < 256
    <3>1. \A i \in 1 .. Len(text) : bytes[i] = setUint8(text[i])
      OBVIOUS
    <3> HIDE DEF bytes
    <3> QED  BY <1>2, <2>1, <3>1
  <2>2. ASSUME \A i \in 1 .. Len(text) : text[i] < 256 PROVE bytes = text
    <3>1. \A i \in 1 .. Len(text) : setUint8(text[i]) = text[i]
      BY <1>2, <2>2
    <3> QED  BY <1>1, <3>1
  <2> QED  BY <2>1, <2>2
<1> QED  BY <1>1, <1>3, <1>4 DEF Within

\* A request of a browser is framed as one of Message.cpp.
LEMMA RequestFrame ==
  ASSUME NEW ref, NEW text
  PROVE  sendRequest(ref, text)
           = Encode("REQUEST", ref, [i \in DOMAIN text |-> setUint8(text[i])])
BY DEF sendRequest, Encode, setUint32

\* What handleMessage reads out of a reply.
LEMMA ReplyRead ==
  ASSUME NEW ref \in UserReference, NEW body \in Seq(Byte)
  PROVE  LET reply == handleMessage(Encode("RESPONSE", ref, body))
         IN  /\ reply.type = MessageType.RESPONSE
             /\ reply.userReference = ref /\ reply.message = body
<1> DEFINE payload == Encode("RESPONSE", ref, body)
<1>1. "RESPONSE" \in DOMAIN MessageType /\ MessageType["RESPONSE"] = 1
  BY DEF MessageType
<1>2. userReference(payload) = ref /\ messageBody(payload) = body
  BY <1>1, RoundTrip DEF SurvivesTheWire
<1>3. payload[1] = MessageType.RESPONSE
  <2>1. /\ htonl(ref) \in Seq(Byte) /\ Len(htonl(ref)) = 4
    BY ReferenceBytes
  <2>2. 1 \in Byte
    BY Bytes
  <2> DEFINE h == htonl(ref)
  <2>3. payload = <<1>> \o h \o body
    BY <1>1 DEF Encode
  <2> HIDE DEF h, payload
  <2>4. /\ <<1>> \in Seq(Byte) /\ Len(<<1>>) = 1 /\ <<1>>[1] = 1
    BY <2>2
  <2>5. /\ <<1>> \o h \in Seq(Byte) /\ Len(<<1>> \o h) = 5 /\ (<<1>> \o h)[1] = 1
    <3>1. /\ <<1>> \o h \in Seq(Byte) /\ Len(<<1>> \o h) = Len(<<1>>) + Len(h)
          /\ \A i \in 1 .. Len(<<1>>) + Len(h) :
               (<<1>> \o h)[i] = IF i <= Len(<<1>>) THEN <<1>>[i] ELSE h[i - Len(<<1>>)]
      BY <2>1, <2>4, ConcatProperties DEF h
    <3> QED  BY <2>1, <2>4, <3>1 DEF h
  <2>6. (<<1>> \o h \o body)[1] = 1
    <3> DEFINE g == <<1>> \o h
    <3>1. g \in Seq(Byte) /\ Len(g) = 5 /\ g[1] = 1 /\ Len(body) \in Nat
      BY <2>5, LenProperties
    <3> HIDE DEF g
    <3>2. \A i \in 1 .. Len(g) + Len(body) :
            (g \o body)[i] = IF i <= Len(g) THEN g[i] ELSE body[i - Len(g)]
      BY <3>1, ConcatProperties
    <3>3. (g \o body)[1] = 1
      BY <3>1, <3>2
    <3> QED  BY <3>3 DEF g
  <2> QED  BY <1>1, <2>3, <2>6
<1> HIDE DEF payload
<1>4. /\ handleMessage(payload).type = payload[1]
      /\ handleMessage(payload).userReference = userReference(payload)
      /\ handleMessage(payload).message = messageBody(payload)
  BY DEF handleMessage, userReference, messageBody, getUint32
<1> QED  BY <1>2, <1>3, <1>4 DEF payload

\* An info of a browser, as the other end reads it.
LEMMA InfoRead ==
  ASSUME NEW text \in Seq(Code)
  PROVE  LET info == Received(sendInfo(text))
         IN  /\ info.large /\ info.type = "INFO"
             /\ info.body = text <=> Within(text, 128)
<1> DEFINE head == <<MessageType.INFO, 0, 0, 0, 0>>
           string == head \o text
           bytes == sendInfo(text)
           M == Len(text)
           body == SubSeq(bytes, 6, Len(bytes))
<1>1. /\ M \in Nat /\ DOMAIN text = 1 .. M /\ \A i \in 1 .. M : text[i] \in Code
  BY LenProperties, ElementOfSeq
<1>2. /\ head \in Seq(Code) /\ Len(head) = 5 /\ head[1] = 2
      /\ \A i \in 1 .. 5 : head[i] < 128
  <2>1. MessageType.INFO = 2 /\ 0 \in Code /\ 2 \in Code
    BY DEF MessageType, Code
  <2>2. <<2, 0, 0, 0, 0>> \in Seq(Code) /\ Len(<<2, 0, 0, 0, 0>>) = 5
    BY <2>1
  <2> QED  BY <2>1, <2>2
<1> HIDE DEF head
<1>3. /\ string \in Seq(Code) /\ Len(string) = 5 + M
      /\ \A i \in 1 .. 5 : string[i] = head[i]
      /\ \A i \in 1 .. M : string[i + 5] = text[i]
  <2>1. /\ head \o text \in Seq(Code) /\ Len(head \o text) = Len(head) + Len(text)
        /\ \A i \in 1 .. Len(head) + Len(text) :
             (head \o text)[i] = IF i <= Len(head) THEN head[i] ELSE text[i - Len(head)]
    BY <1>2, ConcatProperties
  <2> HIDE DEF string
  <2> QED  BY <1>1, <1>2, <2>1 DEF string
<1>4. bytes = FlattenSeq([i \in DOMAIN string |-> UTF8(string[i])])
  BY DEF sendInfo, head
<1> HIDE DEF string, bytes
<1>5. string # <<>> /\ DOMAIN string = 1 .. 5 + M
  BY <1>1, <1>3, EmptySeq, LenProperties
<1>6. /\ bytes \in Seq(Byte) /\ Len(bytes) \in Nat
      /\ Len(bytes) >= 5 + M
      /\ Len(bytes) = 5 + M <=> \A i \in 1 .. 5 + M : string[i] < 128
      /\ \A k \in 1 .. 5 + M :
           (\A j \in 1 .. k : string[j] < 128) => \A j \in 1 .. k : bytes[j] = string[j]
  <2>1. /\ bytes \in Seq(Byte)
        /\ Len(bytes) >= Len(string)
        /\ Len(bytes) = Len(string) <=> \A i \in DOMAIN string : string[i] < 128
        /\ \A k \in 1 .. Len(string) :
             (\A j \in 1 .. k : string[j] < 128) => \A j \in 1 .. k : bytes[j] = string[j]
    BY <1>3, <1>4, <1>5, UTF8Text
  <2>2. Len(bytes) \in Nat
    BY <2>1, LenProperties
  <2> QED  BY <1>3, <1>5, <2>1, <2>2
<1>7. (\A i \in 1 .. 5 + M : string[i] < 128) <=> Within(text, 128)
  <2>1. ASSUME \A i \in 1 .. 5 + M : string[i] < 128, NEW i \in 1 .. M
        PROVE  text[i] < 128
    <3>1. i + 5 \in 1 .. 5 + M
      BY <1>1
    <3> QED  BY <1>3, <2>1, <3>1
  <2>2. ASSUME \A i \in 1 .. M : text[i] < 128, NEW i \in 1 .. 5 + M
        PROVE  string[i] < 128
    <3>1. CASE i \in 1 .. 5
      BY <1>2, <1>3, <3>1
    <3>2. CASE i > 5
      <4>1. i - 5 \in 1 .. M /\ (i - 5) + 5 = i
        BY <1>1, <3>2
      <4> QED  BY <1>3, <2>2, <4>1
    <3> QED  BY <1>1, <3>1, <3>2
  <2> HIDE DEF M
  <2> QED  BY <1>1, <2>1, <2>2 DEF Within
<1>8. bytes[1] = 2
  <2>1. 5 \in 1 .. 5 + M /\ 1 \in 1 .. 5
    BY <1>1
  <2>2. \A j \in 1 .. 5 : string[j] < 128
    BY <1>2, <1>3
  <2>3. bytes[1] = string[1]
    BY <1>6, <2>1, <2>2
  <2> QED  BY <1>2, <1>3, <2>1, <2>3
<1>9. type(bytes) = "INFO"
  <2>1. /\ "INFO" \in DOMAIN MessageType /\ MessageType["INFO"] = 2
        /\ \A m \in DOMAIN MessageType : MessageType[m] = 2 => m = "INFO"
    BY DEF MessageType
  <2> QED  BY <1>8, <2>1 DEF type
<1>10. /\ body \in Seq(Byte) /\ Len(body) = Len(bytes) - 5
       /\ \A i \in 1 .. Len(bytes) - 5 : body[i] = bytes[i + 5]
  <2>1. \A i \in 6 .. Len(bytes) : bytes[i] \in Byte
    BY <1>6, ElementOfSeq
  <2> DEFINE n == Len(bytes)
  <2>2. n \in Nat /\ n >= 5
    BY <1>1, <1>6
  <2>3. /\ body \in Seq(Byte) /\ Len(body) = IF 6 <= n THEN n - 6 + 1 ELSE 0
        /\ \A i \in 1 .. n - 6 + 1 : body[i] = bytes[6 + i - 1]
    <3>1. 6 \in Int /\ n \in Int
      BY <2>2
    <3> QED  BY <2>1, <3>1, SubSeqProperties
  <2> HIDE DEF n, body
  <2>4. Len(body) = n - 5
    BY <2>2, <2>3
  <2>5. ASSUME NEW i \in 1 .. n - 5 PROVE body[i] = bytes[i + 5]
    <3>1. i \in 1 .. n - 6 + 1 /\ 6 + i - 1 = i + 5
      BY <2>2
    <3> QED  BY <2>3, <3>1
  <2> QED  BY <2>3, <2>4, <2>5 DEF n
<1> HIDE DEF body
<1>11. body = text <=> Within(text, 128)
  <2>1. ASSUME body = text PROVE Within(text, 128)
    <3>1. Len(bytes) = 5 + M
      BY <1>1, <1>6, <1>10, <2>1
    <3> HIDE DEF M
    <3> QED  BY <1>6, <1>7, <3>1
  <2>2. ASSUME Within(text, 128) PROVE body = text
    <3>1. /\ Len(bytes) = 5 + M
          /\ \A j \in 1 .. 5 + M : bytes[j] = string[j]
      <4>1. 5 + M \in 1 .. 5 + M
        BY <1>1
      <4> HIDE DEF M
      <4> QED  BY <1>6, <1>7, <2>2, <4>1
    <3>2. Len(body) = M
      BY <1>1, <1>10, <3>1
    <3>3. ASSUME NEW i \in 1 .. M PROVE body[i] = text[i]
      <4>1. i \in 1 .. Len(bytes) - 5 /\ i + 5 \in 1 .. 5 + M
        BY <1>1, <3>1
      <4> QED  BY <1>3, <1>10, <3>1, <4>1
    <3>4. text \in Seq(Int) /\ body \in Seq(Int)
      <4>1. \A b \in Byte : b \in Int
        BY DEF Byte
      <4>2. \A c \in Code : c \in Int
        BY DEF Code
      <4> QED  BY <1>10, <4>1, <4>2, SeqMonotonic
    <3> QED  BY <3>2, <3>3, <3>4, SeqEqual
  <2> QED  BY <2>1, <2>2
<1>12. /\ Received(bytes).large <=> Len(bytes) >= 5
       /\ Received(bytes).type = type(bytes)
       /\ Received(bytes).body = body
  BY DEF Received, LargeEnough, HeaderSize, messageBody, body
<1>13. Len(bytes) >= 5
  BY <1>1, <1>6
<1> QED  BY <1>9, <1>11, <1>12, <1>13 DEF bytes

(***************************************************************************)
(* For every reference of 32 bits and every text of characters below the   *)
(* surrogates: the other end understands what a browser sends, and the     *)
(* browser the reply, and the text is kept just if its characters fit the  *)
(* way they are sent (Communique.js:37,67-71,91).                          *)
(***************************************************************************)
THEOREM BrowserUnderstood ==
  ASSUME NEW ref \in UserReference, NEW text \in Seq(Code)
  PROVE  Understood(ref, text, Exchange(ref, text))
<1> DEFINE bytes == [i \in DOMAIN text |-> setUint8(text[i])]
           request == Received(sendRequest(ref, text))
           info == Received(sendInfo(text))
           reply == handleMessage(Encode("RESPONSE", request.userReference, request.body))
<1>1. bytes \in Seq(Byte) /\ (bytes = text <=> Within(text, 256))
  BY CharacterBytes
<1>2. sendRequest(ref, text) = Encode("REQUEST", ref, bytes)
  BY RequestFrame
<1> HIDE DEF bytes
<1>3. request = [large |-> TRUE, type |-> "REQUEST", userReference |-> ref, body |-> bytes]
  <2>1. "REQUEST" \in DOMAIN MessageType
    BY DEF MessageType
  <2> QED  BY <1>1, <1>2, <2>1, ReceivedIs
<1> HIDE DEF request
<1>4. /\ request.large /\ request.type = "REQUEST" /\ request.userReference = ref
      /\ request.body = bytes
  BY <1>3
<1>5. /\ reply.type = MessageType.RESPONSE
      /\ reply.userReference = ref /\ reply.message = bytes
  BY <1>1, <1>4, ReplyRead
<1>6. info.large /\ info.type = "INFO" /\ (info.body = text <=> Within(text, 128))
  BY InfoRead
<1>7. Exchange(ref, text) = [request |-> request, info |-> info, reply |-> reply]
  BY DEF Exchange, request
<1> HIDE DEF info, reply
<1> DEFINE r == Exchange(ref, text)
<1>8. r.request = request /\ r.info = info /\ r.reply = reply
  BY <1>7
<1> HIDE DEF r
<1>9. Understood(ref, text, r)
  <2>1. /\ r.request.large /\ r.request.type = "REQUEST" /\ r.request.userReference = ref
        /\ r.info.large /\ r.info.type = "INFO"
        /\ r.reply.type = MessageType.RESPONSE /\ r.reply.userReference = ref
    BY <1>4, <1>5, <1>6, <1>8
  <2>2. r.request.body = text <=> Within(text, 256)
    BY <1>1, <1>4, <1>8
  <2>3. r.reply.message = text <=> Within(text, 256)
    BY <1>1, <1>5, <1>8
  <2>4. r.info.body = text <=> Within(text, 128)
    BY <1>6, <1>8
  <2> QED  BY <2>1, <2>2, <2>3, <2>4 DEF Understood
<1> QED  BY <1>9 DEF r

Results(C) == [threw : BOOLEAN, hostname : Seq(C)]

LEMMA UpToIsSeq ==
  ASSUME NEW C, NEW s \in Seq(C), NEW a \in Nat, a >= 1, NEW b \in Nat, b <= Len(s)
  PROVE  SubSeq(s, a, b) \in Seq(C)
<1>1. \A i \in a .. b : s[i] \in C
  BY LenProperties, ElementOfSeq
<1> QED  BY <1>1, SubSeqProperties

LEMMA ResultTypes ==
  ASSUME NEW C, NEW URL \in Seq(C), NEW a \in Nat, a >= 1, NEW b \in Nat, b <= Len(URL)
  PROVE  /\ Hostname(SubSeq(URL, a, b)) \in Results(C) /\ Threw \in Results(C)
         /\ Hostname(SubSeq(URL, a, b)).threw = FALSE
         /\ Hostname(SubSeq(URL, a, b)).hostname = SubSeq(URL, a, b)
         /\ Threw.threw = TRUE
<1>1. SubSeq(URL, a, b) \in Seq(C)
  BY UpToIsSeq
<1>2. <<>> \in Seq(C)
  BY EmptySeq
<1> QED  BY <1>1, <1>2 DEF Results, Hostname, Threw

(***************************************************************************)
(* The second loop of hostnameFromURL stops at the first character that    *)
(* is not a hostname's.                                                    *)
(***************************************************************************)
HostnameEnds(URL, start, position, end, result) ==
  /\ end \in position .. Len(URL) + 1
  /\ \A q \in position .. end - 1 : isHostname(URL[q])
  /\ IF end = Len(URL) + 1 THEN TRUE ELSE ~ isHostname(URL[end])
  /\ result = IF end = Len(URL) + 1 \/ URL[end] \in {":", "/"}
                THEN Hostname(SubSeq(URL, start, end - 1)) ELSE Threw

LEMMA HostnameFromStops ==
  ASSUME NEW C, NEW URL \in Seq(C), NEW start \in Nat, start >= 1,
         NEW position \in Nat, position >= 1, position <= Len(URL) + 1
  PROVE  /\ HostnameFrom(URL, start, position) \in Results(C)
         /\ \E end \in Nat : HostnameEnds(URL, start, position, end,
                                          HostnameFrom(URL, start, position))
<1> DEFINE last == Len(URL) + 1
           R == Results(C)
           Done(i) == Hostname(SubSeq(URL, start, i - 1))
           Is(f) == f = [i \in position .. last |->
                           IF i > Len(URL) \/ URL[i] \in {":", "/"} THEN Done(i)
                           ELSE IF isHostname(URL[i]) THEN f[i + 1] ELSE Threw]
           loop == CHOOSE f : Is(f)
           G == [i \in position .. last - 1 |-> [x \in R |->
                   IF URL[i] \in {":", "/"} THEN Done(i)
                   ELSE IF isHostname(URL[i]) THEN x ELSE Threw]]
<1>0. Len(URL) \in Nat /\ last \in Nat /\ position <= last
  BY LenProperties
<1>1. Threw \in R /\ \A i \in position .. last : Done(i) \in R
  <2>1. \A i \in position .. last : i - 1 \in Nat /\ i - 1 <= Len(URL)
    BY <1>0
  <2>2. 0 \in Nat /\ 0 <= Len(URL)
    BY <1>0
  <2> QED  BY <2>1, <2>2, ResultTypes
<1>2. G \in [position .. last - 1 -> [R -> R]]
  <2> HIDE DEF R, Done
  <2>1. \A i \in position .. last - 1 : i \in position .. last
    BY <1>0
  <2> QED  BY <1>1, <2>1
<1>3. \E f : Is(f)
  <2>1. Loops(position, last, R, Done(last), G) # {}
    <3>1. Done(last) \in R
      BY <1>0, <1>1
    <3> HIDE DEF last, R, Done, G
    <3> QED  BY <1>0, <1>2, <3>1, LoopExists
  <2>2. PICK f \in [position .. last -> R] :
          f[last] = Done(last) /\ \A i \in position .. last - 1 : f[i] = G[i][f[i + 1]]
    <3> HIDE DEF last, R, Done, G
    <3> QED  BY <2>1 DEF Loops
  <2>3. ASSUME NEW i \in position .. last
        PROVE  f[i] = IF i > Len(URL) \/ URL[i] \in {":", "/"} THEN Done(i)
                      ELSE IF isHostname(URL[i]) THEN f[i + 1] ELSE Threw
    <3>1. CASE i = last
      BY <1>0, <2>2, <3>1
    <3>2. CASE i \in position .. last - 1
      <4>1. i + 1 \in position .. last /\ ~ (i > Len(URL))
        BY <1>0, <3>2
      <4>2. f[i + 1] \in R
        BY <2>2, <4>1
      <4> HIDE DEF R, Done
      <4>3. G[i][f[i + 1]] = IF URL[i] \in {":", "/"} THEN Done(i)
                             ELSE IF isHostname(URL[i]) THEN f[i + 1] ELSE Threw
        BY <3>2, <4>2
      <4>4. f[i] = G[i][f[i + 1]]
        BY <2>2, <3>2
      <4> HIDE DEF G
      <4> QED  BY <4>1, <4>3, <4>4
    <3> QED  BY <1>0, <3>1, <3>2
  <2> HIDE DEF Done, last
  <2>4. f = [i \in position .. last |->
                           IF i > Len(URL) \/ URL[i] \in {":", "/"} THEN Done(i)
                           ELSE IF isHostname(URL[i]) THEN f[i + 1] ELSE Threw]
    BY <2>2, <2>3
  <2>5. Is(f)
    BY <2>4
  <2> HIDE DEF Is
  <2> QED  BY <2>5
<1>4. Is(loop)
  <2> HIDE DEF Is
  <2> QED  BY <1>3, Zenon
<1>5. HostnameFrom(URL, start, position) = loop[position]
  BY DEF HostnameFrom
<1> HIDE DEF loop
<1>6. \A i \in position .. last :
        loop[i] = IF i > Len(URL) \/ URL[i] \in {":", "/"} THEN Done(i)
                  ELSE IF isHostname(URL[i]) THEN loop[i + 1] ELSE Threw
  <2>1. loop = [i \in position .. last |->
                           IF i > Len(URL) \/ URL[i] \in {":", "/"} THEN Done(i)
                           ELSE IF isHostname(URL[i]) THEN loop[i + 1] ELSE Threw]
    BY <1>4
  <2> HIDE DEF Done, last
  <2> QED  BY <2>1, Zenon
<1> DEFINE S == {i \in position .. last :
                   /\ loop[i] \in R
                   /\ \E end \in Nat : HostnameEnds(URL, start, i, end, loop[i])}
<1>7. last \in S
  <2>1. loop[last] = Done(last)
    BY <1>0, <1>6
  <2>2. HostnameEnds(URL, start, last, last, loop[last])
    BY <1>0, <2>1 DEF HostnameEnds
  <2> QED  BY <1>0, <1>1, <2>1, <2>2
<1>8. ASSUME NEW i \in Nat, position <= i, i < last, i + 1 \in S
      PROVE  i \in S
  <2>0. i \in position .. last /\ ~ (i > Len(URL)) /\ i \in position .. Len(URL)
    BY <1>0, <1>8
  <2> DEFINE Ends(p) == p = last \/ URL[p] \in {":", "/"}
  <2>1. CASE URL[i] \in {":", "/"}
    <3>1. loop[i] = Done(i)
      BY <1>6, <2>0, <2>1
    <3>2. HostnameEnds(URL, start, i, i, loop[i])
      BY <1>0, <2>0, <2>1, <3>1 DEF HostnameEnds, isHostname, isProtocol
    <3> QED  BY <1>1, <2>0, <3>1, <3>2
  <2>2. CASE URL[i] \notin {":", "/"} /\ isHostname(URL[i])
    <3>1. loop[i] = loop[i + 1]
      BY <1>6, <2>0, <2>2
    <3>2. PICK end \in Nat : HostnameEnds(URL, start, i + 1, end, loop[i + 1])
      BY <1>8
    <3>3. /\ end \in i .. Len(URL) + 1
          /\ \A q \in i .. end - 1 : q = i \/ q \in i + 1 .. end - 1
      BY <1>0, <2>0, <3>2 DEF HostnameEnds
    <3>4. HostnameEnds(URL, start, i, end, loop[i])
      BY <2>2, <3>1, <3>2, <3>3 DEF HostnameEnds
    <3> QED  BY <1>8, <2>0, <3>1, <3>4
  <2>3. CASE URL[i] \notin {":", "/"} /\ ~ isHostname(URL[i])
    <3>1. loop[i] = Threw
      BY <1>6, <2>0, <2>3
    <3>2. HostnameEnds(URL, start, i, i, loop[i])
      BY <1>0, <2>0, <2>3, <3>1 DEF HostnameEnds
    <3> QED  BY <1>1, <2>0, <3>1, <3>2
  <2> QED  BY <2>1, <2>2, <2>3
<1>9. position \in S
  <2>1. \A i \in position .. last : i \in S
    <3> HIDE DEF S, last
    <3> QED  BY <1>0, <1>7, <1>8, DownTo
  <2> QED  BY <1>0, <2>1
<1> QED  BY <1>5, <1>9

LEMMA AfterColonTypes ==
  ASSUME NEW C, NEW URL \in Seq(C), NEW i \in 1 .. Len(URL)
  PROVE  AfterColon(URL, i) \in Results(C)
<1>0. Len(URL) \in Nat /\ 1 \in Nat /\ 1 >= 1 /\ i - 1 \in Nat /\ i - 1 <= Len(URL)
  BY LenProperties
<1>1. Hostname(SubSeq(URL, 1, i - 1)) \in Results(C)
  BY <1>0, ResultTypes
<1>2. CASE Len(URL) - i + 1 >= 3
  <2>1. i + 3 \in Nat /\ i + 3 >= 1 /\ i + 3 <= Len(URL) + 1
    BY <1>0, <1>2
  <2>2. HostnameFrom(URL, i + 3, i + 3) \in Results(C)
    BY <2>1, HostnameFromStops
  <2> QED  BY <1>1, <2>2 DEF AfterColon
<1>3. CASE ~ (Len(URL) - i + 1 >= 3)
  BY <1>1, <1>3 DEF AfterColon
<1> QED  BY <1>2, <1>3

(***************************************************************************)
(* What hostnameFromURL does at the first character that is not one of a   *)
(* protocol.                                                               *)
(***************************************************************************)
AtEnd(URL, i) ==
  IF i = Len(URL) + 1 \/ URL[i] = "/" THEN Hostname(SubSeq(URL, 1, i - 1))
  ELSE IF isHostname(URL[i]) THEN HostnameFrom(URL, 1, i + 1)
  ELSE IF URL[i] = ":" THEN AfterColon(URL, i)
  ELSE Threw

ProtocolEnds(URL, end, result) ==
  /\ end \in 1 .. Len(URL) + 1
  /\ \A q \in 1 .. end - 1 : isProtocol(URL[q])
  /\ IF end = Len(URL) + 1 THEN TRUE ELSE ~ isProtocol(URL[end])
  /\ result = AtEnd(URL, end)

\* From position i on.
ProtocolEndsFrom(URL, i, end, result) ==
  /\ end \in i .. Len(URL) + 1
  /\ \A q \in i .. end - 1 : isProtocol(URL[q])
  /\ IF end = Len(URL) + 1 THEN TRUE ELSE ~ isProtocol(URL[end])
  /\ result = AtEnd(URL, end)

LEMMA hostnameFromURLStops ==
  ASSUME NEW C, NEW URL \in Seq(C)
  PROVE  \E end \in Nat : ProtocolEnds(URL, end, hostnameFromURL(URL))
<1> DEFINE last == Len(URL) + 1
           R == Results(C)
           Done(i) == Hostname(SubSeq(URL, 1, i - 1))
           Body(i, x) == IF i > Len(URL) \/ URL[i] = "/" THEN Done(i)
                         ELSE IF isProtocol(URL[i]) THEN x
                         ELSE IF isHostname(URL[i]) THEN HostnameFrom(URL, 1, i + 1)
                         ELSE IF URL[i] = ":" THEN AfterColon(URL, i)
                         ELSE Threw
           Is(f) == f = [i \in 1 .. last |-> Body(i, f[i + 1])]
           loop == CHOOSE f : Is(f)
           G == [i \in 1 .. last - 1 |-> [x \in R |-> Body(i, x)]]
<1>0. Len(URL) \in Nat /\ last \in Nat /\ 1 <= last /\ 1 \in Nat /\ 1 >= 1
  BY LenProperties
<1>1. /\ Threw \in R
      /\ \A i \in 1 .. last : Done(i) \in R
      /\ \A i \in 1 .. last - 1 : /\ HostnameFrom(URL, 1, i + 1) \in R
                                  /\ AfterColon(URL, i) \in R
  <2>1. \A i \in 1 .. last : i - 1 \in Nat /\ i - 1 <= Len(URL)
    BY <1>0
  <2>2. \A i \in 1 .. last : Done(i) \in R
    <3> SUFFICES ASSUME NEW i \in 1 .. last PROVE Done(i) \in R
      OBVIOUS
    <3>1. i - 1 \in Nat /\ i - 1 <= Len(URL)
      BY <2>1
    <3> QED  BY <1>0, <3>1, ResultTypes
  <2>4. Threw \in R
    <3>1. 0 \in Nat /\ 0 <= Len(URL) /\ 1 >= 1
      BY <1>0
    <3> QED  BY <1>0, <3>1, ResultTypes
  <2>3. \A i \in 1 .. last - 1 : /\ i \in 1 .. Len(URL)
                                 /\ i + 1 \in Nat /\ i + 1 >= 1 /\ i + 1 <= Len(URL) + 1
    BY <1>0
  <2>5. ASSUME NEW i \in 1 .. last - 1
        PROVE  HostnameFrom(URL, 1, i + 1) \in R /\ AfterColon(URL, i) \in R
    <3>1. /\ i \in 1 .. Len(URL)
          /\ i + 1 \in Nat /\ i + 1 >= 1 /\ i + 1 <= Len(URL) + 1 /\ 1 >= 1
      BY <2>3
    <3>2. AfterColon(URL, i) \in R
      BY <3>1, AfterColonTypes
    <3>3. HostnameFrom(URL, 1, i + 1) \in R
      BY <1>0, <3>1, HostnameFromStops
    <3> QED  BY <3>2, <3>3
  <2> HIDE DEF Done, R
  <2> QED  BY <2>2, <2>4, <2>5
<1>2. G \in [1 .. last - 1 -> [R -> R]]
  <2> HIDE DEF R, Done
  <2>1. \A i \in 1 .. last - 1 : i \in 1 .. last
    BY <1>0
  <2>2. \A i \in 1 .. last - 1 : \A x \in R : Body(i, x) \in R
    BY <1>1, <2>1
  <2> HIDE DEF Body
  <2> QED  BY <2>2
<1>3. \E f : Is(f)
  <2>1. Loops(1, last, R, Done(last), G) # {}
    <3>1. Done(last) \in R
      BY <1>0, <1>1
    <3> HIDE DEF last, R, Done, G
    <3> QED  BY <1>0, <1>2, <3>1, LoopExists
  <2>2. PICK f \in [1 .. last -> R] :
          f[last] = Done(last) /\ \A i \in 1 .. last - 1 : f[i] = G[i][f[i + 1]]
    <3> HIDE DEF last, R, Done, G
    <3> QED  BY <2>1 DEF Loops
  <2>3. ASSUME NEW i \in 1 .. last
        PROVE  f[i] = Body(i, f[i + 1])
    <3>1. CASE i = last
      BY <1>0, <2>2, <3>1
    <3>2. CASE i \in 1 .. last - 1
      <4>1. i + 1 \in 1 .. last
        BY <1>0, <3>2
      <4>2. f[i + 1] \in R
        BY <2>2, <4>1
      <4> HIDE DEF R, Body
      <4>3. G[i][f[i + 1]] = Body(i, f[i + 1])
        BY <3>2, <4>2
      <4>4. f[i] = G[i][f[i + 1]]
        BY <2>2, <3>2
      <4> QED  BY <4>3, <4>4
    <3> QED  BY <1>0, <3>1, <3>2
  <2> HIDE DEF Body, last
  <2>4. f = [i \in 1 .. last |-> Body(i, f[i + 1])]
    BY <2>2, <2>3
  <2>5. Is(f)
    BY <2>4
  <2> HIDE DEF Is
  <2> QED  BY <2>5
<1>4. Is(loop)
  <2> HIDE DEF Is
  <2> QED  BY <1>3, Zenon
<1>5. hostnameFromURL(URL) = loop[1]
  BY DEF hostnameFromURL
<1> HIDE DEF loop
<1>6. \A i \in 1 .. last : loop[i] = Body(i, loop[i + 1])
  <2>1. loop = [i \in 1 .. last |-> Body(i, loop[i + 1])]
    BY <1>4
  <2> HIDE DEF Body, last
  <2> QED  BY <2>1, Zenon
<1> DEFINE S == {i \in 1 .. last : \E end \in Nat : ProtocolEndsFrom(URL, i, end, loop[i])}
<1>7. ASSUME NEW i \in 1 .. last,
             i > Len(URL) \/ URL[i] = "/" \/ ~ isProtocol(URL[i])
      PROVE  i \in S
  <2>1. loop[i] = AtEnd(URL, i)
    <3>1. i > Len(URL) <=> i = Len(URL) + 1
      BY <1>0
    <3>2. loop[i] = Body(i, loop[i + 1])
      BY <1>6
    <3> QED  BY <1>7, <3>1, <3>2 DEF AtEnd
  <2>2. ProtocolEndsFrom(URL, i, i, loop[i])
    BY <1>0, <1>7, <2>1 DEF ProtocolEndsFrom, isProtocol
  <2> QED  BY <1>0, <2>2
<1>8. last \in S
  BY <1>0, <1>7
<1>9. ASSUME NEW i \in Nat, 1 <= i, i < last, i + 1 \in S
      PROVE  i \in S
  <2>0. i \in 1 .. last /\ ~ (i > Len(URL)) /\ i \in 1 .. Len(URL)
    BY <1>0, <1>9
  <2>1. CASE URL[i] # "/" /\ isProtocol(URL[i])
    <3>1. loop[i] = loop[i + 1]
      BY <1>6, <2>0, <2>1
    <3>2. PICK end \in Nat : ProtocolEndsFrom(URL, i + 1, end, loop[i + 1])
      BY <1>9
    <3>3. /\ end \in i .. Len(URL) + 1
          /\ \A q \in i .. end - 1 : q = i \/ q \in i + 1 .. end - 1
      BY <1>0, <2>0, <3>2 DEF ProtocolEndsFrom
    <3>4. ProtocolEndsFrom(URL, i, end, loop[i])
      BY <2>1, <3>1, <3>2, <3>3 DEF ProtocolEndsFrom
    <3> QED  BY <2>0, <3>4
  <2>2. CASE ~ (URL[i] # "/" /\ isProtocol(URL[i]))
    BY <1>7, <2>0, <2>2
  <2> QED  BY <2>1, <2>2
<1>10. 1 \in S
  <2>1. \A i \in 1 .. last : i \in S
    <3> HIDE DEF S, last
    <3> QED  BY <1>0, <1>8, <1>9, DownTo
  <2> QED  BY <1>0, <2>1
<1> QED  BY <1>5, <1>10 DEF ProtocolEnds, ProtocolEndsFrom

\* "://" at position p
Separates(URL, p) ==
  p + 2 <= Len(URL) /\ URL[p] = ":" /\ URL[p + 1] = "/" /\ URL[p + 2] = "/"

LEMMA SeparatorIsFirst ==
  ASSUME NEW C, NEW URL \in Seq(C), NEW p \in Nat, NEW r, ProtocolEnds(URL, p, r)
  PROVE  Separators(URL) = IF Separates(URL, p) THEN {p} ELSE {}
<1>0. /\ Len(URL) \in Nat /\ p \in 1 .. Len(URL) + 1
      /\ \A q \in 1 .. p - 1 : isProtocol(URL[q])
      /\ p # Len(URL) + 1 => ~ isProtocol(URL[p])
  BY LenProperties DEF ProtocolEnds
<1>1. ~ isProtocol(":")
  BY DEF isProtocol
<1>2. ASSUME NEW i \in Separators(URL)
      PROVE  i = p /\ Separates(URL, p)
  <2>1. /\ i \in 1 .. Len(URL) - 2 /\ URL[i] = ":" /\ URL[i + 1] = "/" /\ URL[i + 2] = "/"
        /\ \A j \in 1 .. i - 1 : isProtocol(URL[j])
    BY <1>2 DEF Separators
  <2>2. ~ (i < p)
    BY <1>0, <1>1, <2>1
  <2>3. ~ (i > p)
    BY <1>0, <2>1
  <2>4. i = p
    BY <1>0, <2>1, <2>2, <2>3
  <2> QED  BY <1>0, <2>1, <2>4 DEF Separates
<1>3. Separates(URL, p) => p \in Separators(URL)
  BY <1>0 DEF Separates, Separators
<1> QED  BY <1>2, <1>3

(***************************************************************************)
(* Whatever characters a URL has, and however many, hostnameFromURL        *)
(* returns the hostname it holds and nothing else, or throws because of a  *)
(* character that follows it (openSSLTools.h:100-107).                     *)
(***************************************************************************)
THEOREM HostnameExact ==
  ASSUME NEW C, NEW URL \in Seq(C)
  PROVE  ExactHostname(URL, hostnameFromURL(URL))
<1> DEFINE r == hostnameFromURL(URL)
<1> SUFFICES ExactHostname(URL, r)
  OBVIOUS
<1>1. PICK p \in Nat : ProtocolEnds(URL, p, r)
  BY hostnameFromURLStops
<1>2. /\ Len(URL) \in Nat /\ p \in 1 .. Len(URL) + 1
      /\ \A q \in 1 .. p - 1 : isProtocol(URL[q])
      /\ p # Len(URL) + 1 => ~ isProtocol(URL[p])
      /\ r = AtEnd(URL, p)
  BY <1>1, LenProperties DEF ProtocolEnds
<1>3. /\ \A q \in 1 .. p - 1 : isHostname(URL[q])
      /\ ~ isHostname(":") /\ ~ isHostname("/")
  BY <1>2 DEF isHostname, isProtocol
<1> HIDE DEF r
<1>4. HostnameStart(URL) = IF Separates(URL, p) THEN p + 3 ELSE 1
  <2>1. Separators(URL) = IF Separates(URL, p) THEN {p} ELSE {}
    BY <1>1, SeparatorIsFirst
  <2>2. (CHOOSE i \in {p} : TRUE) = p
    OBVIOUS
  <2> QED  BY <2>1, <2>2 DEF HostnameStart
<1>5. \A a, b : /\ Hostname(SubSeq(URL, a, b)).threw = FALSE
                /\ Hostname(SubSeq(URL, a, b)).hostname = SubSeq(URL, a, b)
  BY DEF Hostname
<1>6. Threw.threw = TRUE
  BY DEF Threw
\* What the second loop finds is what the property asks for.
<1>7. ASSUME NEW start \in Nat, start = HostnameStart(URL),
             NEW position \in Nat, start <= position, start >= 1,
             position <= Len(URL) + 1,
             \A q \in start .. position - 1 : isHostname(URL[q]),
             r = HostnameFrom(URL, start, position)
      PROVE  ExactHostname(URL, r)
  <2>1. position >= 1
    BY <1>7
  <2>2. PICK end \in Nat : HostnameEnds(URL, start, position, end, r)
    BY <1>7, <2>1, HostnameFromStops
  <2>3. /\ end \in position .. Len(URL) + 1
        /\ \A q \in position .. end - 1 : isHostname(URL[q])
        /\ end # Len(URL) + 1 => ~ isHostname(URL[end])
        /\ r = IF end = Len(URL) + 1 \/ URL[end] \in {":", "/"}
                 THEN Hostname(SubSeq(URL, start, end - 1)) ELSE Threw
    BY <2>2 DEF HostnameEnds
  <2>4. IsHost(URL, end) /\ end \in 1 .. Len(URL) + 1
    <3>1. end \in start .. Len(URL) + 1 /\ end \in 1 .. Len(URL) + 1
      BY <1>2, <1>7, <2>3
    <3>2. ASSUME NEW j \in start .. end - 1 PROVE isHostname(URL[j])
      <4>1. j \in start .. position - 1 \/ j \in position .. end - 1
        BY <1>7, <2>3
      <4> QED  BY <1>7, <2>3, <4>1
    <3> QED  BY <1>7, <3>1, <3>2 DEF IsHost
  <2>5. CASE end = Len(URL) + 1 \/ URL[end] \in {":", "/"}
    <3>1. r.threw = FALSE /\ r.hostname = SubSeq(URL, start, end - 1)
      BY <1>5, <2>3, <2>5
    <3> QED  BY <1>7, <2>4, <2>5, <3>1 DEF ExactHostname
  <2>6. CASE ~ (end = Len(URL) + 1 \/ URL[end] \in {":", "/"})
    <3>1. r.threw = TRUE /\ end <= Len(URL)
      BY <1>2, <1>6, <2>3, <2>6
    <3> QED  BY <2>3, <2>4, <2>6, <3>1 DEF ExactHostname
  <2> QED  BY <2>5, <2>6
\* The end of the URL, or a port or path after a hostname without a protocol.
<1>8. ASSUME ~ Separates(URL, p), p = Len(URL) + 1 \/ URL[p] \in {":", "/"},
             r = Hostname(SubSeq(URL, 1, p - 1))
      PROVE  ExactHostname(URL, r)
  <2>1. IsHost(URL, p)
    BY <1>2, <1>3, <1>4, <1>8 DEF IsHost
  <2>2. r.threw = FALSE /\ r.hostname = SubSeq(URL, 1, p - 1)
    BY <1>5, <1>8
  <2> QED  BY <1>2, <1>4, <1>8, <2>1, <2>2 DEF ExactHostname
<1>9. CASE p = Len(URL) + 1 \/ URL[p] = "/"
  <2>1. ~ Separates(URL, p)
    BY <1>2, <1>9 DEF Separates
  <2>2. r = Hostname(SubSeq(URL, 1, p - 1))
    BY <1>2, <1>9 DEF AtEnd
  <2> QED  BY <1>8, <1>9, <2>1, <2>2
<1>10. CASE p <= Len(URL) /\ isHostname(URL[p])
  <2>1. URL[p] # ":" /\ URL[p] # "/" /\ p # Len(URL) + 1
    BY <1>2, <1>3, <1>10
  <2>2. r = HostnameFrom(URL, 1, p + 1)
    BY <1>2, <1>10, <2>1 DEF AtEnd
  <2>3. HostnameStart(URL) = 1
    BY <1>4, <2>1 DEF Separates
  <2>4. \A q \in 1 .. (p + 1) - 1 : isHostname(URL[q])
    BY <1>2, <1>3, <1>10
  <2>5. 1 \in Nat /\ p + 1 \in Nat /\ 1 <= p + 1 /\ 1 >= 1 /\ p + 1 <= Len(URL) + 1
    BY <1>2, <1>10
  <2> QED  BY <1>7, <2>2, <2>3, <2>4, <2>5
<1>11. CASE p <= Len(URL) /\ URL[p] = ":"
  <2>1. r = AfterColon(URL, p)
    BY <1>2, <1>3, <1>11 DEF AtEnd
  <2>2. Len(URL) - p + 1 >= 3 <=> p + 2 <= Len(URL)
    BY <1>2
  <2>3. CASE Separates(URL, p)
    <3>1. r = HostnameFrom(URL, p + 3, p + 3)
      BY <2>1, <2>2, <2>3 DEF AfterColon, Separates
    <3>2. /\ p + 3 \in Nat /\ p + 3 <= p + 3 /\ p + 3 >= 1 /\ p + 3 <= Len(URL) + 1
          /\ \A q \in p + 3 .. (p + 3) - 1 : isHostname(URL[q])
      BY <1>2, <2>3 DEF Separates
    <3>3. HostnameStart(URL) = p + 3
      BY <1>4, <2>3
    <3> QED  BY <1>7, <3>1, <3>2, <3>3
  <2>4. CASE ~ Separates(URL, p)
    <3>1. r = Hostname(SubSeq(URL, 1, p - 1))
      BY <1>11, <2>1, <2>2, <2>4 DEF AfterColon, Separates
    <3> QED  BY <1>8, <1>11, <2>4, <3>1
  <2> QED  BY <2>3, <2>4
<1>12. CASE p <= Len(URL) /\ ~ isHostname(URL[p]) /\ URL[p] \notin {":", "/"}
  <2>1. r = Threw
    BY <1>2, <1>12 DEF AtEnd
  <2>2. HostnameStart(URL) = 1
    BY <1>4, <1>12 DEF Separates
  <2>3. IsHost(URL, p)
    BY <1>2, <1>3, <2>2 DEF IsHost
  <2> QED  BY <1>2, <1>6, <1>12, <2>1, <2>3 DEF ExactHostname
<1> QED  BY <1>2, <1>9, <1>10, <1>11, <1>12

\* A date of the years that the nanoseconds of a system_clock reach.
Date ==
  {d \in Nat \X Nat \X Nat \X Nat \X Nat \X Nat :
     /\ 2000 <= d[1] /\ d[1] <= 2261
     /\ 1 <= d[2] /\ d[2] <= 12 /\ 1 <= d[3] /\ d[3] <= 31
     /\ d[4] <= 23 /\ d[5] <= 59 /\ d[6] <= 59}

PointInTime == {t \in [day : Int, second : Nat] : t.second < 86400}

Seconds(date) == 3600 * date[4] + 60 * date[5] + date[6]

\* The days from 1970 to the date.
DayOf(date) ==
  NewYear(date[1]) + DaysBeforeMonth(Leap(date[1]))[date[2]] + date[3] - 1

LEMMA BeforeIsLess ==
  ASSUME NEW a \in Int, NEW x \in Int, NEW b \in Int, NEW y \in Int
  PROVE  /\ Time(a, x) \in PointInTime
         /\ Before(Time(a, x), Time(b, y)) <=> 86400 * a + x < 86400 * b + y
<1> DEFINE d == x \div 86400
           s == x % 86400
           e == y \div 86400
           u == y % 86400
<1>1. /\ d \in Int /\ s \in Nat /\ s < 86400 /\ x = 86400 * d + s
      /\ e \in Int /\ u \in Nat /\ u < 86400 /\ y = 86400 * e + u
  OBVIOUS
<1>2. Time(a, x) = [day |-> a + d, second |-> s] /\ Time(b, y) = [day |-> b + e, second |-> u]
  BY DEF Time
<1> HIDE DEF d, s, e, u
<1>3. Time(a, x) \in PointInTime
  BY <1>1, <1>2 DEF PointInTime
<1>4. Before(Time(a, x), Time(b, y)) <=> (a + d < b + e \/ (a + d = b + e /\ s < u))
  BY <1>2 DEF Before
<1> QED  BY <1>1, <1>3, <1>4

LEMMA DateFields ==
  ASSUME NEW date \in Date
  PROVE  /\ date[1] \in Nat /\ 2000 <= date[1] /\ date[1] <= 2261
         /\ date[2] \in Nat /\ 1 <= date[2] /\ date[2] <= 12
         /\ date[3] \in Nat /\ 1 <= date[3] /\ date[3] <= 31
         /\ date[4] \in Nat /\ date[5] \in Nat /\ date[6] \in Nat
         /\ date[4] <= 23 /\ date[5] <= 59 /\ date[6] <= 59
         /\ date = <<date[1], date[2], date[3], date[4], date[5], date[6]>>
BY DEF Date

LEMMA DayInRange ==
  ASSUME NEW date \in Date
  PROVE  /\ DayOf(date) \in Nat /\ 1 <= DayOf(date) /\ DayOf(date) <= 106700
         /\ Seconds(date) \in Nat /\ Seconds(date) < 86400
<1> DEFINE y == date[1]
           m == date[2]
<1>1. /\ y \in Nat /\ 2000 <= y /\ y <= 2261 /\ m \in Nat /\ 1 <= m /\ m <= 12
      /\ date[3] \in Nat /\ 1 <= date[3] /\ date[3] <= 31
  BY DateFields
<1>2. Seconds(date) \in Nat /\ Seconds(date) < 86400
  <2>1. /\ date[4] \in Nat /\ date[5] \in Nat /\ date[6] \in Nat
        /\ date[4] <= 23 /\ date[5] <= 59 /\ date[6] <= 59
    BY DateFields
  <2> QED  BY <2>1 DEF Seconds
<1> HIDE DEF y, m
<1>3. NewYear(y) \in Nat /\ NewYear(y) <= 106300 /\ 1 <= NewYear(y)
  <2> DEFINE l == (y - 1) \div 4 - (y - 1) \div 100 + (y - 1) \div 400
  <2>1. /\ l \in Nat /\ l <= 560 /\ 477 <= l
        /\ 1969 \div 4 - 1969 \div 100 + 1969 \div 400 = 477
    BY <1>1
  <2>2. NewYear(y) = 365 * (y - 1970) + l
           - (1969 \div 4 - 1969 \div 100 + 1969 \div 400)
    BY DEF NewYear
  <2> HIDE DEF l
  <2>3. NewYear(y) = 365 * (y - 1970) + l - 477
    BY <2>1, <2>2
  <2> QED  BY <1>1, <2>1, <2>3
<1>4. Leap(y) \in {0, 1}
  BY DEF Leap
<1> DEFINE before == DaysBeforeMonth(Leap(y))[m]
<1>5. before \in Nat /\ before <= 335
  <2>1. m \in 1 .. 12
    BY <1>1
  <2> QED  BY <1>4, <2>1 DEF DaysBeforeMonth
<1>6. DayOf(date) = NewYear(y) + before + date[3] - 1
  BY DEF DayOf, y, m
<1> HIDE DEF before
<1> QED  BY <1>1, <1>2, <1>3, <1>5, <1>6

\* The nanoseconds of the clock do not wrap for the days of a Date, in any time zone.
LEMMA NoWrap ==
  ASSUME NEW day \in Int, 0 <= day, day <= 106702, NEW second \in Nat, second < 86400
  PROVE  from_time_t([day |-> day, second |-> second]) = [day |-> day, second |-> second]
<1> DEFINE t == [day |-> day, second |-> second]
           W == {Time(t.day - 213503 * n, t.second - 84874 * n) : n \in 0 .. 14}
<1>1. \A d \in Int : Representable(d) <=> -106752 <= d /\ d <= 106751
  BY DEF Representable
<1>2. Time(t.day - 213503 * 0, t.second - 84874 * 0) = t
  <2>1. Time(t.day - 213503 * 0, t.second - 84874 * 0)
          = [day |-> day + second \div 86400, second |-> second % 86400]
    BY DEF Time
  <2>2. day + second \div 86400 = day /\ second % 86400 = second
    OBVIOUS
  <2> QED  BY <2>1, <2>2
<1>3. t \in W
  <2>1. 0 \in 0 .. 14
    OBVIOUS
  <2> HIDE DEF t
  <2> QED  BY <1>2, <2>1
<1>4. Representable(t.day)
  BY <1>1
<1>5. ASSUME NEW w \in W, Representable(w.day)
      PROVE  w = t
  <2>1. PICK n \in 0 .. 14 : w = Time(t.day - 213503 * n, t.second - 84874 * n)
    BY <1>5, SMT
  <2>2. n \in Nat
    OBVIOUS
  <2>3. CASE n = 0
    BY <1>2, <2>1, <2>3
  <2>4. CASE n >= 1
    <3> DEFINE carry == (second - 84874 * n) \div 86400
    <3>1. carry \in Int /\ carry <= 0
      BY <2>2, <2>4
    <3>2. w.day = day - 213503 * n + carry
      BY <2>1 DEF Time
    <3> HIDE DEF carry
    <3>3. w.day \in Int /\ ~ (-106752 <= w.day)
      BY <2>2, <2>4, <3>1, <3>2
    <3> QED  BY <1>1, <1>5, <3>3
  <2> QED  BY <2>2, <2>3, <2>4
<1>6. from_time_t(t) = CHOOSE w \in W : Representable(w.day)
  BY DEF from_time_t
<1> HIDE DEF t, W
<1>7. from_time_t(t) = t
  BY <1>3, <1>4, <1>5, <1>6
<1> QED  BY <1>7 DEF t

LEMMA ShortText ==
  ASSUME NEW text, Len(text) = 6, \A i \in 1 .. 6 : text[i] \in Nat
  PROVE  /\ ~ Throws(text) /\ Year(text) = text[1] + 100
         /\ \A i \in 1 .. 5 :
              SubSeq(text, IF Len(text) = 6 THEN 2 ELSE 3, Len(text))[i] = text[i + 1]
<1>1. \A i \in 2 .. 6 : text[i] \in Nat
  OBVIOUS
<1>2. \A i \in 1 .. 6 - 2 + 1 : SubSeq(text, 2, 6)[i] = text[2 + i - 1]
  BY <1>1, SubSeqProperties
<1>3. ~ Throws(text) /\ Year(text) = text[1] + 100
  BY DEF Throws, Year
<1>4. SubSeq(text, IF Len(text) = 6 THEN 2 ELSE 3, Len(text)) = SubSeq(text, 2, 6)
  OBVIOUS
<1> QED  BY <1>2, <1>3, <1>4, SMT

LEMMA LongText ==
  ASSUME NEW text, Len(text) = 7, \A i \in 1 .. 7 : text[i] \in Nat
  PROVE  /\ ~ Throws(text) /\ Year(text) = 100 * text[1] + text[2] - 1900
         /\ \A i \in 1 .. 5 :
              SubSeq(text, IF Len(text) = 6 THEN 2 ELSE 3, Len(text))[i] = text[i + 2]
<1>1. \A i \in 3 .. 7 : text[i] \in Nat
  OBVIOUS
<1>2. \A i \in 1 .. 7 - 3 + 1 : SubSeq(text, 3, 7)[i] = text[3 + i - 1]
  BY <1>1, SubSeqProperties
<1>3. ~ Throws(text) /\ Year(text) = 100 * text[1] + text[2] - 1900
  BY DEF Throws, Year
<1>4. SubSeq(text, IF Len(text) = 6 THEN 2 ELSE 3, Len(text)) = SubSeq(text, 3, 7)
  OBVIOUS
<1> QED  BY <1>2, <1>3, <1>4, SMT

LEMMA ResultIs ==
  ASSUME NEW notBefore, NEW notAfter, NEW now, NEW offset
  PROVE  LET result == dateIsValid(WithDates(notBefore, notAfter), now, offset)
         IN  /\ result.threw <=> Throws(ASN1Time(notBefore)) \/ Throws(ASN1Time(notAfter))
             /\ result.valid <=> /\ Before(convertTime(ASN1Time(notBefore), offset), now)
                                 /\ Before(now, convertTime(ASN1Time(notAfter), offset))
BY Zenon DEF dateIsValid, WithDates

\* What convertTime makes of a certificate's date.
LEMMA ConvertedTime ==
  ASSUME NEW date \in Date, NEW offset \in Int, -86400 <= offset, offset <= 86400
  PROVE  /\ ~ Throws(ASN1Time(date))
         /\ convertTime(ASN1Time(date), offset) = Time(DayOf(date), Seconds(date) - offset)
         /\ Instant(date) = Time(DayOf(date), Seconds(date))
<1> DEFINE text == ASN1Time(date)
           rest == SubSeq(text, IF Len(text) = 6 THEN 2 ELSE 3, Len(text))
<1>1. /\ date[1] \in Nat /\ 2000 <= date[1] /\ date[1] <= 2261
      /\ date[2] \in Nat /\ date[3] \in Nat
      /\ date[4] \in Nat /\ date[5] \in Nat /\ date[6] \in Nat
      /\ date[1] % 100 \in Nat /\ date[1] \div 100 \in Nat
      /\ date[1] = 100 * (date[1] \div 100) + (date[1] % 100)
  <2>1. /\ date[1] \in Nat /\ 2000 <= date[1] /\ date[1] <= 2261
        /\ date[2] \in Nat /\ date[3] \in Nat
        /\ date[4] \in Nat /\ date[5] \in Nat /\ date[6] \in Nat
    BY DateFields, SMT
  <2> QED  BY <2>1, SMT
<1>2. /\ ~ Throws(text) /\ 1900 + Year(text) = date[1]
      /\ rest[1] = date[2] /\ rest[2] = date[3]
      /\ rest[3] = date[4] /\ rest[4] = date[5] /\ rest[5] = date[6]
  <2>1. CASE date[1] < 2050
    <3>1. text = <<date[1] % 100, date[2], date[3], date[4], date[5], date[6]>>
      BY <2>1, SMT DEF ASN1Time
    <3>2. /\ Len(text) = 6 /\ text[1] = date[1] % 100 /\ text[2] = date[2]
          /\ text[3] = date[3] /\ text[4] = date[4] /\ text[5] = date[5] /\ text[6] = date[6]
      BY <3>1, SMT
    <3> HIDE DEF text
    <3>3. \A i \in 1 .. 6 : text[i] \in Nat
      BY <1>1, <3>2, SMT
    <3>4. /\ ~ Throws(text) /\ Year(text) = text[1] + 100
          /\ \A i \in 1 .. 5 : rest[i] = text[i + 1]
      BY <3>2, <3>3, ShortText, SMT
    <3> HIDE DEF rest
    <3> QED  BY <1>1, <2>1, <3>2, <3>4, SMT
  <2>2. CASE ~ (date[1] < 2050)
    <3>1. text = <<date[1] \div 100, date[1] % 100,
                   date[2], date[3], date[4], date[5], date[6]>>
      BY <2>2, SMT DEF ASN1Time
    <3>2. /\ Len(text) = 7 /\ text[1] = date[1] \div 100 /\ text[2] = date[1] % 100
          /\ text[3] = date[2] /\ text[4] = date[3] /\ text[5] = date[4]
          /\ text[6] = date[5] /\ text[7] = date[6]
      BY <3>1, SMT
    <3> HIDE DEF text
    <3>3. \A i \in 1 .. 7 : text[i] \in Nat
      BY <1>1, <3>2, SMT
    <3>4. /\ ~ Throws(text) /\ Year(text) = 100 * text[1] + text[2] - 1900
          /\ \A i \in 1 .. 5 : rest[i] = text[i + 2]
      <4> HIDE DEF rest
      <4>1. ~ Throws(text) /\ Year(text) = 100 * text[1] + text[2] - 1900
        BY <3>2, <3>3, SMT DEF Throws, Year
      <4>2. \A i \in 1 .. 5 : rest[i] = text[i + 2]
        BY <3>2, <3>3, LongText, SMT DEF rest
      <4> QED  BY <4>1, <4>2, SMT
    <3> HIDE DEF rest
    <3> QED  BY <1>1, <3>2, <3>4, SMT
  <2> HIDE DEF text, rest
  <2> QED  BY <2>1, <2>2, SMT
<1> DEFINE day == DayOf(date)
           seconds == Seconds(date)
           tm == [year |-> Year(text), mon |-> rest[1] - 1, mday |-> rest[2],
                  hour |-> rest[3], min |-> rest[4], sec |-> rest[5]]
<1>3. /\ day \in Nat /\ 1 <= day /\ day <= 106700
      /\ seconds \in Nat /\ seconds < 86400
  BY DayInRange, SMT
<1> HIDE DEF text, rest
<1>4. mktime(tm, offset) = Time(day, seconds - offset)
  <2>1. /\ 1900 + tm.year = date[1] /\ tm.mon + 1 = date[2] /\ tm.mday = date[3]
        /\ tm.hour = date[4] /\ tm.min = date[5] /\ tm.sec = date[6]
    BY <1>1, <1>2, SMT
  <2> HIDE DEF tm
  <2>2. mktime(tm, offset)
          = Time(NewYear(1900 + tm.year)
                   + DaysBeforeMonth(Leap(1900 + tm.year))[tm.mon + 1] + tm.mday - 1,
                 3600 * tm.hour + 60 * tm.min + tm.sec - offset)
    BY SMT DEF mktime
  <2>3. /\ NewYear(1900 + tm.year) = NewYear(date[1])
        /\ DaysBeforeMonth(Leap(1900 + tm.year))[tm.mon + 1]
             = DaysBeforeMonth(Leap(date[1]))[date[2]]
    BY <2>1, SMT
  <2>4. mktime(tm, offset)
          = Time(NewYear(date[1]) + DaysBeforeMonth(Leap(date[1]))[date[2]] + date[3] - 1,
                 3600 * date[4] + 60 * date[5] + date[6] - offset)
    BY <2>1, <2>2, <2>3, SMT
  <2>5. day = NewYear(date[1]) + DaysBeforeMonth(Leap(date[1]))[date[2]] + date[3] - 1
    BY SMT DEF DayOf
  <2>6. seconds = 3600 * date[4] + 60 * date[5] + date[6]
    BY SMT DEF Seconds
  <2> HIDE DEF day, seconds
  <2>7. 3600 * date[4] + 60 * date[5] + date[6] - offset = seconds - offset
    BY <1>1, <2>6, SMT
  <2> QED  BY <2>4, <2>5, <2>7, SMT
<1>5. convertTime(text, offset) = from_time_t(mktime(tm, offset))
  BY SMT DEF convertTime, rest
<1>6. Instant(date) = Time(day, seconds)
  BY SMT DEF Instant, DayOf, Seconds
<1> HIDE DEF tm, day, seconds
<1>7. from_time_t(Time(day, seconds - offset)) = Time(day, seconds - offset)
  <2> DEFINE d == day + (seconds - offset) \div 86400
             s == (seconds - offset) % 86400
  <2>1. d \in Int /\ 0 <= d /\ d <= 106702 /\ s \in Nat /\ s < 86400
    BY <1>3, SMT
  <2>2. Time(day, seconds - offset) = [day |-> d, second |-> s]
    BY SMT DEF Time
  <2> HIDE DEF d, s
  <2> QED  BY <2>1, <2>2, NoWrap, SMT
<1> QED  BY <1>2, <1>4, <1>5, <1>6, <1>7, SMT DEF text, day, seconds

(***************************************************************************)
(* For every pair of dates from 2000 to 2261, every time and every local   *)
(* clock: a certificate is valid just between its dates, read as times of  *)
(* the local clock (Certificate.cpp:110-117, openSSLTools.h:115-167).      *)
(***************************************************************************)
THEOREM DatesExact ==
  ASSUME NEW notBefore \in Date, NEW notAfter \in Date, NEW now \in PointInTime,
         NEW offset \in Int, -86400 <= offset, offset <= 86400
  PROVE  IsBetween(notBefore, notAfter, now, offset,
                   dateIsValid(WithDates(notBefore, notAfter), now, offset))
<1> DEFINE a == DayOf(notBefore)
           b == DayOf(notAfter)
           x == Seconds(notBefore)
           y == Seconds(notAfter)
           d == now.day
           s == now.second
<1>1. /\ a \in Int /\ x \in Int /\ b \in Int /\ y \in Int /\ x - offset \in Int
      /\ y - offset \in Int /\ s + offset \in Int
      /\ d \in Int /\ s \in Int /\ s \in Nat /\ s < 86400 /\ now = [day |-> d, second |-> s]
  <2>1. /\ a \in Nat /\ x \in Nat /\ b \in Nat /\ y \in Nat
    BY DayInRange, SMT
  <2>2. d \in Int /\ s \in Nat /\ s < 86400 /\ now = [day |-> d, second |-> s]
    BY SMT DEF PointInTime
  <2> QED  BY <2>1, <2>2, SMT
<1>2. /\ ~ Throws(ASN1Time(notBefore)) /\ ~ Throws(ASN1Time(notAfter))
      /\ convertTime(ASN1Time(notBefore), offset) = Time(a, x - offset)
      /\ convertTime(ASN1Time(notAfter), offset) = Time(b, y - offset)
      /\ Instant(notBefore) = Time(a, x) /\ Instant(notAfter) = Time(b, y)
  BY ConvertedTime, SMT
<1>3. Later(now, offset) = Time(d, s + offset)
  BY SMT DEF Later
<1> HIDE DEF a, b, x, y, d, s
<1>4. now = Time(d, s)
  <2>1. d + s \div 86400 = d /\ s % 86400 = s
    BY <1>1, SMT
  <2> QED  BY <1>1, <2>1, SMT DEF Time
<1>5. Before(Time(a, x - offset), Time(d, s)) <=> Before(Time(a, x), Time(d, s + offset))
  <2>1. Before(Time(a, x - offset), Time(d, s)) <=> 86400 * a + (x - offset) < 86400 * d + s
    BY <1>1, BeforeIsLess, SMT
  <2>2. Before(Time(a, x), Time(d, s + offset)) <=> 86400 * a + x < 86400 * d + (s + offset)
    BY <1>1, BeforeIsLess, SMT
  <2> QED  BY <1>1, <2>1, <2>2, SMT
<1>6. Before(Time(d, s), Time(b, y - offset)) <=> Before(Time(d, s + offset), Time(b, y))
  <2>1. Before(Time(d, s), Time(b, y - offset)) <=> 86400 * d + s < 86400 * b + (y - offset)
    BY <1>1, BeforeIsLess, SMT
  <2>2. Before(Time(d, s + offset), Time(b, y)) <=> 86400 * d + (s + offset) < 86400 * b + y
    BY <1>1, BeforeIsLess, SMT
  <2> QED  BY <1>1, <2>1, <2>2, SMT
<1>7. LET result == dateIsValid(WithDates(notBefore, notAfter), now, offset)
      IN  /\ result.threw <=> Throws(ASN1Time(notBefore)) \/ Throws(ASN1Time(notAfter))
          /\ result.valid <=> /\ Before(convertTime(ASN1Time(notBefore), offset), now)
                              /\ Before(now, convertTime(ASN1Time(notAfter), offset))
  BY ResultIs, SMT
<1> QED  BY <1>2, <1>3, <1>4, <1>5, <1>6, <1>7, SMT DEF IsBetween

\* What TimeWithinADay says of a date and the time that is made of it.
WithinADay(date, time) ==
  /\ ~Before(Later(Instant(date), DayLength), time)
  /\ ~Before(time, Later(Instant(date), -DayLength))

(***************************************************************************)
(* The time that is made of a date of those years is at most a day off,    *)
(* whatever the local time zone is (openSSLTools.h:62-64).                 *)
(***************************************************************************)
THEOREM TimeExact ==
  ASSUME NEW date \in Date, NEW offset \in Int, -86400 <= offset, offset <= 86400
  PROVE  WithinADay(date, convertTime(ASN1Time(date), offset))
<1> DEFINE a == DayOf(date)
           x == Seconds(date)
<1>1. /\ convertTime(ASN1Time(date), offset) = Time(a, x - offset)
      /\ Instant(date) = Time(a, x)
  BY ConvertedTime, SMT
<1>2. a \in Int /\ x \in Nat /\ x < 86400 /\ x - offset \in Int
  <2>1. a \in Nat /\ x \in Nat /\ x < 86400
    BY DayInRange, SMT
  <2> HIDE DEF a, x
  <2> QED  BY <2>1, SMT
<1> HIDE DEF a, x
<1>3. Time(a, x) = [day |-> a, second |-> x]
  <2>1. a + (x \div 86400) = a /\ x % 86400 = x
    BY <1>2, SMT
  <2> QED  BY <2>1, SMT DEF Time
<1>4. /\ Later(Instant(date), DayLength) = Time(a, x + 86400)
      /\ Later(Instant(date), -DayLength) = Time(a, x - 86400)
  <2>1. x + (-86400) = x - 86400
    BY <1>2, SMT
  <2>2. /\ Later([day |-> a, second |-> x], DayLength) = Time(a, x + 86400)
        /\ Later([day |-> a, second |-> x], -DayLength) = Time(a, x + (-86400))
    BY SMT DEF Later, DayLength
  <2> QED  BY <1>1, <1>3, <2>1, <2>2, SMT
<1>5. ~ Before(Time(a, x + 86400), Time(a, x - offset))
  <2>1. x + 86400 \in Int
    BY <1>2, SMT
  <2>2. Before(Time(a, x + 86400), Time(a, x - offset))
          <=> 86400 * a + (x + 86400) < 86400 * a + (x - offset)
    BY <1>2, <2>1, BeforeIsLess, SMT
  <2> QED  BY <1>2, <2>2, SMT
<1>6. ~ Before(Time(a, x - offset), Time(a, x - 86400))
  <2>1. x - 86400 \in Int
    BY <1>2, SMT
  <2>2. Before(Time(a, x - offset), Time(a, x - 86400))
          <=> 86400 * a + (x - offset) < 86400 * a + (x - 86400)
    BY <1>2, <2>1, BeforeIsLess, SMT
  <2> QED  BY <1>2, <2>2, SMT
<1> QED  BY <1>1, <1>4, <1>5, <1>6, SMT DEF WithinADay

-----------------------------------------------------------------------------
(***************************************************************************)
(* Wildcards.  Both the comparison of labels and the substitution for      *)
(* asterisks are the same as a path: a position of the name for each       *)
(* character of the entry (Paths).  AllowsIsPath goes from label to label, *)
(* from the last one back; CoversIsPath cuts the name at the positions.    *)
(***************************************************************************)

(***************************************************************************)
(* Loops again, for one that does not go to the next position but to any   *)
(* later one; 0 ends it.                                                   *)
(***************************************************************************)
Jumps(last, X, next, ends, G) ==
  {f \in [1 .. last -> X] :
     \A i \in 1 .. last : f[i] = IF next[i] = 0 THEN ends[i] ELSE G[i][f[next[i]]]}

LEMMA JumpsExist ==
  ASSUME NEW last \in Nat, last >= 1, NEW X, NEW ends \in [1 .. last -> X],
         NEW next \in [1 .. last -> Nat], NEW G \in [1 .. last -> [X -> X]],
         \A i \in 1 .. last : next[i] = 0 \/ (i < next[i] /\ next[i] <= last)
  PROVE  Jumps(last, X, next, ends, G) # {}
<1> DEFINE Is(f, k) == /\ f \in [k .. last -> X]
                       /\ \A i \in k .. last :
                            f[i] = IF next[i] = 0 THEN ends[i] ELSE G[i][f[next[i]]]
           S == {k \in 1 .. last : \E f : Is(f, k)}
<1>1. last \in S
  <2> DEFINE g == [i \in last .. last |-> ends[last]]
  <2>1. next[last] = 0
    OBVIOUS
  <2>2. Is(g, last)
    BY <2>1
  <2> HIDE DEF Is
  <2> QED  BY <2>2
<1>2. ASSUME NEW k \in Nat, 1 <= k, k < last, k + 1 \in S
      PROVE  k \in S
  <2>1. PICK f : Is(f, k + 1)
    BY <1>2
  <2> DEFINE x == IF next[k] = 0 THEN ends[k] ELSE G[k][f[next[k]]]
             g == [i \in k .. last |-> IF i = k THEN x ELSE f[i]]
  <2>2. x \in X
    <3>1. CASE next[k] = 0
      BY <1>2, <3>1
    <3>2. CASE next[k] # 0
      <4>1. next[k] \in k + 1 .. last
        BY <1>2, <3>2
      <4>2. f[next[k]] \in X
        BY <2>1, <4>1
      <4>3. G[k] \in [X -> X]
        BY <1>2
      <4> QED  BY <3>2, <4>2, <4>3
    <3> QED  BY <3>1, <3>2
  <2> HIDE DEF x
  <2>3. g \in [k .. last -> X]
    BY <1>2, <2>1, <2>2
  <2>4. g[k] = x /\ \A i \in k + 1 .. last : g[i] = f[i]
    BY <1>2
  <2> HIDE DEF g
  <2>5. ASSUME NEW i \in k .. last
        PROVE  g[i] = IF next[i] = 0 THEN ends[i] ELSE G[i][g[next[i]]]
    <3>1. next[i] # 0 => next[i] \in k + 1 .. last
      BY <1>2
    <3>2. CASE i = k
      BY <2>4, <3>1, <3>2 DEF x
    <3>3. CASE i \in k + 1 .. last
      BY <2>1, <2>4, <3>1, <3>3
    <3> QED  BY <1>2, <3>2, <3>3
  <2>6. Is(g, k)
    BY <2>3, <2>5
  <2> HIDE DEF Is
  <2> QED  BY <1>2, <2>6
<1>3. \A k \in 1 .. last : k \in S
  <2>1. 1 \in Nat
    OBVIOUS
  <2> HIDE DEF S
  <2> QED  BY <1>1, <1>2, <2>1, DownTo
<1>4. PICK f : Is(f, 1)
  <2>1. 1 \in S
    BY <1>3
  <2> HIDE DEF Is
  <2> QED  BY <2>1
<1> QED  BY <1>4 DEF Jumps

\* Position d is the first dot of s from j on, or the end if there is none.
FirstDot(s, j, d) ==
  /\ d \in j .. Len(s) + 1
  /\ d <= Len(s) => s[d] = "."
  /\ \A c \in j .. d - 1 : s[c] # "."

LEMMA FirstDotFound ==
  ASSUME NEW C, NEW s \in Seq(C), NEW j \in 1 .. Len(s) + 1
  PROVE  FirstDot(s, j, find_first_of(s, j))
<1> DEFINE N == Len(s)
           Dots == {p \in j .. N + 1 : p = N + 1 \/ s[p] = "."}
           Found(p) == /\ p <= N => s[p] = "."
                       /\ \A q \in j .. p - 1 : s[q] # "."
<1>1. N \in Nat
  BY LenProperties
<1>2. Dots \subseteq Nat /\ N + 1 \in Dots
  BY <1>1
<1>3. PICK d \in Dots : \A e \in Dots : ~ (<<e, d>> \in OpToRel(<, Nat))
  <2>1. IsWellFoundedOn(OpToRel(<, Nat), Nat)
    BY NatLessThanWellFounded
  <2>2. Dots # {}
    BY <1>2
  <2> HIDE DEF Dots
  <2> QED  BY <1>2, <2>1, <2>2, WFMin
<1>4. \A e \in Dots : ~ (e < d)
  BY <1>2, <1>3 DEF OpToRel
<1>5. d \in j .. N + 1 /\ Found(d)
  <2>1. d \in j .. N + 1 /\ (d = N + 1 \/ s[d] = ".")
    OBVIOUS
  <2>2. ASSUME NEW q \in j .. d - 1 PROVE s[q] # "."
    <3>1. q \in j .. N + 1 /\ q < d
      BY <1>1, <2>1
    <3> QED  BY <1>4, <3>1
  <2> QED  BY <1>1, <2>1, <2>2
<1>6. find_first_of(s, j) = CHOOSE p \in j .. N + 1 : Found(p)
  BY DEF find_first_of
<1>7. find_first_of(s, j) \in j .. N + 1 /\ Found(find_first_of(s, j))
  <2> HIDE DEF Found, N
  <2> QED  BY <1>5, <1>6, Zenon
<1> QED  BY <1>7 DEF FirstDot

LEMMA SubSeqIs ==
  ASSUME NEW C, NEW s \in Seq(C),
         NEW a \in Nat, a >= 1, NEW b \in Int, b <= Len(s), a <= b + 1
  PROVE  /\ SubSeq(s, a, b) \in Seq(C) /\ Len(SubSeq(s, a, b)) = b - a + 1
         /\ \A i \in 1 .. b - a + 1 : SubSeq(s, a, b)[i] = s[a + i - 1]
<1>1. Len(s) \in Nat
  BY LenProperties
<1>2. (\A i \in a .. b : s[i] \in C) /\ a \in Int
  BY <1>1, ElementOfSeq
<1> QED  BY <1>2, SubSeqProperties

\* The name without the dot at its end, if it has one.
Relative(s) == IF EndsInDot(s) THEN Front(s) ELSE s

LEMMA RelativeIs ==
  ASSUME NEW C, NEW s \in Seq(C)
  PROVE  LET p == Relative(s)
         IN  /\ p \in Seq(C)
             /\ EndsInDot(s) <=> Len(s) # 0 /\ s[Len(s)] = "."
             /\ \/ Len(p) = Len(s) /\ p = s /\ (Len(s) # 0 => s[Len(s)] # ".")
                \/ Len(p) = Len(s) - 1 /\ Len(s) >= 1 /\ s[Len(s)] = "."
             /\ \A i \in 1 .. Len(p) : p[i] = s[i]
<1>1. Len(s) \in Nat /\ \A i \in 1 .. Len(s) : s[i] \in C
  BY LenProperties, ElementOfSeq
<1>2. s # <<>> <=> Len(s) # 0
  BY EmptySeq
<1>3. CASE s # <<>> /\ Last(s) = "."
  <2>1. Relative(s) = SubSeq(s, 1, Len(s) - 1)
    BY <1>3 DEF Relative, EndsInDot, Front
  <2>2. Len(s) - 1 \in Nat
    BY <1>1, <1>2, <1>3
  <2>3. /\ SubSeq(s, 1, Len(s) - 1) \in Seq(C) /\ Len(SubSeq(s, 1, Len(s) - 1)) = Len(s) - 1
        /\ \A i \in 1 .. Len(s) - 1 : SubSeq(s, 1, Len(s) - 1)[i] = s[i]
    <3> DEFINE b == Len(s) - 1
    <3>1. 1 \in Nat /\ 1 >= 1 /\ b \in Int /\ b <= Len(s) /\ 1 <= b + 1 /\ b - 1 + 1 = b
      BY <1>1, <2>2
    <3> HIDE DEF b
    <3>2. /\ SubSeq(s, 1, b) \in Seq(C) /\ Len(SubSeq(s, 1, b)) = b - 1 + 1
          /\ \A i \in 1 .. b - 1 + 1 : SubSeq(s, 1, b)[i] = s[1 + i - 1]
      BY <3>1, SubSeqIs
    <3> QED  BY <3>1, <3>2 DEF b
  <2> QED  BY <1>2, <1>3, <2>1, <2>2, <2>3 DEF Last, EndsInDot
<1>4. CASE ~ (s # <<>> /\ Last(s) = ".")
  <2>1. Relative(s) = s
    BY <1>4 DEF Relative, EndsInDot
  <2> QED  BY <1>2, <1>4, <2>1 DEF Last, EndsInDot
<1> QED  BY <1>3, <1>4

(***************************************************************************)
(* E[j] are the parts of p, from position j on, between its dots.          *)
(***************************************************************************)
Splits(C, p, E) ==
  /\ E \in [1 .. Len(p) + 1 -> Seq(Seq(C))]
  /\ \A j \in 1 .. Len(p) + 1 : \E d \in 1 .. Len(p) + 1 :
       /\ FirstDot(p, j, d)
       /\ E[j] = IF d <= Len(p) THEN <<SubSeq(p, j, d - 1)>> \o E[d + 1]
                                ELSE <<SubSeq(p, j, d - 1)>>

LEMMA Prefix ==
  ASSUME NEW C, NEW s \in Seq(C), NEW p \in Seq(C), Len(p) <= Len(s),
         \A i \in 1 .. Len(p) : p[i] = s[i],
         NEW a \in Nat, a >= 1, NEW b \in Int, b <= Len(p), a <= b + 1
  PROVE  SubSeq(p, a, b) = SubSeq(s, a, b)
<1>0. Len(p) \in Nat /\ Len(s) \in Nat
  BY LenProperties
<1>1. a <= b + 1 /\ b <= Len(s)
  BY <1>0
<1>2. /\ SubSeq(p, a, b) \in Seq(C) /\ SubSeq(s, a, b) \in Seq(C)
      /\ Len(SubSeq(p, a, b)) = b - a + 1 /\ Len(SubSeq(s, a, b)) = b - a + 1
      /\ \A i \in 1 .. b - a + 1 : /\ SubSeq(p, a, b)[i] = p[a + i - 1]
                                   /\ SubSeq(s, a, b)[i] = s[a + i - 1]
  BY <1>1, SubSeqIs
<1>3. \A i \in 1 .. b - a + 1 : p[a + i - 1] = s[a + i - 1]
  <2> SUFFICES ASSUME NEW i \in 1 .. b - a + 1 PROVE p[a + i - 1] = s[a + i - 1]
    OBVIOUS
  <2>1. a + i - 1 \in 1 .. Len(p)
    BY <1>0
  <2> QED  BY <2>1
<1>4. \A i \in 1 .. b - a + 1 : SubSeq(p, a, b)[i] = SubSeq(s, a, b)[i]
  BY <1>2, <1>3
<1> QED  BY <1>2, <1>4, SeqEqual

LEMMA SplitIs ==
  ASSUME NEW C, NEW s \in Seq(C)
  PROVE  \E E : Splits(C, Relative(s), E) /\ splitByDelimiters(s) = E[1]
<1> DEFINE N == Len(s)
           X == Seq(Seq(C))
           dot(i) == find_first_of(s, i)
           part(i) == SubSeq(s, i, dot(i) - 1)
           ends == [i \in 1 .. N + 1 |-> <<part(i)>>]
           next == [i \in 1 .. N + 1 |-> IF dot(i) < N THEN dot(i) + 1 ELSE 0]
           G == [i \in 1 .. N + 1 |-> [x \in X |-> <<part(i)>> \o x]]
           Is(f) == f = [i \in 1 .. N + 1 |->
                           IF dot(i) < N THEN <<part(i)>> \o f[dot(i) + 1] ELSE <<part(i)>>]
           elements == CHOOSE f : Is(f)
           p == Relative(s)
           P == Len(p)
<1>1. N \in Nat /\ \A i \in 1 .. N : s[i] \in C
  BY LenProperties, ElementOfSeq
<1>2. ASSUME NEW i \in 1 .. N + 1
      PROVE  FirstDot(s, i, dot(i)) /\ dot(i) \in i .. N + 1
  BY FirstDotFound DEF FirstDot
<1>3. \A i \in 1 .. N + 1 : part(i) \in Seq(C)
  <2> SUFFICES ASSUME NEW i \in 1 .. N + 1 PROVE part(i) \in Seq(C)
    OBVIOUS
  <2>1. i \in Nat /\ i >= 1 /\ dot(i) - 1 \in Nat /\ dot(i) - 1 <= Len(s)
    BY <1>1, <1>2
  <2> HIDE DEF dot
  <2> QED  BY <2>1, UpToIsSeq
<1> HIDE DEF dot, part
<1>4. \E f : Is(f) /\ f \in [1 .. N + 1 -> X]
  <2>1. N + 1 \in Nat /\ N + 1 >= 1
    BY <1>1
  <2>2. ends \in [1 .. N + 1 -> X]
    <3>1. \A i \in 1 .. N + 1 : <<part(i)>> \in X
      BY <1>3
    <3> HIDE DEF N, X
    <3> QED  BY <3>1
  <2>3. /\ next \in [1 .. N + 1 -> Nat]
        /\ \A i \in 1 .. N + 1 : next[i] = 0 \/ (i < next[i] /\ next[i] <= N + 1)
    BY <1>1, <1>2
  <2>4. G \in [1 .. N + 1 -> [X -> X]]
    <3>1. \A i \in 1 .. N + 1 : \A x \in X : <<part(i)>> \o x \in X
      BY <1>3
    <3> HIDE DEF N, X
    <3> QED  BY <3>1
  <2>5. Jumps(N + 1, X, next, ends, G) # {}
    <3> DEFINE last == N + 1
    <3>1. last \in Nat /\ last >= 1 /\ ends \in [1 .. last -> X]
          /\ next \in [1 .. last -> Nat] /\ G \in [1 .. last -> [X -> X]]
          /\ \A i \in 1 .. last : next[i] = 0 \/ (i < next[i] /\ next[i] <= last)
      BY <2>1, <2>2, <2>3, <2>4
    <3> HIDE DEF last, X, next, ends, G
    <3>2. Jumps(last, X, next, ends, G) # {}
      BY <3>1, JumpsExist
    <3> QED  BY <3>2 DEF last
  <2>6. PICK f \in [1 .. N + 1 -> X] :
          \A i \in 1 .. N + 1 : f[i] = IF next[i] = 0 THEN ends[i] ELSE G[i][f[next[i]]]
    <3> HIDE DEF X, next, ends, G
    <3> QED  BY <2>5 DEF Jumps
  <2>7. ASSUME NEW i \in 1 .. N + 1
        PROVE  f[i] = IF dot(i) < N THEN <<part(i)>> \o f[dot(i) + 1] ELSE <<part(i)>>
    <3>1. CASE dot(i) < N
      <4>1. next[i] = dot(i) + 1 /\ next[i] # 0 /\ dot(i) + 1 \in 1 .. N + 1
        BY <1>1, <1>2, <3>1
      <4>2. f[dot(i) + 1] \in X
        BY <4>1
      <4>3. f[i] = G[i][f[dot(i) + 1]]
        <5> HIDE DEF next, G, ends
        <5> QED  BY <2>6, <4>1
      <4>4. G[i][f[dot(i) + 1]] = <<part(i)>> \o f[dot(i) + 1]
        <5> HIDE DEF X
        <5> QED  BY <4>2
      <4> QED  BY <3>1, <4>3, <4>4
    <3>2. CASE ~ (dot(i) < N)
      <4>1. next[i] = 0 /\ ends[i] = <<part(i)>>
        BY <3>2
      <4> HIDE DEF next, G, ends
      <4> QED  BY <2>6, <3>2, <4>1
    <3> QED  BY <3>1, <3>2
  <2>8. Is(f)
    <3> HIDE DEF X
    <3> QED  BY <2>7, Zenon
  <2> QED  BY <2>8
<1>5. Is(elements)
  <2> HIDE DEF Is
  <2> QED  BY <1>4, Zenon
<1>6. splitByDelimiters(s) = elements[1]
  BY DEF splitByDelimiters, dot, part
<1> HIDE DEF elements
<1>7. \A i \in 1 .. N + 1 :
        elements[i] = IF dot(i) < N THEN <<part(i)>> \o elements[dot(i) + 1] ELSE <<part(i)>>
  BY <1>5, Zenon
<1>8. \A i \in 1 .. N + 1 : elements[i] \in X
  <2> DEFINE S == {i \in 1 .. N + 1 : \A k \in i .. N + 1 : elements[k] \in X}
  <2>1. ASSUME NEW i \in 1 .. N + 1, \A k \in i + 1 .. N + 1 : elements[k] \in X
        PROVE  elements[i] \in X
    <3>0. <<part(i)>> \in X
      BY <1>3
    <3>1. CASE dot(i) < N
      <4>1. dot(i) + 1 \in i + 1 .. N + 1
        BY <1>1, <1>2, <3>1
      <4>2. elements[dot(i) + 1] \in X
        BY <2>1, <4>1
      <4>3. <<part(i)>> \o elements[dot(i) + 1] \in X
        <5> DEFINE rest == elements[dot(i) + 1]
        <5>2. rest \in X
          BY <4>2
        <5> HIDE DEF rest
        <5>3. <<part(i)>> \o rest \in X
          BY <3>0, <5>2, ConcatProperties
        <5> QED  BY <5>3 DEF rest
      <4> QED  BY <1>7, <3>1, <4>3
    <3>2. CASE ~ (dot(i) < N)
      <4>1. elements[i] = <<part(i)>>
        BY <1>7, <3>2
      <4> HIDE DEF X
      <4> QED  BY <3>0, <4>1
    <3> QED  BY <3>1, <3>2
  <2> HIDE DEF X
  <2>2. N + 1 \in S
    BY <1>1, <2>1
  <2>3. ASSUME NEW i \in Nat, 1 <= i, i < N + 1, i + 1 \in S PROVE i \in S
    <3>1. \A k \in i + 1 .. N + 1 : elements[k] \in X
      BY <2>3
    <3>2. elements[i] \in X
      BY <1>1, <2>1, <2>3, <3>1
    <3> QED  BY <1>1, <2>3, <3>1, <3>2
  <2>4. \A i \in 1 .. N + 1 : i \in S
    <3> DEFINE last == N + 1
    <3>1. 1 \in Nat /\ last \in Nat /\ last \in S
          /\ \A i \in Nat : 1 <= i /\ i < last /\ i + 1 \in S => i \in S
      BY <1>1, <2>2, <2>3
    <3> HIDE DEF S, last
    <3>2. \A i \in 1 .. last : i \in S
      BY <3>1, DownTo
    <3> QED  BY <3>2 DEF last
  <2> QED  BY <1>1, <2>4
<1>9. /\ p \in Seq(C)
      /\ \/ P = N /\ (N # 0 => s[N] # ".")
         \/ P = N - 1 /\ N >= 1 /\ s[N] = "."
      /\ \A i \in 1 .. P : p[i] = s[i]
      /\ P \in Nat /\ P <= N
  BY <1>1, RelativeIs, LenProperties
<1> DEFINE E == [j \in 1 .. P + 1 |-> elements[j]]
<1> HIDE DEF p
<1>10. E \in [1 .. P + 1 -> X]
  <2>1. \A j \in 1 .. P + 1 : elements[j] \in X
    BY <1>1, <1>8, <1>9
  <2> HIDE DEF X, P
  <2> QED  BY <2>1
<1>11. ASSUME NEW j \in 1 .. P + 1
       PROVE  \E d \in 1 .. P + 1 :
                /\ FirstDot(p, j, d)
                /\ E[j] = IF d <= P THEN <<SubSeq(p, j, d - 1)>> \o E[d + 1]
                                    ELSE <<SubSeq(p, j, d - 1)>>
  <2> DEFINE d == dot(j)
  <2>0. j \in 1 .. N + 1 /\ FirstDot(s, j, d) /\ d \in j .. N + 1
    BY <1>1, <1>2, <1>9
  <2>1. /\ d <= N => s[d] = "."
        /\ \A c \in j .. d - 1 : s[c] # "."
    BY <2>0 DEF FirstDot
  <2>2. d \in 1 .. P + 1 /\ j <= d /\ (d < N <=> d <= P)
    <3>1. CASE P = N /\ (N # 0 => s[N] # ".")
      BY <1>1, <2>0, <2>1, <3>1
    <3>2. CASE P = N - 1 /\ N >= 1 /\ s[N] = "."
      <4>1. d # N + 1
        <5>1. d = N + 1 => N \in j .. d - 1
          BY <1>1, <3>2
        <5> QED  BY <2>1, <3>2, <5>1
      <4> QED  BY <1>1, <2>0, <2>1, <3>2, <4>1
    <3> QED  BY <1>9, <3>1, <3>2
  <2>3. FirstDot(p, j, d)
    <3>1. d <= P => p[d] = "."
      BY <1>9, <2>1, <2>2
    <3>2. \A c \in j .. d - 1 : p[c] # "."
      BY <1>9, <2>1, <2>2
    <3> QED  BY <2>0, <2>2, <3>1, <3>2 DEF FirstDot
  <2>4. part(j) = SubSeq(p, j, d - 1)
    <3>1. j \in Nat /\ j >= 1 /\ d - 1 \in Int /\ d - 1 <= Len(p) /\ j <= (d - 1) + 1
          /\ Len(p) <= Len(s)
      BY <1>1, <1>9, <2>0, <2>2
    <3> HIDE DEF d
    <3>2. SubSeq(p, j, d - 1) = SubSeq(s, j, d - 1)
      BY <1>9, <3>1, Prefix
    <3> QED  BY <3>2 DEF part, d
  <2>5. E[j] = IF d <= P THEN <<part(j)>> \o E[d + 1] ELSE <<part(j)>>
    <3>1. elements[j] = IF d < N THEN <<part(j)>> \o elements[d + 1] ELSE <<part(j)>>
      BY <1>7, <2>0
    <3>2. d <= P => d + 1 \in 1 .. P + 1
      BY <1>9, <2>2
    <3> HIDE DEF P, d
    <3> QED  BY <2>2, <3>1, <3>2
  <2> HIDE DEF E, d
  <2> QED  BY <2>2, <2>3, <2>4, <2>5
<1>12. splitByDelimiters(s) = E[1]
  <2>1. 1 \in 1 .. P + 1
    BY <1>9
  <2> QED  BY <1>6, <2>1
<1>13. Splits(C, p, E)
  <2> HIDE DEF E
  <2> QED  BY <1>10, <1>11 DEF Splits
<1> QED  BY <1>12, <1>13 DEF p

\* The elements of an entry B allow those of a name A.
Allows(B, A) ==
  Len(A) = Len(B) /\ \A i \in DOMAIN A : B[i] = <<"*">> \/ B[i] = A[i]

LEMMA AllowsFirst ==
  ASSUME NEW Y, NEW a \in Y, NEW b \in Y, NEW A \in Seq(Y), NEW B \in Seq(Y)
  PROVE  Allows(<<b>> \o B, <<a>> \o A) <=> (b = <<"*">> \/ b = a) /\ Allows(B, A)
<1> DEFINE AA == <<a>> \o A
           BB == <<b>> \o B
           N == Len(A)
<1>1. /\ N \in Nat /\ Len(B) \in Nat /\ DOMAIN A = 1 .. N
      /\ Len(AA) = N + 1 /\ Len(BB) = Len(B) + 1 /\ DOMAIN AA = 1 .. N + 1
      /\ AA[1] = a /\ BB[1] = b
      /\ \A i \in 1 .. N : AA[i + 1] = A[i]
      /\ \A i \in 1 .. Len(B) : BB[i + 1] = B[i]
  <2>1. /\ <<a>> \in Seq(Y) /\ <<b>> \in Seq(Y) /\ Len(<<a>>) = 1 /\ Len(<<b>>) = 1
        /\ <<a>>[1] = a /\ <<b>>[1] = b
    OBVIOUS
  <2>2. N \in Nat /\ Len(B) \in Nat /\ DOMAIN A = 1 .. N
    BY LenProperties
  <2>3. /\ AA \in Seq(Y) /\ Len(AA) = 1 + N
        /\ \A i \in 1 .. 1 + N : AA[i] = IF i <= 1 THEN <<a>>[i] ELSE A[i - 1]
    <3> DEFINE u == <<a>>
    <3>1. u \in Seq(Y) /\ Len(u) = 1
      BY <2>1
    <3> HIDE DEF u
    <3>2. /\ u \o A \in Seq(Y) /\ Len(u \o A) = Len(u) + N
          /\ \A i \in 1 .. Len(u) + N : (u \o A)[i] = IF i <= Len(u) THEN u[i] ELSE A[i - Len(u)]
      BY <3>1, ConcatProperties
    <3> QED  BY <3>1, <3>2 DEF u
  <2>4. /\ BB \in Seq(Y) /\ Len(BB) = 1 + Len(B)
        /\ \A i \in 1 .. 1 + Len(B) : BB[i] = IF i <= 1 THEN <<b>>[i] ELSE B[i - 1]
    <3> DEFINE u == <<b>>
    <3>1. u \in Seq(Y) /\ Len(u) = 1
      BY <2>1
    <3> HIDE DEF u
    <3>2. /\ u \o B \in Seq(Y) /\ Len(u \o B) = Len(u) + Len(B)
          /\ \A i \in 1 .. Len(u) + Len(B) :
               (u \o B)[i] = IF i <= Len(u) THEN u[i] ELSE B[i - Len(u)]
      BY <3>1, ConcatProperties
    <3> QED  BY <3>1, <3>2 DEF u
  <2>5. DOMAIN AA = 1 .. N + 1
    BY <2>2, <2>3, LenProperties
  <2> HIDE DEF AA, BB, N
  <2>6. \A i \in 1 .. N : i + 1 \in 1 .. 1 + N /\ ~ (i + 1 <= 1) /\ (i + 1) - 1 = i
    BY <2>2
  <2>7. \A i \in 1 .. Len(B) : i + 1 \in 1 .. 1 + Len(B) /\ ~ (i + 1 <= 1) /\ (i + 1) - 1 = i
    BY <2>2
  <2>8. 1 \in 1 .. 1 + N /\ 1 \in 1 .. 1 + Len(B) /\ 1 <= 1
    BY <2>2
  <2>9. AA[1] = a /\ BB[1] = b
    BY <2>1, <2>3, <2>4, <2>8
  <2>10. \A i \in 1 .. N : AA[i + 1] = A[i]
    BY <2>3, <2>6
  <2>11. \A i \in 1 .. Len(B) : BB[i + 1] = B[i]
    BY <2>4, <2>7
  <2> QED  BY <2>2, <2>3, <2>4, <2>5, <2>9, <2>10, <2>11
<1> DEFINE Good(i) == BB[i] = <<"*">> \/ BB[i] = AA[i]
<1>2. Allows(BB, AA) <=> N = Len(B) /\ \A i \in 1 .. N + 1 : Good(i)
  <2> HIDE DEF AA, BB, N
  <2> QED  BY <1>1 DEF Allows
<1>3. (\A i \in 1 .. N + 1 : Good(i)) <=> Good(1) /\ \A i \in 1 .. N : Good(i + 1)
  <2>1. /\ 1 \in 1 .. N + 1 /\ \A i \in 1 .. N : i + 1 \in 1 .. N + 1
        /\ \A i \in 1 .. N + 1 : i = 1 \/ (i - 1 \in 1 .. N /\ (i - 1) + 1 = i)
    BY <1>1
  <2> HIDE DEF Good
  <2> QED  BY <2>1
<1>4. Good(1) <=> b = <<"*">> \/ b = a
  BY <1>1
<1>5. ASSUME N = Len(B)
      PROVE  (\A i \in 1 .. N : Good(i + 1)) <=> \A i \in 1 .. N : B[i] = <<"*">> \/ B[i] = A[i]
  <2> HIDE DEF AA, BB, N
  <2> QED  BY <1>1, <1>5
<1>6. Allows(B, A) <=> N = Len(B) /\ \A i \in 1 .. N : B[i] = <<"*">> \/ B[i] = A[i]
  <2> HIDE DEF AA, BB, Good
  <2> QED  BY <1>1 DEF Allows
<1> HIDE DEF AA, BB, Good, N
<1>7. Allows(BB, AA) <=> (b = <<"*">> \/ b = a) /\ Allows(B, A)
  BY <1>2, <1>3, <1>4, <1>5, <1>6
<1> QED  BY <1>7 DEF AA, BB

(***************************************************************************)
(* The ways to read a name q, from position i on, as what an entry p       *)
(* covers, from position j on: pos[k] is where position k of the entry is  *)
(* in the name.                                                            *)
(***************************************************************************)
Step(p, q, k, a, b) ==
  IF k \in Stars(p) THEN a <= b /\ \A c \in a .. b - 1 : q[c] # "."
                    ELSE b = a + 1 /\ a <= Len(q) /\ q[a] = p[k]

Paths(p, q, j, i) ==
  {pos \in [j .. Len(p) + 1 -> 1 .. Len(q) + 1] :
     /\ pos[j] = i /\ pos[Len(p) + 1] = Len(q) + 1
     /\ \A k \in j .. Len(p) : Step(p, q, k, pos[k], pos[k + 1])}

\* Where a label begins.
LabelStart(p, j) == j = 1 \/ p[j - 1] = "."

\* A label has an asterisk that stands for something only if it is that asterisk.
LEMMA StarAlone ==
  ASSUME NEW C, NEW p \in Seq(C), NEW j \in 1 .. Len(p) + 1, NEW d \in 1 .. Len(p) + 1,
         LabelStart(p, j), FirstDot(p, j, d)
  PROVE  /\ SubSeq(p, j, d - 1) = <<"*">> <=> j \in Stars(p)
         /\ j \in Stars(p) => d = j + 1
         /\ \A k \in j .. d - 1 : k # j => k \notin Stars(p)
         /\ d \notin Stars(p)
<1>0. Len(p) \in Nat /\ DOMAIN p = 1 .. Len(p) /\ j <= d /\ d <= Len(p) + 1
  BY LenProperties DEF FirstDot
<1>1. /\ d <= Len(p) => p[d] = "."
      /\ \A c \in j .. d - 1 : p[c] # "."
  BY DEF FirstDot
<1> DEFINE part == SubSeq(p, j, d - 1)
<1>2. /\ part \in Seq(C) /\ Len(part) = d - j
      /\ \A i \in 1 .. d - j : part[i] = p[j + i - 1]
  <2> DEFINE b == d - 1
  <2>1. j \in Nat /\ j >= 1 /\ b \in Int /\ b <= Len(p) /\ j <= b + 1 /\ b - j + 1 = d - j
    BY <1>0
  <2> HIDE DEF b
  <2>2. /\ SubSeq(p, j, b) \in Seq(C) /\ Len(SubSeq(p, j, b)) = b - j + 1
        /\ \A i \in 1 .. b - j + 1 : SubSeq(p, j, b)[i] = p[j + i - 1]
    BY <2>1, SubSeqIs
  <2> QED  BY <2>1, <2>2 DEF b
<1>a. /\ Len(p) \in Nat /\ j \in Nat /\ d \in Nat /\ 1 <= j /\ j <= d /\ d <= Len(p) + 1
  BY <1>0
<1> HIDE DEF part
<1>3. ASSUME j \in Stars(p) PROVE d = j + 1
  <2>1. j \in 1 .. Len(p) /\ p[j] = "*" /\ (j = Len(p) \/ p[j + 1] = ".")
    BY <1>0, <1>3 DEF Stars
  <2>2. d # j
    BY <1>1, <2>1
  <2>3. ~ (d > j + 1)
    <3>1. d > j + 1 => j + 1 \in j .. d - 1 /\ j # Len(p)
      BY <1>a
    <3> QED  BY <1>1, <2>1, <3>1
  <2> QED  BY <1>0, <2>2, <2>3
<1>4. ASSUME j \in Stars(p) PROVE part = <<"*">>
  <2>1. Len(part) = 1 /\ part[1] = p[j]
    <3>1. d - j = 1 /\ 1 \in 1 .. d - j /\ j + 1 - 1 = j
      BY <1>0, <1>3, <1>4
    <3> HIDE DEF part
    <3> QED  BY <1>2, <3>1
  <2>2. p[j] = "*"
    BY <1>4 DEF Stars
  <2> HIDE DEF part
  <2> QED  BY <1>2, <2>1, <2>2
<1>5. ASSUME part = <<"*">> PROVE j \in Stars(p)
  <2>1. Len(part) = 1 /\ part[1] = "*"
    <3> HIDE DEF part
    <3> QED  BY <1>5
  <2>2. d = j + 1
    <3>1. d - j = 1
      BY <1>2, <2>1
    <3> QED  BY <1>a, <3>1
  <2>3. p[j] = "*"
    <3>1. 1 \in 1 .. d - j /\ j + 1 - 1 = j
      BY <1>0, <2>2
    <3> HIDE DEF part
    <3> QED  BY <1>2, <2>1, <3>1
  <2>4. j \in 1 .. Len(p) /\ (j = Len(p) \/ p[j + 1] = ".")
    <3>1. j \in 1 .. Len(p) /\ (j = Len(p) \/ d <= Len(p))
      BY <1>a, <2>2
    <3> QED  BY <1>1, <2>2, <3>1
  <2> QED  BY <1>0, <2>3, <2>4 DEF Stars, LabelStart
<1>6. ASSUME NEW k \in j .. d - 1, k # j PROVE k \notin Stars(p)
  <2>1. k # 1 /\ k - 1 \in j .. d - 1
    BY <1>0, <1>6
  <2> QED  BY <1>1, <2>1 DEF Stars
<1>7. d \notin Stars(p)
  <2>1. ASSUME d \in Stars(p) PROVE FALSE
    <3>1. d \in DOMAIN p /\ p[d] = "*"
      BY <2>1 DEF Stars
    <3>2. d <= Len(p)
      BY <1>0, <3>1
    <3> QED  BY <1>1, <3>1, <3>2
  <2> QED  BY <2>1
<1> QED  BY <1>3, <1>4, <1>5, <1>6, <1>7 DEF part

LEMMA SameParts ==
  ASSUME NEW C, NEW p \in Seq(C), NEW q \in Seq(C),
         NEW j \in 1 .. Len(p) + 1, NEW d \in 1 .. Len(p) + 1, j <= d,
         NEW i \in 1 .. Len(q) + 1, NEW x \in 1 .. Len(q) + 1, i <= x
  PROVE  SubSeq(p, j, d - 1) = SubSeq(q, i, x - 1)
           <=> d - j = x - i /\ \A k \in j .. d - 1 : q[i + (k - j)] = p[k]
<1> DEFINE u == SubSeq(p, j, d - 1)
           v == SubSeq(q, i, x - 1)
<1>1. /\ Len(p) \in Nat /\ Len(q) \in Nat /\ j \in Nat /\ d \in Nat /\ i \in Nat /\ x \in Nat
      /\ 1 <= j /\ d <= Len(p) + 1 /\ 1 <= i /\ x <= Len(q) + 1
  BY LenProperties
<1>2. /\ u \in Seq(C) /\ Len(u) = d - j /\ \A t \in 1 .. d - j : u[t] = p[j + t - 1]
  <2> DEFINE b == d - 1
  <2>1. j \in Nat /\ j >= 1 /\ b \in Int /\ b <= Len(p) /\ j <= b + 1 /\ b - j + 1 = d - j
    BY <1>1
  <2> HIDE DEF b
  <2>2. /\ SubSeq(p, j, b) \in Seq(C) /\ Len(SubSeq(p, j, b)) = b - j + 1
        /\ \A t \in 1 .. b - j + 1 : SubSeq(p, j, b)[t] = p[j + t - 1]
    BY <2>1, SubSeqIs
  <2> QED  BY <2>1, <2>2 DEF b
<1>3. /\ v \in Seq(C) /\ Len(v) = x - i /\ \A t \in 1 .. x - i : v[t] = q[i + t - 1]
  <2> DEFINE b == x - 1
  <2>1. i \in Nat /\ i >= 1 /\ b \in Int /\ b <= Len(q) /\ i <= b + 1 /\ b - i + 1 = x - i
    BY <1>1
  <2> HIDE DEF b
  <2>2. /\ SubSeq(q, i, b) \in Seq(C) /\ Len(SubSeq(q, i, b)) = b - i + 1
        /\ \A t \in 1 .. b - i + 1 : SubSeq(q, i, b)[t] = q[i + t - 1]
    BY <2>1, SubSeqIs
  <2> QED  BY <2>1, <2>2 DEF b
<1> HIDE DEF u, v
<1>4. ASSUME u = v
      PROVE  d - j = x - i /\ \A k \in j .. d - 1 : q[i + (k - j)] = p[k]
  <2>1. d - j = x - i
    BY <1>2, <1>3, <1>4
  <2>2. ASSUME NEW k \in j .. d - 1 PROVE q[i + (k - j)] = p[k]
    <3> DEFINE t == k - j + 1
    <3>1. t \in 1 .. d - j /\ j + t - 1 = k /\ i + t - 1 = i + (k - j)
      BY <1>1
    <3> HIDE DEF t
    <3>2. u[t] = p[k] /\ v[t] = q[i + (k - j)]
      BY <1>2, <1>3, <2>1, <3>1
    <3> QED  BY <1>4, <3>2
  <2> QED  BY <2>1, <2>2
<1>5. ASSUME d - j = x - i, \A k \in j .. d - 1 : q[i + (k - j)] = p[k]
      PROVE  u = v
  <2>1. ASSUME NEW t \in 1 .. d - j PROVE u[t] = v[t]
    <3> DEFINE k == j + t - 1
    <3>1. k \in j .. d - 1 /\ i + t - 1 = i + (k - j)
      BY <1>1
    <3>2. u[t] = p[k] /\ v[t] = q[i + (k - j)]
      BY <1>2, <1>3, <1>5, <3>1
    <3> HIDE DEF k
    <3> QED  BY <1>5, <3>1, <3>2
  <2>2. Len(u) = Len(v) /\ \A t \in 1 .. Len(u) : u[t] = v[t]
    BY <1>2, <1>3, <1>5, <2>1
  <2> QED  BY <1>2, <1>3, <2>2, SeqEqual
<1> QED  BY <1>4, <1>5 DEF u, v

\* There is one first dot.
LEMMA FirstDotUnique ==
  ASSUME NEW C, NEW s \in Seq(C), NEW i \in Nat, NEW d, NEW e,
         FirstDot(s, i, d), FirstDot(s, i, e)
  PROVE  d = e
<1>1. /\ Len(s) \in Nat /\ d \in i .. Len(s) + 1 /\ e \in i .. Len(s) + 1
      /\ d <= Len(s) => s[d] = "."
      /\ \A c \in i .. d - 1 : s[c] # "."
      /\ e <= Len(s) => s[e] = "."
      /\ \A c \in i .. e - 1 : s[c] # "."
  BY LenProperties DEF FirstDot
<1>2. ~ (d < e)
  <2>1. d < e => d \in i .. e - 1 /\ d <= Len(s)
    BY <1>1
  <2> QED  BY <1>1, <2>1
<1>3. ~ (e < d)
  <2>1. e < d => e \in i .. d - 1 /\ e <= Len(s)
    BY <1>1
  <2> QED  BY <1>1, <2>1
<1> QED  BY <1>1, <1>2, <1>3

(***************************************************************************)
(* A way to read a name takes a label of it for each label of the entry.   *)
(***************************************************************************)
LEMMA PathTakesLabel ==
  ASSUME NEW C, NEW p \in Seq(C), NEW q \in Seq(C),
         NEW j \in 1 .. Len(p) + 1, NEW d \in 1 .. Len(p) + 1,
         NEW i \in 1 .. Len(q) + 1, NEW x \in 1 .. Len(q) + 1,
         LabelStart(p, j), FirstDot(p, j, d), FirstDot(q, i, x),
         NEW pos \in Paths(p, q, j, i)
  PROVE  /\ SubSeq(p, j, d - 1) = <<"*">> \/ SubSeq(p, j, d - 1) = SubSeq(q, i, x - 1)
         /\ IF d <= Len(p) THEN x <= Len(q) /\ Paths(p, q, d + 1, x + 1) # {}
                           ELSE x = Len(q) + 1
<1> DEFINE P == Len(p)
           Q == Len(q)
<1>1. /\ P \in Nat /\ Q \in Nat /\ j \in Nat /\ d \in Nat /\ i \in Nat /\ x \in Nat
      /\ 1 <= j /\ j <= d /\ d <= P + 1 /\ 1 <= i /\ i <= x /\ x <= Q + 1
  BY LenProperties DEF FirstDot
<1>2. /\ d <= P => p[d] = "."
      /\ \A c \in j .. d - 1 : p[c] # "."
  BY DEF FirstDot
<1>3. /\ pos \in [j .. P + 1 -> 1 .. Q + 1] /\ pos[j] = i /\ pos[P + 1] = Q + 1
      /\ \A k \in j .. P : Step(p, q, k, pos[k], pos[k + 1])
  BY DEF Paths
<1>4. /\ SubSeq(p, j, d - 1) = <<"*">> <=> j \in Stars(p)
      /\ j \in Stars(p) => d = j + 1
      /\ \A k \in j .. d - 1 : k # j => k \notin Stars(p)
      /\ d \notin Stars(p)
  BY StarAlone
<1> HIDE DEF P, Q
<1>5. pos[d] \in 1 .. Q + 1
  BY <1>1, <1>3
<1>6. /\ i <= pos[d]
      /\ \A c \in i .. pos[d] - 1 : q[c] # "."
      /\ j \notin Stars(p) =>
           d - j = pos[d] - i /\ \A k \in j .. d - 1 : q[i + (k - j)] = p[k]
  <2>1. CASE j \in Stars(p)
    <3>1. d = j + 1 /\ j \in j .. P
      BY <1>1, <1>4, <2>1
    <3>2. Step(p, q, j, i, pos[d])
      BY <1>3, <3>1
    <3> QED  BY <2>1, <3>2 DEF Step
  <2>2. CASE j \notin Stars(p)
    <3> DEFINE n == d - j
               S == {t \in 0 .. n : /\ pos[j + t] = i + t
                                    /\ \A k \in j .. j + t - 1 : q[i + (k - j)] = p[k]}
    <3>1. n \in Nat
      BY <1>1
    <3>2. 0 \in S
      <4>1. j + 0 = j /\ i + 0 = i /\ j .. j + 0 - 1 = {} /\ 0 \in 0 .. n
        BY <1>1, <3>1
      <4> HIDE DEF n
      <4> QED  BY <1>3, <4>1
    <3>3. ASSUME NEW t \in Nat, t < n, t \in S PROVE t + 1 \in S
      <4>1. j + t \in j .. P /\ j + t \in j .. d - 1 /\ (j + t) + 1 = j + (t + 1)
            /\ t + 1 \in 0 .. n
        BY <1>1, <3>3
      <4>2. j + t \notin Stars(p)
        BY <1>4, <2>2, <4>1
      <4>3. pos[j + (t + 1)] = (i + t) + 1 /\ q[i + t] = p[j + t]
        <5>1. Step(p, q, j + t, pos[j + t], pos[(j + t) + 1])
          BY <1>3, <4>1
        <5>2. pos[j + t] = i + t
          BY <3>3
        <5> HIDE DEF n, S
        <5> QED  BY <4>1, <4>2, <5>1, <5>2 DEF Step
      <4>4. ASSUME NEW k \in j .. j + (t + 1) - 1 PROVE q[i + (k - j)] = p[k]
        <5>1. CASE k = j + t
          <6>1. i + (k - j) = i + t
            BY <1>1, <5>1
          <6> QED  BY <4>3, <5>1, <6>1
        <5>2. CASE k # j + t
          <6>1. k \in j .. j + t - 1
            BY <1>1, <5>2
          <6> QED  BY <3>3, <6>1
        <5> QED  BY <5>1, <5>2
      <4>5. (i + t) + 1 = i + (t + 1)
        BY <1>1
      <4> HIDE DEF n
      <4> QED  BY <4>1, <4>3, <4>4, <4>5
    <3>4. n \in S
      <4> HIDE DEF n, S
      <4>1. \A t \in 0 .. n : t \in S
        BY <3>1, <3>2, <3>3, UpTo
      <4> QED  BY <3>1, <4>1
    <3>5. pos[d] = i + (d - j) /\ \A k \in j .. d - 1 : q[i + (k - j)] = p[k]
      <4>1. j + n = d
        BY <1>1
      <4>2. pos[j + n] = i + n /\ \A k \in j .. j + n - 1 : q[i + (k - j)] = p[k]
        <5> HIDE DEF n
        <5> QED  BY <3>4
      <4> QED  BY <4>1, <4>2
    <3>6. ASSUME NEW c \in i .. pos[d] - 1 PROVE q[c] # "."
      <4> DEFINE k == j + (c - i)
      <4>1. k \in j .. d - 1 /\ i + (k - j) = c
        BY <1>1, <3>5
      <4> HIDE DEF k
      <4> QED  BY <1>2, <3>5, <4>1
    <3> QED  BY <1>1, <3>5, <3>6
  <2> QED  BY <2>1, <2>2
<1>7. IF d <= P THEN pos[d] <= Q /\ q[pos[d]] = "." /\ pos[d + 1] = pos[d] + 1
                ELSE pos[d] = Q + 1
  <2>1. CASE d <= P
    <3>1. d \in j .. P
      BY <1>1, <2>1
    <3>2. Step(p, q, d, pos[d], pos[d + 1])
      BY <1>3, <3>1
    <3> QED  BY <1>2, <1>4, <2>1, <3>2 DEF Step, Q
  <2>2. CASE ~ (d <= P)
    <3>1. d = P + 1
      BY <1>1, <2>2
    <3> QED  BY <1>3, <2>2, <3>1
  <2> QED  BY <2>1, <2>2
<1>8. pos[d] = x
  <2>1. pos[d] <= Q => q[pos[d]] = "."
    BY <1>1, <1>7
  <2>2. FirstDot(q, i, pos[d])
    BY <1>1, <1>5, <1>6, <2>1 DEF FirstDot, Q
  <2> QED  BY <1>1, <2>2, FirstDotUnique
<1>9. SubSeq(p, j, d - 1) = <<"*">> \/ SubSeq(p, j, d - 1) = SubSeq(q, i, x - 1)
  <2>1. CASE j \in Stars(p)
    BY <1>4, <2>1
  <2>2. CASE j \notin Stars(p)
    <3>1. d - j = x - i /\ \A k \in j .. d - 1 : q[i + (k - j)] = p[k]
      BY <1>6, <1>8, <2>2
    <3>2. j <= d /\ i <= x
      BY <1>1
    <3> QED  BY <3>1, <3>2, SameParts
  <2> QED  BY <2>1, <2>2
<1>10. CASE d <= P
  <2> DEFINE rest == [k \in d + 1 .. P + 1 |-> pos[k]]
  <2>1. \A k \in d + 1 .. P + 1 : k \in j .. P + 1
    BY <1>1
  <2>2. rest \in [d + 1 .. P + 1 -> 1 .. Q + 1]
    BY <1>3, <2>1
  <2>3. d + 1 \in d + 1 .. P + 1 /\ P + 1 \in d + 1 .. P + 1
        /\ \A k \in d + 1 .. P : k \in j .. P /\ k \in d + 1 .. P + 1 /\ k + 1 \in d + 1 .. P + 1
    BY <1>1, <1>10
  <2>4. rest[d + 1] = x + 1 /\ rest[P + 1] = Q + 1
    BY <1>3, <1>7, <1>8, <1>10, <2>3
  <2>5. \A k \in d + 1 .. P : Step(p, q, k, rest[k], rest[k + 1])
    <3> SUFFICES ASSUME NEW k \in d + 1 .. P PROVE Step(p, q, k, rest[k], rest[k + 1])
      OBVIOUS
    <3>1. rest[k] = pos[k] /\ rest[k + 1] = pos[k + 1] /\ Step(p, q, k, pos[k], pos[k + 1])
      BY <1>3, <2>3
    <3> HIDE DEF rest
    <3> QED  BY <3>1
  <2> HIDE DEF rest
  <2>6. rest \in Paths(p, q, d + 1, x + 1)
    BY <2>2, <2>4, <2>5 DEF Paths, P, Q
  <2> QED  BY <1>7, <1>8, <1>9, <1>10, <2>6 DEF P, Q
<1>11. CASE ~ (d <= P)
  BY <1>7, <1>8, <1>9, <1>11 DEF P, Q
<1> QED  BY <1>10, <1>11

(***************************************************************************)
(* And a label that the entry's first one allows begins a way.             *)
(***************************************************************************)
LEMMA LabelBeginsPath ==
  ASSUME NEW C, NEW p \in Seq(C), NEW q \in Seq(C),
         NEW j \in 1 .. Len(p) + 1, NEW d \in 1 .. Len(p) + 1,
         NEW i \in 1 .. Len(q) + 1, NEW x \in 1 .. Len(q) + 1,
         LabelStart(p, j), FirstDot(p, j, d), FirstDot(q, i, x),
         SubSeq(p, j, d - 1) = <<"*">> \/ SubSeq(p, j, d - 1) = SubSeq(q, i, x - 1),
         IF d <= Len(p) THEN x <= Len(q) /\ Paths(p, q, d + 1, x + 1) # {}
                        ELSE x = Len(q) + 1
  PROVE  Paths(p, q, j, i) # {}
<1> DEFINE P == Len(p)
           Q == Len(q)
<1>1. /\ P \in Nat /\ Q \in Nat /\ j \in Nat /\ d \in Nat /\ i \in Nat /\ x \in Nat
      /\ 1 <= j /\ j <= d /\ d <= P + 1 /\ 1 <= i /\ i <= x /\ x <= Q + 1
  BY LenProperties DEF FirstDot
<1>2. /\ d <= P => p[d] = "."
      /\ x <= Q => q[x] = "."
      /\ \A c \in i .. x - 1 : q[c] # "."
  BY DEF FirstDot
<1>3. /\ SubSeq(p, j, d - 1) = <<"*">> <=> j \in Stars(p)
      /\ j \in Stars(p) => d = j + 1
      /\ \A k \in j .. d - 1 : k # j => k \notin Stars(p)
      /\ d \notin Stars(p)
  BY StarAlone
<1>4. j \notin Stars(p) => d - j = x - i /\ \A k \in j .. d - 1 : q[i + (k - j)] = p[k]
  <2>1. j <= d /\ i <= x
    BY <1>1
  <2> QED  BY <1>3, <2>1, SameParts
<1>5. IF d <= P THEN x <= Q /\ Paths(p, q, d + 1, x + 1) # {} ELSE x = Q + 1
  OBVIOUS
<1> HIDE DEF P, Q
<1>6. \E rest : d <= P => /\ rest \in [d + 1 .. P + 1 -> 1 .. Q + 1]
                          /\ rest[d + 1] = x + 1 /\ rest[P + 1] = Q + 1
                          /\ \A k \in d + 1 .. P : Step(p, q, k, rest[k], rest[k + 1])
  BY <1>5 DEF Paths, P, Q
<1>7. PICK rest : d <= P => /\ rest \in [d + 1 .. P + 1 -> 1 .. Q + 1]
                            /\ rest[d + 1] = x + 1 /\ rest[P + 1] = Q + 1
                            /\ \A k \in d + 1 .. P : Step(p, q, k, rest[k], rest[k + 1])
  BY <1>6
<1> DEFINE pos == [k \in j .. P + 1 |->
                     IF k > d THEN rest[k] ELSE IF k = d THEN x ELSE i + (k - j)]
<1>8. /\ \A k \in j .. d - 1 : k \in j .. P + 1 /\ pos[k] = i + (k - j)
      /\ d \in j .. P + 1 /\ pos[d] = x
      /\ \A k \in d + 1 .. P + 1 : k \in j .. P + 1 /\ pos[k] = rest[k]
  BY <1>1
<1>9. \A k \in j .. d - 1 : i + (k - j) \in i .. x /\ i + (k - j) \in 1 .. Q + 1
  <2>1. CASE j \in Stars(p)
    <3>1. \A k \in j .. d - 1 : i + (k - j) = i
      BY <1>1, <1>3, <2>1
    <3> QED  BY <1>1, <3>1
  <2>2. CASE j \notin Stars(p)
    <3>1. d - j = x - i
      BY <1>4, <2>2
    <3> QED  BY <1>1, <3>1
  <2> QED  BY <2>1, <2>2
<1>10. pos \in [j .. P + 1 -> 1 .. Q + 1]
  <2>1. ASSUME NEW k \in j .. P + 1 PROVE pos[k] \in 1 .. Q + 1
    <3>1. CASE k \in j .. d - 1
      <4>1. pos[k] = i + (k - j)
        BY <1>8, <3>1
      <4> HIDE DEF pos
      <4> QED  BY <1>9, <3>1, <4>1
    <3>2. CASE k = d
      <4>1. pos[k] = x
        BY <1>8, <3>2
      <4> HIDE DEF pos
      <4> QED  BY <1>1, <4>1
    <3>3. CASE k \in d + 1 .. P + 1
      <4>1. pos[k] = rest[k] /\ d <= P
        BY <1>1, <1>8, <3>3
      <4> HIDE DEF pos
      <4> QED  BY <1>7, <3>3, <4>1
    <3> QED  BY <1>1, <3>1, <3>2, <3>3
  <2>2. pos = [k \in j .. P + 1 |-> pos[k]]
    OBVIOUS
  <2> HIDE DEF pos
  <2> QED  BY <2>1, <2>2
<1> HIDE DEF pos
<1>11. pos[j] = i
  <2>1. CASE j = d
    <3>1. j \notin Stars(p)
      BY <1>1, <1>3, <2>1
    <3>2. x = i
      BY <1>1, <1>4, <2>1, <3>1
    <3> QED  BY <1>8, <2>1, <3>2
  <2>2. CASE j # d
    <3>1. j \in j .. d - 1 /\ i + (j - j) = i
      BY <1>1, <2>2
    <3> QED  BY <1>8, <3>1
  <2> QED  BY <2>1, <2>2
<1>12. pos[P + 1] = Q + 1
  <2>1. CASE d <= P
    <3>1. P + 1 \in d + 1 .. P + 1
      BY <1>1, <2>1
    <3> QED  BY <1>7, <1>8, <2>1, <3>1
  <2>2. CASE ~ (d <= P)
    <3>1. P + 1 = d
      BY <1>1, <2>2
    <3> QED  BY <1>5, <1>8, <2>2, <3>1
  <2> QED  BY <2>1, <2>2
<1>13. ASSUME NEW k \in j .. P PROVE Step(p, q, k, pos[k], pos[k + 1])
  <2>1. CASE k \in j .. d - 1 /\ j \in Stars(p)
    <3>1. k = j /\ k + 1 = d
      BY <1>1, <1>3, <2>1
    <3>2. pos[k] = i /\ pos[k + 1] = x
      BY <1>8, <1>11, <3>1
    <3> QED  BY <1>1, <1>2, <2>1, <3>1, <3>2 DEF Step
  <2>2. CASE k \in j .. d - 1 /\ j \notin Stars(p)
    <3>1. k \notin Stars(p)
      BY <1>3, <2>2
    <3>2. pos[k] = i + (k - j) /\ q[i + (k - j)] = p[k]
      BY <1>4, <1>8, <2>2
    <3>3. pos[k + 1] = (i + (k - j)) + 1
      <4>1. CASE k + 1 = d
        <5>1. (i + (k - j)) + 1 = x
          BY <1>1, <1>4, <2>2, <4>1
        <5> QED  BY <1>8, <4>1, <5>1
      <4>2. CASE k + 1 # d
        <5>1. k + 1 \in j .. d - 1 /\ i + ((k + 1) - j) = (i + (k - j)) + 1
          BY <1>1, <2>2, <4>2
        <5> QED  BY <1>8, <5>1
      <4> QED  BY <4>1, <4>2
    <3>4. i + (k - j) <= Q
      BY <1>1, <1>4, <2>2
    <3> QED  BY <3>1, <3>2, <3>3, <3>4 DEF Step, Q
  <2>3. CASE k = d
    <3>1. d <= P /\ k + 1 \in d + 1 .. P + 1
      BY <1>1, <2>3
    <3>2. pos[k] = x /\ pos[k + 1] = x + 1
      BY <1>7, <1>8, <2>3, <3>1
    <3>3. x <= Q /\ q[x] = "." /\ p[k] = "." /\ k \notin Stars(p)
      BY <1>2, <1>3, <1>5, <2>3, <3>1
    <3> QED  BY <3>2, <3>3 DEF Step, Q
  <2>4. CASE k \in d + 1 .. P
    <3>1. d <= P /\ k \in d + 1 .. P + 1 /\ k + 1 \in d + 1 .. P + 1
      BY <1>1, <2>4
    <3>2. pos[k] = rest[k] /\ pos[k + 1] = rest[k + 1]
      BY <1>8, <3>1
    <3> QED  BY <1>7, <2>4, <3>1, <3>2
  <2> QED  BY <1>1, <2>1, <2>2, <2>3, <2>4
<1>14. pos \in Paths(p, q, j, i)
  BY <1>10, <1>11, <1>12, <1>13 DEF Paths, P, Q
<1> QED  BY <1>14

\* The parts from position j on are the one that ends before d and the others.
FirstPart(C, p, E, j, d) ==
  LET part == SubSeq(p, j, d - 1)
      others == IF d <= Len(p) THEN E[d + 1] ELSE <<>>
  IN  /\ FirstDot(p, j, d)
      /\ part \in Seq(C) /\ others \in Seq(Seq(C))
      /\ E[j] = <<part>> \o others

LEMMA SplitsFirst ==
  ASSUME NEW C, NEW p \in Seq(C), NEW E, Splits(C, p, E), NEW j \in 1 .. Len(p) + 1
  PROVE  /\ \E d \in 1 .. Len(p) + 1 : FirstPart(C, p, E, j, d)
         /\ E[j] \in Seq(Seq(C)) /\ E[j] # <<>>
<1> DEFINE P == Len(p)
           Y == Seq(C)
<1>1. P \in Nat
  BY LenProperties
<1>2. E \in [1 .. P + 1 -> Seq(Y)]
  BY DEF Splits
<1>3. PICK d \in 1 .. P + 1 :
        /\ FirstDot(p, j, d)
        /\ E[j] = IF d <= P THEN <<SubSeq(p, j, d - 1)>> \o E[d + 1]
                            ELSE <<SubSeq(p, j, d - 1)>>
  BY DEF Splits
<1> DEFINE b == SubSeq(p, j, d - 1)
           B == IF d <= P THEN E[d + 1] ELSE <<>>
<1>4. b \in Y
  <2> DEFINE u == d - 1
  <2>1. j \in Nat /\ j >= 1 /\ u \in Nat /\ u <= Len(p)
    BY <1>1
  <2> HIDE DEF u
  <2>2. SubSeq(p, j, u) \in Seq(C)
    BY <2>1, UpToIsSeq
  <2> QED  BY <2>2 DEF u
<1>5. B \in Seq(Y)
  <2>1. d <= P => d + 1 \in 1 .. P + 1
    BY <1>1
  <2>2. <<>> \in Seq(Y)
    BY EmptySeq
  <2> HIDE DEF Y, P
  <2> QED  BY <1>2, <2>1, <2>2
<1> DEFINE one == <<b>>
<1>6. one \in Seq(Y) /\ Len(one) = 1
  <2> HIDE DEF b, Y
  <2> QED  BY <1>4
<1>7. E[j] = one \o B
  <2>1. one \o <<>> = one
    <3> HIDE DEF one, Y
    <3> QED  BY <1>6, ConcatEmptySeq
  <2> HIDE DEF P
  <2> QED  BY <1>3, <2>1
<1>8. E[j] # <<>>
  <2> HIDE DEF one, B, Y
  <2>1. Len(one \o B) = 1 + Len(B) /\ Len(B) \in Nat
    BY <1>5, <1>6, ConcatProperties, LenProperties
  <2>2. Len(E[j]) # 0
    BY <1>7, <2>1
  <2> QED  BY <2>2
<1>9. FirstPart(C, p, E, j, d)
  BY <1>3, <1>4, <1>5, <1>7 DEF FirstPart
<1> QED  BY <1>2, <1>8, <1>9

(***************************************************************************)
(* So the elements of an entry allow those of a name just if there is a    *)
(* way to read the one as what the other covers.                           *)
(***************************************************************************)
LEMMA AllowsIsPath ==
  ASSUME NEW C, NEW p \in Seq(C), NEW q \in Seq(C), NEW E, NEW F,
         Splits(C, p, E), Splits(C, q, F)
  PROVE  Allows(E[1], F[1]) <=> Paths(p, q, 1, 1) # {}
<1> DEFINE P == Len(p)
           Q == Len(q)
           Y == Seq(C)
           Same(j, i) == Allows(E[j], F[i]) <=> Paths(p, q, j, i) # {}
           Good(j) == LabelStart(p, j) => \A i \in 1 .. Q + 1 : Same(j, i)
           S == {j \in 1 .. P + 1 : \A k \in j .. P + 1 : Good(k)}
<1>1. P \in Nat /\ Q \in Nat
  BY LenProperties
<1>2. \A j \in 1 .. P + 1 : E[j] \in Seq(Y) /\ E[j] # <<>>
  BY SplitsFirst
<1>3. \A i \in 1 .. Q + 1 : F[i] \in Seq(Y) /\ F[i] # <<>>
  BY SplitsFirst
<1>4. ASSUME NEW j \in 1 .. P + 1, \A k \in j + 1 .. P + 1 : Good(k), LabelStart(p, j),
             NEW i \in 1 .. Q + 1
      PROVE  Same(j, i)
  <2>1. PICK d \in 1 .. P + 1 : FirstPart(C, p, E, j, d)
    BY SplitsFirst
  <2>2. PICK x \in 1 .. Q + 1 : FirstPart(C, q, F, i, x)
    BY SplitsFirst
  <2> DEFINE b == SubSeq(p, j, d - 1)
             a == SubSeq(q, i, x - 1)
             B == IF d <= P THEN E[d + 1] ELSE <<>>
             A == IF x <= Q THEN F[x + 1] ELSE <<>>
             Rest == IF d <= P THEN x <= Q /\ Paths(p, q, d + 1, x + 1) # {} ELSE x = Q + 1
  <2>3. /\ j <= d /\ i <= x /\ (d <= P => p[d] = ".")
        /\ FirstDot(p, j, d) /\ FirstDot(q, i, x)
    BY <2>1, <2>2 DEF FirstPart, FirstDot
  <2>4. Allows(E[j], F[i]) <=> (b = <<"*">> \/ b = a) /\ Allows(B, A)
    <3>1. b \in Y /\ a \in Y /\ A \in Seq(Y) /\ B \in Seq(Y)
          /\ E[j] = <<b>> \o B /\ F[i] = <<a>> \o A
      BY <2>1, <2>2 DEF FirstPart
    <3> HIDE DEF a, b, A, B, Y
    <3> QED  BY <3>1, AllowsFirst
  <2>5. Allows(B, A) <=> Rest
    <3>1. CASE d <= P /\ x <= Q
      <4>1. /\ d + 1 \in j + 1 .. P + 1 /\ x + 1 \in 1 .. Q + 1 /\ (d + 1) - 1 = d
        BY <1>1, <2>3, <3>1
      <4>2. LabelStart(p, d + 1)
        BY <2>3, <3>1, <4>1 DEF LabelStart
      <4>3. Same(d + 1, x + 1)
        <5> HIDE DEF Same
        <5> QED  BY <1>4, <4>1, <4>2
      <4> QED  BY <3>1, <4>3
    <3>2. CASE d <= P /\ ~ (x <= Q)
      <4>1. d + 1 \in 1 .. P + 1
        BY <1>1, <3>2
      <4>2. B \in Seq(Y) /\ B # <<>> /\ A = <<>>
        <5> HIDE DEF Y
        <5> QED  BY <1>2, <3>2, <4>1
      <4>3. Len(B) # Len(A)
        <5> HIDE DEF A, B, Y
        <5> QED  BY <4>2, EmptySeq
      <4> HIDE DEF A, B
      <4> QED  BY <3>2, <4>3 DEF Allows
    <3>3. CASE ~ (d <= P) /\ x <= Q
      <4>1. x + 1 \in 1 .. Q + 1 /\ x # Q + 1
        BY <1>1, <3>3
      <4>2. A \in Seq(Y) /\ A # <<>> /\ B = <<>>
        <5> HIDE DEF Y
        <5> QED  BY <1>3, <3>3, <4>1
      <4>3. Len(B) # Len(A)
        <5> HIDE DEF A, B, Y
        <5> QED  BY <4>2, EmptySeq
      <4> HIDE DEF A, B
      <4> QED  BY <3>3, <4>1, <4>3 DEF Allows
    <3>4. CASE ~ (d <= P) /\ ~ (x <= Q)
      <4>1. x = Q + 1 /\ A = <<>> /\ B = <<>>
        BY <1>1, <3>4
      <4>2. Allows(<<>>, <<>>)
        BY DEF Allows
      <4> HIDE DEF A, B
      <4> QED  BY <3>4, <4>1, <4>2
    <3> QED  BY <3>1, <3>2, <3>3, <3>4
  <2>6. Paths(p, q, j, i) # {} <=> (b = <<"*">> \/ b = a) /\ Rest
    <3>1. ASSUME Paths(p, q, j, i) # {}
          PROVE  (b = <<"*">> \/ b = a) /\ Rest
      <4>1. PICK pos \in Paths(p, q, j, i) : TRUE
        BY <3>1
      <4> QED  BY <1>4, <2>3, <4>1, PathTakesLabel
    <3>2. ASSUME b = <<"*">> \/ b = a, Rest
          PROVE  Paths(p, q, j, i) # {}
      BY <1>4, <2>3, <3>2, LabelBeginsPath
    <3> HIDE DEF Rest, a, b
    <3> QED  BY <3>1, <3>2
  <2> HIDE DEF a, b, A, B, Rest
  <2> QED  BY <2>4, <2>5, <2>6
<1> HIDE DEF Same
<1>5. P + 1 \in S
  <2>1. \A k \in (P + 1) + 1 .. P + 1 : Good(k)
    BY <1>1
  <2>2. Good(P + 1)
    BY <1>1, <1>4, <2>1
  <2> HIDE DEF Good
  <2> QED  BY <1>1, <2>2
<1>6. ASSUME NEW j \in Nat, 1 <= j, j < P + 1, j + 1 \in S PROVE j \in S
  <2>1. \A k \in j + 1 .. P + 1 : Good(k)
    BY <1>6
  <2>2. j \in 1 .. P + 1
    BY <1>1, <1>6
  <2>3. Good(j)
    BY <1>4, <2>1, <2>2
  <2> HIDE DEF Good
  <2>4. \A k \in j .. P + 1 : Good(k)
    <3>1. \A k \in j .. P + 1 : k = j \/ k \in j + 1 .. P + 1
      BY <1>1, <1>6
    <3> QED  BY <2>1, <2>3, <3>1
  <2> QED  BY <2>2, <2>4
<1>7. 1 \in S
  <2> DEFINE last == P + 1
  <2>1. 1 \in Nat /\ last \in Nat /\ last \in S /\ 1 \in 1 .. last
        /\ \A j \in Nat : 1 <= j /\ j < last /\ j + 1 \in S => j \in S
    BY <1>1, <1>5, <1>6
  <2> HIDE DEF last, S
  <2>2. \A j \in 1 .. last : j \in S
    BY <2>1, DownTo
  <2> QED  BY <2>1, <2>2
<1>8. Good(1) /\ 1 \in 1 .. Q + 1 /\ LabelStart(p, 1)
  BY <1>1, <1>7 DEF LabelStart
<1>9. Same(1, 1)
  BY <1>8
<1> QED  BY <1>9 DEF Same

\* FlattenSeq, by the beginnings of what it returns.
LEMMA FlattenParts ==
  ASSUME NEW S, NEW s \in Seq(Seq(S))
  PROVE  \E g \in [0 .. Len(s) -> Seq(S)] :
           /\ g[0] = <<>> /\ FlattenSeq(s) = g[Len(s)]
           /\ \A i \in 1 .. Len(s) : g[i] = g[i - 1] \o s[i]
<1> DEFINE N == Len(s)
           X == Seq(S)
<1>1. N \in Nat /\ (\A i \in 1 .. N : s[i] \in X) /\ <<>> \in X
  BY LenProperties, ElementOfSeq, EmptySeq
<1>2. CASE s = <<>>
  <2> DEFINE g == [i \in 0 .. N |-> <<>>]
  <2>1. N = 0
    BY <1>2
  <2>2. FlattenSeq(s) = <<>>
    BY <1>2 DEF FlattenSeq
  <2>3. g \in [0 .. N -> X] /\ g[0] = <<>> /\ g[N] = <<>> /\ 1 .. N = {}
    BY <1>1, <2>1
  <2> HIDE DEF g
  <2> QED  BY <2>2, <2>3
<1>3. CASE s # <<>>
  <2>0. N # 0 /\ N >= 1
    BY <1>1, <1>3, EmptySeq
  <2>1. PICK f : /\ FlattenSeq(s) = f[N] /\ f[1] = s[1]
                 /\ \A i \in 2 .. N : f[i] = f[i - 1] \o s[i]
    BY <1>3, FlattenSeqIs
  <2> DEFINE g == [i \in 0 .. N |-> IF i = 0 THEN <<>> ELSE f[i]]
             T == {i \in 0 .. N : g[i] \in X}
  <2>2. /\ g[0] = <<>> /\ g[N] = f[N]
        /\ \A i \in 1 .. N : i \in 0 .. N /\ g[i] = f[i]
    BY <1>1, <2>0
  <2>3. g[1] = <<>> \o s[1]
    <3>1. 1 \in 1 .. N
      BY <2>0, <1>1
    <3>2. s[1] \in X /\ g[1] = s[1]
      BY <1>1, <2>1, <2>2, <3>1
    <3> HIDE DEF g
    <3> QED  BY <3>2, ConcatEmptySeq
  <2>4. ASSUME NEW i \in 1 .. N PROVE g[i] = g[i - 1] \o s[i]
    <3>1. CASE i = 1
      <4>1. i - 1 = 0
        BY <3>1
      <4> HIDE DEF g
      <4> QED  BY <2>2, <2>3, <3>1, <4>1
    <3>2. CASE i # 1
      <4>1. i \in 2 .. N /\ i - 1 \in 1 .. N
        BY <1>1, <3>2
      <4> HIDE DEF g
      <4> QED  BY <2>1, <2>2, <4>1
    <3> QED  BY <3>1, <3>2
  <2> HIDE DEF g
  <2>5. \A i \in 0 .. N : i \in T
    <3>1. 0 \in T
      <4>1. 0 \in 0 .. N
        BY <1>1
      <4> HIDE DEF X
      <4> QED  BY <1>1, <2>2, <4>1
    <3>2. ASSUME NEW i \in Nat, i < N, i \in T PROVE i + 1 \in T
      <4>1. i + 1 \in 1 .. N /\ (i + 1) - 1 = i /\ i + 1 \in 0 .. N
        BY <1>1, <3>2
      <4>2. g[i + 1] = g[i] \o s[i + 1]
        BY <2>4, <4>1
      <4>3. g[i] \in X /\ s[i + 1] \in X
        BY <1>1, <3>2, <4>1
      <4>4. g[i] \o s[i + 1] \in X
        BY <4>3, ConcatProperties
      <4> HIDE DEF X
      <4> QED  BY <4>1, <4>2, <4>4
    <3> HIDE DEF T
    <3> QED  BY <1>1, <3>1, <3>2, UpTo
  <2>6. g \in [0 .. N -> X]
    <3>1. \A i \in 0 .. N : g[i] \in X
      BY <2>5
    <3>2. g = [i \in 0 .. N |-> g[i]]
      BY DEF g
    <3> HIDE DEF X
    <3> QED  BY <3>1, <3>2
  <2> QED  BY <2>1, <2>2, <2>4, <2>6
<1> QED  BY <1>2, <1>3

LEMMA JoinParts ==
  ASSUME NEW C, NEW q \in Seq(C), NEW a \in Nat, NEW b \in Nat,
         1 <= a, a <= b, b <= Len(q) + 1
  PROVE  SubSeq(q, 1, a - 1) \o SubSeq(q, a, b - 1) = SubSeq(q, 1, b - 1)
<1> DEFINE a1 == a - 1
           b1 == b - 1
           u == SubSeq(q, 1, a1)
           v == SubSeq(q, a, b1)
           w == SubSeq(q, 1, b1)
<1>1. Len(q) \in Nat /\ 1 \in Nat /\ 1 >= 1 /\ a1 \in Int /\ b1 \in Int /\ a >= 1
      /\ a1 <= Len(q) /\ b1 <= Len(q) /\ 1 <= a1 + 1 /\ a <= b1 + 1 /\ 1 <= b1 + 1
      /\ a = a1 + 1 /\ a1 >= 0 /\ a1 <= b1
  BY LenProperties
<1> HIDE DEF a1, b1
<1>2. /\ u \in Seq(C) /\ Len(u) = a1 - 1 + 1
      /\ \A i \in 1 .. a1 - 1 + 1 : u[i] = q[1 + i - 1]
  BY <1>1, SubSeqIs
<1>3. /\ v \in Seq(C) /\ Len(v) = b1 - a + 1
      /\ \A i \in 1 .. b1 - a + 1 : v[i] = q[a + i - 1]
  BY <1>1, SubSeqIs
<1>4. /\ w \in Seq(C) /\ Len(w) = b1 - 1 + 1
      /\ \A i \in 1 .. b1 - 1 + 1 : w[i] = q[1 + i - 1]
  BY <1>1, SubSeqIs
<1> HIDE DEF u, v, w
<1>5. /\ u \o v \in Seq(C) /\ Len(u \o v) = Len(u) + Len(v)
      /\ \A i \in 1 .. Len(u) + Len(v) :
           (u \o v)[i] = IF i <= Len(u) THEN u[i] ELSE v[i - Len(u)]
  BY <1>2, <1>3, ConcatProperties
<1>6. Len(u) = a1 /\ Len(v) = b1 - a1 /\ Len(w) = b1 /\ Len(u) + Len(v) = b1
  BY <1>1, <1>2, <1>3, <1>4
<1>7. ASSUME NEW i \in 1 .. b1 PROVE (u \o v)[i] = w[i]
  <2>0. w[i] = q[i]
    <3>1. i \in 1 .. b1 - 1 + 1 /\ 1 + i - 1 = i
      BY <1>1
    <3> QED  BY <1>4, <3>1
  <2>1. CASE i <= a1
    <3>1. i \in 1 .. a1 - 1 + 1 /\ 1 + i - 1 = i
      BY <1>1, <2>1
    <3> QED  BY <1>2, <1>5, <1>6, <2>0, <2>1, <3>1
  <2>2. CASE ~ (i <= a1)
    <3>1. i - a1 \in 1 .. b1 - a + 1 /\ a + (i - a1) - 1 = i
      BY <1>1, <2>2
    <3> QED  BY <1>3, <1>5, <1>6, <2>0, <2>2, <3>1
  <2> QED  BY <2>1, <2>2
<1>8. u \o v = w
  BY <1>4, <1>5, <1>6, <1>7, SeqEqual
<1> QED  BY <1>8 DEF u, v, w, a1, b1

NameChar == {"a", ".", "*"}

\* A text for an asterisk is one of at most the name's length without dots.
LEMMA LabelIs ==
  ASSUME NameLength \in Nat, NEW t \in Seq(NameChar), Len(t) <= NameLength
  PROVE  t \in Labels <=> \A c \in 1 .. Len(t) : t[c] # "."
<1>1. Len(t) \in Nat /\ DOMAIN t = 1 .. Len(t) /\ \A c \in 1 .. Len(t) : t[c] \in NameChar
  BY LenProperties, ElementOfSeq
<1>2. ASSUME \A c \in 1 .. Len(t) : t[c] # "." PROVE t \in Labels
  <2>1. t \in [1 .. Len(t) -> {"a", "*"}]
    BY <1>1, <1>2 DEF NameChar
  <2>2. Len(t) \in 0 .. NameLength
    BY <1>1
  <2> QED  BY <2>1, <2>2 DEF Labels, Strings
<1>3. ASSUME t \in Labels PROVE \A c \in 1 .. Len(t) : t[c] # "."
  <2>1. PICK k \in 0 .. NameLength : t \in [1 .. k -> {"a", "*"}]
    BY <1>3, Zenon DEF Labels, Strings
  <2>2. DOMAIN t = 1 .. k /\ \A c \in DOMAIN t : t[c] \in {"a", "*"}
    BY <2>1
  <2> QED  BY <1>1, <2>2
<1> QED  BY <1>2, <1>3

(***************************************************************************)
(* What an entry covers is what there is a way to read as that.            *)
(***************************************************************************)
LEMMA CoversIsPath ==
  ASSUME NameLength \in Nat, NEW p \in Seq(NameChar), NEW q \in Seq(NameChar),
         Len(q) <= NameLength
  PROVE  Covers(p, q) <=> Paths(p, q, 1, 1) # {}
<1> DEFINE P == Len(p)
           Q == Len(q)
           X == Seq(NameChar)
           Fit == {t \in Labels : Len(t) <= Q}
           part(texts, k) == IF k \in Stars(p) THEN texts[k] ELSE <<p[k]>>
           s(texts) == [k \in 1 .. P |-> part(texts, k)]
<1>1. /\ P \in Nat /\ Q \in Nat /\ DOMAIN p = 1 .. P
      /\ (\A k \in 1 .. P : p[k] \in NameChar) /\ (\A c \in 1 .. Q : q[c] \in NameChar)
  BY LenProperties, ElementOfSeq
<1>2. \A t \in Fit : t \in X /\ Len(t) \in Nat /\ \A c \in 1 .. Len(t) : t[c] # "."
  <2> SUFFICES ASSUME NEW t \in Fit
               PROVE  t \in X /\ Len(t) \in Nat /\ \A c \in 1 .. Len(t) : t[c] # "."
    OBVIOUS
  <2>1. PICK k \in 0 .. NameLength : t \in [1 .. k -> {"a", "*"}]
    BY Zenon DEF Labels, Strings
  <2>2. k \in Nat /\ k <= NameLength
    OBVIOUS
  <2>3. t \in Seq({"a", "*"}) /\ Len(t) = k
    BY <2>1, <2>2, SeqDef
  <2>4. \A c \in 1 .. k : t[c] \in {"a", "*"}
    BY <2>1
  <2>5. t \in [1 .. k -> NameChar]
    BY <2>1 DEF NameChar
  <2> QED  BY <2>2, <2>3, <2>4, <2>5, SeqDef
<1>3. ASSUME NEW texts
      PROVE  Substitute(p, texts) = FlattenSeq(
               [k \in 1 .. P |-> IF k \in DOMAIN texts THEN texts[k] ELSE <<p[k]>>])
  BY <1>1 DEF Substitute
<1>4. ASSUME NEW texts \in [Stars(p) -> Fit]
      PROVE  /\ Substitute(p, texts) = FlattenSeq(s(texts))
             /\ s(texts) \in Seq(X) /\ Len(s(texts)) = P
             /\ \A k \in 1 .. P : s(texts)[k] = part(texts, k) /\ part(texts, k) \in X
  <2>1. DOMAIN texts = Stars(p)
    OBVIOUS
  <2>2. Substitute(p, texts) = FlattenSeq(s(texts))
    BY <1>3, <2>1
  <2>3. ASSUME NEW k \in 1 .. P PROVE part(texts, k) \in X
    <3>1. CASE k \in Stars(p)
      <4>1. texts[k] \in Fit
        BY <3>1
      <4> HIDE DEF Fit
      <4> QED  BY <1>2, <3>1, <4>1
    <3>2. CASE k \notin Stars(p)
      BY <1>1, <3>2
    <3> QED  BY <3>1, <3>2
  <2> HIDE DEF part, X
  <2>4. s(texts) \in [1 .. P -> X]
    BY <2>3
  <2> QED  BY <1>1, <2>2, <2>3, <2>4, SeqDef
<1> HIDE DEF X, P, Q
<1>5. ASSUME NEW texts \in [Stars(p) -> Fit], Substitute(p, texts) = q
      PROVE  Paths(p, q, 1, 1) # {}
  <2> DEFINE ss == s(texts)
  <2>1. /\ ss \in Seq(X) /\ Len(ss) = P
        /\ \A k \in 1 .. P : ss[k] = part(texts, k) /\ ss[k] \in X
    BY <1>4, <1>5
  <2>2. q = FlattenSeq(ss)
    BY <1>4, <1>5
  <2> HIDE DEF ss
  <2>3a. PICK g \in [0 .. P -> X] :
           /\ g[0] = <<>> /\ FlattenSeq(ss) = g[P]
           /\ \A k \in 1 .. P : g[k] = g[k - 1] \o ss[k]
    <3> HIDE DEF s, part, Fit
    <3>1. ss \in Seq(X) /\ Len(ss) = P
      BY <2>1
    <3> QED  BY <3>1, FlattenParts DEF X
  <2>3. /\ g \in [0 .. P -> X] /\ g[0] = <<>> /\ q = g[P]
        /\ \A k \in 1 .. P : g[k] = g[k - 1] \o ss[k]
    BY <2>2, <2>3a
  <2>4. ASSUME NEW k \in 1 .. P
        PROVE  /\ k - 1 \in 0 .. P /\ k \in 0 .. P
               /\ Len(g[k - 1]) \in Nat /\ Len(ss[k]) \in Nat
               /\ Len(g[k]) = Len(g[k - 1]) + Len(ss[k])
               /\ \A c \in 1 .. Len(g[k - 1]) : g[k][c] = g[k - 1][c]
               /\ \A c \in 1 .. Len(ss[k]) : g[k][Len(g[k - 1]) + c] = ss[k][c]
    <3> DEFINE u == g[k - 1]
               v == ss[k]
    <3>1. k - 1 \in 0 .. P /\ k \in 0 .. P
      BY <1>1
    <3>2. u \in X /\ v \in X /\ g[k] = u \o v
      BY <2>1, <2>3, <3>1
    <3> HIDE DEF u, v
    <3>3. /\ Len(u \o v) = Len(u) + Len(v) /\ Len(u) \in Nat /\ Len(v) \in Nat
          /\ \A c \in 1 .. Len(u) + Len(v) :
               (u \o v)[c] = IF c <= Len(u) THEN u[c] ELSE v[c - Len(u)]
      BY <3>2, ConcatProperties, LenProperties DEF X
    <3>4. \A c \in 1 .. Len(u) : (u \o v)[c] = u[c]
      BY <3>3
    <3>5. ASSUME NEW c \in 1 .. Len(v) PROVE (u \o v)[Len(u) + c] = v[c]
      <4>1. Len(u) + c \in 1 .. Len(u) + Len(v) /\ ~ (Len(u) + c <= Len(u))
            /\ (Len(u) + c) - Len(u) = c
        BY <3>3
      <4> QED  BY <3>3, <4>1
    <3>6. /\ Len(u) \in Nat /\ Len(v) \in Nat
          /\ Len(g[k]) = Len(u) + Len(v)
          /\ \A c \in 1 .. Len(u) : g[k][c] = u[c]
          /\ \A c \in 1 .. Len(v) : g[k][Len(u) + c] = v[c]
      BY <3>2, <3>3, <3>4, <3>5
    <3> QED  BY <3>1, <3>6 DEF u, v
  <2> DEFINE Begins(k) == /\ Len(g[k]) \in Nat /\ Len(g[k]) <= Q
                          /\ \A c \in 1 .. Len(g[k]) : q[c] = g[k][c]
             T == {k \in 0 .. P : Begins(k)}
  <2>5. \A k \in 0 .. P : Begins(k)
    <3>1. P \in T
      <4>1. Begins(P)
        BY <1>1, <2>3 DEF Q
      <4> QED  BY <1>1, <4>1
    <3>2. ASSUME NEW k \in Nat, 0 <= k, k < P, k + 1 \in T PROVE k \in T
      <4>1. k + 1 \in 1 .. P /\ (k + 1) - 1 = k /\ k \in 0 .. P
        BY <1>1, <3>2
      <4> DEFINE m == k + 1
                 l == Len(g[k])
                 n == Len(ss[m])
                 h == Len(g[m])
      <4>3. /\ h \in Nat /\ h <= Q
            /\ \A c \in 1 .. h : q[c] = g[m][c]
        BY <3>2
      <4>a. m \in 1 .. P /\ m - 1 = k
        BY <4>1
      <4> HIDE DEF m
      <4>2. /\ l \in Nat /\ n \in Nat /\ h = l + n
            /\ \A c \in 1 .. l : g[m][c] = g[k][c]
        <5> HIDE DEF Begins, T
        <5>1. /\ Len(g[m - 1]) \in Nat /\ Len(ss[m]) \in Nat
              /\ Len(g[m]) = Len(g[m - 1]) + Len(ss[m])
              /\ \A c \in 1 .. Len(g[m - 1]) : g[m][c] = g[m - 1][c]
          BY <2>4, <4>a
        <5> QED  BY <4>a, <5>1
      <4> HIDE DEF l, n, h
      <4>b. Q \in Nat
        BY <1>1
      <4>4. l <= Q /\ l <= h
        BY <4>b, <4>2, <4>3
      <4>5. ASSUME NEW c \in 1 .. l PROVE q[c] = g[k][c]
        <5>1. c \in 1 .. h
          BY <4>2, <4>3, <4>4
        <5> QED  BY <4>2, <4>3, <5>1
      <4>6. Begins(k)
        BY <4>2, <4>4, <4>5 DEF l
      <4> QED  BY <4>1, <4>6
    <3> HIDE DEF Begins
    <3>3. \A k \in 0 .. P : k \in T
      <4>1. 0 \in Nat
        OBVIOUS
      <4> HIDE DEF T
      <4> QED  BY <1>1, <3>1, <3>2, <4>1, DownTo
    <3> QED  BY <3>3
  <2> HIDE DEF T
  <2> DEFINE pos == [k \in 1 .. P + 1 |-> Len(g[k - 1]) + 1]
  <2>6. /\ \A k \in 1 .. P + 1 : k - 1 \in 0 .. P /\ pos[k] = Len(g[k - 1]) + 1
        /\ P + 1 \in 1 .. P + 1 /\ 1 \in 1 .. P + 1 /\ (P + 1) - 1 = P
    BY <1>1
  <2>7. pos \in [1 .. P + 1 -> 1 .. Q + 1]
    <3>1. \A k \in 1 .. P + 1 : Len(g[k - 1]) + 1 \in 1 .. Q + 1
      <4> SUFFICES ASSUME NEW k \in 1 .. P + 1 PROVE Len(g[k - 1]) + 1 \in 1 .. Q + 1
        OBVIOUS
      <4>1. Len(g[k - 1]) \in Nat /\ Len(g[k - 1]) <= Q
        BY <2>5, <2>6
      <4> QED  BY <1>1, <4>1
    <3> QED  BY <3>1
  <2> HIDE DEF pos, Begins
  <2>8. pos[1] = 1 /\ pos[P + 1] = Q + 1
    <3>1. pos[1] = Len(g[0]) + 1
      <4>1. 1 - 1 = 0
        OBVIOUS
      <4> QED  BY <2>6, <4>1
    <3>2. Len(g[0]) = 0
      BY <2>3
    <3>3. pos[P + 1] = Len(g[P]) + 1
      BY <2>6
    <3> QED  BY <2>3, <3>1, <3>2, <3>3 DEF Q
  <2>9. ASSUME NEW k \in 1 .. P PROVE Step(p, q, k, pos[k], pos[k + 1])
    <3> DEFINE l == Len(g[k - 1])
               n == Len(ss[k])
    <3>1. l \in Nat /\ n \in Nat /\ Len(g[k]) = l + n
          /\ \A c \in 1 .. n : g[k][l + c] = ss[k][c]
      BY <2>4
    <3>2. pos[k] = l + 1 /\ pos[k + 1] = l + n + 1
      <4>1. k \in 1 .. P + 1 /\ k + 1 \in 1 .. P + 1 /\ (k + 1) - 1 = k
        BY <1>1
      <4>2. pos[k] = l + 1 /\ pos[k + 1] = Len(g[k]) + 1
        BY <2>6, <4>1
      <4> QED  BY <3>1, <4>2
    <3>3. l + n <= Q /\ \A c \in 1 .. l + n : q[c] = g[k][c]
      <4>1. k \in 0 .. P
        BY <1>1
      <4> QED  BY <2>5, <3>1, <4>1 DEF Begins
    <3> HIDE DEF l, n
    <3>4. \A c \in 1 .. n : q[l + c] = ss[k][c]
      <4> SUFFICES ASSUME NEW c \in 1 .. n PROVE q[l + c] = ss[k][c]
        OBVIOUS
      <4>1. l + c \in 1 .. l + n
        BY <3>1
      <4> QED  BY <3>1, <3>3, <4>1
    <3>5. ss[k] = part(texts, k)
      BY <2>1
    <3>6. CASE k \in Stars(p)
      <4>1. ss[k] = texts[k] /\ texts[k] \in Fit
        BY <3>5, <3>6
      <4>2. \A c \in 1 .. n : ss[k][c] # "."
        <5> HIDE DEF Fit
        <5> QED  BY <1>2, <4>1 DEF n
      <4>3. ASSUME NEW c \in pos[k] .. pos[k + 1] - 1 PROVE q[c] # "."
        <5>1. c - l \in 1 .. n /\ l + (c - l) = c
          BY <3>1, <3>2
        <5> QED  BY <3>4, <4>2, <5>1
      <4>4. pos[k] <= pos[k + 1]
        BY <3>1, <3>2
      <4> QED  BY <3>6, <4>3, <4>4 DEF Step
    <3>7. CASE k \notin Stars(p)
      <4>1. ss[k] = <<p[k]>>
        BY <3>5, <3>7
      <4>2. n = 1 /\ ss[k][1] = p[k]
        BY <4>1 DEF n
      <4>3. q[l + 1] = p[k] /\ l + 1 <= Q
        <5>1. 1 \in 1 .. n
          BY <4>2
        <5> QED  BY <3>1, <3>3, <3>4, <4>2, <5>1
      <4>4. pos[k + 1] = pos[k] + 1
        BY <3>1, <3>2, <4>2
      <4> QED  BY <3>2, <3>7, <4>3, <4>4 DEF Step, Q
    <3> QED  BY <3>6, <3>7
  <2>10. pos \in Paths(p, q, 1, 1)
    BY <2>7, <2>8, <2>9 DEF Paths, P, Q
  <2> QED  BY <2>10
<1>6. ASSUME NEW pos \in Paths(p, q, 1, 1)
      PROVE  \E texts \in [Stars(p) -> Fit] : Substitute(p, texts) = q
  <2>1. /\ pos \in [1 .. P + 1 -> 1 .. Q + 1] /\ pos[1] = 1 /\ pos[P + 1] = Q + 1
        /\ \A k \in 1 .. P : Step(p, q, k, pos[k], pos[k + 1])
    BY DEF Paths, P, Q
  <2> DEFINE text(k) == SubSeq(q, pos[k], pos[k + 1] - 1)
             texts == [k \in Stars(p) |-> text(k)]
  <2>2. ASSUME NEW k \in 1 .. P
        PROVE  /\ pos[k] \in Nat /\ pos[k + 1] \in Nat /\ 1 <= pos[k] /\ pos[k] <= pos[k + 1]
               /\ pos[k + 1] <= Q + 1
               /\ text(k) \in X /\ Len(text(k)) = pos[k + 1] - pos[k]
               /\ \A c \in 1 .. pos[k + 1] - pos[k] : text(k)[c] = q[pos[k] + c - 1]
    <3> DEFINE a == pos[k]
               b == pos[k + 1]
               b1 == b - 1
    <3>1. k \in 1 .. P + 1 /\ k + 1 \in 1 .. P + 1
      BY <1>1
    <3>2. a \in 1 .. Q + 1 /\ b \in 1 .. Q + 1
      BY <2>1, <3>1
    <3>3. a <= b
      <4>1. Step(p, q, k, a, b)
        BY <2>1
      <4> HIDE DEF a, b
      <4> QED  BY <1>1, <3>2, <4>1 DEF Step
    <3> HIDE DEF a, b
    <3>4. a \in Nat /\ b \in Nat /\ a >= 1 /\ 1 <= a /\ b <= Q + 1 /\ b1 \in Int /\ b1 <= Len(q)
          /\ a <= b1 + 1 /\ b1 - a + 1 = b - a
      BY <1>1, <3>2, <3>3 DEF Q
    <3> HIDE DEF b1
    <3>5. /\ SubSeq(q, a, b1) \in X /\ Len(SubSeq(q, a, b1)) = b1 - a + 1
          /\ \A c \in 1 .. b1 - a + 1 : SubSeq(q, a, b1)[c] = q[a + c - 1]
      BY <3>4, SubSeqIs DEF X
    <3> QED  BY <3>3, <3>4, <3>5 DEF a, b, b1
  <2> HIDE DEF text
  <2>3. texts \in [Stars(p) -> Fit]
    <3> SUFFICES ASSUME NEW k \in Stars(p) PROVE text(k) \in Fit
      OBVIOUS
    <3>1. k \in 1 .. P
      BY <1>1 DEF Stars
    <3>2. \A c \in pos[k] .. pos[k + 1] - 1 : q[c] # "."
      BY <2>1, <3>1 DEF Step
    <3>3. Len(text(k)) \in Nat /\ Len(text(k)) <= Q /\ Len(text(k)) <= NameLength
      <4> DEFINE n == Len(text(k))
                 a == pos[k]
                 b == pos[k + 1]
      <4>1. a \in Nat /\ b \in Nat /\ 1 <= a /\ a <= b /\ b <= Q + 1 /\ n = b - a
        BY <2>2, <3>1
      <4>2. Q \in Nat /\ Q <= NameLength
        BY <1>1 DEF Q
      <4> HIDE DEF n, a, b
      <4>3. n \in Nat /\ n <= Q /\ n <= NameLength
        BY <4>1, <4>2
      <4> QED  BY <4>3 DEF n
    <3>4. ASSUME NEW c \in 1 .. Len(text(k)) PROVE text(k)[c] # "."
      <4>1. c \in 1 .. pos[k + 1] - pos[k]
        BY <2>2, <3>1
      <4>2. pos[k] + c - 1 \in pos[k] .. pos[k + 1] - 1
        BY <2>2, <3>1, <4>1
      <4> QED  BY <2>2, <3>1, <3>2, <4>1, <4>2
    <3>5. text(k) \in Labels
      BY <2>2, <3>1, <3>3, <3>4, LabelIs DEF X
    <3> QED  BY <3>3, <3>5
  <2> HIDE DEF Fit
  <2>4. ASSUME NEW k \in 1 .. P PROVE part(texts, k) = text(k)
    <3>1. CASE k \in Stars(p)
      BY <3>1
    <3>2. CASE k \notin Stars(p)
      <4>1. pos[k + 1] = pos[k] + 1 /\ q[pos[k]] = p[k]
        BY <2>1, <3>2 DEF Step
      <4>2. text(k) \in X /\ Len(text(k)) = 1 /\ text(k)[1] = p[k]
        <5>1. pos[k + 1] - pos[k] = 1 /\ pos[k] + 1 - 1 = pos[k] /\ 1 \in 1 .. 1
          BY <2>2, <4>1
        <5> QED  BY <2>2, <4>1, <5>1
      <4>3. text(k) = <<p[k]>>
        BY <4>2 DEF X
      <4> QED  BY <3>2, <4>3
    <3> QED  BY <3>1, <3>2
  <2> DEFINE ss == s(texts)
  <2>5. /\ Substitute(p, texts) = FlattenSeq(ss)
        /\ ss \in Seq(X) /\ Len(ss) = P /\ \A k \in 1 .. P : ss[k] = text(k)
    <3> HIDE DEF texts
    <3> QED  BY <1>4, <2>3, <2>4
  <2> HIDE DEF ss
  <2>6. PICK g \in [0 .. P -> X] :
          /\ g[0] = <<>> /\ FlattenSeq(ss) = g[P]
          /\ \A k \in 1 .. P : g[k] = g[k - 1] \o ss[k]
    BY <2>5, FlattenParts DEF X
  <2> DEFINE T == {k \in 0 .. P : g[k] = SubSeq(q, 1, pos[k + 1] - 1)}
  <2>7. 0 \in T
    <3>1. pos[0 + 1] - 1 = 0
      BY <2>1
    <3>2. SubSeq(q, 1, 0) = <<>>
      BY SubSeqEmpty
    <3> QED  BY <1>1, <2>6, <3>1, <3>2
  <2>8. ASSUME NEW k \in Nat, k < P, k \in T PROVE k + 1 \in T
    <3>1. k + 1 \in 1 .. P /\ (k + 1) - 1 = k /\ k + 1 \in 0 .. P
      BY <1>1, <2>8
    <3> DEFINE a == pos[k + 1]
               b == pos[(k + 1) + 1]
    <3>2. g[k + 1] = g[k] \o text(k + 1)
      BY <2>5, <2>6, <3>1
    <3>3. g[k] = SubSeq(q, 1, a - 1)
      BY <2>8
    <3>4. text(k + 1) = SubSeq(q, a, b - 1)
      BY DEF text
    <3>5. a \in Nat /\ b \in Nat /\ 1 <= a /\ a <= b /\ b <= Len(q) + 1
      BY <2>2, <3>1 DEF Q
    <3> HIDE DEF a, b
    <3>6. g[k + 1] = SubSeq(q, 1, b - 1)
      BY <3>2, <3>3, <3>4, <3>5, JoinParts DEF X
    <3> QED  BY <3>1, <3>6 DEF b
  <2>9. g[P] = q
    <3>1. \A k \in 0 .. P : k \in T
      <4> HIDE DEF T
      <4> QED  BY <1>1, <2>7, <2>8, UpTo
    <3>2. g[P] = SubSeq(q, 1, pos[P + 1] - 1)
      <4>1. P \in 0 .. P
        BY <1>1
      <4> QED  BY <3>1, <4>1
    <3>3. pos[P + 1] - 1 = Q
      BY <1>1, <2>1
    <3>4. SubSeq(q, 1, Len(q)) = q
      BY SubSeqFull
    <3> QED  BY <3>2, <3>3, <3>4 DEF Q
  <2> QED  BY <2>3, <2>5, <2>6, <2>9
<1>7. Covers(p, q) <=> \E texts \in [Stars(p) -> Fit] : Substitute(p, texts) = q
  BY DEF Covers, Q
<1> HIDE DEF Fit
<1> QED  BY <1>5, <1>6, <1>7

\* A dot that both end in makes no difference to the ways to read one as the other.
LEMMA PathsDotted ==
  ASSUME NEW C, NEW p \in Seq(C), NEW q \in Seq(C), NEW n \in Seq(C), NEW h \in Seq(C),
         Len(n) = Len(p) + 1, n[Len(n)] = ".", \A k \in 1 .. Len(p) : p[k] = n[k],
         Len(h) = Len(q) + 1, h[Len(h)] = ".", \A c \in 1 .. Len(q) : q[c] = h[c]
  PROVE  Paths(n, h, 1, 1) # {} <=> Paths(p, q, 1, 1) # {}
<1> DEFINE P == Len(p)
           Q == Len(q)
<1>1. /\ P \in Nat /\ Q \in Nat /\ P = Len(p) /\ Q = Len(q)
      /\ Len(n) = P + 1 /\ Len(h) = Q + 1
      /\ DOMAIN p = 1 .. P /\ DOMAIN n = 1 .. P + 1
      /\ n[P + 1] = "." /\ h[Q + 1] = "."
  BY LenProperties
<1>a. (\A k \in 1 .. P : p[k] = n[k]) /\ (\A c \in 1 .. Q : q[c] = h[c])
  OBVIOUS
<1> HIDE DEF P, Q
<1>2. \A k \in 1 .. P : k \in Stars(n) <=> k \in Stars(p)
  <2> SUFFICES ASSUME NEW k \in 1 .. P PROVE k \in Stars(n) <=> k \in Stars(p)
    OBVIOUS
  <2>1. /\ k \in DOMAIN p /\ k \in DOMAIN n /\ n[k] = p[k]
        /\ k # 1 => n[k - 1] = p[k - 1]
        /\ k # P => n[k + 1] = p[k + 1]
        /\ k = P => n[k + 1] = "." /\ k # P + 1
    <3>1. /\ k \in DOMAIN p /\ k \in DOMAIN n /\ k # P + 1
          /\ k # 1 => k - 1 \in 1 .. P
          /\ k # P => k + 1 \in 1 .. P
      BY <1>1
    <3> QED  BY <1>1, <1>a, <3>1
  <2>2. P = Len(p) /\ Len(n) = P + 1
    BY <1>1
  <2> QED  BY <2>1, <2>2 DEF Stars
<1>3. P + 1 \notin Stars(n)
  BY <1>1 DEF Stars
<1>4. ASSUME NEW k \in 1 .. P, NEW a \in 1 .. Q + 1, NEW b \in 1 .. Q + 1
      PROVE  Step(n, h, k, a, b) <=> Step(p, q, k, a, b)
  <2>1. k \in Stars(n) <=> k \in Stars(p)
    BY <1>2
  <2>2. CASE k \in Stars(p)
    <3>1. \A c \in a .. b - 1 : c \in 1 .. Q
      BY <1>1
    <3>2. \A c \in a .. b - 1 : h[c] = q[c]
      BY <1>a, <3>1
    <3> QED  BY <2>1, <2>2, <3>2 DEF Step
  <2>3. CASE k \notin Stars(p)
    <3>1. b = a + 1 => a \in 1 .. Q /\ a <= Q /\ a <= Q + 1
      BY <1>1
    <3>2. b = a + 1 => h[a] = q[a] /\ n[k] = p[k]
      BY <1>a, <3>1
    <3> QED  BY <1>1, <2>1, <2>3, <3>1, <3>2 DEF Step
  <2> QED  BY <2>2, <2>3
<1>5. ASSUME NEW pos \in Paths(p, q, 1, 1) PROVE Paths(n, h, 1, 1) # {}
  <2> DEFINE on == [k \in 1 .. P + 2 |-> IF k = P + 2 THEN Q + 2 ELSE pos[k]]
  <2>1. /\ pos \in [1 .. P + 1 -> 1 .. Q + 1] /\ pos[1] = 1 /\ pos[P + 1] = Q + 1
        /\ \A k \in 1 .. P : Step(p, q, k, pos[k], pos[k + 1])
    BY <1>1 DEF Paths
  <2>2. on \in [1 .. P + 2 -> 1 .. Q + 2] /\ on[1] = 1 /\ on[P + 2] = Q + 2
    BY <1>1, <2>1
  <2>3. ASSUME NEW k \in 1 .. P PROVE Step(n, h, k, on[k], on[k + 1])
    <3>1. on[k] = pos[k] /\ on[k + 1] = pos[k + 1]
      BY <1>1
    <3>2. pos[k] \in 1 .. Q + 1 /\ pos[k + 1] \in 1 .. Q + 1
      <4>1. k \in 1 .. P + 1 /\ k + 1 \in 1 .. P + 1
        BY <1>1
      <4> QED  BY <2>1, <4>1
    <3> HIDE DEF on
    <3> QED  BY <1>4, <2>1, <3>1, <3>2
  <2>4. Step(n, h, P + 1, on[P + 1], on[P + 2])
    <3>1. on[P + 1] = Q + 1 /\ on[P + 2] = Q + 2
      BY <1>1, <2>1
    <3> HIDE DEF on
    <3> QED  BY <1>1, <1>3, <3>1 DEF Step
  <2> HIDE DEF on
  <2>5. \A k \in 1 .. P + 1 : Step(n, h, k, on[k], on[k + 1])
    <3>1. \A k \in 1 .. P + 1 : k \in 1 .. P \/ (k = P + 1 /\ k + 1 = P + 2)
      BY <1>1
    <3> QED  BY <2>3, <2>4, <3>1
  <2>6. Len(n) + 1 = P + 2 /\ Len(h) + 1 = Q + 2
    BY <1>1
  <2>7. on \in Paths(n, h, 1, 1)
    BY <1>1, <2>2, <2>5, <2>6 DEF Paths
  <2> QED  BY <2>7
<1>6. ASSUME NEW pos \in Paths(n, h, 1, 1) PROVE Paths(p, q, 1, 1) # {}
  <2> DEFINE before == [k \in 1 .. P + 1 |-> pos[k]]
             T == {k \in 1 .. P + 1 : pos[k] <= Q + 1}
  <2>0. Len(n) + 1 = P + 2 /\ Len(h) + 1 = Q + 2
    BY <1>1
  <2>1. /\ pos \in [1 .. P + 2 -> 1 .. Q + 2] /\ pos[1] = 1 /\ pos[P + 2] = Q + 2
        /\ \A k \in 1 .. P + 1 : Step(n, h, k, pos[k], pos[k + 1])
    BY <1>1, <2>0 DEF Paths
  <2>2. pos[P + 1] = Q + 1
    <3>1. Step(n, h, P + 1, pos[P + 1], Q + 2) /\ pos[P + 1] \in 1 .. Q + 2
      <4>1. P + 1 \in 1 .. P + 1 /\ (P + 1) + 1 = P + 2 /\ P + 1 \in 1 .. P + 2
        BY <1>1
      <4> QED  BY <2>1, <4>1
    <3> QED  BY <1>1, <1>3, <3>1 DEF Step
  <2>3. \A k \in 1 .. P + 1 : k \in T
    <3>1. P + 1 \in T
      BY <1>1, <2>2
    <3>2. ASSUME NEW k \in Nat, 1 <= k, k < P + 1, k + 1 \in T PROVE k \in T
      <4>1. /\ k \in 1 .. P + 1 /\ pos[k] \in Int /\ pos[k + 1] \in Int
            /\ Step(n, h, k, pos[k], pos[k + 1])
        <5>1. k \in 1 .. P + 1 /\ k \in 1 .. P + 2 /\ k + 1 \in 1 .. P + 2
          BY <1>1, <3>2
        <5>2. pos[k] \in 1 .. Q + 2 /\ pos[k + 1] \in 1 .. Q + 2
          BY <2>1, <5>1
        <5>3. pos[k] \in Int /\ pos[k + 1] \in Int
          BY <1>1, <5>2
        <5>4. Step(n, h, k, pos[k], pos[k + 1])
          BY <2>1, <5>1
        <5> QED  BY <5>1, <5>3, <5>4
      <4>2. pos[k] <= pos[k + 1]
        BY <4>1 DEF Step
      <4> QED  BY <1>1, <3>2, <4>1, <4>2
    <3>3. P + 1 \in Nat /\ 1 \in Nat
      BY <1>1
    <3> HIDE DEF T
    <3> QED  BY <3>1, <3>2, <3>3, DownTo
  <2>4. \A k \in 1 .. P + 1 : pos[k] \in 1 .. Q + 1
    <3> SUFFICES ASSUME NEW k \in 1 .. P + 1 PROVE pos[k] \in 1 .. Q + 1
      OBVIOUS
    <3>1. k \in 1 .. P + 2
      BY <1>1
    <3>2. pos[k] \in 1 .. Q + 2
      BY <2>1, <3>1
    <3> QED  BY <1>1, <2>3, <3>2
  <2>5. before \in [1 .. P + 1 -> 1 .. Q + 1] /\ before[1] = 1 /\ before[P + 1] = Q + 1
    BY <1>1, <2>1, <2>2, <2>4
  <2>6. ASSUME NEW k \in 1 .. P PROVE Step(p, q, k, before[k], before[k + 1])
    <3>1. k \in 1 .. P + 1 /\ k + 1 \in 1 .. P + 1
      BY <1>1
    <3>2. before[k] = pos[k] /\ before[k + 1] = pos[k + 1]
      BY <3>1
    <3> HIDE DEF before
    <3> QED  BY <1>4, <2>1, <2>4, <3>1, <3>2
  <2> HIDE DEF before
  <2>7. before \in Paths(p, q, 1, 1)
    BY <1>1, <2>5, <2>6 DEF Paths
  <2> QED  BY <2>7
<1> QED  BY <1>5, <1>6

(***************************************************************************)
(* Nor does it to what an entry covers.                                    *)
(***************************************************************************)
LEMMA CoversDotted ==
  ASSUME NameLength \in Nat, NEW h \in Seq(NameChar), NEW n \in Seq(NameChar),
         Len(h) <= NameLength, EndsInDot(n) <=> EndsInDot(h)
  PROVE  Covers(Relative(n), Relative(h)) <=> Covers(n, h)
<1>1. CASE ~ EndsInDot(h)
  BY <1>1, Zenon DEF Relative
<1>2. CASE EndsInDot(h)
  <2> DEFINE p == Relative(n)
             q == Relative(h)
  <2>0. Len(n) \in Nat /\ Len(h) \in Nat
    BY LenProperties
  <2>1. /\ p \in Seq(NameChar) /\ Len(p) = Len(n) - 1 /\ n[Len(n)] = "."
        /\ \A k \in 1 .. Len(p) : p[k] = n[k]
    BY <1>2, RelativeIs, Zenon
  <2>2. /\ q \in Seq(NameChar) /\ Len(q) = Len(h) - 1 /\ h[Len(h)] = "."
        /\ \A k \in 1 .. Len(q) : q[k] = h[k]
    BY <1>2, RelativeIs, Zenon
  <2> HIDE DEF p, q
  <2>3. Len(n) = Len(p) + 1 /\ Len(h) = Len(q) + 1 /\ Len(q) <= NameLength
    BY <2>0, <2>1, <2>2
  <2>4. Paths(n, h, 1, 1) # {} <=> Paths(p, q, 1, 1) # {}
    BY <2>1, <2>2, <2>3, PathsDotted
  <2>5. Covers(p, q) <=> Covers(n, h)
    BY <2>1, <2>2, <2>3, <2>4, CoversIsPath
  <2> QED  BY <2>5 DEF p, q
<1> QED  BY <1>1, <1>2

(***************************************************************************)
(* A name of a list allows a hostname just if it covers it, a dot at the   *)
(* end of either left out, for hostnames and names of every length         *)
(* (openSSLTools.cpp:26-46,105-141, openSSLTools.h:81-98).                 *)
(***************************************************************************)
THEOREM WildcardExact ==
  ASSUME NameLength \in Nat, NEW h \in Seq(NameChar), NEW n \in Seq(NameChar),
         Len(h) <= NameLength
  PROVE  MatchesByElement(h, n) <=> Covers(Relative(n), Relative(h))
<1> DEFINE p == Relative(n)
           q == Relative(h)
<1>1. PICK E : Splits(NameChar, p, E) /\ splitByDelimiters(n) = E[1]
  BY SplitIs
<1>2. PICK F : Splits(NameChar, q, F) /\ splitByDelimiters(h) = F[1]
  BY SplitIs
<1>3. p \in Seq(NameChar)
  BY RelativeIs, Zenon
<1>4. q \in Seq(NameChar) /\ Len(q) <= NameLength
  <2>1. q \in Seq(NameChar) /\ (Len(q) = Len(h) \/ Len(q) = Len(h) - 1)
    BY RelativeIs, Zenon
  <2>2. Len(h) \in Nat
    BY LenProperties
  <2> HIDE DEF q
  <2>3. Len(q) <= NameLength
    BY <2>1, <2>2
  <2> QED  BY <2>1, <2>3
<1> HIDE DEF p, q
<1>5. MatchesByElement(h, n) <=> Allows(E[1], F[1])
  BY <1>1, <1>2, Zenon DEF MatchesByElement, Allows
<1>6. Allows(E[1], F[1]) <=> Paths(p, q, 1, 1) # {}
  BY <1>1, <1>2, <1>3, <1>4, AllowsIsPath
<1>7. Covers(p, q) <=> Paths(p, q, 1, 1) # {}
  BY <1>3, <1>4, CoversIsPath
<1> QED  BY <1>5, <1>6, <1>7, Zenon DEF p, q
-----------------------------------------------------------------------------
(***************************************************************************)
(* The calls that MCFunctions makes are some of those that the theorems    *)
(* above are about.                                                        *)
(***************************************************************************)
LEMMA CallTypes ==
  ASSUME call \in Calls
  PROVE  /\ call.function = "send" =>
              call.type \in DOMAIN MessageType /\ call.reference \in References
                /\ call.body \in Bodies
         /\ call.function = "browser" => call.reference \in References /\ call.text \in Texts
         /\ call.function = "hostnameMatches" =>
              call.hostname \in Names /\ call.certificate \in OneName \cup SeveralNames
         /\ call.function = "hostnameFromURL" => call.URL \in URLs
         /\ call.function = "convertTime" => call.date \in Dates /\ call.offset \in Offsets
         /\ call.function = "dateIsValid" =>
              /\ call.notBefore \in Dates /\ call.notAfter \in Dates
              /\ call.now \in Clock /\ call.offset \in Offsets
         /\ call.function = "handshake" =>
              /\ call.verifyFileName \in BOOLEAN
              /\ call.chain \in {<<>>} \cup UNION {[1 .. n -> BOOLEAN] : n \in {1, 2, 8, 9, 10}}
BY SMT DEF Calls

LEMMA FrameTypes ==
  /\ References \subseteq UserReference
  /\ Bodies \subseteq Seq(Byte)
  /\ Texts \subseteq Seq(Code)
<1>1. ASSUME NEW ref \in References PROVE ref \in UserReference
  <2>1. ref \in Nat /\ ref <= 2147483647
    BY SMT DEF References
  <2> QED  BY <2>1, SMT DEF UserReference
<1>2. Bodies \subseteq Seq(Byte)
  <2> DEFINE Small == {0, 1, 2, 255, 7, 9, 8, 6, 5, 4, 3}
  <2>1. Small \subseteq Byte
    BY SMT DEF Byte
  <2>2. Bodies \subseteq Seq(Small)
    BY SMT DEF Bodies
  <2> QED  BY <2>1, <2>2, SMT
<1>3. ASSUME NEW text \in Texts PROVE text \in Seq(Code)
  <2> DEFINE Some == {0, 65, 127, 128, 255, 256, 2047, 2048, 8364}
  <2>0. Texts = UNION {[1 .. n -> Some] : n \in 0 .. 3}
    BY DEF Texts
  <2>1. PICK n \in 0 .. 3 : text \in [1 .. n -> Some]
    <3> HIDE DEF Some
    <3> QED  BY <1>3, <2>0, Zenon
  <2>2. Some \subseteq Code
    BY SMT DEF Code
  <2>3. n \in Nat
    OBVIOUS
  <2>4. text \in [1 .. n -> Code]
    <3> HIDE DEF Some
    <3> QED  BY <2>1, <2>2
  <2> QED  BY <2>3, <2>4, SeqDef
<1> QED  BY <1>1, <1>2, <1>3

LEMMA URLTypes == \A URL \in URLs : URL \in Seq({"a", ".", ":", "/", "?"})
<1> SUFFICES ASSUME NEW URL \in URLs PROVE URL \in Seq({"a", ".", ":", "/", "?"})
  OBVIOUS
<1>1. PICK n \in 0 .. URLLength : URL \in [1 .. n -> {"a", ".", ":", "/", "?"}]
  BY Zenon DEF URLs, Strings
<1>2. n \in Nat
  BY SMT
<1> QED  BY <1>1, <1>2, SeqDef

LEMMA ChainTypes ==
  ASSUME NEW chain \in {<<>>} \cup UNION {[1 .. n -> BOOLEAN] : n \in {1, 2, 8, 9, 10}}
  PROVE  chain \in Seq(BOOLEAN)
<1>1. CASE chain = <<>>
  BY <1>1
<1>2. CASE chain # <<>>
  <2>1. PICK n \in {1, 2, 8, 9, 10} : chain \in [1 .. n -> BOOLEAN]
    BY <1>2, Zenon
  <2>2. n \in Nat
    OBVIOUS
  <2> QED  BY <2>1, <2>2, SeqDef
<1> QED  BY <1>1, <1>2

LEMMA OffsetTypes == \A offset \in Offsets : offset \in Int /\ -86400 <= offset /\ offset <= 86400
BY SMT DEF Offsets

LEMMA DateTypes ==
  ASSUME LastYear \in Nat, LastYear <= 2261
  PROVE  Dates \subseteq Date
<1> SUFFICES ASSUME NEW date \in Dates PROVE date \in Date
  OBVIOUS
<1> DEFINE Clocks == {<<0, 0, 0>>, <<23, 58, 59>>}
<1>1. PICK d \in Days, clock \in Clocks :
        date = <<d[1], d[2], d[3], clock[1], clock[2], clock[3]>>
  BY SMT DEF Dates
<1>2. /\ d[1] \in Nat /\ d[2] \in Nat /\ d[3] \in Nat
      /\ 2000 <= d[1] /\ d[1] <= 2261 /\ 1 <= d[2] /\ d[2] <= 12 /\ 1 <= d[3] /\ d[3] <= 31
  <2>1. d[1] <= LastYear
    BY SMT DEF Days
  <2>2. \/ d = <<2000, 1, 1>> \/ d = <<2024, 2, 29>> \/ d = <<2049, 12, 31>>
        \/ d = <<2050, 1, 1>> \/ d = <<2261, 12, 31>> \/ d = <<9999, 12, 31>>
    BY SMT DEF Days
  <2> QED  BY <2>1, <2>2, SMT
<1>3. /\ clock[1] \in Nat /\ clock[2] \in Nat /\ clock[3] \in Nat
      /\ clock[1] <= 23 /\ clock[2] <= 59 /\ clock[3] <= 59
  <2>1. clock = <<0, 0, 0>> \/ clock = <<23, 58, 59>>
    BY SMT
  <2> QED  BY <2>1, SMT
<1> QED  BY <1>1, <1>2, <1>3, SMT DEF Date

LEMMA ClockTypes ==
  ASSUME Dates \subseteq Date
  PROVE  Clock \subseteq PointInTime
<1> SUFFICES ASSUME NEW now \in Clock PROVE now \in PointInTime
  OBVIOUS
<1>1. PICK d \in Dates, s \in {-1, 0, 1}, o \in Offsets : now = Later(Instant(d), s - o)
  BY SMT DEF Clock
<1>2. s \in Int /\ o \in Int /\ 0 \in Int
  BY OffsetTypes, SMT
<1>3. Instant(d) = Time(DayOf(d), Seconds(d))
  BY SMT DEF Instant, DayOf, Seconds
<1>4. DayOf(d) \in Int /\ Seconds(d) \in Int
  BY DayInRange, SMT
<1>5. Instant(d) \in PointInTime
  BY <1>2, <1>3, <1>4, BeforeIsLess
<1>6. Instant(d).day \in Int /\ Instant(d).second + (s - o) \in Int
  BY <1>2, <1>5, SMT DEF PointInTime
<1>7. now = Time(Instant(d).day, Instant(d).second + (s - o))
  BY <1>1, SMT DEF Later
<1> QED  BY <1>2, <1>6, <1>7, BeforeIsLess

(***************************************************************************)
(* A call's arguments stay, and it returns once.                           *)
(***************************************************************************)
LEMMA OneReturn ==
  ASSUME [Next]_vars
  PROVE  /\ call' = call
         /\ \/ returned' = returned
            \/ Send /\ call.function = "send"
            \/ Browser /\ call.function = "browser"
            \/ HostnameMatches /\ call.function = "hostnameMatches"
            \/ HostnameFromURL /\ call.function = "hostnameFromURL"
            \/ ConvertTime /\ call.function = "convertTime"
            \/ DateIsValid /\ call.function = "dateIsValid"
            \/ Handshake /\ call.function = "handshake"
BY Zenon DEF Next, vars, Call, Send, Browser, HostnameMatches, HostnameFromURL,
             ConvertTime, DateIsValid, Handshake

(***************************************************************************)
(* RoundTrip, of the messages that are sent (Message.cpp:3-42).            *)
(***************************************************************************)
THEOREM SentIsReceived == Spec => []ReceivedAsSent
<1> DEFINE Inv == call \in Calls /\ ReceivedAsSent
<1>1. Init => Inv
  BY Zenon DEF Init, ReceivedAsSent, Returned
<1>2. Inv /\ [Next]_vars => Inv'
  <2> SUFFICES ASSUME Inv, [Next]_vars PROVE ReceivedAsSent'
    BY OneReturn
  <2>1. CASE returned' = returned
    BY <2>1, OneReturn, Zenon DEF ReceivedAsSent, Returned
  <2>2. CASE Send /\ call.function = "send"
    <3>1. /\ call.type \in DOMAIN MessageType /\ call.reference \in UserReference
          /\ call.body \in Seq(Byte)
      BY <2>2, CallTypes, FrameTypes
    <3>2. returned'[1] = Received(Encode(call.type, call.reference, call.body))
      BY <2>2 DEF Send
    <3>3. returned'[1] = [large |-> TRUE, type |-> call.type,
                          userReference |-> call.reference, body |-> call.body]
      BY <3>1, <3>2, ReceivedIs
    <3> QED  BY <3>3, OneReturn, Zenon DEF ReceivedAsSent
  <2>3. CASE call.function # "send"
    BY <2>3, OneReturn, Zenon DEF ReceivedAsSent, Returned
  <2> QED  BY <2>1, <2>2, <2>3, OneReturn
<1> QED  BY <1>1, <1>2, PTL DEF Spec

(***************************************************************************)
(* BrowserUnderstood, of the texts that are sent                           *)
(* (Communique.js:37,67-71,91).                                            *)
(***************************************************************************)
THEOREM BrowserSpeaks == Spec => []BrowserIsUnderstood
<1> DEFINE Inv == call \in Calls /\ BrowserIsUnderstood
<1>1. Init => Inv
  BY Zenon DEF Init, BrowserIsUnderstood, Returned
<1>2. Inv /\ [Next]_vars => Inv'
  <2> SUFFICES ASSUME Inv, [Next]_vars PROVE BrowserIsUnderstood'
    BY OneReturn
  <2>1. CASE returned' = returned
    BY <2>1, OneReturn, Zenon DEF BrowserIsUnderstood, Returned
  <2>2. CASE Browser /\ call.function = "browser"
    <3>1. call.reference \in UserReference /\ call.text \in Seq(Code)
      BY <2>2, CallTypes, FrameTypes
    <3>2. returned'[1] = Exchange(call.reference, call.text)
      BY <2>2 DEF Browser
    <3> QED  BY <3>1, <3>2, OneReturn, BrowserUnderstood, Zenon DEF BrowserIsUnderstood
  <2>3. CASE call.function # "browser"
    BY <2>3, OneReturn, Zenon DEF BrowserIsUnderstood, Returned
  <2> QED  BY <2>1, <2>2, <2>3, OneReturn
<1> QED  BY <1>1, <1>2, PTL DEF Spec

(***************************************************************************)
(* HostnameExact, of URLs of every length (openSSLTools.h:100-107).        *)
(***************************************************************************)
THEOREM HostnameCorrect == Spec => []HostnameIsExact
<1> DEFINE Inv == call \in Calls /\ HostnameIsExact
<1>1. Init => Inv
  BY Zenon DEF Init, HostnameIsExact, Returned
<1>2. Inv /\ [Next]_vars => Inv'
  <2> SUFFICES ASSUME Inv, [Next]_vars PROVE HostnameIsExact'
    BY OneReturn
  <2>1. CASE returned' = returned
    BY <2>1, OneReturn, Zenon DEF HostnameIsExact, Returned
  <2>2. CASE HostnameFromURL /\ call.function = "hostnameFromURL"
    <3>1. call.URL \in Seq({"a", ".", ":", "/", "?"})
      BY <2>2, CallTypes, URLTypes
    <3>2. returned'[1] = hostnameFromURL(call.URL)
      BY <2>2 DEF HostnameFromURL
    <3> QED  BY <3>1, <3>2, OneReturn, HostnameExact, Zenon DEF HostnameIsExact
  <2>3. CASE call.function # "hostnameFromURL"
    BY <2>3, OneReturn, Zenon DEF HostnameIsExact, Returned
  <2> QED  BY <2>1, <2>2, <2>3, OneReturn
<1> QED  BY <1>1, <1>2, PTL DEF Spec

LEMMA DatesKept ==
  ASSUME Dates \subseteq Date
  PROVE  Spec => []ValidBetweenDates
<1> DEFINE Inv == call \in Calls /\ ValidBetweenDates
<1>1. Init => Inv
  BY Zenon DEF Init, ValidBetweenDates, Returned
<1>2. Inv /\ [Next]_vars => Inv'
  <2> SUFFICES ASSUME Inv, [Next]_vars PROVE ValidBetweenDates'
    BY OneReturn
  <2>1. CASE returned' = returned
    BY <2>1, OneReturn, Zenon DEF ValidBetweenDates, Returned
  <2>2. CASE DateIsValid /\ call.function = "dateIsValid"
    <3>1. /\ call.notBefore \in Dates /\ call.notAfter \in Dates /\ call.now \in Clock
          /\ call.offset \in Offsets
      BY <2>2, CallTypes, Zenon
    <3>2. /\ call.notBefore \in Date /\ call.notAfter \in Date /\ call.now \in PointInTime
          /\ call.offset \in Int /\ -86400 <= call.offset /\ call.offset <= 86400
      BY <3>1, ClockTypes, OffsetTypes, SMT
    <3>3. returned'[1] = dateIsValid(WithDates(call.notBefore, call.notAfter),
                                     call.now, call.offset)
      BY <2>2, SMT DEF DateIsValid
    <3>4. IsBetween(call.notBefore, call.notAfter, call.now, call.offset, returned'[1])
      BY <3>2, <3>3, DatesExact, SMT
    <3> QED  BY <3>4, OneReturn, Zenon DEF ValidBetweenDates, IsBetween
  <2>3. CASE call.function # "dateIsValid"
    BY <2>3, OneReturn, Zenon DEF ValidBetweenDates, Returned
  <2> QED  BY <2>1, <2>2, <2>3, OneReturn
<1> QED  BY <1>1, <1>2, PTL DEF Spec

(***************************************************************************)
(* DatesExact, of the certificates' dates, as long as they are in the      *)
(* years that the nanoseconds of the system_clock reach                    *)
(* (Certificate.cpp:110-117, openSSLTools.h:115-167).                      *)
(***************************************************************************)
THEOREM DatesCorrect ==
  ASSUME LastYear \in Nat, LastYear <= 2261
  PROVE  Spec => []ValidBetweenDates
BY DateTypes, DatesKept

LEMMA TimesKept ==
  ASSUME Dates \subseteq Date
  PROVE  Spec => []TimeWithinADay
<1> DEFINE Inv == call \in Calls /\ TimeWithinADay
<1>1. Init => Inv
  BY Zenon DEF Init, TimeWithinADay, Returned
<1>2. Inv /\ [Next]_vars => Inv'
  <2> SUFFICES ASSUME Inv, [Next]_vars PROVE TimeWithinADay'
    BY OneReturn
  <2>1. CASE returned' = returned
    BY <2>1, OneReturn, Zenon DEF TimeWithinADay, Returned
  <2>2. CASE ConvertTime /\ call.function = "convertTime"
    <3>1. call.date \in Dates /\ call.offset \in Offsets
      BY <2>2, CallTypes, Zenon
    <3>2. /\ call.date \in Date
          /\ call.offset \in Int /\ -86400 <= call.offset /\ call.offset <= 86400
      BY <3>1, OffsetTypes, SMT
    <3>3. returned'[1] = convertTime(ASN1Time(call.date), call.offset)
      BY <2>2, SMT DEF ConvertTime
    <3>4. WithinADay(call.date, returned'[1])
      BY <3>2, <3>3, TimeExact, SMT
    <3> QED  BY <3>4, OneReturn, Zenon DEF TimeWithinADay, WithinADay
  <2>3. CASE call.function # "convertTime"
    BY <2>3, OneReturn, Zenon DEF TimeWithinADay, Returned
  <2> QED  BY <2>1, <2>2, <2>3, OneReturn
<1> QED  BY <1>1, <1>2, PTL DEF Spec

(***************************************************************************)
(* What the comment on convertTime says holds as long as the dates are in  *)
(* the years that the nanoseconds of the system_clock reach; beyond them a *)
(* run shows that it does not (openSSLTools.h:62-64).                      *)
(***************************************************************************)
THEOREM TimesCorrect ==
  ASSUME LastYear \in Nat, LastYear <= 2261
  PROVE  Spec => []TimeWithinADay
BY DateTypes, TimesKept

(***************************************************************************)
(* ChainExact, of the chains that peers show (TLSHandler.cpp:31-92).       *)
(***************************************************************************)
THEOREM ChainsCorrect == Spec => []WholeChainVerified
<1> DEFINE Inv == call \in Calls /\ WholeChainVerified
<1>1. Init => Inv
  BY Zenon DEF Init, WholeChainVerified, Returned
<1>2. Inv /\ [Next]_vars => Inv'
  <2> SUFFICES ASSUME Inv, [Next]_vars PROVE WholeChainVerified'
    BY OneReturn
  <2>1. CASE returned' = returned
    BY <2>1, OneReturn, Zenon DEF WholeChainVerified, Returned
  <2>2. CASE Handshake /\ call.function = "handshake"
    <3>1. call.verifyFileName \in BOOLEAN /\ call.chain \in Seq(BOOLEAN)
      BY <2>2, CallTypes, ChainTypes
    <3>2. returned'[1] = Verify(on_tls_init(call.verifyFileName), call.chain)
      BY <2>2 DEF Handshake
    <3> QED  BY <3>1, <3>2, OneReturn, ChainExact, Zenon DEF WholeChainVerified
  <2>3. CASE call.function # "handshake"
    BY <2>3, OneReturn, Zenon DEF WholeChainVerified, Returned
  <2> QED  BY <2>1, <2>2, <2>3, OneReturn
<1> QED  BY <1>1, <1>2, PTL DEF Spec

(***************************************************************************)
(* The names that MCFunctions asks for and those of its certificates.      *)
(***************************************************************************)
LEMMA NameTypes ==
  ASSUME NameLength \in Nat
  PROVE  /\ \A h \in Names : h \in Seq(NameChar) /\ Len(h) <= NameLength
         /\ Short \subseteq Seq(NameChar)
<1>1. NameChar = {"a", ".", "*"}
  BY DEF NameChar
<1>2. ASSUME NEW n \in Nat, NEW h \in Strings(NameChar, n)
      PROVE  h \in Seq(NameChar) /\ Len(h) <= n
  <2>1. PICK k \in 0 .. n : h \in [1 .. k -> NameChar]
    BY Zenon DEF Strings
  <2>2. k \in Nat /\ k <= n
    OBVIOUS
  <2>3. h \in Seq(NameChar) /\ Len(h) = k
    BY <2>1, <2>2, SeqDef
  <2> QED  BY <2>2, <2>3
<1>3. Names = Strings(NameChar, NameLength) /\ Short = Strings(NameChar, 2)
  BY <1>1, Zenon DEF Names, Short
<1>4. 2 \in Nat
  OBVIOUS
<1> QED  BY <1>2, <1>3, <1>4, Zenon

LEMMA CertificateTypes ==
  ASSUME NameLength \in Nat, NEW certificate \in OneName \cup SeveralNames
  PROVE  \A n \in NamesOf(certificate) : n \in Seq(NameChar)
<1> DEFINE X == Seq(NameChar)
           Kind == {"CN", "O", "GEN_DNS", "GEN_IPADD"}
           Entry == [type : Kind, value : X]
<1>1. Names \subseteq X /\ Short \subseteq X
  BY NameTypes
<1>2. <<"a">> \in X /\ <<"*">> \in X /\ <<"a", "a">> \in X
  BY DEF NameChar
<1> HIDE DEF X
<1>3. ASSUME NEW kind \in Kind, NEW values, values \subseteq X
      PROVE  Named(kind, values) \subseteq Entry
  BY <1>3 DEF Named
<1>4. /\ Named("CN", Names) \subseteq Entry /\ Named("O", Short) \subseteq Entry
      /\ Named("CN", Short) \subseteq Entry /\ Named("O", {<<"a">>}) \subseteq Entry
      /\ Named("GEN_DNS", Short) \subseteq Entry /\ Named("GEN_IPADD", Short) \subseteq Entry
      /\ Named("GEN_DNS", {<<"*">>, <<"a", "a">>}) \subseteq Entry
      /\ [type |-> "CN", value |-> <<"a">>] \in Entry
  <2>1. {<<"a">>} \subseteq X /\ {<<"*">>, <<"a", "a">>} \subseteq X
    BY <1>2
  <2>2. "CN" \in Kind /\ "O" \in Kind /\ "GEN_DNS" \in Kind /\ "GEN_IPADD" \in Kind
    OBVIOUS
  <2>3. [type |-> "CN", value |-> <<"a">>] \in Entry
    BY <1>2, <2>2
  <2> HIDE DEF Entry, Kind
  <2> QED  BY <1>1, <1>3, <2>1, <2>2, <2>3, Zenon
<1> HIDE DEF Entry
<1>5. certificate.subject \in Seq(Entry) /\ certificate.alternateNames \in Seq(Entry)
  <2>1. CASE certificate \in OneName
    <3>1. /\ certificate.subject \in {<<n>> : n \in Named("CN", Names)}
          /\ certificate.alternateNames \in {<<>>}
      BY <2>1, SMT DEF OneName, Certificates
    <3>2. PICK n \in Named("CN", Names) : certificate.subject = <<n>>
      BY <3>1
    <3>3. n \in Entry
      BY <1>4
    <3>4. certificate.subject \in Seq(Entry)
      BY <3>2, <3>3
    <3>5. certificate.alternateNames = <<>> /\ <<>> \in Seq(Entry)
      BY <3>1
    <3> QED  BY <3>4, <3>5, Zenon
  <2>2. CASE certificate \in SeveralNames
    <3> DEFINE A == [type |-> "CN", value |-> <<"a">>]
    <3>1. /\ certificate.subject \in
               {<<n, A>> : n \in Named("O", Short)}
                 \cup {<<m, n>> : m \in Named("O", {<<"a">>}), n \in Named("CN", Short)}
          /\ certificate.alternateNames \in
               {<<m, n>> : m \in Named("GEN_DNS", Short) \cup Named("GEN_IPADD", Short),
                           n \in Named("GEN_DNS", {<<"*">>, <<"a", "a">>})}
      BY <2>2, SMT DEF SeveralNames, Certificates
    <3>2. A \in Entry
      BY <1>4
    <3> HIDE DEF A
    <3>3. \E m, n \in Entry : certificate.subject = <<m, n>>
      BY <1>4, <3>1, <3>2
    <3>4. \E m, n \in Entry : certificate.alternateNames = <<m, n>>
      BY <1>4, <3>1
    <3> QED  BY <3>3, <3>4
  <2> QED  BY <2>1, <2>2
<1>6. \A e \in Range(certificate.subject) \cup Range(certificate.alternateNames) : e \in Entry
  BY <1>5, ElementOfSeq, LenProperties DEF Range
<1>7. \A e \in Entry : e.value \in X
  BY DEF Entry
<1> QED  BY <1>6, <1>7, Zenon DEF NamesOf, X

(***************************************************************************)
(* A certificate's lists together are the names it may be known by.        *)
(***************************************************************************)
LEMMA MatchesIs ==
  ASSUME NEW certificate, NEW hostname
  PROVE  hostnameMatches(certificate, hostname) <=>
           \E n \in NamesOf(certificate) : hostname = n \/ MatchesByElement(hostname, n)
<1>1. NamesOf(certificate) = subjectRDN(certificate, "CN") \cup getAlternateNames(certificate)
  BY Zenon DEF NamesOf, subjectRDN, getAlternateNames, ValuesOf
<1> QED  BY <1>1, Zenon DEF hostnameMatches, checkHostname

(***************************************************************************)
(* WildcardExact, of the names of the certificates that are asked          *)
(* (Certificate.cpp:119-125, openSSLTools.h:81-98).                        *)
(***************************************************************************)
THEOREM WildcardCorrect ==
  ASSUME NameLength \in Nat
  PROVE  Spec => []WildcardIsOneLabel
<1> DEFINE Inv == call \in Calls /\ WildcardIsOneLabel
<1>1. Init => Inv
  BY Zenon DEF Init, WildcardIsOneLabel, Returned
<1>2. Inv /\ [Next]_vars => Inv'
  <2> SUFFICES ASSUME Inv, [Next]_vars PROVE WildcardIsOneLabel'
    BY OneReturn
  <2>1. CASE returned' = returned
    BY <2>1, OneReturn, Zenon DEF WildcardIsOneLabel, Returned
  <2>2. CASE HostnameMatches /\ call.function = "hostnameMatches"
    <3>1. call.hostname \in Names /\ call.certificate \in OneName \cup SeveralNames
      BY <2>2, CallTypes, Zenon
    <3>2. returned'[1] = hostnameMatches(call.certificate, call.hostname)
      BY <2>2, SMT DEF HostnameMatches
    <3>3. ASSUME EndAlike(call.certificate, call.hostname),
                 NEW n \in NamesOf(call.certificate)
          PROVE  call.hostname = n \/ MatchesByElement(call.hostname, n)
                   <=> n = call.hostname \/ Covers(n, call.hostname)
      <4>1. n \in Seq(NameChar)
        BY <3>1, CertificateTypes, Zenon
      <4>2. call.hostname \in Seq(NameChar) /\ Len(call.hostname) <= NameLength
        BY <3>1, NameTypes, Zenon
      <4>3. EndsInDot(n) <=> EndsInDot(call.hostname)
        BY <3>3, Zenon DEF EndAlike
      <4>4. Covers(Relative(n), Relative(call.hostname)) <=> Covers(n, call.hostname)
        BY <4>1, <4>2, <4>3, CoversDotted, Zenon
      <4> QED  BY <4>1, <4>2, <4>4, WildcardExact, Zenon
    <3>4. EndAlike(call.certificate, call.hostname) =>
            (returned'[1] <=> \E n \in NamesOf(call.certificate) :
                                n = call.hostname \/ Covers(n, call.hostname))
      BY <3>2, <3>3, MatchesIs, Zenon
    <3> QED  BY <3>4, OneReturn, Zenon DEF WildcardIsOneLabel
  <2>3. CASE call.function # "hostnameMatches"
    BY <2>3, OneReturn, Zenon DEF WildcardIsOneLabel, Returned
  <2> QED  BY <2>1, <2>2, <2>3, OneReturn
<1> QED  BY <1>1, <1>2, PTL DEF Spec
=============================================================================
