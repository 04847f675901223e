------------------------------- MODULE Message -------------------------------
(***************************************************************************)
(* The Communique header (Message.cpp): one byte of message type, four of  *)
(* user reference in network order, then the body.  A payload is a         *)
(* sequence of bytes.                                                      *)
(***************************************************************************)
EXTENDS Integers, Sequences

Byte == 0 .. 255

\* enum MessageType, numbered in the order it is declared in.
MessageType == [REQUEST |-> 0, RESPONSE |-> 1, INFO |-> 2, REQUESTERROR |-> 3]

HeaderSize == 5    \* sizeof(char) + sizeof(UserReference)

\* A plausible bug: the reference is written in the byte order of an x86.
htonl_HostOrder(ref) ==
  << ref % 256, (ref \div 256) % 256, (ref \div 65536) % 256, ref \div 16777216 >>

\* The four bytes of htonl(ref), in the order they have in memory.
htonl(ref) ==
  << ref \div 16777216, (ref \div 65536) % 256, (ref \div 256) % 256, ref % 256 >>

\* ntohl of the four bytes b.
ntohl(b) == ((b[1] * 256 + b[2]) * 256 + b[3]) * 256 + b[4]

\* The constructor that builds a message from its parts.
Encode(type, ref, body) == <<MessageType[type]>> \o htonl(ref) \o body

\* The constructor that takes a received message throws unless this holds.
LargeEnough(payload) == Len(payload) >= HeaderSize

\* static_cast<MessageType>: the enumerator with the number of the first byte.
type(payload) == CHOOSE m \in DOMAIN MessageType : MessageType[m] = payload[1]

userReference(payload) == ntohl(SubSeq(payload, 2, 5))

messageBody(payload) == SubSeq(payload, 6, Len(payload))
-----------------------------------------------------------------------------
(***************************************************************************)
(* A message that is sent and received is the message it was: its type,    *)
(* its reference and its body come back, whatever bytes the body has.      *)
(***************************************************************************)
SurvivesTheWire(t, ref, body) ==
  LET payload == Encode(t, ref, body)
  IN  /\ LargeEnough(payload)
      /\ type(payload) = t
      /\ userReference(payload) = ref
      /\ messageBody(payload) = body
=============================================================================
