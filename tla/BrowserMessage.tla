--------------------------- MODULE BrowserMessage ---------------------------
(***************************************************************************)
(* How the browser's client (Communique.js) writes and reads the header    *)
(* and the text of a message, which at the other end is module Message's   *)
(* business.  A text is a sequence of character codes.                     *)
(***************************************************************************)
EXTENDS Message, SequencesExt

\* DataView.setUint8 keeps one byte of what it is given.
setUint8(value) == value % 256

\* A plausible bug: the bytes are in the order of an x86, as those of a Uint32Array.
setUint32_HostOrder(value) == Reverse(htonl(value))

\* DataView.setUint32 and getUint32 are big-endian, as htonl and ntohl are.
setUint32(value) == htonl(value)
getUint32(b) == ntohl(b)

\* The frame that sendRequest sends: an ArrayBuffer of text.length + 5 bytes.
sendRequest(reference, text) ==
  <<MessageType.REQUEST>> \o setUint32(reference)
                          \o [i \in DOMAIN text |-> setUint8(text[i])]

\* A browser sends a string as UTF-8.
UTF8(code) ==
  IF code < 128 THEN <<code>>
  ELSE IF code < 2048 THEN << 192 + code \div 64, 128 + (code % 64) >>
  ELSE << 224 + code \div 4096, 128 + ((code \div 64) % 64), 128 + (code % 64) >>

\* The frame that sendInfo sends: a string of INFO_STRING, nullUserReference and the text.
sendInfo(text) ==
  LET string == <<MessageType.INFO, 0, 0, 0, 0>> \o text
  IN  FlattenSeq([i \in DOMAIN string |-> UTF8(string[i])])

\* What handleMessage reads out of a frame; String.fromCharCode takes each byte for a
\* character.
handleMessage(payload) ==
  [type |-> payload[1], userReference |-> getUint32(SubSeq(payload, 2, 5)),
   message |-> SubSeq(payload, 6, Len(payload))]
=============================================================================
