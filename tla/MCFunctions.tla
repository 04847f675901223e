---------------------------- MODULE MCFunctions ----------------------------
(***************************************************************************)
(* Calls of the functions that compute something, on every argument out of *)
(* a set, held against definitions that say what is meant and not how it   *)
(* is computed.  TLC's integers end at 2^31 - 1; the theorems in           *)
(* Functions_proofs cover the other references, and longer arguments.      *)
(***************************************************************************)
EXTENDS Certificate, BrowserMessage

CONSTANTS NameLength,   \* the longest hostname, and the longest name of a certificate
          URLLength,    \* the longest URL
          LastYear      \* the last year of a certificate's dates

VARIABLES call,     \* the function and its arguments
          returned  \* what it has returned, in a sequence of length 1

vars == <<call, returned>>

References == {0, 1, 124, 255, 256, 257, 65535, 65536, 65537, 16777215, 16777216,
               16909060, 2147483647}

\* Empty, like a header, longer than one.
Bodies == {<<>>, <<0>>, <<2>>, <<255, 0>>, <<1, 0, 0, 0, 7>>, <<9, 8, 7, 6, 5, 4, 3>>}

\* Characters on both sides of what a byte, and each length of UTF-8, can hold.
Texts == UNION {[1 .. n -> {0, 65, 127, 128, 255, 256, 2047, 2048, 8364}] : n \in 0 .. 3}

Names == Strings({"a", ".", "*"}, NameLength)
Short == Strings({"a", ".", "*"}, 2)
URLs == Strings({"a", ".", ":", "/", "?"}, URLLength)

Certificates(subjects, alternateNames) ==
  [subject : subjects, alternateNames : alternateNames]

Named(kind, values) == [type : {kind}, value : values]

OneName == Certificates({<<n>> : n \in Named("CN", Names)}, {<<>>})

SeveralNames ==
  Certificates({<<n, [type |-> "CN", value |-> <<"a">>]>> : n \in Named("O", Short)}
                 \cup {<<m, n>> : m \in Named("O", {<<"a">>}), n \in Named("CN", Short)},
               {<<m, n>> : m \in Named("GEN_DNS", Short) \cup Named("GEN_IPADD", Short),
                           n \in Named("GEN_DNS", {<<"*">>, <<"a", "a">>})})

\* The first and the last of the years that a two-digit year stands for, a leap day, the
\* last whole year of a system_clock, and the date that X.509 has for "never".
Days == {d \in {<<2000, 1, 1>>, <<2024, 2, 29>>, <<2049, 12, 31>>, <<2050, 1, 1>>,
                <<2261, 12, 31>>, <<9999, 12, 31>>} : d[1] <= LastYear}
Dates == {<<d[1], d[2], d[3], clock[1], clock[2], clock[3]>> :
            d \in Days, clock \in {<<0, 0, 0>>, <<23, 58, 59>>}}

Instant(date) ==
  Time(NewYear(date[1]) + DaysBeforeMonth(Leap(date[1]))[date[2]] + date[3] - 1,
       3600 * date[4] + 60 * date[5] + date[6])

\* X.509 writes years up to 2049 with two digits, in the time zone Z.
ASN1Time(date) ==
  IF date[1] < 2050
    THEN << date[1] % 100, date[2], date[3], date[4], date[5], date[6] >>
    ELSE << date[1] \div 100, date[1] % 100,
            date[2], date[3], date[4], date[5], date[6] >>

WithDates(notBefore, notAfter) ==
  [notBefore |-> ASN1Time(notBefore), notAfter |-> ASN1Time(notAfter)]

Later(t, seconds) == Time(t.day, t.second + seconds)
DayLength == 86400

Offsets == {3600 * hours : hours \in {-12, 0, 14}}

\* A second before, at and after each date, as any of the local clocks has it.
Clock == {Later(Instant(d), s - o) : d \in Dates, s \in {-1, 0, 1}, o \in Offsets}

Call(function) == returned = <<>> /\ call.function = function /\ UNCHANGED call

Calls ==
  [function : {"send"}, type : DOMAIN MessageType, reference : References, body : Bodies]
    \cup [function : {"browser"}, reference : References, text : Texts]
    \cup [function : {"hostnameMatches"}, hostname : Names,
          certificate : OneName \cup SeveralNames]
    \cup [function : {"hostnameFromURL"}, URL : URLs]
    \cup [function : {"convertTime"}, date : Dates, offset : Offsets]
    \cup [function : {"dateIsValid"}, notBefore : Dates, notAfter : Dates,
          now : Clock, offset : Offsets]
    \cup [function : {"handshake"}, verifyFileName : BOOLEAN,
          chain : {<<>>} \cup UNION {[1 .. n -> BOOLEAN] : n \in {1, 2, 8, 9, 10}}]

Init == call \in Calls /\ returned = <<>>

Received(payload) ==
  [large |-> LargeEnough(payload), type |-> type(payload),
   userReference |-> userReference(payload), body |-> messageBody(payload)]

Send ==
  /\ Call("send")
  /\ returned' = <<Received(Encode(call.type, call.reference, call.body))>>

\* The browser sends a request and an info with the same text; the other end's handler
\* replies with what it was given.
Exchange(reference, text) ==
  LET request == Received(sendRequest(reference, text))
  IN  [request |-> request, info |-> Received(sendInfo(text)),
       reply |-> handleMessage(Encode("RESPONSE", request.userReference, request.body))]

Browser ==
  /\ Call("browser")
  /\ returned' = <<Exchange(call.reference, call.text)>>

HostnameMatches ==
  /\ Call("hostnameMatches")
  /\ returned' = <<hostnameMatches(call.certificate, call.hostname)>>

HostnameFromURL ==
  /\ Call("hostnameFromURL")
  /\ returned' = <<hostnameFromURL(call.URL)>>

ConvertTime ==
  /\ Call("convertTime")
  /\ returned' = <<convertTime(ASN1Time(call.date), call.offset)>>

DateIsValid ==
  /\ Call("dateIsValid")
  /\ returned' = <<dateIsValid(WithDates(call.notBefore, call.notAfter),
                               call.now, call.offset)>>

Handshake ==
  /\ Call("handshake")
  /\ returned' = <<Verify(on_tls_init(call.verifyFileName), call.chain)>>

Next ==
  \/ Send \/ Browser \/ HostnameMatches \/ HostnameFromURL
  \/ ConvertTime \/ DateIsValid \/ Handshake

Spec == Init /\ [][Next]_vars

Returned(function) == returned # <<>> /\ call.function = function
-----------------------------------------------------------------------------
(***************************************************************************)
(* What on_message reads out of a payload is what the Message constructor  *)
(* of the other end put in, and the receiver never refuses it as too short *)
(* (Message.cpp:3-42).                                                     *)
(***************************************************************************)
ReceivedAsSent ==
  Returned("send") =>
    returned[1] = [large |-> TRUE, type |-> call.type, userReference |-> call.reference,
                   body |-> call.body]

(***************************************************************************)
(* Whatever text a browser sends, the other end reads the type and the     *)
(* reference it was sent with; the reply goes to that reference.  The text *)
(* arrives, and comes back, as it is if each of its characters fits a      *)
(* byte; that of an info only if it is ASCII, since the others take two    *)
(* bytes or more there (Communique.js:37,67-71,91).                        *)
(***************************************************************************)
Within(text, limit) == \A i \in DOMAIN text : text[i] < limit

Understood(reference, text, r) ==
  /\ r.request.large /\ r.info.large
  /\ r.request.type = "REQUEST" /\ r.info.type = "INFO"
  /\ r.request.userReference = reference
  /\ r.reply.type = MessageType.RESPONSE
  /\ r.reply.userReference = reference
  /\ (r.request.body = text) <=> Within(text, 256)
  /\ (r.reply.message = text) <=> Within(text, 256)
  /\ (r.info.body = text) <=> Within(text, 128)

BrowserIsUnderstood ==
  Returned("browser") => Understood(call.reference, call.text, returned[1])

(***************************************************************************)
(* What a list entry stands for: an entry with asterisks for whole labels  *)
(* covers a name that comes from it by putting some text without dots for  *)
(* each asterisk.  Stated by cutting the entry into the text between       *)
(* asterisks, with no use of the labels of the name.                       *)
(***************************************************************************)
Stars(entry) ==
  {i \in DOMAIN entry : /\ entry[i] = "*"
                        /\ i = 1 \/ entry[i - 1] = "."
                        /\ i = Len(entry) \/ entry[i + 1] = "."}

Labels == Strings({"a", "*"}, NameLength)

Substitute(entry, texts) ==
  FlattenSeq([i \in DOMAIN entry |->
                IF i \in DOMAIN texts THEN texts[i] ELSE <<entry[i]>>])

Covers(entry, name) ==
  \E texts \in [Stars(entry) -> {t \in Labels : Len(t) <= Len(name)}] :
    Substitute(entry, texts) = name

NamesOf(certificate) ==
  {n.value : n \in {m \in Range(certificate.subject) : m.type = "CN"}
                     \cup {m \in Range(certificate.alternateNames) : m.type = "GEN_DNS"}}

EndsInDot(s) == s # <<>> /\ Last(s) = "."

\* The names and the hostname all end in a dot, or none of them does.
EndAlike(certificate, hostname) ==
  \A n \in NamesOf(certificate) : EndsInDot(n) <=> EndsInDot(hostname)

(***************************************************************************)
(* A certificate matches a hostname if one of its common names or one of   *)
(* its alternative names for DNS is the hostname or covers it, an asterisk *)
(* standing for one label, as the standard has it (openSSLTools.h:81-98).  *)
(* Names of other kinds do not count.  Only where some of these strings    *)
(* end in a dot and others do not is the result another, see               *)
(* SameNumberOfDots.                                                       *)
(***************************************************************************)
WildcardIsOneLabel ==
  Returned("hostnameMatches") /\ EndAlike(call.certificate, call.hostname) =>
    (returned[1] <=> \E n \in NamesOf(call.certificate) :
                       n = call.hostname \/ Covers(n, call.hostname))

(***************************************************************************)
(* openSSLTools.cpp:120 says of a hostname and the name that allows it:    *)
(* "Must be same number of dots".  The code compares the numbers of labels *)
(* instead, and splitByDelimiters (openSSLTools.cpp:26-46) gives none for  *)
(* a dot at the very end, so that "a" allows "a.", and "a." allows "a".    *)
(***************************************************************************)
NumberOfDots(s) == Cardinality({i \in DOMAIN s : s[i] = "."})

SameNumberOfDots ==
  Returned("hostnameMatches") /\ returned[1] =>
    \E n \in NamesOf(call.certificate) : NumberOfDots(n) = NumberOfDots(call.hostname)

(***************************************************************************)
(* A URL is protocol "://" hostname, with the first part optional, and     *)
(* then nothing, a port or a path (openSSLTools.h:100-107).  The hostname  *)
(* that is returned is all of it and nothing else, and the call throws     *)
(* just when another character follows it.                                 *)
(***************************************************************************)
Separators(URL) ==
  {i \in 1 .. Len(URL) - 2 : /\ URL[i] = ":" /\ URL[i + 1] = "/" /\ URL[i + 2] = "/"
                             /\ \A j \in 1 .. i - 1 : isProtocol(URL[j])}

HostnameStart(URL) ==
  IF Separators(URL) = {} THEN 1 ELSE (CHOOSE i \in Separators(URL) : TRUE) + 3

\* All characters from the start to just before position end are a hostname's.
IsHost(URL, end) ==
  /\ end \in HostnameStart(URL) .. Len(URL) + 1
  /\ \A j \in HostnameStart(URL) .. end - 1 : isHostname(URL[j])

ExactHostname(URL, result) ==
  \E end \in 1 .. Len(URL) + 1 :
    /\ IsHost(URL, end)
    /\ IF result.threw
         THEN /\ end <= Len(URL)
              /\ ~ isHostname(URL[end]) /\ URL[end] \notin {":", "/"}
         ELSE /\ result.hostname = SubSeq(URL, HostnameStart(URL), end - 1)
              /\ end = Len(URL) + 1 \/ URL[end] \in {":", "/"}

HostnameIsExact ==
  Returned("hostnameFromURL") => ExactHostname(call.URL, returned[1])
-----------------------------------------------------------------------------
(***************************************************************************)
(* openSSLTools.h:62-64 says of convertTime that, as time zones are hardly *)
(* looked at, "the result could be out by as much as 24 hours".            *)
(***************************************************************************)
TimeWithinADay ==
  Returned("convertTime") =>
    /\ ~Before(Later(Instant(call.date), DayLength), returned[1])
    /\ ~Before(returned[1], Later(Instant(call.date), -DayLength))

(***************************************************************************)
(* A certificate is valid just while the local clock is strictly between   *)
(* its two dates as they are written, from the year 2000 to the last year  *)
(* of the system_clock: so it becomes valid, and expires, early or late by *)
(* the local time zone, and by no more (Certificate.cpp:110-117,           *)
(* openSSLTools.h:115-167).                                                *)
(***************************************************************************)
IsBetween(notBefore, notAfter, now, offset, result) ==
  LET local == Later(now, offset)
  IN  /\ ~result.threw
      /\ result.valid <=> Before(Instant(notBefore), local) /\ Before(local, Instant(notAfter))

ValidBetweenDates ==
  Returned("dateIsValid") =>
    IsBetween(call.notBefore, call.notAfter, call.now, call.offset, returned[1])

(***************************************************************************)
(* With a file to verify against, a peer is accepted only if it shows a    *)
(* chain, of nine certificates at most, in which OpenSSL finds no error at *)
(* any depth (TLSHandler.cpp:31-92).  Without a file, any peer is.         *)
(***************************************************************************)
WholeChainVerified ==
  Returned("handshake") =>
    (returned[1] <=> (call.verifyFileName =>
                        /\ Len(call.chain) \in 1 .. 9
                        /\ \A d \in DOMAIN call.chain : call.chain[d]))
=============================================================================
