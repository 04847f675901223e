----------------------------- MODULE Certificate -----------------------------
(***************************************************************************)
(* What Certificate.cpp reads out of an X.509 certificate, and which       *)
(* certificates TLSHandler.cpp accepts.  A certificate is what OpenSSL     *)
(* hands over of it: the entries of its subject and its alternative names, *)
(* in order and with their types, and the text of its two dates.           *)
(***************************************************************************)
EXTENDS Hostname

\* A list of names is the set of them: whoever asks for it only looks for one that matches.
ValuesOf(entries, kind) ==
  {entry.value : entry \in {e \in Range(entries) : e.type = kind}}

\* rdns_[RDN], which init() filled with the entries of convertName().
subjectRDN(certificate, RDN) == ValuesOf(certificate.subject, RDN)

getAlternateNames(certificate) == ValuesOf(certificate.alternateNames, "GEN_DNS")

hostnameMatches(certificate, hostname) ==
  \/ checkHostname(hostname, subjectRDN(certificate, "CN"))
  \/ checkHostname(hostname, getAlternateNames(certificate))
-----------------------------------------------------------------------------
(***************************************************************************)
(* Dates.  A point in time is a day, counted from the first of 1970, and a *)
(* second of that day.                                                     *)
(***************************************************************************)
Time(day, second) == [day |-> day + second \div 86400, second |-> second % 86400]

Before(t, u) == t.day < u.day \/ (t.day = u.day /\ t.second < u.second)

DaysBeforeMonth(leap) ==
  << 0, 31, 59 + leap, 90 + leap, 120 + leap, 151 + leap, 181 + leap, 212 + leap,
     243 + leap, 273 + leap, 304 + leap, 334 + leap >>

Leap(year) == IF year % 4 = 0 /\ (year % 100 # 0 \/ year % 400 = 0) THEN 1 ELSE 0

\* The first of January, by the number of leap years before it.
NewYear(year) ==
  LET Leaps(y) == y \div 4 - y \div 100 + y \div 400
  IN  365 * (year - 1970) + Leaps(year - 1) - Leaps(1969)

\* mktime() takes a std::tm, which counts years from 1900 and months from 0, for local
\* time; offset is how far the local clock is ahead, in seconds.
mktime(tm, offset) ==
  LET year == 1900 + tm.year
  IN  Time(NewYear(year) + DaysBeforeMonth(Leap(year))[tm.mon + 1] + tm.mday - 1,
           3600 * tm.hour + 60 * tm.min + tm.sec - offset)

(***************************************************************************)
(* system_clock::from_time_t().  The system_clock of g++'s library counts  *)
(* nanoseconds in 64 bits, which wrap round after 213503 days and 84874    *)
(* seconds, to the second; time_t itself has room for every year.  Years   *)
(* go up to 9999.                                                          *)
(***************************************************************************)
Representable(day) == -106752 <= day /\ day <= 106751

from_time_t(t) ==
  CHOOSE w \in {Time(t.day - 213503 * n, t.second - 84874 * n) : n \in 0 .. 14} :
    Representable(w.day)

\* A plausible bug: two digits are taken for years since 1900, as in a std::tm.
Year_1900(text) == IF Len(text) = 6 THEN text[1] ELSE 100 * text[1] + text[2] - 1900

\* Two digits stand for 20xx.
Year(text) == IF Len(text) = 6 THEN text[1] + 100 ELSE 100 * text[1] + text[2] - 1900

(***************************************************************************)
(* An ASN1_TIME is given by the digits in front of its time zone, two by   *)
(* two: the year, with or without its century, and five more.  The zone is *)
(* not looked at.                                                          *)
(***************************************************************************)
Throws(text) == Len(text) \notin {6, 7}

convertTime(text, offset) ==
  LET rest == SubSeq(text, IF Len(text) = 6 THEN 2 ELSE 3, Len(text))
  IN  from_time_t(mktime([year |-> Year(text), mon |-> rest[1] - 1, mday |-> rest[2],
                          hour |-> rest[3], min |-> rest[4], sec |-> rest[5]], offset))

dateIsValid(certificate, now, offset) ==
  [threw |-> Throws(certificate.notBefore) \/ Throws(certificate.notAfter),
   valid |-> /\ Before(convertTime(certificate.notBefore, offset), now)
             /\ Before(now, convertTime(certificate.notAfter, offset))]
-----------------------------------------------------------------------------
(***************************************************************************)
(* The TLS handshake.  on_tls_init() sets the mode, and verify_certificate *)
(* is OpenSSL's callback for each certificate of the peer's chain, from    *)
(* the root down to the peer's own at depth 0, with OpenSSL's own verdict. *)
(***************************************************************************)
maxDepth == 8

\* A plausible bug: the depth is taken for the number of certificates.
verify_certificate_DepthAsCount(preverified, depth) == preverified /\ depth < maxDepth

verify_certificate(preverified, depth) == preverified /\ depth <= maxDepth

\* verifyFileName: whether there is one.
on_tls_init(verifyFileName) ==
  IF verifyFileName THEN {"verify_peer", "verify_fail_if_no_peer_cert"} ELSE {}

\* OpenSSL: chain[d + 1] is its verdict on the certificate at depth d, and the first
\* that the callback refuses ends the handshake.
Verify(mode, chain) ==
  LET From[n \in 0 .. Len(chain)] ==
        n > 0 => verify_certificate(chain[n], n - 1) /\ From[n - 1]
  IN  /\ "verify_peer" \in mode => From[Len(chain)]
      /\ "verify_fail_if_no_peer_cert" \in mode => chain # <<>>
=============================================================================
