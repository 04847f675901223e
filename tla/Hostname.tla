------------------------------ MODULE Hostname ------------------------------
(***************************************************************************)
(* The algorithms on host names: splitByDelimiters, checkHostname and      *)
(* hostnameFromURL (openSSLTools.cpp).                                     *)
(*                                                                         *)
(* A string is a sequence of characters.  Only the classes of characters   *)
(* that the code tells apart matter: "a" and "b" stand for those that a    *)
(* protocol and a hostname may have, "." for those that only a hostname    *)
(* may have, "?" for those that neither may have.  Positions start at 1.   *)
(***************************************************************************)
EXTENDS Naturals, Sequences, SequencesExt

Char == {"a", "b", ".", "*", ":", "/", "?"}

Strings(chars, n) == UNION {[1 .. k -> chars] : k \in 0 .. n}

\* std::string::find_first_of with the delimiter ".", Len(s) + 1 for npos
find_first_of(s, from) ==
  CHOOSE p \in from .. Len(s) + 1 :
    /\ p <= Len(s) => s[p] = "."
    /\ \A q \in from .. p - 1 : s[q] # "."

\* Nothing follows a delimiter at the very end.
splitByDelimiters(s) ==
  LET elements[from \in 1 .. Len(s) + 1] ==
        LET next == find_first_of(s, from)
            element == SubSeq(s, from, next - 1)
        IN  IF next < Len(s) THEN <<element>> \o elements[next + 1] ELSE <<element>>
  IN  elements[1]

\* A plausible bug: the shorter of the two ends the comparison.
MatchesByElement_NoSizeCheck(hostname, allowedHost) ==
  LET iHost == splitByDelimiters(hostname)
      iAllowed == splitByDelimiters(allowedHost)
  IN  \A i \in DOMAIN iHost \cap DOMAIN iAllowed :
        iAllowed[i] = <<"*">> \/ iAllowed[i] = iHost[i]

MatchesByElement(hostname, allowedHost) ==
  LET iHost == splitByDelimiters(hostname)
      iAllowed == splitByDelimiters(allowedHost)
  IN  /\ Len(iHost) = Len(iAllowed)
      /\ \A i \in DOMAIN iHost : iAllowed[i] = <<"*">> \/ iAllowed[i] = iHost[i]

checkHostname(hostname, allowedList) ==
  \E allowedHost \in allowedList :
    hostname = allowedHost \/ MatchesByElement(hostname, allowedHost)
-----------------------------------------------------------------------------
isProtocol(char) == char \in {"a", "b"}
isHostname(char) == isProtocol(char) \/ char = "."

Hostname(h) == [threw |-> FALSE, hostname |-> h]
Threw == [threw |-> TRUE, hostname |-> <<>>]

\* alreadyParsedProtocol, with the hostname from position start on
HostnameFrom(URL, start, position) ==
  LET loop[i \in position .. Len(URL) + 1] ==
        IF i > Len(URL) \/ URL[i] \in {":", "/"} THEN Hostname(SubSeq(URL, start, i - 1))
        ELSE IF isHostname(URL[i]) THEN loop[i + 1]
        ELSE Threw
  IN  loop[position]

\* A plausible bug: what is parsed so far is not cleared at the separator.
AfterColon_NotCleared(URL, i) ==
  IF Len(URL) - i + 1 >= 3 /\ URL[i + 1] = "/" /\ URL[i + 2] = "/"
    THEN HostnameFrom(URL, 1, i + 3)
    ELSE Hostname(SubSeq(URL, 1, i - 1))

\* "://" ends a protocol, and any other ":" the hostname.
AfterColon(URL, i) ==
  IF Len(URL) - i + 1 >= 3 /\ URL[i + 1] = "/" /\ URL[i + 2] = "/"
    THEN HostnameFrom(URL, i + 3, i + 3)
    ELSE Hostname(SubSeq(URL, 1, i - 1))

hostnameFromURL(URL) ==
  LET loop[i \in 1 .. Len(URL) + 1] ==
        IF i > Len(URL) \/ URL[i] = "/" THEN Hostname(SubSeq(URL, 1, i - 1))
        ELSE IF isProtocol(URL[i]) THEN loop[i + 1]
        ELSE IF isHostname(URL[i]) THEN HostnameFrom(URL, 1, i + 1)
        ELSE IF URL[i] = ":" THEN AfterColon(URL, i)
        ELSE Threw
  IN  loop[1]
=============================================================================
