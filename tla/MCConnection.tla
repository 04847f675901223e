---------------------------- MODULE MCConnection ----------------------------
(***************************************************************************)
(* The server sends three requests, for which there are two references.    *)
(* The client sends an info, and a request back from its handler of the    *)
(* third, which cross them; the server's request handler is set and        *)
(* emptied.  The error reply needs no more than two requests, which the    *)
(* client's handler serves.                                                *)
(***************************************************************************)
EXTENDS ConnectionInvariant

CONSTANTS r1, r2, r3, r4, i1

CrossingSender ==
  [x \in Request \cup Info |-> IF x \in {r4, i1} THEN "client" ELSE "server"]

R3SendsR4 == [r \in Request |-> IF r = r3 THEN {r4} ELSE {}]

RequestAtServer == {<<"request", "server">>}
RequestAtClient == {<<"request", "client">>}
=============================================================================
