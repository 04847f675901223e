---------------------------- MODULE MCTwoClients ----------------------------
(***************************************************************************)
(* Client a sends r1, whose handler forwards it as r2 to client b, and the *)
(* server sends r3 to b.  There is one user reference at each end, so that *)
(* r2 and r3 may meet a full storage.  The handler that serves client a is *)
(* set and unset all the while.                                            *)
(***************************************************************************)
EXTENDS TwoClients, TLC

CONSTANTS r1, r2, r3

ForwardClient == r1 :> "a" @@ r2 :> "b" @@ r3 :> "b"
ForwardSender == r1 :> "client" @@ r2 :> "server" @@ r3 :> "server"
Forward == r1 :> {r2} @@ r2 :> {} @@ r3 :> {}
=============================================================================
