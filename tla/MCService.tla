----------------------------- MODULE MCService -----------------------------
(***************************************************************************)
(* Small instance of Service: two requests at a time, so that one may hold *)
(* op while the other waits and the loop tries.                            *)
(***************************************************************************)
EXTENDS Service

TwoClients == {"c1", "c2"}
=============================================================================
