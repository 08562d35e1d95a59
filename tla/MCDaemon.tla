------------------------------ MODULE MCDaemon ------------------------------
(***************************************************************************)
(* Small instance of Daemon: two clients that repeat a request with the    *)
(* same identifier, for the same or for different parameters, and one      *)
(* other command at a time.                                                *)
(***************************************************************************)
EXTENDS Daemon

TwoClients == {"c1", "c2"}
TwoProcesses == {"main", "tool"}
=============================================================================
