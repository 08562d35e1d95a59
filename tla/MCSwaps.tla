------------------------------ MODULE MCSwaps ------------------------------
(***************************************************************************)
(* Small instance of Swaps: one coin, of the daemon or of the counterparty.*)
(***************************************************************************)
EXTENDS Swaps

OneCoin == {[of |-> [deposit |-> 1], value |-> 1]}
=============================================================================
