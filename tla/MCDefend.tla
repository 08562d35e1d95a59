------------------------------ MODULE MCDefend ------------------------------
(***************************************************************************)
(* A small instance of Defend: three outputs that expire together, two of  *)
(* which fit in one transaction.                                           *)
(***************************************************************************)
EXTENDS Defend

ThreeOutputs == [a |-> 4, b |-> 4, c |-> 2]
=============================================================================
