---------------------------- MODULE MCAddresses ----------------------------
(***************************************************************************)
(* Small instance of Addresses.                                            *)
(***************************************************************************)
EXTENDS Addresses, TLC

ReferenceSymmetry == Permutations(References)
=============================================================================
