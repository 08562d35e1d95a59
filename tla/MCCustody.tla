----------------------------- MODULE MCCustody -----------------------------
(***************************************************************************)
(* Small instances of Custody.                                             *)
(***************************************************************************)
EXTENDS Custody

\* One coin that two withdrawals compete for; it leaves change.
OneDeposit == {[of |-> "d1", value |-> 2]}
=============================================================================
