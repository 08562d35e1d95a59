--------------------------- MODULE MCUpdateProofs ---------------------------
(***************************************************************************)
(* Small instance of UpdateProofs.                                         *)
(***************************************************************************)
EXTENDS UpdateProofs

OneDeposit == {[of |-> "d", value |-> 1]}
ParentTx == [req |-> "p", ins |-> OneDeposit, change |-> 1]
ChildTx  == [req |-> "c", ins |-> {[of |-> "p", value |-> 1]}, change |-> 0]
=============================================================================
