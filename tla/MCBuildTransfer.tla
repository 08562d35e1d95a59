-------------------------- MODULE MCBuildTransfer --------------------------
(***************************************************************************)
(* Small instance of BuildTransfer: a worthless coin, equal coins, and an  *)
(* input limit below the number of coins.                                  *)
(***************************************************************************)
EXTENDS BuildTransfer

FiveCoins == {[of |-> "a", value |-> 0], [of |-> "b", value |-> 1], [of |-> "c", value |-> 1],
              [of |-> "d", value |-> 2], [of |-> "e", value |-> 4]}
=============================================================================
