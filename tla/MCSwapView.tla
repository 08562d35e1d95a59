----------------------------- MODULE MCSwapView -----------------------------
(***************************************************************************)
(* Small instance of SwapView: one output that can be claimed, refunded or *)
(* spent in a way the daemon does not recognize, and one that is only      *)
(* funded and claimed.                                                     *)
(***************************************************************************)
EXTENDS SwapView

TwoOutputs == {[kind |-> k, out |-> "a"] : k \in Kinds}
                \cup {[kind |-> k, out |-> "b"] : k \in {"fund", "claim"}}
=============================================================================
