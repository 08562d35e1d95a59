---------------------------- MODULE ReaderChain ----------------------------
(***************************************************************************)
(* Chain, wallet index and pool as the readers that take no lock find      *)
(* them.  A chain is a sequence of blocks, a block a sequence of           *)
(* transactions.                                                           *)
(***************************************************************************)
EXTENDS Naturals, Sequences

CONSTANTS MaxHeight,   \* bound on the chain's length
          MaxDepth,    \* bound on the depth of a reorganization
          MaxBlock     \* bound on the transactions of one block

VARIABLES
  tip,      \* CM.Tip()
  scan,     \* WM.Tip()
  pool,     \* CM.V2PoolTransactions()
  pc, cs    \* where the reader is, and the tip it read first

chainVars == <<tip, scan, pool>>

\* A longer chain is selected.
Longer(depth, blocks) ==
  /\ depth <= Len(tip) /\ Len(tip) < MaxHeight
  /\ \E new \in [1..(depth + 1) -> blocks] : tip' = SubSeq(tip, 1, Len(tip) - depth) \o new
=============================================================================
