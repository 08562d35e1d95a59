--------------------------- MODULE CoinSelection ---------------------------
(***************************************************************************)
(* The coins buildCustodyTransfer may spend, as a specification: the most  *)
(* valuable outputs first, no more of them than are needed, never more     *)
(* than MaxInputs.  BuildTransfer is the loop that is meant to pick such a *)
(* set; Custody uses the set itself.                                       *)
(*                                                                         *)
(* A coin is a record with the name of what created it and its value at    *)
(* the height the transfer is built for (QdayValue(..., Height+2)).        *)
(***************************************************************************)
EXTENDS Integers, FiniteSets, FiniteSetsExt

CONSTANTS MaxInputs,   \* most inputs of one transfer (maxInputs, 128)
          Supply       \* no set of coins is worth more than this

ASSUME SelectionAssumption == /\ MaxInputs \in Nat \ {0}
                              /\ Supply \in Nat

\* What the inputs of a transfer are worth together.
Total(coins) == MapThenSumSet(LAMBDA c : c.value, coins)

\* Every coin left out is worth at most as much as every coin taken.
TakesDearest(coins, outputs) ==
  \A c \in coins, d \in outputs \ coins : d.value <= c.value

\* Without its cheapest coin the set would not reach the required value.
TakesNoMoreThanNeeded(coins, required) ==
  \A c \in coins : (\A d \in coins : c.value <= d.value)
                      => Total(coins \ {c}) < required

\* The transfers that pay `required` (amount plus fee) out of `outputs`: the
\* inputs, and the change that goes back to the wallet.  sort.Slice is not
\* stable, so equally valued outputs may be taken in any order.
Transfers(outputs, required) ==
  {t \in [ins : SUBSET outputs, change : 0..Supply] :
     /\ t.ins # {}
     /\ Cardinality(t.ins) <= MaxInputs
     /\ Total(t.ins) = required + t.change
     /\ TakesDearest(t.ins, outputs)
     /\ TakesNoMoreThanNeeded(t.ins, required)}
=============================================================================
