---------------------------- MODULE BuildTransfer ----------------------------
(***************************************************************************)
(* spendableOutputs and the loop of buildCustodyTransfer that picks coins, *)
(* one input at a time, for every wallet of up to a few coins and every    *)
(* required value.  CoinSelection says what the loop is meant to pick.     *)
(***************************************************************************)
EXTENDS CoinSelection, SequencesExt

CONSTANTS Wallet,     \* the coins a wallet may hold
          Required    \* the values of amount plus fee

\* A coin has a value, all coins together are no more than Supply, and amount
\* and fee come out of parsePositiveCurrency.
ASSUME WalletAssumption ==
  /\ IsFiniteSet(Wallet)
  /\ \A c \in Wallet : c.value \in Nat
  /\ Total(Wallet) <= Supply
  /\ Required \subseteq Nat \ {0}

VARIABLES
  unspent,    \* WM.UnspentSiacoinOutputs
  poolSpent,  \* inputs of V2PoolTransactions
  required,   \* value + fee
  outputs,    \* the sorted outputs the loop still has to look at
  inputs,     \* txn.SiacoinInputs
  total,      \* what they are worth
  pc          \* "read", "pick", "enough", "short"

vars == <<unspent, poolSpent, required, outputs, inputs, total, pc>>

\* The outputs a transfer may spend.
SpendableOutputs == {c \in unspent \ poolSpent : c.value # 0}

Init ==
  /\ unspent \in SUBSET Wallet
  /\ poolSpent \in SUBSET Wallet
  /\ required \in Required
  /\ outputs = <<>> /\ inputs = {} /\ total = 0
  /\ pc = "read"

\* sort.Slice, dearest first; it is not stable.
Descending(s) == IsSorted(s, LAMBDA c, d : c.value >= d.value)

\* Faulty variant: the outputs are taken in the order of the index.
ReadUnsorted ==
  /\ pc = "read"
  /\ outputs' \in SetToSeqs(SpendableOutputs)
  /\ pc' = "pick"
  /\ UNCHANGED <<unspent, poolSpent, required, inputs, total>>

ReadOutputs ==
  /\ pc = "read"
  /\ outputs' \in {s \in SetToSeqs(SpendableOutputs) : Descending(s)}
  /\ pc' = "pick"
  /\ UNCHANGED <<unspent, poolSpent, required, inputs, total>>

\* Faulty variant: the loop goes on when the value is exactly reached.
GoesOnPastExact(newTotal, count) ==
  newTotal > required \/ count = MaxInputs

\* The loop stops at the required value or at the input limit.
StopsAt(newTotal, count) ==
  newTotal >= required \/ count = MaxInputs

\* One turn of the loop: the next output becomes an input.
Pick ==
  /\ pc = "pick" /\ outputs # <<>>
  /\ inputs' = inputs \cup {Head(outputs)}
  /\ total' = total + Head(outputs).value
  /\ outputs' = IF StopsAt(total', Cardinality(inputs')) THEN <<>> ELSE Tail(outputs)
  /\ UNCHANGED <<unspent, poolSpent, required, pc>>

\* After the loop: the inputs suffice and the change is what is left over, or
\* the call ends with "insufficient confirmed spendable balance".
Decide ==
  /\ pc = "pick" /\ outputs = <<>>
  /\ pc' = IF total < required THEN "short" ELSE "enough"
  /\ UNCHANGED <<unspent, poolSpent, required, outputs, inputs, total>>

Next == ReadOutputs \/ Pick \/ Decide

Spec == Init /\ [][Next]_vars
-----------------------------------------------------------------------------
\* What the loop picks is a transfer in the sense of CoinSelection, which
\* Custody builds on: dearest coins, none of them superfluous, the change
\* exact, no coin of the pool.
PicksTransfer ==
  pc = "enough" =>
    /\ [ins |-> inputs, change |-> total - required] \in Transfers(SpendableOutputs, required)
    /\ inputs \cap poolSpent = {}

\* "insufficient ... within the 128-input limit" is only said when no choice of
\* that many coins would do.
ShortIsReal ==
  pc = "short" =>
    \A coins \in SUBSET SpendableOutputs :
      Cardinality(coins) <= MaxInputs => Total(coins) < required
=============================================================================
