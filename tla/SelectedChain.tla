--------------------------- MODULE SelectedChain ---------------------------
(***************************************************************************)
(* The chain manager and the transaction pool as the daemon sees them.     *)
(* Neither is part of this repository (go.sia.tech/coreutils); they are    *)
(* modelled from the calls internal/daemon makes: Tip, BestIndex, Block,   *)
(* UpdateV2TransactionSet, AddV2PoolTransactions and V2PoolTransactions.   *)
(*                                                                         *)
(* A chain index is written as the chain it ends: <<>> is genesis, the     *)
(* height of an index is its length, and an index is on the selected chain *)
(* exactly when it is a prefix of the tip.                                 *)
(***************************************************************************)
EXTENDS Naturals, Sequences

CONSTANTS Deposits     \* the wallet's matured coins, present from genesis

\* NULL in the confirmed_height and confirmed_block_id columns.  Genesis
\* holds no transaction of the wallet, so its index is free to stand for it.
Null == <<>>

Height(index) == Len(index)

OnBest(index, tip) ==
  /\ Len(index) <= Len(tip)
  /\ \A h \in 1..Len(index) : index[h] = tip[h]

\* The transactions of the wallet in a chain, and in its blocks after `h`.
TxsAbove(chain, h) == UNION {chain[i].txs : i \in (h + 1)..Len(chain)}

TxsOf(chain) == TxsAbove(chain, 0)

\* The indices of the blocks of a chain that hold a transaction.
Confirming(tx, chain) ==
  {SubSeq(chain, 1, h) : h \in {i \in 1..Len(chain) : tx \in chain[i].txs}}

\* The height at which two chains part.
CommonHeight(a, b) ==
  CHOOSE h \in 0..Len(a) :
    /\ OnBest(SubSeq(a, 1, h), b)
    /\ h = Len(a) \/ ~OnBest(SubSeq(a, 1, h + 1), b)

\* A transfer that leaves change creates one coin of the wallet.
Created(tx) == IF tx.change = 0 THEN {} ELSE {[of |-> tx.req, value |-> tx.change]}

CoinsOf(txs) == UNION {Created(tx) : tx \in txs}

SpentBy(txs) == UNION {tx.ins : tx \in txs}

\* The unspent coins of the wallet after a chain.
Unspent(chain) == (Deposits \cup CoinsOf(TxsOf(chain))) \ SpentBy(TxsOf(chain))

\* UpdateV2TransactionSet from one index to another drops a transaction that
\* a block it applies confirms, and fails for one whose input was created by a
\* block it reverts (the element no longer exists there).
ConfirmedOnTheWay(tx, from, to) == tx \in TxsAbove(to, CommonHeight(from, to))

InputReverted(tx, from, to) ==
  tx.ins \cap CoinsOf(TxsAbove(from, CommonHeight(from, to))) # {}

SurvivesUpdate(tx, from, to) ==
  ~ConfirmedOnTheWay(tx, from, to) /\ ~InputReverted(tx, from, to)

\* AddV2PoolTransactions(basis, {tx}): known transactions are accepted again;
\* others must have proofs that are really at the basis, survive the update
\* to the tip, and spend coins that neither chain nor pool has spent.
PoolAccepts(tx, proof, basis, tip, pool) ==
  \/ tx \in pool
  \/ /\ proof = basis
     /\ SurvivesUpdate(tx, basis, tip)
     /\ tx.ins \subseteq Unspent(tip) \ SpentBy(pool)

\* A block may hold released transactions whose inputs exist before it.
ValidBlock(txs, chain) ==
  \A tx \in txs : /\ tx.ins \subseteq Unspent(chain)
                  /\ tx \notin TxsOf(chain)
                  /\ \A u \in txs : u # tx => u.ins \cap tx.ins = {}

ValidChain(chain) ==
  \A h \in 1..Len(chain) : ValidBlock(chain[h].txs, SubSeq(chain, 1, h - 1))
=============================================================================
