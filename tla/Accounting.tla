----------------------------- MODULE Accounting -----------------------------
(***************************************************************************)
(* The readers an exchange does its books with: Deposits, a feed of events *)
(* read page by page, and Balance.  Neither takes a lock.  Both read the   *)
(* tip, the wallet index and the pool one after the other, while blocks    *)
(* arrive, the chain reorganizes and transactions enter the pool.          *)
(*                                                                         *)
(* The client follows docs/API.md: it polls from offset zero and follows   *)
(* nextOffset until a page is not full (a sweep).  Index and pool are      *)
(* external.  An output counts as one unit: what is told apart is which    *)
(* outputs an answer names.                                                *)
(***************************************************************************)
EXTENDS ReaderChain, SequencesExt, FiniteSets

CONSTANTS Txs,         \* transactions and miner payouts: ins, outs, payout
          Kind,        \* of an output's address: "deposit", "change" or "foreign"
          Limits,      \* values of the parameter limit
          PageSize,    \* pageSize
          Delay        \* maturity delay of a payout

\* An output's identifier is a hash over the transaction that creates it.
ASSUME TxsAssumption ==
  /\ \A t \in Txs : t.ins \subseteq DOMAIN Kind /\ t.outs \in Seq(DOMAIN Kind)
  /\ \A t, u \in Txs : t # u => Range(t.outs) \cap Range(u.outs) = {}
  /\ Delay \in Nat

\* "limit must be 1..200"; pageSize is 500.
ASSUME PageAssumption == PageSize \in Nat \ {0} /\ Limits \subseteq Nat \ {0}

VARIABLES
  limit, from, offset, deposits,   \* Deposits: parameters, position, result
  start, seen,                     \* the sweep: tip at its beginning, deposits met
  spendable, immature, pending,    \* Balance: the outputs counted so far
  steady     \* no reorganization since the sweep or the call began, and during a
             \* Balance nothing entered the pool

depositVars == <<limit, from, offset, deposits, start, seen>>
balanceVars == <<spendable, immature, pending>>
vars == <<chainVars, pc, cs, depositVars, balanceVars, steady>>

Least(a, b) == IF a < b THEN a ELSE b
-----------------------------------------------------------------------------
(* What chain, index and pool may hold.                                    *)

Outs(txs) == UNION {Range(t.outs) : t \in txs}
Ins(txs)  == UNION {t.ins : t \in txs}

OnChain(chain) == UNION {Range(chain[h]) : h \in 1..Len(chain)}

\* A record of walletd.sqlite3 has the address (AddressByHash).
Managed(o) == Kind[o] # "foreign"

\* Payouts of the last Delay blocks cannot be spent yet.
Unripe(chain) ==
  Outs({t \in Txs : t.payout /\ \E h \in 1..Len(chain) :
                      t \in Range(chain[h]) /\ Len(chain) < h + Delay})

Unspent(chain) ==
  {o \in Outs(OnChain(chain)) \ Ins(OnChain(chain)) : Managed(o)} \ Unripe(chain)

\* A transaction spends outputs that exist and are unspent, or foreign money.
Follows(t, done) ==
  /\ t \notin done
  /\ t.ins \cap Ins(done) = {}
  /\ \A o \in t.ins : Managed(o) => o \in Outs(done)

\* A payout is spent Delay blocks after its own block at the earliest.
IsChain(chain) ==
  \A h \in 1..Len(chain) : \A i \in 1..Len(chain[h]) :
    /\ Follows(chain[h][i], OnChain(SubSeq(chain, 1, h - 1))
                              \cup {chain[h][j] : j \in 1..(i - 1)})
    /\ chain[h][i].ins \cap Unripe(SubSeq(chain, 1, h)) = {}

\* The pool holds what another block may hold; the wallet's outputs are spent by
\* the daemon alone, which takes none that is unripe.
IsPool(txs, chain) ==
  \A t \in txs : /\ ~t.payout
                 /\ Follows(t, OnChain(chain) \cup (txs \ {t}))
                 /\ t.ins \cap Unripe(chain) = {}

PoolAdd(t) ==
  /\ ~t.payout
  /\ Follows(t, OnChain(tip) \cup pool)
  /\ t.ins \cap Unripe(tip) = {}
  /\ pool' = pool \cup {t}
  /\ steady' = (steady /\ pc \notin {"unspent", "confirm", "pending"})
  /\ UNCHANGED <<tip, scan, pc, cs, depositVars, balanceVars>>

Blocks == {b \in UNION {[1..n -> Txs] : n \in 0..MaxBlock} : IsInjective(b)}

\* A longer chain is selected.  The pool keeps, of what it had and of what was
\* orphaned, a part that is still valid.
SelectChain(depth) ==
  /\ Longer(depth, Blocks)
  /\ IsChain(tip')
  /\ pool' \in SUBSET (pool \cup OnChain(tip))
  /\ IsPool(pool', tip')
  /\ steady' = (steady /\ depth = 0)
  /\ UNCHANGED <<scan, pc, cs, depositVars, balanceVars>>

\* The index applies the next block, or reverts one that is orphaned.
IndexMoves ==
  /\ scan # tip
  /\ scan' = IF IsPrefix(scan, tip) THEN SubSeq(tip, 1, Len(scan) + 1) ELSE Front(scan)
  /\ UNCHANGED <<tip, pool, pc, cs, depositVars, balanceVars, steady>>

\* WalletEvents: the events of the index, newest first.
Events(chain) ==
  Reverse(FlattenSeq([h \in 1..Len(chain) |->
    [i \in 1..Len(chain[h]) |-> [tx |-> chain[h][i], index |-> SubSeq(chain, 1, h)]]]))
-----------------------------------------------------------------------------
(* Deposits.                                                               *)

\* A transaction that spends a managed input moves the wallet's own money.
Creditable(t) == t.payout \/ \A o \in t.ins : ~Managed(o)

\* The deposits of one event, in the order of its outputs.
DepositsOf(event) ==
  FlattenSeq([i \in 1..Len(event.tx.outs) |->
    IF Kind[event.tx.outs[i]] # "deposit" THEN <<>>
    ELSE <<[id |-> event.tx.outs[i], index |-> event.index,
            creditable |-> Creditable(event.tx)]>>])

\* Faulty variant: the page ends inside a transaction.
TakeUpToLimit(so, event) ==
  IF Len(so.deposits) >= limit THEN so
  ELSE [deposits |-> SubSeq(so.deposits \o DepositsOf(event), 1,
                            Least(limit, Len(so.deposits \o DepositsOf(event)))),
        offset   |-> so.offset + 1]

\* One turn of the loop over a page: the limit ends it after a whole event.
TakeEvent(so, event) ==
  IF Len(so.deposits) >= limit THEN so
  ELSE [deposits |-> so.deposits \o DepositsOf(event), offset |-> so.offset + 1]

StartSweep(l) ==
  /\ pc = "rest"
  /\ pc' = "idle"
  /\ limit' = l /\ from' = 0 /\ offset' = 0
  /\ start' = tip /\ seen' = {} /\ steady' = TRUE
  /\ UNCHANGED <<chainVars, cs, deposits, balanceVars>>

\* The tip is read, and the index has to be there.
BeginDeposits ==
  /\ pc = "idle" /\ scan = tip
  /\ pc' = "page" /\ cs' = tip
  /\ deposits' = <<>> /\ offset' = from
  /\ UNCHANGED <<chainVars, limit, from, start, seen, balanceVars, steady>>

ReadPage ==
  LET n     == Least(PageSize, 2 * limit)
      all   == Events(scan)
      page  == SubSeq(all, offset + 1, Least(offset + n, Len(all)))
      after == FoldLeft(TakeEvent, [deposits |-> deposits, offset |-> offset], page)
  IN
  /\ pc = "page"
  /\ deposits' = after.deposits /\ offset' = after.offset
  /\ pc' = IF Len(page) < n \/ Len(after.deposits) >= limit THEN "check" ELSE "page"
  /\ UNCHANGED <<chainVars, cs, limit, from, start, seen, balanceVars, steady>>

\* The chain changed while reading: the client asks for the page again.
RefuseDeposits ==
  /\ pc = "check"
  /\ scan # cs \/ tip # cs
  /\ pc' = "idle" /\ deposits' = <<>> /\ offset' = from
  /\ UNCHANGED <<chainVars, cs, limit, from, start, seen, balanceVars, steady>>

\* The answer reaches the client, who goes on at nextOffset while pages are full.
Answer ==
  /\ seen' = seen \cup Range(deposits)
  /\ from' = offset
  /\ pc' = IF Len(deposits) < limit THEN "swept" ELSE "idle"
  /\ UNCHANGED <<chainVars, cs, limit, offset, deposits, start, balanceVars, steady>>

\* Faulty variant: the tips are not compared a second time.
AnswerUnchecked ==
  /\ pc = "check"
  /\ Answer

AnswerDeposits ==
  /\ pc = "check" /\ scan = cs /\ tip = cs
  /\ Answer

\* The books are done; the next sweep starts from zero.
EndSweep ==
  /\ pc = "swept"
  /\ pc' = "rest"
  /\ start' = <<>> /\ seen' = {} /\ deposits' = <<>> /\ offset' = 0 /\ from' = 0
  /\ cs' = <<>>
  /\ UNCHANGED <<chainVars, limit, balanceVars, steady>>
-----------------------------------------------------------------------------
(* Balance and spendableOutputs.                                           *)

\* The tip, the index (a lagging one ends the call) and the pool's inputs:
\* what they spend is left out of spendable.
BeginBalance ==
  /\ pc = "rest" /\ scan = tip
  /\ pc' = "unspent" /\ cs' = tip
  /\ spendable' = {o \in DOMAIN Kind : o \notin Ins(pool)}
  /\ steady' = TRUE
  /\ UNCHANGED <<chainVars, depositVars, immature, pending>>

\* UnspentSiacoinOutputs; every page must have the first tip as its basis.
ReadUnspent ==
  /\ pc = "unspent" /\ scan = cs
  /\ pc' = "confirm"
  /\ spendable' = spendable \cap Unspent(scan)
  /\ UNCHANGED <<chainVars, cs, depositVars, immature, pending, steady>>

\* The second look at the tip, then WalletBalance: nothing compares the index
\* any more.
ReadImmature ==
  /\ pc = "confirm" /\ tip = cs
  /\ pc' = "pending"
  /\ immature' = {o \in Unripe(scan) : Managed(o)}
  /\ UNCHANGED <<chainVars, cs, depositVars, spendable, pending, steady>>

\* An error ends the call.
RefuseBalance ==
  /\ \/ pc = "unspent" /\ scan # cs
     \/ pc = "confirm" /\ tip # cs
  /\ pc' = "rest" /\ cs' = <<>> /\ spendable' = {}
  /\ UNCHANGED <<chainVars, depositVars, immature, pending, steady>>

\* Faulty variant: outputs that another pool transaction spends are counted.
ReadPendingGross ==
  /\ pc = "pending"
  /\ pc' = "counted"
  /\ pending' = {o \in Outs(pool) : Managed(o)}
  /\ UNCHANGED <<chainVars, cs, depositVars, spendable, immature, steady>>

\* The pool is read a second time.
ReadPending ==
  /\ pc = "pending"
  /\ pc' = "counted"
  /\ pending' = {o \in Outs(pool) \ Ins(pool) : Managed(o)}
  /\ UNCHANGED <<chainVars, cs, depositVars, spendable, immature, steady>>

EndBalance ==
  /\ pc = "counted"
  /\ pc' = "rest" /\ cs' = <<>>
  /\ spendable' = {} /\ immature' = {} /\ pending' = {}
  /\ UNCHANGED <<chainVars, depositVars, steady>>
-----------------------------------------------------------------------------
Init ==
  /\ tip = <<>> /\ scan = <<>> /\ pool = {}
  /\ pc = "rest" /\ cs = <<>>
  /\ limit \in Limits /\ from = 0 /\ offset = 0 /\ deposits = <<>>
  /\ start = <<>> /\ seen = {} /\ steady = TRUE
  /\ spendable = {} /\ immature = {} /\ pending = {}

Environment ==
  \/ \E t \in Txs : PoolAdd(t)
  \/ \E depth \in 0..MaxDepth : SelectChain(depth)
  \/ IndexMoves

Reader ==
  \/ \E l \in Limits : StartSweep(l)
  \/ BeginDeposits \/ ReadPage \/ RefuseDeposits \/ AnswerDeposits \/ EndSweep
  \/ BeginBalance \/ ReadUnspent \/ ReadImmature \/ RefuseBalance \/ ReadPending
  \/ EndBalance

Next == Environment \/ Reader

Spec == Init /\ [][Next]_vars
-----------------------------------------------------------------------------
(* Properties.                                                             *)

AllDeposits(chain) ==
  UNION {Range(DepositsOf(e)) : e \in Range(Events(chain))}

\* Deposits answers with one chain: every deposit of the events from the
\* request's offset to nextOffset, none cut off and none repeated, in the blocks of
\* the chain that is selected when the answer is given, although its pages were
\* read at different moments.
PageIsOneChain ==
  [][pc = "check" /\ pc' # "check" /\ from' = offset =>
       deposits = FlattenSeq([i \in 1..(offset - from) |->
                                DepositsOf(Events(tip)[from + i])])]_vars

\* A sweep misses nothing: unless a reorganization took events away, the
\* client has met every deposit that was confirmed when it began, however many
\* blocks shifted the offsets between its pages.
SweepComplete ==
  pc = "swept" /\ steady => AllDeposits(start) \subseteq seen

Counted == spendable \cup immature \cup pending

\* Balance counts money once: unless something entered the pool or the chain
\* reorganized during the call, no transaction has an input and an output counted
\* together, and no output is counted under two heads, whatever blocks arrived
\* between its reads of pool, index and pool.
BalanceCountsOnce ==
  pc = "counted" /\ steady =>
    /\ \A t \in Txs : t.ins \cap Counted = {} \/ Range(t.outs) \cap Counted = {}
    /\ spendable \cap immature = {} /\ spendable \cap pending = {}
    /\ immature \cap pending = {}
=============================================================================
