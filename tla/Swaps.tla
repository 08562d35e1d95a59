-------------------------------- MODULE Swaps --------------------------------
(***************************************************************************)
(* Atomic-swap sessions: CreateSwapKeys, RegisterSwap, FundSwap, ClaimSwap *)
(* and RefundSwap, the table of actions they write, and the part of the    *)
(* rebroadcast pass that resubmits actions, next to a counterparty that    *)
(* funds and spends the contract too, a chain that reorganizes and a       *)
(* process that restarts.                                                  *)
(*                                                                         *)
(* A transaction of a contract is a transfer in the sense of SelectedChain *)
(* whose one created coin, if it funds, is the contract's output.  Proofs  *)
(* and basis always belong together (Custody shows it of the same code),   *)
(* so one field stands for both.  One custody coin pays a funding.         *)
(* last_error is left out: nothing here depends on it.                     *)
(***************************************************************************)
EXTENDS SelectedChain

CONSTANTS SwapIDs,        \* session identifiers
          RefundHeights,  \* refund heights contracts are registered with
          Pars,           \* amounts and fees requests ask for
          Window,         \* reorgMonitoringDepth
          MaxHeight,      \* bound on the chain's length
          MaxDepth,       \* bound on the depth of one reorganization
          MaxRestarts     \* bound on restarts

ASSUME SwapsAssumption == /\ RefundHeights \subseteq Nat \ {0}
                          /\ {Window, MaxHeight, MaxDepth, MaxRestarts} \subseteq Nat

VARIABLES
  tip, pool, scan,  \* CM.Tip(), CM.V2PoolTransactions() and WM.Tip()
  released,         \* transactions the pool has ever accepted
  own,              \* the deposits that are the daemon's; others are the counterparty's
  keys,             \* table swap_keys
  swaps,            \* table swaps: session -> terms
  actions,          \* table swap_actions: action -> row
  call,             \* the FundSwap or spendSwap that holds op
  pass, rows, work, \* the pass: where it is, rows to visit, row in hand
  restarts

chainVars == <<tip, pool, scan, released, own>>
tables    == <<keys, swaps, actions>>
loopVars  == <<pass, rows, work>>
vars == <<chainVars, tables, call, loopVars, restarts>>

Roles == {"recipient", "refund"}
Terms == [role : Roles, refundHeight : RefundHeights]

\* A transaction: `at` is the height it was built at, `terms` the contract.
MakeTx(s, kind, par, coin, at) ==
  [req |-> [swap |-> s, kind |-> kind, par |-> par, coin |-> coin, at |-> at,
            terms |-> swaps[s]],
   ins |-> {coin}, change |-> IF kind = "fund" THEN 1 ELSE 0]

NoCoin == [of |-> [deposit |-> 0], value |-> 0]

\* action_id: one funding per session, one spend of a kind per output.
Key(tx) == [swap |-> tx.req.swap, kind |-> tx.req.kind,
            out |-> IF tx.req.kind = "fund" THEN NoCoin ELSE tx.req.coin]

With(f, k, row) == [q \in DOMAIN f \cup {k} |-> IF q = k THEN row ELSE f[q]]
Without(f, k) == [q \in DOMAIN f \ {k} |-> f[q]]
NoRows == [k \in {} |-> {}]

\* The outputs of a session's contract on a chain.
ContractOutputs(s, chain) ==
  {c \in CoinsOf(TxsOf(chain)) : c.of.swap = s}

\* The refund branch opens when the tip has reached the refund height.
RefundOpen(tx, height) == tx.req.kind = "refund" => height >= tx.req.terms.refundHeight

ValidContractChain(chain) ==
  /\ ValidChain(chain)
  /\ \A h \in 1..Len(chain) : \A tx \in chain[h].txs : RefundOpen(tx, h - 1)

Accepts(tx, basis) ==
  PoolAccepts(tx, basis, basis, tip, pool) /\ RefundOpen(tx, Height(tip))

Init ==
  /\ tip = <<>> /\ scan = <<>> /\ pool = {} /\ released = {}
  /\ own \in SUBSET Deposits
  /\ keys = {} /\ swaps = NoRows /\ actions = NoRows
  /\ call = {}
  /\ pass = [pc |-> "idle", tip |-> <<>>] /\ rows = NoRows /\ work = NoRows
  /\ restarts = 0
-----------------------------------------------------------------------------
(* Sessions.                                                               *)

CreateSwapKeys(s) ==
  /\ call = {}
  /\ s \notin keys
  /\ keys' = keys \cup {s}
  /\ UNCHANGED <<chainVars, swaps, actions, call, loopVars, restarts>>

\* Faulty variant: a registration may change the terms of a session.
RegisterAnyTerms(s, terms) ==
  /\ call = {}
  /\ s \in keys
  /\ swaps' = With(swaps, s, terms)
  /\ UNCHANGED <<chainVars, keys, actions, call, loopVars, restarts>>

\* The session has keys and no terms yet.  (The same terms again change
\* nothing, other terms are refused.)
RegisterSwap(s, terms) ==
  /\ call = {}
  /\ s \in keys
  /\ s \notin DOMAIN swaps
  /\ swaps' = With(swaps, s, terms)
  /\ UNCHANGED <<chainVars, keys, actions, call, loopVars, restarts>>
-----------------------------------------------------------------------------
(* FundSwap and spendSwap.                                                 *)

\* Faulty variant: the block the funding needs is not counted.
FundingInTimeLate(height, refundHeight) == height < refundHeight

\* "refusing to fund a contract whose refund branch is already active at the
\* next block"
FundingInTime(height, refundHeight) == height + 1 < refundHeight

\* A funding that is not there yet is built at a tip the index has reached, and
\* the tip compared once more; it may move right after.
BeginFund(s, p) ==
  /\ call = {}
  /\ s \in DOMAIN swaps
  /\ [swap |-> s, kind |-> "fund", out |-> NoCoin] \notin DOMAIN actions
  /\ scan = tip
  /\ FundingInTime(Height(tip), swaps[s].refundHeight)
  /\ \E coin \in (own \cap Unspent(tip)) \ SpentBy(pool) :
       call' = {[pc |-> "built", cs |-> tip,
                 tx |-> MakeTx(s, "fund", p, coin, Height(tip))]}
  /\ UNCHANGED <<chainVars, tables, loopVars, restarts>>

\* A claim or refund of one confirmed output, by the role that may.
BeginSpend(s, p) ==
  /\ call = {}
  /\ s \in DOMAIN swaps
  /\ scan = tip
  /\ LET kind == IF swaps[s].role = "recipient" THEN "claim" ELSE "refund" IN
     /\ kind = "refund" => Height(tip) >= swaps[s].refundHeight
     /\ \E out \in (ContractOutputs(s, tip) \cap Unspent(tip)) \ SpentBy(pool) :
          /\ [swap |-> s, kind |-> kind, out |-> out] \notin DOMAIN actions
          /\ call' = {[pc |-> "built", cs |-> tip,
                       tx |-> MakeTx(s, kind, p, out, Height(tip))]}
  /\ UNCHANGED <<chainVars, tables, loopVars, restarts>>

\* The call ends in an error before the action is stored.
Abandon ==
  /\ \E c \in call : c.pc = "built"
  /\ call' = {}
  /\ UNCHANGED <<chainVars, tables, loopVars, restarts>>

\* Faulty variant: the transaction is submitted and then stored.
SubmitUnstored ==
  \E c \in call :
    /\ c.pc = "built"
    /\ Accepts(c.tx, c.cs)
    /\ pool' = pool \cup {c.tx} /\ released' = released \cup {c.tx}
    /\ call' = {[c EXCEPT !.pc = "submitted"]}
    /\ UNCHANGED <<tip, scan, own, tables, loopVars, restarts>>

\* AddSwapAction inserts the row.
StoreAction ==
  \E c \in call :
    /\ c.pc = "built"
    /\ Key(c.tx) \notin DOMAIN actions
    /\ actions' = With(actions, Key(c.tx),
                       [tx |-> c.tx, basis |-> c.cs, confirmed |-> Null])
    /\ call' = {[c EXCEPT !.pc = "stored"]}
    /\ UNCHANGED <<chainVars, keys, swaps, loopVars, restarts>>

\* submitSwapAction: the pool decides.
Submit ==
  \E c \in call :
    /\ c.pc = "stored"
    /\ IF Accepts(c.tx, c.cs)
       THEN pool' = pool \cup {c.tx} /\ released' = released \cup {c.tx}
       ELSE UNCHANGED <<pool, released>>
    /\ call' = {[c EXCEPT !.pc = "submitted"]}
    /\ UNCHANGED <<tip, scan, own, tables, loopVars, restarts>>

\* UpdateSwapAction, with the call's own basis, and the call returns.
RecordSubmission ==
  \E c \in call :
    /\ c.pc = "submitted"
    /\ actions' = [actions EXCEPT ![Key(c.tx)].tx = c.tx,
                                  ![Key(c.tx)].basis = c.cs]
    /\ call' = {}
    /\ UNCHANGED <<chainVars, keys, swaps, loopVars, restarts>>
-----------------------------------------------------------------------------
(* rebroadcastSwapActions, at the tip that rebroadcast has read.           *)

StartPass ==
  /\ pass.pc = "idle"
  /\ pass' = [pc |-> "load", tip |-> tip]
  /\ UNCHANGED <<chainVars, tables, call, rows, work, restarts>>

\* SwapActionRebroadcastCandidates.
Cutoff(height) == IF height > Window THEN height - Window ELSE 0

LoadActions ==
  /\ pass.pc = "load"
  /\ pass' = [pass EXCEPT !.pc = "check"]
  /\ rows' = [k \in {q \in DOMAIN actions :
                       \/ actions[q].confirmed = Null
                       \/ Height(actions[q].confirmed) >= Cutoff(Height(pass.tip))} |-> actions[k]]
  /\ UNCHANGED <<chainVars, tables, call, work, restarts>>

StillConfirmed(row) == row.confirmed # Null /\ OnBest(row.confirmed, tip)

\* The index holds the transaction, and its block is stored; or it does not,
\* but the stored block is on the selected chain.
CheckConfirmed ==
  \E k \in DOMAIN rows :
    /\ pass.pc = "check"
    /\ \/ \E index \in Confirming(rows[k].tx, scan) :
            actions' = [actions EXCEPT ![k].confirmed = index]
       \/ /\ Confirming(rows[k].tx, scan) = {} /\ StillConfirmed(rows[k])
          /\ UNCHANGED actions
    /\ rows' = Without(rows, k)
    /\ UNCHANGED <<chainVars, keys, swaps, call, pass, work, restarts>>

\* Otherwise a stale confirmation is cleared and the row resubmitted.
CheckUnconfirmed ==
  \E k \in DOMAIN rows :
    /\ pass.pc = "check"
    /\ Confirming(rows[k].tx, scan) = {} /\ ~StillConfirmed(rows[k])
    /\ actions' = IF rows[k].confirmed = Null THEN actions
                  ELSE [actions EXCEPT ![k].confirmed = Null]
    /\ rows' = Without(rows, k)
    /\ work' = With(NoRows, k, rows[k])
    /\ pass' = [pass EXCEPT !.pc = "send"]
    /\ UNCHANGED <<chainVars, keys, swaps, call, restarts>>

\* The proofs reach the pass's tip, and the pool decides.
Resubmit ==
  \E k \in DOMAIN work :
    /\ pass.pc = "send"
    /\ SurvivesUpdate(work[k].tx, work[k].basis, pass.tip)
    /\ IF Accepts(work[k].tx, pass.tip)
       THEN pool' = pool \cup {work[k].tx} /\ released' = released \cup {work[k].tx}
       ELSE UNCHANGED <<pool, released>>
    /\ work' = With(NoRows, k, [work[k] EXCEPT !.basis = pass.tip])
    /\ pass' = [pass EXCEPT !.pc = "save"]
    /\ UNCHANGED <<tip, scan, own, tables, call, rows, restarts>>

\* updateProofs found the transaction in a block the index does not know yet,
\* or failed because an input is gone or the chain moved: nothing moves.
KeepProofs ==
  \E k \in DOMAIN work :
    /\ pass.pc = "send"
    /\ \/ \E to \in {pass.tip, tip} : ConfirmedOnTheWay(work[k].tx, work[k].basis, to)
       \/ InputReverted(work[k].tx, work[k].basis, pass.tip)
       \/ pass.tip # tip
    /\ pass' = [pass EXCEPT !.pc = "save"]
    /\ UNCHANGED <<chainVars, tables, call, rows, work, restarts>>

SaveAction ==
  \E k \in DOMAIN work :
    /\ pass.pc = "save"
    /\ actions' = [actions EXCEPT ![k].tx = work[k].tx, ![k].basis = work[k].basis]
    /\ work' = NoRows
    /\ pass' = [pass EXCEPT !.pc = "check"]
    /\ UNCHANGED <<chainVars, keys, swaps, call, rows, restarts>>

EndPass ==
  /\ pass.pc = "check" /\ rows = NoRows
  /\ pass' = [pc |-> "idle", tip |-> <<>>]
  /\ UNCHANGED <<chainVars, tables, call, rows, work, restarts>>
-----------------------------------------------------------------------------
(* The surroundings.                                                       *)

\* The counterparty funds the contract, or spends an output the other way.
CounterpartyFunds(s) ==
  /\ s \in DOMAIN swaps
  /\ \E coin \in ((Deposits \ own) \cap Unspent(tip)) \ SpentBy(pool) :
       LET tx == MakeTx(s, "fund", 0, coin, 0) IN
       pool' = pool \cup {tx} /\ released' = released \cup {tx}
  /\ UNCHANGED <<tip, scan, own, tables, call, loopVars, restarts>>

CounterpartySpends(s) ==
  /\ s \in DOMAIN swaps
  /\ \E out \in (ContractOutputs(s, tip) \cap Unspent(tip)) \ SpentBy(pool) :
       LET tx == MakeTx(s, IF swaps[s].role = "recipient" THEN "refund" ELSE "claim", 0, out, 0) IN
       /\ RefundOpen(tx, Height(tip))
       /\ pool' = pool \cup {tx} /\ released' = released \cup {tx}
  /\ UNCHANGED <<tip, scan, own, tables, call, loopVars, restarts>>

\* A longer chain of released transactions is selected; the pool keeps some of
\* what is still valid.
SelectChain(depth) ==
  /\ depth <= Len(tip) /\ Len(tip) < MaxHeight
  /\ LET fork == Len(tip) - depth
         tag(i) == IF i = 1 /\ depth > 0 THEN 1 - tip[fork + 1].tag ELSE 0
     IN  \E txs \in [1..(depth + 1) -> SUBSET released] :
           tip' = SubSeq(tip, 1, fork) \o
                    [i \in 1..(depth + 1) |-> [tag |-> tag(i), txs |-> txs[i]]]
  /\ ValidContractChain(tip')
  /\ pool' \in SUBSET {tx \in pool \cup TxsOf(tip) :
                         /\ tx \notin TxsOf(tip') /\ tx.ins \subseteq Unspent(tip')
                         /\ RefundOpen(tx, Height(tip'))}
  /\ UNCHANGED <<released, scan, own, tables, call, loopVars, restarts>>

\* The wallet index reaches the selected chain.
IndexCatchesUp ==
  /\ scan # tip
  /\ scan' = tip
  /\ UNCHANGED <<tip, pool, released, own, tables, call, loopVars, restarts>>

Restart ==
  /\ restarts < MaxRestarts
  /\ restarts' = restarts + 1
  /\ pool' = {} /\ call' = {}
  /\ pass' = [pc |-> "idle", tip |-> <<>>] /\ rows' = NoRows /\ work' = NoRows
  /\ UNCHANGED <<tip, released, scan, own, tables>>
-----------------------------------------------------------------------------
Session(s) ==
  \/ CreateSwapKeys(s)
  \/ \E terms \in Terms : RegisterSwap(s, terms)
  \/ \E p \in Pars : BeginFund(s, p) \/ BeginSpend(s, p)
  \/ CounterpartyFunds(s) \/ CounterpartySpends(s)

PassStep == \/ StartPass \/ LoadActions \/ CheckConfirmed \/ CheckUnconfirmed
            \/ Resubmit \/ KeepProofs \/ SaveAction \/ EndPass

Next ==
  \/ \E s \in SwapIDs : Session(s)
  \/ Abandon \/ StoreAction \/ Submit \/ RecordSubmission
  \/ PassStep
  \/ \E depth \in 0..MaxDepth : SelectChain(depth)
  \/ IndexCatchesUp
  \/ Restart

Spec == Init /\ [][Next]_vars
-----------------------------------------------------------------------------
(* Properties.                                                             *)

\* Built by this daemon: funded with a custody coin, or spent in its role.
Local(tx) ==
  CASE tx.req.kind = "fund"   -> tx.req.coin \in own
    [] tx.req.kind = "claim"  -> tx.req.terms.role = "recipient"
    [] tx.req.kind = "refund" -> tx.req.terms.role = "refund"

\* An action stands for one transaction for ever: no crash, retry or
\* reorganization makes the daemon fund a session with a second transaction,
\* or let a claim or refund out that it has not stored.
OneTransactionPerAction ==
  \A tx \in released : Local(tx) =>
    Key(tx) \in DOMAIN actions /\ actions[Key(tx)].tx = tx

\* What was funded or spent was built for the terms the session still has:
\* the stored contract can always spend what was paid to it.
TermsHold ==
  \A tx \in released : tx.req.swap \in DOMAIN swaps /\ tx.req.terms = swaps[tx.req.swap]

\* A funding that is mined in the block it was built for cannot be refunded in
\* the block after: the recipient has a block to claim in.
PromptFundingLocked ==
  \A h \in 1..(Len(tip) - 1) : \A tx \in tip[h].txs :
    (tx.req.kind = "fund" /\ Local(tx) /\ tx.req.at = h - 1)
      => \A u \in tip[h + 1].txs : ~(u.req.kind = "refund" /\ u.ins = Created(tx))
=============================================================================
