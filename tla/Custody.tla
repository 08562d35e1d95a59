------------------------------- MODULE Custody -------------------------------
(***************************************************************************)
(* Withdrawals: the handler CreateWithdrawal, the journal it writes, and   *)
(* the rebroadcast pass that keeps journaled transactions alive, next to a *)
(* chain that reorganizes, a pool that forgets, a wallet index that lags   *)
(* and a process that restarts.                                            *)
(*                                                                         *)
(* The wallet is unlocked and the node has peers whenever a withdrawal is  *)
(* attempted (masterSeed and NetworkSynced only refuse).  A pass may start *)
(* at any time, as the ticker allows; why it does start is the subject of  *)
(* Service.                                                                *)
(***************************************************************************)
EXTENDS SelectedChain, CoinSelection

CONSTANTS Requests,       \* request identifiers clients use
          Pars,           \* what a request asks for: amount plus fee
          Window,         \* reorgMonitoringDepth
          MaxHeight,      \* bound on the chain's length
          MaxDepth,       \* bound on the depth of one reorganization
          MaxRestarts     \* bound on restarts

ASSUME CustodyAssumption ==
  /\ Pars \subseteq Nat \ {0}
  /\ Window \in Nat
  /\ MaxHeight \in Nat /\ MaxDepth \in Nat /\ MaxRestarts \in Nat
  /\ \A c \in Deposits : c.value \in 0..Supply

VARIABLES
  tip,        \* CM.Tip(): the selected chain
  pool,       \* CM.V2PoolTransactions(), the wallet's part of it
  released,   \* transactions the pool has ever accepted: others may mine them
  scan,       \* WM.Tip(): the chain the wallet index has processed
  journal,    \* table withdrawals: request identifier -> row
  call,       \* the CreateWithdrawal that holds op, past its first checks
  pass,       \* the rebroadcast pass: where it is, and the tip it read
  rows,       \* rows the pass has read and still has to visit
  work,       \* the row the pass is resubmitting
  answers,    \* answers CreateWithdrawal has given
  restarts    \* restarts so far

chainVars == <<tip, pool, released, scan>>
loopVars  == <<pass, rows, work>>
vars == <<chainVars, journal, call, loopVars, answers, restarts>>
-----------------------------------------------------------------------------
(* Data.                                                                   *)

Coin == Deposits \cup [of : Requests, value : 0..Supply]

\* A signed transfer.  Its identifier covers what it spends and pays, and not
\* the Merkle proofs of its inputs, which are kept apart below.
Tx == [req : Requests, par : Pars, ins : SUBSET Coin, change : 0..Supply]

\* Two blocks with the same transactions may differ: the tag tells siblings
\* apart.
Block == [tag : {0, 1}, txs : SUBSET Tx]
Chain == Seq(Block)

\* A journal row.  `proof` is the index at which the stored transaction's
\* Merkle proofs are valid, `basis` the index stored next to it.
Row == [tx : Tx, basis : Chain, proof : Chain, confirmed : Chain, err : BOOLEAN]
IsTable(f) == DOMAIN f \subseteq Requests /\ f \in [DOMAIN f -> Row]
NoRows == [r \in {} |-> {}]

\* The mutex op admits one call at a time.
Call == [pc : {"built", "journaled", "failed", "done"}, cs : Chain, tx : Tx]
Pass == [pc : {"idle", "load", "check", "send", "save"}, tip : Chain]
Answer == [req : Requests, par : Pars, tx : Tx]

With(f, r, row) == [q \in DOMAIN f \cup {r} |-> IF q = r THEN row ELSE f[q]]
Without(f, r) == [q \in DOMAIN f \ {r} |-> f[q]]

Init ==
  /\ tip = <<>> /\ scan = <<>>
  /\ pool = {} /\ released = {}
  /\ journal = NoRows
  /\ call = {}
  /\ pass = [pc |-> "idle", tip |-> <<>>]
  /\ rows = NoRows /\ work = NoRows
  /\ answers = {}
  /\ restarts = 0
-----------------------------------------------------------------------------
(* CreateWithdrawal.                                                       *)

\* spendableOutputs: unspent at the tip, and not the input of a pool
\* transaction.
Spendable(chain) == Unspent(chain) \ SpentBy(pool)

\* Faulty variant: the handler does not take op.
BeginWithdrawalWithoutOp(r, p) ==
  /\ r \notin DOMAIN journal
  /\ scan = tip
  /\ \E t \in Transfers(Spendable(tip), p) :
       call' = call \cup {[pc |-> "built", cs |-> tip,
                 tx |-> [req |-> r, par |-> p, ins |-> t.ins, change |-> t.change]]}
  /\ UNCHANGED <<chainVars, journal, loopVars, answers, restarts>>

\* A request that has no row: the index has reached the tip, and
\* buildCustodyTransfer chooses coins, signs and compares the tip once more.
\* The chain may move again as soon as that comparison is done.
BeginWithdrawal(r, p) ==
  /\ call = {}
  /\ r \notin DOMAIN journal
  /\ scan = tip
  /\ \E t \in Transfers(Spendable(tip), p) :
       call' = {[pc |-> "built", cs |-> tip,
                 tx |-> [req |-> r, par |-> p, ins |-> t.ins, change |-> t.change]]}
  /\ UNCHANGED <<chainVars, journal, loopVars, answers, restarts>>

\* The call ends in an error before the journal is written: the tip moved
\* while signing, the client went away, the insert failed.
AbandonWithdrawal ==
  /\ \E c \in call : c.pc = "built"
  /\ call' = {}
  /\ UNCHANGED <<chainVars, journal, loopVars, answers, restarts>>

\* Faulty variant: the transaction goes to the pool before it is stored.
SubmitThenJournal ==
  \E c \in call :
    /\ c.pc = "built"
    /\ PoolAccepts(c.tx, c.cs, c.cs, tip, pool)
    /\ pool' = pool \cup {c.tx}
    /\ released' = released \cup {c.tx}
    /\ call' = {[c EXCEPT !.pc = "failed"]}
    /\ UNCHANGED <<tip, scan, journal, loopVars, answers, restarts>>

\* AddWithdrawal inserts the row; request_id is the primary key.
JournalWithdrawal ==
  \E c \in call :
    /\ c.pc = "built"
    /\ c.tx.req \notin DOMAIN journal
    /\ journal' = With(journal, c.tx.req,
                       [tx |-> c.tx, basis |-> c.cs, proof |-> c.cs,
                        confirmed |-> Null, err |-> FALSE])
    /\ call' = {[c EXCEPT !.pc = "journaled"]}
    /\ UNCHANGED <<chainVars, loopVars, answers, restarts>>

\* AddV2PoolTransactions takes the transaction; the broadcast that follows may
\* fail (having no peers is not a failure).
SubmitAccepted ==
  \E c \in call, broadcast \in {"done", "failed"} :
    /\ c.pc = "journaled"
    /\ PoolAccepts(c.tx, c.cs, c.cs, tip, pool)
    /\ pool' = pool \cup {c.tx}
    /\ released' = released \cup {c.tx}
    /\ call' = {[c EXCEPT !.pc = broadcast]}
    /\ UNCHANGED <<tip, scan, journal, loopVars, answers, restarts>>

SubmitRefused ==
  \E c \in call :
    /\ c.pc = "journaled"
    /\ ~PoolAccepts(c.tx, c.cs, c.cs, tip, pool)
    /\ call' = {[c EXCEPT !.pc = "failed"]}
    /\ UNCHANGED <<chainVars, journal, loopVars, answers, restarts>>

\* UpdateWithdrawal with the call's own basis and transaction, which may be
\* older than what a pass has stored since; confirmed stays as it is.
RecordFailure ==
  \E c \in call :
    /\ c.pc = "failed"
    /\ journal' = [journal EXCEPT ![c.tx.req].tx = c.tx,
                                  ![c.tx.req].basis = c.cs,
                                  ![c.tx.req].proof = c.cs,
                                  ![c.tx.req].err = TRUE]
    /\ call' = {[c EXCEPT !.pc = "done"]}
    /\ UNCHANGED <<chainVars, loopVars, answers, restarts>>

\* The view is returned, or making it fails and the client gets an error for a
\* withdrawal that is under way.
AnswerWithdrawal ==
  \E c \in call :
    /\ c.pc = "done"
    /\ \/ answers' = answers \cup {[req |-> c.tx.req, par |-> c.tx.par, tx |-> c.tx]}
       \/ UNCHANGED answers
    /\ call' = {}
    /\ UNCHANGED <<chainVars, journal, loopVars, restarts>>

\* Faulty variant: a repeated request is answered whatever it asks for.
RetryWithoutComparing(r, p) ==
  /\ call = {}
  /\ r \in DOMAIN journal
  /\ answers' = answers \cup {[req |-> r, par |-> p, tx |-> journal[r].tx]}
  /\ UNCHANGED <<chainVars, journal, call, loopVars, restarts>>

\* A request that has a row: other parameters are refused, the same ones are
\* answered from the row.
RetryWithdrawal(r, p) ==
  /\ call = {}
  /\ r \in DOMAIN journal
  /\ p = journal[r].tx.par
  /\ answers' = answers \cup {[req |-> r, par |-> p, tx |-> journal[r].tx]}
  /\ UNCHANGED <<chainVars, journal, call, loopVars, restarts>>
-----------------------------------------------------------------------------
(* withdrawalView.                                                         *)

\* WM.Events: the indices of the blocks the wallet index knows to hold tx.
Events(tx) == Confirming(tx, scan)

\* Faulty variant: a stored confirmation is believed without the chain.
ConfirmedOnce(row) == row.confirmed # Null

StillConfirmed(row) == row.confirmed # Null /\ OnBest(row.confirmed, tip)

Status(row) ==
  CASE Events(row.tx) # {} -> "confirmed"
    [] Events(row.tx) = {} /\ StillConfirmed(row) -> "confirmed"
    [] Events(row.tx) = {} /\ ~StillConfirmed(row) /\ row.tx \in pool -> "mempool"
    [] OTHER -> IF row.err THEN "retrying" ELSE "queued"
-----------------------------------------------------------------------------
(* rebroadcast.  It never takes op: it runs beside a call.                 *)

\* rebroadcast reads the tip once, for the whole pass.
StartPass ==
  /\ pass.pc = "idle"
  /\ pass' = [pc |-> "load", tip |-> tip]
  /\ UNCHANGED <<chainVars, journal, call, rows, work, answers, restarts>>

\* RebroadcastCandidates: unconfirmed rows, and rows confirmed no more than
\* the window below the tip.
Cutoff(height) == IF height > Window THEN height - Window ELSE 0

\* Faulty variant: a block exactly at the cutoff is left out.
IsCandidateExclusive(row, height) ==
  row.confirmed = Null \/ Height(row.confirmed) > Cutoff(height)

IsCandidate(row, height) ==
  row.confirmed = Null \/ Height(row.confirmed) >= Cutoff(height)

\* Rows come in the order of created_at, which counts whole seconds: rows of
\* one second come in any order, so the pass may visit them in any.
LoadCandidates ==
  /\ pass.pc = "load"
  /\ pass' = [pass EXCEPT !.pc = "check"]
  /\ rows' = [r \in {q \in DOMAIN journal :
                       IsCandidate(journal[q], Height(pass.tip))} |-> journal[r]]
  /\ UNCHANGED <<chainVars, journal, call, work, answers, restarts>>

\* Faulty variant: the index's position is stored instead of the event's block.
CheckConfirmedAtScan(r) ==
  /\ pass.pc = "check"
  /\ r \in DOMAIN rows
  /\ Events(rows[r].tx) # {}
  /\ journal' = [journal EXCEPT ![r].confirmed = scan]
  /\ rows' = Without(rows, r)
  /\ UNCHANGED <<chainVars, call, pass, work, answers, restarts>>

\* The index holds the transaction: its block is stored.  Reading the events,
\* comparing BestIndex and writing `confirmed` is one step here and in the two
\* actions below: nothing but the pass writes that column.
CheckConfirmed(r) ==
  /\ pass.pc = "check"
  /\ r \in DOMAIN rows
  /\ \E index \in Events(rows[r].tx) :
       journal' = [journal EXCEPT ![r].confirmed = index]
  /\ rows' = Without(rows, r)
  /\ UNCHANGED <<chainVars, call, pass, work, answers, restarts>>

\* The index does not hold it, but the stored block is on the selected chain:
\* the index is catching up, and the transaction is left alone.
CheckStillConfirmed(r) ==
  /\ pass.pc = "check"
  /\ r \in DOMAIN rows
  /\ Events(rows[r].tx) = {}
  /\ StillConfirmed(rows[r])
  /\ rows' = Without(rows, r)
  /\ UNCHANGED <<chainVars, journal, call, pass, work, answers, restarts>>

\* Neither holds: a stale confirmation is cleared and the row resubmitted.
CheckUnconfirmed(r) ==
  /\ pass.pc = "check"
  /\ r \in DOMAIN rows
  /\ Events(rows[r].tx) = {}
  /\ ~StillConfirmed(rows[r])
  /\ journal' = IF rows[r].confirmed = Null THEN journal
                ELSE [journal EXCEPT ![r].confirmed = Null]
  /\ rows' = Without(rows, r)
  /\ work' = With(NoRows, r, rows[r])
  /\ pass' = [pass EXCEPT !.pc = "send"]
  /\ UNCHANGED <<chainVars, call, answers, restarts>>

\* updateProofs brought the proofs to the pass's tip: transaction and basis
\* move together.
Moved(row, err) == [row EXCEPT !.basis = pass.tip, !.proof = pass.tip, !.err = err]

ResubmitAccepted(r) ==
  /\ pass.pc = "send"
  /\ r \in DOMAIN work
  /\ SurvivesUpdate(work[r].tx, work[r].proof, pass.tip)
  /\ PoolAccepts(work[r].tx, pass.tip, pass.tip, tip, pool)
  /\ pool' = pool \cup {work[r].tx}
  /\ released' = released \cup {work[r].tx}
  /\ \E broadcastFailed \in BOOLEAN : work' = With(NoRows, r, Moved(work[r], broadcastFailed))
  /\ pass' = [pass EXCEPT !.pc = "save"]
  /\ UNCHANGED <<tip, scan, journal, call, rows, answers, restarts>>

ResubmitRefused(r) ==
  /\ pass.pc = "send"
  /\ r \in DOMAIN work
  /\ SurvivesUpdate(work[r].tx, work[r].proof, pass.tip)
  /\ ~PoolAccepts(work[r].tx, pass.tip, pass.tip, tip, pool)
  /\ work' = With(NoRows, r, Moved(work[r], TRUE))
  /\ pass' = [pass EXCEPT !.pc = "save"]
  /\ UNCHANGED <<chainVars, journal, call, rows, answers, restarts>>

\* Faulty variant: the basis moves even when no updated transaction came back.
BasisWithoutProofs(r) ==
  /\ pass.pc = "send"
  /\ r \in DOMAIN work
  /\ InputReverted(work[r].tx, work[r].proof, pass.tip) \/ pass.tip # tip
  /\ work' = With(NoRows, r, [work[r] EXCEPT !.basis = pass.tip, !.err = TRUE])
  /\ pass' = [pass EXCEPT !.pc = "save"]
  /\ UNCHANGED <<chainVars, journal, call, rows, answers, restarts>>

\* updateProofs returned no transaction: a block on its way holds it, and only
\* the index does not know yet.  The way leads along the selected chain, also
\* when the pass's tip is no longer on it.  Nothing moves; the broadcast of
\* the empty set may fail.
ProofsDropped(r) ==
  /\ pass.pc = "send"
  /\ r \in DOMAIN work
  /\ \E to \in {pass.tip, tip} : ConfirmedOnTheWay(work[r].tx, work[r].proof, to)
  /\ \E broadcastFailed \in BOOLEAN :
       work' = With(NoRows, r, [work[r] EXCEPT !.err = broadcastFailed])
  /\ pass' = [pass EXCEPT !.pc = "save"]
  /\ UNCHANGED <<chainVars, journal, call, rows, answers, restarts>>

\* updateProofs failed: an input is gone with a reverted block, or the chain
\* moved under the update.  The stored proofs and basis stay.
ProofsFailed(r) ==
  /\ pass.pc = "send"
  /\ r \in DOMAIN work
  /\ InputReverted(work[r].tx, work[r].proof, pass.tip) \/ pass.tip # tip
  /\ work' = With(NoRows, r, [work[r] EXCEPT !.err = TRUE])
  /\ pass' = [pass EXCEPT !.pc = "save"]
  /\ UNCHANGED <<chainVars, journal, call, rows, answers, restarts>>

\* UpdateWithdrawal: transaction, basis and error; confirmed stays.
SaveRow(r) ==
  /\ pass.pc = "save"
  /\ r \in DOMAIN work
  /\ journal' = [journal EXCEPT ![r].tx = work[r].tx,
                                ![r].basis = work[r].basis,
                                ![r].proof = work[r].proof,
                                ![r].err = work[r].err]
  /\ work' = NoRows
  /\ pass' = [pass EXCEPT !.pc = "check"]
  /\ UNCHANGED <<chainVars, call, rows, answers, restarts>>

EndPass ==
  /\ pass.pc = "check"
  /\ rows = NoRows
  /\ pass' = [pc |-> "idle", tip |-> <<>>]
  /\ UNCHANGED <<chainVars, journal, call, rows, work, answers, restarts>>
-----------------------------------------------------------------------------
(* The surroundings.                                                       *)

\* The blocks that replace the last `depth` blocks of the chain: one more than
\* they are, with any valid choice of released transactions.
Branches(depth) ==
  LET fork == Len(tip) - depth
      tags(i) == IF i = 1 /\ depth > 0 THEN 1 - tip[fork + 1].tag ELSE 0
  IN  {chain \in {SubSeq(tip, 1, fork) \o [i \in 1..(depth + 1) |->
                     [tag |-> tags(i), txs |-> txs[i]]] :
                   txs \in [1..(depth + 1) -> SUBSET released]} :
         ValidChain(chain)}

\* The chain manager selects a longer chain, by one block; a call of AddBlocks
\* that adds more is several of these steps.  Pool transactions that are still
\* valid, and orphaned ones that are valid again, stay or are dropped.
SelectChain(depth) ==
  /\ depth <= Len(tip)
  /\ Len(tip) < MaxHeight
  /\ tip' \in Branches(depth)
  /\ pool' \in SUBSET {tx \in pool \cup TxsOf(tip) :
                         tx \notin TxsOf(tip') /\ tx.ins \subseteq Unspent(tip')}
  /\ UNCHANGED <<released, scan, journal, call, loopVars, answers, restarts>>

\* The wallet index follows the selected chain one block at a time.
IndexApply ==
  /\ OnBest(scan, tip)
  /\ scan # tip
  /\ scan' = SubSeq(tip, 1, Len(scan) + 1)
  /\ UNCHANGED <<tip, pool, released, journal, call, loopVars, answers, restarts>>

IndexRevert ==
  /\ ~OnBest(scan, tip)
  /\ scan' = SubSeq(scan, 1, Len(scan) - 1)
  /\ UNCHANGED <<tip, pool, released, journal, call, loopVars, answers, restarts>>

\* The process stops anywhere and starts again on its databases: chain, index
\* and journal are kept, the pool and everything in flight are lost.
Restart ==
  /\ restarts < MaxRestarts
  /\ restarts' = restarts + 1
  /\ pool' = {}
  /\ call' = {}
  /\ pass' = [pc |-> "idle", tip |-> <<>>]
  /\ rows' = NoRows /\ work' = NoRows
  /\ UNCHANGED <<tip, released, scan, journal, answers>>
-----------------------------------------------------------------------------
Withdraw ==
  \/ \E r \in Requests, p \in Pars : BeginWithdrawal(r, p) \/ RetryWithdrawal(r, p)
  \/ AbandonWithdrawal
  \/ JournalWithdrawal
  \/ SubmitAccepted
  \/ SubmitRefused
  \/ RecordFailure
  \/ AnswerWithdrawal

PassStep ==
  \/ StartPass
  \/ LoadCandidates
  \/ \E r \in Requests : \/ CheckConfirmed(r)
                         \/ CheckStillConfirmed(r)
                         \/ CheckUnconfirmed(r)
                         \/ ResubmitAccepted(r)
                         \/ ResubmitRefused(r)
                         \/ ProofsDropped(r)
                         \/ ProofsFailed(r)
                         \/ SaveRow(r)
  \/ EndPass

IndexStep == IndexApply \/ IndexRevert

Next ==
  \/ Withdraw
  \/ PassStep
  \/ IndexStep
  \/ \E depth \in 0..MaxDepth : SelectChain(depth)
  \/ Restart

Spec == Init /\ [][Next]_vars

\* The loop is woken by a ticker at the latest and each of its steps returns;
\* the wallet index follows the chain manager.
FairSpec == Spec /\ WF_vars(PassStep) /\ WF_vars(IndexStep)
-----------------------------------------------------------------------------
(* Properties.                                                             *)

\* The state keeps its shape: one call at a time holds op, tables hold rows
\* of known requests, the pass's copies are rows.
TypeOK ==
  /\ tip \in Chain /\ scan \in Chain
  /\ pool \subseteq Tx /\ released \subseteq Tx
  /\ IsTable(journal) /\ IsTable(rows) /\ IsTable(work)
  /\ call \subseteq Call /\ \A c, d \in call : c = d
  /\ pass \in Pass
  /\ answers \subseteq Answer
  /\ restarts \in 0..MaxRestarts

\* No transaction leaves the process before CreateWithdrawal has stored it, and
\* none that a row has stopped standing for: whatever crashes, the journal
\* still knows every payment that may happen.
JournaledBeforeRelease ==
  \A tx \in released : tx.req \in DOMAIN journal /\ journal[tx.req].tx = tx

\* The selected chain never pays a request identifier twice, also when the
\* client repeats it after a crash or an error.
PaidAtMostOnce ==
  \A tx, other \in TxsOf(tip) : tx.req = other.req => tx = other

\* Every answer CreateWithdrawal gave still describes the row: same parameters,
\* same transaction.
AnswersBound ==
  \A a \in answers : /\ a.req \in DOMAIN journal
                     /\ a.tx = journal[a.req].tx
                     /\ a.par = a.tx.par

\* transaction_blob and basis always fit each other, although the handler and
\* the pass write the row without a common lock: a row whose proofs are not at
\* its basis could never be resubmitted.
ProofMatchesBasis ==
  \A r \in DOMAIN journal : journal[r].proof = journal[r].basis

\* A stored confirmation names a block that really holds the transaction: the
\* reorganization check compares that block with the selected chain.
ConfirmationHoldsTx ==
  \A r \in DOMAIN journal :
    journal[r].confirmed # Null
      => journal[r].tx \in journal[r].confirmed[Height(journal[r].confirmed)].txs

\* Once the wallet index has reached the tip, withdrawalView says "confirmed"
\* exactly for what the selected chain holds.
SyncedStatusExact ==
  scan = tip => \A r \in DOMAIN journal :
    Status(journal[r]) = "confirmed" <=> journal[r].tx \in TxsOf(tip)

\* A reorganization no deeper than the window, to a chain one block longer,
\* leaves every withdrawal it orphans among the rows that a pass on the new tip
\* reads: the cutoff of RebroadcastCandidates has no off-by-one.  (When the chain
\* grows further before that pass, see LostSight.)
OrphansInReach ==
  [][\A r \in DOMAIN journal :
       (StillConfirmed(journal[r]) /\ ~OnBest(journal[r].confirmed, tip'))
         => IsCandidate(journal[r], Height(tip'))]_vars

\* The wallet never lets one of its withdrawals spend, on the selected chain,
\* the inputs of another one it has accepted and answered (README.md: "keeps
\* accepted transactions alive across restarts and reorganizations").
AcceptedKeepsInputs ==
  \A a \in answers, tx \in TxsOf(tip) :
    tx # a.tx => tx.ins \cap a.tx.ins = {}

\* Why a stored withdrawal may be left where it is.  Its confirmation was
\* orphaned, and by the time a pass comes it lies more than the window below the
\* tip: the query no longer reads the row, although its inputs may be unspent.
\* docs/operations.md excepts deeper reorganizations only, and not late passes.
LostSight(row) ==
  row.confirmed # Null /\ ~OnBest(row.confirmed, tip) /\ ~IsCandidate(row, Height(tip))

\* Another withdrawal has one of its coins, on the chain or in the pool.
InputTaken(row) ==
  \E tx \in TxsOf(tip) \cup pool : tx # row.tx /\ tx.ins \cap row.tx.ins # {}

\* When chain and process settle, so does the journal.  Every stored withdrawal
\* is in the selected chain and its row names the block, or it is in the pool
\* and its row names none, unless the pass has lost sight of it, another one
\* took its coin, or a coin it spends was made by a block that is gone with the
\* proofs stored for it; nothing else stops a row, neither a refused submission,
\* a lagging index, a lost pool nor a crash between two steps.
Settles ==
  <>[](\A r \in DOMAIN journal :
         \/ journal[r].confirmed \in Confirming(journal[r].tx, tip)
         \/ journal[r].tx \in pool /\ journal[r].confirmed = Null
         \/ LostSight(journal[r])
         \/ InputTaken(journal[r])
         \/ InputReverted(journal[r].tx, journal[r].proof, tip))

\* The detailed specification keeps the promise of Payments: the journal is
\* the binding, pool acceptance the release.
P == INSTANCE Payments WITH bound <- [r \in DOMAIN journal |-> journal[r].tx],
                            Transactions <- Tx

ImplementsPayments == P!Spec
=============================================================================
