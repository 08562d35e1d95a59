---------------------------- MODULE CustodyProofs ----------------------------
(***************************************************************************)
(* Proofs about Custody for every number of requests, coins, blocks and    *)
(* restarts.                                                               *)
(***************************************************************************)
EXTENDS Custody, SequenceTheorems, TLAPS

-----------------------------------------------------------------------------
(* Tables of rows.                                                         *)

\* Replacing or adding one row leaves a table a table.
LEMMA WithIsTable ==
  ASSUME NEW f, IsTable(f), NEW r \in Requests, NEW row \in Row
  PROVE  IsTable(With(f, r, row))
BY DEF IsTable, With

\* Taking a row out of a table leaves a table.
LEMMA WithoutIsTable ==
  ASSUME NEW f, IsTable(f), NEW r
  PROVE  IsTable(Without(f, r))
BY DEF IsTable, Without

\* The empty table is one.
LEMMA NoRowsIsTable == IsTable(NoRows)
BY DEF IsTable, NoRows

\* A chain cut at a height is a chain.
LEMMA CutIsChain ==
  ASSUME NEW c \in Chain, NEW h \in 0..Len(c)
  PROVE  SubSeq(c, 1, h) \in Chain
BY DEF Chain

\* A chain the chain manager may select is made of blocks.
LEMMA BranchIsChain ==
  ASSUME tip \in Chain, released \subseteq Tx,
         NEW depth \in Nat, depth <= Len(tip),
         NEW c \in Branches(depth)
  PROVE  c \in Chain
<1> DEFINE fork == Len(tip) - depth
           tags(i) == IF i = 1 /\ depth > 0 THEN 1 - tip[fork + 1].tag ELSE 0
<1>1. PICK txs \in [1..(depth + 1) -> SUBSET released] :
        c = SubSeq(tip, 1, fork) \o
              [i \in 1..(depth + 1) |-> [tag |-> tags(i), txs |-> txs[i]]]
  BY DEF Branches
<1>2. Len(tip) \in Nat /\ fork \in 0..Len(tip)
  BY DEF Chain
<1>3. \A i \in 1..(depth + 1) : tags(i) \in {0, 1}
  <2>1. depth > 0 => fork + 1 \in 1..Len(tip)
    BY <1>2
  <2>2. depth > 0 => tip[fork + 1] \in Block
    BY <2>1 DEF Chain
  <2> QED BY <2>2 DEF Block
<1>4. [i \in 1..(depth + 1) |-> [tag |-> tags(i), txs |-> txs[i]]] \in Chain
  <2>1. \A i \in 1..(depth + 1) : [tag |-> tags(i), txs |-> txs[i]] \in Block
    BY <1>3 DEF Block
  <2> QED BY <2>1 DEF Chain
<1>5. SubSeq(tip, 1, fork) \in Chain
  BY <1>2, CutIsChain
<1> QED BY <1>1, <1>4, <1>5 DEF Chain

\* The transactions of a chain are transactions.
LEMMA TxsOfChain ==
  ASSUME NEW c \in Chain
  PROVE  TxsOf(c) \subseteq Tx
<1> SUFFICES ASSUME NEW tx \in TxsOf(c) PROVE tx \in Tx
  OBVIOUS
<1>1. PICK i \in 1..Len(c) : tx \in c[i].txs
  BY DEF TxsOf, TxsAbove
<1>2. c[i] \in Block
  BY DEF Chain
<1> QED BY <1>1, <1>2 DEF Block
-----------------------------------------------------------------------------
(* Type correctness.                                                       *)

\* Every row of a table is a row, of a known request.
LEMMA RowOfTable ==
  ASSUME NEW f, IsTable(f), NEW r \in DOMAIN f
  PROVE  f[r] \in Row /\ r \in Requests
BY DEF IsTable

\* A table keeps its shape when columns of one row are written.
LEMMA UpdateIsTable ==
  ASSUME NEW f, IsTable(f), NEW r, NEW tx \in Tx, NEW basis \in Chain,
         NEW proof \in Chain, NEW err \in BOOLEAN
  PROVE  IsTable([f EXCEPT ![r].tx = tx, ![r].basis = basis,
                           ![r].proof = proof, ![r].err = err])
<1> DEFINE g == [f EXCEPT ![r].tx = tx, ![r].basis = basis,
                          ![r].proof = proof, ![r].err = err]
<1>1. DOMAIN g = DOMAIN f
  BY DEF IsTable
<1>2. ASSUME NEW q \in DOMAIN f PROVE g[q] \in Row
  <2>1. f[q] \in Row
    BY DEF IsTable
  <2>2. q # r => g[q] = f[q]
    BY DEF IsTable
  <2>3. q = r => g[q] = [f[r] EXCEPT !.tx = tx, !.basis = basis,
                                     !.proof = proof, !.err = err]
    BY DEF IsTable
  <2>4. [f[q] EXCEPT !.tx = tx, !.basis = basis, !.proof = proof, !.err = err] \in Row
    BY <2>1 DEF Row
  <2> QED BY <2>1, <2>2, <2>3, <2>4
<1>3. g \in [DOMAIN f -> Row]
  <2>1. g = [q \in DOMAIN f |-> g[q]]
    BY DEF IsTable
  <2> HIDE DEF g
  <2> QED BY <1>1, <1>2, <2>1
<1> QED BY <1>1, <1>3 DEF IsTable

\* Storing a confirmation in a row leaves a table.
LEMMA ConfirmIsTable ==
  ASSUME NEW f, IsTable(f), NEW r, NEW index \in Chain
  PROVE  IsTable([f EXCEPT ![r].confirmed = index])
BY DEF IsTable, Row

\* The initial state has its shape.
LEMMA InitTypeOK == Init => TypeOK
BY CustodyAssumption, NoRowsIsTable DEF Init, TypeOK, Chain, Pass

\* The steps of CreateWithdrawal keep the shape.
LEMMA WithdrawTypeOK == TypeOK /\ Withdraw => TypeOK'
<1> SUFFICES ASSUME TypeOK, Withdraw PROVE TypeOK'
  OBVIOUS
<1> USE DEF chainVars, loopVars
<1>1. ASSUME NEW r \in Requests, NEW p \in Pars, BeginWithdrawal(r, p) PROVE TypeOK'
  <2>1. PICK t \in Transfers(Spendable(tip), p) :
          call' = {[pc |-> "built", cs |-> tip,
                    tx |-> [req |-> r, par |-> p, ins |-> t.ins, change |-> t.change]]}
    BY <1>1 DEF BeginWithdrawal
  <2>2. t.ins \in SUBSET Coin /\ t.change \in 0..Supply
    <3>1. t.ins \subseteq Spendable(tip) /\ t.change \in 0..Supply
      BY DEF Transfers
    <3>2. Spendable(tip) \subseteq Deposits \cup CoinsOf(TxsOf(tip))
      BY DEF Spendable, Unspent
    <3>3. CoinsOf(TxsOf(tip)) \subseteq Coin
      <4>1. ASSUME NEW tx \in TxsOf(tip) PROVE tx \in Tx
        BY TxsOfChain DEF TypeOK
      <4>2. ASSUME NEW tx \in Tx PROVE Created(tx) \subseteq Coin
        BY DEF Created, Tx, Coin
      <4> QED BY <4>1, <4>2 DEF CoinsOf
    <3> QED BY <3>1, <3>2, <3>3 DEF Coin
  <2>3. call' \subseteq Call
    BY <2>1, <2>2 DEF Call, Tx, TypeOK
  <2> QED BY <1>1, <2>1, <2>3 DEF BeginWithdrawal, TypeOK
<1>2. ASSUME NEW r \in Requests, NEW p \in Pars, RetryWithdrawal(r, p) PROVE TypeOK'
  <2>1. journal[r] \in Row
    BY <1>2, RowOfTable DEF RetryWithdrawal, TypeOK
  <2> QED BY <1>2, <2>1 DEF RetryWithdrawal, TypeOK, Answer, Row
<1>3. CASE AbandonWithdrawal
  BY <1>3 DEF AbandonWithdrawal, TypeOK
<1>4. CASE JournalWithdrawal
  <2>1. PICK c \in call :
          /\ journal' = With(journal, c.tx.req,
                             [tx |-> c.tx, basis |-> c.cs, proof |-> c.cs,
                              confirmed |-> Null, err |-> FALSE])
          /\ call' = {[c EXCEPT !.pc = "journaled"]}
    BY <1>4 DEF JournalWithdrawal
  <2>2. c \in Call
    BY DEF TypeOK
  <2>3. IsTable(journal')
    <3>1. c.tx.req \in Requests /\ c.tx \in Tx /\ c.cs \in Chain /\ Null \in Chain
      BY <2>2 DEF Call, Tx, Chain, Null
    <3>2. [tx |-> c.tx, basis |-> c.cs, proof |-> c.cs,
           confirmed |-> Null, err |-> FALSE] \in Row
      BY <3>1 DEF Row
    <3> QED BY <2>1, <3>1, <3>2, WithIsTable DEF TypeOK
  <2>4. call' \subseteq Call
    BY <2>1, <2>2 DEF Call
  <2> QED BY <1>4, <2>1, <2>3, <2>4 DEF JournalWithdrawal, TypeOK
<1>5. CASE SubmitAccepted
  BY <1>5 DEF SubmitAccepted, TypeOK, Call
<1>6. CASE SubmitRefused
  BY <1>6 DEF SubmitRefused, TypeOK, Call
<1>7. CASE RecordFailure
  <2>1. PICK c \in call :
          /\ journal' = [journal EXCEPT ![c.tx.req].tx = c.tx,
                                        ![c.tx.req].basis = c.cs,
                                        ![c.tx.req].proof = c.cs,
                                        ![c.tx.req].err = TRUE]
          /\ call' = {[c EXCEPT !.pc = "done"]}
    BY <1>7 DEF RecordFailure
  <2>2. c \in Call
    BY DEF TypeOK
  <2>3. IsTable(journal')
    BY <2>1, <2>2, UpdateIsTable DEF TypeOK, Call
  <2>4. call' \subseteq Call
    BY <2>1, <2>2 DEF Call
  <2> QED BY <1>7, <2>1, <2>3, <2>4 DEF RecordFailure, TypeOK
<1>8. CASE AnswerWithdrawal
  BY <1>8 DEF AnswerWithdrawal, TypeOK, Call, Answer, Tx
<1> QED BY <1>1, <1>2, <1>3, <1>4, <1>5, <1>6, <1>7, <1>8 DEF Withdraw

\* The steps of a rebroadcast pass keep the shape.
LEMMA PassTypeOK == TypeOK /\ PassStep => TypeOK'
<1> SUFFICES ASSUME TypeOK, PassStep PROVE TypeOK'
  OBVIOUS
<1> USE DEF chainVars, loopVars
<1>1. CASE StartPass
  BY <1>1 DEF StartPass, TypeOK, Pass
<1>2. CASE LoadCandidates
  <2>1. IsTable(rows')
    BY <1>2 DEF LoadCandidates, TypeOK, IsTable
  <2> QED BY <1>2, <2>1 DEF LoadCandidates, TypeOK, Pass
<1>3. ASSUME NEW r \in Requests, CheckConfirmed(r) PROVE TypeOK'
  <2>1. PICK index \in Events(rows[r].tx) :
          journal' = [journal EXCEPT ![r].confirmed = index]
    BY <1>3 DEF CheckConfirmed
  <2>2. index \in Chain
    <3>1. PICK h \in 1..Len(scan) : index = SubSeq(scan, 1, h)
      BY DEF Events, Confirming
    <3>2. h \in 0..Len(scan)
      BY DEF TypeOK, Chain
    <3> QED BY <3>1, <3>2, CutIsChain DEF TypeOK
  <2>3. IsTable(journal') /\ IsTable(rows')
    BY <1>3, <2>1, <2>2, ConfirmIsTable, WithoutIsTable DEF CheckConfirmed, TypeOK
  <2> QED BY <1>3, <2>3 DEF CheckConfirmed, TypeOK
<1>4. ASSUME NEW r \in Requests, CheckStillConfirmed(r) PROVE TypeOK'
  BY <1>4, WithoutIsTable DEF CheckStillConfirmed, TypeOK
<1>5. ASSUME NEW r \in Requests, CheckUnconfirmed(r) PROVE TypeOK'
  <2>1. Null \in Chain
    BY DEF Null, Chain
  <2>2. IsTable(journal')
    BY <1>5, <2>1, ConfirmIsTable DEF CheckUnconfirmed, TypeOK
  <2>3. IsTable(rows') /\ IsTable(work')
    BY <1>5, RowOfTable, NoRowsIsTable, WithIsTable, WithoutIsTable
       DEF CheckUnconfirmed, TypeOK
  <2> QED BY <1>5, <2>2, <2>3 DEF CheckUnconfirmed, TypeOK, Pass
<1>6. ASSUME NEW r \in DOMAIN work, NEW err \in BOOLEAN
      PROVE  /\ IsTable(With(NoRows, r, Moved(work[r], err)))
             /\ IsTable(With(NoRows, r, [work[r] EXCEPT !.err = err]))
             /\ work[r].tx \in Tx
  <2>1. work[r] \in Row /\ r \in Requests
    BY RowOfTable DEF TypeOK
  <2>2. pass.tip \in Chain
    BY DEF TypeOK, Pass
  <2>3. Moved(work[r], err) \in Row /\ [work[r] EXCEPT !.err = err] \in Row
    BY <2>1, <2>2 DEF Moved, Row
  <2> QED BY <2>1, <2>3, NoRowsIsTable, WithIsTable DEF Row
<1>7. ASSUME NEW r \in Requests, ResubmitAccepted(r) PROVE TypeOK'
  <2>1. IsTable(work') /\ work[r].tx \in Tx
    BY <1>6, <1>7 DEF ResubmitAccepted
  <2> QED BY <1>7, <2>1 DEF ResubmitAccepted, TypeOK, Pass
<1>8. ASSUME NEW r \in Requests, ResubmitRefused(r) PROVE TypeOK'
  <2>1. IsTable(work')
    BY <1>6, <1>8 DEF ResubmitRefused
  <2> QED BY <1>8, <2>1 DEF ResubmitRefused, TypeOK, Pass
<1>9. ASSUME NEW r \in Requests, ProofsDropped(r) PROVE TypeOK'
  <2>1. IsTable(work')
    BY <1>6, <1>9 DEF ProofsDropped
  <2> QED BY <1>9, <2>1 DEF ProofsDropped, TypeOK, Pass
<1>10. ASSUME NEW r \in Requests, ProofsFailed(r) PROVE TypeOK'
  <2>1. IsTable(work')
    BY <1>6, <1>10 DEF ProofsFailed
  <2> QED BY <1>10, <2>1 DEF ProofsFailed, TypeOK, Pass
<1>11. ASSUME NEW r \in Requests, SaveRow(r) PROVE TypeOK'
  <2>1. work[r] \in Row
    BY <1>11, RowOfTable DEF SaveRow, TypeOK
  <2>2. /\ work[r].tx \in Tx /\ work[r].basis \in Chain
        /\ work[r].proof \in Chain /\ work[r].err \in BOOLEAN
    BY <2>1 DEF Row
  <2>3. IsTable(journal')
    BY <1>11, <2>2, UpdateIsTable DEF SaveRow, TypeOK
  <2> QED BY <1>11, <2>3, NoRowsIsTable DEF SaveRow, TypeOK, Pass
<1>12. CASE EndPass
  BY <1>12 DEF EndPass, TypeOK, Pass, Chain
<1> QED BY <1>1, <1>2, <1>3, <1>4, <1>5, <1>7, <1>8, <1>9, <1>10, <1>11, <1>12
        DEF PassStep

\* Chain, index and restarts keep the shape.
LEMMA SurroundingsTypeOK ==
  ASSUME TypeOK,
         IndexStep \/ (\E depth \in 0..MaxDepth : SelectChain(depth)) \/ Restart
  PROVE  TypeOK'
<1> USE DEF chainVars, loopVars
<1>1. CASE IndexApply
  <2>1. Len(scan) + 1 \in 0..Len(tip)
    <3>1. Len(scan) \in Nat /\ Len(tip) \in Nat /\ Len(scan) <= Len(tip)
      BY <1>1 DEF IndexApply, OnBest, TypeOK, Chain
    <3>2. Len(scan) # Len(tip)
      <4>1. SUFFICES ASSUME Len(scan) = Len(tip) PROVE scan = tip
        BY <1>1 DEF IndexApply
      <4> QED BY <1>1, <4>1, SeqEqual DEF IndexApply, OnBest, TypeOK, Chain
    <3> QED BY <3>1, <3>2
  <2>2. scan' \in Chain
    BY <1>1, <2>1, CutIsChain DEF IndexApply, TypeOK
  <2> QED BY <1>1, <2>2 DEF IndexApply, TypeOK
<1>2. CASE IndexRevert
  <2>1. Len(scan) - 1 \in 0..Len(scan)
    <3>1. Len(scan) \in Nat /\ Len(tip) \in Nat
      BY DEF TypeOK, Chain
    <3>2. Len(scan) # 0
      BY <1>2, <3>1 DEF IndexRevert, OnBest
    <3> QED BY <3>1, <3>2
  <2>2. scan' \in Chain
    BY <1>2, <2>1, CutIsChain DEF IndexRevert, TypeOK
  <2> QED BY <1>2, <2>2 DEF IndexRevert, TypeOK
<1>3. ASSUME NEW depth \in 0..MaxDepth, SelectChain(depth) PROVE TypeOK'
  <2>1. tip' \in Chain
    BY <1>3, BranchIsChain, CustodyAssumption DEF SelectChain, TypeOK
  <2>2. pool' \subseteq Tx
    <3>1. TxsOf(tip) \subseteq Tx
      BY TxsOfChain DEF TypeOK
    <3> QED BY <1>3, <3>1 DEF SelectChain, TypeOK
  <2> QED BY <1>3, <2>1, <2>2 DEF SelectChain, TypeOK
<1>4. CASE Restart
  BY <1>4, NoRowsIsTable, CustodyAssumption DEF Restart, TypeOK, Pass, Chain
<1> QED BY <1>1, <1>2, <1>3, <1>4 DEF IndexStep

\* The shape of the state is kept by every step of daemon, chain and index.
THEOREM TypeCorrect == Spec => []TypeOK
<1>1. TypeOK /\ [Next]_vars => TypeOK'
  <2>1. TypeOK /\ UNCHANGED vars => TypeOK'
    BY DEF vars, chainVars, loopVars, TypeOK
  <2> QED BY <2>1, WithdrawTypeOK, PassTypeOK, SurroundingsTypeOK DEF Next
<1> QED BY <1>1, InitTypeOK, PTL DEF Spec
-----------------------------------------------------------------------------
(* Binding.  JournaledBeforeRelease is not inductive: what the handler and *)
(* the pass hold in their local variables between two steps must be what   *)
(* the row says, or their next submission releases something else.         *)

\* A row is stored under the request its transaction pays.
RowsKeyed == \A r \in DOMAIN journal : journal[r].tx.req = r

\* A copy the pass holds carries the transaction of the row.
CopyBound(f) ==
  \A r \in DOMAIN f : r \in DOMAIN journal /\ f[r].tx = journal[r].tx

\* A call past its insert carries the transaction of the row.
CallBound ==
  \A c \in call : c.pc # "built" => /\ c.tx.req \in DOMAIN journal
                                    /\ journal[c.tx.req].tx = c.tx

\* The selected chain holds no transaction of the wallet that was not released.
ChainReleased == \A i \in 1..Len(tip) : tip[i].txs \subseteq released

Bound == /\ TypeOK
         /\ RowsKeyed
         /\ CopyBound(rows)
         /\ CopyBound(work)
         /\ CallBound
         /\ JournaledBeforeRelease
         /\ AnswersBound
         /\ ChainReleased

\* Rows stay, and keep their transactions.
SameBinding == /\ DOMAIN journal' = DOMAIN journal
               /\ \A r \in DOMAIN journal : journal'[r].tx = journal[r].tx

\* Nothing is bound at the start.
LEMMA InitBound == Init => Bound
<1> SUFFICES ASSUME Init PROVE Bound
  OBVIOUS
<1>1. DOMAIN journal = {} /\ DOMAIN rows = {} /\ DOMAIN work = {}
  BY DEF Init, NoRows
<1>2. tip = <<>> /\ call = {} /\ released = {} /\ answers = {}
  BY DEF Init
<1> QED BY <1>1, <1>2, InitTypeOK
        DEF Bound, RowsKeyed, CopyBound, CallBound, JournaledBeforeRelease,
            AnswersBound, ChainReleased

\* UpdateWithdrawal with the row's own transaction keeps every binding.
LEMMA UpdateKeepsBinding ==
  ASSUME TypeOK, NEW r \in DOMAIN journal, NEW tx, tx = journal[r].tx,
         NEW basis, NEW proof, NEW err,
         journal' = [journal EXCEPT ![r].tx = tx, ![r].basis = basis,
                                    ![r].proof = proof, ![r].err = err]
  PROVE  SameBinding
<1>1. journal[r] \in Row
  BY RowOfTable DEF TypeOK
<1>2. DOMAIN journal' = DOMAIN journal
  BY DEF TypeOK, IsTable
<1>3. ASSUME NEW q \in DOMAIN journal PROVE journal'[q].tx = journal[q].tx
  <2>1. q # r => journal'[q] = journal[q]
    BY DEF TypeOK, IsTable
  <2>2. q = r => journal'[q].tx = tx
    BY <1>1 DEF TypeOK, IsTable, Row
  <2> QED BY <2>1, <2>2
<1> QED BY <1>2, <1>3 DEF SameBinding

\* So does SetWithdrawalConfirmation.
LEMMA ConfirmKeepsBinding ==
  ASSUME TypeOK, NEW r, NEW index,
         journal' = [journal EXCEPT ![r].confirmed = index]
  PROVE  SameBinding
<1>1. DOMAIN journal' = DOMAIN journal
  BY DEF TypeOK, IsTable
<1>2. ASSUME NEW q \in DOMAIN journal PROVE journal'[q].tx = journal[q].tx
  <2>1. journal[q] \in Row
    BY RowOfTable DEF TypeOK
  <2> QED BY <2>1 DEF TypeOK, IsTable, Row
<1> QED BY <1>1, <1>2 DEF SameBinding

\* A step that keeps the rows' transactions keeps the invariant if what it
\* adds to copies, calls, releases, answers and chain is bound.
LEMMA SameBindingKeeps ==
  ASSUME Bound, TypeOK', SameBinding,
         \A r \in DOMAIN rows' : r \in DOMAIN journal /\ rows'[r].tx = journal[r].tx,
         \A r \in DOMAIN work' : r \in DOMAIN journal /\ work'[r].tx = journal[r].tx,
         \A c \in call' : c.pc # "built" => /\ c.tx.req \in DOMAIN journal
                                            /\ journal[c.tx.req].tx = c.tx,
         \A tx \in released' : tx.req \in DOMAIN journal /\ journal[tx.req].tx = tx,
         \A a \in answers' : /\ a.req \in DOMAIN journal
                             /\ a.tx = journal[a.req].tx
                             /\ a.par = a.tx.par,
         \A i \in 1..Len(tip') : tip'[i].txs \subseteq released'
  PROVE  Bound'
BY DEF Bound, SameBinding, RowsKeyed, CopyBound, CallBound,
       JournaledBeforeRelease, AnswersBound, ChainReleased

\* A selected branch is one block longer, keeps everything below the fork and
\* holds released transactions above it.
LEMMA BranchShape ==
  ASSUME tip \in Chain,
         NEW depth \in Nat, depth <= Len(tip),
         NEW c \in Branches(depth)
  PROVE  /\ Len(c) = Len(tip) + 1
         /\ \A i \in 1..(Len(tip) - depth) : c[i] = tip[i]
         /\ \A i \in (Len(tip) - depth + 1)..Len(c) : c[i].txs \subseteq released
<1> DEFINE fork == Len(tip) - depth
           tags(i) == IF i = 1 /\ depth > 0 THEN 1 - tip[fork + 1].tag ELSE 0
           kept == SubSeq(tip, 1, fork)
<1>1. PICK txs \in [1..(depth + 1) -> SUBSET released] :
        c = kept \o [i \in 1..(depth + 1) |-> [tag |-> tags(i), txs |-> txs[i]]]
  BY DEF Branches
<1> DEFINE new == [i \in 1..(depth + 1) |-> [tag |-> tags(i), txs |-> txs[i]]]
<1>2. Len(tip) \in Nat /\ fork \in 0..Len(tip)
  BY DEF Chain
<1>3. kept \in Chain /\ Len(kept) = fork /\ \A i \in 1..fork : kept[i] = tip[i]
  BY <1>2, CutIsChain DEF Chain
<1> DEFINE new_block == {[tag |-> tags(i), txs |-> txs[i]] : i \in 1..(depth + 1)}
<1>4. new \in Seq(new_block) /\ Len(new) = depth + 1
      /\ \A i \in 1..(depth + 1) : new[i].txs \subseteq released
  <2>1. new \in [1..(depth + 1) -> new_block]
    OBVIOUS
  <2>2. \A i \in 1..(depth + 1) : new[i].txs = txs[i]
    OBVIOUS
  <2> HIDE DEF new, new_block
  <2> QED BY <2>1, <2>2
<1> HIDE DEF new, kept, new_block
<1>5. c = kept \o new
  BY <1>1 DEF new
<1> DEFINE blocks == Block \cup new_block
<1>6. kept \in Seq(blocks) /\ new \in Seq(blocks)
  BY <1>3, <1>4, SeqMonotonic DEF Chain
<1>7. /\ Len(c) = Len(kept) + Len(new)
      /\ \A i \in 1..(Len(kept) + Len(new)) :
           c[i] = IF i <= Len(kept) THEN kept[i] ELSE new[i - Len(kept)]
  <2> HIDE DEF blocks
  <2> QED BY <1>6, <1>5, ConcatProperties
<1>8. Len(c) = Len(tip) + 1
  BY <1>2, <1>3, <1>4, <1>7
<1> HIDE DEF fork
<1>9. \A i \in 1..fork : c[i] = tip[i]
  BY <1>2, <1>3, <1>4, <1>7
<1>10. ASSUME NEW i \in (fork + 1)..Len(c) PROVE c[i].txs \subseteq released
  <2>1. c[i] = new[i - fork] /\ i - fork \in 1..(depth + 1)
    BY <1>2, <1>3, <1>4, <1>7
  <2> QED BY <2>1, <1>4
<1> QED BY <1>8, <1>9, <1>10 DEF fork

\* What a chain may be extended with has been released.
LEMMA BranchReleased ==
  ASSUME tip \in Chain, ChainReleased,
         NEW depth \in Nat, depth <= Len(tip),
         NEW c \in Branches(depth)
  PROVE  \A i \in 1..Len(c) : c[i].txs \subseteq released
<1> SUFFICES ASSUME NEW i \in 1..Len(c) PROVE c[i].txs \subseteq released
  OBVIOUS
<1>1. Len(tip) \in Nat
  BY DEF Chain
<1>2. CASE i <= Len(tip) - depth
  BY <1>1, <1>2, BranchShape DEF ChainReleased
<1>3. CASE ~(i <= Len(tip) - depth)
  <2>1. i \in (Len(tip) - depth + 1)..Len(c)
    BY <1>1, <1>3, BranchShape
  <2> QED BY <2>1, BranchShape
<1> QED BY <1>2, <1>3

\* Inserting the row of a new request keeps every binding.
LEMMA JournalBound == Bound /\ TypeOK' /\ JournalWithdrawal => Bound'
<1> SUFFICES ASSUME Bound, TypeOK', JournalWithdrawal PROVE Bound'
  OBVIOUS
<1> USE DEF chainVars, loopVars
<1>1. PICK c \in call :
        /\ c.tx.req \notin DOMAIN journal
        /\ journal' = With(journal, c.tx.req,
                           [tx |-> c.tx, basis |-> c.cs, proof |-> c.cs,
                            confirmed |-> Null, err |-> FALSE])
        /\ call' = {[c EXCEPT !.pc = "journaled"]}
  BY DEF JournalWithdrawal
<1>2. c \in Call
  BY DEF Bound, TypeOK
<1>3. /\ DOMAIN journal' = DOMAIN journal \cup {c.tx.req}
      /\ journal'[c.tx.req].tx = c.tx
      /\ \A r \in DOMAIN journal : journal'[r] = journal[r]
  BY <1>1 DEF With
<1>4. UNCHANGED <<rows, work, released, answers, tip>>
  BY DEF JournalWithdrawal
<1>5. CallBound'
  <2>1. \A d \in call' : d.tx = c.tx
    BY <1>1, <1>2 DEF Call
  <2> QED BY <1>3, <2>1 DEF CallBound
<1>6. RowsKeyed'
  BY <1>3 DEF RowsKeyed, Bound
<1>7. CopyBound(rows)' /\ CopyBound(work)'
  BY <1>3, <1>4 DEF CopyBound, Bound
<1>8. JournaledBeforeRelease' /\ AnswersBound' /\ ChainReleased'
  BY <1>3, <1>4 DEF JournaledBeforeRelease, AnswersBound, ChainReleased, Bound
<1> QED BY <1>5, <1>6, <1>7, <1>8 DEF Bound

\* The other steps of CreateWithdrawal write the row's own transaction only.
LEMMA WithdrawBound == Bound /\ TypeOK' /\ Withdraw => Bound'
<1> SUFFICES ASSUME Bound, TypeOK', Withdraw PROVE Bound'
  OBVIOUS
<1> USE DEF chainVars, loopVars
<1>0. TypeOK
  BY DEF Bound
<1>1. ASSUME NEW r \in Requests, NEW p \in Pars, BeginWithdrawal(r, p) PROVE Bound'
  <2>1. \A c \in call' : c.pc = "built"
    BY <1>1 DEF BeginWithdrawal
  <2> QED BY <1>1, <2>1, SameBindingKeeps
          DEF BeginWithdrawal, SameBinding, Bound, CopyBound,
              JournaledBeforeRelease, AnswersBound, ChainReleased
<1>2. ASSUME NEW r \in Requests, NEW p \in Pars, RetryWithdrawal(r, p) PROVE Bound'
  BY <1>2, SameBindingKeeps
     DEF RetryWithdrawal, SameBinding, Bound, CopyBound, CallBound,
         JournaledBeforeRelease, AnswersBound, ChainReleased
<1>3. CASE AbandonWithdrawal
  BY <1>3, SameBindingKeeps
     DEF AbandonWithdrawal, SameBinding, Bound, CopyBound,
         JournaledBeforeRelease, AnswersBound, ChainReleased
<1>4. CASE SubmitAccepted
  <2>1. PICK c \in call, broadcast \in {"done", "failed"} :
          /\ c.pc = "journaled"
          /\ released' = released \cup {c.tx}
          /\ call' = {[c EXCEPT !.pc = broadcast]}
    BY <1>4 DEF SubmitAccepted
  <2>2. c.tx.req \in DOMAIN journal /\ journal[c.tx.req].tx = c.tx
    BY <2>1 DEF Bound, CallBound
  <2>3. \A d \in call' : d.tx = c.tx
    BY <1>0, <2>1 DEF TypeOK, Call
  <2>4. UNCHANGED <<tip, scan, journal, rows, work, answers>>
    BY <1>4 DEF SubmitAccepted
  <2> QED BY <2>1, <2>2, <2>3, <2>4, SameBindingKeeps
          DEF SameBinding, Bound, CopyBound, JournaledBeforeRelease,
              AnswersBound, ChainReleased
<1>5. CASE SubmitRefused
  <2>1. \A d \in call' : d.tx.req \in DOMAIN journal /\ journal[d.tx.req].tx = d.tx
    BY <1>0, <1>5 DEF SubmitRefused, Bound, CallBound, TypeOK, Call
  <2> QED BY <1>5, <2>1, SameBindingKeeps
          DEF SubmitRefused, SameBinding, Bound, CopyBound,
              JournaledBeforeRelease, AnswersBound, ChainReleased
<1>6. CASE RecordFailure
  <2>1. PICK c \in call :
          /\ c.pc = "failed"
          /\ journal' = [journal EXCEPT ![c.tx.req].tx = c.tx,
                                        ![c.tx.req].basis = c.cs,
                                        ![c.tx.req].proof = c.cs,
                                        ![c.tx.req].err = TRUE]
          /\ call' = {[c EXCEPT !.pc = "done"]}
    BY <1>6 DEF RecordFailure
  <2>2. c.tx.req \in DOMAIN journal /\ journal[c.tx.req].tx = c.tx
    BY <2>1 DEF Bound, CallBound
  <2>3. SameBinding
    BY <1>0, <2>1, <2>2, UpdateKeepsBinding
  <2>4. \A d \in call' : d.tx = c.tx
    BY <1>0, <2>1 DEF TypeOK, Call
  <2>5. UNCHANGED <<tip, released, rows, work, answers>>
    BY <1>6 DEF RecordFailure
  <2> QED BY <2>2, <2>3, <2>4, <2>5, SameBindingKeeps
          DEF Bound, CopyBound, JournaledBeforeRelease, AnswersBound, ChainReleased
<1>7. CASE AnswerWithdrawal
  <2>1. PICK c \in call :
          /\ c.pc = "done"
          /\ answers' \in {answers, answers \cup {[req |-> c.tx.req, par |-> c.tx.par, tx |-> c.tx]}}
          /\ call' = {}
    BY <1>7 DEF AnswerWithdrawal
  <2>2. c.tx.req \in DOMAIN journal /\ journal[c.tx.req].tx = c.tx
    BY <2>1 DEF Bound, CallBound
  <2> QED BY <1>7, <2>1, <2>2, SameBindingKeeps
          DEF AnswerWithdrawal, SameBinding, Bound, CopyBound,
              JournaledBeforeRelease, AnswersBound, ChainReleased
<1> QED BY <1>1, <1>2, <1>3, <1>4, <1>5, <1>6, <1>7, JournalBound DEF Withdraw

\* A pass reads rows, and writes back and releases what it has read.
LEMMA PassBound == Bound /\ TypeOK' /\ PassStep => Bound'
<1> SUFFICES ASSUME Bound, TypeOK', PassStep PROVE Bound'
  OBVIOUS
<1> USE DEF chainVars, loopVars
<1>0. TypeOK
  BY DEF Bound
<1>1. CASE StartPass \/ EndPass
  BY <1>1, SameBindingKeeps
     DEF StartPass, EndPass, SameBinding, Bound, CopyBound, CallBound,
         JournaledBeforeRelease, AnswersBound, ChainReleased
<1>2. CASE LoadCandidates
  BY <1>2, SameBindingKeeps
     DEF LoadCandidates, SameBinding, Bound, CopyBound, CallBound,
         JournaledBeforeRelease, AnswersBound, ChainReleased
<1>3. ASSUME NEW r \in Requests, CheckConfirmed(r) \/ CheckStillConfirmed(r)
      PROVE  Bound'
  <2>1. SameBinding
    BY <1>0, <1>3, ConfirmKeepsBinding DEF CheckConfirmed, CheckStillConfirmed, SameBinding
  <2>2. rows' = Without(rows, r) /\ UNCHANGED <<work, call, released, answers, tip>>
    BY <1>3 DEF CheckConfirmed, CheckStillConfirmed
  <2>3. \A q \in DOMAIN rows' : q \in DOMAIN rows /\ rows'[q] = rows[q]
    BY <2>2 DEF Without
  <2> QED BY <2>1, <2>2, <2>3, SameBindingKeeps
          DEF Bound, CopyBound, CallBound, JournaledBeforeRelease,
              AnswersBound, ChainReleased
<1>4. ASSUME NEW r \in Requests, CheckUnconfirmed(r) PROVE Bound'
  <2>1. SameBinding
    BY <1>0, <1>4, ConfirmKeepsBinding DEF CheckUnconfirmed, SameBinding
  <2>2. /\ r \in DOMAIN rows
        /\ rows' = Without(rows, r)
        /\ work' = With(NoRows, r, rows[r])
        /\ UNCHANGED <<call, released, answers, tip>>
    BY <1>4 DEF CheckUnconfirmed
  <2>3. /\ \A q \in DOMAIN rows' : q \in DOMAIN rows /\ rows'[q] = rows[q]
        /\ \A q \in DOMAIN work' : q = r /\ work'[q] = rows[q]
    BY <2>2 DEF Without, With, NoRows
  <2> QED BY <2>1, <2>2, <2>3, SameBindingKeeps
          DEF Bound, CopyBound, CallBound, JournaledBeforeRelease,
              AnswersBound, ChainReleased
<1>5. ASSUME NEW r \in DOMAIN work, NEW row, row.tx = work[r].tx,
             work' = With(NoRows, r, row),
             released' \subseteq released \cup {work[r].tx},
             released \subseteq released',
             UNCHANGED <<tip, journal, call, rows, answers>>
      PROVE  Bound'
  <2>1. \A q \in DOMAIN work' : q = r /\ work'[q] = row
    BY <1>5 DEF With, NoRows
  <2>2. r \in DOMAIN journal /\ work[r].tx = journal[r].tx /\ journal[r].tx.req = r
    BY <1>5 DEF Bound, CopyBound, RowsKeyed
  <2> QED BY <1>5, <2>1, <2>2, SameBindingKeeps
          DEF SameBinding, Bound, CopyBound, CallBound, JournaledBeforeRelease,
              AnswersBound, ChainReleased
<1>6. ASSUME NEW r \in DOMAIN work, NEW err
      PROVE  /\ Moved(work[r], err).tx = work[r].tx
             /\ [work[r] EXCEPT !.err = err].tx = work[r].tx
  <2>1. work[r] \in Row
    BY <1>0, RowOfTable DEF TypeOK
  <2> QED BY <2>1 DEF Moved, Row
<1>7. ASSUME NEW r \in Requests, ResubmitAccepted(r) PROVE Bound'
  BY <1>5, <1>6, <1>7 DEF ResubmitAccepted
<1>8. ASSUME NEW r \in Requests, ResubmitRefused(r) \/ ProofsDropped(r) \/ ProofsFailed(r)
      PROVE  Bound'
  BY <1>5, <1>6, <1>8 DEF ResubmitRefused, ProofsDropped, ProofsFailed
<1>9. ASSUME NEW r \in Requests, SaveRow(r) PROVE Bound'
  <2>1. r \in DOMAIN work /\ r \in DOMAIN journal /\ work[r].tx = journal[r].tx
    BY <1>9 DEF SaveRow, Bound, CopyBound
  <2>2. SameBinding
    BY <1>0, <1>9, <2>1, UpdateKeepsBinding DEF SaveRow
  <2>3. work' = NoRows /\ UNCHANGED <<call, rows, released, answers, tip>>
    BY <1>9 DEF SaveRow
  <2>4. DOMAIN work' = {}
    BY <2>3 DEF NoRows
  <2> QED BY <2>2, <2>3, <2>4, SameBindingKeeps
          DEF Bound, CopyBound, CallBound, JournaledBeforeRelease,
              AnswersBound, ChainReleased
<1> QED BY <1>1, <1>2, <1>3, <1>4, <1>7, <1>8, <1>9 DEF PassStep

\* Chain, index and restarts release nothing and touch no row.
LEMMA SurroundingsBound ==
  ASSUME Bound, TypeOK',
         IndexStep \/ (\E depth \in 0..MaxDepth : SelectChain(depth)) \/ Restart
  PROVE  Bound'
<1> USE DEF chainVars, loopVars
<1>1. CASE IndexStep
  BY <1>1, SameBindingKeeps
     DEF IndexStep, IndexApply, IndexRevert, SameBinding, Bound, CopyBound, CallBound,
         JournaledBeforeRelease, AnswersBound, ChainReleased
<1>2. ASSUME NEW depth \in 0..MaxDepth, SelectChain(depth) PROVE Bound'
  <2>1. \A i \in 1..Len(tip') : tip'[i].txs \subseteq released
    BY <1>2, BranchReleased, CustodyAssumption DEF SelectChain, Bound, TypeOK
  <2>2. UNCHANGED <<released, journal, call, rows, work, answers>>
    BY <1>2 DEF SelectChain
  <2> QED BY <2>1, <2>2, SameBindingKeeps
          DEF SameBinding, Bound, CopyBound, CallBound,
              JournaledBeforeRelease, AnswersBound
<1>3. CASE Restart
  <2>1. DOMAIN rows' = {} /\ DOMAIN work' = {} /\ call' = {}
    BY <1>3 DEF Restart, NoRows
  <2> QED BY <1>3, <2>1, SameBindingKeeps
          DEF Restart, SameBinding, Bound, JournaledBeforeRelease,
              AnswersBound, ChainReleased
<1> QED BY <1>1, <1>2, <1>3

\* The binding invariant holds in every reachable state.
THEOREM BoundInvariant == Spec => []Bound
<1>1. Bound /\ [Next]_vars => Bound'
  <2> SUFFICES ASSUME Bound, [Next]_vars PROVE Bound'
    OBVIOUS
  <2>1. TypeOK'
    BY WithdrawTypeOK, PassTypeOK, SurroundingsTypeOK
       DEF Bound, Next, vars, chainVars, loopVars, TypeOK
  <2>2. CASE UNCHANGED vars
    BY <2>2 DEF vars, chainVars, loopVars, Bound, TypeOK, RowsKeyed, CopyBound,
       CallBound, JournaledBeforeRelease, AnswersBound, ChainReleased
  <2> QED BY <2>1, <2>2, WithdrawBound, PassBound, SurroundingsBound DEF Next
<1> QED BY <1>1, InitBound, PTL DEF Spec

\* Nothing leaves the process that the journal does not hold, whatever the
\* interleaving of handler, pass, chain and crash.
THEOREM NothingUnjournaled == Spec => []JournaledBeforeRelease
<1>1. Bound => JournaledBeforeRelease
  BY DEF Bound
<1> QED BY <1>1, BoundInvariant, PTL

\* What a client was told about a request identifier stays true.
THEOREM AnswersStayTrue == Spec => []AnswersBound
<1>1. Bound => AnswersBound
  BY DEF Bound
<1> QED BY <1>1, BoundInvariant, PTL

\* No reorganization, retry or crash makes the selected chain pay a request
\* identifier twice.
THEOREM NeverPaidTwice == Spec => []PaidAtMostOnce
<1>1. Bound => PaidAtMostOnce
  <2> SUFFICES ASSUME Bound, NEW tx \in TxsOf(tip), NEW other \in TxsOf(tip),
                      tx.req = other.req
               PROVE  tx = other
    BY DEF PaidAtMostOnce
  <2>1. tx \in released /\ other \in released
    BY DEF Bound, ChainReleased, TxsOf, TxsAbove
  <2> QED BY <2>1 DEF Bound, JournaledBeforeRelease
<1> QED BY <1>1, BoundInvariant, PTL
-----------------------------------------------------------------------------
(* Refinement.                                                             *)

\* A step that keeps the rows' transactions keeps the abstract binding.
LEMMA BindingUnchanged ==
  ASSUME SameBinding
  PROVE  [r \in DOMAIN journal' |-> journal'[r].tx] = [r \in DOMAIN journal |-> journal[r].tx]
BY DEF SameBinding

\* Which steps keep the binding, and what the others release or answer.
LEMMA StepImplementsPayments == Bound /\ [Next]_vars => [P!Next]_P!vars
<1> SUFFICES ASSUME Bound, [Next]_vars PROVE [P!Next]_P!vars
  OBVIOUS
<1> USE DEF chainVars, loopVars
<1>0. TypeOK
  BY DEF Bound
<1>1. ASSUME SameBinding, UNCHANGED <<released, answers>> PROVE UNCHANGED P!vars
  BY <1>1, BindingUnchanged DEF P!vars
<1>2. ASSUME SameBinding, UNCHANGED answers, NEW r \in Requests, r \in DOMAIN journal,
             released' = released \cup {journal[r].tx}
      PROVE  P!Next
  <2>1. P!Release(r)
    BY <1>2, BindingUnchanged DEF P!Release
  <2> QED BY <2>1 DEF P!Next
<1>3. ASSUME SameBinding, UNCHANGED released, NEW r \in Requests, r \in DOMAIN journal,
             answers' = answers \cup {[req |-> r, par |-> journal[r].tx.par,
                                       tx |-> journal[r].tx]}
      PROVE  P!Next
  <2>1. P!Answer(r)
    BY <1>3, BindingUnchanged DEF P!Answer
  <2> QED BY <2>1 DEF P!Next
<1>4. CASE JournalWithdrawal
  <2>1. PICK c \in call :
          /\ c.tx.req \notin DOMAIN journal
          /\ journal' = With(journal, c.tx.req,
                             [tx |-> c.tx, basis |-> c.cs, proof |-> c.cs,
                              confirmed |-> Null, err |-> FALSE])
    BY <1>4 DEF JournalWithdrawal
  <2>2. c.tx \in Tx /\ c.tx.req \in Requests
    BY <1>0 DEF TypeOK, Call, Tx
  <2>3. /\ DOMAIN journal' = DOMAIN journal \cup {c.tx.req}
        /\ journal'[c.tx.req].tx = c.tx
        /\ \A r \in DOMAIN journal : journal'[r] = journal[r]
    BY <2>1 DEF With
  <2>4. UNCHANGED <<released, answers>>
    BY <1>4 DEF JournalWithdrawal
  <2>5. P!Bind(c.tx.req)
    BY <2>1, <2>2, <2>3, <2>4 DEF P!Bind
  <2> QED BY <2>2, <2>5 DEF P!Next
<1>5. CASE SubmitAccepted
  <2>1. PICK c \in call : c.pc = "journaled" /\ released' = released \cup {c.tx}
    BY <1>5 DEF SubmitAccepted
  <2>2. c.tx.req \in DOMAIN journal /\ journal[c.tx.req].tx = c.tx
    BY <2>1 DEF Bound, CallBound
  <2>3. c.tx.req \in Requests
    BY <1>0, <2>2, RowOfTable DEF TypeOK
  <2> QED BY <1>2, <1>5, <2>1, <2>2, <2>3 DEF SubmitAccepted, SameBinding
<1>6. CASE RecordFailure
  <2>1. PICK c \in call :
          /\ c.pc = "failed"
          /\ journal' = [journal EXCEPT ![c.tx.req].tx = c.tx,
                                        ![c.tx.req].basis = c.cs,
                                        ![c.tx.req].proof = c.cs,
                                        ![c.tx.req].err = TRUE]
    BY <1>6 DEF RecordFailure
  <2>2. c.tx.req \in DOMAIN journal /\ journal[c.tx.req].tx = c.tx
    BY <2>1 DEF Bound, CallBound
  <2>3. SameBinding
    BY <1>0, <2>1, <2>2, UpdateKeepsBinding
  <2> QED BY <1>1, <1>6, <2>3 DEF RecordFailure
<1>7. CASE AnswerWithdrawal
  <2>1. SameBinding /\ UNCHANGED released
    BY <1>7 DEF AnswerWithdrawal, SameBinding
  <2>2. CASE UNCHANGED answers
    BY <1>1, <2>1, <2>2
  <2>3. CASE ~UNCHANGED answers
    <3>1. PICK c \in call :
            /\ c.pc = "done"
            /\ answers' = answers \cup {[req |-> c.tx.req, par |-> c.tx.par, tx |-> c.tx]}
      BY <1>7, <2>3 DEF AnswerWithdrawal
    <3>2. c.tx.req \in DOMAIN journal /\ journal[c.tx.req].tx = c.tx
      BY <3>1 DEF Bound, CallBound
    <3>3. c.tx.req \in Requests
      BY <1>0, <3>2, RowOfTable DEF TypeOK
    <3> QED BY <1>3, <2>1, <3>1, <3>2, <3>3
  <2> QED BY <2>2, <2>3
<1>8. ASSUME NEW r \in Requests, NEW p \in Pars, RetryWithdrawal(r, p) PROVE P!Next
  BY <1>3, <1>8 DEF RetryWithdrawal, SameBinding
<1>9. ASSUME NEW r \in Requests, NEW p \in Pars, BeginWithdrawal(r, p)
      PROVE  UNCHANGED P!vars
  BY <1>1, <1>9 DEF BeginWithdrawal, SameBinding
<1>10. CASE AbandonWithdrawal \/ SubmitRefused
  BY <1>1, <1>10 DEF AbandonWithdrawal, SubmitRefused, SameBinding
<1>11. ASSUME NEW r \in Requests, CheckConfirmed(r) \/ CheckUnconfirmed(r)
       PROVE  UNCHANGED P!vars
  <2>1. SameBinding
    BY <1>0, <1>11, ConfirmKeepsBinding DEF CheckConfirmed, CheckUnconfirmed, SameBinding
  <2> QED BY <1>1, <1>11, <2>1 DEF CheckConfirmed, CheckUnconfirmed
<1>12. ASSUME NEW r \in Requests, ResubmitAccepted(r) PROVE P!Next
  <2>1. r \in DOMAIN journal /\ work[r].tx = journal[r].tx
    BY <1>12 DEF ResubmitAccepted, Bound, CopyBound
  <2> QED BY <1>2, <1>12, <2>1 DEF ResubmitAccepted, SameBinding
<1>13. ASSUME NEW r \in Requests, SaveRow(r) PROVE UNCHANGED P!vars
  <2>1. r \in DOMAIN journal /\ work[r].tx = journal[r].tx
    BY <1>13 DEF SaveRow, Bound, CopyBound
  <2>2. SameBinding
    BY <1>0, <1>13, <2>1, UpdateKeepsBinding DEF SaveRow
  <2> QED BY <1>1, <1>13, <2>2 DEF SaveRow
<1>14. ASSUME NEW r \in Requests,
              CheckStillConfirmed(r) \/ ResubmitRefused(r)
                \/ ProofsDropped(r) \/ ProofsFailed(r)
       PROVE  UNCHANGED P!vars
  BY <1>1, <1>14 DEF CheckStillConfirmed, ResubmitRefused, ProofsDropped,
                     ProofsFailed, SameBinding
<1>15. CASE StartPass \/ LoadCandidates \/ EndPass
  BY <1>1, <1>15 DEF StartPass, LoadCandidates, EndPass, SameBinding
<1>16. CASE IndexStep \/ (\E depth \in 0..MaxDepth : SelectChain(depth)) \/ Restart
  BY <1>1, <1>16 DEF IndexStep, IndexApply, IndexRevert, SelectChain, Restart, SameBinding
<1>17. CASE UNCHANGED vars
  BY <1>1, <1>17 DEF vars, SameBinding
<1>18. CASE Withdraw
  BY <1>4, <1>5, <1>6, <1>7, <1>8, <1>9, <1>10, <1>18 DEF Withdraw
<1>19. CASE PassStep
  BY <1>11, <1>12, <1>13, <1>14, <1>15, <1>19 DEF PassStep
<1> QED BY <1>16, <1>17, <1>18, <1>19 DEF Next

\* The withdrawal handler, the journal and the pass implement Payments: a
\* request identifier is bound once, and only its transaction is released and
\* reported.
THEOREM CustodyImplementsPayments == Spec => ImplementsPayments
<1>1. Init => P!Init
  BY DEF Init, P!Init, NoRows
<1> QED BY <1>1, StepImplementsPayments, BoundInvariant, PTL
        DEF Spec, ImplementsPayments, P!Spec
-----------------------------------------------------------------------------
(* What the rows say about proofs and confirmations.                       *)

\* Proofs and basis fit in the rows and in the copies the pass holds.
Paired(f) == \A r \in DOMAIN f : f[r].proof = f[r].basis

RowsTruthful == /\ Bound
                /\ Paired(journal) /\ Paired(rows) /\ Paired(work)
                /\ ConfirmationHoldsTx

\* UpdateWithdrawal with a fitting pair leaves all rows truthful.
LEMMA UpdateTruthful ==
  ASSUME TypeOK, Paired(journal), ConfirmationHoldsTx,
         NEW r \in DOMAIN journal, NEW tx, tx = journal[r].tx,
         NEW basis, NEW proof, proof = basis, NEW err,
         journal' = [journal EXCEPT ![r].tx = tx, ![r].basis = basis,
                                    ![r].proof = proof, ![r].err = err]
  PROVE  Paired(journal)' /\ ConfirmationHoldsTx'
<1>1. journal[r] \in Row
  BY RowOfTable DEF TypeOK
<1>2. DOMAIN journal' = DOMAIN journal
  BY DEF TypeOK, IsTable
<1>3. /\ journal'[r].tx = journal[r].tx /\ journal'[r].proof = journal'[r].basis
      /\ journal'[r].confirmed = journal[r].confirmed
  BY <1>1 DEF TypeOK, IsTable, Row
<1>4. \A q \in DOMAIN journal : q # r => journal'[q] = journal[q]
  BY DEF TypeOK, IsTable
<1>5. Paired(journal)'
  BY <1>2, <1>3, <1>4 DEF Paired
<1>6. ConfirmationHoldsTx'
  BY <1>2, <1>3, <1>4 DEF ConfirmationHoldsTx
<1> QED BY <1>5, <1>6

\* SetWithdrawalConfirmation with NULL or with a block that holds the
\* transaction does too.
LEMMA ConfirmTruthful ==
  ASSUME TypeOK, Paired(journal), ConfirmationHoldsTx,
         NEW r \in DOMAIN journal, NEW index,
         index # Null => journal[r].tx \in index[Height(index)].txs,
         journal' = [journal EXCEPT ![r].confirmed = index]
  PROVE  Paired(journal)' /\ ConfirmationHoldsTx'
<1>1. journal[r] \in Row
  BY RowOfTable DEF TypeOK
<1>2. DOMAIN journal' = DOMAIN journal
  BY DEF TypeOK, IsTable
<1>3. /\ journal'[r].tx = journal[r].tx /\ journal'[r].confirmed = index
      /\ journal'[r].proof = journal[r].proof /\ journal'[r].basis = journal[r].basis
  BY <1>1 DEF TypeOK, IsTable, Row
<1>4. \A q \in DOMAIN journal : q # r => journal'[q] = journal[q]
  BY DEF TypeOK, IsTable
<1>5. Paired(journal)'
  BY <1>2, <1>3, <1>4 DEF Paired
<1>6. ConfirmationHoldsTx'
  BY <1>2, <1>3, <1>4 DEF ConfirmationHoldsTx
<1> QED BY <1>5, <1>6

\* An index the wallet index reports for a transaction ends in a block that
\* holds it.
LEMMA EventHoldsTx ==
  ASSUME NEW c \in Chain, NEW tx, NEW index \in Confirming(tx, c)
  PROVE  /\ index \in Chain /\ index # Null
         /\ tx \in index[Height(index)].txs
         /\ tx \in TxsOf(c)
<1>1. PICK h \in 1..Len(c) : tx \in c[h].txs /\ index = SubSeq(c, 1, h)
  BY DEF Confirming
<1>2. Len(c) \in Nat /\ h \in 0..Len(c) /\ h > 0
  BY DEF Chain
<1>3. index \in Chain /\ Len(index) = h /\ index[h] = c[h]
  BY <1>1, <1>2, CutIsChain DEF Chain
<1> QED BY <1>1, <1>2, <1>3 DEF Null, Height, TxsOf, TxsAbove

\* Every step leaves rows and copies truthful.
LEMMA NextTruthful == RowsTruthful /\ Bound' /\ Next => RowsTruthful'
<1> SUFFICES ASSUME RowsTruthful, Bound', Next PROVE RowsTruthful'
  OBVIOUS
<1> USE DEF chainVars, loopVars
<1>0. Bound /\ TypeOK
  BY DEF RowsTruthful, Bound
<1>1. CASE JournalWithdrawal
  <2>1. PICK c \in call :
          journal' = With(journal, c.tx.req,
                          [tx |-> c.tx, basis |-> c.cs, proof |-> c.cs,
                           confirmed |-> Null, err |-> FALSE])
    BY <1>1 DEF JournalWithdrawal
  <2>2. Paired(journal)' /\ ConfirmationHoldsTx'
    BY <2>1 DEF With, Paired, ConfirmationHoldsTx, RowsTruthful
  <2> QED BY <1>1, <2>2 DEF JournalWithdrawal, RowsTruthful, Paired
<1>2. CASE RecordFailure
  <2>1. PICK c \in call :
          /\ c.pc = "failed"
          /\ journal' = [journal EXCEPT ![c.tx.req].tx = c.tx,
                                        ![c.tx.req].basis = c.cs,
                                        ![c.tx.req].proof = c.cs,
                                        ![c.tx.req].err = TRUE]
    BY <1>2 DEF RecordFailure
  <2>2. c.tx.req \in DOMAIN journal /\ c.tx = journal[c.tx.req].tx
    BY <1>0, <2>1 DEF Bound, CallBound
  <2>3. Paired(journal)' /\ ConfirmationHoldsTx'
    BY <1>0, <2>1, <2>2, UpdateTruthful DEF RowsTruthful
  <2> QED BY <1>2, <2>3 DEF RecordFailure, RowsTruthful, Paired
<1>3. ASSUME NEW r \in Requests, CheckConfirmed(r) PROVE RowsTruthful'
  <2>1. PICK index \in Events(rows[r].tx) :
          journal' = [journal EXCEPT ![r].confirmed = index]
    BY <1>3 DEF CheckConfirmed
  <2>2. r \in DOMAIN journal /\ rows[r].tx = journal[r].tx
    BY <1>0, <1>3 DEF CheckConfirmed, Bound, CopyBound
  <2>3. journal[r].tx \in index[Height(index)].txs
    BY <1>0, <2>1, <2>2, EventHoldsTx DEF Events, TypeOK
  <2>4. Paired(journal)' /\ ConfirmationHoldsTx'
    BY <1>0, <2>1, <2>2, <2>3, ConfirmTruthful DEF RowsTruthful
  <2> QED BY <1>3, <2>4 DEF CheckConfirmed, RowsTruthful, Paired, Without
<1>4. ASSUME NEW r \in Requests, CheckUnconfirmed(r) PROVE RowsTruthful'
  <2>1. r \in DOMAIN journal /\ r \in DOMAIN rows
    BY <1>0, <1>4 DEF CheckUnconfirmed, Bound, CopyBound
  <2>2. CASE rows[r].confirmed = Null
    <3>1. journal' = journal
      BY <1>4, <2>2 DEF CheckUnconfirmed
    <3>2. Paired(journal)' /\ ConfirmationHoldsTx'
      BY <3>1 DEF Paired, ConfirmationHoldsTx, RowsTruthful
    <3> QED BY <1>4, <3>2
            DEF CheckUnconfirmed, RowsTruthful, Paired, With, Without, NoRows
  <2>3. CASE rows[r].confirmed # Null
    <3>1. journal' = [journal EXCEPT ![r].confirmed = Null]
      BY <1>4, <2>3 DEF CheckUnconfirmed
    <3>2. Paired(journal)' /\ ConfirmationHoldsTx'
      BY <1>0, <2>1, <3>1, ConfirmTruthful DEF RowsTruthful
    <3> QED BY <1>4, <3>2
            DEF CheckUnconfirmed, RowsTruthful, Paired, With, Without, NoRows
  <2> QED BY <2>2, <2>3
<1>5. ASSUME NEW r \in Requests, SaveRow(r) PROVE RowsTruthful'
  <2>1. r \in DOMAIN journal /\ work[r].tx = journal[r].tx
    BY <1>0, <1>5 DEF SaveRow, Bound, CopyBound
  <2>2. work[r].proof = work[r].basis
    BY <1>5 DEF SaveRow, RowsTruthful, Paired
  <2>3. Paired(journal)' /\ ConfirmationHoldsTx'
    BY <1>0, <1>5, <2>1, <2>2, UpdateTruthful DEF SaveRow, RowsTruthful
  <2> QED BY <1>5, <2>3 DEF SaveRow, RowsTruthful, Paired, NoRows
<1>6. CASE UNCHANGED journal
  <2>1. Paired(journal)' /\ ConfirmationHoldsTx'
    BY <1>6 DEF Paired, ConfirmationHoldsTx, RowsTruthful
  <2>2. ASSUME NEW r \in DOMAIN work, NEW err
        PROVE  /\ Moved(work[r], err).proof = Moved(work[r], err).basis
               /\ [work[r] EXCEPT !.err = err].proof = [work[r] EXCEPT !.err = err].basis
    <3>1. work[r] \in Row /\ work[r].proof = work[r].basis
      BY <1>0, RowOfTable DEF TypeOK, RowsTruthful, Paired
    <3> QED BY <3>1 DEF Moved, Row
  <2>3. ASSUME NEW r, NEW row, row.proof = row.basis,
               work' = With(NoRows, r, row), UNCHANGED rows
        PROVE  RowsTruthful'
    BY <2>1, <2>3 DEF RowsTruthful, Paired, With, NoRows
  <2>4. ASSUME NEW r \in Requests,
               ResubmitAccepted(r) \/ ResubmitRefused(r) \/ ProofsDropped(r) \/ ProofsFailed(r)
        PROVE  RowsTruthful'
    <3>1. CASE ResubmitAccepted(r)
      BY <2>2, <2>3, <3>1 DEF ResubmitAccepted
    <3>2. CASE ResubmitRefused(r)
      BY <2>2, <2>3, <3>2 DEF ResubmitRefused
    <3>3. CASE ProofsDropped(r)
      BY <2>2, <2>3, <3>3 DEF ProofsDropped
    <3>4. CASE ProofsFailed(r)
      BY <2>2, <2>3, <3>4 DEF ProofsFailed
    <3> QED BY <2>4, <3>1, <3>2, <3>3, <3>4
  <2>5. CASE LoadCandidates
    BY <2>1, <2>5 DEF LoadCandidates, RowsTruthful, Paired
  <2>6. ASSUME NEW r \in Requests, CheckStillConfirmed(r) PROVE RowsTruthful'
    BY <2>1, <2>6 DEF CheckStillConfirmed, RowsTruthful, Paired, Without
  <2>7. CASE Restart
    BY <2>1, <2>7 DEF Restart, RowsTruthful, Paired, NoRows
  <2>8. CASE UNCHANGED <<rows, work>>
    BY <2>1, <2>8 DEF RowsTruthful, Paired
  <2>9. CASE StartPass \/ EndPass \/ Withdraw \/ IndexStep
              \/ \E depth \in 0..MaxDepth : SelectChain(depth)
    BY <2>8, <2>9
       DEF StartPass, EndPass, Withdraw, BeginWithdrawal, RetryWithdrawal,
           AbandonWithdrawal, JournalWithdrawal, SubmitAccepted, SubmitRefused,
           RecordFailure, AnswerWithdrawal, IndexStep, IndexApply, IndexRevert, SelectChain
  <2>10. ASSUME NEW r \in Requests,
                CheckConfirmed(r) \/ CheckUnconfirmed(r) \/ SaveRow(r)
         PROVE  RowsTruthful'
    BY <1>3, <1>4, <1>5, <2>10
  <2> QED BY <2>4, <2>5, <2>6, <2>7, <2>9, <2>10 DEF Next, PassStep
<1>7. CASE Withdraw /\ ~UNCHANGED journal
  BY <1>1, <1>2, <1>7
     DEF Withdraw, BeginWithdrawal, RetryWithdrawal, AbandonWithdrawal,
         SubmitAccepted, SubmitRefused, AnswerWithdrawal
<1>8. CASE PassStep /\ ~UNCHANGED journal
  BY <1>3, <1>4, <1>5, <1>8
     DEF PassStep, StartPass, LoadCandidates, CheckStillConfirmed, ResubmitAccepted,
         ResubmitRefused, ProofsDropped, ProofsFailed, EndPass
<1>9. CASE ~UNCHANGED journal /\ ~Withdraw /\ ~PassStep
  BY <1>9 DEF Next, IndexStep, IndexApply, IndexRevert, SelectChain, Restart
<1> QED BY <1>6, <1>7, <1>8, <1>9

\* Rows and copies are truthful in every reachable state.
THEOREM TruthfulInvariant == Spec => []RowsTruthful
<1>1. Init => RowsTruthful
  <2> SUFFICES ASSUME Init PROVE RowsTruthful
    OBVIOUS
  <2>1. DOMAIN journal = {} /\ DOMAIN rows = {} /\ DOMAIN work = {}
    BY DEF Init, NoRows
  <2> QED BY <2>1, InitBound DEF RowsTruthful, Paired, ConfirmationHoldsTx
<1>2. RowsTruthful /\ Bound' /\ [Next]_vars => RowsTruthful'
  <2>1. RowsTruthful /\ Bound' /\ UNCHANGED vars => RowsTruthful'
    BY DEF vars, loopVars, RowsTruthful, Paired, ConfirmationHoldsTx
  <2> QED BY <2>1, NextTruthful
<1> QED BY <1>1, <1>2, BoundInvariant, PTL DEF Spec

\* The stored proofs are always at the stored basis, although handler and pass
\* write the row without a common lock.
THEOREM ProofsFitBasis == Spec => []ProofMatchesBasis
<1>1. RowsTruthful => ProofMatchesBasis
  BY DEF RowsTruthful, Paired, ProofMatchesBasis
<1> QED BY <1>1, TruthfulInvariant, PTL

\* A stored confirmation names a block that holds the transaction.
THEOREM ConfirmationsTrue == Spec => []ConfirmationHoldsTx
<1>1. RowsTruthful => ConfirmationHoldsTx
  BY DEF RowsTruthful
<1> QED BY <1>1, TruthfulInvariant, PTL

\* Once the wallet index has reached the tip, "confirmed" is said exactly of
\* what the selected chain holds: this needs that a stored confirmation is
\* true, since withdrawalView falls back on it.
THEOREM SyncedStatusIsExact == Spec => []SyncedStatusExact
<1>1. RowsTruthful => SyncedStatusExact
  <2> SUFFICES ASSUME RowsTruthful, scan = tip, NEW r \in DOMAIN journal
               PROVE  Status(journal[r]) = "confirmed" <=> journal[r].tx \in TxsOf(tip)
    BY DEF SyncedStatusExact
  <2> DEFINE row == journal[r]
  <2>1. row \in Row /\ tip \in Chain /\ Len(tip) \in Nat
    BY RowOfTable DEF RowsTruthful, Bound, TypeOK, Chain
  <2>2. row.confirmed \in Chain /\ Len(row.confirmed) \in Nat
    BY <2>1 DEF Row, Chain
  <2>3. Events(row.tx) # {} <=> row.tx \in TxsOf(tip)
    <3>1. ASSUME row.tx \in TxsOf(tip) PROVE Events(row.tx) # {}
      <4>1. PICK h \in 1..Len(tip) : row.tx \in tip[h].txs
        BY <3>1 DEF TxsOf, TxsAbove
      <4>2. SubSeq(tip, 1, h) \in Events(row.tx)
        BY <4>1 DEF Events, Confirming
      <4> QED BY <4>2
    <3>2. ASSUME Events(row.tx) # {} PROVE row.tx \in TxsOf(tip)
      BY <2>1, <3>2, EventHoldsTx DEF Events
    <3> QED BY <3>1, <3>2
  <2>4. StillConfirmed(row) => row.tx \in TxsOf(tip)
    <3> SUFFICES ASSUME StillConfirmed(row) PROVE row.tx \in TxsOf(tip)
      OBVIOUS
    <3>1. row.confirmed # Null /\ row.tx \in row.confirmed[Len(row.confirmed)].txs
      BY DEF StillConfirmed, RowsTruthful, ConfirmationHoldsTx, Height
    <3>2. Len(row.confirmed) \in 1..Len(tip)
      <4>1. Len(row.confirmed) # 0
        BY <2>2, <3>1, EmptySeq DEF Null, Chain
      <4> QED BY <2>1, <2>2, <4>1 DEF StillConfirmed, OnBest
    <3>3. row.confirmed[Len(row.confirmed)] = tip[Len(row.confirmed)]
      BY <2>2, <3>2 DEF StillConfirmed, OnBest
    <3> QED BY <3>1, <3>2, <3>3 DEF TxsOf, TxsAbove
  <2>5. Status(row) = "confirmed" <=> (Events(row.tx) # {} \/ StillConfirmed(row))
    BY DEF Status
  <2> QED BY <2>3, <2>4, <2>5
<1> QED BY <1>1, TruthfulInvariant, PTL

\* If no reorganization is deeper than the window, none orphans a withdrawal
\* that a pass on the new tip would not read.
THEOREM WindowCoversDepth ==
  ASSUME MaxDepth <= Window
  PROVE  Spec => OrphansInReach
<1> DEFINE Reach == \A r \in DOMAIN journal :
             (StillConfirmed(journal[r]) /\ ~OnBest(journal[r].confirmed, tip'))
               => IsCandidate(journal[r], Height(tip'))
<1>1. TypeOK /\ [Next]_vars => [Reach]_vars
  <2> SUFFICES ASSUME TypeOK, [Next]_vars, NEW r \in DOMAIN journal,
                      StillConfirmed(journal[r]), ~OnBest(journal[r].confirmed, tip')
               PROVE  IsCandidate(journal[r], Height(tip'))
    OBVIOUS
  <2> DEFINE conf == journal[r].confirmed
  <2>1. tip # tip'
    BY DEF StillConfirmed
  <2>2. PICK depth \in 0..MaxDepth : SelectChain(depth)
    BY <2>1
       DEF Next, vars, chainVars, Withdraw, PassStep, IndexStep, BeginWithdrawal,
           RetryWithdrawal, AbandonWithdrawal, JournalWithdrawal, SubmitAccepted,
           SubmitRefused, RecordFailure, AnswerWithdrawal, StartPass, LoadCandidates,
           CheckConfirmed, CheckStillConfirmed, CheckUnconfirmed, ResubmitAccepted,
           ResubmitRefused, ProofsDropped, ProofsFailed, SaveRow, EndPass,
           IndexApply, IndexRevert, Restart
  <2>3. /\ Len(tip) \in Nat /\ depth \in Nat /\ depth <= Len(tip)
        /\ Window \in Nat /\ depth <= Window
    BY <2>2, CustodyAssumption DEF SelectChain, TypeOK, Chain
  <2>4. /\ Len(tip') = Len(tip) + 1
        /\ \A i \in 1..(Len(tip) - depth) : tip'[i] = tip[i]
    BY <2>2, <2>3, BranchShape DEF SelectChain, TypeOK
  <2>5. Len(conf) \in Nat
    BY RowOfTable DEF TypeOK, Row, Chain
  <2>6. Len(conf) > Len(tip) - depth
    <3> SUFFICES ASSUME Len(conf) <= Len(tip) - depth PROVE OnBest(conf, tip')
      BY <2>3, <2>5
    <3> QED BY <2>3, <2>4, <2>5 DEF StillConfirmed, OnBest
  <2> QED BY <2>3, <2>4, <2>5, <2>6 DEF IsCandidate, Cutoff, Height
<1> QED BY <1>1, TypeCorrect, PTL DEF Spec, OrphansInReach
=============================================================================
