----------------------------- MODULE SwapsProofs -----------------------------
(***************************************************************************)
(* Proofs about Swaps for every number of sessions, coins, blocks and      *)
(* restarts.  None of the properties is inductive by itself: what FundSwap *)
(* and spendSwap hold between two steps, and what the pass has loaded,     *)
(* has to be what the stored action says.                                  *)
(***************************************************************************)
EXTENDS Swaps, SequenceTheorems, TLAPS

IsRow(row) ==
  row \in [tx : {row.tx}, basis : {row.basis}, confirmed : {row.confirmed}]

IsTable(f) == f = [k \in DOMAIN f |-> f[k]] /\ \A k \in DOMAIN f : IsRow(f[k])

\* A transaction of a contract spends one coin; a claim or refund spends an
\* output of its own session; it was built for the terms of that session.
OfContract(tx) ==
  /\ tx.req.kind \in {"fund", "claim", "refund"}
  /\ tx.ins = {tx.req.coin}
  /\ tx.change = IF tx.req.kind = "fund" THEN 1 ELSE 0
  /\ tx.req.kind # "fund" => tx.req.coin.of.swap = tx.req.swap
  /\ tx.req.swap \in DOMAIN swaps /\ tx.req.terms = swaps[tx.req.swap]

\* A transaction this daemon built: a funding had a block left before refunds.
OwnWork(tx) ==
  /\ OfContract(tx)
  /\ tx.req.kind = "fund" => FundingInTime(tx.req.at, tx.req.terms.refundHeight)

SessionsOK == swaps = [s \in DOMAIN swaps |-> swaps[s]] /\ \A s \in DOMAIN swaps : swaps[s] \in Terms

ActionsOK ==
  /\ IsTable(actions)
  /\ \A k \in DOMAIN actions : Key(actions[k].tx) = k /\ OwnWork(actions[k].tx)

\* A call builds what it may, and past its insert holds what it has stored.
CallOK ==
  \A c \in call :
    /\ c \in [pc : {c.pc}, cs : {c.cs}, tx : {c.tx}]
    /\ OwnWork(c.tx)
    /\ c.pc # "built" => Key(c.tx) \in DOMAIN actions /\ actions[Key(c.tx)].tx = c.tx

\* A copy the pass holds has the transaction of the stored action.
Copies(f) ==
  /\ IsTable(f)
  /\ \A k \in DOMAIN f : k \in DOMAIN actions /\ f[k].tx = actions[k].tx

ReleasedOK == \A tx \in released : OfContract(tx)

Block == [tag : {0, 1}, txs : SUBSET released]

ChainOK ==
  /\ tip \in Seq(Block)
  /\ \A h \in 1..Len(tip) : \A tx \in tip[h].txs : RefundOpen(tx, h - 1)

IInv ==
  /\ SessionsOK /\ ActionsOK /\ CallOK /\ Copies(rows) /\ Copies(work)
  /\ ReleasedOK /\ ChainOK /\ OneTransactionPerAction
-----------------------------------------------------------------------------
(* Tables of actions.                                                      *)

\* An empty table is one.
LEMMA NoRowsIsTable == IsTable(NoRows) /\ DOMAIN NoRows = {}
BY DEF IsTable, NoRows

\* A row more, or another one, leaves a table.
LEMMA WithIsTable ==
  ASSUME NEW f, IsTable(f), NEW k, NEW row, IsRow(row), NEW g, g = With(f, k, row)
  PROVE  /\ IsTable(g) /\ DOMAIN g = DOMAIN f \cup {k}
         /\ g[k] = row
         /\ \A q \in DOMAIN f : q # k => g[q] = f[q]
BY DEF IsTable, With

\* A row less leaves a table.
LEMMA WithoutIsTable ==
  ASSUME NEW f, IsTable(f), NEW k, NEW g, g = Without(f, k)
  PROVE  /\ IsTable(g) /\ DOMAIN g \subseteq DOMAIN f
         /\ \A q \in DOMAIN g : g[q] = f[q]
BY DEF IsTable, Without

\* Writing the confirmation of a row leaves a table.
LEMMA ConfirmIsTable ==
  ASSUME NEW f, IsTable(f), NEW k, NEW index
  PROVE  IsTable([f EXCEPT ![k].confirmed = index])
<1> DEFINE g == [f EXCEPT ![k].confirmed = index]
<1>1. DOMAIN g = DOMAIN f
  BY DEF IsTable
<1>2. ASSUME NEW q \in DOMAIN f PROVE IsRow(g[q])
  <2>1. IsRow(f[q])
    BY DEF IsTable
  <2>2. q # k => g[q] = f[q]
    BY DEF IsTable
  <2>3. q = k => g[q] = [f[q] EXCEPT !.confirmed = index]
    BY DEF IsTable
  <2>4. LET row == [f[q] EXCEPT !.confirmed = index] IN IsRow(row)
    BY <2>1 DEF IsRow
  <2> QED BY <2>1, <2>2, <2>3, <2>4
<1>3. g = [q \in DOMAIN g |-> g[q]]
  BY DEF IsTable
<1> QED BY <1>1, <1>2, <1>3 DEF IsTable

\* Writing a transaction and its basis into a row.
LEMMA UpdateIsTable ==
  ASSUME NEW f, IsTable(f), NEW k, NEW tx, NEW basis
  PROVE  IsTable([f EXCEPT ![k].tx = tx, ![k].basis = basis])
<1> DEFINE g == [f EXCEPT ![k].tx = tx, ![k].basis = basis]
<1>1. DOMAIN g = DOMAIN f
  BY DEF IsTable
<1>2. ASSUME NEW q \in DOMAIN f
      PROVE  IsRow(g[q])
  <2>1. IsRow(f[q])
    BY DEF IsTable
  <2>2. q # k => g[q] = f[q]
    BY DEF IsTable
  <2>3. q = k => g[q] = [f[q] EXCEPT !.tx = tx, !.basis = basis]
    BY DEF IsTable
  <2>4. LET row == [f[q] EXCEPT !.tx = tx, !.basis = basis] IN IsRow(row)
    BY <2>1 DEF IsRow
  <2> QED BY <2>1, <2>2, <2>3, <2>4
<1>3. g = [q \in DOMAIN g |-> g[q]]
  BY DEF IsTable
<1> QED BY <1>1, <1>2, <1>3 DEF IsTable

\* The invariant holds before anything happens.
LEMMA InitIInv == Init => IInv
<1> SUFFICES ASSUME Init PROVE IInv
  OBVIOUS
<1>1. SessionsOK /\ ActionsOK /\ CallOK
  BY NoRowsIsTable DEF Init, SessionsOK, ActionsOK, CallOK, NoRows
<1>2. Copies(rows) /\ Copies(work)
  BY NoRowsIsTable DEF Init, Copies
<1>3. ReleasedOK /\ ChainOK /\ OneTransactionPerAction
  BY DEF Init, ReleasedOK, ChainOK, OneTransactionPerAction
<1> QED BY <1>1, <1>2, <1>3 DEF IInv
-----------------------------------------------------------------------------
(* What the steps have in common.                                          *)

\* Stored actions are added, and what is stored keeps its transaction: what
\* was released, and the copies the pass holds, stay bound.
LEMMA ActionsGrow ==
  ASSUME IInv, UNCHANGED <<swaps, released, tip, own>>,
         DOMAIN actions \subseteq DOMAIN actions',
         \A k \in DOMAIN actions : actions'[k].tx = actions[k].tx
  PROVE  /\ SessionsOK' /\ ReleasedOK' /\ ChainOK' /\ OneTransactionPerAction'
         /\ UNCHANGED rows => Copies(rows)'
         /\ UNCHANGED work => Copies(work)'
         /\ call' \subseteq call => CallOK'
<1>1. SessionsOK'
  BY DEF IInv, SessionsOK
<1>2. ReleasedOK' /\ ChainOK'
  BY DEF IInv, ReleasedOK, OfContract, ChainOK, Block
<1>3. OneTransactionPerAction'
  BY DEF IInv, OneTransactionPerAction, Local
<1>4. (UNCHANGED rows => Copies(rows)') /\ (UNCHANGED work => Copies(work)')
  BY DEF IInv, Copies
<1>5. call' \subseteq call => CallOK'
  BY DEF IInv, CallOK, OwnWork, OfContract
<1> QED BY <1>1, <1>2, <1>3, <1>4, <1>5

\* A step that leaves the tables alone leaves them sound.
LEMMA ActionsStay ==
  ASSUME IInv, UNCHANGED <<swaps, actions>>
  PROVE  SessionsOK' /\ ActionsOK'
BY DEF IInv, SessionsOK, ActionsOK, OwnWork, OfContract

\* A transaction more is released: one of the contract and, if it is the
\* daemon's own, the one its action stores.
LEMMA Release ==
  ASSUME IInv, UNCHANGED <<swaps, actions, tip, own>>,
         NEW tx, released' = released \cup {tx}, OfContract(tx),
         Local(tx) => Key(tx) \in DOMAIN actions /\ actions[Key(tx)].tx = tx
  PROVE  ReleasedOK' /\ ChainOK' /\ OneTransactionPerAction'
<1>1. ReleasedOK'
  BY DEF IInv, ReleasedOK, OfContract
<1>2. OneTransactionPerAction'
  BY DEF IInv, OneTransactionPerAction, Local
<1>3. Block \subseteq Block'
  BY DEF Block
<1>4. tip' \in Seq(Block')
  BY <1>3, SeqMonotonic DEF IInv, ChainOK
<1>5. ChainOK'
  BY <1>4 DEF IInv, ChainOK
<1> QED BY <1>1, <1>2, <1>5
-----------------------------------------------------------------------------
(* Sessions and calls.                                                     *)

\* New terms are those of a session that had none.
LEMMA RegisterKeeps ==
  ASSUME IInv, NEW s, NEW terms \in Terms, RegisterSwap(s, terms)
  PROVE  IInv'
<1> USE DEF chainVars, loopVars
<1>1. /\ DOMAIN swaps \subseteq DOMAIN swaps'
      /\ \A q \in DOMAIN swaps : swaps'[q] = swaps[q]
      /\ swaps' = [q \in DOMAIN swaps' |-> swaps'[q]]
      /\ \A q \in DOMAIN swaps' : swaps'[q] \in Terms
  BY DEF RegisterSwap, With, IInv, SessionsOK
<1>2. \A tx : OfContract(tx) => OfContract(tx)'
  BY <1>1 DEF OfContract
<1>3. SessionsOK'
  BY <1>1 DEF SessionsOK
<1>4. ActionsOK'
  BY <1>2 DEF RegisterSwap, IInv, ActionsOK, OwnWork
<1>5. CallOK'
  BY DEF RegisterSwap, CallOK
<1>6. ReleasedOK'
  BY <1>2 DEF RegisterSwap, IInv, ReleasedOK
<1>7. Copies(rows)' /\ Copies(work)' /\ ChainOK' /\ OneTransactionPerAction'
  BY DEF RegisterSwap, IInv, Copies, ChainOK, Block, OneTransactionPerAction, Local
<1> QED BY <1>3, <1>4, <1>5, <1>6, <1>7 DEF IInv

\* What MakeTx makes of a session's terms.
LEMMA MakeTxIsOfContract ==
  ASSUME NEW s \in DOMAIN swaps, NEW kind \in {"fund", "claim", "refund"}, NEW par, NEW coin, NEW at,
         kind # "fund" => coin.of.swap = s
  PROVE  /\ OfContract(MakeTx(s, kind, par, coin, at))
         /\ MakeTx(s, kind, par, coin, at).req.kind = kind
         /\ MakeTx(s, kind, par, coin, at).req.coin = coin
         /\ MakeTx(s, kind, par, coin, at).req.at = at
         /\ MakeTx(s, kind, par, coin, at).req.terms = swaps[s]
BY DEF OfContract, MakeTx

\* A call begins with a transaction that may be stored.
LEMMA BeginKeeps ==
  ASSUME IInv, NEW s, NEW p, BeginFund(s, p) \/ BeginSpend(s, p)
  PROVE  IInv'
<1> USE DEF chainVars, loopVars, tables
<1>1. PICK tx, cs : call' = {[pc |-> "built", cs |-> cs, tx |-> tx]} /\ OwnWork(tx)
  <2>1. CASE BeginFund(s, p)
    <3>1. PICK coin : call' = {[pc |-> "built", cs |-> tip, tx |-> MakeTx(s, "fund", p, coin, Height(tip))]}
      BY <2>1 DEF BeginFund
    <3>2. OwnWork(MakeTx(s, "fund", p, coin, Height(tip)))
      BY <2>1, MakeTxIsOfContract DEF BeginFund, OwnWork
    <3> QED BY <3>1, <3>2
  <2>2. CASE BeginSpend(s, p)
    <3> DEFINE kind == IF swaps[s].role = "recipient" THEN "claim" ELSE "refund"
    <3>1. PICK out \in ContractOutputs(s, tip) :
            call' = {[pc |-> "built", cs |-> tip, tx |-> MakeTx(s, kind, p, out, Height(tip))]}
      BY <2>2 DEF BeginSpend
    <3>2. out.of.swap = s
      BY DEF ContractOutputs
    <3>3. OwnWork(MakeTx(s, kind, p, out, Height(tip)))
      BY <2>2, <3>2, MakeTxIsOfContract DEF BeginSpend, OwnWork
    <3> QED BY <3>1, <3>3
  <2> QED BY <2>1, <2>2
<1>2. UNCHANGED <<chainVars, tables, loopVars>>
  BY DEF BeginFund, BeginSpend
<1>3. CallOK'
  <2>1. OwnWork(tx)'
    BY <1>1, <1>2 DEF OwnWork, OfContract
  <2> QED BY <1>1, <2>1 DEF CallOK
<1> QED BY <1>2, <1>3, ActionsGrow, ActionsStay DEF IInv

\* A call that ends leaves everything else alone.
LEMMA AbandonKeeps ==
  ASSUME IInv, Abandon
  PROVE  IInv'
BY ActionsGrow, ActionsStay DEF Abandon, IInv, chainVars, loopVars, tables

\* The new row has the call's transaction, under a key that was free.
LEMMA StoreKeeps ==
  ASSUME IInv, StoreAction
  PROVE  IInv'
<1> USE DEF chainVars, loopVars
<1>0. PICK c \in call : \E row :
        /\ row = [tx |-> c.tx, basis |-> c.cs, confirmed |-> Null]
        /\ Key(c.tx) \notin DOMAIN actions
        /\ actions' = With(actions, Key(c.tx), row)
        /\ call' = {[c EXCEPT !.pc = "stored"]}
        /\ UNCHANGED <<chainVars, keys, swaps, loopVars, restarts>>
  BY DEF StoreAction
<1>1. PICK row :
        /\ row = [tx |-> c.tx, basis |-> c.cs, confirmed |-> Null]
        /\ Key(c.tx) \notin DOMAIN actions
        /\ actions' = With(actions, Key(c.tx), row)
        /\ call' = {[c EXCEPT !.pc = "stored"]}
        /\ UNCHANGED <<chainVars, keys, swaps, loopVars, restarts>>
  BY <1>0
<1>2. IsRow(row) /\ row.tx = c.tx
  BY <1>1 DEF IsRow
<1>3. /\ IsTable(actions') /\ DOMAIN actions' = DOMAIN actions \cup {Key(c.tx)}
      /\ actions'[Key(c.tx)] = row
      /\ \A q \in DOMAIN actions : actions'[q] = actions[q]
  <2>1. IsTable(actions)
    BY DEF IInv, ActionsOK
  <2>2. actions' = With(actions, Key(c.tx), row) /\ Key(c.tx) \notin DOMAIN actions
    BY <1>1
  <2>3. IsTable(actions')
    BY <1>2, <2>1, <2>2, WithIsTable
  <2>4. DOMAIN actions' = DOMAIN actions \cup {Key(c.tx)}
    BY <1>2, <2>1, <2>2, WithIsTable
  <2>5. actions'[Key(c.tx)] = row
    BY <2>2 DEF With
  <2>6. \A q \in DOMAIN actions : actions'[q] = actions[q]
    BY <2>2 DEF With
  <2> QED BY <2>3, <2>4, <2>5, <2>6
<1>4. OwnWork(c.tx) /\ c \in [pc : {c.pc}, cs : {c.cs}, tx : {c.tx}]
  BY DEF IInv, CallOK
<1>5. \A tx : OwnWork(tx) => OwnWork(tx)'
  BY <1>1 DEF OwnWork, OfContract
<1>6. ActionsOK'
  <2>1. \A k \in DOMAIN actions' : Key(actions'[k].tx) = k /\ OwnWork(actions'[k].tx)
    BY <1>2, <1>3, <1>4 DEF IInv, ActionsOK
  <2> QED BY <1>3, <1>5, <2>1 DEF ActionsOK
<1>7. CallOK'
  <2>1. [c EXCEPT !.pc = "stored"] = [pc |-> "stored", cs |-> c.cs, tx |-> c.tx]
    BY <1>4
  <2> QED BY <1>1, <1>2, <1>3, <1>4, <1>5, <2>1 DEF CallOK
<1> QED BY <1>1, <1>3, <1>6, <1>7, ActionsGrow DEF IInv

\* What a call submits is the transaction of its row.
LEMMA SubmitKeeps ==
  ASSUME IInv, Submit
  PROVE  IInv'
<1> USE DEF chainVars, loopVars, tables
<1>1. PICK c \in call :
        /\ c.pc = "stored"
        /\ released' = released \cup {c.tx} \/ UNCHANGED released
        /\ call' = {[c EXCEPT !.pc = "submitted"]}
        /\ UNCHANGED <<tip, scan, own, tables, loopVars, restarts>>
  BY DEF Submit
<1>2. /\ c \in [pc : {c.pc}, cs : {c.cs}, tx : {c.tx}] /\ OwnWork(c.tx)
      /\ Key(c.tx) \in DOMAIN actions /\ actions[Key(c.tx)].tx = c.tx
  BY <1>1 DEF IInv, CallOK
<1>3. CallOK'
  <2>1. [c EXCEPT !.pc = "submitted"] = [pc |-> "submitted", cs |-> c.cs, tx |-> c.tx]
    BY <1>2
  <2>2. OwnWork(c.tx) => OwnWork(c.tx)'
    BY <1>1 DEF OwnWork, OfContract
  <2> QED BY <1>1, <1>2, <2>1, <2>2 DEF CallOK
<1>4. ReleasedOK' /\ ChainOK' /\ OneTransactionPerAction'
  BY <1>1, <1>2, Release, ActionsGrow DEF OwnWork
<1>5. Copies(rows)' /\ Copies(work)'
  BY <1>1 DEF IInv, Copies
<1> QED BY <1>1, <1>3, <1>4, <1>5, ActionsStay DEF IInv

\* Writing the call's transaction into its own row changes no transaction.
LEMMA RecordKeeps ==
  ASSUME IInv, RecordSubmission
  PROVE  IInv'
<1> USE DEF chainVars, loopVars
<1>1. PICK c \in call :
        /\ c.pc = "submitted"
        /\ actions' = [actions EXCEPT ![Key(c.tx)].tx = c.tx, ![Key(c.tx)].basis = c.cs]
        /\ call' = {}
        /\ UNCHANGED <<chainVars, keys, swaps, loopVars, restarts>>
  BY DEF RecordSubmission
<1>2. Key(c.tx) \in DOMAIN actions /\ actions[Key(c.tx)].tx = c.tx
  BY <1>1 DEF IInv, CallOK
<1>3. /\ IsTable(actions') /\ DOMAIN actions' = DOMAIN actions
      /\ \A k \in DOMAIN actions : actions'[k].tx = actions[k].tx
  <2>1. IsTable(actions)
    BY DEF IInv, ActionsOK
  <2>2. actions' = [actions EXCEPT ![Key(c.tx)].tx = c.tx, ![Key(c.tx)].basis = c.cs]
    BY <1>1
  <2>3. IsTable(actions')
    BY <2>1, <2>2, UpdateIsTable
  <2>4. DOMAIN actions' = DOMAIN actions
    BY <2>1, <2>2 DEF IsTable
  <2>5. ASSUME NEW q \in DOMAIN actions PROVE actions'[q].tx = actions[q].tx
    BY <1>2, <2>1, <2>2 DEF IsTable, IsRow
  <2> QED BY <2>3, <2>4, <2>5
<1>4. ActionsOK'
  <2>1. \A tx : OwnWork(tx) => OwnWork(tx)'
    BY <1>1 DEF OwnWork, OfContract
  <2>2. \A k \in DOMAIN actions' : Key(actions'[k].tx) = k /\ OwnWork(actions'[k].tx)
    BY <1>3 DEF IInv, ActionsOK
  <2> QED BY <1>3, <2>1, <2>2 DEF ActionsOK
<1> QED BY <1>1, <1>3, <1>4, ActionsGrow DEF IInv
-----------------------------------------------------------------------------
(* The pass.                                                               *)

\* A copy of a row that loses its place in the list is still a copy.
LEMMA WithoutCopies ==
  ASSUME NEW f, Copies(f), NEW k, NEW g, g = Without(f, k)
  PROVE  Copies(g)
BY WithoutIsTable DEF Copies

\* One row of the list, with its basis moved or not, is a list of copies.
LEMMA OneCopy ==
  ASSUME NEW f, Copies(f), NEW k \in DOMAIN f, NEW row, IsRow(row), row.tx = f[k].tx,
         NEW g, g = With(NoRows, k, row)
  PROVE  Copies(g)
<1>1. IsTable(g)
  BY NoRowsIsTable, WithIsTable
<1>2. DOMAIN g = {k} /\ g[k] = row
  BY DEF With, NoRows
<1> QED BY <1>1, <1>2 DEF Copies

\* Reading the candidates makes copies of them.
LEMMA LoadKeeps ==
  ASSUME IInv, LoadActions
  PROVE  IInv'
<1> USE DEF chainVars, tables
<1>1. UNCHANGED <<swaps, actions, released, tip, own, work, call>>
  BY DEF LoadActions
<1>2. Copies(rows)'
  <2>1. /\ DOMAIN rows' \subseteq DOMAIN actions
        /\ rows' = [k \in DOMAIN rows' |-> rows'[k]]
        /\ \A k \in DOMAIN rows' : rows'[k] = actions[k]
    BY DEF LoadActions
  <2> QED BY <1>1, <2>1 DEF IInv, ActionsOK, Copies, IsTable
<1> QED BY <1>1, <1>2, ActionsGrow, ActionsStay DEF IInv

\* Storing or clearing a confirmation keeps every transaction in its row.
LEMMA CheckKeeps ==
  ASSUME IInv, CheckConfirmed \/ CheckUnconfirmed
  PROVE  IInv'
<1> USE DEF chainVars
<1>1. PICK k \in DOMAIN rows :
        /\ UNCHANGED actions \/ \E index : actions' = [actions EXCEPT ![k].confirmed = index]
        /\ rows' = Without(rows, k)
        /\ UNCHANGED work \/ work' = With(NoRows, k, rows[k])
        /\ UNCHANGED <<chainVars, keys, swaps, call>>
  BY DEF CheckConfirmed, CheckUnconfirmed
<1>2. IsTable(actions) /\ IsTable(rows)
  BY DEF IInv, ActionsOK, Copies
<1>3. /\ IsTable(actions') /\ DOMAIN actions' = DOMAIN actions
      /\ \A q \in DOMAIN actions : actions'[q].tx = actions[q].tx
  <2>1. CASE UNCHANGED actions
    BY <1>2, <2>1
  <2>2. ASSUME NEW index, actions' = [actions EXCEPT ![k].confirmed = index]
        PROVE  /\ IsTable(actions') /\ DOMAIN actions' = DOMAIN actions
               /\ \A q \in DOMAIN actions : actions'[q].tx = actions[q].tx
    <3>1. IsTable(actions')
      BY <1>2, <2>2, ConfirmIsTable
    <3>2. DOMAIN actions' = DOMAIN actions
      BY <1>2, <2>2 DEF IsTable
    <3>3. ASSUME NEW q \in DOMAIN actions PROVE actions'[q].tx = actions[q].tx
      BY <1>2, <2>2 DEF IsTable, IsRow
    <3> QED BY <3>1, <3>2, <3>3
  <2> QED BY <1>1, <2>1, <2>2
<1>4. ActionsOK'
  BY <1>1, <1>3 DEF IInv, ActionsOK, OwnWork, OfContract
<1>5. \A f : Copies(f) => Copies(f)'
  BY <1>3 DEF Copies
<1>6. Copies(rows')
  BY <1>1, WithoutCopies DEF IInv
<1>7. Copies(work')
  <2>1. CASE UNCHANGED work
    BY <2>1 DEF IInv
  <2>2. CASE work' = With(NoRows, k, rows[k])
    BY <1>2, <2>2, OneCopy DEF IInv, IsTable
  <2> QED BY <1>1, <2>1, <2>2
<1>8. Copies(rows)' /\ Copies(work)'
  BY <1>3, <1>6, <1>7 DEF Copies
<1> QED BY <1>1, <1>3, <1>4, <1>8, ActionsGrow DEF IInv

\* What the pass submits is the transaction of a stored row.
LEMMA ResubmitKeeps ==
  ASSUME IInv, Resubmit
  PROVE  IInv'
<1> USE DEF chainVars, tables
<1>1. PICK k \in DOMAIN work :
        /\ released' = released \cup {work[k].tx} \/ UNCHANGED released
        /\ work' = With(NoRows, k, [work[k] EXCEPT !.basis = pass.tip])
        /\ UNCHANGED <<tip, scan, own, tables, call, rows>>
  BY DEF Resubmit
<1>2. IsRow(work[k]) /\ k \in DOMAIN actions /\ work[k].tx = actions[k].tx
  BY DEF IInv, Copies, IsTable
<1>3. OwnWork(work[k].tx) /\ Key(work[k].tx) = k
  BY <1>2 DEF IInv, ActionsOK
<1>4. ReleasedOK' /\ ChainOK' /\ OneTransactionPerAction'
  BY <1>1, <1>2, <1>3, Release, ActionsGrow DEF OwnWork
<1>5. Copies(work')
  <2>1. PICK row : row = [work[k] EXCEPT !.basis = pass.tip]
    OBVIOUS
  <2>2. IsRow(row) /\ row.tx = work[k].tx
    BY <1>2, <2>1 DEF IsRow
  <2> QED BY <1>1, <2>1, <2>2, OneCopy DEF IInv
<1>6. Copies(rows)' /\ Copies(work)'
  BY <1>1, <1>5 DEF IInv, Copies
<1>7. CallOK'
  BY <1>1 DEF IInv, CallOK, OwnWork, OfContract
<1> QED BY <1>1, <1>4, <1>6, <1>7, ActionsStay DEF IInv

\* Writing the row in hand back changes no transaction.
LEMMA SaveKeeps ==
  ASSUME IInv, SaveAction
  PROVE  IInv'
<1> USE DEF chainVars
<1>1. PICK k \in DOMAIN work :
        /\ actions' = [actions EXCEPT ![k].tx = work[k].tx, ![k].basis = work[k].basis]
        /\ work' = NoRows
        /\ UNCHANGED <<chainVars, keys, swaps, call, rows>>
  BY DEF SaveAction
<1>2. k \in DOMAIN actions /\ work[k].tx = actions[k].tx
  BY DEF IInv, Copies
<1>3. /\ IsTable(actions') /\ DOMAIN actions' = DOMAIN actions
      /\ \A q \in DOMAIN actions : actions'[q].tx = actions[q].tx
  <2>1. IsTable(actions)
    BY DEF IInv, ActionsOK
  <2>2. actions' = [actions EXCEPT ![k].tx = work[k].tx, ![k].basis = work[k].basis]
    BY <1>1
  <2>3. IsTable(actions')
    BY <2>1, <2>2, UpdateIsTable
  <2>4. DOMAIN actions' = DOMAIN actions
    BY <2>1, <2>2 DEF IsTable
  <2>5. ASSUME NEW q \in DOMAIN actions PROVE actions'[q].tx = actions[q].tx
    BY <1>2, <2>1, <2>2 DEF IsTable, IsRow
  <2> QED BY <2>3, <2>4, <2>5
<1>4. ActionsOK'
  BY <1>1, <1>3 DEF IInv, ActionsOK, OwnWork, OfContract
<1>5. Copies(work)'
  BY <1>1, NoRowsIsTable DEF Copies
<1> QED BY <1>1, <1>3, <1>4, <1>5, ActionsGrow DEF IInv
-----------------------------------------------------------------------------
(* The surroundings.                                                       *)

\* The counterparty's transactions are of the contract and not the daemon's.
LEMMA CounterpartyKeeps ==
  ASSUME IInv, NEW s, CounterpartyFunds(s) \/ CounterpartySpends(s)
  PROVE  IInv'
<1> USE DEF chainVars, tables, loopVars
<1>1. PICK tx : released' = released \cup {tx} /\ OfContract(tx) /\ ~Local(tx)
  <2>1. CASE CounterpartyFunds(s)
    <3>1. PICK coin \in Deposits \ own : released' = released \cup {MakeTx(s, "fund", 0, coin, 0)}
      BY <2>1 DEF CounterpartyFunds
    <3>2. PICK tx : tx = MakeTx(s, "fund", 0, coin, 0)
      OBVIOUS
    <3>3. OfContract(tx) /\ tx.req.kind = "fund" /\ tx.req.coin = coin
      BY <2>1, <3>2, MakeTxIsOfContract DEF CounterpartyFunds
    <3>4. ~Local(tx)
      BY <3>3 DEF Local
    <3> QED BY <3>1, <3>2, <3>3, <3>4
  <2>2. CASE CounterpartySpends(s)
    <3> DEFINE kind == IF swaps[s].role = "recipient" THEN "refund" ELSE "claim"
    <3>1. PICK out \in ContractOutputs(s, tip) : released' = released \cup {MakeTx(s, kind, 0, out, 0)}
      BY <2>2 DEF CounterpartySpends
    <3>2. s \in DOMAIN swaps /\ out.of.swap = s /\ swaps[s].role \in {"recipient", "refund"}
      BY <2>2 DEF CounterpartySpends, ContractOutputs, IInv, SessionsOK, Terms, Roles
    <3>3. PICK tx : tx = MakeTx(s, kind, 0, out, 0)
      OBVIOUS
    <3>4. OfContract(tx) /\ tx.req.kind = kind /\ tx.req.terms = swaps[s]
      BY <3>2, <3>3, MakeTxIsOfContract
    <3>5. ~Local(tx)
      BY <3>2, <3>4 DEF Local
    <3> QED BY <3>1, <3>3, <3>4, <3>5
  <2> QED BY <2>1, <2>2
<1>2. UNCHANGED <<tip, scan, own, tables, call, loopVars, restarts>>
  BY DEF CounterpartyFunds, CounterpartySpends
<1>3. ReleasedOK' /\ ChainOK' /\ OneTransactionPerAction'
  BY <1>1, <1>2, Release
<1>4. CallOK' /\ Copies(rows)' /\ Copies(work)'
  BY <1>2 DEF IInv, CallOK, OwnWork, OfContract, Copies
<1> QED BY <1>2, <1>3, <1>4, ActionsStay DEF IInv

\* The selected chain is made of released transactions, and opens no refund
\* early.
LEMMA SelectKeeps ==
  ASSUME IInv, NEW depth \in 0..MaxDepth, SelectChain(depth)
  PROVE  IInv'
<1> USE DEF tables, loopVars
<1>1. UNCHANGED <<released, scan, own, tables, call, loopVars, restarts>>
  BY DEF SelectChain
<1> DEFINE fork == Len(tip) - depth
           tag(i) == IF i = 1 /\ depth > 0 THEN 1 - tip[fork + 1].tag ELSE 0
<1>2. PICK txs \in [1..(depth + 1) -> SUBSET released] :
        tip' = SubSeq(tip, 1, fork) \o
                 [i \in 1..(depth + 1) |-> [tag |-> tag(i), txs |-> txs[i]]]
  BY DEF SelectChain
<1>3. depth \in Nat /\ Len(tip) \in Nat /\ fork \in 0..Len(tip) /\ tip \in Seq(Block)
  BY SwapsAssumption DEF IInv, ChainOK, SelectChain
<1>4. \A i \in 1..(depth + 1) : tag(i) \in {0, 1}
  <2>1. depth > 0 => fork + 1 \in 1..Len(tip)
    BY <1>3
  <2>2. depth > 0 => tip[fork + 1] \in Block
    BY <1>3, <2>1
  <2> QED BY <2>2 DEF Block
<1>5. [i \in 1..(depth + 1) |-> [tag |-> tag(i), txs |-> txs[i]]] \in Seq(Block)
  <2>1. \A i \in 1..(depth + 1) : [tag |-> tag(i), txs |-> txs[i]] \in Block
    BY <1>4 DEF Block
  <2> HIDE DEF tag
  <2> QED BY <1>3, <2>1, IsASeq
<1>6. SubSeq(tip, 1, fork) \in Seq(Block)
  BY <1>3
<1>7. tip' \in Seq(Block)'
  <2>1. tip' \in Seq(Block)
    <3> HIDE DEF fork, tag
    <3> QED BY <1>2, <1>5, <1>6, ConcatProperties
  <2> QED BY <1>1, <2>1 DEF Block
<1>8. \A h \in 1..Len(tip') : \A tx \in tip'[h].txs : RefundOpen(tx, h - 1)
  BY DEF SelectChain, ValidContractChain
<1>9. ChainOK'
  BY <1>7, <1>8 DEF ChainOK
<1>10. ReleasedOK' /\ OneTransactionPerAction'
  BY <1>1 DEF IInv, ReleasedOK, OfContract, OneTransactionPerAction, Local
<1>11. CallOK' /\ Copies(rows)' /\ Copies(work)'
  BY <1>1 DEF IInv, CallOK, OwnWork, OfContract, Copies
<1> QED BY <1>1, <1>9, <1>10, <1>11, ActionsStay DEF IInv

\* A restart forgets the call and the pass.
LEMMA RestartKeeps ==
  ASSUME IInv, Restart
  PROVE  IInv'
<1>1. /\ UNCHANGED <<tip, released, own, tables>>
      /\ call' = {} /\ rows' = NoRows /\ work' = NoRows
  BY DEF Restart
<1>2. Copies(rows)' /\ Copies(work)'
  BY <1>1, NoRowsIsTable DEF Copies
<1> QED BY <1>1, <1>2, ActionsGrow, ActionsStay DEF IInv, tables
-----------------------------------------------------------------------------
\* The invariant holds for ever.
THEOREM SwapsInvariant == Spec => []IInv
<1>1. IInv /\ [Next]_vars => IInv'
  <2> SUFFICES ASSUME IInv, [Next]_vars PROVE IInv'
    OBVIOUS
  <2> USE DEF chainVars, tables, loopVars
  <2>1. ASSUME NEW s \in SwapIDs, Session(s) PROVE IInv'
    <3>1. CASE CreateSwapKeys(s)
      BY <3>1, ActionsGrow, ActionsStay DEF CreateSwapKeys, IInv
    <3> QED BY <2>1, <3>1, RegisterKeeps, BeginKeeps, CounterpartyKeeps DEF Session
  <2>2. CASE PassStep
    <3>1. CASE StartPass \/ KeepProofs \/ EndPass
      <4>1. UNCHANGED <<chainVars, tables, call, rows, work>>
        BY <3>1 DEF StartPass, KeepProofs, EndPass
      <4> QED BY <4>1, ActionsGrow, ActionsStay DEF IInv
    <3> QED BY <2>2, <3>1, LoadKeeps, CheckKeeps, ResubmitKeeps, SaveKeeps DEF PassStep
  <2>3. CASE IndexCatchesUp
    BY <2>3, ActionsGrow, ActionsStay DEF IndexCatchesUp, IInv
  <2>4. CASE UNCHANGED vars
    BY <2>4, ActionsGrow, ActionsStay DEF vars, IInv
  <2> QED BY <2>1, <2>2, <2>3, <2>4, AbandonKeeps, StoreKeeps, SubmitKeeps, RecordKeeps,
             SelectKeeps, RestartKeeps DEF Next
<1> QED BY <1>1, InitIInv, PTL DEF Spec

\* FundSwap, ClaimSwap and RefundSwap: one transaction per action, for ever,
\* and none let out that is not stored.
THEOREM OneForEver == Spec => []OneTransactionPerAction
<1>1. IInv => OneTransactionPerAction
  BY DEF IInv
<1> QED BY <1>1, SwapsInvariant, PTL

\* RegisterSwap: whatever was paid or spent was built for the terms the session
\* still has.
THEOREM TermsStay == Spec => []TermsHold
<1>1. IInv => TermsHold
  BY DEF IInv, ReleasedOK, OfContract, TermsHold
<1> QED BY <1>1, SwapsInvariant, PTL

\* FundSwap's comparison of heights: a funding mined in the block it was built
\* for leaves the recipient a block to claim in.
THEOREM FundingLeavesTime == Spec => []PromptFundingLocked
<1>1. IInv => PromptFundingLocked
  <2> SUFFICES ASSUME IInv, NEW h \in 1..(Len(tip) - 1), NEW tx \in tip[h].txs,
                      tx.req.kind = "fund", Local(tx), tx.req.at = h - 1,
                      NEW u \in tip[h + 1].txs, u.req.kind = "refund", u.ins = Created(tx)
               PROVE  FALSE
    BY DEF PromptFundingLocked
  <2>1. /\ tip \in Seq(Block) /\ Len(tip) \in Nat
        /\ h \in 1..Len(tip) /\ h + 1 \in 1..Len(tip) /\ h \in Nat
    BY DEF IInv, ChainOK
  <2>2. tx \in released /\ u \in released
    <3>1. tip[h] \in Block /\ tip[h + 1] \in Block
      BY <2>1
    <3> QED BY <3>1 DEF Block
  <2>3. OfContract(tx) /\ OfContract(u)
    BY <2>2 DEF IInv, ReleasedOK
  <2>4. Created(tx) = {[of |-> tx.req, value |-> 1]} /\ u.ins = {u.req.coin}
    BY <2>3 DEF OfContract, Created
  <2>5. u.req.coin = [of |-> tx.req, value |-> 1]
    BY <2>4
  <2>6. u.req.swap = tx.req.swap
    BY <2>3, <2>5 DEF OfContract
  <2>7. u.req.terms = tx.req.terms
    BY <2>3, <2>6 DEF OfContract
  <2>8. h >= u.req.terms.refundHeight
    <3>1. RefundOpen(u, (h + 1) - 1)
      BY <2>1 DEF IInv, ChainOK
    <3> QED BY <2>1, <3>1 DEF RefundOpen
  <2>9. (h - 1) + 1 < tx.req.terms.refundHeight
    <3>1. Key(tx) \in DOMAIN actions /\ actions[Key(tx)].tx = tx
      BY <2>2 DEF IInv, OneTransactionPerAction
    <3>2. OwnWork(tx)
      BY <3>1 DEF IInv, ActionsOK
    <3> QED BY <3>2 DEF OwnWork, FundingInTime
  <2>10. tx.req.terms.refundHeight \in Nat
    BY <2>3, SwapsAssumption DEF OfContract, IInv, SessionsOK, Terms
  <2> QED BY <2>1, <2>7, <2>8, <2>9, <2>10
<1> QED BY <1>1, SwapsInvariant, PTL
=============================================================================
