---------------------------- MODULE DefendProofs ----------------------------
(***************************************************************************)
(* Proofs about Defend, for any outputs, shield, threshold, limits and     *)
(* delays: a DEFEND takes no output of a stored transaction that could     *)
(* still be mined, unless the pass before it failed to submit that one,    *)
(* and a withdrawal is signed in the denomination that the client has      *)
(* reviewed.  (That every output is renewed in time depends on how the     *)
(* delays relate to the shield and is left to model checking.)             *)
(***************************************************************************)
EXTENDS Defend, TLAPS

(***************************************************************************)
(* The inductive invariant.                                                *)
(***************************************************************************)

\* op belongs to the one that works on a transaction.
OpHeld ==
  /\ loop \in {"work", "checked", "stored"} => op = "loop"
  /\ client # "idle" => op = "client"

\* Nothing refers to an output of a later block: a block's outputs are new.
BornBefore ==
  /\ now \in Nat
  /\ \A o \in outputs : o.born \in 0..now
  /\ \A r \in rows : \A o \in r.ins : o.born \in 0..now
  /\ \A o \in job.ins \cup order.ins : o.born \in 0..now

\* From the pass to the DEFEND's row nothing in the journal could be mined that
\* the pool does not have, except what the pass failed to submit and a withdrawal
\* whose client is about to submit it.
JournalSent ==
  loop \in {"sent", "work", "checked"} =>
    \A r \in Waiting \ unsent : r.ins = {} \/ (client = "stored" /\ r.ins = order.ins)

\* The unit compared is the one of the tip the transaction is built on.
UnitCompared == client = "work" => quoted = Unit(order.at)

IInv == OpHeld /\ BornBefore /\ JournalSent /\ UnitCompared
-----------------------------------------------------------------------------
\* op is taken and given back with the work.
LEMMA OpKept ==
  ASSUME OpHeld, [Next]_vars
  PROVE  OpHeld'
<1> USE DEF OpHeld
<1>1. CASE Resubmit \/ SkipDefend \/ NothingToDefend
  BY <1>1 DEF Resubmit, SkipDefend, NothingToDefend, clientVars
<1>2. CASE BeginDefend
  BY <1>2 DEF BeginDefend, Build, clientVars
<1>3. CASE AbandonDefend \/ CheckDefend
  BY <1>3 DEF AbandonDefend, CheckDefend, clientVars
<1>4. CASE StoreDefend \/ SubmitDefend
  BY <1>4 DEF StoreDefend, SubmitDefend, clientVars
<1>5. CASE ReadStatus \/ \E o \in outputs : BeginWithdrawal(o)
  BY <1>5 DEF ReadStatus, BeginWithdrawal, loopVars
<1>6. CASE AbandonWithdrawal \/ CheckWithdrawal
  BY <1>6 DEF AbandonWithdrawal, CheckWithdrawal, Checked, loopVars
<1>7. CASE StoreWithdrawal \/ SubmitWithdrawal
  BY <1>7 DEF StoreWithdrawal, SubmitWithdrawal, loopVars
<1>8. CASE \E mined \in SUBSET pool : Block(mined)
  BY <1>8 DEF Block, loopVars, clientVars
<1>9. CASE Restart
  BY <1>9 DEF Restart
<1>10. CASE UNCHANGED vars
  BY <1>10 DEF vars, loopVars, clientVars
<1> QED BY <1>1, <1>2, <1>3, <1>4, <1>5, <1>6, <1>7, <1>8, <1>9, <1>10 DEF Next

\* The unit is compared after op is taken; the client keeps what it has quoted.
LEMMA UnitKept ==
  ASSUME UnitCompared, [Next]_vars
  PROVE  UnitCompared'
<1> USE DEF UnitCompared
<1>1. CASE \/ Resubmit \/ SkipDefend \/ NothingToDefend
           \/ BeginDefend \/ AbandonDefend \/ CheckDefend \/ StoreDefend \/ SubmitDefend
  BY <1>1 DEF Resubmit, SkipDefend, NothingToDefend, BeginDefend, Build, AbandonDefend,
              CheckDefend, StoreDefend, SubmitDefend, clientVars
<1>2. CASE ReadStatus
  BY <1>2 DEF ReadStatus
<1>3. CASE \E o \in outputs : BeginWithdrawal(o)
  BY <1>3 DEF BeginWithdrawal
<1>4. CASE AbandonWithdrawal \/ CheckWithdrawal \/ StoreWithdrawal \/ SubmitWithdrawal
  BY <1>4 DEF AbandonWithdrawal, CheckWithdrawal, Checked, StoreWithdrawal, SubmitWithdrawal
<1>5. CASE \E mined \in SUBSET pool : Block(mined)
  BY <1>5 DEF Block, clientVars
<1>6. CASE Restart
  BY <1>6 DEF Restart
<1>7. CASE UNCHANGED vars
  BY <1>7 DEF vars, clientVars
<1> QED BY <1>1, <1>2, <1>3, <1>4, <1>5, <1>6, <1>7 DEF Next

\* What is selected is there.
LEMMA SelectedThere ==
  /\ SpendableOutputs \subseteq outputs
  /\ \A s \in Selected : s \subseteq outputs
BY DEF Selected, Due, SpendableOutputs

\* A row takes its inputs from what was built.
LEMMA RowStored ==
  ASSUME NEW kind, NEW ins, NEW value
  PROVE  Tx(kind, ins, value).ins = ins /\ Tx(kind, ins, value).kind = kind
BY DEF Tx

\* Inputs are taken from the outputs there are; only a block makes new ones.
LEMMA BornKept ==
  ASSUME BornBefore, [Next]_vars
  PROVE  BornBefore'
<1> USE DEF BornBefore
<1>0. None.ins = {}
  BY DEF None
<1>1. CASE Resubmit \/ SkipDefend \/ NothingToDefend
  BY <1>1 DEF Resubmit, SkipDefend, NothingToDefend, clientVars
<1>2. CASE BeginDefend
  <2>1. PICK s \in Selected : job' = [ins |-> s, at |-> now]
    BY <1>2 DEF BeginDefend, Build
  <2>2. job'.ins \subseteq outputs
    BY <2>1, SelectedThere
  <2> QED BY <1>2, <2>2 DEF BeginDefend, Build, clientVars
<1>3. CASE AbandonDefend \/ SubmitDefend
  BY <1>0, <1>3 DEF AbandonDefend, SubmitDefend, clientVars
<1>4. CASE CheckDefend
  BY <1>4 DEF CheckDefend, clientVars
<1>5. CASE StoreDefend
  <2>1. \A r \in rows' : r \in rows \/ r.ins = job.ins
    BY <1>5, RowStored DEF StoreDefend
  <2> QED BY <1>5, <2>1 DEF StoreDefend, clientVars
<1>6. CASE ReadStatus
  BY <1>6 DEF ReadStatus, loopVars
<1>7. CASE \E o \in outputs : BeginWithdrawal(o)
  <2>1. PICK o \in outputs : order' = [ins |-> {o}, at |-> now]
    BY <1>7 DEF BeginWithdrawal
  <2> QED BY <1>7, <2>1 DEF BeginWithdrawal, loopVars
<1>8. CASE AbandonWithdrawal \/ SubmitWithdrawal
  BY <1>0, <1>8 DEF AbandonWithdrawal, SubmitWithdrawal, loopVars
<1>9. CASE CheckWithdrawal
  BY <1>9 DEF CheckWithdrawal, Checked, loopVars
<1>10. CASE StoreWithdrawal
  <2>1. \A r \in rows' : r \in rows \/ r.ins = order.ins
    BY <1>10, RowStored DEF StoreWithdrawal
  <2> QED BY <1>10, <2>1 DEF StoreWithdrawal, loopVars
<1>11. CASE \E mined \in SUBSET pool : Block(mined)
  <2>1. PICK mined \in SUBSET pool : Block(mined)
    BY <1>11
  <2>2. /\ now' = now + 1 /\ UNCHANGED <<rows, job, order>>
        /\ \A o \in outputs' : o \in outputs \/ o.born = now + 1
    BY <2>1 DEF Block, loopVars, clientVars
  <2> QED BY <2>2
<1>12. CASE Restart
  BY <1>0, <1>12 DEF Restart
<1>13. CASE UNCHANGED vars
  BY <1>13 DEF vars, loopVars, clientVars
<1> QED BY <1>1, <1>2, <1>3, <1>4, <1>5, <1>6, <1>7, <1>8, <1>9, <1>10, <1>11, <1>12, <1>13
        DEF Next

\* Nothing new could be mined while the journal and the outputs stay.
LEMMA WaitingShrinks ==
  ASSUME rows' = rows, outputs' = outputs, pool \subseteq pool'
  PROVE  Waiting' \subseteq Waiting
BY DEF Waiting, InPool

\* After a pass the pool has, of all that could be mined and did not fail, as much
\* as it can.
LEMMA PassSends ==
  ASSUME Resubmit
  PROVE  \A r \in Waiting' \ unsent' : r.ins = {}
<1>1. PICK txs \in SUBSET Waiting :
        /\ Disjoint(txs)
        /\ \A r \in Waiting \ (txs \cup unsent') : ~Disjoint(txs \cup {r})
        /\ pool' = pool \cup {[tx |-> t, at |-> now] : t \in txs}
  BY DEF Resubmit
<1>2. rows' = rows /\ outputs' = outputs
  BY DEF Resubmit
<1>3. \A t \in txs : t.ins \subseteq InPool'
  <2> SUFFICES ASSUME NEW t \in txs PROVE t.ins \subseteq InPool'
    OBVIOUS
  <2>1. [tx |-> t, at |-> now] \in pool' /\ [tx |-> t, at |-> now].tx = t
    BY <1>1
  <2> QED BY <2>1 DEF InPool
<1> SUFFICES ASSUME NEW r \in Waiting' \ unsent' PROVE r.ins = {}
  OBVIOUS
<1>4. r \in Waiting /\ r.ins \cap InPool' = {}
  <2>1. pool \subseteq pool'
    BY <1>1
  <2> QED BY <1>2, <2>1, WaitingShrinks DEF Waiting
<1>5. CASE r \in txs
  BY <1>3, <1>4, <1>5
<1>6. CASE r \notin txs
  <2>1. PICK t \in txs : t.ins \cap r.ins # {}
    BY <1>1, <1>4, <1>6 DEF Disjoint
  <2> QED BY <1>3, <1>4, <2>1
<1> QED BY <1>5, <1>6

\* A withdrawal is submitted: the pool has it, or it could not be mined.
LEMMA WithdrawalSent ==
  ASSUME SubmitWithdrawal
  PROVE  \A r \in Waiting' : r.ins = order.ins => r.ins = {}
<1>1. rows' = rows /\ outputs' = outputs
  BY DEF SubmitWithdrawal
<1>2. PICK q \in rows : q.ins = order.ins /\ Submit(q)
  BY DEF SubmitWithdrawal
<1> SUFFICES ASSUME NEW r \in Waiting', r.ins = order.ins PROVE r.ins = {}
  OBVIOUS
<1>3. r.ins \subseteq outputs \ InPool'
  BY <1>1 DEF Waiting
<1>4. CASE PoolAccepts(q)
  <2>1. pool' = pool \cup {[tx |-> q, at |-> now]}
    BY <1>2, <1>4 DEF Submit
  <2>2. [tx |-> q, at |-> now] \in pool' /\ [tx |-> q, at |-> now].tx = q
    BY <2>1
  <2>3. q.ins \subseteq InPool'
    BY <2>2 DEF InPool
  <2> QED BY <1>2, <1>3, <2>3
<1>5. CASE ~PoolAccepts(q)
  <2>1. InPool' = InPool
    BY <1>2, <1>5 DEF Submit, InPool
  <2> QED BY <1>2, <1>3, <1>5, <2>1 DEF PoolAccepts
<1> QED BY <1>4, <1>5

\* A block spends what it takes out of the pool, and its own outputs are new:
\* nothing that could not be mined before it can be mined after it.
LEMMA BlockSpends ==
  ASSUME BornBefore, NEW mined \in SUBSET pool, Block(mined)
  PROVE  Waiting' \subseteq Waiting
<1> DEFINE Spent == UNION {p.tx.ins : p \in mined}
<1>1. /\ rows' = rows /\ pool' = pool \ mined
      /\ \A o \in outputs' : (o \in outputs /\ o \notin Spent) \/ o.born = now + 1
  BY DEF Block
<1>2. InPool \subseteq InPool' \cup Spent
  BY <1>1 DEF InPool
<1> HIDE DEF Spent
<1> SUFFICES ASSUME NEW r \in Waiting' PROVE r.ins \subseteq outputs \ InPool
  BY <1>1 DEF Waiting
<1>3. r \in rows /\ r.ins \subseteq outputs' /\ r.ins \cap InPool' = {}
  BY <1>1 DEF Waiting
<1>4. \A o \in r.ins : o.born # now + 1
  BY <1>3 DEF BornBefore
<1> QED BY <1>1, <1>2, <1>3, <1>4

\* Between the pass and the row of the DEFEND only a client stores anything, and
\* not while the DEFEND holds op.
LEMMA SentKept ==
  ASSUME OpHeld, BornBefore, JournalSent, [Next]_vars
  PROVE  JournalSent'
<1>1. CASE Resubmit
  BY <1>1, PassSends DEF JournalSent
<1>2. CASE SkipDefend \/ NothingToDefend \/ AbandonDefend \/ SubmitDefend \/ Restart
  BY <1>2 DEF SkipDefend, NothingToDefend, AbandonDefend, SubmitDefend, Restart, JournalSent
<1>3. CASE BeginDefend \/ CheckDefend
  <2>1. /\ UNCHANGED <<rows, outputs, pool, client, order, unsent>>
        /\ loop \in {"sent", "work", "checked"}
    BY <1>3 DEF BeginDefend, Build, CheckDefend, clientVars
  <2> QED BY <2>1, WaitingShrinks DEF JournalSent
<1>4. CASE StoreDefend
  BY <1>4 DEF StoreDefend, JournalSent
<1>5. CASE ReadStatus
  <2>1. UNCHANGED <<rows, outputs, pool, client, order, loop, unsent>>
    BY <1>5 DEF ReadStatus, loopVars
  <2> QED BY <2>1, WaitingShrinks DEF JournalSent
<1>6. CASE \/ \E o \in outputs : BeginWithdrawal(o)
           \/ AbandonWithdrawal \/ CheckWithdrawal
  <2>1. UNCHANGED <<rows, outputs, pool, loop, unsent>> /\ client # "stored"
    BY <1>6 DEF BeginWithdrawal, AbandonWithdrawal, CheckWithdrawal, Checked, loopVars
  <2> QED BY <2>1, WaitingShrinks DEF JournalSent
<1>7. CASE StoreWithdrawal
  <2>1. /\ UNCHANGED <<outputs, pool, loop, order, unsent>>
        /\ client = "checked" /\ client' = "stored"
        /\ \A r \in rows' : r \in rows \/ r.ins = order.ins
    BY <1>7, RowStored DEF StoreWithdrawal, loopVars
  <2>2. \A r \in Waiting' : r \in Waiting \/ r.ins = order.ins
    BY <2>1 DEF Waiting, InPool
  <2> QED BY <2>1, <2>2 DEF JournalSent
<1>8. CASE SubmitWithdrawal
  <2>1. UNCHANGED <<rows, outputs, loop, unsent>>
    BY <1>8 DEF SubmitWithdrawal, loopVars
  <2>2. pool \subseteq pool'
    BY <1>8 DEF SubmitWithdrawal, Submit
  <2> QED BY <1>8, <2>1, <2>2, WaitingShrinks, WithdrawalSent DEF JournalSent
<1>9. CASE \E mined \in SUBSET pool : Block(mined)
  <2>1. UNCHANGED <<client, order, loop, unsent>>
    BY <1>9 DEF Block, loopVars, clientVars
  <2> QED BY <1>9, <2>1, BlockSpends DEF JournalSent
<1>10. CASE UNCHANGED vars
  <2>1. UNCHANGED <<rows, outputs, pool, client, order, loop, unsent>>
    BY <1>10 DEF vars, loopVars, clientVars
  <2> QED BY <2>1, WaitingShrinks DEF JournalSent
<1> QED BY <1>1, <1>2, <1>3, <1>4, <1>5, <1>6, <1>7, <1>8, <1>9, <1>10 DEF Next
-----------------------------------------------------------------------------
\* The invariant holds.
THEOREM DefendInvariant == Spec => []IInv
<1>1. Init => IInv
  <2> SUFFICES ASSUME Init PROVE IInv
    OBVIOUS
  <2>1. OpHeld /\ JournalSent /\ UnitCompared
    BY DEF Init, OpHeld, JournalSent, UnitCompared
  <2>2. BornBefore
    BY DEF Init, BornBefore, None
  <2> QED BY <2>1, <2>2 DEF IInv
<1>2. IInv /\ [Next]_vars => IInv'
  BY OpKept, UnitKept, BornKept, SentKept DEF IInv
<1> QED BY <1>1, <1>2, PTL DEF Spec

\* DEFEND spares the journal: the pass of Resubmit comes before autoDefend, and
\* op keeps withdrawals away until its row is stored.
THEOREM DefendLeavesJournal == Spec => DefendSparesJournal
<1>1. IInv /\ [Next]_vars =>
        [\A d \in rows' \ rows : d.kind = "defend" =>
           \A r \in Waiting \ unsent : r.ins \cap d.ins = {}]_vars
  <2> SUFFICES ASSUME IInv, Next, NEW d \in rows' \ rows, d.kind = "defend",
                      NEW r \in Waiting \ unsent
               PROVE  r.ins = {}
    OBVIOUS
  <2>1. CASE StoreDefend
    <3>1. loop = "checked" /\ client = "idle"
      BY <2>1 DEF StoreDefend, IInv, OpHeld
    <3> QED BY <3>1 DEF IInv, JournalSent
  <2>2. CASE StoreWithdrawal
    <3>1. d.kind = "withdrawal"
      BY <2>2, RowStored DEF StoreWithdrawal
    <3> QED BY <3>1
  <2>3. CASE ~StoreDefend /\ ~StoreWithdrawal
    <3>1. rows' = rows
      BY <2>3 DEF Next, Resubmit, SkipDefend, NothingToDefend, BeginDefend, Build, AbandonDefend,
                  CheckDefend, SubmitDefend, ReadStatus, BeginWithdrawal, AbandonWithdrawal,
                  CheckWithdrawal, Checked, SubmitWithdrawal, Block, Restart
    <3> QED BY <3>1
  <2> QED BY <2>1, <2>2, <2>3
<1> QED BY <1>1, DefendInvariant, PTL DEF Spec, DefendSparesJournal

\* expectedUnitAtomic: what is signed and checked against the tip has the unit
\* that the client has reviewed, wherever PQ Day falls.
THEOREM SignedAsReviewed == Spec => UnitReviewed
<1>1. IInv /\ [Next]_vars =>
        [client' = "checked" /\ client # "checked" => quoted = Unit(now)]_vars
  <2> SUFFICES ASSUME IInv, Next, client' = "checked", client # "checked"
               PROVE  quoted = Unit(now)
    OBVIOUS
  <2>1. CheckWithdrawal
    BY DEF Next, Resubmit, SkipDefend, NothingToDefend, BeginDefend, Build, AbandonDefend,
           CheckDefend, StoreDefend, SubmitDefend, ReadStatus, BeginWithdrawal, AbandonWithdrawal,
           StoreWithdrawal, SubmitWithdrawal, Block, Restart, clientVars
  <2> QED BY <2>1 DEF CheckWithdrawal, Checked, IInv, UnitCompared
<1> QED BY <1>1, DefendInvariant, PTL DEF Spec, UnitReviewed
=============================================================================
