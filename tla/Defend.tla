------------------------------- MODULE Defend -------------------------------
(***************************************************************************)
(* Automatic DEFEND after PQ Day.  The value of an output is shielded for  *)
(* Shield blocks; autoDefend, which follows every pass, moves outputs in   *)
(* the last quarter of their shield to a fresh address.  It competes with  *)
(* withdrawals for op and for outputs, its work may take longer than a     *)
(* block, and one transaction renews MaxInputs outputs at most.            *)
(*                                                                         *)
(* The chain only grows here (Custody has the reorganizations) and is told *)
(* by its height.  Resubmission is one step, in which every row may fail;  *)
(* between two restarts the pool keeps what it has.  A withdrawal stands   *)
(* for a swap funding too: rebroadcastSwapActions, deferred by the pass,   *)
(* ends before autoDefend begins.  How often a pass gets through, and how  *)
(* long a transaction waits in the pool, are bounds of the environment:    *)
(* Slack and MineDelay.                                                    *)
(***************************************************************************)
EXTENDS Naturals, FiniteSets, FiniteSetsExt

CONSTANTS Values,       \* of the outputs at the beginning, by name
          QdayHeight,   \* cs.QdayHeight
          Shield,       \* cs.Network.Qday.ShieldBlocks
          MaxInputs,    \* maxInputs
          Fee,          \* the transaction fee
          Slack,        \* at most so many blocks between two complete turns of the loop
          MineDelay,    \* at most so many blocks in the pool
          MaxHeight,    \* bound on the chain's length
          MaxWithdrawals, MaxRestarts

ASSUME DefendAssumption ==
  /\ {QdayHeight, Shield, MaxInputs, Fee, Slack, MineDelay} \subseteq Nat \ {0}
  /\ \A o \in DOMAIN Values : Values[o] \in Nat \ {0}

VARIABLES
  now,         \* the height of the tip
  outputs,     \* the wallet's unspent confirmed outputs
  pool,        \* pool transactions, with the height at which they entered
  rows,        \* table withdrawals
  op,          \* "free", "loop" or "client"
  loop, job,   \* where the loop is, and the DEFEND it builds
  unsent,      \* rows that the pass before it failed to submit
  client, order, quoted,  \* where CreateWithdrawal is, what it builds, and
                          \* the unit the client has copied from the status
  missed,      \* blocks since a pass failed nothing and its DEFEND ran to its end
  restarts

loopVars   == <<loop, job, unsent>>
clientVars == <<client, order, quoted>>
vars == <<now, outputs, pool, rows, op, loopVars, clientVars, missed, restarts>>

None == [ins |-> {}, at |-> 0]
-----------------------------------------------------------------------------
(* Shields and selection.                                                  *)

Greater(a, b) == IF a > b THEN a ELSE b

QdayActive(height) == height >= QdayHeight

\* QdayUnits: the denomination before and since PQ Day.
Unit(height) == IF QdayActive(height) THEN "new" ELSE "old"

Expiry(o) == Greater(o.born, QdayHeight) + Shield

\* QdayValue, at its worst: without its shield an output is worth nothing.
QdayValue(o, height) == IF height < Expiry(o) THEN o.value ELSE 0

Threshold == Greater(2, Shield \div 4)

InPool == UNION {p.tx.ins : p \in pool}

SpendableOutputs == {o \in outputs \ InPool : QdayValue(o, now + 2) > 0}

\* Faulty variant: due one block later.
DueLate == {o \in SpendableOutputs : now + Threshold > Expiry(o)}

Due == {o \in SpendableOutputs : now + Threshold >= Expiry(o)}

Worth(set) == MapThenSumSet(LAMBDA o : o.value, set)

\* The outputs taken: due, the earliest expiry first, as many as fit.
Selected ==
  {s \in SUBSET Due :
    /\ Cardinality(s) = Min({MaxInputs, Cardinality(Due)})
    /\ \A o \in s, p \in Due \ s : Expiry(o) <= Expiry(p)}

\* A transaction has one output of the wallet, and a number of its own.
Tx(kind, ins, value) ==
  [n |-> Cardinality(rows), kind |-> kind, ins |-> ins, value |-> value]

PoolAccepts(tx) == tx.ins \subseteq outputs \ InPool

Submit(tx) ==
  pool' = IF PoolAccepts(tx) THEN pool \cup {[tx |-> tx, at |-> now]} ELSE pool
-----------------------------------------------------------------------------
(* rebroadcastLoop.                                                        *)

Waiting == {r \in rows : r.ins \subseteq outputs \ InPool}

Disjoint(txs) == \A t, u \in txs : t # u => t.ins \cap u.ins = {}

\* rebroadcast: every stored transaction that the pool lacks and whose inputs
\* are there is submitted again; of two that conflict the first one stays.  Any
\* of them may fail: the query, the index, updateProofs and the pool return
\* errors, and autoDefend follows all the same.
Resubmit ==
  /\ loop = "idle"
  /\ loop' = "sent"
  /\ unsent' \in SUBSET Waiting
  /\ \E txs \in SUBSET (Waiting \ unsent') :
       /\ Disjoint(txs)
       /\ \A r \in Waiting \ (txs \cup unsent') : ~Disjoint(txs \cup {r})
       /\ pool' = pool \cup {[tx |-> t, at |-> now] : t \in txs}
  /\ UNCHANGED <<now, outputs, rows, op, job, clientVars, missed, restarts>>

\* autoDefend gives up: locked, no peer, index behind, or op is taken.
SkipDefend ==
  /\ loop = "sent"
  /\ loop' = "idle" /\ unsent' = {}
  /\ UNCHANGED <<now, outputs, pool, rows, op, job, clientVars, missed, restarts>>

\* Nothing is due, or what is due cannot pay the fee.
NothingToDefend ==
  /\ loop = "sent" /\ op = "free"
  /\ QdayActive(now + 1) => \E s \in Selected : Worth(s) <= Fee
  /\ loop' = "idle" /\ unsent' = {}
  /\ missed' = IF unsent = {} THEN 0 ELSE missed
  /\ UNCHANGED <<now, outputs, pool, rows, op, job, clientVars, restarts>>

Build ==
  /\ QdayActive(now + 1)
  /\ \E s \in Selected : Worth(s) > Fee /\ job' = [ins |-> s, at |-> now]
  /\ op' = "loop" /\ loop' = "work"
  /\ UNCHANGED <<now, outputs, pool, rows, unsent, clientVars, missed, restarts>>

\* Faulty variant: DEFEND comes before the pass.
BeginDefendFirst == loop \in {"idle", "sent"} /\ op = "free" /\ Build

\* op, the selection, a fresh address; then proof of work and signatures.
BeginDefend == loop = "sent" /\ op = "free" /\ Build

\* A block came in the meantime.
AbandonDefend ==
  /\ loop = "work" /\ now # job.at
  /\ loop' = "idle" /\ op' = "free" /\ job' = None /\ unsent' = {}
  /\ UNCHANGED <<now, outputs, pool, rows, clientVars, missed, restarts>>

\* No block came: from here on the tip is not looked at again.
CheckDefend ==
  /\ loop = "work" /\ now = job.at
  /\ loop' = "checked"
  /\ UNCHANGED <<now, outputs, pool, rows, op, job, unsent, clientVars, missed, restarts>>

StoreDefend ==
  /\ loop = "checked"
  /\ rows' = rows \cup {Tx("defend", job.ins, Worth(job.ins) - Fee)}
  /\ loop' = "stored"
  /\ UNCHANGED <<now, outputs, pool, op, job, unsent, clientVars, missed, restarts>>

SubmitDefend ==
  /\ loop = "stored"
  /\ \E r \in rows : r.kind = "defend" /\ r.ins = job.ins /\ Submit(r)
  /\ loop' = "idle" /\ op' = "free" /\ job' = None /\ unsent' = {}
  /\ missed' = IF unsent = {} THEN 0 ELSE missed
  /\ UNCHANGED <<now, outputs, rows, clientVars, restarts>>
-----------------------------------------------------------------------------
(* A client: GET /v1/status, POST /v1/withdrawals.                         *)

ReadStatus ==
  /\ client = "idle"
  /\ quoted' = Unit(now)
  /\ UNCHANGED <<now, outputs, pool, rows, op, loopVars, client, order, missed, restarts>>

\* CreateWithdrawal up to the work: op, the unit, one output that pays.
BeginWithdrawal(o) ==
  /\ client = "idle" /\ op = "free"
  /\ quoted = Unit(now)
  /\ o \in SpendableOutputs /\ o.value > Fee
  /\ Cardinality({r \in rows : r.kind = "withdrawal"}) < MaxWithdrawals
  /\ op' = "client" /\ client' = "work"
  /\ order' = [ins |-> {o}, at |-> now]
  /\ UNCHANGED <<now, outputs, pool, rows, loopVars, quoted, missed, restarts>>

AbandonWithdrawal ==
  /\ client = "work" /\ now # order.at
  /\ client' = "idle" /\ op' = "free" /\ order' = None
  /\ UNCHANGED <<now, outputs, pool, rows, loopVars, quoted, missed, restarts>>

Checked ==
  /\ client = "work"
  /\ client' = "checked"
  /\ UNCHANGED <<now, outputs, pool, rows, op, loopVars, order, quoted, missed, restarts>>

\* Faulty variant: the tip is not compared after signing.
CheckWithdrawalNot == Checked

CheckWithdrawal == now = order.at /\ Checked

\* The withdrawal pays one unit; the rest is change.
StoreWithdrawal ==
  /\ client = "checked"
  /\ rows' = rows \cup {Tx("withdrawal", order.ins, Worth(order.ins) - Fee - 1)}
  /\ client' = "stored"
  /\ UNCHANGED <<now, outputs, pool, op, loopVars, order, quoted, missed, restarts>>

SubmitWithdrawal ==
  /\ client = "stored"
  /\ \E r \in rows : r.kind = "withdrawal" /\ r.ins = order.ins /\ Submit(r)
  /\ client' = "idle" /\ op' = "free" /\ order' = None
  /\ UNCHANGED <<now, outputs, rows, loopVars, quoted, missed, restarts>>
-----------------------------------------------------------------------------
(* The chain and the process.                                              *)

\* A block, with pool transactions; none waits longer than MineDelay.
Block(mined) ==
  /\ now < MaxHeight /\ missed < Slack
  /\ \A p \in pool \ mined : now < p.at + MineDelay
  /\ now' = now + 1
  /\ outputs' = (outputs \ UNION {p.tx.ins : p \in mined})
                  \cup {[id |-> p.tx.n, born |-> now + 1, value |-> p.tx.value] :
                          p \in {q \in mined : q.tx.value > 0}}
  /\ pool' = pool \ mined
  /\ missed' = missed + 1
  /\ UNCHANGED <<rows, op, loopVars, clientVars, restarts>>

\* The process ends and is started again: journal and chain are left.
Restart ==
  /\ restarts < MaxRestarts
  /\ restarts' = restarts + 1
  /\ pool' = {} /\ op' = "free"
  /\ loop' = "idle" /\ job' = None /\ unsent' = {}
  /\ client' = "idle" /\ order' = None
  /\ UNCHANGED <<now, outputs, rows, quoted, missed>>

Init ==
  /\ now = 0
  /\ outputs = {[id |-> o, born |-> 0, value |-> Values[o]] : o \in DOMAIN Values}
  /\ pool = {} /\ rows = {}
  /\ op = "free" /\ loop = "idle" /\ job = None /\ unsent = {}
  /\ client = "idle" /\ order = None /\ quoted = Unit(0)
  /\ missed = 0 /\ restarts = 0

Next ==
  \/ Resubmit \/ SkipDefend \/ NothingToDefend
  \/ BeginDefend \/ AbandonDefend \/ CheckDefend \/ StoreDefend \/ SubmitDefend
  \/ ReadStatus \/ \E o \in outputs : BeginWithdrawal(o)
  \/ AbandonWithdrawal \/ CheckWithdrawal \/ StoreWithdrawal \/ SubmitWithdrawal
  \/ \E mined \in SUBSET pool : Block(mined)
  \/ Restart

Spec == Init /\ [][Next]_vars
-----------------------------------------------------------------------------
(* Properties.                                                             *)

\* No output outlives its shield: the last quarter is long enough for every
\* due output to be renewed and mined, also when all of them expire at once and
\* do not fit in one transaction, passes are skipped or abandoned, the process
\* restarts or a withdrawal has the output.  (Outputs that come first and cannot
\* pay the fee together would stop autoDefend: the instance has none.)
RenewedInTime == \A o \in outputs : now < Expiry(o)

\* DEFEND takes no output of a stored transaction that could still be mined:
\* the pool may have forgotten that transaction with a restart, but the pass
\* before autoDefend has submitted it again, and op keeps a withdrawal from
\* coming between.  Only a transaction that this very pass failed to submit is
\* not spared, nor one that another in the pool already conflicts with, which
\* cannot be mined.
DefendSparesJournal ==
  [][\A d \in rows' \ rows : d.kind = "defend" =>
       \A r \in Waiting \ unsent : r.ins \cap d.ins = {}]_vars

\* expectedUnitAtomic: when a signed withdrawal passes the last look at the
\* tip, the denomination the client has reviewed is the one of that tip,
\* wherever PQ Day falls between the client's look at the status, the
\* comparison and the signature.
UnitReviewed ==
  [][client' = "checked" /\ client # "checked" => quoted = Unit(now)]_vars
=============================================================================
