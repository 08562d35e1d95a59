------------------------------ MODULE SwapView ------------------------------
(***************************************************************************)
(* swapView: what GET /v1/swaps/{swapID} says of the outputs of one        *)
(* contract.  It takes no lock; it reads the tip, the confirmed events,    *)
(* the tip again and then the pool, while blocks arrive, the chain         *)
(* reorganizes and the pool changes.                                       *)
(*                                                                         *)
(* The wallet index and the pool are external (go.sia.tech/walletd and     *)
(* coreutils); blocks and pool list the contract's transactions in order.  *)
(***************************************************************************)
EXTENDS ReaderChain, SequencesExt, FiniteSets

CONSTANT SwapTxs   \* the contract's transactions: what each does to which output

\* "unknown" is a spend whose branch of the policy is not recognized.
Kinds == {"fund", "claim", "refund", "unknown"}

ASSUME SwapTxsAssumption == \A t \in SwapTxs : t.kind \in Kinds

Outputs == {t.out : t \in SwapTxs}

VARIABLES
  acted,        \* the output of the local funding action, if there is one
  unconfirmed,  \* the funding action was seen unconfirmed
  observed,     \* the map `observed`
  shown         \* the answer: outputs and aggregate status

readVars == <<pc, cs, unconfirmed, observed, shown>>
viewVars == <<chainVars, acted, readVars>>
-----------------------------------------------------------------------------
(* The contract on the chain.                                              *)

History(chain) == FlattenSeq(chain)

\* Outputs are created once and spent once, after they are created.
Consistent(txs) ==
  \A i \in 1..Len(txs) :
    LET before == {txs[j] : j \in 1..(i - 1)} IN
    /\ \A t \in before : t.out = txs[i].out => t.kind = "fund" /\ txs[i].kind # "fund"
    /\ txs[i].kind # "fund" => \E t \in before : t.out = txs[i].out

Valid(t, txs) == Consistent(Append(txs, t))

ViewInit ==
  /\ tip = <<>> /\ scan = <<>> /\ pool = <<>>
  /\ acted \in SUBSET Outputs /\ Cardinality(acted) <= 1
  /\ pc = "tip" /\ cs = <<>> /\ unconfirmed = FALSE
  /\ observed = [o \in {} |-> {}] /\ shown = [outputs |-> observed, status |-> "waiting"]

\* Someone submits a funding, a claim or a refund.
PoolTakes(t) ==
  /\ Valid(t, History(tip) \o pool)
  /\ pool' = Append(pool, t)
  /\ UNCHANGED <<tip, scan, acted, readVars>>

SwapBlocks == UNION {[1..n -> SwapTxs] : n \in 0..MaxBlock}

\* The pool keeps what is still valid.
Kept(history, txs) ==
  FoldLeft(LAMBDA kept, t : IF Valid(t, history \o kept) THEN Append(kept, t) ELSE kept,
           <<>>, txs)

\* A longer chain is selected.
ChainGrows(depth) ==
  /\ Longer(depth, SwapBlocks)
  /\ Consistent(History(tip'))
  /\ pool' = Kept(History(tip'), pool)
  /\ UNCHANGED <<scan, acted, readVars>>

IndexCatchesUp ==
  /\ scan # tip
  /\ scan' = tip
  /\ UNCHANGED <<tip, pool, acted, readVars>>
-----------------------------------------------------------------------------
(* observeSwapTransaction.                                                 *)

Output(confirmed, spent, status, secret) ==
  [confirmed |-> confirmed, spent |-> spent, status |-> status, secret |-> secret]

Put(map, o, entry) == [x \in DOMAIN map \cup {o} |-> IF x = o THEN entry ELSE map[x]]

\* kind + "ing" and kind + "ed", with an unknown branch of the policy apart.
Spending == [claim |-> "claiming", refund |-> "refunding", unknown |-> "spending"]
Spent    == [claim |-> "claimed",  refund |-> "refunded",  unknown |-> "spent"]

\* classifySwapSpend: a claim's witness reveals the secret.
Reveals(t) == t.kind = "claim"

\* The output of a funding transaction.
ObserveFunding(map, t, confirmed) ==
  IF t.out \notin DOMAIN map \/ (confirmed /\ ~map[t.out].confirmed)
  THEN Put(map, t.out, Output(confirmed, FALSE, IF confirmed THEN "funded" ELSE "funding", FALSE))
  ELSE map

\* Faulty variant: the pool may replace a confirmed spend.
ObserveLatestSpend(map, t, confirmed) ==
  Put(map, t.out, Output(t.out \in DOMAIN map /\ map[t.out].confirmed, TRUE,
                         IF confirmed THEN Spent[t.kind] ELSE Spending[t.kind], Reveals(t)))

\* The input of a spend; a confirmed spend is not replaced by the pool's.
ObserveSpend(map, t, confirmed) ==
  IF t.out \in DOMAIN map /\ map[t.out].spent /\ ~confirmed
  THEN map
  ELSE Put(map, t.out, Output(t.out \in DOMAIN map /\ map[t.out].confirmed, TRUE,
                              IF confirmed THEN Spent[t.kind] ELSE Spending[t.kind], Reveals(t)))

Observe(map, t, confirmed) ==
  IF t.kind = "fund" THEN ObserveFunding(map, t, confirmed)
                     ELSE ObserveSpend(map, t, confirmed)

\* Faulty variant: events are replayed as the index returns them, newest first.
ReplayNewestFirst(chain) ==
  FoldLeft(LAMBDA map, t : Observe(map, t, TRUE), [o \in {} |-> {}], Reverse(History(chain)))

\* The confirmed events, oldest first.
Replay(chain) ==
  FoldLeft(LAMBDA map, t : Observe(map, t, TRUE), [o \in {} |-> {}], History(chain))

ObservePool(map, txs) == FoldLeft(LAMBDA m, t : Observe(m, t, FALSE), map, txs)
-----------------------------------------------------------------------------
(* aggregateSwapStatus.                                                    *)

\* Faulty variant: a funded output hides a pending spend of another one.
AfterOutputFunded(status, s) ==
  CASE s \in {"claiming", "refunding"} -> s
    [] s = "funded" -> "funded"
    [] s = "funding" /\ status = "waiting" -> "funding"
    [] OTHER -> status

\* One turn of the loop over the outputs.
AfterOutput(status, s) ==
  CASE s \in {"claiming", "refunding"} -> s
    [] s = "funded" /\ status \in {"waiting", "funding"} -> "funded"
    [] s = "funding" /\ status = "waiting" -> "funding"
    [] OTHER -> status

\* The statuses of the outputs in the order shown; the first settled one
\* decides.
Aggregate(statuses, unconfirmedFunding) ==
  LET settled == {i \in 1..Len(statuses) : statuses[i] \in {"claimed", "refunded"}}
  IN  IF settled # {} THEN statuses[Min(settled)]
      ELSE FoldLeft(AfterOutput, IF unconfirmedFunding THEN "funding" ELSE "waiting", statuses)
-----------------------------------------------------------------------------
(* swapView.                                                               *)

\* The actions' views are made first: a funding action counts as unconfirmed
\* unless the index has its transaction.
ReadActions ==
  /\ pc = "tip"
  /\ unconfirmed' = (\E o \in acted : ~\E i \in 1..Len(History(scan)) :
                       History(scan)[i].kind = "fund" /\ History(scan)[i].out = o)
  /\ pc' = "start"
  /\ UNCHANGED <<chainVars, acted, cs, observed, shown>>

\* observedSwapOutputs: the index has reached the tip, or the call fails.
ReadTip ==
  /\ pc = "start"
  /\ IF scan = tip THEN pc' = "events" /\ cs' = tip
                   ELSE pc' = "tip" /\ UNCHANGED cs
  /\ UNCHANGED <<chainVars, acted, unconfirmed, observed, shown>>

\* The pages of AddressEvents.  What moves between two of them is refused by the
\* check that follows; an error, the limit of 10,000 events included, ends the
\* call as that refusal does.
ReadEvents ==
  /\ pc = "events"
  /\ observed' = Replay(scan)
  /\ pc' = "check"
  /\ UNCHANGED <<chainVars, acted, cs, unconfirmed, shown>>

\* "chain changed while reading atomic-swap events; retry"
CheckTip ==
  /\ pc = "check"
  /\ pc' = IF scan = cs /\ tip = cs THEN "pool" ELSE "tip"
  /\ UNCHANGED <<chainVars, acted, cs, unconfirmed, observed, shown>>

\* The pool is read last, and the answer made.  Outputs are sorted by height
\* and identifier; the aggregate is taken for any order.
ReadPool ==
  /\ pc = "pool"
  /\ LET final == ObservePool(observed, pool) IN
     \E order \in SetToSeqs(DOMAIN final) :
       shown' = [outputs |-> final,
                 status |-> Aggregate([i \in 1..Len(order) |-> final[order[i]].status], unconfirmed)]
  /\ pc' = "answered"
  /\ UNCHANGED <<chainVars, acted, cs, unconfirmed, observed>>

\* The client asks again.
AskAgain ==
  /\ pc = "answered"
  /\ pc' = "tip"
  /\ cs' = <<>> /\ unconfirmed' = FALSE
  /\ observed' = [o \in {} |-> {}] /\ shown' = [outputs |-> observed', status |-> "waiting"]
  /\ UNCHANGED <<chainVars, acted>>

Read == ReadActions \/ ReadTip \/ ReadEvents \/ CheckTip \/ ReadPool \/ AskAgain

ViewNext ==
  \/ \E t \in SwapTxs : PoolTakes(t)
  \/ \E depth \in 0..MaxDepth : ChainGrows(depth)
  \/ IndexCatchesUp
  \/ Read

ViewSpec == ViewInit /\ [][ViewNext]_viewVars
-----------------------------------------------------------------------------
(* Properties.                                                             *)

\* What is true of an output on a chain and a pool: "none" if unknown.
TrueStatus(o, txs, confirmed) ==
  LET of(kinds) == {i \in 1..Len(txs) : txs[i].out = o /\ txs[i].kind \in kinds}
      spends == of(DOMAIN Spent)
      state(i) == IF i <= confirmed THEN Spent[txs[i].kind] ELSE Spending[txs[i].kind]
  IN  CASE spends # {} -> state(CHOOSE i \in spends : TRUE)
        [] spends = {} /\ of({"fund"}) # {} ->
             IF \E i \in of({"fund"}) : i <= confirmed THEN "funded" ELSE "funding"
        [] OTHER -> "none"

Shown(o) == IF o \in DOMAIN shown.outputs THEN shown.outputs[o].status ELSE "none"

\* Settled outputs are shown exactly as the selected chain of the first read
\* settles them, whatever the chain and the pool did during the read: replay
\* order and the pool never hide, invent or replace a confirmed spend, and a
\* confirmed claim, and nothing else confirmed, comes with its secret.
SettledExact ==
  pc = "answered" =>
    \A o \in Outputs :
      LET true == TrueStatus(o, History(cs), Len(History(cs)))
      IN  IF true \in {"claimed", "refunded", "spent"}
          THEN Shown(o) = true /\ (shown.outputs[o].secret <=> true = "claimed")
          ELSE Shown(o) \notin {"claimed", "refunded", "spent"}

\* If no block arrived during the read, every output has the status that chain
\* and pool give it when the answer is made.
QuietViewExact ==
  [][(pc = "pool" /\ pc' = "answered" /\ tip = cs) =>
       \A o \in Outputs :
         Shown(o)' = TrueStatus(o, History(tip) \o pool, Len(History(tip)))]_viewVars

\* The stages of docs/API.md, in their order.  "spending" and "spent", the status
\* of an output whose spend is not recognized, are none of them.
Lifecycle == {"waiting", "funding", "funded", "claiming", "refunding", "claimed", "refunded"}

Stage(status) ==
  CASE status = "waiting" -> 0
    [] status = "funding" -> 1
    [] status = "funded" -> 2
    [] status \in {"claiming", "refunding"} -> 3
    [] status \in {"claimed", "refunded"} -> 4

\* The aggregate is the furthest stage of the lifecycle that an output, or the
\* local funding action, has reached, in whatever order the outputs come: none
\* hides another.  Outputs whose spend is not recognized count for nothing: they
\* hide no other's stage, and a session that has only such outputs is told as
\* one without outputs, "waiting" or "funding", even when the spend is confirmed.
AggregateIsFurthest ==
  pc = "answered" =>
    LET reached == ({shown.outputs[o].status : o \in DOMAIN shown.outputs} \cap Lifecycle)
                     \cup {"waiting"} \cup (IF unconfirmed THEN {"funding"} ELSE {})
    IN  /\ shown.status \in reached
        /\ \A status \in reached : Stage(status) <= Stage(shown.status)
=============================================================================
