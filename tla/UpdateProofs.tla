---------------------------- MODULE UpdateProofs ----------------------------
(***************************************************************************)
(* updateProofs: the proofs of one stored transaction are carried from the *)
(* index they were made at to the tip of the pass, a stretch of at most    *)
(* `step` blocks at a time, back to the selected chain and then forward    *)
(* along it, while the selected chain may be replaced between any two      *)
(* reads of BestIndex.                                                     *)
(*                                                                         *)
(* Custody takes the outcome for granted: the direct path from `from` to   *)
(* `to` decides, or the chain moved.                                       *)
(***************************************************************************)
EXTENDS SelectedChain

CONSTANTS Step,       \* step, 72 in the code
          MaxLength,  \* bound on the length of a chain
          MaxMoves,   \* bound on replacements of the selected chain
          Parent,     \* the transaction whose output is spent
          Child       \* the stored transaction

ASSUME StepAssumption == Step \in Nat \ {0}

Block == [tag : {0, 1}, txs : SUBSET {Parent, Child}]

Chains ==
  UNION {{chain \in [1..n -> Block] : ValidChain(chain)} : n \in 0..MaxLength}

VARIABLES
  best,    \* the selected chain
  start,   \* the stored basis
  to,      \* the tip the pass has read
  from,    \* the index the proofs are at, as the loop believes
  proof,   \* the index the proofs are at
  next,    \* the index the current turn goes to
  left,    \* iterations left of `for range step`
  pc,      \* where the loop is, and how it ended
  moves    \* replacements of the selected chain so far

vars == <<best, start, to, from, proof, next, left, pc, moves>>

Cut(chain, h) == SubSeq(chain, 1, h)
Least(a, b) == IF a <= b THEN a ELSE b

\* CM.BestIndex(index.Height) is the index itself.
IsBest(index) == OnBest(index, best)

\* Siblings are interchangeable: the blocks of the stored basis have tag 0.
Init ==
  /\ best \in Chains
  /\ start \in {c \in Chains : /\ \A h \in 1..Len(c) : c[h].tag = 0
                             /\ Child \notin TxsOf(c)
                             /\ Child.ins \subseteq Unspent(c)}
  /\ to = best
  /\ from = start /\ proof = start
  /\ next = <<>> /\ left = 0
  /\ pc = "top"
  /\ moves = 0

\* The selected chain is replaced by one of more work, which may be shorter.
SelectChain ==
  /\ pc \notin {"done", "dropped", "failed", "stopped"}
  /\ moves < MaxMoves
  /\ best' \in {c \in Chains : ~OnBest(c, best)}
  /\ moves' = moves + 1
  /\ UNCHANGED <<start, to, from, proof, next, left, pc>>

\* The head of the loop: which way to go is decided by one read of the chain.
Arrive ==
  /\ pc = "top" /\ from = to
  /\ pc' = "done"
  /\ UNCHANGED <<best, start, to, from, proof, next, left, moves>>

GoForward ==
  /\ pc = "top" /\ from # to
  /\ IsBest(from) /\ Height(from) < Height(to)
  /\ pc' = "forward"
  /\ UNCHANGED <<best, start, to, from, proof, next, left, moves>>

\* Faulty variant: the branch for equal heights is missing.
NeverAcross == FALSE /\ UNCHANGED vars

\* The tip of the pass has left the selected chain, which is followed up to
\* its height: the last stretch goes across.
GoAcross ==
  /\ pc = "top" /\ from # to
  /\ IsBest(from) /\ Height(from) = Height(to)
  /\ next' = to
  /\ pc' = "update"
  /\ UNCHANGED <<best, start, to, from, proof, left, moves>>

\* Faulty variant: the stretch back does not look for the selected chain.
GoBackBlindly ==
  /\ pc = "top" /\ from # to
  /\ ~IsBest(from) \/ Height(from) > Height(to)
  /\ next' = Cut(from, Height(from) - Least(Step, Height(from)))
  /\ pc' = "update"
  /\ UNCHANGED <<best, start, to, from, proof, left, moves>>

GoBack ==
  /\ pc = "top" /\ from # to
  /\ ~IsBest(from) \/ Height(from) > Height(to)
  /\ next' = from
  /\ left' = Step
  /\ pc' = "back"
  /\ UNCHANGED <<best, start, to, from, proof, moves>>

\* BestIndex(min(from.Height+step, to.Height)), a second read of the chain.
Forward ==
  /\ pc = "forward"
  /\ IF Height(best) < Least(Height(from) + Step, Height(to))
     THEN pc' = "failed" /\ next' = next
     ELSE pc' = "update" /\ next' = Cut(best, Least(Height(from) + Step, Height(to)))
  /\ UNCHANGED <<best, start, to, from, proof, left, moves>>

\* One iteration of the inner loop: to the parent, and on until the selected
\* chain is reached at or below the target's height.
Back ==
  /\ pc = "back" /\ left > 0
  /\ IF next = <<>>
     THEN pc' = "failed" /\ UNCHANGED <<next, left>>
     ELSE /\ next' = Cut(next, Height(next) - 1)
          /\ left' = IF IsBest(next') /\ Height(next') <= Height(to) THEN 0 ELSE left - 1
          /\ pc' = pc
  /\ UNCHANGED <<best, start, to, from, proof, moves>>

BackEnds ==
  /\ pc = "back" /\ left = 0
  /\ pc' = "update"
  /\ UNCHANGED <<best, start, to, from, proof, next, left, moves>>

\* Faulty variant: the loop advances although no proofs came back.
UpdateIgnored ==
  /\ pc = "update"
  /\ from' = next
  /\ proof' = IF SurvivesUpdate(Child, proof, next) THEN next ELSE proof
  /\ pc' = "top"
  /\ UNCHANGED <<best, start, to, next, left, moves>>

\* UpdateV2TransactionSet(txns, from, next).
Update ==
  /\ pc = "update"
  /\ \/ /\ ConfirmedOnTheWay(Child, from, next)
        /\ pc' = "dropped" /\ UNCHANGED <<from, proof>>
     \/ /\ InputReverted(Child, from, next)
        /\ pc' = "failed" /\ UNCHANGED <<from, proof>>
     \/ /\ SurvivesUpdate(Child, from, next)
        /\ from' = next /\ proof' = next
        /\ pc' = "top"
  /\ UNCHANGED <<best, start, to, next, left, moves>>

\* The context is cancelled at the head of the loop, or the block the way back
\* needs is not available: an error, whatever the chain is.
Stop ==
  /\ from # to
  /\ pc = "top" \/ (pc = "back" /\ left > 0 /\ next # <<>>)
  /\ pc' = "stopped"
  /\ UNCHANGED <<best, start, to, from, proof, next, left, moves>>

LoopStep == \/ Arrive \/ GoForward \/ GoAcross \/ GoBack
            \/ Forward \/ Back \/ BackEnds \/ Update

Next == SelectChain \/ LoopStep \/ Stop

Spec == Init /\ [][Next]_vars

\* The loop runs; the selected chain is replaced finitely often.
FairSpec == Spec /\ WF_vars(LoopStep)
-----------------------------------------------------------------------------
\* When the loop ends normally the proofs are at the tip the pass read, also
\* when that tip was reorganized away meanwhile.
ProofsArrive == pc = "done" => proof = to

\* If the chain did not move, cutting the way into stretches changes nothing:
\* the transaction is dropped, refused or carried over exactly as the direct
\* path from the stored basis to the tip says.
StretchesAgree ==
  moves = 0 =>
    /\ pc = "dropped" => ConfirmedOnTheWay(Child, start, to)
    /\ pc = "failed"  => InputReverted(Child, start, to)
    /\ pc = "done"    => SurvivesUpdate(Child, start, to)

\* The loop ends, whatever moves under it.
Terminates == <>(pc \in {"done", "dropped", "failed", "stopped"})
=============================================================================
