---------------------------- MODULE StretchProofs ----------------------------
(***************************************************************************)
(* Proofs about UpdateProofs, for every step, length of chain and number   *)
(* of replacements of the selected chain.                                  *)
(***************************************************************************)
EXTENDS UpdateProofs, SequenceTheorems, WellFoundedInduction, TLAPS

\* Some block of a chain after `lo` and up to `hi` creates an input of the
\* transaction, or holds the transaction.
Makes(chain, lo, hi) ==
  \E i \in (lo + 1)..hi : \E tx \in chain[i].txs : Child.ins \cap Created(tx) # {}

Holds(chain, lo, hi) == \E i \in (lo + 1)..hi : Child \in chain[i].txs

Common == CommonHeight(start, to)

\* The first n blocks of the stored basis are left, and nothing was lost.
Behind(index, n) ==
  /\ n \in Common..Len(start) /\ index = Cut(start, n)
  /\ ~Makes(start, n, Len(start))

\* The way back is done, and the way forward has come to n.
Ahead(index, n) ==
  /\ n \in Common..Len(to) /\ index = Cut(to, n)
  /\ ~Makes(start, Common, Len(start))
  /\ ~Holds(to, Common, n)

OnTheWay == (\E n \in Nat : Behind(from, n)) \/ (\E n \in Nat : Ahead(from, n))

\* The stretch in hand leads on along the same way.
StretchBack ==
  \E n \in Nat, k \in Nat :
    /\ Behind(from, n) /\ k \in Common..n /\ next = Cut(start, k)
    /\ pc = "back" /\ left > 0 => k > Common

StretchForward ==
  \E n \in Nat, k \in Nat :
    /\ Ahead(from, n) /\ k \in n..Len(to) /\ next = Cut(to, k)

Shape ==
  /\ start \in Seq(Block) /\ to \in Seq(Block)
  /\ moves \in Nat /\ left \in Nat
  /\ proof = from
  /\ pc \in {"top", "forward", "back", "update", "done", "dropped", "failed", "stopped"}
  /\ pc = "done" => from = to

Undisturbed ==
  moves = 0 =>
    /\ best = to
    /\ pc \in {"top", "done"} => OnTheWay
    /\ pc = "forward" => \E n \in Nat : Ahead(from, n) /\ n < Len(to)
    /\ pc = "back" => StretchBack
    /\ pc = "update" => StretchBack \/ StretchForward
    /\ pc = "dropped" => Holds(to, Common, Len(to))
    /\ pc = "failed" => Makes(start, Common, Len(start))

IInv == Shape /\ Undisturbed
-----------------------------------------------------------------------------
(* Chains and where they part.                                             *)

\* Every non-empty set of naturals has a least element.
LEMMA LeastNat ==
  ASSUME NEW T, T \subseteq Nat, T # {}
  PROVE  \E n \in T : \A m \in T : n <= m
<1>1. PICK n \in T : \A m \in T : <<m, n>> \notin OpToRel(<, Nat)
  BY WFMin, NatLessThanWellFounded
<1>2. OpToRel(<, Nat) = {p \in Nat \X Nat : p[1] < p[2]}
  BY DEF OpToRel
<1>3. \A m \in T : ~(m < n)
  BY <1>1, <1>2
<1> QED BY <1>3

\* What a chain cut at a height is.
LEMMA CutIs ==
  ASSUME NEW S, NEW c \in Seq(S), NEW n \in 0..Len(c)
  PROVE  /\ Cut(c, n) \in Seq(S) /\ Len(Cut(c, n)) = n
         /\ \A i \in 1..n : Cut(c, n)[i] = c[i]
BY DEF Cut

\* A cut chain is on another one if the blocks are the same.
LEMMA CutOnBest ==
  ASSUME NEW S, NEW a \in Seq(S), NEW b \in Seq(S), NEW h \in 0..Len(a)
  PROVE  OnBest(Cut(a, h), b) <=> h <= Len(b) /\ \A i \in 1..h : a[i] = b[i]
BY CutIs DEF OnBest

\* The height at which two chains part exists.
LEMMA CommonExists ==
  ASSUME NEW S, NEW a \in Seq(S), NEW b \in Seq(S)
  PROVE  \E h \in 0..Len(a) : /\ OnBest(SubSeq(a, 1, h), b)
                              /\ h = Len(a) \/ ~OnBest(SubSeq(a, 1, h + 1), b)
<1> DEFINE T == {h \in 0..Len(a) : h = Len(a) \/ ~OnBest(Cut(a, h + 1), b)}
<1>1. Len(a) \in T /\ T \subseteq Nat
  OBVIOUS
<1>2. PICK h \in T : \A m \in T : h <= m
  <2> HIDE DEF T
  <2> QED BY <1>1, LeastNat
<1>3. OnBest(Cut(a, h), b)
  <2>1. CASE h = 0
    BY <2>1, CutOnBest
  <2>2. CASE h # 0
    <3>1. h \in 0..Len(a)
      BY <1>2
    <3>2. h - 1 \in 0..Len(a) /\ h - 1 # Len(a) /\ (h - 1) + 1 = h /\ ~(h <= h - 1)
      BY <2>2, <3>1
    <3>3. h - 1 \notin T
      <4> HIDE DEF T
      <4> QED BY <1>2, <3>2
    <3> QED BY <3>2, <3>3
  <2> QED BY <2>1, <2>2
<1> QED BY <1>3 DEF Cut

\* What is true of it.
LEMMA CommonIs ==
  ASSUME NEW S, NEW a \in Seq(S), NEW b \in Seq(S)
  PROVE  LET m == CommonHeight(a, b) IN
         /\ m \in 0..Len(a) /\ m <= Len(b)
         /\ \A i \in 1..m : a[i] = b[i]
         /\ m = Len(a) \/ m = Len(b) \/ a[m + 1] # b[m + 1]
<1> DEFINE m == CommonHeight(a, b)
           P(h) == /\ OnBest(Cut(a, h), b)
                   /\ h = Len(a) \/ ~OnBest(Cut(a, h + 1), b)
<1>1. m \in 0..Len(a) /\ P(m)
  <2>1. \E h \in 0..Len(a) : P(h)
    BY CommonExists DEF Cut
  <2>2. m = CHOOSE h \in 0..Len(a) : P(h)
    BY DEF CommonHeight, Cut
  <2> HIDE DEF P, m
  <2> QED BY <2>1, <2>2
<1> HIDE DEF m
<1>2. m <= Len(b) /\ \A i \in 1..m : a[i] = b[i]
  BY <1>1, CutOnBest
<1>3. m = Len(a) \/ m = Len(b) \/ a[m + 1] # b[m + 1]
  <2> SUFFICES ASSUME m # Len(a), m # Len(b), a[m + 1] = b[m + 1] PROVE FALSE
    OBVIOUS
  <2>1. m + 1 \in 0..Len(a) /\ m + 1 <= Len(b) /\ \A i \in 1..(m + 1) : a[i] = b[i]
    BY <1>1, <1>2
  <2>2. OnBest(Cut(a, m + 1), b)
    BY <2>1, CutOnBest
  <2> QED BY <1>1, <2>2
<1> QED BY <1>1, <1>2, <1>3 DEF m

\* Only one height is like that.
LEMMA CommonOnly ==
  ASSUME NEW S, NEW a \in Seq(S), NEW b \in Seq(S), NEW n \in 0..Len(a), n <= Len(b),
         \A i \in 1..n : a[i] = b[i],
         n = Len(a) \/ n = Len(b) \/ a[n + 1] # b[n + 1]
  PROVE  CommonHeight(a, b) = n
<1>1. PICK m : m = CommonHeight(a, b)
  OBVIOUS
<1>2. /\ m \in 0..Len(a) /\ m <= Len(b)
      /\ \A i \in 1..m : a[i] = b[i]
      /\ m = Len(a) \/ m = Len(b) \/ a[m + 1] # b[m + 1]
  BY <1>1, CommonIs
<1>3. CASE m < n
  <2>1. m + 1 \in 1..n
    BY <1>2, <1>3
  <2> QED BY <1>2, <1>3, <2>1
<1>4. CASE n < m
  <2>1. n + 1 \in 1..m
    BY <1>2, <1>4
  <2> QED BY <1>2, <1>4, <2>1
<1> QED BY <1>1, <1>2, <1>3, <1>4

\* What UpdateV2TransactionSet meets on the way, block by block.
LEMMA OnTheWayIs ==
  ASSUME NEW a, NEW b
  PROVE  /\ InputReverted(Child, a, b) <=> Makes(a, CommonHeight(a, b), Len(a))
         /\ ConfirmedOnTheWay(Child, a, b) <=> Holds(b, CommonHeight(a, b), Len(b))
<1>1. PICK m : m = CommonHeight(a, b)
  OBVIOUS
<1>2. (Child.ins \cap CoinsOf(TxsAbove(a, m)) # {}) <=> Makes(a, m, Len(a))
  BY DEF CoinsOf, TxsAbove, Makes
<1>3. Child \in TxsAbove(b, m) <=> Holds(b, m, Len(b))
  BY DEF TxsAbove, Holds
<1> QED BY <1>1, <1>2, <1>3 DEF InputReverted, ConfirmedOnTheWay

\* A stretch back along a chain reverts blocks and applies none.
LEMMA StretchBackIs ==
  ASSUME NEW S, NEW c \in Seq(S), NEW n \in 0..Len(c), NEW k \in 0..n
  PROVE  /\ InputReverted(Child, Cut(c, n), Cut(c, k)) <=> Makes(c, k, n)
         /\ ~ConfirmedOnTheWay(Child, Cut(c, n), Cut(c, k))
<1>1. PICK a, b : a = Cut(c, n) /\ b = Cut(c, k)
  OBVIOUS
<1>2. /\ a \in Seq(S) /\ Len(a) = n /\ \A i \in 1..n : a[i] = c[i]
      /\ b \in Seq(S) /\ Len(b) = k /\ \A i \in 1..k : b[i] = c[i]
  BY <1>1, CutIs
<1>3. CommonHeight(a, b) = k
  <2>1. k \in 0..Len(a) /\ k <= Len(b) /\ k = Len(b) /\ \A i \in 1..k : a[i] = b[i]
    BY <1>2
  <2> QED BY <1>2, <2>1, CommonOnly
<1>4. Makes(a, k, n) <=> Makes(c, k, n)
  BY <1>2 DEF Makes
<1>5. ~Holds(b, k, k)
  BY DEF Holds
<1> QED BY <1>1, <1>2, <1>3, <1>4, <1>5, OnTheWayIs

\* A stretch forward applies blocks and reverts none.
LEMMA StretchForwardIs ==
  ASSUME NEW S, NEW c \in Seq(S), NEW k \in 0..Len(c), NEW n \in 0..k
  PROVE  /\ ConfirmedOnTheWay(Child, Cut(c, n), Cut(c, k)) <=> Holds(c, n, k)
         /\ ~InputReverted(Child, Cut(c, n), Cut(c, k))
<1>1. PICK a, b : a = Cut(c, n) /\ b = Cut(c, k)
  OBVIOUS
<1>2. /\ a \in Seq(S) /\ Len(a) = n /\ \A i \in 1..n : a[i] = c[i]
      /\ b \in Seq(S) /\ Len(b) = k /\ \A i \in 1..k : b[i] = c[i]
  BY <1>1, CutIs
<1>3. CommonHeight(a, b) = n
  <2>1. n \in 0..Len(a) /\ n <= Len(b) /\ n = Len(a) /\ \A i \in 1..n : a[i] = b[i]
    BY <1>2
  <2> QED BY <1>2, <2>1, CommonOnly
<1>4. Holds(b, n, k) <=> Holds(c, n, k)
  BY <1>2 DEF Holds
<1>5. ~Makes(a, n, n)
  BY DEF Makes
<1> QED BY <1>1, <1>2, <1>3, <1>4, <1>5, OnTheWayIs
-----------------------------------------------------------------------------
(* The loop.                                                               *)

\* The loop starts at the stored basis, at the end of the way back.
LEMMA InitIInv == Init => IInv
<1> SUFFICES ASSUME Init PROVE IInv
  OBVIOUS
<1>1. start \in Seq(Block) /\ to \in Seq(Block)
  <2>1. Chains \subseteq Seq(Block)
    BY DEF Chains
  <2> QED BY <2>1 DEF Init
<1>2. Behind(from, Len(start)) /\ Len(start) \in Nat
  <2>1. Common \in 0..Len(start)
    BY <1>1, CommonIs DEF Common
  <2>2. start = Cut(start, Len(start))
    BY <1>1 DEF Cut
  <2>3. ~Makes(start, Len(start), Len(start))
    BY <1>1 DEF Makes
  <2> QED BY <1>1, <2>1, <2>2, <2>3 DEF Init, Behind
<1> QED BY <1>1, <1>2 DEF Init, IInv, Shape, Undisturbed, OnTheWay

\* The way back has come to where the chains part: that is on the way forward.
LEMMA BackIsDone ==
  ASSUME Shape, NEW n \in Nat, Behind(from, n), OnBest(from, to)
  PROVE  n = Common /\ Ahead(from, n)
<1>1. start \in Seq(Block) /\ to \in Seq(Block)
  BY DEF Shape
<1>2. /\ Common \in 0..Len(start) /\ Common <= Len(to)
      /\ \A i \in 1..Common : start[i] = to[i]
      /\ Common = Len(start) \/ Common = Len(to) \/ start[Common + 1] # to[Common + 1]
  BY <1>1, CommonIs DEF Common
<1>3. n \in Common..Len(start) /\ from = Cut(start, n) /\ n \in 0..Len(start)
  BY <1>1, <1>2 DEF Behind
<1>4. n <= Len(to) /\ \A i \in 1..n : start[i] = to[i]
  BY <1>1, <1>3, CutOnBest
<1>5. n = Common
  <2> SUFFICES ASSUME Common < n PROVE FALSE
    BY <1>1, <1>2, <1>3
  <2>1. Common + 1 \in 1..n
    BY <1>2, <1>3
  <2> QED BY <1>1, <1>2, <1>3, <1>4, <2>1
<1>6. Cut(start, n) = Cut(to, n)
  <2>1. n \in 0..Len(to) /\ n \in 0..Len(start)
    BY <1>1, <1>3, <1>4
  <2>2. /\ Cut(start, n) \in Seq(Block) /\ Len(Cut(start, n)) = n /\ \A i \in 1..n : Cut(start, n)[i] = start[i]
        /\ Cut(to, n) \in Seq(Block) /\ Len(Cut(to, n)) = n /\ \A i \in 1..n : Cut(to, n)[i] = to[i]
    BY <1>1, <2>1, CutIs
  <2> QED BY <1>4, <2>2, SeqEqual
<1>7. ~Holds(to, n, n)
  BY <1>3 DEF Holds
<1> QED BY <1>1, <1>2, <1>3, <1>4, <1>5, <1>6, <1>7 DEF Behind, Ahead

\* What is ahead is on the selected chain.
LEMMA AheadIsBest ==
  ASSUME Shape, NEW n \in Nat, Ahead(from, n)
  PROVE  OnBest(from, to) /\ Len(from) = n /\ n <= Len(to) /\ (n = Len(to) => from = to)
<1>1. to \in Seq(Block) /\ n \in 0..Len(to) /\ from = Cut(to, n)
  BY DEF Shape, Ahead
<1>2. n = Len(to) => Cut(to, n) = to
  BY <1>1 DEF Cut
<1> QED BY <1>1, <1>2, CutIs, CutOnBest

\* What is behind has its length.
LEMMA BehindLength ==
  ASSUME Shape, NEW n \in Nat, Behind(from, n)
  PROVE  Len(from) = n /\ n \in 0..Len(start)
<1>1. start \in Seq(Block) /\ n \in 0..Len(start) /\ from = Cut(start, n)
  BY DEF Shape, Behind
<1> QED BY <1>1, CutIs

\* From a place on the way: forward, back or there.
LEMMA TopKeeps ==
  ASSUME IInv, Arrive \/ GoForward \/ GoAcross \/ GoBack
  PROVE  IInv'
<1>1. Shape'
  BY StepAssumption DEF IInv, Shape, Arrive, GoForward, GoAcross, GoBack
<1> SUFFICES ASSUME moves = 0 PROVE Undisturbed'
  BY <1>1 DEF IInv, Undisturbed, Arrive, GoForward, GoAcross, GoBack
<1>2. /\ Shape /\ pc = "top" /\ best = to /\ OnTheWay
      /\ UNCHANGED <<best, start, to, from, proof, moves>>
  BY DEF IInv, Undisturbed, Arrive, GoForward, GoAcross, GoBack
<1>3. \A n \in Nat : (Behind(from, n) <=> Behind(from, n)') /\ (Ahead(from, n) <=> Ahead(from, n)')
  BY <1>2 DEF Behind, Ahead, Common
<1>4. IsBest(from) => \E n \in Nat : Ahead(from, n)
  BY <1>2, BackIsDone DEF OnTheWay, IsBest
<1>5. CASE Arrive
  <2>1. OnTheWay' /\ pc' = "done" /\ best' = to'
    BY <1>2, <1>3, <1>5 DEF Arrive, OnTheWay
  <2> QED BY <2>1 DEF Undisturbed
<1>6. CASE GoForward
  <2>1. PICK n \in Nat : Ahead(from, n)
    BY <1>4, <1>6 DEF GoForward
  <2>2. n < Len(to)
    BY <1>2, <1>6, <2>1, AheadIsBest DEF GoForward, Height
  <2> QED BY <1>2, <1>3, <1>6, <2>1, <2>2 DEF GoForward, Undisturbed
<1>7. CASE GoAcross
  <2>1. PICK n \in Nat : Ahead(from, n)
    BY <1>4, <1>7 DEF GoAcross
  <2> QED BY <1>2, <1>7, <2>1, AheadIsBest DEF GoAcross, Height
<1>8. CASE GoBack
  <2>1. ~\E n \in Nat : Ahead(from, n)
    <3> SUFFICES ASSUME NEW n \in Nat, Ahead(from, n) PROVE FALSE
      OBVIOUS
    <3>1. OnBest(from, to) /\ Len(from) <= Len(to) /\ Len(from) \in Nat
      BY <1>2, AheadIsBest
    <3> QED BY <1>2, <1>8, <3>1 DEF GoBack, IsBest, Height, Shape
  <2>2. PICK n \in Nat : Behind(from, n)
    BY <1>2, <2>1 DEF OnTheWay
  <2>3. n > Common /\ Common \in Nat
    <3>1. Common \in 0..Len(start) /\ Common <= Len(to) /\ \A i \in 1..Common : start[i] = to[i]
      BY <1>2, CommonIs DEF Common, Shape
    <3>2. n # Common
      <4> SUFFICES ASSUME n = Common PROVE FALSE
        OBVIOUS
      <4>1. from = Cut(start, n) /\ n \in 0..Len(start)
        BY <2>2, <3>1 DEF Behind
      <4>2. OnBest(from, to)
        BY <1>2, <3>1, <4>1, CutOnBest DEF Shape
      <4> QED BY <1>2, <2>1, <2>2, <4>2, BackIsDone
    <3> QED BY <1>2, <2>2, <3>1, <3>2 DEF Behind, Shape
  <2>4. n \in Common..n /\ from = Cut(start, n)
    BY <2>2, <2>3 DEF Behind
  <2>5. StretchBack'
    <3>1. Common' = Common
      BY <1>2 DEF Common
    <3>2. next' = Cut(start', n)
      BY <1>2, <1>8, <2>4 DEF GoBack
    <3> QED BY <1>3, <2>2, <2>3, <2>4, <3>1, <3>2 DEF StretchBack
  <2> QED BY <1>2, <1>8, <2>5 DEF GoBack, Undisturbed
<1> QED BY <1>5, <1>6, <1>7, <1>8

\* A stretch forward ends on the tip of the pass, if that is still selected.
LEMMA ForwardKeeps ==
  ASSUME IInv, Forward
  PROVE  IInv'
<1>1. Shape'
  BY DEF IInv, Shape, Forward
<1> SUFFICES ASSUME moves = 0 PROVE Undisturbed'
  BY <1>1 DEF IInv, Undisturbed, Forward
<1>2. /\ Shape /\ pc = "forward" /\ best = to
      /\ UNCHANGED <<best, start, to, from, proof, left, moves>>
  BY DEF IInv, Undisturbed, Forward
<1>3. PICK n \in Nat : Ahead(from, n) /\ n < Len(to)
  BY <1>2 DEF IInv, Undisturbed
<1>4. PICK k : k = Least(Height(from) + Step, Height(to))
  OBVIOUS
<1>5. Len(from) = n /\ Len(to) \in Nat
  BY <1>2, <1>3, AheadIsBest DEF Shape
<1>6. k \in n..Len(to) /\ k \in Nat
  BY <1>3, <1>4, <1>5, StepAssumption DEF Least, Height
<1>7. pc' = "update" /\ next' = Cut(to, k)
  BY <1>2, <1>4, <1>5, <1>6 DEF Forward, Height
<1>8. Ahead(from, n)'
  BY <1>2, <1>3 DEF Ahead, Common
<1>9. StretchForward'
  BY <1>2, <1>6, <1>7, <1>8 DEF StretchForward
<1> QED BY <1>2, <1>7, <1>9 DEF Undisturbed

\* One block back along the stored basis, not past where the chains part.
LEMMA BackKeeps ==
  ASSUME IInv, Back
  PROVE  IInv'
<1>1. Shape'
  BY DEF IInv, Shape, Back
<1> SUFFICES ASSUME moves = 0 PROVE Undisturbed'
  BY <1>1 DEF IInv, Undisturbed, Back
<1>2. /\ Shape /\ pc = "back" /\ left > 0 /\ best = to /\ StretchBack
      /\ UNCHANGED <<best, start, to, from, proof, moves>>
  BY DEF IInv, Undisturbed, Back
<1>3. PICK n \in Nat, k \in Nat :
        Behind(from, n) /\ k \in Common..n /\ next = Cut(start, k) /\ k > Common
  BY <1>2 DEF StretchBack
<1>4. /\ Common \in 0..Len(start) /\ Common <= Len(to) /\ \A i \in 1..Common : start[i] = to[i]
      /\ start \in Seq(Block) /\ to \in Seq(Block)
  BY <1>2, CommonIs DEF Common, Shape
<1>5. k \in 1..Len(start) /\ n \in 0..Len(start) /\ k - 1 \in 0..Len(start)
  BY <1>2, <1>3, <1>4, BehindLength
<1>6. Len(next) = k /\ next # <<>>
  BY <1>3, <1>4, <1>5, CutIs
<1>7. pc' = "back" /\ next' = Cut(start, k - 1)
  <2>1. Cut(Cut(start, k), k - 1) = Cut(start, k - 1)
    <3>1. PICK c : c = Cut(start, k)
      OBVIOUS
    <3>2. c \in Seq(Block) /\ Len(c) = k /\ \A i \in 1..k : c[i] = start[i]
      BY <1>4, <1>5, <3>1, CutIs
    <3>3. k - 1 \in 0..Len(c) /\ k - 1 \in 0..Len(start)
      BY <1>5, <3>2
    <3>4. /\ Cut(c, k - 1) \in Seq(Block) /\ Len(Cut(c, k - 1)) = k - 1
          /\ \A i \in 1..(k - 1) : Cut(c, k - 1)[i] = c[i]
      BY <3>2, <3>3, CutIs
    <3>5. /\ Cut(start, k - 1) \in Seq(Block) /\ Len(Cut(start, k - 1)) = k - 1
          /\ \A i \in 1..(k - 1) : Cut(start, k - 1)[i] = start[i]
      BY <1>4, <3>3, CutIs
    <3>6. \A i \in 1..(k - 1) : Cut(c, k - 1)[i] = Cut(start, k - 1)[i]
      BY <1>5, <3>2, <3>4, <3>5
    <3> QED BY <3>1, <3>4, <3>5, <3>6, SeqEqual
  <2> QED BY <1>2, <1>3, <1>6, <2>1 DEF Back, Height
<1>8. left' > 0 => k - 1 > Common
  <2> SUFFICES ASSUME k - 1 = Common PROVE left' = 0
    BY <1>1, <1>3, <1>4 DEF Shape
  <2>1. OnBest(next', to) /\ Len(next') <= Len(to)
    BY <1>4, <1>5, <1>7, CutOnBest, CutIs
  <2> QED BY <1>2, <1>6, <2>1 DEF Back, IsBest, Height
<1>9. Behind(from, n)' /\ Common' = Common
  BY <1>2, <1>3 DEF Behind, Common
<1>10. StretchBack'
  <2>1. k - 1 \in Nat /\ k - 1 \in Common..n
    BY <1>3, <1>4
  <2> QED BY <1>2, <1>7, <1>8, <1>9, <2>1 DEF StretchBack
<1> QED BY <1>2, <1>7, <1>10 DEF Undisturbed

\* The way back is taken as far as the inner loop went.
LEMMA BackEndsKeeps ==
  ASSUME IInv, BackEnds
  PROVE  IInv'
<1>1. Shape'
  BY DEF IInv, Shape, BackEnds
<1> SUFFICES ASSUME moves = 0 PROVE Undisturbed'
  BY <1>1 DEF IInv, Undisturbed, BackEnds
<1>2. /\ best = to /\ StretchBack /\ pc' = "update"
      /\ UNCHANGED <<best, start, to, from, next>>
  BY DEF IInv, Undisturbed, BackEnds
<1>3. StretchBack'
  BY <1>2 DEF StretchBack, Behind, Common
<1> QED BY <1>2, <1>3 DEF Undisturbed

\* The stretch is dropped, refused or carried over as the whole way would be.
LEMMA UpdateKeeps ==
  ASSUME IInv, Update
  PROVE  IInv'
<1>1. Shape'
  BY DEF IInv, Shape, Update
<1> SUFFICES ASSUME moves = 0 PROVE Undisturbed'
  BY <1>1 DEF IInv, Undisturbed, Update
<1>2. /\ Shape /\ pc = "update" /\ best = to
      /\ (StretchBack \/ StretchForward)
      /\ UNCHANGED <<best, start, to, next, moves>>
  BY DEF IInv, Undisturbed, Update
<1>3. start \in Seq(Block) /\ to \in Seq(Block) /\ Common' = Common
  BY <1>2 DEF Shape, Common
<1>4. Common \in 0..Len(start) /\ Common <= Len(to)
  BY <1>3, CommonIs DEF Common
<1>5. /\ \/ pc' = "dropped" /\ ConfirmedOnTheWay(Child, from, next)
         \/ pc' = "failed" /\ InputReverted(Child, from, next)
         \/ pc' = "top" /\ from' = next /\ SurvivesUpdate(Child, from, next)
  BY DEF Update
<1>6. CASE StretchBack
  <2>1. PICK n \in Nat, k \in Nat : Behind(from, n) /\ k \in Common..n /\ next = Cut(start, k)
    BY <1>6 DEF StretchBack
  <2>2. n \in 0..Len(start) /\ k \in 0..n /\ k \in Common..Len(start) /\ from = Cut(start, n)
        /\ ~Makes(start, n, Len(start))
    BY <1>3, <1>4, <2>1 DEF Behind
  <2>3. /\ InputReverted(Child, from, next) <=> Makes(start, k, n)
        /\ ~ConfirmedOnTheWay(Child, from, next)
    BY <1>3, <2>1, <2>2, StretchBackIs
  <2>4. CASE pc' = "failed" /\ InputReverted(Child, from, next)
    <3>1. Makes(start, Common, Len(start))
      BY <1>3, <1>4, <2>1, <2>2, <2>3, <2>4 DEF Makes
    <3>2. Makes(start, Common, Len(start))'
      BY <1>2, <1>3, <3>1
    <3> QED BY <1>2, <2>4, <3>2 DEF Undisturbed
  <2>5. CASE pc' = "top" /\ from' = next /\ SurvivesUpdate(Child, from, next)
    <3>1. ~Makes(start, k, Len(start))
      BY <1>3, <2>2, <2>3, <2>5 DEF SurvivesUpdate, Makes
    <3>2. Behind(from, k)'
      BY <1>2, <1>3, <2>1, <2>2, <2>5, <3>1 DEF Behind
    <3> QED BY <1>2, <2>5, <3>2 DEF Undisturbed, OnTheWay
  <2> QED BY <1>5, <2>3, <2>4, <2>5
<1>7. CASE StretchForward
  <2>1. PICK n \in Nat, k \in Nat : Ahead(from, n) /\ k \in n..Len(to) /\ next = Cut(to, k)
    BY <1>7 DEF StretchForward
  <2>2. /\ k \in 0..Len(to) /\ n \in 0..k /\ k \in Common..Len(to) /\ n >= Common /\ from = Cut(to, n)
        /\ ~Makes(start, Common, Len(start)) /\ ~Holds(to, Common, n)
    BY <1>3, <1>4, <2>1 DEF Ahead
  <2>3. /\ ConfirmedOnTheWay(Child, from, next) <=> Holds(to, n, k)
        /\ ~InputReverted(Child, from, next)
    BY <1>3, <2>1, <2>2, StretchForwardIs
  <2>4. CASE pc' = "dropped" /\ ConfirmedOnTheWay(Child, from, next)
    <3>1. Holds(to, Common, Len(to))
      BY <1>3, <1>4, <2>1, <2>2, <2>3, <2>4 DEF Holds
    <3>2. Holds(to, Common, Len(to))'
      BY <1>2, <1>3, <3>1
    <3> QED BY <1>2, <2>4, <3>2 DEF Undisturbed
  <2>5. CASE pc' = "top" /\ from' = next /\ SurvivesUpdate(Child, from, next)
    <3>1. ~Holds(to, Common, k)
      BY <1>3, <1>4, <2>2, <2>3, <2>5 DEF SurvivesUpdate, Holds
    <3>2. Ahead(from, k)'
      BY <1>2, <1>3, <2>1, <2>2, <2>5, <3>1 DEF Ahead
    <3> QED BY <1>2, <2>5, <3>2 DEF Undisturbed, OnTheWay
  <2> QED BY <1>5, <2>3, <2>4, <2>5
<1> QED BY <1>2, <1>6, <1>7

\* The invariant holds, whatever chains are selected meanwhile.
THEOREM StretchInvariant == Spec => []IInv
<1>1. IInv /\ [Next]_vars => IInv'
  <2> SUFFICES ASSUME IInv, [Next]_vars PROVE IInv'
    OBVIOUS
  <2>1. CASE SelectChain
    BY <2>1 DEF SelectChain, IInv, Shape, Undisturbed
  <2>2. CASE UNCHANGED vars
    BY <2>2 DEF vars, IInv, Shape, Undisturbed, OnTheWay, Behind, Ahead, Common, StretchBack, StretchForward
  <2>3. CASE Stop
    BY <2>3 DEF Stop, IInv, Shape, Undisturbed
  <2> QED BY <2>1, <2>2, <2>3, TopKeeps, ForwardKeeps, BackKeeps, BackEndsKeeps, UpdateKeeps
          DEF Next, LoopStep
<1> QED BY <1>1, InitIInv, PTL DEF Spec

\* updateProofs returns proofs for the tip the pass has read, also when that
\* tip was reorganized away meanwhile.
THEOREM ProofsReachTheTip == Spec => []ProofsArrive
<1>1. IInv => ProofsArrive
  BY DEF IInv, Shape, ProofsArrive
<1> QED BY <1>1, StretchInvariant, PTL

\* Cutting the way into stretches changes nothing, for a step of any length.
THEOREM StretchesMakeOneWay == Spec => []StretchesAgree
<1>1. IInv => StretchesAgree
  <2> SUFFICES ASSUME IInv, moves = 0
               PROVE  /\ pc = "dropped" => ConfirmedOnTheWay(Child, start, to)
                      /\ pc = "failed"  => InputReverted(Child, start, to)
                      /\ pc = "done"    => SurvivesUpdate(Child, start, to)
    BY DEF StretchesAgree
  <2>1. /\ InputReverted(Child, start, to) <=> Makes(start, Common, Len(start))
        /\ ConfirmedOnTheWay(Child, start, to) <=> Holds(to, Common, Len(to))
    BY OnTheWayIs DEF Common
  <2>2. ASSUME pc = "done" PROVE SurvivesUpdate(Child, start, to)
    <3>1. Shape /\ from = to /\ OnTheWay /\ to \in Seq(Block)
      BY <2>2 DEF IInv, Shape, Undisturbed
    <3>2. OnBest(from, to)
      BY <3>1 DEF OnBest
    <3>3. PICK n \in Nat : Ahead(from, n)
      BY <3>1, <3>2, BackIsDone DEF OnTheWay
    <3>4. n = Len(to)
      BY <3>1, <3>3, AheadIsBest
    <3> QED BY <2>1, <3>3, <3>4 DEF Ahead, SurvivesUpdate
  <2> QED BY <2>1, <2>2 DEF IInv, Undisturbed
<1> QED BY <1>1, StretchInvariant, PTL
=============================================================================
