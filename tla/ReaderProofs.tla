---------------------------- MODULE ReaderProofs ----------------------------
(***************************************************************************)
(* Proofs about the readers that take no lock: Balance and Deposits in     *)
(* Accounting, for any transactions, chains, pages and delays, and the     *)
(* status reader of SwapView, for any transactions of the contract.        *)
(***************************************************************************)
EXTENDS Accounting, SwapView, SequenceTheorems, FiniteSetTheorems, WellFoundedInduction, TLAPS
-----------------------------------------------------------------------------
(* Numbers.                                                                *)

\* A set of numbers has a least one.
LEMMA LeastNat ==
  ASSUME NEW T, T \subseteq Nat, T # {}
  PROVE  \E n \in T : \A m \in T : n <= m
<1>1. PICK n \in T : \A m \in T : <<m, n>> \notin OpToRel(<, Nat)
  BY WFMin, NatLessThanWellFounded
<1>2. OpToRel(<, Nat) = {p \in Nat \X Nat : p[1] < p[2]}
  BY DEF OpToRel
<1>3. \A m \in T : ~(m < n)
  BY <1>1, <1>2
<1> QED BY <1>3

\* Induction: a set that has zero and with every number the next has all.
LEMMA Inductive ==
  ASSUME NEW T, 0 \in T, \A n \in Nat : n \in T => n + 1 \in T
  PROVE  \A n \in Nat : n \in T
<1> SUFFICES ASSUME Nat \ T # {} PROVE FALSE
  OBVIOUS
<1>1. PICK n \in Nat \ T : \A m \in Nat \ T : n <= m
  BY LeastNat
<1>2. n # 0 /\ n - 1 \in Nat /\ (n - 1) + 1 = n /\ ~(n <= n - 1)
  BY <1>1
<1> QED BY <1>1, <1>2

\* The greatest of some numbers up to n.
LEMMA MaxIs ==
  ASSUME NEW n \in Nat, NEW S \in SUBSET (1..n), S # {}
  PROVE  /\ Max(S) \in S /\ \A x \in S : x <= Max(S)
         /\ \A x \in S : (\A y \in S : y <= x) => Max(S) = x
<1>1. PICK d \in {n - x : x \in S} : \A e \in {n - x : x \in S} : d <= e
  <2>0. \A x \in S : n - x \in Nat
    OBVIOUS
  <2>1. {n - x : x \in S} \subseteq Nat /\ {n - x : x \in S} # {}
    BY <2>0, Zenon
  <2> QED BY <2>1, LeastNat
<1>2. PICK x \in S : d = n - x
  BY <1>1
<1>3. \A y \in S : y <= x
  <2> SUFFICES ASSUME NEW y \in S PROVE y <= x
    OBVIOUS
  <2>1. d <= n - y
    BY <1>1
  <2> QED BY <1>2, <2>1
<1>4. \E z \in S : \A y \in S : z >= y
  BY <1>3
<1>5. Max(S) \in S /\ \A y \in S : Max(S) >= y
  BY <1>4 DEF Max
<1>6. \A y \in S : y \in Nat
  OBVIOUS
<1>7. PICK m \in S : m = Max(S) /\ m \in Nat /\ \A y \in S : m >= y
  BY <1>5, <1>6
<1>8. \A y \in S : (\A z \in S : z <= y) => m = y
  BY <1>6, <1>7
<1> QED BY <1>6, <1>7, <1>8
-----------------------------------------------------------------------------
(* FoldLeft.                                                               *)

\* What FoldLeft computes for an operator given as a function, over the sets of
\* positions of the sequence.
FoldsUp(h, F, b, s, n) ==
  \A S \in SUBSET (1..n) : h[S] = IF S = {} THEN b ELSE F[<<h[S \ {Max(S)}], s[Max(S)]>>]

\* It exists.
LEMMA FoldExists ==
  ASSUME NEW A, NEW B, NEW F \in [A \X B -> A], NEW b \in A, NEW s \in Seq(B)
  PROVE  \E h \in [SUBSET (1..Len(s)) -> A] : FoldsUp(h, F, b, s, Len(s))
<1> DEFINE Has(n) == \E h \in [SUBSET (1..n) -> A] : FoldsUp(h, F, b, s, n)
           T == {n \in Nat : n <= Len(s) => Has(n)}
<1>1. 0 \in T
  <2>1. \A S \in SUBSET (1..0) : S = {}
    OBVIOUS
  <2>2. [S \in SUBSET (1..0) |-> b] \in [SUBSET (1..0) -> A]
    OBVIOUS
  <2>3. FoldsUp([S \in SUBSET (1..0) |-> b], F, b, s, 0)
    BY <2>1 DEF FoldsUp
  <2> QED BY <2>2, <2>3
<1>2. ASSUME NEW n \in Nat, n \in T PROVE n + 1 \in T
  <2>0. n + 1 <= Len(s) => n <= Len(s)
    OBVIOUS
  <2> SUFFICES ASSUME n + 1 <= Len(s) PROVE Has(n + 1)
    <3> HIDE DEF Has
    <3> QED OBVIOUS
  <2>1. PICK h \in [SUBSET (1..n) -> A] : FoldsUp(h, F, b, s, n)
    <3>1. Has(n)
      <4> HIDE DEF Has
      <4> QED BY <1>2, <2>0
    <3> QED BY <3>1, Zenon
  <2> DEFINE k == [S \in SUBSET (1..(n + 1)) |->
                     IF n + 1 \in S THEN F[<<h[S \ {n + 1}], s[n + 1]>>] ELSE h[S]]
  <2>2. \A S \in SUBSET (1..(n + 1)) : S \ {n + 1} \in SUBSET (1..n) /\ (n + 1 \notin S => S \in SUBSET (1..n))
    OBVIOUS
  <2>3. s[n + 1] \in B
    OBVIOUS
  <2>4. k \in [SUBSET (1..(n + 1)) -> A]
    BY <2>2, <2>3
  <2>5. \A S \in SUBSET (1..n) : S \in SUBSET (1..(n + 1)) /\ n + 1 \notin S
    OBVIOUS
  <2>6. \A S \in SUBSET (1..n) : k[S] = h[S]
    BY <2>5
  <2>7. FoldsUp(k, F, b, s, n + 1)
    <3> SUFFICES ASSUME NEW S \in SUBSET (1..(n + 1)), S # {}
                 PROVE  k[S] = F[<<k[S \ {Max(S)}], s[Max(S)]>>]
      <4>1. k[{}] = b
        BY <2>1, <2>6 DEF FoldsUp
      <4> QED BY <4>1 DEF FoldsUp
    <3>1. CASE n + 1 \in S
      <4>1. Max(S) = n + 1
        <5>1. \A y \in S : y <= n + 1
          OBVIOUS
        <5>2. n + 1 \in Nat
          OBVIOUS
        <5> QED BY <3>1, <5>1, <5>2, MaxIs
      <4>2. k[S] = F[<<h[S \ {n + 1}], s[n + 1]>>]
        BY <3>1
      <4> HIDE DEF k
      <4> QED BY <2>2, <2>6, <4>1, <4>2
    <3>2. CASE n + 1 \notin S
      <4>1. S \in SUBSET (1..n)
        BY <2>2, <3>2
      <4>2. S \ {Max(S)} \in SUBSET (1..n)
        BY <4>1
      <4> HIDE DEF k
      <4> QED BY <2>1, <2>6, <4>1, <4>2 DEF FoldsUp
    <3> QED BY <3>1, <3>2
  <2> HIDE DEF k
  <2> QED BY <2>4, <2>7
<1>3. Len(s) \in T
  <2> HIDE DEF T
  <2>1. Len(s) \in Nat
    OBVIOUS
  <2> QED BY <1>1, <1>2, <2>1, Inductive
<1>4. Has(Len(s))
  <2> HIDE DEF Has
  <2> QED BY <1>3
<1> QED BY <1>4

\* The positions up to k.
LEMMA Positions ==
  ASSUME NEW n \in Nat, NEW k \in 1..n
  PROVE  /\ 1..k \in SUBSET (1..n) /\ 1..k # {} /\ Max(1..k) = k
         /\ (1..k) \ {k} = 1..(k - 1)
<1>1. 1..k \in SUBSET (1..n) /\ 1..k # {} /\ k \in 1..k /\ (\A y \in 1..k : y <= k)
  OBVIOUS
<1>2. Max(1..k) = k
  BY <1>1, MaxIs
<1> QED BY <1>1, <1>2

\* The function that FoldLeft chooses, for an operator given as a function.
FoldsBy(h, F, b, s, A, B) ==
  /\ h[{}] = b
  /\ \A S \in SUBSET (1..Len(s)) : S # {} =>
       \E x \in A, e \in B : x = h[S \ {Max(S)}] /\ e = s[Max(S)] /\ h[S] = F[<<x, e>>]

\* What it gives to the first positions, one by one.
StepsBy(g, F, b, s, last) ==
  /\ g[0] = b /\ g[Len(s)] = last
  /\ \A k \in 1..Len(s) : g[k] = F[<<g[k - 1], s[k]>>]

LEMMA FoldIs ==
  ASSUME NEW A, NEW B, NEW F \in [A \X B -> A], NEW b \in A, NEW s \in Seq(B)
  PROVE  \E h \in [SUBSET (1..Len(s)) -> A] : FoldsBy(h, F, b, s, A, B)
<1>1. PICK h \in [SUBSET (1..Len(s)) -> A] : FoldsUp(h, F, b, s, Len(s))
  BY FoldExists
<1>2. h[{}] = b
  BY <1>1 DEF FoldsUp
<1>3. ASSUME NEW S \in SUBSET (1..Len(s)), S # {}
      PROVE  \E x \in A, e \in B : /\ x = h[S \ {Max(S)}] /\ e = s[Max(S)]
                                   /\ h[S] = F[<<x, e>>]
  <2>1. PICK m \in 1..Len(s) : m = Max(S)
    <3>1. Len(s) \in Nat
      OBVIOUS
    <3>2. Max(S) \in S
      BY <1>3, <3>1, MaxIs
    <3> QED BY <3>2, Zenon
  <2>2. s[m] \in B /\ h[S \ {m}] \in A
    <3>1. S \ {m} \in SUBSET (1..Len(s))
      OBVIOUS
    <3>2. s[m] \in B
      OBVIOUS
    <3> QED BY <1>1, <3>1, <3>2, Zenon
  <2>3. h[S] = F[<<h[S \ {m}], s[m]>>]
    BY <1>1, <1>3, <2>1 DEF FoldsUp
  <2> QED BY <2>1, <2>2, <2>3
<1> QED BY <1>2, <1>3 DEF FoldsBy

LEMMA FoldSteps ==
  ASSUME NEW A, NEW B, NEW F \in [A \X B -> A], NEW b \in A, NEW s \in Seq(B), NEW it, it[{}] = b,
         \A k \in 1..Len(s) : it[1..(k - 1)] \in A => it[1..k] = F[<<it[1..(k - 1)], s[k]>>]
  PROVE  \E g \in [0..Len(s) -> A] : StepsBy(g, F, b, s, it[DOMAIN s])
<1> DEFINE N == Len(s)
           T == {k \in Nat : k <= N => it[1..k] \in A}
<1>0. DOMAIN s = 1..N /\ N \in Nat
  OBVIOUS
<1>1. 0 \in T
  <2>1. 1..0 = {}
    OBVIOUS
  <2> QED BY <2>1
<1>2. ASSUME NEW n \in Nat, n \in T PROVE n + 1 \in T
  <2> SUFFICES ASSUME n + 1 <= N PROVE it[1..(n + 1)] \in A
    OBVIOUS
  <2>1. n + 1 \in 1..N /\ (n + 1) - 1 = n /\ it[1..n] \in A
    BY <1>0, <1>2
  <2>2. s[n + 1] \in B
    BY <1>0, <2>1
  <2>3. it[1..(n + 1)] = F[<<it[1..n], s[n + 1]>>]
    BY <2>1
  <2> QED BY <2>1, <2>2, <2>3
<1>3. \A k \in Nat : k \in T
  <2> HIDE DEF T
  <2> QED BY <1>1, <1>2, Inductive
<1>4. \A k \in 0..N : it[1..k] \in A
  BY <1>0, <1>3
<1> DEFINE g == [k \in 0..N |-> it[1..k]]
<1>5. g \in [0..N -> A] /\ g[0] = b /\ g[N] = it[DOMAIN s]
  <2>1. 1..0 = {} /\ 0 \in 0..N /\ N \in 0..N
    BY <1>0
  <2> QED BY <1>0, <1>4, <2>1
<1>6. \A k \in 1..N : g[k] = F[<<g[k - 1], s[k]>>]
  <2> SUFFICES ASSUME NEW k \in 1..N PROVE g[k] = F[<<g[k - 1], s[k]>>]
    OBVIOUS
  <2>1. k \in 0..N /\ k - 1 \in 0..N
    BY <1>0
  <2>2. g[k] = it[1..k] /\ g[k - 1] = it[1..(k - 1)] /\ it[1..(k - 1)] \in A
    BY <1>4, <2>1
  <2> HIDE DEF g
  <2> QED BY <2>2
<1> HIDE DEF g
<1> QED BY <1>5, <1>6 DEF StepsBy
-----------------------------------------------------------------------------
(* FlattenSeq.                                                             *)

\* The joined sequences, one after the other.
Joins(g, seqs, S) ==
  /\ g \in [0..Len(seqs) -> Seq(S)] /\ g[0] = <<>>
  /\ \A k \in 1..Len(seqs) : g[k] = g[k - 1] \o seqs[k]

\* They exist.
LEMMA JoinExists ==
  ASSUME NEW S, NEW seqs \in Seq(Seq(S))
  PROVE  \E g : Joins(g, seqs, S)
<1> DEFINE Has(n) == \E g \in [0..n -> Seq(S)] : g[0] = <<>> /\ \A k \in 1..n : g[k] = g[k - 1] \o seqs[k]
           T == {n \in Nat : n <= Len(seqs) => Has(n)}
<1>1. 0 \in T
  <2>1. [k \in 0..0 |-> <<>>] \in [0..0 -> Seq(S)]
    <3>1. <<>> \in Seq(S)
      OBVIOUS
    <3> QED BY <3>1, Zenon
  <2>2. [k \in 0..0 |-> <<>>][0] = <<>> /\ 1..0 = {}
    OBVIOUS
  <2>3. Has(0)
    BY <2>1, <2>2, Zenon
  <2> QED BY <2>3
<1>2. ASSUME NEW n \in Nat, n \in T PROVE n + 1 \in T
  <2>0. n + 1 <= Len(seqs) => n <= Len(seqs)
    OBVIOUS
  <2> SUFFICES ASSUME n + 1 <= Len(seqs) PROVE Has(n + 1)
    <3> HIDE DEF Has
    <3> QED OBVIOUS
  <2>1. PICK g \in [0..n -> Seq(S)] : g[0] = <<>> /\ \A k \in 1..n : g[k] = g[k - 1] \o seqs[k]
    <3>1. Has(n)
      <4> HIDE DEF Has
      <4> QED BY <1>2, <2>0
    <3> QED BY <3>1, Zenon
  <2>2. seqs[n + 1] \in Seq(S) /\ g[n] \in Seq(S)
    OBVIOUS
  <2>3. g[n] \o seqs[n + 1] \in Seq(S)
    BY <2>2
  <2> DEFINE e == g[n] \o seqs[n + 1]
             f == [k \in 0..(n + 1) |-> IF k <= n THEN g[k] ELSE e]
  <2>4. f \in [0..(n + 1) -> Seq(S)] /\ f[n + 1] = e /\ \A k \in 0..n : f[k] = g[k]
    <3> HIDE DEF e
    <3>1. e \in Seq(S)
      BY <2>3 DEF e
    <3> QED BY <3>1
  <2> HIDE DEF f
  <2>5. f[n + 1] = f[n] \o seqs[n + 1]
    <3>1. n \in 0..n
      OBVIOUS
    <3> QED BY <2>4, <3>1, Zenon
  <2>6. \A k \in 1..(n + 1) : f[k] = f[k - 1] \o seqs[k]
    <3> SUFFICES ASSUME NEW k \in 1..(n + 1) PROVE f[k] = f[k - 1] \o seqs[k]
      OBVIOUS
    <3>1. CASE k = n + 1
      <4>1. k - 1 = n
        BY <3>1
      <4> QED BY <2>5, <3>1, <4>1
    <3>2. CASE k # n + 1
      <4>1. k \in 1..n /\ k \in 0..n /\ k - 1 \in 0..n
        BY <3>2
      <4> QED BY <2>1, <2>4, <4>1
    <3> QED BY <3>1, <3>2
  <2>7. f[0] = <<>>
    BY <2>1, <2>4
  <2> QED BY <2>4, <2>6, <2>7
<1>3. Len(seqs) \in T
  <2> HIDE DEF T
  <2>1. Len(seqs) \in Nat
    OBVIOUS
  <2> QED BY <1>1, <1>2, <2>1, Inductive
<1>4. Has(Len(seqs))
  <2> HIDE DEF Has
  <2> QED BY <1>3
<1> QED BY <1>4 DEF Joins

\* FlattenSeq is the last of them.
LEMMA FlattenJoins ==
  ASSUME NEW S, NEW seqs \in Seq(Seq(S))
  PROVE  \E g : Joins(g, seqs, S) /\ FlattenSeq(seqs) = g[Len(seqs)]
<1>1. PICK g : Joins(g, seqs, S)
  BY JoinExists
<1>2. CASE Len(seqs) = 0
  <2>1. FlattenSeq(seqs) = seqs /\ seqs = <<>>
    BY <1>2 DEF FlattenSeq
  <2> QED BY <1>1, <1>2, <2>1 DEF Joins
<1>3. CASE Len(seqs) # 0
  <2> DEFINE D == 1..Len(seqs)
             Is(f) == f = [i \in D |-> IF i = 1 THEN seqs[i] ELSE f[i - 1] \o seqs[i]]
             f0 == CHOOSE f : Is(f)
             r == [i \in D |-> g[i]]
  <2>1. Is(r)
    <3>0. \A i \in D : i \in 0..Len(seqs) /\ i - 1 \in 0..Len(seqs)
      OBVIOUS
    <3>1. \A i \in D : i # 1 => g[i] = r[i - 1] \o seqs[i]
      <4>1. \A i \in D : i # 1 => i - 1 \in D
        OBVIOUS
      <4>2. \A i \in D : i # 1 => r[i - 1] = g[i - 1]
        BY <4>1
      <4> HIDE DEF r
      <4> QED BY <1>1, <4>2 DEF Joins
    <3>2. g[1] = seqs[1]
      <4>1. 1 \in D /\ seqs[1] \in Seq(S) /\ g[0] = <<>> /\ 1 - 1 = 0
        BY <1>1, <1>3 DEF Joins
      <4>2. g[1] = g[0] \o seqs[1]
        BY <1>1, <4>1 DEF Joins
      <4> QED BY <4>1, <4>2
    <3>3. \A i \in D : g[i] = IF i = 1 THEN seqs[i] ELSE r[i - 1] \o seqs[i]
      BY <3>1, <3>2
    <3>4. r = [i \in D |-> g[i]]
      OBVIOUS
    <3> HIDE DEF r, D
    <3> QED BY <3>3, <3>4, Zenon
  <2>2. Is(f0)
    <3> HIDE DEF Is, r
    <3> QED BY <2>1
  <2>3. FlattenSeq(seqs) = f0[Len(seqs)]
    BY <1>3, Zenon DEF FlattenSeq
  <2> HIDE DEF f0, r
  <2> DEFINE T == {n \in Nat : n + 1 <= Len(seqs) => f0[n + 1] = g[n + 1]}
  <2>4. 0 \in T
    <3>1. 1 \in D /\ seqs[1] \in Seq(S) /\ g[0] = <<>> /\ 1 - 1 = 0
      BY <1>1, <1>3 DEF Joins
    <3>2. g[1] = g[0] \o seqs[1]
      BY <1>1, <3>1 DEF Joins
    <3>3. f0[1] = seqs[1]
      BY <2>2, <3>1
    <3> QED BY <3>1, <3>2, <3>3
  <2>5. ASSUME NEW n \in Nat, n \in T PROVE n + 1 \in T
    <3> SUFFICES ASSUME (n + 1) + 1 <= Len(seqs) PROVE f0[(n + 1) + 1] = g[(n + 1) + 1]
      BY <2>5
    <3>1. f0[n + 1] = g[n + 1]
      BY <2>5
    <3>2. (n + 1) + 1 \in D /\ (n + 1) + 1 # 1 /\ ((n + 1) + 1) - 1 = n + 1
      OBVIOUS
    <3>3. f0[(n + 1) + 1] = f0[n + 1] \o seqs[(n + 1) + 1]
      BY <2>2, <3>2
    <3>4. g[(n + 1) + 1] = g[n + 1] \o seqs[(n + 1) + 1]
      BY <1>1, <3>2 DEF Joins
    <3> QED BY <3>1, <3>3, <3>4
  <2>6. Len(seqs) - 1 \in Nat /\ (Len(seqs) - 1) + 1 = Len(seqs)
    BY <1>3
  <2>7. Len(seqs) - 1 \in T
    <3> HIDE DEF T
    <3> QED BY <2>4, <2>5, <2>6, Inductive
  <2> QED BY <1>1, <2>3, <2>6, <2>7
<1> QED BY <1>2, <1>3

\* Sequences that begin alike are joined alike.
LEMMA JoinsAgree ==
  ASSUME NEW S, NEW a, NEW b, NEW f, NEW g, Joins(f, a, S), Joins(g, b, S),
         NEW m \in Nat, m <= Len(a), m <= Len(b), \A k \in 1..m : a[k] = b[k],
         Len(a) \in Nat, Len(b) \in Nat
  PROVE  f[m] = g[m]
<1> DEFINE T == {n \in Nat : n <= m => f[n] = g[n]}
<1>1. 0 \in T
  BY DEF Joins
<1>2. ASSUME NEW n \in Nat, n \in T PROVE n + 1 \in T
  <2> SUFFICES ASSUME n + 1 <= m PROVE f[n + 1] = g[n + 1]
    OBVIOUS
  <2>1. /\ n + 1 \in 1..Len(a) /\ n + 1 \in 1..Len(b) /\ n + 1 \in 1..m /\ (n + 1) - 1 = n
        /\ f[n] = g[n]
    BY <1>2
  <2>2. f[n + 1] = f[n] \o a[n + 1] /\ g[n + 1] = g[n] \o b[n + 1]
    BY <2>1 DEF Joins
  <2> QED BY <2>1, <2>2
<1>3. m \in T
  <2> HIDE DEF T
  <2> QED BY <1>1, <1>2, Inductive
<1> QED BY <1>3

\* So are a sequence and what it begins.
LEMMA JoinsAlike ==
  ASSUME NEW S, NEW a \in Seq(Seq(S)), NEW b \in Seq(Seq(S)), Len(a) <= Len(b),
         \A k \in 1..Len(a) : a[k] = b[k], NEW f, NEW g, Joins(f, a, S), Joins(g, b, S)
  PROVE  f[Len(a)] = g[Len(a)]
<1>1. Len(a) \in Nat /\ Len(b) \in Nat /\ Len(a) <= Len(a)
  OBVIOUS
<1> QED BY <1>1, JoinsAgree

\* What is joined stays where it is when more is joined.
LEMMA JoinsGrow ==
  ASSUME NEW S, NEW b \in Seq(Seq(S)), NEW g, Joins(g, b, S), NEW m \in Nat, m <= Len(b)
  PROVE  Len(g[m]) <= Len(g[Len(b)]) /\ \A i \in 1..Len(g[m]) : g[Len(b)][i] = g[m][i]
<1> DEFINE Grows(n) == Len(g[m]) <= Len(g[n]) /\ \A i \in 1..Len(g[m]) : g[n][i] = g[m][i]
           T == {n \in Nat : m + n <= Len(b) => Grows(m + n)}
<1>0. Len(b) \in Nat /\ \A n \in 0..Len(b) : g[n] \in Seq(S) /\ Len(g[n]) \in Nat
  <2>1. \A n \in 0..Len(b) : g[n] \in Seq(S)
    BY DEF Joins
  <2>2. \A x \in Seq(S) : Len(x) \in Nat
    OBVIOUS
  <2> QED BY <2>1, <2>2
<1>1. 0 \in T
  BY <1>0
<1>2. ASSUME NEW n \in Nat, n \in T PROVE n + 1 \in T
  <2> SUFFICES ASSUME m + (n + 1) <= Len(b) PROVE Grows(m + (n + 1))
    OBVIOUS
  <2>1. /\ m + (n + 1) \in 1..Len(b) /\ m + n \in 0..Len(b) /\ (m + (n + 1)) - 1 = m + n
        /\ m \in 0..Len(b)
    BY <1>0
  <2>2. Grows(m + n)
    BY <1>0, <1>2
  <2>3. g[m + (n + 1)] = g[m + n] \o b[m + (n + 1)]
    BY <2>1 DEF Joins
  <2>4. PICK x \in Seq(S) : x = g[m + n]
    BY <1>0, <2>1
  <2>5. PICK y \in Seq(S) : y = b[m + (n + 1)]
    BY <2>1
  <2>6. Len(x \o y) = Len(x) + Len(y) /\ \A i \in 1..Len(x) : (x \o y)[i] = x[i]
    <3> HIDE <2>4, <2>5
    <3>1. Len(x) \in Nat /\ Len(y) \in Nat
      OBVIOUS
    <3> QED BY <3>1, ConcatProperties
  <2>7. Len(x) \in Nat /\ Len(y) \in Nat /\ Len(g[m]) \in Nat
    BY <1>0, <2>1, <2>4, <2>5
  <2>8. PICK z : z = x \o y
    OBVIOUS
  <2>9. Len(g[m]) <= Len(x) /\ \A i \in 1..Len(g[m]) : x[i] = g[m][i]
    BY <2>2, <2>4
  <2>10. Len(g[m]) <= Len(z) /\ \A i \in 1..Len(g[m]) : z[i] = g[m][i]
    BY <2>6, <2>7, <2>8, <2>9
  <2>11. g[m + (n + 1)] = z
    BY <2>3, <2>4, <2>5, <2>8
  <2> QED BY <2>10, <2>11
<1>3. Len(b) - m \in T
  <2> HIDE DEF T
  <2>1. Len(b) - m \in Nat
    BY <1>0
  <2> QED BY <1>1, <1>2, <2>1, Inductive
<1>4. m + (Len(b) - m) = Len(b)
  BY <1>0
<1> QED BY <1>0, <1>3, <1>4

\* What is joined is a sequence; nothing joined is nothing.
LEMMA FlattenType ==
  ASSUME NEW S, NEW seqs \in Seq(Seq(S))
  PROVE  FlattenSeq(seqs) \in Seq(S) /\ (Len(seqs) = 0 => FlattenSeq(seqs) = <<>>)
<1>1. PICK g : Joins(g, seqs, S) /\ FlattenSeq(seqs) = g[Len(seqs)]
  BY FlattenJoins
<1>2. Len(seqs) \in 0..Len(seqs)
  OBVIOUS
<1> QED BY <1>1, <1>2 DEF Joins

\* One sequence more.
LEMMA FlattenStep ==
  ASSUME NEW S, NEW a \in Seq(Seq(S)), NEW b \in Seq(Seq(S)), Len(a) < Len(b), Len(b) <= Len(a) + 1,
         \A k \in 1..Len(a) : a[k] = b[k]
  PROVE  FlattenSeq(b) = FlattenSeq(a) \o b[Len(b)]
<1>1. PICK f : Joins(f, a, S) /\ FlattenSeq(a) = f[Len(a)]
  BY FlattenJoins
<1>2. PICK g : Joins(g, b, S) /\ FlattenSeq(b) = g[Len(b)]
  BY FlattenJoins
<1>3. Len(a) \in Nat /\ Len(b) \in Nat /\ Len(a) <= Len(b)
  OBVIOUS
<1>4. f[Len(a)] = g[Len(a)]
  BY <1>1, <1>2, <1>3, JoinsAlike
<1>5. Len(b) \in 1..Len(b) /\ Len(b) - 1 = Len(a)
  BY <1>3
<1>6. g[Len(b)] = g[Len(a)] \o b[Len(b)]
  BY <1>2, <1>5 DEF Joins
<1> QED BY <1>1, <1>2, <1>4, <1>6

\* What begins a sequence of sequences begins what is joined.
LEMMA FlattenBegins ==
  ASSUME NEW S, NEW a \in Seq(Seq(S)), NEW b \in Seq(Seq(S)), Len(a) <= Len(b),
         \A k \in 1..Len(a) : a[k] = b[k]
  PROVE  /\ Len(FlattenSeq(a)) <= Len(FlattenSeq(b))
         /\ \A i \in 1..Len(FlattenSeq(a)) : FlattenSeq(b)[i] = FlattenSeq(a)[i]
<1>1. PICK f : Joins(f, a, S) /\ FlattenSeq(a) = f[Len(a)]
  BY FlattenJoins
<1>2. PICK g : Joins(g, b, S) /\ FlattenSeq(b) = g[Len(b)]
  BY FlattenJoins
<1>3. Len(a) \in Nat /\ Len(b) \in Nat /\ Len(a) <= Len(a)
  OBVIOUS
<1>4. f[Len(a)] = g[Len(a)]
  BY <1>1, <1>2, <1>3, JoinsAgree
<1>5. Len(g[Len(a)]) <= Len(g[Len(b)]) /\ \A i \in 1..Len(g[Len(a)]) : g[Len(b)][i] = g[Len(a)][i]
  BY <1>2, <1>3, JoinsGrow
<1> QED BY <1>1, <1>2, <1>4, <1>5

\* Nothing is lost.
LEMMA FlattenHas ==
  ASSUME NEW S, NEW seqs \in Seq(Seq(S)), NEW k \in 1..Len(seqs)
  PROVE  Range(seqs[k]) \subseteq Range(FlattenSeq(seqs))
<1>1. PICK g : Joins(g, seqs, S) /\ FlattenSeq(seqs) = g[Len(seqs)]
  BY FlattenJoins
<1>2. k \in Nat /\ k \in 0..Len(seqs) /\ k - 1 \in 0..Len(seqs) /\ k <= Len(seqs) /\ Len(seqs) \in 0..Len(seqs)
  OBVIOUS
<1>3. PICK x \in Seq(S) : x = g[k - 1]
  BY <1>1, <1>2 DEF Joins
<1>4. PICK y \in Seq(S) : y = seqs[k]
  OBVIOUS
<1>5. PICK w \in Seq(S) : w = FlattenSeq(seqs)
  BY FlattenType
<1>6. g[k] = x \o y
  BY <1>1, <1>3, <1>4 DEF Joins
<1>7. Len(x \o y) = Len(x) + Len(y) /\ \A i \in 1..Len(y) : (x \o y)[Len(x) + i] = y[i]
  <2>1. Len(x) \in Nat /\ Len(y) \in Nat
    OBVIOUS
  <2>2. \A i \in 1..Len(y) : Len(x) + i \in 1..(Len(x) + Len(y)) /\ ~(Len(x) + i <= Len(x)) /\ (Len(x) + i) - Len(x) = i
    BY <2>1
  <2> QED BY <2>1, <2>2, ConcatProperties
<1>8. Len(g[k]) <= Len(w) /\ \A i \in 1..Len(g[k]) : w[i] = g[k][i]
  BY <1>1, <1>2, <1>5, JoinsGrow
<1>9. Len(x) \in Nat /\ Len(y) \in Nat /\ Len(w) \in Nat
  BY <1>3, <1>4, <1>5
<1>10. PICK z : z = x \o y
  OBVIOUS
<1>11. \A i \in 1..Len(y) : Len(x) + i \in 1..Len(w) /\ w[Len(x) + i] = y[i]
  <2> SUFFICES ASSUME NEW i \in 1..Len(y) PROVE Len(x) + i \in 1..Len(w) /\ w[Len(x) + i] = y[i]
    OBVIOUS
  <2>1. z[Len(x) + i] = y[i] /\ Len(z) = Len(x) + Len(y)
    BY <1>7, <1>10
  <2>2. g[k] = z
    BY <1>6, <1>10
  <2>3. Len(z) <= Len(w) /\ \A j \in 1..Len(z) : w[j] = z[j]
    BY <1>8, <2>2
  <2>4. Len(x) + i \in 1..Len(z) /\ Len(x) + i \in 1..Len(w)
    BY <1>9, <2>1, <2>3
  <2> QED BY <2>1, <2>3, <2>4
<1>12. Range(y) = {y[i] : i \in 1..Len(y)} /\ Range(w) = {w[i] : i \in 1..Len(w)}
  BY <1>4, <1>5 DEF Range
<1>13. Range(y) \subseteq Range(w)
  BY <1>11, <1>12
<1> QED BY <1>4, <1>5, <1>13
-----------------------------------------------------------------------------
Chains == Seq(Seq(Txs))

\* One chain is the beginning of another.
Begins(a, b) == Len(a) <= Len(b) /\ \A h \in 1..Len(a) : a[h] = b[h]

(***************************************************************************)
(* The inductive invariant.                                                *)
(***************************************************************************)

\* The selected chain is valid, and so is what waits in the pool on top of it.
ChainInv ==
  /\ tip \in Chains /\ scan \in Chains /\ pool \subseteq Txs
  /\ IsChain(tip)
  /\ \A t \in pool : t \notin OnChain(tip) /\ t.ins \cap Unripe(tip) = {}

Calling == pc \in {"unspent", "confirm", "pending"} /\ steady

\* During a call that nothing disturbs, the first tip stays the beginning of the
\* index and of the tip, and what was left out for the pool stays left out.
CallInv ==
  Calling =>
    /\ cs \in Chains /\ IsChain(cs)
    /\ Begins(cs, scan) /\ Begins(scan, tip)
    /\ spendable \cap Ins(pool) = {}
    /\ \A t \in pool : t.ins \cap Unripe(cs) = {}
    /\ pc \in {"confirm", "pending"} => spendable \subseteq Unspent(cs)
    /\ pc = "pending" => immature = {o \in Unripe(cs) : Managed(o)}

IInv == ChainInv /\ CallInv /\ BalanceCountsOnce
-----------------------------------------------------------------------------
(* Chains.                                                                 *)

\* What is on the beginning of a chain is on the chain.
LEMMA BeginsOnChain ==
  ASSUME NEW a \in Chains, NEW b \in Chains, Begins(a, b)
  PROVE  OnChain(a) \subseteq OnChain(b)
<1>1. \A h \in 1..Len(a) : h \in 1..Len(b) /\ a[h] = b[h]
  BY DEF Chains, Begins
<1> QED BY <1>1 DEF OnChain

\* To begin a chain is an order.
LEMMA BeginsOrder ==
  ASSUME NEW a \in Chains, NEW b \in Chains, Begins(a, b)
  PROVE  /\ Begins(a, a)
         /\ (Len(a) = Len(b) => a = b)
         /\ \A c \in Chains : Begins(b, c) => Begins(a, c)
<1>1. Len(a) \in Nat /\ Len(b) \in Nat /\ \A c \in Chains : Len(c) \in Nat
  BY DEF Chains
<1>2. Begins(a, a)
  BY <1>1 DEF Begins
<1>3. ASSUME Len(a) = Len(b) PROVE a = b
  <2>1. a \in [1..Len(a) -> Seq(Txs)] /\ b \in [1..Len(a) -> Seq(Txs)]
    BY <1>3 DEF Chains
  <2> QED BY <2>1 DEF Begins
<1>4. ASSUME NEW c \in Chains, Begins(b, c) PROVE Begins(a, c)
  BY <1>1, <1>4 DEF Begins
<1> QED BY <1>2, <1>3, <1>4

\* The transactions of a chain have places.
LEMMA OnChainAt ==
  ASSUME NEW a \in Chains, NEW t
  PROVE  t \in OnChain(a) <=> \E h \in 1..Len(a) : \E i \in 1..Len(a[h]) : t = a[h][i]
<1>1. \A h \in 1..Len(a) : a[h] \in Seq(Txs)
  BY DEF Chains
<1>2. \A h \in 1..Len(a) : Range(a[h]) = {a[h][i] : i \in 1..Len(a[h])}
  BY <1>1 DEF Range
<1> QED BY <1>2 DEF OnChain

\* A cut of a chain.
LEMMA CutIs ==
  ASSUME NEW S, NEW a \in Seq(S), NEW n \in 0..Len(a)
  PROVE  /\ SubSeq(a, 1, n) \in Seq(S) /\ Len(SubSeq(a, 1, n)) = n
         /\ \A h \in 1..n : SubSeq(a, 1, n)[h] = a[h]
OBVIOUS

LEMMA CutChain ==
  ASSUME NEW a \in Chains, NEW n \in 0..Len(a)
  PROVE  /\ SubSeq(a, 1, n) \in Chains /\ Len(SubSeq(a, 1, n)) = n
         /\ \A h \in 1..n : SubSeq(a, 1, n)[h] = a[h]
BY CutIs DEF Chains

\* The cut at its end is the chain.
LEMMA CutAtEnd ==
  ASSUME NEW a \in Chains
  PROVE  SubSeq(a, 1, Len(a)) = a
<1>1. Len(a) \in Nat /\ Len(a) \in 0..Len(a)
  BY DEF Chains
<1>2. PICK b \in Chains : b = SubSeq(a, 1, Len(a)) /\ Len(b) = Len(a) /\ \A h \in 1..Len(a) : b[h] = a[h]
  BY <1>1, CutChain
<1>3. Begins(b, a)
  BY <1>1, <1>2 DEF Begins
<1> QED BY <1>2, <1>3, BeginsOrder

\* Transactions are of Txs.
LEMMA OnChainTxs ==
  ASSUME NEW a \in Chains
  PROVE  OnChain(a) \subseteq Txs
<1> SUFFICES ASSUME NEW t \in OnChain(a) PROVE t \in Txs
  OBVIOUS
<1>1. PICK h \in 1..Len(a) : \E i \in 1..Len(a[h]) : t = a[h][i]
  BY OnChainAt
<1>2. a[h] \in Seq(Txs)
  BY DEF Chains
<1> QED BY <1>1, <1>2

\* An output names its transaction.
LEMMA OneMaker ==
  ASSUME NEW t \in Txs, NEW u \in Txs, NEW o \in Range(t.outs), o \in Range(u.outs)
  PROVE  t = u
BY TxsAssumption

\* A transaction on a valid chain spends outputs of the wallet that the chain has
\* made and that are ripe at its end.
LEMMA SpentOnChain ==
  ASSUME NEW a \in Chains, IsChain(a), NEW t \in OnChain(a), NEW o \in t.ins, Managed(o)
  PROVE  o \in Outs(OnChain(a)) /\ o \notin Unripe(a)
<1>1. PICK k \in 1..Len(a) : \E i \in 1..Len(a[k]) : t = a[k][i]
  BY OnChainAt
<1>2. PICK i \in 1..Len(a[k]) : t = a[k][i]
  BY <1>1
<1>3. /\ Follows(t, OnChain(SubSeq(a, 1, k - 1)) \cup {a[k][j] : j \in 1..(i - 1)})
      /\ t.ins \cap Unripe(SubSeq(a, 1, k)) = {}
  BY <1>2 DEF IsChain
<1>4. a[k] \in Seq(Txs) /\ Len(a) \in Nat /\ Len(a[k]) \in Nat
  BY DEF Chains
<1>5. OnChain(SubSeq(a, 1, k - 1)) \cup {a[k][j] : j \in 1..(i - 1)} \subseteq OnChain(SubSeq(a, 1, k))
  <2>1. k - 1 \in 0..Len(a) /\ k \in 0..Len(a)
    BY <1>4
  <2>2. /\ SubSeq(a, 1, k - 1) \in Chains /\ SubSeq(a, 1, k) \in Chains
        /\ Begins(SubSeq(a, 1, k - 1), SubSeq(a, 1, k))
        /\ Len(SubSeq(a, 1, k)) = k /\ SubSeq(a, 1, k)[k] = a[k]
    BY <1>4, <2>1, CutChain DEF Begins
  <2>3. \A j \in 1..(i - 1) : j \in 1..Len(a[k])
    BY <1>4
  <2>4. \A j \in 1..(i - 1) : a[k][j] \in OnChain(SubSeq(a, 1, k))
    <3> SUFFICES ASSUME NEW j \in 1..(i - 1) PROVE a[k][j] \in OnChain(SubSeq(a, 1, k))
      OBVIOUS
    <3>1. k \in 1..Len(SubSeq(a, 1, k)) /\ j \in 1..Len(SubSeq(a, 1, k)[k])
          /\ a[k][j] = SubSeq(a, 1, k)[k][j]
      BY <1>4, <2>2, <2>3
    <3> QED BY <2>2, <3>1, OnChainAt
  <2>5. OnChain(SubSeq(a, 1, k - 1)) \subseteq OnChain(SubSeq(a, 1, k))
    BY <2>2, BeginsOnChain
  <2> QED BY <2>4, <2>5
<1>6. o \in Outs(OnChain(SubSeq(a, 1, k)))
  BY <1>3, <1>5 DEF Follows, Outs
<1>7. SubSeq(a, 1, k) \in Chains /\ Begins(SubSeq(a, 1, k), a) /\ Len(SubSeq(a, 1, k)) = k
      /\ \A h \in 1..k : SubSeq(a, 1, k)[h] = a[h]
  <2>1. k \in 0..Len(a)
    BY <1>4
  <2> QED BY <1>4, <2>1, CutChain DEF Begins
<1>8. PICK u \in OnChain(SubSeq(a, 1, k)) : o \in Range(u.outs)
  BY <1>6 DEF Outs
<1>9. ASSUME o \in Unripe(a) PROVE FALSE
  <2>1. PICK v \in Txs : /\ o \in Range(v.outs) /\ v.payout
                         /\ \E h \in 1..Len(a) : v \in Range(a[h]) /\ Len(a) < h + Delay
    BY <1>9 DEF Unripe, Outs
  <2>2. u = v
    BY <1>7, <1>8, <2>1, OnChainTxs, OneMaker
  <2>3. PICK h \in 1..Len(a) : v \in Range(a[h]) /\ Len(a) < h + Delay
    BY <2>1
  <2>4. h <= k
    <3> SUFFICES ASSUME h > k PROVE FALSE
      BY <1>4
    <3>1. a[h] \in Seq(Txs)
      BY DEF Chains
    <3>2. PICK j \in 1..Len(a[h]) : v = a[h][j]
      BY <2>3, <3>1 DEF Range
    <3>3. v \notin OnChain(SubSeq(a, 1, h - 1))
      BY <3>2 DEF IsChain, Follows
    <3>4. h - 1 \in 0..Len(a) /\ k <= h - 1
      BY <1>4
    <3>5. SubSeq(a, 1, h - 1) \in Chains /\ Begins(SubSeq(a, 1, k), SubSeq(a, 1, h - 1))
      BY <1>7, <3>4, CutChain DEF Begins
    <3>6. v \in OnChain(SubSeq(a, 1, h - 1))
      BY <1>7, <1>8, <2>2, <3>5, BeginsOnChain
    <3> QED BY <3>3, <3>6
  <2>5. h \in 1..k /\ k < h + Delay /\ v \in Range(SubSeq(a, 1, k)[h])
    BY <1>4, <1>7, <2>3, <2>4, TxsAssumption
  <2>6. o \in Unripe(SubSeq(a, 1, k))
    BY <1>7, <2>1, <2>5 DEF Unripe, Outs
  <2> QED BY <1>3, <2>6
<1> QED BY <1>6, <1>7, <1>9, BeginsOnChain DEF Outs
-----------------------------------------------------------------------------
(* The chain moves.                                                        *)

\* A transaction that enters the pool ends the calls that could be disturbed.
LEMMA PoolAddKeeps ==
  ASSUME IInv, NEW t \in Txs, PoolAdd(t)
  PROVE  IInv'
<1>1. /\ pool' = pool \cup {t} /\ t \notin OnChain(tip) /\ t.ins \cap Unripe(tip) = {}
      /\ UNCHANGED <<tip, scan, pc, spendable, immature, pending>>
      /\ steady' = (steady /\ pc \notin {"unspent", "confirm", "pending"})
  BY DEF PoolAdd, Follows, balanceVars
<1>2. ChainInv'
  BY <1>1 DEF IInv, ChainInv
<1>3. CallInv'
  BY <1>1 DEF CallInv, Calling
<1>4. BalanceCountsOnce'
  BY <1>1 DEF IInv, BalanceCountsOnce, Counted
<1> QED BY <1>2, <1>3, <1>4 DEF IInv

\* A chain that is selected is longer by one block, and without a reorganization
\* it goes on where the old one ended.
LEMMA SelectsLonger ==
  ASSUME NEW T, tip \in Seq(Seq(T)), NEW blocks, blocks \subseteq Seq(T), NEW depth \in Nat,
         Longer(depth, blocks)
  PROVE  /\ tip' \in Seq(Seq(T)) /\ Len(tip') = Len(tip) + 1
         /\ depth = 0 => Begins(tip, tip')
<1>1. depth <= Len(tip) /\ Len(tip) \in Nat
  BY DEF Longer
<1>2. PICK new \in [1..(depth + 1) -> blocks] : tip' = SubSeq(tip, 1, Len(tip) - depth) \o new
  BY DEF Longer
<1>3. new \in Seq(Seq(T)) /\ Len(new) = depth + 1
  <2>1. new \in [1..(depth + 1) -> Seq(T)]
    BY <1>2
  <2> QED BY <2>1
<1>4. PICK kept \in Seq(Seq(T)) : /\ kept = SubSeq(tip, 1, Len(tip) - depth)
                                  /\ Len(kept) = Len(tip) - depth
                                  /\ \A h \in 1..Len(kept) : kept[h] = tip[h]
  <2>1. Len(tip) - depth \in 0..Len(tip)
    BY <1>1
  <2>2. PICK n \in 0..Len(tip) : n = Len(tip) - depth
    BY <2>1
  <2>3. /\ SubSeq(tip, 1, n) \in Seq(Seq(T)) /\ Len(SubSeq(tip, 1, n)) = n
        /\ \A h \in 1..n : SubSeq(tip, 1, n)[h] = tip[h]
    BY <2>2, CutIs
  <2> QED BY <2>2, <2>3, Zenon
<1>5. tip' = kept \o new
  BY <1>2, <1>4, Zenon
<1>6. tip' \in Seq(Seq(T)) /\ Len(tip') = Len(kept) + Len(new)
  BY <1>3, <1>5, ConcatProperties
<1>7. Len(tip') = Len(tip) + 1
  <2>1. (Len(tip) - depth) + (depth + 1) = Len(tip) + 1
    BY <1>1
  <2> QED BY <1>3, <1>4, <1>6, <2>1, Zenon
<1>8. ASSUME depth = 0 PROVE Begins(tip, tip')
  <2>1. \A h \in 1..Len(kept) : tip'[h] = kept[h]
    BY <1>3, <1>5, ConcatProperties
  <2>2. Len(kept) = Len(tip)
    BY <1>1, <1>4, <1>8
  <2>3. \A h \in 1..Len(tip) : tip'[h] = tip[h]
    BY <1>4, <2>1, <2>2
  <2> QED BY <1>1, <1>7, <2>3 DEF Begins
<1> QED BY <1>6, <1>7, <1>8

LEMMA BlocksAre == Blocks \subseteq Seq(Txs)
<1> SUFFICES ASSUME NEW b \in Blocks PROVE b \in Seq(Txs)
  OBVIOUS
<1>1. PICK n \in 0..MaxBlock : b \in [1..n -> Txs]
  BY DEF Blocks
<1>2. n \in Nat
  BY <1>1
<1> QED BY <1>1, <1>2

LEMMA SelectsBlocks ==
  ASSUME tip \in Chains, NEW depth \in Nat, SelectChain(depth)
  PROVE  /\ tip' \in Chains /\ Len(tip') = Len(tip) + 1
         /\ depth = 0 => Begins(tip, tip')
<1>1. tip \in Seq(Seq(Txs)) /\ Longer(depth, Blocks)
  BY DEF Chains, SelectChain
<1> QED BY <1>1, BlocksAre, SelectsLonger DEF Chains

\* It is valid, with a pool that is; without a reorganization the pool only loses.
LEMMA SelectChainKeeps ==
  ASSUME IInv, NEW depth \in Nat, SelectChain(depth)
  PROVE  IInv'
<1>1. /\ depth <= Len(tip)
      /\ IsChain(tip') /\ pool' \in SUBSET (pool \cup OnChain(tip)) /\ IsPool(pool', tip')
      /\ UNCHANGED <<scan, pc, cs, spendable, immature, pending>>
      /\ steady' = (steady /\ depth = 0)
  BY DEF SelectChain, Longer, depositVars, balanceVars
<1>3. tip \in Chains /\ Len(tip) \in Nat /\ scan \in Chains /\ pool \subseteq Txs
  BY DEF IInv, ChainInv, Chains
<1>6. tip' \in Chains
  BY <1>3, SelectsBlocks
<1>7. ASSUME depth = 0 PROVE Begins(tip, tip')
  BY <1>3, <1>7, SelectsBlocks
<1>8. \A t \in pool' : t \notin OnChain(tip') /\ t.ins \cap Unripe(tip') = {}
  BY <1>1 DEF IsPool, Follows
<1>9. ChainInv'
  <2>1. pool' \subseteq Txs
    BY <1>1, <1>3, OnChainTxs
  <2> QED BY <1>1, <1>3, <1>6, <1>8, <2>1 DEF ChainInv
<1>10. CallInv'
  <2> SUFFICES ASSUME Calling' PROVE CallInv'
    BY DEF CallInv
  <2>1. Calling /\ depth = 0
    BY <1>1 DEF Calling
  <2>2. Begins(scan, tip') /\ pool' \subseteq pool
    <3>1. Begins(tip, tip')
      BY <1>7, <2>1
    <3>2. Begins(scan, tip)
      BY <2>1 DEF IInv, CallInv
    <3> QED BY <1>1, <1>3, <1>6, <1>8, <3>1, <3>2, BeginsOrder, BeginsOnChain
  <2>3. spendable \cap Ins(pool') = {}
    BY <2>1, <2>2 DEF IInv, CallInv, Ins
  <2> QED BY <1>1, <2>1, <2>2, <2>3 DEF IInv, CallInv
<1>11. BalanceCountsOnce'
  BY <1>1 DEF IInv, BalanceCountsOnce, Counted
<1> QED BY <1>9, <1>10, <1>11 DEF IInv

\* The index moves towards the tip: it goes beyond the first tip of a call only
\* when the selected chain has.
LEMMA IndexKeeps ==
  ASSUME IInv, IndexMoves
  PROVE  IInv'
<1>1. /\ scan # tip
      /\ scan' = IF IsPrefix(scan, tip) THEN SubSeq(tip, 1, Len(scan) + 1) ELSE Front(scan)
      /\ UNCHANGED <<tip, pool, pc, cs, spendable, immature, pending, steady>>
  BY DEF IndexMoves, balanceVars
<1>2. tip \in Chains /\ scan \in Chains /\ Len(tip) \in Nat /\ Len(scan) \in Nat
  BY DEF IInv, ChainInv, Chains
<1>3. ASSUME Begins(scan, tip)
      PROVE  /\ IsPrefix(scan, tip) /\ Len(scan) + 1 \in 0..Len(tip)
             /\ SubSeq(tip, 1, Len(scan) + 1) \in Chains
             /\ Begins(scan, SubSeq(tip, 1, Len(scan) + 1))
             /\ Begins(SubSeq(tip, 1, Len(scan) + 1), tip)
  <2>1. Len(scan) <= Len(tip) /\ Len(scan) # Len(tip)
    BY <1>1, <1>2, <1>3, BeginsOrder DEF Begins
  <2>2. Len(scan) + 1 \in 0..Len(tip)
    BY <1>2, <2>1
  <2>3. IsPrefix(scan, tip)
    <3>1. PICK s \in Chains : s = SubSeq(scan, 1, Len(scan)) /\ Len(s) = Len(scan)
                              /\ \A h \in 1..Len(scan) : s[h] = scan[h]
      <4>1. Len(scan) \in 0..Len(scan)
        BY <1>2
      <4> QED BY <1>2, <4>1, CutChain
    <3>2. PICK u \in Chains : u = SubSeq(tip, 1, Len(scan)) /\ Len(u) = Len(scan)
                              /\ \A h \in 1..Len(scan) : u[h] = tip[h]
      <4>1. Len(scan) \in 0..Len(tip)
        BY <1>2, <2>1
      <4> QED BY <1>2, <4>1, CutChain
    <3>3. Begins(s, u)
      BY <1>2, <1>3, <3>1, <3>2 DEF Begins
    <3>4. s = u
      <4>1. Len(s) = Len(u)
        BY <3>1, <3>2
      <4> QED BY <3>3, <4>1, BeginsOrder
    <3> QED BY <2>1, <3>1, <3>2, <3>4 DEF IsPrefix
  <2>4. PICK u \in Chains : u = SubSeq(tip, 1, Len(scan) + 1) /\ Len(u) = Len(scan) + 1
                            /\ \A h \in 1..(Len(scan) + 1) : u[h] = tip[h]
    BY <1>2, <2>2, CutChain
  <2>5. Begins(scan, u) /\ Begins(u, tip)
    BY <1>2, <1>3, <2>2, <2>4 DEF Begins
  <2> QED BY <2>2, <2>3, <2>4, <2>5
<1>4. scan' \in Chains
  <2>1. CASE IsPrefix(scan, tip)
    <3>1. scan' = SubSeq(tip, 1, Len(scan) + 1)
      BY <1>1, <2>1
    <3>2. CASE Len(scan) = Len(tip)
      <4>1. SubSeq(scan, 1, Len(scan)) = SubSeq(tip, 1, Len(tip))
        BY <2>1, <3>2 DEF IsPrefix
      <4>2. scan = tip
        BY <1>2, <4>1, CutAtEnd
      <4> QED BY <1>1, <4>2
    <3>3. CASE Len(scan) # Len(tip)
      <4>1. Len(scan) + 1 \in 0..Len(tip)
        BY <1>2, <2>1, <3>3 DEF IsPrefix
      <4> QED BY <1>2, <3>1, <4>1, CutChain
    <3> QED BY <3>2, <3>3
  <2>2. CASE ~IsPrefix(scan, tip)
    BY <1>1, <1>2, <2>2 DEF Front, Chains
  <2> QED BY <2>1, <2>2
<1>5. ChainInv'
  BY <1>1, <1>4 DEF IInv, ChainInv
<1>6. CallInv'
  <2> SUFFICES ASSUME Calling' PROVE CallInv'
    BY DEF CallInv
  <2>1. Calling /\ Begins(cs, scan) /\ Begins(scan, tip) /\ cs \in Chains
    BY <1>1 DEF Calling, IInv, CallInv
  <2>2. Begins(cs, scan') /\ Begins(scan', tip)
    BY <1>1, <1>2, <1>3, <2>1, BeginsOrder
  <2> QED BY <1>1, <2>1, <2>2 DEF IInv, CallInv
<1>7. BalanceCountsOnce'
  BY <1>1 DEF IInv, BalanceCountsOnce, Counted
<1> QED BY <1>5, <1>6, <1>7 DEF IInv
-----------------------------------------------------------------------------
(* The calls.                                                              *)

\* Nothing of Deposits touches what Balance counts.
LEMMA DepositsKeep ==
  ASSUME IInv,
         \/ \E l \in Limits : StartSweep(l)
         \/ BeginDeposits \/ ReadPage \/ RefuseDeposits \/ AnswerDeposits \/ EndSweep
  PROVE  IInv'
<1>1. /\ UNCHANGED <<tip, scan, pool>>
      /\ pc' \notin {"unspent", "confirm", "pending", "counted"}
  BY DEF StartSweep, BeginDeposits, ReadPage, RefuseDeposits, AnswerDeposits, Answer, EndSweep,
         chainVars
<1>2. ChainInv'
  BY <1>1 DEF IInv, ChainInv
<1> QED BY <1>1, <1>2 DEF IInv, CallInv, Calling, BalanceCountsOnce

\* Balance begins at a tip that the index has reached.
LEMMA BeginKeeps ==
  ASSUME IInv, BeginBalance
  PROVE  IInv'
<1>1. /\ scan = tip /\ cs' = tip /\ pc' = "unspent" /\ UNCHANGED <<tip, scan, pool>>
      /\ spendable' = {o \in DOMAIN Kind : o \notin Ins(pool)}
  BY DEF BeginBalance, chainVars
<1>2. ChainInv' /\ tip \in Chains /\ Len(tip) \in Nat
  BY <1>1 DEF IInv, ChainInv, Chains
<1>3. Begins(cs, scan)' /\ Begins(scan, tip)'
  BY <1>1, <1>2 DEF Begins
<1>4. spendable' \cap Ins(pool') = {}
  BY <1>1
<1>5. CallInv'
  BY <1>1, <1>2, <1>3, <1>4 DEF CallInv, IInv, ChainInv
<1> QED BY <1>1, <1>2, <1>5 DEF IInv, BalanceCountsOnce

\* The index is read at the first tip.
LEMMA UnspentKeeps ==
  ASSUME IInv, ReadUnspent
  PROVE  IInv'
<1>1. /\ pc = "unspent" /\ scan = cs /\ pc' = "confirm"
      /\ spendable' = spendable \cap Unspent(scan)
      /\ UNCHANGED <<tip, scan, pool, cs, steady>>
  BY DEF ReadUnspent, chainVars
<1>2. ChainInv'
  BY <1>1 DEF IInv, ChainInv
<1>3. CallInv'
  BY <1>1 DEF IInv, CallInv, Calling
<1> QED BY <1>1, <1>2, <1>3 DEF IInv, BalanceCountsOnce

\* The tip is where it was, so the index, which nothing compares, is there too.
LEMMA ImmatureKeeps ==
  ASSUME IInv, ReadImmature
  PROVE  IInv'
<1>1. /\ pc = "confirm" /\ tip = cs /\ pc' = "pending"
      /\ immature' = {o \in Unripe(scan) : Managed(o)}
      /\ UNCHANGED <<tip, scan, pool, cs, spendable, steady>>
  BY DEF ReadImmature, chainVars
<1>2. ChainInv'
  BY <1>1 DEF IInv, ChainInv
<1>3. ASSUME Calling PROVE scan = cs
  <2>1. Begins(cs, scan) /\ Begins(scan, cs) /\ cs \in Chains /\ scan \in Chains
    BY <1>1, <1>3 DEF IInv, CallInv, ChainInv
  <2>2. Len(cs) = Len(scan)
    BY <2>1 DEF Begins, Chains
  <2> QED BY <2>1, <2>2, BeginsOrder
<1>4. CallInv'
  BY <1>1, <1>3 DEF IInv, CallInv, Calling
<1> QED BY <1>1, <1>2, <1>4 DEF IInv, BalanceCountsOnce

\* What is spendable or immature was made on the chain and not spent there, and
\* what is pending was made in the pool and not spent there: the pool's second
\* reading is part of the first.
LEMMA PendingKeeps ==
  ASSUME IInv, ReadPending
  PROVE  IInv'
<1>1. /\ pc = "pending" /\ pc' = "counted"
      /\ pending' = {o \in Outs(pool) \ Ins(pool) : Managed(o)}
      /\ UNCHANGED <<tip, scan, pool, spendable, immature, steady>>
  BY DEF ReadPending, chainVars
<1>2. ChainInv'
  BY <1>1 DEF IInv, ChainInv
<1>3. CallInv'
  BY <1>1 DEF CallInv, Calling
<1>4. BalanceCountsOnce'
  <2> SUFFICES ASSUME steady
               PROVE  /\ \A t \in Txs : t.ins \cap Counted' = {} \/ Range(t.outs) \cap Counted' = {}
                      /\ spendable \cap immature = {} /\ spendable \cap pending' = {}
                      /\ immature \cap pending' = {}
    BY <1>1 DEF BalanceCountsOnce
  <2>1. /\ cs \in Chains /\ IsChain(cs) /\ Begins(cs, scan) /\ Begins(scan, tip)
        /\ spendable \cap Ins(pool) = {} /\ \A t \in pool : t.ins \cap Unripe(cs) = {}
        /\ spendable \subseteq Unspent(cs) /\ immature = {o \in Unripe(cs) : Managed(o)}
    BY <1>1 DEF IInv, CallInv, Calling
  <2>2. /\ scan \in Chains /\ tip \in Chains /\ pool \subseteq Txs
        /\ \A t \in pool : t \notin OnChain(tip)
    BY DEF IInv, ChainInv
  <2>3. OnChain(cs) \subseteq OnChain(tip) /\ OnChain(cs) \subseteq Txs
    BY <2>1, <2>2, BeginsOnChain, BeginsOrder, OnChainTxs
  <2>4. \A t \in pool : t \notin OnChain(cs)
    BY <2>2, <2>3
  <2>5. Unripe(cs) \subseteq Outs(OnChain(cs))
    BY DEF Unripe, Outs, OnChain
  <2>6. \A o \in spendable \cup immature : o \in Outs(OnChain(cs)) /\ Managed(o)
    BY <2>1, <2>5 DEF Unspent
  <2>7. \A o \in pending' : o \in Outs(pool) /\ o \notin Ins(pool) /\ Managed(o)
    BY <1>1
  <2>8. Outs(OnChain(cs)) \cap Outs(pool) = {}
    BY <2>2, <2>3, <2>4, OneMaker DEF Outs
  <2>9. spendable \cap immature = {}
    BY <2>1 DEF Unspent
  <2>10. ASSUME NEW t \in Txs, NEW a \in t.ins, a \in Counted',
                NEW b \in Range(t.outs), b \in Counted'
         PROVE  FALSE
    <3>1. \/ a \in spendable \/ a \in immature \/ a \in pending'
      BY <1>1, <2>10 DEF Counted
    <3>2. Managed(a)
      BY <2>6, <2>7, <3>1
    <3>3. CASE b \in spendable \cup immature
      <4>1. t \in OnChain(cs)
        BY <2>3, <2>6, <2>10, <3>3, OneMaker DEF Outs
      <4>2. a \in Outs(OnChain(cs)) /\ a \notin Unripe(cs) /\ a \in Ins(OnChain(cs))
        BY <2>1, <2>10, <3>2, <4>1, SpentOnChain DEF Ins
      <4> QED BY <2>1, <2>7, <2>8, <3>1, <4>2 DEF Unspent
    <3>4. CASE b \in pending'
      <4>1. t \in pool
        BY <2>2, <2>7, <2>10, <3>4, OneMaker DEF Outs
      <4>2. a \in Ins(pool) /\ a \notin Unripe(cs)
        BY <2>1, <2>10, <4>1 DEF Ins
      <4> QED BY <2>1, <2>7, <3>1, <4>2
    <3> QED BY <1>1, <2>10, <3>3, <3>4 DEF Counted
  <2> QED BY <2>6, <2>7, <2>8, <2>9, <2>10
<1> QED BY <1>2, <1>3, <1>4 DEF IInv

\* A call that ends leaves nothing counted.
LEMMA EndKeeps ==
  ASSUME IInv, RefuseBalance \/ EndBalance
  PROVE  IInv'
<1>1. pc' = "rest" /\ UNCHANGED <<tip, scan, pool>>
  BY DEF RefuseBalance, EndBalance, chainVars
<1>2. ChainInv'
  BY <1>1 DEF IInv, ChainInv
<1> QED BY <1>1, <1>2 DEF IInv, CallInv, Calling, BalanceCountsOnce

\* The invariant holds.
THEOREM AccountingInvariant == Spec => []IInv
<1>1. Init => IInv
  <2> SUFFICES ASSUME Init PROVE IInv
    OBVIOUS
  <2>1. tip = <<>> /\ tip \in Chains /\ scan \in Chains /\ pool = {} /\ pc = "rest"
    BY DEF Init, Chains
  <2>2. IsChain(tip)
    BY <2>1 DEF IsChain
  <2> QED BY <2>1, <2>2 DEF IInv, ChainInv, CallInv, Calling, BalanceCountsOnce
<1>2. IInv /\ [Next]_vars => IInv'
  <2> SUFFICES ASSUME IInv, [Next]_vars PROVE IInv'
    OBVIOUS
  <2>1. CASE UNCHANGED vars
    <3>1. UNCHANGED <<tip, scan, pool, pc, cs, spendable, immature, pending, steady>>
      BY <2>1 DEF vars, chainVars, balanceVars
    <3> QED BY <3>1 DEF IInv, ChainInv, CallInv, Calling, BalanceCountsOnce, Counted
  <2>2. CASE Environment
    <3>1. \A depth \in 0..MaxDepth : depth \in Nat
      OBVIOUS
    <3> QED BY <2>2, <3>1, PoolAddKeeps, SelectChainKeeps, IndexKeeps DEF Environment
  <2>3. CASE Reader
    BY <2>3, DepositsKeep, BeginKeeps, UnspentKeeps, ImmatureKeeps, PendingKeeps, EndKeeps DEF Reader
  <2> QED BY <2>1, <2>2, <2>3 DEF Next
<1> QED BY <1>1, <1>2, PTL DEF Spec

\* Balance counts no money twice, whatever blocks arrive between its readings.
THEOREM BalanceAddsUp == Spec => []BalanceCountsOnce
<1>1. IInv => BalanceCountsOnce
  BY DEF IInv
<1> QED BY <1>1, AccountingInvariant, PTL
-----------------------------------------------------------------------------
(***************************************************************************)
(* Deposits.  Events are counted from the newest, so blocks that arrive    *)
(* shift them; from the oldest they stay where they are.                   *)
(***************************************************************************)

Event == [tx : Txs, index : Chains]
Deposit == [id : DOMAIN Kind, index : Chains, creditable : {Creditable(t) : t \in Txs}]

\* The events of a chain, block by block and oldest first.
Rows(chain) ==
  [h \in 1..Len(chain) |->
    [i \in 1..Len(chain[h]) |-> [tx |-> chain[h][i], index |-> SubSeq(chain, 1, h)]]]

Oldest(chain) == FlattenSeq(Rows(chain))

\* The deposits of the events after position f and up to position o.
Feed(chain, f, o) == FlattenSeq([i \in 1..(o - f) |-> DepositsOf(Events(chain)[f + i])])

FeedTypes ==
  /\ limit \in Nat \ {0} /\ from \in Nat /\ offset \in Nat /\ deposits \in Seq(Deposit)
  /\ pc \in {"page", "check"} => from <= offset /\ (offset = from => deposits = <<>>)

\* A page being read: as long as the tip is where it was, so is the index, and what
\* has been collected is the feed up to the position; a page that is not full has
\* come to its end.  A tip that moved never comes back: it is longer.
PageInv ==
  pc \in {"page", "check"} =>
    /\ cs \in Chains /\ Len(cs) <= Len(tip)
    /\ Len(tip) = Len(cs) =>
         /\ tip = cs /\ scan = cs
         /\ offset = from \/ offset <= Len(Events(cs))
         /\ deposits = Feed(cs, from, offset)
         /\ pc = "check" /\ Len(deposits) < limit => offset >= Len(Events(cs))

\* A sweep without a reorganization: its first tip begins the tip, and of the events
\* it began with, those newer than the position have been met.
SweepInv ==
  pc \in {"idle", "page", "check"} /\ steady =>
    /\ start \in Chains /\ Begins(start, tip)
    /\ \A p \in 1..Len(Oldest(start)) :
         p + from > Len(Oldest(tip)) => Range(DepositsOf(Oldest(start)[p])) \subseteq seen

FInv == FeedTypes /\ PageInv /\ SweepInv /\ SweepComplete
-----------------------------------------------------------------------------
(* Events.                                                                 *)

\* The deposits of an event are a sequence of deposits.
LEMMA DepositsType ==
  ASSUME NEW e \in Event
  PROVE  DepositsOf(e) \in Seq(Deposit)
<1> DEFINE d(i) == [id |-> e.tx.outs[i], index |-> e.index, creditable |-> Creditable(e.tx)]
           seqs == [i \in 1..Len(e.tx.outs) |->
                      IF Kind[e.tx.outs[i]] # "deposit" THEN <<>> ELSE <<d(i)>>]
<1>1. e.tx \in Txs /\ e.index \in Chains /\ e.tx.outs \in Seq(DOMAIN Kind)
  BY TxsAssumption DEF Event
<1>2. \A i \in 1..Len(e.tx.outs) : d(i) \in Deposit
  BY <1>1 DEF Deposit
<1>3. \A i \in 1..Len(e.tx.outs) : <<d(i)>> \in Seq(Deposit)
  <2> SUFFICES ASSUME NEW i \in 1..Len(e.tx.outs) PROVE <<d(i)>> \in Seq(Deposit)
    OBVIOUS
  <2>1. PICK x \in Deposit : x = d(i)
    BY <1>2
  <2>2. <<x>> \in Seq(Deposit)
    OBVIOUS
  <2> QED BY <2>1, <2>2
<1>4. <<>> \in Seq(Deposit)
  OBVIOUS
<1>5. seqs \in [1..Len(e.tx.outs) -> Seq(Deposit)]
  <2> HIDE DEF d
  <2> QED BY <1>3, <1>4, Zenon
<1>6. Len(e.tx.outs) \in Nat
  BY <1>1
<1>7. seqs \in Seq(Seq(Deposit))
  <2> HIDE DEF seqs
  <2> QED BY <1>5, <1>6
<1>8. DepositsOf(e) = FlattenSeq(seqs)
  BY Zenon DEF DepositsOf
<1> HIDE DEF seqs
<1> QED BY <1>7, <1>8, FlattenType

\* The rows of a chain.
LEMMA RowsAre ==
  ASSUME NEW c \in Chains
  PROVE  /\ Rows(c) \in Seq(Seq(Event)) /\ Len(Rows(c)) = Len(c)
         /\ Oldest(c) \in Seq(Event) /\ Len(Oldest(c)) \in Nat
<1>1. Len(c) \in Nat /\ \A h \in 1..Len(c) : c[h] \in Seq(Txs) /\ Len(c[h]) \in Nat
  <2>1. \A h \in 1..Len(c) : c[h] \in Seq(Txs)
    BY DEF Chains
  <2>2. \A x \in Seq(Txs) : Len(x) \in Nat
    OBVIOUS
  <2>3. Len(c) \in Nat
    BY DEF Chains
  <2> QED BY <2>1, <2>2, <2>3
<1> DEFINE row(h) == [i \in 1..Len(c[h]) |-> [tx |-> c[h][i], index |-> SubSeq(c, 1, h)]]
<1>2. \A h \in 1..Len(c) : row(h) \in Seq(Event)
  <2> SUFFICES ASSUME NEW h \in 1..Len(c) PROVE row(h) \in Seq(Event)
    OBVIOUS
  <2>1. h \in 0..Len(c)
    BY <1>1
  <2>2. PICK x \in Chains : x = SubSeq(c, 1, h)
    BY <2>1, CutChain
  <2>3. \A i \in 1..Len(c[h]) : [tx |-> c[h][i], index |-> x] \in Event
    BY <1>1 DEF Event
  <2>4. [i \in 1..Len(c[h]) |-> [tx |-> c[h][i], index |-> x]] \in Seq(Event)
    BY <1>1, <2>3
  <2> QED BY <2>2, <2>4
<1>3. [h \in 1..Len(c) |-> row(h)] \in [1..Len(c) -> Seq(Event)]
  <2> HIDE DEF row
  <2> QED BY <1>2
<1>4. Rows(c) \in [1..Len(c) -> Seq(Event)]
  BY <1>3 DEF Rows
<1>5. Rows(c) \in Seq(Seq(Event)) /\ Len(Rows(c)) = Len(c)
  BY <1>1, <1>4
<1> QED BY <1>5, FlattenType DEF Oldest

\* What a chain begins with stays where it is.
LEMMA OldestBegins ==
  ASSUME NEW a \in Chains, NEW b \in Chains, Begins(a, b)
  PROVE  /\ Len(Oldest(a)) <= Len(Oldest(b))
         /\ \A p \in 1..Len(Oldest(a)) : Oldest(b)[p] = Oldest(a)[p]
<1>1. Len(a) \in Nat /\ Len(b) \in Nat /\ Len(a) <= Len(b)
  BY DEF Chains, Begins
<1>2. \A h \in 1..Len(a) : Rows(a)[h] = Rows(b)[h]
  <2> SUFFICES ASSUME NEW h \in 1..Len(a) PROVE Rows(a)[h] = Rows(b)[h]
    OBVIOUS
  <2>1. h \in 0..Len(a) /\ h \in 0..Len(b) /\ h \in 1..Len(b) /\ a[h] = b[h]
    BY <1>1 DEF Begins
  <2>2. PICK x \in Chains : x = SubSeq(a, 1, h) /\ Len(x) = h /\ \A k \in 1..h : x[k] = a[k]
    BY <2>1, CutChain
  <2>3. PICK y \in Chains : y = SubSeq(b, 1, h) /\ Len(y) = h /\ \A k \in 1..h : y[k] = b[k]
    BY <2>1, CutChain
  <2>4. Begins(x, y)
    BY <1>1, <2>2, <2>3 DEF Begins
  <2>5. x = y
    BY <2>2, <2>3, <2>4, BeginsOrder
  <2>6. SubSeq(a, 1, h) = SubSeq(b, 1, h)
    BY <2>2, <2>3, <2>5
  <2> QED BY <2>1, <2>6, Zenon DEF Rows
<1> QED BY <1>1, <1>2, RowsAre, FlattenBegins DEF Oldest

\* Events come newest first.
LEMMA EventsAre ==
  ASSUME NEW c \in Chains
  PROVE  /\ Events(c) \in Seq(Event) /\ Len(Events(c)) = Len(Oldest(c))
         /\ \A i \in 1..Len(Oldest(c)) : Events(c)[i] = Oldest(c)[(Len(Oldest(c)) - i) + 1]
<1>1. PICK x \in Seq(Event) : x = Oldest(c) /\ Len(x) \in Nat
  BY RowsAre
<1>2. Events(c) = Reverse(x)
  BY <1>1, Zenon DEF Events, Oldest, Rows
<1>3. Reverse(x) = [i \in 1..Len(x) |-> x[(Len(x) - i) + 1]]
  BY DEF Reverse
<1>4. \A i \in 1..Len(x) : (Len(x) - i) + 1 \in 1..Len(x) /\ x[(Len(x) - i) + 1] \in Event
  BY <1>1
<1>5. PICK y : y = Reverse(x)
  OBVIOUS
<1>6. y \in [1..Len(x) -> Event] /\ \A i \in 1..Len(x) : y[i] = x[(Len(x) - i) + 1]
  BY <1>3, <1>4, <1>5
<1>7. y \in Seq(Event) /\ Len(y) = Len(x)
  BY <1>1, <1>6
<1> QED BY <1>1, <1>2, <1>5, <1>6, <1>7
-----------------------------------------------------------------------------
(* The feed.                                                               *)

\* A function on the first numbers is a sequence.
LEMMA FunctionIsSeq ==
  ASSUME NEW S, NEW n \in Nat, NEW s \in [1..n -> S]
  PROVE  s \in Seq(S) /\ Len(s) = n
OBVIOUS

\* Nothing yet.
LEMMA FeedEmpty ==
  ASSUME NEW c, NEW f \in Nat
  PROVE  Feed(c, f, f) = <<>>
<1> DEFINE s == [i \in 1..(f - f) |-> DepositsOf(Events(c)[f + i])]
<1>1. 1..(f - f) = {}
  OBVIOUS
<1>2. s = <<>>
  <2>1. s = [i \in {} |-> DepositsOf(Events(c)[f + i])]
    BY <1>1
  <2> QED BY <2>1
<1>3. FlattenSeq(<<>>) = <<>>
  BY DEF FlattenSeq
<1> QED BY <1>2, <1>3 DEF Feed

\* The feed up to a position is the deposits of its events.
LEMMA FeedRows ==
  ASSUME NEW c \in Chains, NEW f \in Nat, NEW o \in Nat, f <= o, o = f \/ o <= Len(Events(c))
  PROVE  /\ [i \in 1..(o - f) |-> DepositsOf(Events(c)[f + i])] \in Seq(Seq(Deposit))
         /\ Len([i \in 1..(o - f) |-> DepositsOf(Events(c)[f + i])]) = o - f
         /\ Feed(c, f, o) \in Seq(Deposit)
<1>1. PICK v \in Seq(Event) : v = Events(c) /\ Len(v) \in Nat
  BY EventsAre
<1>2. o - f \in Nat
  OBVIOUS
<1>3. \A i \in 1..(o - f) : DepositsOf(v[f + i]) \in Seq(Deposit)
  <2> SUFFICES ASSUME NEW i \in 1..(o - f) PROVE DepositsOf(v[f + i]) \in Seq(Deposit)
    OBVIOUS
  <2>1. f + i \in 1..Len(v)
    BY <1>1
  <2>2. v[f + i] \in Event
    BY <2>1
  <2> QED BY <2>2, DepositsType
<1> DEFINE s == [i \in 1..(o - f) |-> DepositsOf(v[f + i])]
<1>4. s \in [1..(o - f) -> Seq(Deposit)]
  BY <1>3
<1>5. s = [i \in 1..(o - f) |-> DepositsOf(Events(c)[f + i])]
  BY <1>1
<1> HIDE DEF s
<1>6. s \in Seq(Seq(Deposit)) /\ Len(s) = o - f
  BY <1>2, <1>4, FunctionIsSeq, Zenon
<1>7. Feed(c, f, o) = FlattenSeq(s)
  BY <1>5 DEF Feed
<1> QED BY <1>5, <1>6, <1>7, FlattenType

\* One event more.
LEMMA FeedStep ==
  ASSUME NEW c \in Chains, NEW f \in Nat, NEW o \in Nat, f <= o, o + 1 <= Len(Events(c))
  PROVE  Feed(c, f, o + 1) = Feed(c, f, o) \o DepositsOf(Events(c)[o + 1])
<1> DEFINE D(i) == DepositsOf(Events(c)[f + i])
           a == [i \in 1..(o - f) |-> D(i)]
           b == [i \in 1..((o + 1) - f) |-> D(i)]
<1>0. o <= Len(Events(c)) /\ o + 1 \in Nat /\ f <= o + 1
  <2>1. Len(Events(c)) \in Nat
    BY EventsAre, RowsAre
  <2> QED BY <2>1
<1>1. a \in Seq(Seq(Deposit)) /\ Len(a) = o - f
  BY <1>0, FeedRows, Zenon
<1>2. b \in Seq(Seq(Deposit)) /\ Len(b) = (o + 1) - f
  BY <1>0, FeedRows, Zenon
<1>3. /\ \A i \in 1..(o - f) : i \in 1..((o + 1) - f)
      /\ (o + 1) - f \in 1..((o + 1) - f) /\ f + ((o + 1) - f) = o + 1
      /\ o - f < (o + 1) - f /\ (o + 1) - f <= (o - f) + 1
  OBVIOUS
<1>4. \A i \in 1..(o - f) : a[i] = b[i]
  <2> HIDE DEF D
  <2> QED BY <1>3
<1>5. b[(o + 1) - f] = DepositsOf(Events(c)[o + 1])
  <2>1. b[(o + 1) - f] = D((o + 1) - f)
    <3> HIDE DEF D
    <3> QED BY <1>3
  <2> QED BY <1>3, <2>1
<1>6. Feed(c, f, o) = FlattenSeq(a) /\ Feed(c, f, o + 1) = FlattenSeq(b)
  BY DEF Feed
<1> HIDE DEF a, b
<1>7. /\ Len(a) < Len(b) /\ Len(b) <= Len(a) + 1 /\ \A i \in 1..Len(a) : a[i] = b[i]
      /\ b[Len(b)] = DepositsOf(Events(c)[o + 1])
  BY <1>1, <1>2, <1>3, <1>4, <1>5
<1>8. FlattenSeq(b) = FlattenSeq(a) \o b[Len(b)]
  BY <1>1, <1>2, <1>7, FlattenStep
<1> QED BY <1>6, <1>7, <1>8

\* An event in the feed has its deposits there.
LEMMA FeedHas ==
  ASSUME NEW c \in Chains, NEW f \in Nat, NEW o \in Nat, f <= o, o = f \/ o <= Len(Events(c)),
         NEW j \in (f + 1)..o
  PROVE  Range(DepositsOf(Events(c)[j])) \subseteq Range(Feed(c, f, o))
<1> DEFINE D(i) == DepositsOf(Events(c)[f + i])
           s == [i \in 1..(o - f) |-> D(i)]
<1>1. s \in Seq(Seq(Deposit)) /\ Len(s) = o - f
  BY FeedRows
<1>2. j - f \in 1..(o - f) /\ f + (j - f) = j
  OBVIOUS
<1>3. s[j - f] = DepositsOf(Events(c)[j])
  <2>1. s[j - f] = D(j - f)
    <3> HIDE DEF D
    <3> QED BY <1>2
  <2> QED BY <1>2, <2>1
<1>4. Feed(c, f, o) = FlattenSeq(s)
  BY DEF Feed
<1> HIDE DEF s
<1>5. Range(s[j - f]) \subseteq Range(FlattenSeq(s))
  BY <1>1, <1>2, FlattenHas
<1> QED BY <1>3, <1>4, <1>5
-----------------------------------------------------------------------------
(* One page.                                                               *)

So == [deposits : Seq(Deposit), offset : Nat]

LEMMA TakeType ==
  ASSUME NEW so \in So, NEW e \in Event
  PROVE  TakeEvent(so, e) \in So
<1>1. PICK d \in Seq(Deposit) : d = DepositsOf(e)
  BY DepositsType
<1>2. so.deposits \in Seq(Deposit) /\ so.offset \in Nat
  BY DEF So
<1>3. so.deposits \o d \in Seq(Deposit) /\ so.offset + 1 \in Nat
  BY <1>1, <1>2
<1>4. [deposits |-> so.deposits \o d, offset |-> so.offset + 1] \in So
  BY <1>3 DEF So
<1> QED BY <1>1, <1>4 DEF TakeEvent

\* The loop over a page, turn by turn.
LEMMA TakeSteps ==
  ASSUME NEW so \in So, NEW page \in Seq(Event)
  PROVE  \E g \in [0..Len(page) -> So] :
           /\ g[0] = so /\ FoldLeft(TakeEvent, so, page) = g[Len(page)]
           /\ \A k \in 1..Len(page) : g[k] = TakeEvent(g[k - 1], page[k])
<1> DEFINE N == Len(page)
           F == [p \in So \X Event |-> TakeEvent(p[1], p[2])]
           Is(it) == it = [S \in SUBSET (DOMAIN page) |->
                             IF S = {} THEN so ELSE TakeEvent(it[S \ {Max(S)}], page[Max(S)])]
           it0 == CHOOSE it : Is(it)
<1>0. DOMAIN page = 1..N /\ N \in Nat
  OBVIOUS
<1>1. F \in [So \X Event -> So]
  BY TakeType
<1>2. \A x \in So, e \in Event : F[<<x, e>>] = TakeEvent(x, e)
  OBVIOUS
<1> HIDE DEF F
<1>3. PICK h \in [SUBSET (1..N) -> So] : FoldsBy(h, F, so, page, So, Event)
  BY <1>1, FoldIs
<1>4. Is(h)
  <2>1. \A S \in SUBSET (1..N) : h[S] = IF S = {} THEN so ELSE TakeEvent(h[S \ {Max(S)}], page[Max(S)])
    BY <1>2, <1>3, Zenon DEF FoldsBy
  <2>2. h = [S \in SUBSET (1..N) |-> h[S]]
    BY <1>3
  <2> HIDE DEF N
  <2> QED BY <1>0, <2>1, <2>2, Zenon
<1>5. Is(it0)
  <2> HIDE DEF Is
  <2> QED BY <1>4
<1>6. FoldLeft(TakeEvent, so, page) = it0[DOMAIN page]
  BY Zenon DEF FoldLeft, MapThenFoldSet
<1> HIDE DEF it0
<1>7. it0[{}] = so
  BY <1>5
<1>8. ASSUME NEW k \in 1..N PROVE it0[1..k] = TakeEvent(it0[1..(k - 1)], page[k])
  <2>1. /\ 1..k \in SUBSET (DOMAIN page) /\ 1..k # {} /\ Max(1..k) = k
        /\ (1..k) \ {k} = 1..(k - 1)
    BY <1>0, Positions
  <2> QED BY <1>5, <2>1, Zenon
<1> HIDE DEF Is
<1>9. \A k \in 1..N : it0[1..(k - 1)] \in So => it0[1..k] = F[<<it0[1..(k - 1)], page[k]>>]
  <2>1. \A k \in 1..N : page[k] \in Event
    OBVIOUS
  <2> QED BY <1>2, <1>8, <2>1, Zenon
<1>10. PICK g \in [0..N -> So] : StepsBy(g, F, so, page, it0[DOMAIN page])
  BY <1>1, <1>7, <1>9, FoldSteps
<1>11. \A k \in 1..N : g[k] = TakeEvent(g[k - 1], page[k])
  <2> SUFFICES ASSUME NEW k \in 1..N PROVE g[k] = TakeEvent(g[k - 1], page[k])
    OBVIOUS
  <2>1. page[k] \in Event /\ k - 1 \in 0..N
    BY <1>0
  <2>2. g[k - 1] \in So
    BY <1>10, <2>1, Zenon
  <2> QED BY <1>2, <1>10, <2>1, <2>2, Zenon DEF StepsBy
<1> QED BY <1>6, <1>10, <1>11, Zenon DEF StepsBy

\* What a page adds: the position goes on by whole events, and all of them are
\* taken unless the limit is met.
LEMMA PageTaken ==
  ASSUME NEW so \in So, NEW page \in Seq(Event), limit \in Nat
  PROVE  LET after == FoldLeft(TakeEvent, so, page) IN
         /\ after \in So /\ so.offset <= after.offset /\ after.offset <= so.offset + Len(page)
         /\ after.offset = so.offset => after.deposits = so.deposits
         /\ Len(after.deposits) < limit => after.offset = so.offset + Len(page)
         /\ \A c \in Chains, f \in Nat :
              /\ f <= so.offset /\ so.deposits = Feed(c, f, so.offset)
              /\ so.offset + Len(page) <= Len(Events(c)) \/ Len(page) = 0
              /\ \A k \in 1..Len(page) : page[k] = Events(c)[so.offset + k]
              => after.deposits = Feed(c, f, after.offset)
<1>1. PICK g \in [0..Len(page) -> So] :
           /\ g[0] = so /\ FoldLeft(TakeEvent, so, page) = g[Len(page)]
           /\ \A k \in 1..Len(page) : g[k] = TakeEvent(g[k - 1], page[k])
  BY TakeSteps
<1> DEFINE Runs(c, f) ==
             /\ f <= so.offset /\ so.deposits = Feed(c, f, so.offset)
             /\ so.offset + Len(page) <= Len(Events(c)) \/ Len(page) = 0
             /\ \A k \in 1..Len(page) : page[k] = Events(c)[so.offset + k]
           Fed(x) == \A c \in Chains, f \in Nat : Runs(c, f) => x.deposits = Feed(c, f, x.offset)
           P(k) == /\ so.offset <= g[k].offset /\ g[k].offset <= so.offset + k
                   /\ g[k].offset = so.offset => g[k].deposits = so.deposits
                   /\ Len(g[k].deposits) < limit => g[k].offset = so.offset + k
                   /\ Fed(g[k])
           T == {k \in Nat : k <= Len(page) => P(k)}
<1>0. /\ Len(page) \in Nat /\ so.offset \in Nat
      /\ \A k \in 0..Len(page) : g[k] \in So /\ g[k].offset \in Nat /\ g[k].deposits \in Seq(Deposit)
                                  /\ Len(g[k].deposits) \in Nat
  <2>1. \A x \in So : x.offset \in Nat /\ x.deposits \in Seq(Deposit)
    BY DEF So
  <2>2. \A x \in Seq(Deposit) : Len(x) \in Nat
    OBVIOUS
  <2>3. Len(page) \in Nat
    OBVIOUS
  <2> QED BY <1>1, <2>1, <2>2, <2>3
<1>2. 0 \in T
  <2>1. P(0)
    BY <1>0, <1>1
  <2> HIDE DEF P
  <2> QED BY <2>1
<1>3. ASSUME NEW n \in Nat, n \in T PROVE n + 1 \in T
  <2> SUFFICES ASSUME n + 1 <= Len(page) PROVE P(n + 1)
    <3> HIDE DEF P
    <3> QED OBVIOUS
  <2>1. P(n) /\ n + 1 \in 1..Len(page) /\ n \in 0..Len(page) /\ n + 1 \in 0..Len(page) /\ (n + 1) - 1 = n
    <3> HIDE DEF P
    <3> QED BY <1>0, <1>3
  <2>2. g[n + 1] = TakeEvent(g[n], page[n + 1])
    BY <1>1, <2>1
  <2>3. CASE Len(g[n].deposits) >= limit
    <3>1. g[n + 1] = g[n]
      BY <2>2, <2>3 DEF TakeEvent
    <3>2. ~(Len(g[n].deposits) < limit)
      BY <1>0, <2>1, <2>3
    <3>3. Fed(g[n + 1])
      <4> HIDE DEF Fed
      <4> QED BY <2>1, <3>1
    <3> HIDE DEF Fed
    <3> QED BY <1>0, <2>1, <3>1, <3>2, <3>3
  <2>4. CASE ~(Len(g[n].deposits) >= limit)
    <3>1. g[n].offset = so.offset + n
      <4> HIDE DEF Fed
      <4> QED BY <1>0, <2>1, <2>4
    <3>2. PICK x, y, z : /\ y = g[n].deposits \o DepositsOf(page[n + 1]) /\ z = g[n].offset + 1
                         /\ x = g[n + 1] /\ x = [deposits |-> y, offset |-> z]
      <4>1. g[n + 1] = [deposits |-> g[n].deposits \o DepositsOf(page[n + 1]), offset |-> g[n].offset + 1]
        BY <2>2, <2>4 DEF TakeEvent
      <4> QED BY <4>1, Zenon
    <3>7. x.deposits = y /\ x.offset = z
      <4>1. x = [deposits |-> y, offset |-> z]
        BY <3>2
      <4> QED BY <4>1
    <3>3. g[n + 1].deposits = g[n].deposits \o DepositsOf(page[n + 1])
      BY <3>2, <3>7, Zenon
    <3>5. g[n + 1].offset = so.offset + (n + 1)
      <4>1. g[n + 1].offset = z
        BY <3>2, <3>7, Zenon
      <4>2. (so.offset + n) + 1 = so.offset + (n + 1)
        <5>1. so.offset \in Nat
          BY <1>0
        <5> QED BY <5>1
      <4> QED BY <3>1, <3>2, <4>1, <4>2, Zenon
    <3>6. /\ so.offset <= so.offset + (n + 1) /\ so.offset + (n + 1) <= so.offset + (n + 1)
          /\ so.offset + (n + 1) # so.offset
      BY <1>0
    <3>4. Fed(g[n + 1])
      <4> SUFFICES ASSUME NEW c \in Chains, NEW f \in Nat, Runs(c, f)
                   PROVE  g[n + 1].deposits = Feed(c, f, g[n + 1].offset)
        OBVIOUS
      <4>1. g[n].deposits = Feed(c, f, so.offset + n)
        BY <2>1, <3>1
      <4>2. page[n + 1] = Events(c)[so.offset + (n + 1)]
        BY <2>1
      <4>3. Len(Events(c)) \in Nat
        BY EventsAre, RowsAre
      <4>4. f <= so.offset + n /\ (so.offset + n) + 1 <= Len(Events(c))
            /\ so.offset + (n + 1) = (so.offset + n) + 1 /\ so.offset + n \in Nat
        <5>1. f <= so.offset /\ (so.offset + Len(page) <= Len(Events(c)) \/ Len(page) = 0)
          BY Zenon
        <5>2. Len(page) \in Nat /\ so.offset \in Nat
          BY <1>0
        <5>3. n \in Nat /\ n + 1 <= Len(page)
          OBVIOUS
        <5>4. PICK a, b, e \in Nat : a = so.offset /\ b = Len(page) /\ e = Len(Events(c))
          BY <4>3, <5>2, Zenon
        <5>5. n + 1 <= b /\ f <= a /\ (a + b <= e \/ b = 0)
          BY <5>1, <5>3, <5>4, Zenon
        <5>6. f <= a + n /\ (a + n) + 1 <= e /\ a + (n + 1) = (a + n) + 1 /\ a + n \in Nat
          <6> HIDE DEF Runs, Fed, P, T
          <6> QED BY <5>5
        <5> QED BY <5>4, <5>6, Zenon
      <4>5. Feed(c, f, (so.offset + n) + 1) = Feed(c, f, so.offset + n) \o DepositsOf(Events(c)[(so.offset + n) + 1])
        BY <4>4, FeedStep
      <4> HIDE DEF Runs
      <4> QED BY <3>3, <3>5, <4>1, <4>2, <4>4, <4>5
    <3> HIDE DEF Fed
    <3> QED BY <3>4, <3>5, <3>6
  <2> QED BY <2>3, <2>4
<1>4. Len(page) \in T
  <2> HIDE DEF T
  <2> QED BY <1>0, <1>2, <1>3, Inductive
<1>5. P(Len(page))
  <2> HIDE DEF P
  <2> QED BY <1>0, <1>4
<1>6. PICK x \in So : x = g[Len(page)] /\ x = FoldLeft(TakeEvent, so, page)
  BY <1>0, <1>1
<1>7. /\ so.offset <= x.offset /\ x.offset <= so.offset + Len(page)
      /\ x.offset = so.offset => x.deposits = so.deposits
      /\ Len(x.deposits) < limit => x.offset = so.offset + Len(page)
      /\ Fed(x)
  <2> HIDE DEF Fed
  <2> QED BY <1>5, <1>6
<1> QED BY <1>6, <1>7, Zenon

\* The page that is read at a position.
LEMMA PageIs ==
  ASSUME NEW all \in Seq(Event), NEW o \in Nat, NEW n \in Nat \ {0}
  PROVE  LET page == SubSeq(all, o + 1, Least(o + n, Len(all))) IN
         /\ page \in Seq(Event) /\ Len(page) \in Nat
         /\ Len(page) = 0 \/ o + Len(page) <= Len(all)
         /\ \A k \in 1..Len(page) : page[k] = all[o + k]
         /\ Len(page) < n => o + Len(page) >= Len(all)
<1>1. Len(all) \in Nat
  OBVIOUS
<1>2. PICK m \in Nat : /\ m = Least(o + n, Len(all)) /\ m <= Len(all) /\ m <= o + n
                       /\ m = Len(all) \/ m = o + n
  BY <1>1 DEF Least
<1>3. PICK page : page = SubSeq(all, o + 1, m)
  OBVIOUS
<1>4. CASE m <= o
  <2>1. page = <<>>
    BY <1>2, <1>3, <1>4, SubSeqEmpty
  <2>2. page \in Seq(Event) /\ Len(page) = 0 /\ Len(all) <= o /\ 1..0 = {}
    BY <1>1, <1>2, <1>4, <2>1
  <2> QED BY <1>1, <1>2, <1>3, <2>2
<1>5. CASE o < m
  <2>1. page \in Seq(Event) /\ Len(page) = m - o /\ \A k \in 1..(m - o) : page[k] = all[o + k]
    <3>1. \A i \in (o + 1)..m : i \in 1..Len(all) /\ all[i] \in Event
      BY <1>1, <1>2
    <3>2. /\ page \in Seq(Event) /\ Len(page) = (m - (o + 1)) + 1
          /\ \A k \in 1..((m - (o + 1)) + 1) : page[k] = all[((o + 1) + k) - 1]
      BY <1>1, <1>2, <1>3, <1>5, <3>1, SubSeqProperties
    <3>3. (m - (o + 1)) + 1 = m - o /\ \A k \in 1..(m - o) : ((o + 1) + k) - 1 = o + k
      BY <1>2
    <3> QED BY <3>2, <3>3
  <2>2. m - o \in Nat /\ o + (m - o) <= Len(all) /\ (m - o < n => o + (m - o) >= Len(all))
    BY <1>1, <1>2, <1>5
  <2> QED BY <1>2, <1>3, <2>1, <2>2
<1> QED BY <1>4, <1>5
-----------------------------------------------------------------------------
(* The feed while the chain moves.                                         *)

LEMMA PoolAddFeeds ==
  ASSUME FInv, NEW t \in Txs, PoolAdd(t)
  PROVE  FInv'
<1>1. /\ UNCHANGED <<tip, scan, pc, cs, limit, from, offset, deposits, start, seen>>
      /\ steady' => steady
  BY DEF PoolAdd, depositVars
<1> QED BY <1>1 DEF FInv, FeedTypes, PageInv, SweepInv, SweepComplete

\* A block that arrives ends the page, and shifts what the sweep has met forward.
LEMMA SelectFeeds ==
  ASSUME IInv, FInv, NEW depth \in Nat, SelectChain(depth)
  PROVE  FInv'
<1>1. /\ UNCHANGED <<scan, pc, cs, limit, from, offset, deposits, start, seen>>
      /\ steady' = (steady /\ depth = 0)
  BY DEF SelectChain, depositVars
<1>2. tip \in Chains /\ Len(tip) \in Nat
  BY DEF IInv, ChainInv, Chains
<1>3. tip' \in Chains /\ Len(tip') = Len(tip) + 1 /\ (depth = 0 => Begins(tip, tip'))
  BY <1>2, SelectsBlocks
<1>4. FeedTypes' /\ SweepComplete'
  BY <1>1 DEF FInv, FeedTypes, SweepComplete
<1>5. PageInv'
  <2> SUFFICES ASSUME pc \in {"page", "check"}
               PROVE  cs \in Chains /\ Len(cs) <= Len(tip') /\ Len(tip') # Len(cs)
    BY <1>1 DEF PageInv
  <2>1. cs \in Chains /\ Len(cs) <= Len(tip)
    BY DEF FInv, PageInv
  <2>2. Len(cs) \in Nat
    BY <2>1 DEF Chains
  <2> QED BY <1>2, <1>3, <2>1, <2>2
<1>6. SweepInv'
  <2> SUFFICES ASSUME pc \in {"idle", "page", "check"}, steady, depth = 0
               PROVE  /\ start \in Chains /\ Begins(start, tip')
                      /\ \A p \in 1..Len(Oldest(start)) :
                           p + from > Len(Oldest(tip')) => Range(DepositsOf(Oldest(start)[p])) \subseteq seen
    BY <1>1 DEF SweepInv
  <2>1. /\ start \in Chains /\ Begins(start, tip)
        /\ \A p \in 1..Len(Oldest(start)) :
             p + from > Len(Oldest(tip)) => Range(DepositsOf(Oldest(start)[p])) \subseteq seen
    BY DEF FInv, SweepInv
  <2>2. Begins(start, tip')
    BY <1>2, <1>3, <2>1, BeginsOrder
  <2>3. /\ Len(Oldest(tip)) <= Len(Oldest(tip')) /\ Len(Oldest(tip)) \in Nat
        /\ Len(Oldest(tip')) \in Nat /\ Len(Oldest(start)) \in Nat /\ from \in Nat
    BY <1>2, <1>3, <2>1, OldestBegins, RowsAre DEF FInv, FeedTypes
  <2>4. \A p \in 1..Len(Oldest(start)) : p + from > Len(Oldest(tip')) => p + from > Len(Oldest(tip))
    BY <2>3
  <2> QED BY <2>1, <2>2, <2>4
<1> QED BY <1>4, <1>5, <1>6 DEF FInv

\* The index is at the tip while the page may still be answered.
LEMMA IndexFeeds ==
  ASSUME FInv, IndexMoves
  PROVE  FInv'
<1>1. /\ UNCHANGED <<tip, pc, cs, limit, from, offset, deposits, start, seen, steady>>
      /\ scan # tip
  BY DEF IndexMoves, depositVars
<1> QED BY <1>1 DEF FInv, FeedTypes, PageInv, SweepInv, SweepComplete
-----------------------------------------------------------------------------
(* The calls of the feed.                                                  *)

\* A sweep begins with nothing met and nothing passed.
LEMMA StartFeeds ==
  ASSUME IInv, FInv, NEW l \in Limits, StartSweep(l)
  PROVE  FInv'
<1>1. /\ pc' = "idle" /\ limit' = l /\ from' = 0 /\ offset' = 0 /\ start' = tip /\ tip' = tip
      /\ deposits' = deposits
  BY DEF StartSweep, chainVars
<1>2. tip \in Chains /\ Begins(tip, tip) /\ Len(Oldest(tip)) \in Nat
  <2>1. tip \in Chains /\ Len(tip) \in Nat
    BY DEF IInv, ChainInv, Chains
  <2> QED BY <2>1, RowsAre DEF Begins
<1>3. \A p \in 1..Len(Oldest(tip)) : ~(p + 0 > Len(Oldest(tip)))
  BY <1>2
<1>4. FeedTypes'
  BY <1>1, PageAssumption DEF FInv, FeedTypes
<1>5. SweepInv'
  BY <1>1, <1>2, <1>3 DEF SweepInv
<1> QED BY <1>1, <1>4, <1>5 DEF FInv, PageInv, SweepComplete

\* A page begins at a tip that the index has reached.
LEMMA BeginFeeds ==
  ASSUME IInv, FInv, BeginDeposits
  PROVE  FInv'
<1>1. /\ pc = "idle" /\ scan = tip /\ pc' = "page" /\ cs' = tip /\ deposits' = <<>> /\ offset' = from
      /\ UNCHANGED <<tip, scan, limit, from, start, seen, steady>>
  BY DEF BeginDeposits, chainVars
<1>2. tip \in Chains /\ Len(tip) \in Nat /\ from \in Nat
  BY DEF IInv, FInv, ChainInv, Chains, FeedTypes
<1>3. Feed(tip, from, from) = <<>>
  BY <1>2, FeedEmpty
<1>4. FeedTypes'
  BY <1>1, <1>2 DEF FInv, FeedTypes
<1>5. PageInv'
  BY <1>1, <1>2, <1>3 DEF PageInv
<1>6. SweepInv' /\ SweepComplete'
  BY <1>1 DEF FInv, SweepInv, SweepComplete
<1> QED BY <1>4, <1>5, <1>6 DEF FInv

\* A page adds the deposits of its events, whole events at a time.
LEMMA ReadFeeds ==
  ASSUME IInv, FInv, ReadPage
  PROVE  FInv'
<1> DEFINE n == Least(PageSize, 2 * limit)
           page == SubSeq(Events(scan), offset + 1, Least(offset + n, Len(Events(scan))))
           so == [deposits |-> deposits, offset |-> offset]
           after == FoldLeft(TakeEvent, so, page)
<1>1. /\ pc = "page" /\ deposits' = after.deposits /\ offset' = after.offset
      /\ pc' = IF Len(page) < n \/ Len(after.deposits) >= limit THEN "check" ELSE "page"
      /\ UNCHANGED <<tip, scan, cs, limit, from, start, seen, steady>>
  BY DEF ReadPage, chainVars
<1>2. /\ limit \in Nat \ {0} /\ from \in Nat /\ offset \in Nat /\ deposits \in Seq(Deposit)
      /\ from <= offset /\ (offset = from => deposits = <<>>)
  BY <1>1 DEF FInv, FeedTypes
<1>3. n \in Nat \ {0}
  BY <1>2, PageAssumption DEF Least
<1>4. scan \in Chains /\ Events(scan) \in Seq(Event) /\ Len(Events(scan)) \in Nat
  BY EventsAre, RowsAre DEF IInv, ChainInv
<1>5. so \in So /\ so.deposits = deposits /\ so.offset = offset
  BY <1>2 DEF So
<1> HIDE DEF n
<1>6. PICK g \in Seq(Event) :
        /\ g = page /\ Len(g) \in Nat
        /\ Len(g) = 0 \/ offset + Len(g) <= Len(Events(scan))
        /\ \A k \in 1..Len(g) : g[k] = Events(scan)[offset + k]
        /\ Len(g) < n => offset + Len(g) >= Len(Events(scan))
  BY <1>2, <1>3, <1>4, PageIs
<1> HIDE DEF page
<1>7. PICK s \in So : s = so /\ s.deposits = deposits /\ s.offset = offset
  BY <1>5
<1> HIDE DEF so
<1>8. PICK x \in So :
        /\ x = after /\ offset <= x.offset /\ x.offset <= offset + Len(g)
        /\ x.offset = offset => x.deposits = deposits
        /\ Len(x.deposits) < limit => x.offset = offset + Len(g)
        /\ \A c \in Chains, f \in Nat :
             /\ f <= offset /\ deposits = Feed(c, f, offset)
             /\ offset + Len(g) <= Len(Events(c)) \/ Len(g) = 0
             /\ \A k \in 1..Len(g) : g[k] = Events(c)[offset + k]
             => x.deposits = Feed(c, f, x.offset)
  <2>1. limit \in Nat
    BY <1>2
  <2>2. after = FoldLeft(TakeEvent, s, g)
    BY <1>6, <1>7
  <2> HIDE DEF after
  <2> QED BY <1>6, <1>7, <2>1, <2>2, PageTaken
<1> HIDE DEF after
<1>9. x.offset \in Nat /\ x.deposits \in Seq(Deposit) /\ Len(x.deposits) \in Nat
  <2>1. x.offset \in Nat /\ x.deposits \in Seq(Deposit)
    BY DEF So
  <2> QED BY <2>1
<1>10. /\ deposits' = x.deposits /\ offset' = x.offset
       /\ pc' = IF Len(g) < n \/ Len(x.deposits) >= limit THEN "check" ELSE "page"
  BY <1>1, <1>6, <1>8
<1>11. FeedTypes'
  <2>1. from <= x.offset /\ (x.offset = from => x.deposits = <<>>)
    BY <1>2, <1>8, <1>9
  <2> QED BY <1>1, <1>2, <1>9, <1>10, <2>1 DEF FeedTypes
<1>12. PageInv'
  <2>1. cs \in Chains /\ Len(cs) <= Len(tip)
    BY <1>1 DEF FInv, PageInv
  <2>2. ASSUME Len(tip) = Len(cs)
        PROVE  /\ tip = cs /\ scan = cs
               /\ x.offset = from \/ x.offset <= Len(Events(cs))
               /\ x.deposits = Feed(cs, from, x.offset)
               /\ Len(g) < n \/ Len(x.deposits) >= limit
                  => (Len(x.deposits) < limit => x.offset >= Len(Events(cs)))
    <3>1. /\ tip = cs /\ scan = cs
          /\ offset = from \/ offset <= Len(Events(cs))
          /\ deposits = Feed(cs, from, offset)
      BY <1>1, <2>2 DEF FInv, PageInv
    <3>2. x.deposits = Feed(cs, from, x.offset)
      BY <1>2, <1>6, <1>8, <2>1, <3>1
    <3>3. x.offset = from \/ x.offset <= Len(Events(cs))
      BY <1>2, <1>4, <1>6, <1>8, <1>9, <3>1
    <3>4. ASSUME Len(g) < n \/ Len(x.deposits) >= limit, Len(x.deposits) < limit
          PROVE  x.offset >= Len(Events(cs))
      <4>1. Len(g) < n
        BY <1>2, <1>9, <3>4
      <4> QED BY <1>6, <1>8, <3>1, <3>4, <4>1
    <3> QED BY <3>1, <3>2, <3>3, <3>4
  <2>3. pc' = "check" => Len(g) < n \/ Len(x.deposits) >= limit
    BY <1>10
  <2> QED BY <1>1, <1>10, <2>1, <2>2, <2>3 DEF PageInv
<1>13. SweepInv' /\ SweepComplete'
  BY <1>1, <1>10 DEF FInv, SweepInv, SweepComplete
<1> QED BY <1>11, <1>12, <1>13 DEF FInv

\* A refusal keeps the position.
LEMMA RefuseFeeds ==
  ASSUME FInv, RefuseDeposits
  PROVE  FInv'
<1>1. /\ pc = "check" /\ pc' = "idle" /\ deposits' = <<>> /\ offset' = from
      /\ UNCHANGED <<tip, scan, cs, limit, from, start, seen, steady>>
  BY DEF RefuseDeposits, chainVars
<1>2. FeedTypes'
  BY <1>1 DEF FInv, FeedTypes
<1>3. SweepInv'
  BY <1>1 DEF FInv, SweepInv
<1> QED BY <1>1, <1>2, <1>3 DEF FInv, PageInv, SweepComplete

\* An answer: every event the sweep began with that is newer than the next
\* position has been met, whatever blocks have shifted it since.
LEMMA AnswerFeeds ==
  ASSUME IInv, FInv, AnswerDeposits
  PROVE  FInv'
<1>1. /\ pc = "check" /\ tip = cs /\ from' = offset /\ seen' = seen \cup Range(deposits)
      /\ pc' = IF Len(deposits) < limit THEN "swept" ELSE "idle"
      /\ UNCHANGED <<tip, scan, cs, limit, offset, deposits, start, steady>>
  BY DEF AnswerDeposits, Answer, chainVars
<1>2. /\ limit \in Nat \ {0} /\ from \in Nat /\ offset \in Nat /\ deposits \in Seq(Deposit)
      /\ from <= offset
  BY <1>1 DEF FInv, FeedTypes
<1>3. /\ offset = from \/ offset <= Len(Events(tip))
      /\ deposits = Feed(tip, from, offset)
      /\ Len(deposits) < limit => offset >= Len(Events(tip))
  BY <1>1 DEF FInv, PageInv
<1>4. /\ tip \in Chains /\ Len(Events(tip)) = Len(Oldest(tip)) /\ Len(Oldest(tip)) \in Nat
      /\ \A i \in 1..Len(Oldest(tip)) : Events(tip)[i] = Oldest(tip)[(Len(Oldest(tip)) - i) + 1]
  <2>1. tip \in Chains
    BY DEF IInv, ChainInv
  <2> QED BY <2>1, EventsAre, RowsAre
<1>5. FeedTypes'
  BY <1>1, <1>2 DEF FeedTypes
<1>6. ASSUME steady
      PROVE  /\ start \in Chains /\ Begins(start, tip)
             /\ \A p \in 1..Len(Oldest(start)) :
                  p + offset > Len(Oldest(tip)) => Range(DepositsOf(Oldest(start)[p])) \subseteq seen'
  <2>1. /\ start \in Chains /\ Begins(start, tip)
        /\ \A p \in 1..Len(Oldest(start)) :
             p + from > Len(Oldest(tip)) => Range(DepositsOf(Oldest(start)[p])) \subseteq seen
    BY <1>1, <1>6 DEF FInv, SweepInv
  <2>2. /\ Len(Oldest(start)) \in Nat /\ Len(Oldest(start)) <= Len(Oldest(tip))
        /\ \A p \in 1..Len(Oldest(start)) : Oldest(tip)[p] = Oldest(start)[p]
    BY <1>4, <2>1, OldestBegins, RowsAre
  <2>3. ASSUME NEW p \in 1..Len(Oldest(start)), p + offset > Len(Oldest(tip)), ~(p + from > Len(Oldest(tip)))
        PROVE  Range(DepositsOf(Oldest(start)[p])) \subseteq Range(deposits)
    <3>1. PICK j \in (from + 1)..offset : j = (Len(Oldest(tip)) - p) + 1
      <4>1. PICK m \in Nat : m = Len(Oldest(tip))
        BY <1>4
      <4>2. p \in Nat /\ p + offset > m /\ ~(p + from > m) /\ p <= m
        BY <2>2, <2>3, <4>1
      <4>3. (m - p) + 1 \in (from + 1)..offset
        BY <1>2, <4>2
      <4> QED BY <4>1, <4>3
    <3>2. j \in 1..Len(Oldest(tip)) /\ (Len(Oldest(tip)) - j) + 1 = p
      BY <1>2, <1>4, <2>2, <3>1
    <3>3. Events(tip)[j] = Oldest(start)[p]
      BY <1>4, <2>2, <3>2
    <3>4. Range(DepositsOf(Events(tip)[j])) \subseteq Range(Feed(tip, from, offset))
      BY <1>2, <1>3, <1>4, FeedHas
    <3> QED BY <1>3, <3>3, <3>4
  <2> QED BY <1>1, <2>1, <2>3
<1>7. SweepInv'
  BY <1>1, <1>6 DEF SweepInv
<1>8. SweepComplete'
  <2> SUFFICES ASSUME Len(deposits) < limit, steady PROVE AllDeposits(start) \subseteq seen'
    BY <1>1 DEF SweepComplete
  <2>1. start \in Chains /\ Len(Oldest(start)) \in Nat
    BY <1>6, RowsAre
  <2>2. \A p \in 1..Len(Oldest(start)) : p + offset > Len(Oldest(tip))
    BY <1>2, <1>3, <1>4, <2>1
  <2>3. \A p \in 1..Len(Oldest(start)) : Range(DepositsOf(Oldest(start)[p])) \subseteq seen'
    BY <1>6, <2>2
  <2>4. \A e \in Range(Events(start)) : Range(DepositsOf(e)) \subseteq seen'
    <3> SUFFICES ASSUME NEW e \in Range(Events(start)) PROVE Range(DepositsOf(e)) \subseteq seen'
      OBVIOUS
    <3>1. PICK v \in Seq(Event) : v = Events(start) /\ Len(v) = Len(Oldest(start))
      BY <2>1, EventsAre
    <3>2. PICK i \in 1..Len(v) : e = v[i]
      BY <3>1 DEF Range
    <3>3. PICK p \in 1..Len(Oldest(start)) : p = (Len(Oldest(start)) - i) + 1
      <4>1. PICK m \in Nat : m = Len(Oldest(start))
        BY <2>1
      <4>2. i \in 1..m
        BY <3>1, <4>1
      <4>3. (m - i) + 1 \in 1..m
        BY <4>2
      <4> QED BY <4>1, <4>3
    <3>4. e = Oldest(start)[p]
      BY <2>1, <3>1, <3>2, <3>3, EventsAre
    <3> QED BY <2>3, <3>4
  <2> QED BY <2>4 DEF AllDeposits
<1> QED BY <1>1, <1>5, <1>7, <1>8 DEF FInv, PageInv

\* What is not a sweep leaves it alone.
LEMMA OthersFeed ==
  ASSUME FInv,
         \/ EndSweep \/ BeginBalance \/ ReadUnspent \/ ReadImmature
         \/ RefuseBalance \/ ReadPending \/ EndBalance
  PROVE  FInv'
<1>1. CASE EndSweep
  <2>1. pc' = "rest" /\ limit' = limit /\ from' = 0 /\ offset' = 0 /\ deposits' = <<>>
    BY <1>1 DEF EndSweep
  <2> QED BY <2>1 DEF FInv, FeedTypes, PageInv, SweepInv, SweepComplete
<1>2. CASE ~EndSweep
  <2>1. UNCHANGED <<limit, from, offset, deposits>> /\ pc' \notin {"idle", "page", "check", "swept"}
    BY <1>2 DEF BeginBalance, ReadUnspent, ReadImmature, RefuseBalance, ReadPending, EndBalance,
                depositVars
  <2> QED BY <2>1 DEF FInv, FeedTypes, PageInv, SweepInv, SweepComplete
<1> QED BY <1>1, <1>2

\* A step of the specification keeps both invariants.
LEMMA FeedKeeps ==
  ASSUME IInv, FInv, [Next]_vars
  PROVE  FInv'
<1>1. CASE UNCHANGED vars
  BY <1>1 DEF vars, chainVars, depositVars, FInv, FeedTypes, PageInv, SweepInv, SweepComplete
<1>2. CASE Environment
  <2>1. \A depth \in 0..MaxDepth : depth \in Nat
    OBVIOUS
  <2> QED BY <1>2, <2>1, PoolAddFeeds, SelectFeeds, IndexFeeds DEF Environment
<1>3. CASE Reader
  BY <1>3, StartFeeds, BeginFeeds, ReadFeeds, RefuseFeeds, AnswerFeeds, OthersFeed DEF Reader
<1> QED BY <1>1, <1>2, <1>3 DEF Next

\* Pages and sweeps are as their invariant says, for every chain and limit.
THEOREM FeedInvariant == Spec => []FInv
<1>1. Init => FInv
  <2> SUFFICES ASSUME Init PROVE FInv
    OBVIOUS
  <2>1. <<>> \in Seq(Deposit)
    OBVIOUS
  <2>2. limit \in Nat \ {0} /\ from = 0 /\ offset = 0 /\ deposits \in Seq(Deposit) /\ pc = "rest"
    BY <2>1, PageAssumption DEF Init
  <2> QED BY <2>2 DEF FInv, FeedTypes, PageInv, SweepInv, SweepComplete
<1>2. IInv /\ FInv /\ [Next]_vars => FInv'
  BY FeedKeeps
<1> QED BY <1>1, <1>2, AccountingInvariant, PTL DEF Spec

\* A sweep misses no deposit that was confirmed when it began, for every limit and
\* whatever blocks shift the offsets between its pages: Deposits counts events from
\* the newest, so a position only moves towards what has been met.
THEOREM SweepsMissNothing == Spec => []SweepComplete
<1>1. FInv => SweepComplete
  BY DEF FInv
<1> QED BY <1>1, FeedInvariant, PTL

\* An answer of Deposits is the feed of one chain, from its offset to nextOffset: the
\* second comparison of the tip alone makes sure that no page was read elsewhere.
THEOREM PagesAreOneChain == Spec => PageIsOneChain
<1> DEFINE One == pc = "check" /\ pc' # "check" /\ from' = offset =>
                    deposits = FlattenSeq([i \in 1..(offset - from) |-> DepositsOf(Events(tip)[from + i])])
<1>1. FInv /\ [Next]_vars => [One]_vars
  <2> SUFFICES ASSUME FInv, Next, pc = "check", pc' # "check", from' = offset
               PROVE  deposits = Feed(tip, from, offset)
    BY DEF Feed
  <2>1. CASE AnswerDeposits
    BY <2>1 DEF AnswerDeposits, FInv, PageInv
  <2>2. CASE RefuseDeposits
    <3>1. from' = from
      BY <2>2 DEF RefuseDeposits
    <3>2. from = offset /\ deposits = <<>> /\ from \in Nat
      BY <3>1 DEF FInv, FeedTypes
    <3> QED BY <3>2, FeedEmpty
  <2>3. AnswerDeposits \/ RefuseDeposits
    BY DEF Next, Environment, Reader, PoolAdd, SelectChain, IndexMoves, StartSweep, BeginDeposits, ReadPage,
           EndSweep, BeginBalance, ReadUnspent, ReadImmature, RefuseBalance, ReadPending, EndBalance
  <2> QED BY <2>1, <2>2, <2>3
<1>2. PageIsOneChain <=> [][One]_vars
  BY DEF PageIsOneChain
<1> QED BY <1>1, <1>2, FeedInvariant, PTL DEF Spec
-----------------------------------------------------------------------------
(* SwapView: the map of observed outputs.                                  *)

Settled  == {"claimed", "refunded", "spent"}
Statuses == {"funding", "funded", "claiming", "refunding", "spending"} \cup Settled
Entry    == [confirmed : BOOLEAN, spent : BOOLEAN, status : Statuses, secret : BOOLEAN]
Maps     == {m \in UNION {[D -> Entry] : D \in SUBSET Outputs} : IsFiniteSet(DOMAIN m)}

\* What a spend, and a funding, say of their output.
SpendEntry(e, t, c) ==
  /\ e.spent = TRUE /\ e.secret = (t.kind = "claim")
  /\ e.status = IF c THEN Spent[t.kind] ELSE Spending[t.kind]
FundEntry(e, c) ==
  e.spent = FALSE /\ e.secret = FALSE /\ e.status = IF c THEN "funded" ELSE "funding"

\* A map with one entry more, or another one.
LEMMA PutIs ==
  ASSUME NEW m \in Maps, NEW o \in Outputs, NEW e \in Entry
  PROVE  LET n == Put(m, o, e) IN
         /\ n \in Maps /\ DOMAIN n = DOMAIN m \cup {o} /\ n[o] = e
         /\ \A x \in DOMAIN m : x # o => n[x] = m[x]
<1> DEFINE D == DOMAIN m \cup {o}
           n == [x \in D |-> IF x = o THEN e ELSE m[x]]
<1>1. Put(m, o, e) = n
  BY DEF Put
<1>2. DOMAIN m \subseteq Outputs /\ IsFiniteSet(DOMAIN m) /\ \A x \in DOMAIN m : m[x] \in Entry
  BY DEF Maps
<1>3. IsFiniteSet(D) /\ D \in SUBSET Outputs
  BY <1>2, FS_AddElement
<1>4. n \in [D -> Entry] /\ DOMAIN n = D
  BY <1>2
<1>5. n[o] = e /\ \A x \in DOMAIN m : x # o => n[x] = m[x]
  OBVIOUS
<1>6. n \in Maps
  <2> HIDE DEF n, D
  <2> QED BY <1>3, <1>4, Zenon DEF Maps
<1> HIDE DEF n
<1> QED BY <1>1, <1>4, <1>5, <1>6

\* observeSwapTransaction: another map, or the same one.
Observed(n, m, t, c) ==
  /\ n \in Maps /\ DOMAIN n = DOMAIN m \cup {t.out}
  /\ \A x \in DOMAIN m : x # t.out => n[x] = m[x]
  /\ \/ n = m
     \/ t.kind = "fund" /\ FundEntry(n[t.out], c)
     \/ t.kind # "fund" /\ SpendEntry(n[t.out], t, c)
  /\ n = m => t.out \in DOMAIN m /\ (t.kind # "fund" => m[t.out].spent)
  /\ t.out \in DOMAIN m /\ m[t.out].spent /\ ~c => n = m

LEMMA ObserveIs ==
  ASSUME NEW m \in Maps, NEW t \in SwapTxs, NEW c \in BOOLEAN,
         NEW n, n = Observe(m, t, c)
  PROVE  Observed(n, m, t, c)
<1>1. t.out \in Outputs
  BY DEF Outputs
<1>2. \A x \in DOMAIN m : m[x] \in Entry
  BY DEF Maps
<1>3. t.kind \in {"fund", "claim", "refund", "unknown"}
  BY SwapTxsAssumption DEF Kinds
<1>4. \A e \in Entry : /\ Put(m, t.out, e) \in Maps
                        /\ DOMAIN Put(m, t.out, e) = DOMAIN m \cup {t.out}
                        /\ Put(m, t.out, e)[t.out] = e
                        /\ \A x \in DOMAIN m : x # t.out => Put(m, t.out, e)[x] = m[x]
  BY <1>1, PutIs
<1>5. CASE t.kind = "fund"
  <2> DEFINE e == Output(c, FALSE, IF c THEN "funded" ELSE "funding", FALSE)
  <2>1. e \in Entry /\ FundEntry(e, c)
    BY DEF Output, Entry, Statuses, FundEntry
  <2>2. n = IF t.out \notin DOMAIN m \/ (c /\ ~m[t.out].confirmed) THEN Put(m, t.out, e) ELSE m
    BY <1>5, Zenon DEF Observe, ObserveFunding
  <2>3. t.out \in DOMAIN m => n = m \/ c
    BY <2>2
  <2> HIDE DEF e
  <2>4. CASE n = m /\ t.out \in DOMAIN m
    <3>1. DOMAIN m = DOMAIN m \cup {t.out}
      BY <2>4
    <3> QED BY <1>5, <2>4, <3>1, Zenon DEF Observed
  <2>5. CASE n = Put(m, t.out, e) /\ (t.out \in DOMAIN m => c)
    <3>1. n[t.out] = e /\ n \in Maps /\ DOMAIN n = DOMAIN m \cup {t.out}
          /\ \A x \in DOMAIN m : x # t.out => n[x] = m[x]
      BY <1>4, <2>1, <2>5
    <3>2. n = m => t.out \in DOMAIN m
      BY <3>1
    <3> QED BY <1>5, <2>1, <2>5, <3>1, <3>2, Zenon DEF Observed
  <2> QED BY <2>2, <2>4, <2>5, Zenon
<1>6. CASE t.kind # "fund"
  <2> DEFINE k == t.out \in DOMAIN m /\ m[t.out].confirmed
             w == IF c THEN Spent[t.kind] ELSE Spending[t.kind]
             e == Output(k, TRUE, w, Reveals(t))
  <2>1. w \in Statuses
    BY <1>3, <1>6 DEF Spent, Spending, Statuses, Settled
  <2>2. k \in BOOLEAN
    BY <1>2 DEF Entry
  <2>3. Reveals(t) = (t.kind = "claim") /\ Reveals(t) \in BOOLEAN
    BY DEF Reveals
  <2>4. e \in Entry /\ SpendEntry(e, t, c)
    <3> HIDE DEF k, w, e
    <3>1. e = [confirmed |-> k, spent |-> TRUE, status |-> w, secret |-> Reveals(t)]
      BY DEF Output, e
    <3>2. PICK r \in BOOLEAN : r = Reveals(t)
      BY <2>3
    <3>3. e = [confirmed |-> k, spent |-> TRUE, status |-> w, secret |-> r]
      BY <3>1, <3>2, Zenon
    <3>4. e \in Entry
      BY <2>1, <2>2, <3>3 DEF Entry
    <3>5. e.spent = TRUE /\ e.secret = r /\ e.status = w
      BY <3>3
    <3>6. e.secret = (t.kind = "claim")
      BY <2>3, <3>2, <3>5, Zenon
    <3> QED BY <3>4, <3>5, <3>6, Zenon DEF SpendEntry, w
  <2>5. n = IF t.out \in DOMAIN m /\ m[t.out].spent /\ ~c THEN m ELSE Put(m, t.out, e)
    BY <1>6, Zenon DEF Observe, ObserveSpend
  <2>6. e.spent = TRUE
    BY <2>4 DEF SpendEntry
  <2> HIDE DEF e
  <2>7. CASE t.out \in DOMAIN m /\ m[t.out].spent /\ ~c
    <3>1. DOMAIN m = DOMAIN m \cup {t.out}
      BY <2>7
    <3> QED BY <1>6, <2>5, <2>7, <3>1, Zenon DEF Observed
  <2>8. CASE ~(t.out \in DOMAIN m /\ m[t.out].spent /\ ~c)
    <3>1. n = Put(m, t.out, e)
      BY <2>5, <2>8
    <3>2. n[t.out] = e /\ n \in Maps /\ DOMAIN n = DOMAIN m \cup {t.out}
          /\ \A x \in DOMAIN m : x # t.out => n[x] = m[x]
      BY <1>4, <2>4, <3>1
    <3>3. n = m => t.out \in DOMAIN m /\ m[t.out].spent
      BY <2>6, <3>2
    <3> QED BY <1>6, <2>4, <2>8, <3>2, <3>3, Zenon DEF Observed
  <2> QED BY <2>7, <2>8
<1> QED BY <1>5, <1>6

\* Transactions observed one after the other.
LEMMA ObserveSteps ==
  ASSUME NEW m \in Maps, NEW s \in Seq(SwapTxs), NEW c \in BOOLEAN
  PROVE  \E g \in [0..Len(s) -> Maps] :
           /\ g[0] = m /\ FoldLeft(LAMBDA x, t : Observe(x, t, c), m, s) = g[Len(s)]
           /\ \A k \in 1..Len(s) : g[k] = Observe(g[k - 1], s[k], c)
<1> DEFINE N == Len(s)
           F == [p \in Maps \X SwapTxs |-> Observe(p[1], p[2], c)]
           Is(it) == it = [S \in SUBSET (DOMAIN s) |->
                             IF S = {} THEN m ELSE Observe(it[S \ {Max(S)}], s[Max(S)], c)]
           it0 == CHOOSE it : Is(it)
<1>0. DOMAIN s = 1..N /\ N \in Nat
  OBVIOUS
<1>1. F \in [Maps \X SwapTxs -> Maps]
  <2>1. ASSUME NEW x \in Maps, NEW t \in SwapTxs PROVE Observe(x, t, c) \in Maps
    <3>1. Observed(Observe(x, t, c), x, t, c)
      BY ObserveIs
    <3> QED BY <3>1 DEF Observed
  <2> QED BY <2>1
<1>2. \A x \in Maps, e \in SwapTxs : F[<<x, e>>] = Observe(x, e, c)
  OBVIOUS
<1> HIDE DEF F
<1>3. PICK h \in [SUBSET (1..N) -> Maps] : FoldsBy(h, F, m, s, Maps, SwapTxs)
  BY <1>1, FoldIs
<1>4. Is(h)
  <2>1. \A S \in SUBSET (1..N) : h[S] = IF S = {} THEN m ELSE Observe(h[S \ {Max(S)}], s[Max(S)], c)
    BY <1>2, <1>3, Zenon DEF FoldsBy
  <2>2. h = [S \in SUBSET (1..N) |-> h[S]]
    BY <1>3
  <2> HIDE DEF N
  <2> QED BY <1>0, <2>1, <2>2, Zenon
<1>5. Is(it0)
  <2> HIDE DEF Is
  <2> QED BY <1>4
<1>6. FoldLeft(LAMBDA x, t : Observe(x, t, c), m, s) = it0[DOMAIN s]
  BY Zenon DEF FoldLeft, MapThenFoldSet
<1> HIDE DEF it0
<1>7. it0[{}] = m
  BY <1>5
<1>8. ASSUME NEW k \in 1..N PROVE it0[1..k] = Observe(it0[1..(k - 1)], s[k], c)
  <2>1. /\ 1..k \in SUBSET (DOMAIN s) /\ 1..k # {} /\ Max(1..k) = k
        /\ (1..k) \ {k} = 1..(k - 1)
    BY <1>0, Positions
  <2> QED BY <1>5, <2>1, Zenon
<1> HIDE DEF Is
<1>9. \A k \in 1..N : it0[1..(k - 1)] \in Maps => it0[1..k] = F[<<it0[1..(k - 1)], s[k]>>]
  <2>1. \A k \in 1..N : s[k] \in SwapTxs
    OBVIOUS
  <2> QED BY <1>2, <1>8, <2>1, Zenon
<1>10. PICK g \in [0..N -> Maps] : StepsBy(g, F, m, s, it0[DOMAIN s])
  BY <1>1, <1>7, <1>9, FoldSteps
<1>11. \A k \in 1..N : g[k] = Observe(g[k - 1], s[k], c)
  <2> SUFFICES ASSUME NEW k \in 1..N PROVE g[k] = Observe(g[k - 1], s[k], c)
    OBVIOUS
  <2>1. s[k] \in SwapTxs /\ k - 1 \in 0..N
    BY <1>0
  <2>2. g[k - 1] \in Maps
    BY <1>10, <2>1, Zenon
  <2> QED BY <1>2, <1>10, <2>1, <2>2, Zenon DEF StepsBy
<1> QED BY <1>6, <1>10, <1>11, Zenon DEF StepsBy

\* The map is what the first k transactions of h make of it, the first c of which
\* are confirmed.
Exact(m, h, k, c) ==
  /\ DOMAIN m = {h[i].out : i \in 1..k}
  /\ \A i \in 1..k : (\A j \in 1..k : h[j].out = h[i].out => h[j].kind = "fund")
                       => FundEntry(m[h[i].out], i <= c)
  /\ \A i \in 1..k : h[i].kind # "fund" => SpendEntry(m[h[i].out], h[i], i <= c)

\* What Consistent says of two transactions of one output.
LEMMA ConsistentIs ==
  ASSUME NEW h, Consistent(h)
  PROVE  /\ \A i \in 1..Len(h) : \A j \in 1..(i - 1) : h[j].out = h[i].out =>
              h[j].kind = "fund" /\ h[i].kind # "fund"
         /\ \A i \in 1..Len(h) : h[i].kind # "fund" =>
              \E j \in 1..(i - 1) : h[j].out = h[i].out
BY DEF Consistent

\* One transaction more.
LEMMA ExactStep ==
  ASSUME NEW h \in Seq(SwapTxs), Consistent(h), NEW k \in Nat, k + 1 <= Len(h),
         NEW c \in Nat, NEW m \in Maps, Exact(m, h, k, c),
         NEW conf \in BOOLEAN, conf <=> k + 1 <= c, NEW n, n = Observe(m, h[k + 1], conf)
  PROVE  n \in Maps /\ Exact(n, h, k + 1, c)
<1>0. k + 1 \in 1..Len(h) /\ (k + 1) - 1 = k /\ 1..(k + 1) = 1..k \cup {k + 1} /\ k + 1 \notin 1..k
  OBVIOUS
<1>1. PICK t \in SwapTxs : t = h[k + 1]
  BY <1>0
<1>2. \A j \in 1..k : h[j].out = t.out => h[j].kind = "fund" /\ t.kind # "fund"
  BY <1>0, <1>1, ConsistentIs
<1>3. t.kind # "fund" => \E j \in 1..k : h[j].out = t.out
  <2>1. h[k + 1].kind # "fund" => \E j \in 1..((k + 1) - 1) : h[j].out = h[k + 1].out
    BY <1>0, ConsistentIs
  <2> QED BY <1>0, <1>1, <2>1, Zenon
<1>4. /\ n \in Maps /\ DOMAIN n = DOMAIN m \cup {t.out}
      /\ \A x \in DOMAIN m : x # t.out => n[x] = m[x]
      /\ n = m \/ (t.kind = "fund" /\ FundEntry(n[t.out], conf))
               \/ (t.kind # "fund" /\ SpendEntry(n[t.out], t, conf))
      /\ n = m => t.out \in DOMAIN m /\ (t.kind # "fund" => m[t.out].spent)
  <2>1. n = Observe(m, t, conf)
    BY <1>1
  <2>2. Observed(n, m, t, conf)
    BY <2>1, ObserveIs
  <2> QED BY <2>2, Zenon DEF Observed
<1>5. /\ DOMAIN m = {h[i].out : i \in 1..k}
      /\ \A i \in 1..k : (\A j \in 1..k : h[j].out = h[i].out => h[j].kind = "fund")
                           => FundEntry(m[h[i].out], i <= c)
      /\ \A i \in 1..k : h[i].kind # "fund" => SpendEntry(m[h[i].out], h[i], i <= c)
  BY DEF Exact
<1>6. DOMAIN n = {h[i].out : i \in 1..(k + 1)}
  BY <1>0, <1>1, <1>4, <1>5
<1>7. \A i \in 1..k : h[i].out # t.out => n[h[i].out] = m[h[i].out]
  BY <1>4, <1>5
<1>8. CASE t.kind = "fund"
  <2>1. \A j \in 1..k : h[j].out # t.out
    BY <1>2, <1>8
  <2>2. FundEntry(n[t.out], conf)
    BY <1>4, <1>5, <1>8, <2>1
  <2>3. ASSUME NEW i \in 1..(k + 1),
               \A j \in 1..(k + 1) : h[j].out = h[i].out => h[j].kind = "fund"
        PROVE  FundEntry(n[h[i].out], i <= c)
    <3>1. CASE i = k + 1
      BY <1>1, <2>2, <3>1
    <3>2. CASE i \in 1..k
      <4>1. FundEntry(m[h[i].out], i <= c)
        BY <1>0, <1>5, <2>3, <3>2
      <4> QED BY <1>7, <2>1, <3>2, <4>1
    <3> QED BY <1>0, <3>1, <3>2
  <2>4. ASSUME NEW i \in 1..(k + 1), h[i].kind # "fund"
        PROVE  SpendEntry(n[h[i].out], h[i], i <= c)
    <3>1. i \in 1..k
      BY <1>0, <1>1, <1>8, <2>4
    <3> QED BY <1>5, <1>7, <2>1, <2>4, <3>1
  <2> QED BY <1>4, <1>6, <2>3, <2>4 DEF Exact
<1>9. CASE t.kind # "fund"
  <2>1. \A j \in 1..k : h[j].out = t.out => h[j].kind = "fund"
    BY <1>2
  <2>2. PICK j \in 1..k : h[j].out = t.out
    BY <1>3, <1>9
  <2>3. FundEntry(m[t.out], j <= c)
    BY <1>5, <2>1, <2>2
  <2>4. SpendEntry(n[t.out], t, conf)
    BY <1>4, <1>9, <2>3 DEF FundEntry
  <2>5. ASSUME NEW i \in 1..(k + 1),
               \A l \in 1..(k + 1) : h[l].out = h[i].out => h[l].kind = "fund"
        PROVE  FundEntry(n[h[i].out], i <= c)
    <3>1. h[i].out # t.out
      BY <1>0, <1>1, <1>9, <2>5
    <3>2. i \in 1..k
      BY <1>0, <1>1, <3>1
    <3>3. FundEntry(m[h[i].out], i <= c)
      BY <1>0, <1>5, <2>5, <3>2
    <3> QED BY <1>7, <3>1, <3>2, <3>3
  <2>6. ASSUME NEW i \in 1..(k + 1), h[i].kind # "fund"
        PROVE  SpendEntry(n[h[i].out], h[i], i <= c)
    <3>1. CASE i = k + 1
      BY <1>1, <2>4, <3>1
    <3>2. CASE i \in 1..k
      <4>1. h[i].out # t.out
        BY <2>1, <2>6, <3>2
      <4> QED BY <1>5, <1>7, <2>6, <3>2, <4>1
    <3> QED BY <1>0, <3>1, <3>2
  <2> QED BY <1>4, <1>6, <2>5, <2>6 DEF Exact
<1> QED BY <1>8, <1>9

\* The transactions of s, observed after the first k of h, when h goes on with s.
LEMMA ExactRun ==
  ASSUME NEW h \in Seq(SwapTxs), Consistent(h), NEW k \in Nat,
         NEW s \in Seq(SwapTxs), k + Len(s) = Len(h), \A i \in 1..Len(s) : h[k + i] = s[i],
         NEW c \in Nat, NEW conf \in BOOLEAN, \A i \in 1..Len(s) : conf <=> k + i <= c,
         NEW g \in [0..Len(s) -> Maps], Exact(g[0], h, k, c),
         \A i \in 1..Len(s) : g[i] = Observe(g[i - 1], s[i], conf)
  PROVE  g[Len(s)] \in Maps /\ Exact(g[Len(s)], h, Len(h), c)
<1> DEFINE T == {i \in Nat : i <= Len(s) => Exact(g[i], h, k + i, c)}
<1>0. Len(s) \in Nat
  OBVIOUS
<1>2. 0 \in T
  OBVIOUS
<1>3. ASSUME NEW i \in Nat, i \in T PROVE i + 1 \in T
  <2> SUFFICES ASSUME i + 1 <= Len(s) PROVE Exact(g[i + 1], h, k + (i + 1), c)
    OBVIOUS
  <2>1. /\ i + 1 \in 1..Len(s) /\ (i + 1) - 1 = i /\ i <= Len(s) /\ i \in 0..Len(s)
        /\ k + (i + 1) = (k + i) + 1 /\ k + i \in Nat /\ (k + i) + 1 <= Len(h)
    BY <1>0
  <2>2. Exact(g[i], h, k + i, c) /\ g[i] \in Maps
    BY <1>3, <2>1
  <2>3. conf <=> (k + i) + 1 <= c
    BY <2>1
  <2>4. h[(k + i) + 1] = s[i + 1]
    BY <2>1
  <2>5. g[i + 1] = Observe(g[i], h[(k + i) + 1], conf)
    BY <2>1, <2>4, Zenon
  <2>6. Exact(g[i + 1], h, (k + i) + 1, c)
    BY <2>1, <2>2, <2>3, <2>5, ExactStep
  <2> QED BY <2>1, <2>6
<1>4. \A i \in Nat : i \in T
  <2> HIDE DEF T
  <2> QED BY <1>2, <1>3, Inductive
<1>5. Exact(g[Len(s)], h, k + Len(s), c)
  BY <1>0, <1>4
<1>6. g[Len(s)] \in Maps
  BY <1>0
<1> QED BY <1>5, <1>6, Zenon

\* The pool's transactions leave a spend alone and settle nothing.
LEMMA PoolRun ==
  ASSUME NEW s \in Seq(SwapTxs), NEW g \in [0..Len(s) -> Maps],
         \A i \in 1..Len(s) : g[i] = Observe(g[i - 1], s[i], FALSE)
  PROVE  /\ \A o \in DOMAIN g[0] : o \in DOMAIN g[Len(s)] /\ (g[0][o].spent => g[Len(s)][o] = g[0][o])
         /\ \A o \in DOMAIN g[Len(s)] : g[Len(s)][o].status \in Settled =>
              o \in DOMAIN g[0] /\ g[Len(s)][o] = g[0][o]
<1> DEFINE P(n) == /\ \A o \in DOMAIN g[0] : o \in DOMAIN n /\ (g[0][o].spent => n[o] = g[0][o])
                   /\ \A o \in DOMAIN n : n[o].status \in Settled => o \in DOMAIN g[0] /\ n[o] = g[0][o]
           T == {i \in Nat : i <= Len(s) => P(g[i])}
<1>0. Len(s) \in Nat
  OBVIOUS
<1>1. 0 \in T
  OBVIOUS
<1>2. ASSUME NEW i \in Nat, i \in T PROVE i + 1 \in T
  <2> SUFFICES ASSUME i + 1 <= Len(s) PROVE P(g[i + 1])
    <3> HIDE DEF P
    <3> QED OBVIOUS
  <2>1. i + 1 \in 1..Len(s) /\ (i + 1) - 1 = i /\ i <= Len(s) /\ i \in 0..Len(s)
    BY <1>0
  <2>2. P(g[i])
    <3> HIDE DEF P
    <3> QED BY <1>2, <2>1
  <2>3. PICK t \in SwapTxs : t = s[i + 1]
    BY <2>1
  <2>4. PICK m \in Maps : m = g[i]
    BY <2>1
  <2>5. PICK n : n = g[i + 1] /\ n = Observe(m, t, FALSE)
    BY <2>1, <2>3, <2>4, Zenon
  <2>6. Observed(n, m, t, FALSE)
    BY <2>5, ObserveIs
  <2>7. t.out \in DOMAIN n /\ (n = m \/ n[t.out].status \notin Settled)
    <3>1. t.kind \in {"fund", "claim", "refund", "unknown"}
      BY SwapTxsAssumption DEF Kinds
    <3>2. FundEntry(n[t.out], FALSE) => n[t.out].status \notin Settled
      BY DEF FundEntry, Settled
    <3>3. t.kind # "fund" /\ SpendEntry(n[t.out], t, FALSE) => n[t.out].status \notin Settled
      BY <3>1 DEF SpendEntry, Spending, Settled
    <3> QED BY <2>6, <3>2, <3>3 DEF Observed
  <2>8. \A x \in DOMAIN m : x \in DOMAIN n /\ (m[x].spent => n[x] = m[x])
    BY <2>6, Zenon DEF Observed
  <2>9. \A x \in DOMAIN n : n[x].status \in Settled => x \in DOMAIN m /\ n[x] = m[x]
    BY <2>6, <2>7 DEF Observed
  <2>10. P(m)
    BY <2>2, <2>4, Zenon
  <2>11. P(n)
    BY <2>8, <2>9, <2>10, Zenon
  <2> QED BY <2>5, <2>11, Zenon
<1>3. \A i \in Nat : i \in T
  <2> HIDE DEF T
  <2> QED BY <1>1, <1>2, Inductive
<1>4. P(g[Len(s)])
  <2> HIDE DEF P
  <2> QED BY <1>0, <1>3
<1> QED BY <1>4

\* TrueStatus is what an exact map says.
LEMMA TrueIs ==
  ASSUME NEW h \in Seq(SwapTxs), NEW c \in Nat, NEW m, Exact(m, h, Len(h), c), NEW o
  PROVE  TrueStatus(o, h, c) = IF o \in DOMAIN m THEN m[o].status ELSE "none"
<1> DEFINE spends == {i \in 1..Len(h) : h[i].out = o /\ h[i].kind \in DOMAIN Spent}
           funds  == {i \in 1..Len(h) : h[i].out = o /\ h[i].kind \in {"fund"}}
           state(i) == IF i <= c THEN Spent[h[i].kind] ELSE Spending[h[i].kind]
<1>1. TrueStatus(o, h, c) =
        CASE spends # {} -> state(CHOOSE i \in spends : TRUE)
          [] spends = {} /\ funds # {} -> IF \E i \in funds : i <= c THEN "funded" ELSE "funding"
          [] OTHER -> "none"
  BY Zenon DEF TrueStatus
<1>2. DOMAIN Spent = {"claim", "refund", "unknown"}
  BY DEF Spent
<1>3. \A i \in 1..Len(h) : h[i].kind \in {"fund", "claim", "refund", "unknown"}
  BY SwapTxsAssumption DEF Kinds
<1>4. \A i \in 1..Len(h) : h[i].out = o => (i \in spends <=> h[i].kind # "fund") /\ (i \in funds <=> h[i].kind = "fund")
  BY <1>2, <1>3
<1>5. o \in DOMAIN m <=> spends # {} \/ funds # {}
  BY <1>4 DEF Exact
<1>6. CASE spends # {}
  <2>1. PICK i : i = CHOOSE j \in spends : TRUE
    OBVIOUS
  <2>2. i \in spends
    BY <1>6, <2>1
  <2>3. TrueStatus(o, h, c) = state(i)
    BY <1>1, <1>6, <2>1
  <2>4. i \in 1..Len(h) /\ h[i].out = o /\ h[i].kind # "fund"
    BY <1>4, <2>2
  <2>5. m[o].status = state(i)
    BY <2>4 DEF Exact, SpendEntry
  <2> QED BY <1>5, <1>6, <2>3, <2>5
<1>7. CASE spends = {} /\ funds # {}
  <2>1. TrueStatus(o, h, c) = IF \E i \in funds : i <= c THEN "funded" ELSE "funding"
    BY <1>1, <1>7
  <2>2. PICK i \in funds : (\E j \in funds : j <= c) => i <= c
    BY <1>7
  <2>3. FundEntry(m[o], i <= c)
    BY <1>4, <1>7, <2>2 DEF Exact
  <2> QED BY <1>5, <1>7, <2>1, <2>2, <2>3 DEF FundEntry
<1>8. CASE spends = {} /\ funds = {}
  BY <1>1, <1>5, <1>8
<1> QED BY <1>6, <1>7, <1>8

\* When all of h is confirmed, a spent output is a settled one, and only a claim
\* has a secret.
LEMMA ConfirmedIs ==
  ASSUME NEW h \in Seq(SwapTxs), NEW m, Exact(m, h, Len(h), Len(h)), NEW o \in DOMAIN m
  PROVE  /\ m[o].status \in Settled => m[o].spent
         /\ m[o].spent => (m[o].secret <=> m[o].status = "claimed")
<1>1. PICK i \in 1..Len(h) : h[i].out = o
  BY DEF Exact
<1>2. \A j \in 1..Len(h) : h[j].kind \in {"fund", "claim", "refund", "unknown"} /\ j <= Len(h)
  BY SwapTxsAssumption DEF Kinds
<1>3. CASE \A j \in 1..Len(h) : h[j].out = o => h[j].kind = "fund"
  <2>1. FundEntry(m[o], TRUE)
    BY <1>1, <1>2, <1>3 DEF Exact
  <2> QED BY <2>1 DEF FundEntry, Settled
<1>4. ASSUME NEW j \in 1..Len(h), h[j].out = o, h[j].kind # "fund"
      PROVE  m[o].spent /\ (m[o].secret <=> m[o].status = "claimed")
  <2>1. SpendEntry(m[o], h[j], TRUE)
    BY <1>2, <1>4 DEF Exact
  <2>2. h[j].kind \in {"claim", "refund", "unknown"}
    BY <1>2, <1>4
  <2>3. Spent[h[j].kind] = "claimed" <=> h[j].kind = "claim"
    BY <2>2 DEF Spent
  <2> QED BY <2>1, <2>3, Zenon DEF SpendEntry
<1> QED BY <1>3, <1>4
-----------------------------------------------------------------------------
(* SwapView: a consistent pool.                                            *)

LEMMA ConsistentBegins ==
  ASSUME NEW a \in Seq(SwapTxs), NEW b \in Seq(SwapTxs), Consistent(a \o b)
  PROVE  Consistent(a)
<1>1. PICK h \in Seq(SwapTxs) : h = a \o b
  <2>1. a \o b \in Seq(SwapTxs)
    BY ConcatProperties
  <2> QED BY <2>1, Zenon
<1>2. Len(h) = Len(a) + Len(b) /\ Len(a) \in Nat /\ Len(b) \in Nat /\ \A i \in 1..Len(a) : h[i] = a[i]
  BY <1>1, ConcatProperties
<1>3. Consistent(h)
  BY <1>1
<1>4. ASSUME NEW i \in 1..Len(a)
      PROVE  LET before == {a[j] : j \in 1..(i - 1)} IN
             /\ \A t \in before : t.out = a[i].out => t.kind = "fund" /\ a[i].kind # "fund"
             /\ a[i].kind # "fund" => \E t \in before : t.out = a[i].out
  <2>1. i \in 1..Len(h) /\ h[i] = a[i] /\ \A j \in 1..(i - 1) : h[j] = a[j]
    BY <1>2
  <2>2. {h[j] : j \in 1..(i - 1)} = {a[j] : j \in 1..(i - 1)}
    BY <2>1
  <2> QED BY <1>3, <2>1, <2>2, Zenon DEF Consistent
<1> QED BY <1>4 DEF Consistent

\* A valid transaction goes to the end of the pool.
LEMMA ValidIs ==
  ASSUME NEW h \in Seq(SwapTxs), NEW p \in Seq(SwapTxs), NEW t \in SwapTxs, Valid(t, h \o p)
  PROVE  Append(p, t) \in Seq(SwapTxs) /\ Consistent(h \o Append(p, t))
<1>1. h \o Append(p, t) = Append(h \o p, t)
  <2>0. h \o p \in Seq(SwapTxs)
    BY ConcatProperties
  <2>1. Append(p, t) = p \o <<t>> /\ Append(h \o p, t) = (h \o p) \o <<t>>
    BY <2>0, AppendIsConcat
  <2>2. <<t>> \in Seq(SwapTxs)
    OBVIOUS
  <2>3. (h \o p) \o <<t>> = h \o (p \o <<t>>)
    BY <2>2, ConcatAssociative
  <2> QED BY <2>1, <2>3, Zenon
<1>2. Append(p, t) \in Seq(SwapTxs)
  OBVIOUS
<1> QED BY <1>1, <1>2, Zenon DEF Valid

\* What is kept of the pool is consistent with the chain.
LEMMA KeptIs ==
  ASSUME NEW h \in Seq(SwapTxs), Consistent(h), NEW s \in Seq(SwapTxs)
  PROVE  Kept(h, s) \in Seq(SwapTxs) /\ Consistent(h \o Kept(h, s))
<1> DEFINE A == {p \in Seq(SwapTxs) : Consistent(h \o p)}
           N == Len(s)
           Step(p, t) == IF Valid(t, h \o p) THEN Append(p, t) ELSE p
           F == [p \in A \X SwapTxs |-> Step(p[1], p[2])]
           Is(it) == it = [S \in SUBSET (DOMAIN s) |->
                             IF S = {} THEN <<>> ELSE Step(it[S \ {Max(S)}], s[Max(S)])]
           it0 == CHOOSE it : Is(it)
<1>0. DOMAIN s = 1..N /\ N \in Nat
  OBVIOUS
<1>1. Kept(h, s) = it0[DOMAIN s]
  BY Zenon DEF Kept, FoldLeft, MapThenFoldSet
<1>2. F \in [A \X SwapTxs -> A]
  <2>1. ASSUME NEW p \in A, NEW t \in SwapTxs PROVE Step(p, t) \in A
    BY ValidIs
  <2> HIDE DEF A, Step
  <2> QED BY <2>1
<1>3. <<>> \in A
  <2>1. h \o <<>> = h /\ <<>> \in Seq(SwapTxs)
    OBVIOUS
  <2> QED BY <2>1, Zenon
<1> HIDE DEF A, Step
<1>4. \A x \in A, e \in SwapTxs : F[<<x, e>>] = Step(x, e)
  OBVIOUS
<1> HIDE DEF F
<1>5. PICK f \in [SUBSET (1..N) -> A] : FoldsBy(f, F, <<>>, s, A, SwapTxs)
  BY <1>2, <1>3, FoldIs
<1>6. Is(f)
  <2>1. \A S \in SUBSET (1..N) : f[S] = IF S = {} THEN <<>> ELSE Step(f[S \ {Max(S)}], s[Max(S)])
    BY <1>4, <1>5, Zenon DEF FoldsBy
  <2>2. f = [S \in SUBSET (1..N) |-> f[S]]
    BY <1>5
  <2> HIDE DEF N
  <2> QED BY <1>0, <2>1, <2>2, Zenon
<1>7. Is(it0)
  <2> HIDE DEF Is
  <2> QED BY <1>6
<1> HIDE DEF it0
<1>8. it0[{}] = <<>>
  BY <1>7
<1>9. ASSUME NEW k \in 1..N PROVE it0[1..k] = Step(it0[1..(k - 1)], s[k])
  <2>1. /\ 1..k \in SUBSET (DOMAIN s) /\ 1..k # {} /\ Max(1..k) = k
        /\ (1..k) \ {k} = 1..(k - 1)
    BY <1>0, Positions
  <2> QED BY <1>7, <2>1, Zenon
<1> HIDE DEF Is
<1>10. \A k \in 1..N : it0[1..(k - 1)] \in A => it0[1..k] = F[<<it0[1..(k - 1)], s[k]>>]
  <2>1. \A k \in 1..N : s[k] \in SwapTxs
    OBVIOUS
  <2> QED BY <1>4, <1>9, <2>1, Zenon
<1>11. PICK g \in [0..N -> A] : StepsBy(g, F, <<>>, s, it0[DOMAIN s])
  BY <1>2, <1>3, <1>8, <1>10, FoldSteps
<1>12. g[N] \in A
  BY <1>0, <1>11
<1>13. Kept(h, s) \in A
  BY <1>1, <1>11, <1>12, Zenon DEF StepsBy
<1> QED BY <1>13, Zenon DEF A
-----------------------------------------------------------------------------
(* SwapView: the aggregate.                                                *)

Stages == {"waiting", "funding", "funded", "claiming", "refunding"}
Moving == {"claiming", "refunding"}

\* The furthest stage of some statuses none of which is claimed or refunded.
Furthest(w, all, p) ==
  IF all \cap Moving # {} THEN w \in all \cap Moving
  ELSE w = IF "funded" \in all THEN "funded"
           ELSE IF "funding" \in all \/ p THEN "funding" ELSE "waiting"

\* One turn of aggregateSwapStatus's loop.
LEMMA AfterOutputIs ==
  ASSUME NEW all, NEW p \in BOOLEAN, NEW w \in Stages, Furthest(w, all, p),
         NEW s \in Statuses \ {"claimed", "refunded"}, NEW v, v = AfterOutput(w, s)
  PROVE  Furthest(v, all \cup {s}, p)
<1>1. v = CASE s \in Moving -> s
            [] s = "funded" /\ w \in {"waiting", "funding"} -> "funded"
            [] s = "funding" /\ w = "waiting" -> "funding"
            [] OTHER -> w
  BY Zenon DEF AfterOutput, Moving
<1>2. (all \cup {s}) \cap Moving = IF s \in Moving THEN (all \cap Moving) \cup {s} ELSE all \cap Moving
  OBVIOUS
<1>3. CASE s \in Moving
  <2>1. v = s
    BY <1>1, <1>3 DEF Moving
  <2> QED BY <1>2, <1>3, <2>1 DEF Furthest
<1>4. CASE s \notin Moving /\ all \cap Moving # {}
  <2>1. w \in Moving /\ w \in all
    BY <1>4 DEF Furthest
  <2>2. v = w
    BY <1>1, <1>4, <2>1 DEF Moving
  <2> QED BY <1>2, <1>4, <2>1, <2>2 DEF Furthest
<1>5. CASE s \notin Moving /\ all \cap Moving = {}
  <2>1. w = IF "funded" \in all THEN "funded"
            ELSE IF "funding" \in all \/ p THEN "funding" ELSE "waiting"
    BY <1>5 DEF Furthest
  <2>2. s \in {"funded", "funding", "spending", "spent"}
    BY <1>5 DEF Statuses, Settled, Moving
  <2>3. v = IF "funded" \in all \cup {s} THEN "funded"
            ELSE IF "funding" \in all \cup {s} \/ p THEN "funding" ELSE "waiting"
    BY <1>1, <1>5, <2>1, <2>2
  <2> QED BY <1>2, <1>5, <2>3 DEF Furthest
<1> QED BY <1>3, <1>4, <1>5

\* The loop over all of them.
LEMMA FurthestRun ==
  ASSUME NEW s \in Seq(Statuses \ {"claimed", "refunded"}), NEW p \in BOOLEAN, NEW w \in Stages,
         w = IF p THEN "funding" ELSE "waiting"
  PROVE  Furthest(FoldLeft(AfterOutput, w, s), {s[i] : i \in 1..Len(s)}, p)
<1> DEFINE N == Len(s)
           B == Statuses \ {"claimed", "refunded"}
           F == [q \in Stages \X B |-> AfterOutput(q[1], q[2])]
           Is(it) == it = [S \in SUBSET (DOMAIN s) |->
                             IF S = {} THEN w ELSE AfterOutput(it[S \ {Max(S)}], s[Max(S)])]
           it0 == CHOOSE it : Is(it)
<1>0. DOMAIN s = 1..N /\ N \in Nat /\ s \in Seq(B)
  OBVIOUS
<1>1. F \in [Stages \X B -> Stages]
  <2>1. \A x \in Stages, e \in B : AfterOutput(x, e) \in Stages
    BY DEF AfterOutput, Stages, Statuses, Settled
  <2> HIDE DEF B
  <2> QED BY <2>1
<1> HIDE DEF B
<1>2. \A x \in Stages, e \in B : F[<<x, e>>] = AfterOutput(x, e)
  OBVIOUS
<1> HIDE DEF F
<1>3. PICK h \in [SUBSET (1..N) -> Stages] : FoldsBy(h, F, w, s, Stages, B)
  BY <1>0, <1>1, FoldIs
<1>4. Is(h)
  <2>1. \A S \in SUBSET (1..N) : h[S] = IF S = {} THEN w ELSE AfterOutput(h[S \ {Max(S)}], s[Max(S)])
    BY <1>2, <1>3, Zenon DEF FoldsBy
  <2>2. h = [S \in SUBSET (1..N) |-> h[S]]
    BY <1>3
  <2> HIDE DEF N
  <2> QED BY <1>0, <2>1, <2>2, Zenon
<1>5. Is(it0)
  <2> HIDE DEF Is
  <2> QED BY <1>4
<1>6. FoldLeft(AfterOutput, w, s) = it0[DOMAIN s]
  BY Zenon DEF FoldLeft, MapThenFoldSet
<1> HIDE DEF it0
<1>7. it0[{}] = w
  BY <1>5
<1>8. ASSUME NEW k \in 1..N PROVE it0[1..k] = AfterOutput(it0[1..(k - 1)], s[k])
  <2>1. /\ 1..k \in SUBSET (DOMAIN s) /\ 1..k # {} /\ Max(1..k) = k
        /\ (1..k) \ {k} = 1..(k - 1)
    BY <1>0, Positions
  <2> QED BY <1>5, <2>1, Zenon
<1> HIDE DEF Is
<1>9. \A k \in 1..N : s[k] \in B
  BY <1>0
<1>10. \A k \in 1..N : it0[1..(k - 1)] \in Stages => it0[1..k] = F[<<it0[1..(k - 1)], s[k]>>]
  BY <1>2, <1>8, <1>9, Zenon
<1>11. PICK g \in [0..N -> Stages] : StepsBy(g, F, w, s, it0[DOMAIN s])
  BY <1>0, <1>1, <1>7, <1>10, FoldSteps
<1> DEFINE T == {k \in Nat : k <= N => Furthest(g[k], {s[i] : i \in 1..k}, p)}
<1>12. 0 \in T
  <2>1. g[0] = w /\ {s[i] : i \in 1..0} = {}
    BY <1>11 DEF StepsBy
  <2>2. Furthest(w, {}, p)
    BY DEF Furthest
  <2>3. Furthest(g[0], {s[i] : i \in 1..0}, p)
    BY <2>1, <2>2, Zenon
  <2> QED BY <2>3
<1>13. ASSUME NEW k \in Nat, k \in T PROVE k + 1 \in T
  <2> SUFFICES ASSUME k + 1 <= N PROVE Furthest(g[k + 1], {s[i] : i \in 1..(k + 1)}, p)
    OBVIOUS
  <2>1. k + 1 \in 1..N /\ (k + 1) - 1 = k /\ k \in 0..N /\ k <= N
    BY <1>0
  <2>2. Furthest(g[k], {s[i] : i \in 1..k}, p) /\ g[k] \in Stages
    BY <1>11, <1>13, <2>1
  <2>3. g[k + 1] = F[<<g[k], s[k + 1]>>]
    BY <1>11, <2>1, Zenon DEF StepsBy
  <2>4. s[k + 1] \in B
    BY <1>9, <2>1
  <2>5. g[k + 1] = AfterOutput(g[k], s[k + 1])
    BY <1>2, <2>2, <2>3, <2>4, Zenon
  <2>6. {s[i] : i \in 1..(k + 1)} = {s[i] : i \in 1..k} \cup {s[k + 1]}
    <3>1. 1..(k + 1) = 1..k \cup {k + 1}
      OBVIOUS
    <3> QED BY <3>1
  <2>7. Furthest(g[k + 1], {s[i] : i \in 1..k} \cup {s[k + 1]}, p)
    BY <2>2, <2>4, <2>5, AfterOutputIs DEF B
  <2> QED BY <2>6, <2>7, Zenon
<1>14. \A k \in Nat : k \in T
  <2> HIDE DEF T
  <2> QED BY <1>12, <1>13, Inductive
<1>15. Furthest(g[N], {s[i] : i \in 1..N}, p)
  <2>1. N \in Nat /\ N <= N
    BY <1>0
  <2> HIDE DEF N
  <2> QED BY <1>14, <2>1
<1>16. g[N] = it0[DOMAIN s]
  BY <1>11 DEF StepsBy
<1> QED BY <1>6, <1>15, <1>16, Zenon

\* aggregateSwapStatus.
Names(v, all, p) ==
  IF all \cap {"claimed", "refunded"} # {} THEN v \in all \cap {"claimed", "refunded"}
  ELSE Furthest(v, all, p)

\* What it names is the furthest stage of the lifecycle that was reached.
LEMMA NamesIs ==
  ASSUME NEW v, NEW all, NEW p \in BOOLEAN, Names(v, all, p),
         NEW reached, reached = (all \cap Lifecycle) \cup {"waiting"}
                                  \cup (IF p THEN {"funding"} ELSE {})
  PROVE  v \in reached /\ \A status \in reached : Stage(status) <= Stage(v)
<1>1. CASE all \cap {"claimed", "refunded"} # {}
  <2>1. v \in all /\ v \in {"claimed", "refunded"}
    BY <1>1 DEF Names
  <2> QED BY <2>1 DEF Lifecycle, Stage
<1>2. CASE all \cap {"claimed", "refunded"} = {} /\ all \cap Moving # {}
  <2>1. v \in all /\ v \in {"claiming", "refunding"}
    BY <1>2 DEF Names, Furthest, Moving
  <2>2. "claimed" \notin reached /\ "refunded" \notin reached
    BY <1>2
  <2> QED BY <2>1, <2>2 DEF Lifecycle, Stage
<1>3. CASE all \cap {"claimed", "refunded"} = {} /\ all \cap Moving = {}
  <2>1. v = IF "funded" \in all THEN "funded"
            ELSE IF "funding" \in all \/ p THEN "funding" ELSE "waiting"
    BY <1>3 DEF Names, Furthest
  <2>2. reached \subseteq {"waiting", "funding", "funded"}
    BY <1>3 DEF Lifecycle, Moving
  <2> QED BY <2>1, <2>2 DEF Lifecycle, Stage
<1> QED BY <1>1, <1>2, <1>3

LEMMA AggregateIs ==
  ASSUME NEW s \in Seq(Statuses), NEW p \in BOOLEAN, NEW all, all = {s[i] : i \in 1..Len(s)},
         NEW v, v = Aggregate(s, p)
  PROVE  Names(v, all, p)
<1> DEFINE settled == {i \in 1..Len(s) : s[i] \in {"claimed", "refunded"}}
           w == IF p THEN "funding" ELSE "waiting"
<1>1. v = IF settled # {} THEN s[Min(settled)] ELSE FoldLeft(AfterOutput, w, s)
  BY Zenon DEF Aggregate
<1>2. settled # {} <=> all \cap {"claimed", "refunded"} # {}
  OBVIOUS
<1>3. CASE settled # {}
  <2>1. PICK n \in settled : \A j \in settled : n <= j
    <3>1. settled \subseteq Nat
      OBVIOUS
    <3> HIDE DEF settled
    <3> QED BY <1>3, <3>1, LeastNat
  <2>2. Min(settled) = CHOOSE x \in settled : \A y \in settled : x <= y
    BY Zenon DEF Min
  <2>3. Min(settled) \in settled
    <3> HIDE DEF settled
    <3> QED BY <2>1, <2>2
  <2>4. v = s[Min(settled)]
    BY <1>1, <1>3
  <2> QED BY <1>2, <1>3, <2>3, <2>4 DEF Names
<1>4. CASE settled = {}
  <2>1. s \in Seq(Statuses \ {"claimed", "refunded"})
    <3>1. Len(s) \in Nat /\ \A i \in 1..Len(s) : s[i] \in Statuses \ {"claimed", "refunded"}
      BY <1>4
    <3>2. s \in [1..Len(s) -> Statuses \ {"claimed", "refunded"}]
      BY <3>1
    <3> QED BY <3>1, <3>2
  <2>2. w \in Stages
    BY DEF Stages
  <2>3. v = FoldLeft(AfterOutput, w, s)
    BY <1>1, <1>4, Zenon
  <2>4. Furthest(FoldLeft(AfterOutput, w, s), {s[i] : i \in 1..Len(s)}, p)
    BY <2>1, <2>2, FurthestRun
  <2>5. Furthest(v, all, p)
    BY <2>3, <2>4, Zenon
  <2> QED BY <1>2, <1>4, <2>5 DEF Names
<1> QED BY <1>3, <1>4

\* An order of a finite set lists all of it.
Lists(order, S) == order \in Seq(S) /\ {order[i] : i \in 1..Len(order)} = S

LEMMA OrderIs ==
  ASSUME NEW S, IsFiniteSet(S), NEW order, order \in SetToSeqs(S)
  PROVE  Lists(order, S)
<1> DEFINE n == Cardinality(S)
           D == 1..n
<1>1. n \in Nat
  BY FS_CardinalityType
<1>3. SetToSeqs(S) = {f \in [D -> S] : \A i, j \in D : i # j => f[i] # f[j]}
  BY Zenon DEF SetToSeqs
<1>4. order \in [D -> S] /\ \A i, j \in D : i # j => order[i] # order[j]
  BY <1>3
<1>5. IsFiniteSet(D) /\ Cardinality(D) = n
  <2>1. 1 \in Int /\ n \in Int /\ IF 1 > n THEN n = 0 ELSE n - 1 + 1 = n
    BY <1>1
  <2> HIDE DEF n
  <2> QED BY <2>1, FS_Interval
<1>6. order \in Seq(S) /\ Len(order) = n
  <2> HIDE DEF n
  <2> QED BY <1>1, <1>4
<1>7. order \in Injection(D, S)
  BY <1>4 DEF Injection, IsInjective
<1>8. order \in Surjection(D, S)
  <2> HIDE DEF D
  <2> QED BY <1>5, <1>7, FS_Injection
<1>9. \A x \in S : \E i \in D : order[i] = x
  BY <1>8 DEF Surjection
<1> HIDE DEF n
<1> QED BY <1>4, <1>6, <1>9 DEF Lists
-----------------------------------------------------------------------------
(* SwapView: the reader.                                                   *)

SwapChains == Seq(Seq(SwapTxs))

\* The pool is consistent with the chain.
ViewChain ==
  /\ tip \in SwapChains /\ scan \in SwapChains /\ cs \in SwapChains
  /\ pool \in Seq(SwapTxs) /\ unconfirmed \in BOOLEAN
  /\ Consistent(History(tip) \o pool)

\* Every block makes the chain longer, so a chain of the first one's length is the
\* first one, and the index has not moved.
ViewCall ==
  /\ pc \in {"events", "check"} =>
       Len(cs) <= Len(tip) /\ (Len(cs) = Len(tip) => tip = cs /\ scan = cs)
  /\ pc \in {"events", "check", "pool"} => Consistent(History(cs))
  /\ pc = "check" /\ Len(cs) = Len(tip) => observed = Replay(cs)
  /\ pc = "pool" => observed = Replay(cs)

VInv == ViewChain /\ ViewCall /\ SettledExact /\ AggregateIsFurthest

LEMMA HistoryIs ==
  ASSUME NEW chain \in SwapChains
  PROVE  History(chain) \in Seq(SwapTxs) /\ (Len(chain) = 0 => History(chain) = <<>>)
<1>1. History(chain) = FlattenSeq(chain)
  BY DEF History
<1> QED BY <1>1, FlattenType DEF SwapChains

\* The events of a consistent chain, replayed.
LEMMA ReplayIs ==
  ASSUME NEW chain \in SwapChains, NEW h \in Seq(SwapTxs), h = History(chain),
         Consistent(h)
  PROVE  Replay(chain) \in Maps /\ Exact(Replay(chain), h, Len(h), Len(h))
<1> DEFINE e == [o \in {} |-> {}]
<1>1. e \in Maps
  <2>1. {} \in SUBSET Outputs /\ e \in [{} -> Entry] /\ DOMAIN e = {}
    OBVIOUS
  <2>2. IsFiniteSet({})
    BY FS_EmptySet
  <2> HIDE DEF e
  <2> QED BY <2>1, <2>2, Zenon DEF Maps
<1>2. Exact(e, h, 0, Len(h))
  BY DEF Exact
<1>3. Replay(chain) = FoldLeft(LAMBDA x, t : Observe(x, t, TRUE), e, h)
  BY Zenon DEF Replay
<1> HIDE DEF e
<1>4. PICK g \in [0..Len(h) -> Maps] :
        /\ g[0] = e /\ Replay(chain) = g[Len(h)]
        /\ \A k \in 1..Len(h) : g[k] = Observe(g[k - 1], h[k], TRUE)
  <2>1. PICK g \in [0..Len(h) -> Maps] :
          /\ g[0] = e
          /\ FoldLeft(LAMBDA x, t : Observe(x, t, TRUE), e, h) = g[Len(h)]
          /\ \A k \in 1..Len(h) : g[k] = Observe(g[k - 1], h[k], TRUE)
    <3>1. ASSUME NEW s \in Seq(SwapTxs)
          PROVE  \E f \in [0..Len(s) -> Maps] :
                   /\ f[0] = e
                   /\ FoldLeft(LAMBDA x, t : Observe(x, t, TRUE), e, s) = f[Len(s)]
                   /\ \A k \in 1..Len(s) : f[k] = Observe(f[k - 1], s[k], TRUE)
      BY <1>1, ObserveSteps, Zenon
    <3> QED BY <3>1, Zenon
  <2> QED BY <1>3, <2>1, Zenon
<1>5. /\ Exact(g[0], h, 0, Len(h)) /\ Len(h) \in Nat /\ 0 + Len(h) = Len(h)
      /\ \A i \in 1..Len(h) : h[0 + i] = h[i] /\ (TRUE <=> 0 + i <= Len(h))
  BY <1>2, <1>4
<1>6. g[Len(h)] \in Maps /\ Exact(g[Len(h)], h, Len(h), Len(h))
  BY <1>4, <1>5, ExactRun
<1> QED BY <1>4, <1>6, Zenon

\* The pool, observed after them.
LEMMA PoolIs ==
  ASSUME NEW m \in Maps, NEW p \in Seq(SwapTxs), NEW n, n = ObservePool(m, p)
  PROVE  /\ n \in Maps
         /\ \A o \in DOMAIN m : o \in DOMAIN n /\ (m[o].spent => n[o] = m[o])
         /\ \A o \in DOMAIN n : n[o].status \in Settled => o \in DOMAIN m /\ n[o] = m[o]
         /\ \A h \in Seq(SwapTxs) : Exact(m, h, Len(h), Len(h)) /\ Consistent(h \o p) =>
              Exact(n, h \o p, Len(h \o p), Len(h))
<1>1. n = FoldLeft(LAMBDA x, t : Observe(x, t, FALSE), m, p)
  BY Zenon DEF ObservePool
<1>2. PICK g \in [0..Len(p) -> Maps] :
        /\ g[0] = m /\ n = g[Len(p)]
        /\ \A k \in 1..Len(p) : g[k] = Observe(g[k - 1], p[k], FALSE)
  <2>1. PICK g \in [0..Len(p) -> Maps] :
          /\ g[0] = m
          /\ FoldLeft(LAMBDA x, t : Observe(x, t, FALSE), m, p) = g[Len(p)]
          /\ \A k \in 1..Len(p) : g[k] = Observe(g[k - 1], p[k], FALSE)
    BY ObserveSteps, Zenon
  <2> QED BY <1>1, <2>1, Zenon
<1>3. n \in Maps
  <2>1. Len(p) \in 0..Len(p)
    OBVIOUS
  <2> QED BY <1>2, <2>1, Zenon
<1>4. /\ \A o \in DOMAIN g[0] : o \in DOMAIN g[Len(p)] /\ (g[0][o].spent => g[Len(p)][o] = g[0][o])
      /\ \A o \in DOMAIN g[Len(p)] : g[Len(p)][o].status \in Settled =>
           o \in DOMAIN g[0] /\ g[Len(p)][o] = g[0][o]
  BY <1>2, PoolRun
<1>5. ASSUME NEW h \in Seq(SwapTxs), Exact(m, h, Len(h), Len(h)), Consistent(h \o p)
      PROVE  Exact(n, h \o p, Len(h \o p), Len(h))
  <2>1. PICK a \in Seq(SwapTxs) : a = h \o p
    <3>1. h \o p \in Seq(SwapTxs)
      BY ConcatProperties
    <3> QED BY <3>1, Zenon
  <2>2. /\ Len(a) = Len(h) + Len(p) /\ Len(h) \in Nat /\ Len(p) \in Nat
        /\ \A i \in 1..Len(h) : a[i] = h[i]
        /\ \A i \in 1..Len(p) : a[Len(h) + i] = p[i]
    BY <2>1, ConcatProperties
  <2>3. Exact(g[0], a, Len(h), Len(h))
    <3>1. {a[i].out : i \in 1..Len(h)} = {h[i].out : i \in 1..Len(h)}
      BY <2>2
    <3>2. Exact(m, a, Len(h), Len(h))
      BY <1>5, <2>2, <3>1 DEF Exact
    <3> QED BY <1>2, <3>2, Zenon
  <2>4. \A i \in 1..Len(p) : FALSE <=> Len(h) + i <= Len(h)
    BY <2>2
  <2>5. Consistent(a)
    BY <1>5, <2>1
  <2>6. Exact(g[Len(p)], a, Len(a), Len(h))
    BY <1>2, <2>2, <2>3, <2>4, <2>5, ExactRun
  <2> QED BY <1>2, <2>1, <2>6, Zenon
<1> QED BY <1>2, <1>3, <1>4, <1>5, Zenon

\* A selected chain is longer, and consistent with what the pool keeps.
LEMMA ViewSelects ==
  ASSUME VInv, NEW depth \in Nat, ChainGrows(depth)
  PROVE  Len(tip) < Len(tip') /\ ViewChain'
<1>1. Len(tip) \in Nat /\ tip \in Seq(Seq(SwapTxs)) /\ pool \in Seq(SwapTxs)
  BY DEF VInv, ViewChain, SwapChains
<1>2. SwapBlocks \subseteq Seq(SwapTxs)
  <2> SUFFICES ASSUME NEW b \in SwapBlocks PROVE b \in Seq(SwapTxs)
    OBVIOUS
  <2>1. PICK n \in 0..MaxBlock : b \in [1..n -> SwapTxs]
    BY DEF SwapBlocks
  <2>2. n \in Nat
    BY <2>1
  <2> QED BY <2>1, <2>2
<1>6. tip' \in Seq(Seq(SwapTxs)) /\ Len(tip') = Len(tip) + 1
  <2>1. Longer(depth, SwapBlocks)
    BY DEF ChainGrows
  <2> QED BY <1>1, <1>2, <2>1, SelectsLonger
<1>7. Len(tip) < Len(tip')
  BY <1>1, <1>6
<1>8. History(tip') \in Seq(SwapTxs)
  BY <1>6, HistoryIs DEF SwapChains
<1>9. Consistent(History(tip')) /\ pool' = Kept(History(tip'), pool)
  BY DEF ChainGrows
<1>10. pool' \in Seq(SwapTxs) /\ Consistent(History(tip') \o pool')
  BY <1>1, <1>8, <1>9, KeptIs
<1>11. UNCHANGED <<scan, cs, unconfirmed>>
  BY DEF ChainGrows, readVars
<1> QED BY <1>6, <1>7, <1>10, <1>11 DEF VInv, ViewChain, SwapChains

\* Between answers nothing is promised.
LEMMA NotAnswered ==
  ASSUME pc' # "answered"
  PROVE  SettledExact' /\ AggregateIsFurthest'
BY DEF SettledExact, AggregateIsFurthest

\* An answer stands while the chain and the pool go on.
LEMMA AnswerStands ==
  ASSUME VInv, UNCHANGED <<pc, cs, unconfirmed, shown>>
  PROVE  SettledExact' /\ AggregateIsFurthest'
<1>1. SettledExact'
  BY Zenon DEF VInv, SettledExact, Shown
<1>2. AggregateIsFurthest'
  <2> DEFINE A(n, w, u) ==
        LET reached == ({n[o].status : o \in DOMAIN n} \cap Lifecycle)
                         \cup {"waiting"} \cup (IF u THEN {"funding"} ELSE {})
        IN  /\ w \in reached
            /\ \A status \in reached : Stage(status) <= Stage(w)
  <2>1. pc = "answered" => A(shown.outputs, shown.status, unconfirmed)
    BY DEF VInv, AggregateIsFurthest
  <2>2. (pc' = "answered" => A(shown'.outputs, shown'.status, unconfirmed')) => AggregateIsFurthest'
    BY DEF AggregateIsFurthest
  <2> HIDE DEF A
  <2> QED BY <2>1, <2>2, Zenon
<1> QED BY <1>1, <1>2

LEMMA PoolAddViews ==
  ASSUME VInv, NEW t \in SwapTxs, PoolTakes(t)
  PROVE  VInv'
<1>1. UNCHANGED <<tip, scan, pc, cs, unconfirmed, observed, shown>>
  BY DEF PoolTakes, readVars
<1>2. History(tip) \in Seq(SwapTxs) /\ pool \in Seq(SwapTxs)
  BY HistoryIs DEF VInv, ViewChain
<1>3. Valid(t, History(tip) \o pool) /\ pool' = Append(pool, t)
  BY DEF PoolTakes
<1>4. pool' \in Seq(SwapTxs) /\ Consistent(History(tip) \o pool')
  BY <1>2, <1>3, ValidIs
<1>5. ViewChain'
  BY <1>1, <1>4 DEF VInv, ViewChain
<1>6. ViewCall'
  BY <1>1 DEF VInv, ViewCall
<1> QED BY <1>1, <1>5, <1>6, AnswerStands DEF VInv

LEMMA SelectViews ==
  ASSUME VInv, NEW depth \in Nat, ChainGrows(depth)
  PROVE  VInv'
<1>1. UNCHANGED <<scan, pc, cs, unconfirmed, observed, shown>>
  BY DEF ChainGrows, readVars
<1>2. Len(tip) < Len(tip') /\ ViewChain'
  BY ViewSelects
<1>3. Len(tip) \in Nat /\ Len(tip') \in Nat /\ Len(cs) \in Nat
  BY <1>2 DEF VInv, ViewChain, SwapChains
<1>4. Len(cs) <= Len(tip) => Len(cs) <= Len(tip') /\ Len(cs) # Len(tip')
  BY <1>2, <1>3
<1>5. ViewCall'
  BY <1>1, <1>4 DEF VInv, ViewCall
<1> QED BY <1>1, <1>2, <1>5, AnswerStands DEF VInv

LEMMA IndexViews ==
  ASSUME VInv, IndexCatchesUp
  PROVE  VInv'
<1>1. UNCHANGED <<tip, pool, pc, cs, unconfirmed, observed, shown>> /\ scan # tip /\ scan' = tip
  BY DEF IndexCatchesUp, readVars
<1>2. ViewChain'
  BY <1>1 DEF VInv, ViewChain
<1>3. ViewCall'
  BY <1>1 DEF VInv, ViewCall
<1> QED BY <1>1, <1>2, <1>3, AnswerStands DEF VInv

LEMMA CallViews ==
  ASSUME VInv, ReadActions \/ ReadTip \/ ReadEvents \/ CheckTip \/ AskAgain
  PROVE  VInv'
<1>0. UNCHANGED <<tip, scan, pool>>
  BY DEF ReadActions, ReadTip, ReadEvents, CheckTip, AskAgain, chainVars
<1>1. CASE ReadActions
  <2>1. pc' = "start" /\ unconfirmed' \in BOOLEAN /\ UNCHANGED cs
    BY <1>1 DEF ReadActions
  <2>2. ViewChain' /\ ViewCall'
    BY <1>0, <2>1 DEF VInv, ViewChain, ViewCall
  <2> QED BY <2>1, <2>2, NotAnswered DEF VInv
<1>2. CASE ReadTip
  <2>1. /\ UNCHANGED <<unconfirmed, observed>>
        /\ (pc' = "events" /\ cs' = tip /\ scan = tip) \/ (pc' = "tip" /\ UNCHANGED cs)
    BY <1>2 DEF ReadTip
  <2>2. Consistent(History(tip))
    BY HistoryIs, ConsistentBegins DEF VInv, ViewChain
  <2>3. ViewChain'
    BY <1>0, <2>1 DEF VInv, ViewChain
  <2>4. Len(tip) \in Nat
    BY DEF VInv, ViewChain, SwapChains
  <2>5. ViewCall'
    BY <1>0, <2>1, <2>2, <2>4 DEF ViewCall
  <2> QED BY <2>1, <2>3, <2>5, NotAnswered DEF VInv
<1>3. CASE ReadEvents
  <2>1. /\ pc = "events" /\ pc' = "check" /\ observed' = Replay(scan)
        /\ UNCHANGED <<cs, unconfirmed>>
    BY <1>3 DEF ReadEvents
  <2>2. ViewChain'
    BY <1>0, <2>1 DEF VInv, ViewChain
  <2>3. ViewCall'
    BY <1>0, <2>1 DEF VInv, ViewCall
  <2> QED BY <2>1, <2>2, <2>3, NotAnswered DEF VInv
<1>4. CASE CheckTip
  <2>1. /\ pc = "check" /\ pc' \in {"pool", "tip"} /\ (pc' = "pool" => tip = cs)
        /\ UNCHANGED <<cs, unconfirmed, observed>>
    BY <1>4 DEF CheckTip
  <2>2. ViewChain'
    BY <1>0, <2>1 DEF VInv, ViewChain
  <2>3. ViewCall'
    BY <1>0, <2>1 DEF VInv, ViewCall
  <2> QED BY <2>1, <2>2, <2>3, NotAnswered DEF VInv
<1>5. CASE AskAgain
  <2>1. pc' = "tip" /\ cs' = <<>> /\ unconfirmed' = FALSE
    BY <1>5 DEF AskAgain
  <2>2. <<>> \in Seq(Seq(SwapTxs))
    OBVIOUS
  <2>3. ViewChain' /\ ViewCall'
    BY <1>0, <2>1, <2>2 DEF VInv, ViewChain, ViewCall, SwapChains
  <2> QED BY <2>1, <2>3, NotAnswered DEF VInv
<1> QED BY <1>1, <1>2, <1>3, <1>4, <1>5

\* The answer.
LEMMA ReadPoolViews ==
  ASSUME VInv, ReadPool
  PROVE  /\ VInv' /\ pc = "pool" /\ pc' = "answered" /\ UNCHANGED <<tip, pool, cs>>
         /\ tip = cs => \A o : Shown(o)' =
              TrueStatus(o, History(tip) \o pool, Len(History(tip)))
<1>1. /\ pc = "pool" /\ pc' = "answered"
      /\ UNCHANGED <<tip, scan, pool, cs, unconfirmed, observed>>
  BY DEF ReadPool, chainVars
<1>2. PICK m, h : m = Replay(cs) /\ h = History(cs)
  OBVIOUS
<1>3. h \in Seq(SwapTxs) /\ Consistent(h) /\ cs \in SwapChains
  BY <1>1, <1>2, HistoryIs DEF VInv, ViewChain, ViewCall
<1>4. m \in Maps /\ Exact(m, h, Len(h), Len(h)) /\ Len(h) \in Nat
  BY <1>2, <1>3, ReplayIs
<1>5. PICK n : n = ObservePool(m, pool)
  OBVIOUS
<1>6. observed = m
  BY <1>1, <1>2 DEF VInv, ViewCall
<1>7. PICK order : /\ order \in SetToSeqs(DOMAIN n)
                   /\ shown' = [outputs |-> n,
                         status |-> Aggregate([i \in 1..Len(order) |-> n[order[i]].status], unconfirmed)]
  BY <1>5, <1>6, Zenon DEF ReadPool
<1>8. pool \in Seq(SwapTxs) /\ unconfirmed \in BOOLEAN
  BY DEF VInv, ViewChain
<1>9. /\ n \in Maps
      /\ \A o \in DOMAIN m : o \in DOMAIN n /\ (m[o].spent => n[o] = m[o])
      /\ \A o \in DOMAIN n : n[o].status \in Settled => o \in DOMAIN m /\ n[o] = m[o]
      /\ \A a \in Seq(SwapTxs) : Exact(m, a, Len(a), Len(a)) /\ Consistent(a \o pool) =>
           Exact(n, a \o pool, Len(a \o pool), Len(a))
  BY <1>4, <1>5, <1>8, PoolIs
<1>10. PICK s : s = [i \in 1..Len(order) |-> n[order[i]].status]
  OBVIOUS
<1>11. shown'.outputs = n /\ shown'.status = Aggregate(s, unconfirmed)
  BY <1>7, <1>10
<1>12. \A o : Shown(o)' = IF o \in DOMAIN n THEN n[o].status ELSE "none"
  BY <1>11 DEF Shown
<1>13. SettledExact'
  <2> SUFFICES ASSUME NEW o
               PROVE  LET true == TrueStatus(o, h, Len(h))
                      IN  IF true \in Settled
                          THEN Shown(o)' = true /\ (shown'.outputs[o].secret <=> true = "claimed")
                          ELSE Shown(o)' \notin Settled
    BY <1>1, <1>2 DEF SettledExact, Settled
  <2>1. PICK true : true = TrueStatus(o, h, Len(h))
    OBVIOUS
  <2>2. true = IF o \in DOMAIN m THEN m[o].status ELSE "none"
    BY <1>3, <1>4, <2>1, TrueIs
  <2>3. CASE true \in Settled
    <3>1. o \in DOMAIN m /\ m[o].status = true
      BY <2>2, <2>3 DEF Settled
    <3>2. m[o].spent /\ (m[o].secret <=> m[o].status = "claimed")
      BY <1>3, <1>4, <2>3, <3>1, ConfirmedIs
    <3>3. o \in DOMAIN n /\ n[o] = m[o]
      BY <1>9, <3>1, <3>2, Zenon
    <3>4. Shown(o)' = true
      BY <1>12, <3>1, <3>3
    <3>5. shown'.outputs[o].secret <=> true = "claimed"
      BY <1>11, <3>1, <3>2, <3>3, Zenon
    <3> QED BY <2>1, <2>3, <3>4, <3>5, Zenon
  <2>4. CASE true \notin Settled
    <3>1. "none" \notin Settled
      BY DEF Settled
    <3>2. Shown(o)' \notin Settled
      BY <1>9, <1>12, <2>2, <2>4, <3>1
    <3> QED BY <2>1, <2>4, <3>2, Zenon
  <2> QED BY <2>3, <2>4
<1>14. AggregateIsFurthest'
  <2>1. IsFiniteSet(DOMAIN n) /\ \A o \in DOMAIN n : n[o].status \in Statuses
    BY <1>9 DEF Maps, Entry
  <2>2. order \in Seq(DOMAIN n) /\ {order[i] : i \in 1..Len(order)} = DOMAIN n
    <3>1. Lists(order, DOMAIN n)
      BY <1>7, <2>1, OrderIs
    <3> QED BY <3>1 DEF Lists
  <2>3. s \in Seq(Statuses) /\ Len(s) = Len(order)
    BY <1>10, <2>1, <2>2
  <2>4. PICK all : all = {n[o].status : o \in DOMAIN n}
    OBVIOUS
  <2>5. all = {s[i] : i \in 1..Len(s)}
    <3>1. \A i \in 1..Len(s) : s[i] = n[order[i]].status /\ order[i] \in DOMAIN n
      BY <1>10, <2>2, <2>3
    <3>2. \A o \in DOMAIN n : \E i \in 1..Len(s) : order[i] = o
      BY <2>2, <2>3
    <3>3. all \subseteq {s[i] : i \in 1..Len(s)}
      BY <2>4, <3>1, <3>2
    <3>4. {s[i] : i \in 1..Len(s)} \subseteq all
      BY <2>4, <3>1
    <3> QED BY <3>3, <3>4
  <2>6. PICK v : v = Aggregate(s, unconfirmed)
    OBVIOUS
  <2>7. Names(v, all, unconfirmed)
    BY <1>8, <2>3, <2>5, <2>6, AggregateIs
  <2>8. shown'.status = v /\ {shown'.outputs[o].status : o \in DOMAIN shown'.outputs} = all
    BY <1>11, <2>4, <2>6
  <2>9. PICK reached : reached = (all \cap Lifecycle) \cup {"waiting"}
                                   \cup (IF unconfirmed THEN {"funding"} ELSE {})
    OBVIOUS
  <2>10. v \in reached /\ \A status \in reached : Stage(status) <= Stage(v)
    BY <1>8, <2>7, <2>9, NamesIs
  <2> QED BY <1>1, <2>8, <2>9, <2>10 DEF AggregateIsFurthest
<1>15. ViewChain' /\ ViewCall'
  BY <1>1 DEF VInv, ViewChain, ViewCall
<1>16. ASSUME tip = cs, NEW o
       PROVE  Shown(o)' = TrueStatus(o, History(tip) \o pool, Len(History(tip)))
  <2>1. h \o pool \in Seq(SwapTxs)
    BY <1>3, <1>8, ConcatProperties
  <2>2. Consistent(h \o pool)
    BY <1>2, <1>16 DEF VInv, ViewChain
  <2>3. Exact(n, h \o pool, Len(h \o pool), Len(h))
    BY <1>3, <1>4, <1>9, <2>2, Zenon
  <2>4. TrueStatus(o, h \o pool, Len(h)) = IF o \in DOMAIN n THEN n[o].status ELSE "none"
    BY <1>4, <2>1, <2>3, TrueIs
  <2> QED BY <1>2, <1>12, <1>16, <2>4, Zenon
<1> QED BY <1>1, <1>13, <1>14, <1>15, <1>16 DEF VInv

\* Every step of SwapView keeps the invariant.
LEMMA ViewKeeps ==
  ASSUME VInv, [ViewNext]_viewVars
  PROVE  VInv'
<1>1. CASE UNCHANGED viewVars
  <2>1. UNCHANGED <<tip, scan, pool, pc, cs, unconfirmed, observed, shown>>
    BY <1>1 DEF viewVars, chainVars, readVars
  <2>2. ViewChain' /\ ViewCall'
    BY <2>1 DEF VInv, ViewChain, ViewCall
  <2> QED BY <2>1, <2>2, AnswerStands DEF VInv
<1>2. CASE \E t \in SwapTxs : PoolTakes(t)
  BY <1>2, PoolAddViews
<1>3. CASE \E depth \in 0..MaxDepth : ChainGrows(depth)
  <2>1. \A depth \in 0..MaxDepth : depth \in Nat
    OBVIOUS
  <2> QED BY <1>3, <2>1, SelectViews
<1>4. CASE IndexCatchesUp
  BY <1>4, IndexViews
<1>5. CASE ReadPool
  BY <1>5, ReadPoolViews
<1>6. CASE ReadActions \/ ReadTip \/ ReadEvents \/ CheckTip \/ AskAgain
  BY <1>6, CallViews
<1> QED BY <1>1, <1>2, <1>3, <1>4, <1>5, <1>6 DEF ViewNext, Read

\* swapView's reader keeps its invariant, for any transactions of the contract.
THEOREM ViewInvariant == ViewSpec => []VInv
<1>1. ViewInit => VInv
  <2> SUFFICES ASSUME ViewInit PROVE VInv
    OBVIOUS
  <2>1. tip = <<>> /\ scan = <<>> /\ pool = <<>> /\ pc = "tip" /\ cs = <<>> /\ unconfirmed = FALSE
    BY DEF ViewInit
  <2>2. <<>> \in Seq(Seq(SwapTxs)) /\ <<>> \in Seq(SwapTxs) /\ <<>> \o <<>> = <<>> /\ Len(<<>>) = 0
    OBVIOUS
  <2>3. History(tip) = <<>>
    BY <2>1, <2>2, HistoryIs DEF SwapChains
  <2>4. Consistent(<<>>)
    BY DEF Consistent
  <2>5. ViewChain
    BY <2>1, <2>2, <2>3, <2>4 DEF ViewChain, SwapChains
  <2>6. ViewCall
    BY <2>1 DEF ViewCall
  <2> QED BY <2>1, <2>5, <2>6 DEF VInv, SettledExact, AggregateIsFurthest
<1>2. VInv /\ [ViewNext]_viewVars => VInv'
  BY ViewKeeps
<1> QED BY <1>1, <1>2, PTL DEF ViewSpec

\* Settled outputs are shown exactly as the selected chain of the first read
\* settles them, with the secret of a claim.
THEOREM SettledIsShown == ViewSpec => []SettledExact
<1>1. VInv => SettledExact
  BY DEF VInv
<1> QED BY <1>1, ViewInvariant, PTL

\* aggregateSwapStatus names the furthest stage of the lifecycle that any output or
\* the local funding has reached, in any order; unrecognized spends count for nothing.
THEOREM AggregateNamesFurthest == ViewSpec => []AggregateIsFurthest
<1>1. VInv => AggregateIsFurthest
  BY DEF VInv
<1> QED BY <1>1, ViewInvariant, PTL

\* If no block arrived during the read, every output has the status that chain
\* and pool give it when the answer is made.
THEOREM QuietViewIsExact == ViewSpec => QuietViewExact
<1> DEFINE A == (pc = "pool" /\ pc' = "answered" /\ tip = cs) =>
                  \A o \in Outputs :
                    Shown(o)' = TrueStatus(o, History(tip) \o pool, Len(History(tip)))
<1>1. VInv /\ [ViewNext]_viewVars => [A]_viewVars
  <2> SUFFICES ASSUME VInv, ViewNext, pc = "pool", pc' = "answered", tip = cs PROVE A
    OBVIOUS
  <2>1. ReadPool
    BY DEF ViewNext, Read, PoolTakes, ChainGrows, IndexCatchesUp, readVars,
           ReadActions, ReadTip, ReadEvents, CheckTip, AskAgain
  <2> QED BY <2>1, ReadPoolViews
<1>2. QuietViewExact <=> [][A]_viewVars
  BY DEF QuietViewExact
<1> QED BY <1>1, <1>2, ViewInvariant, PTL DEF ViewSpec
=============================================================================
