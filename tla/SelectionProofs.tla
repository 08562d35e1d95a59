--------------------------- MODULE SelectionProofs ---------------------------
(***************************************************************************)
(* Proofs about BuildTransfer: for a wallet of any size, any required      *)
(* value and any input limit, the loop of buildCustodyTransfer picks one   *)
(* of the transfers that CoinSelection specifies, and it reports a lack of *)
(* funds only when no choice of coins within the limit would do.           *)
(*                                                                         *)
(* What a set of coins is worth is a fold: that it does not depend on the  *)
(* order in which the coins are added is proved first, by induction on the *)
(* size of the set (each time as the absence of a least counterexample).   *)
(***************************************************************************)
EXTENDS BuildTransfer, FiniteSetTheorems, WellFoundedInduction, TLAPS

\* Finitely many coins.
Coins(S) == IsFiniteSet(S) /\ \A c \in S : c.value \in Nat

\* The coin that the fold adds last.
OneOf(S) == CHOOSE c \in S : TRUE

\* h adds up the values of the subsets of S, as the fold does.
Adds(h, S) == h = [s \in SUBSET S |-> IF s = {} THEN 0 ELSE OneOf(s).value + h[s \ {OneOf(s)}]]

(***************************************************************************)
(* The inductive invariant.  What lies ahead in the sorted list is cheaper *)
(* than every input, so the inputs are the dearest coins at any time; and  *)
(* the loop either has not reached the value or the limit, and then no     *)
(* coin is lost between inputs and list, or it has stopped.                *)
(***************************************************************************)
Shape ==
  /\ unspent \in SUBSET Wallet /\ required \in Required
  /\ pc \in {"read", "pick", "enough", "short"}
  /\ inputs \in SUBSET SpendableOutputs /\ outputs \in Seq(SpendableOutputs)
  /\ pc = "read" => inputs = {} /\ outputs = <<>>

Counted ==
  /\ total = Total(inputs)
  /\ Cardinality(inputs) <= MaxInputs

Sorted ==
  /\ \A i, j \in 1..Len(outputs) :
        i < j => outputs[i] # outputs[j] /\ outputs[j].value <= outputs[i].value
  /\ \A c \in inputs, i \in 1..Len(outputs) :
        outputs[i] # c /\ outputs[i].value <= c.value

Listed == {outputs[i] : i \in 1..Len(outputs)}

Going ==
  /\ total < required /\ Cardinality(inputs) < MaxInputs
  /\ SpendableOutputs = inputs \cup Listed

Stopped == outputs = <<>> /\ (total >= required \/ Cardinality(inputs) = MaxInputs)

Decided ==
  /\ pc # "read" => Going \/ Stopped
  /\ pc = "enough" => total >= required
  /\ pc = "short" => total < required /\ outputs = <<>>

IInv == /\ Shape /\ Counted /\ Sorted /\ Decided
        /\ TakesDearest(inputs, SpendableOutputs)
        /\ TakesNoMoreThanNeeded(inputs, required)
-----------------------------------------------------------------------------
(* Sums of coins.                                                          *)

\* Every non-empty set of naturals has a least element.
LEMMA LeastNat ==
  ASSUME NEW T, T \subseteq Nat, T # {}
  PROVE  \E n \in T : \A m \in T : n <= m
<1>1. PICK n \in T : \A m \in T : <<m, n>> \notin OpToRel(<, Nat)
  BY WFMin, NatLessThanWellFounded
<1>2. OpToRel(<, Nat) = {p \in Nat \X Nat : p[1] < p[2]}
  BY DEF OpToRel
<1>3. \A m \in T : ~(m < n)
  BY <1>1, <1>2
<1> QED BY <1>3

\* A set of sets of coins, if there is any in it, has one with the fewest coins.
LEMMA FewestCoins ==
  ASSUME NEW F, F # {}, \A S \in F : Coins(S)
  PROVE  \E S \in F : \A U \in F : Cardinality(S) <= Cardinality(U)
<1> DEFINE T == {Cardinality(S) : S \in F}
<1>1. T \subseteq Nat /\ T # {}
  BY FS_CardinalityType DEF Coins
<1>2. PICK n \in T : \A m \in T : n <= m
  <2> HIDE DEF T
  <2> QED BY <1>1, LeastNat
<1> QED BY <1>2

\* Coins taken away.
LEMMA WithoutOne ==
  ASSUME NEW S, Coins(S), NEW c \in S
  PROVE  /\ Coins(S \ {c}) /\ c.value \in Nat
         /\ Cardinality(S) \in Nat \ {0}
         /\ Cardinality(S \ {c}) = Cardinality(S) - 1
<1>1. IsFiniteSet(S \ {c}) /\ Cardinality(S \ {c}) = Cardinality(S) - 1
  BY FS_RemoveElement DEF Coins
<1>2. Cardinality(S) \in Nat /\ Cardinality(S \ {c}) \in Nat
  BY <1>1, FS_CardinalityType DEF Coins
<1> QED BY <1>1, <1>2 DEF Coins

\* Some of the coins are coins.
LEMMA SomeCoins ==
  ASSUME NEW S, Coins(S), NEW T \in SUBSET S
  PROVE  /\ Coins(T) /\ Cardinality(T) \in Nat
         /\ Cardinality(T) <= Cardinality(S)
<1>1. IsFiniteSet(T) /\ Cardinality(T) <= Cardinality(S)
  BY FS_Subset DEF Coins
<1> QED BY <1>1, FS_CardinalityType DEF Coins

\* The chosen coin is one of them.
LEMMA OneOfThem ==
  ASSUME NEW S, S # {}
  PROVE  OneOf(S) \in S
BY DEF OneOf

\* What the fold computes exists: sets of up to n coins are added up for every n.
LEMMA SumExists ==
  ASSUME NEW S, Coins(S)
  PROVE  \E h \in [SUBSET S -> Nat] : Adds(h, S)
<1> DEFINE Upto(n) == {s \in SUBSET S : Cardinality(s) <= n}
           Good(g, n) == \A s \in Upto(n) : g[s] = IF s = {} THEN 0 ELSE OneOf(s).value + g[s \ {OneOf(s)}]
           Has(n) == \E g \in [Upto(n) -> Nat] : Good(g, n)
           Bad == {n \in Nat : ~Has(n)}
<1>0. \A s \in SUBSET S : s # {} => /\ OneOf(s) \in s /\ OneOf(s).value \in Nat
                                    /\ s \ {OneOf(s)} \in SUBSET S
                                    /\ Cardinality(s) \in Nat \ {0}
                                    /\ Cardinality(s \ {OneOf(s)}) = Cardinality(s) - 1
  BY OneOfThem, SomeCoins, WithoutOne
<1>1. Has(0)
  <2>1. \A s \in Upto(0) : s = {}
    BY SomeCoins, FS_EmptySet DEF Coins
  <2>2. Good([s \in Upto(0) |-> 0], 0)
    BY <2>1
  <2>3. [s \in Upto(0) |-> 0] \in [Upto(0) -> Nat]
    OBVIOUS
  <2> QED BY <2>2, <2>3
<1>2. ASSUME NEW n \in Nat, Has(n) PROVE Has(n + 1)
  <2>1. PICK g \in [Upto(n) -> Nat] : Good(g, n)
    BY <1>2
  <2> DEFINE k == [s \in Upto(n + 1) |-> IF s = {} THEN 0 ELSE OneOf(s).value + g[s \ {OneOf(s)}]]
  <2>2. \A s \in Upto(n + 1) : s # {} => s \ {OneOf(s)} \in Upto(n)
    BY <1>0
  <2>3. k \in [Upto(n + 1) -> Nat]
    BY <1>0, <2>2
  <2>4. \A s \in Upto(n) : s \in Upto(n + 1)
    BY SomeCoins
  <2>5. \A s \in Upto(n) : k[s] = g[s]
    BY <2>1, <2>4
  <2>6. Good(k, n + 1)
    BY <2>2, <2>5
  <2> HIDE DEF k
  <2> QED BY <2>3, <2>6
<1>3. Bad = {}
  <2> HIDE DEF Has
  <2> SUFFICES ASSUME Bad # {} PROVE FALSE
    OBVIOUS
  <2>1. PICK n \in Bad : \A m \in Bad : n <= m
    BY LeastNat
  <2>2. n # 0 /\ n - 1 \in Nat /\ n - 1 \notin Bad /\ (n - 1) + 1 = n
    BY <1>1, <2>1
  <2>3. Has(n - 1)
    BY <2>2
  <2>4. Has((n - 1) + 1)
    BY <1>2, <2>2, <2>3
  <2> QED BY <2>1, <2>2, <2>4
<1>4. Cardinality(S) \in Nat /\ Upto(Cardinality(S)) = SUBSET S
  BY SomeCoins
<1>5. PICK h \in [Upto(Cardinality(S)) -> Nat] : Good(h, Cardinality(S))
  BY <1>3, <1>4
<1>6. h \in [SUBSET S -> Nat]
  BY <1>4, <1>5
<1>7. \A s \in SUBSET S : h[s] = IF s = {} THEN 0 ELSE OneOf(s).value + h[s \ {OneOf(s)}]
  BY <1>4, <1>5
<1> QED BY <1>6, <1>7 DEF Adds

\* Total is one of the functions that add up.
LEMMA TotalAdds ==
  ASSUME NEW S, NEW g, Adds(g, S)
  PROVE  \E h : Adds(h, S) /\ Total(S) = h[S]
<1> DEFINE it == CHOOSE h : h = [s \in SUBSET S |-> IF s = {} THEN 0 ELSE OneOf(s).value + h[s \ {OneOf(s)}]]
<1>1. it = [s \in SUBSET S |-> IF s = {} THEN 0 ELSE OneOf(s).value + it[s \ {OneOf(s)}]]
  BY Zenon DEF Adds
<1>2. Total(S) = it[S]
  BY Zenon DEF Total, MapThenSumSet, MapThenFoldSet, OneOf
<1> QED BY <1>1, <1>2, Zenon DEF Adds

\* Two functions that add up agree on the sets that both have.
LEMMA SumsAgree ==
  ASSUME NEW S, NEW T, Coins(S), NEW g, NEW h, Adds(g, S), Adds(h, T)
  PROVE  \A s \in SUBSET (S \cap T) : g[s] = h[s]
<1> DEFINE F == {s \in SUBSET (S \cap T) : g[s] # h[s]}
<1> SUFFICES ASSUME F # {} PROVE FALSE
  OBVIOUS
<1>1. \A s \in F : Coins(s)
  BY SomeCoins
<1>2. PICK s \in F : \A u \in F : Cardinality(s) <= Cardinality(u)
  <2> HIDE DEF F
  <2> QED BY <1>1, FewestCoins
<1>3. s \in SUBSET S /\ s \in SUBSET T /\ g[s] # h[s] /\ Coins(s)
  BY <1>1, <1>2
<1>4. g[s] = IF s = {} THEN 0 ELSE OneOf(s).value + g[s \ {OneOf(s)}]
  BY <1>3 DEF Adds
<1>5. h[s] = IF s = {} THEN 0 ELSE OneOf(s).value + h[s \ {OneOf(s)}]
  BY <1>3 DEF Adds
<1>6. s # {} /\ g[s \ {OneOf(s)}] # h[s \ {OneOf(s)}]
  BY <1>3, <1>4, <1>5
<1>7. s \ {OneOf(s)} \in F
  BY <1>3, <1>6
<1>8. Cardinality(s) \in Nat /\ Cardinality(s \ {OneOf(s)}) = Cardinality(s) - 1
  BY <1>3, <1>6, OneOfThem, WithoutOne
<1> QED BY <1>2, <1>7, <1>8

\* The worth of coins is a natural number; of none, it is 0.
LEMMA TotalNat ==
  ASSUME NEW S, Coins(S)
  PROVE  Total(S) \in Nat /\ (S = {} => Total(S) = 0)
<1>1. PICK g \in [SUBSET S -> Nat] : Adds(g, S)
  BY SumExists
<1>2. PICK h : Adds(h, S) /\ Total(S) = h[S]
  BY <1>1, TotalAdds
<1>3. g[S] = h[S]
  BY <1>1, <1>2, SumsAgree
<1>4. S = {} => g[S] = 0
  BY <1>1 DEF Adds
<1> QED BY <1>1, <1>2, <1>3, <1>4

\* One step of the fold.
LEMMA TotalStep ==
  ASSUME NEW S, Coins(S), S # {}
  PROVE  Total(S) = OneOf(S).value + Total(S \ {OneOf(S)})
<1> DEFINE R == S \ {OneOf(S)}
<1>1. OneOf(S) \in S /\ R \in SUBSET S /\ Coins(R)
  BY OneOfThem, SomeCoins
<1>2. PICK g : Adds(g, S) /\ Total(S) = g[S]
  BY SumExists, TotalAdds
<1>3. PICK h : Adds(h, R) /\ Total(R) = h[R]
  BY <1>1, SumExists, TotalAdds
<1>4. h[R] = g[R]
  BY <1>1, <1>2, <1>3, SumsAgree
<1>5. g[S] = OneOf(S).value + g[R]
  BY <1>2 DEF Adds
<1> QED BY <1>2, <1>3, <1>4, <1>5

\* Any coin may be the last one to be added.
LEMMA TotalWithout ==
  ASSUME NEW S, Coins(S), NEW c \in S
  PROVE  Total(S) = c.value + Total(S \ {c})
<1> DEFINE Wrong(s) == \E d \in s : Total(s) # d.value + Total(s \ {d})
           F == {s \in SUBSET S : Wrong(s)}
<1> SUFFICES ASSUME F # {} PROVE FALSE
  <2>1. S \notin F => ~Wrong(S)
    OBVIOUS
  <2> QED BY <2>1
<1>1. \A s \in F : Coins(s)
  BY SomeCoins
<1>2. PICK s \in F : \A u \in F : Cardinality(s) <= Cardinality(u)
  <2> HIDE DEF F
  <2> QED BY <1>1, FewestCoins
<1>3. PICK d \in s : Total(s) # d.value + Total(s \ {d})
  BY <1>2
<1>4. PICK a \in s : a = OneOf(s)
  BY <1>3, OneOfThem
<1>5. Coins(s) /\ s \in SUBSET S
  BY <1>1, <1>2
<1>6. Total(s) = a.value + Total(s \ {a})
  BY <1>4, <1>5, TotalStep
<1>7. d # a
  BY <1>3, <1>6
<1>8. /\ Coins(s \ {a}) /\ Coins(s \ {d}) /\ Cardinality(s) \in Nat
      /\ Cardinality(s \ {a}) = Cardinality(s) - 1
      /\ Cardinality(s \ {d}) = Cardinality(s) - 1
      /\ a.value \in Nat /\ d.value \in Nat
  BY <1>3, <1>4, <1>5, WithoutOne
<1>9. s \ {a} \notin F /\ s \ {d} \notin F
  <2> HIDE DEF F
  <2> QED BY <1>2, <1>8
<1>10. ~Wrong(s \ {a}) /\ ~Wrong(s \ {d})
  BY <1>5, <1>9
<1>11. Total(s \ {a}) = d.value + Total((s \ {a}) \ {d})
  BY <1>3, <1>7, <1>10
<1>12. Total(s \ {d}) = a.value + Total((s \ {d}) \ {a})
  BY <1>4, <1>7, <1>10
<1>13. (s \ {a}) \ {d} = (s \ {d}) \ {a}
  OBVIOUS
<1>14. PICK rest : rest = (s \ {a}) \ {d}
  OBVIOUS
<1>15. Coins(rest) /\ Total(rest) \in Nat
  BY <1>5, <1>14, SomeCoins, TotalNat
<1>16. /\ Total(s \ {a}) = d.value + Total(rest)
       /\ Total(s \ {d}) = a.value + Total(rest)
  BY <1>11, <1>12, <1>13, <1>14
<1> QED BY <1>3, <1>6, <1>8, <1>15, <1>16

\* A coin more.
LEMMA TotalWith ==
  ASSUME NEW S, Coins(S), NEW c, c \notin S, c.value \in Nat
  PROVE  /\ Coins(S \cup {c}) /\ Total(S \cup {c}) = Total(S) + c.value
         /\ Cardinality(S) \in Nat /\ Cardinality(S \cup {c}) = Cardinality(S) + 1
<1>1. IsFiniteSet(S \cup {c}) /\ Cardinality(S \cup {c}) = Cardinality(S) + 1
  BY FS_AddElement DEF Coins
<1>2. Coins(S \cup {c}) /\ c \in S \cup {c} /\ (S \cup {c}) \ {c} = S
  BY <1>1 DEF Coins
<1>3. Total(S \cup {c}) = c.value + Total(S)
  BY <1>2, TotalWithout
<1> QED BY <1>1, <1>2, <1>3, TotalNat, SomeCoins

\* Fewer and cheaper coins are not worth more: where the two sets differ, those
\* of D are the dearer ones.
LEMMA Exchange ==
  ASSUME NEW D0, Coins(D0), NEW C0, Coins(C0), Cardinality(C0) <= Cardinality(D0),
         \A c \in C0 \ D0, d \in D0 \ C0 : c.value <= d.value
  PROVE  Total(C0) <= Total(D0)
<1> DEFINE Cheaper(C, D) == /\ Cardinality(C) <= Cardinality(D)
                            /\ \A c \in C \ D, d \in D \ C : c.value <= d.value
           Wrong(C) == \E D \in SUBSET D0 : Cheaper(C, D) /\ ~(Total(C) <= Total(D))
           F == {C \in SUBSET C0 : Wrong(C)}
<1> SUFFICES ASSUME F # {} PROVE FALSE
  <2>1. C0 \notin F => ~Wrong(C0)
    OBVIOUS
  <2>2. Cheaper(C0, D0) /\ D0 \in SUBSET D0
    OBVIOUS
  <2> HIDE DEF Cheaper
  <2> QED BY <2>1, <2>2
<1>1. \A C \in F : Coins(C)
  BY SomeCoins
<1>2. PICK C \in F : \A U \in F : Cardinality(C) <= Cardinality(U)
  <2> HIDE DEF F
  <2> QED BY <1>1, FewestCoins
<1>3. PICK D \in SUBSET D0 : Cheaper(C, D) /\ ~(Total(C) <= Total(D))
  BY <1>2
<1>4. Coins(C) /\ C \in SUBSET C0 /\ Coins(D)
  BY <1>1, <1>2, SomeCoins
<1>5. Total(C) \in Nat /\ Total(D) \in Nat /\ Cardinality(C) \in Nat /\ Cardinality(D) \in Nat
  BY <1>4, TotalNat, SomeCoins
<1>6. C # {}
  BY <1>3, <1>4, <1>5, TotalNat
<1>7. \E c \in C, d \in D : c.value <= d.value /\ Cheaper(C \ {c}, D \ {d})
  <2>1. CASE C \subseteq D
    <3>1. PICK c \in C : c \in D
      BY <1>6, <2>1
    <3>2. c.value <= c.value
      BY <1>4 DEF Coins
    <3>3. Cardinality(C \ {c}) <= Cardinality(D \ {c})
      <4>1. /\ Cardinality(C \ {c}) = Cardinality(C) - 1
            /\ Cardinality(D \ {c}) = Cardinality(D) - 1
        BY <1>4, <3>1, WithoutOne
      <4> QED BY <1>3, <1>5, <4>1
    <3>4. Cheaper(C \ {c}, D \ {c})
      BY <1>3, <3>3
    <3> HIDE DEF Cheaper
    <3> QED BY <3>1, <3>2, <3>4
  <2>2. CASE ~(C \subseteq D)
    <3>1. PICK c \in C : c \notin D
      BY <2>2
    <3>2. ~(D \subseteq C)
      <4> SUFFICES ASSUME D \subseteq C PROVE FALSE
        OBVIOUS
      <4>1. D \in SUBSET (C \ {c}) /\ Coins(C \ {c}) /\ Cardinality(C \ {c}) = Cardinality(C) - 1
        BY <1>4, <3>1, WithoutOne
      <4>2. Cardinality(D) <= Cardinality(C \ {c})
        BY <4>1, SomeCoins
      <4> QED BY <1>3, <1>5, <4>1, <4>2
    <3>3. PICK d \in D : d \notin C
      BY <3>2
    <3>4. c.value <= d.value
      BY <1>3, <3>1, <3>3
    <3>5. Cardinality(C \ {c}) <= Cardinality(D \ {d})
      <4>1. /\ Cardinality(C \ {c}) = Cardinality(C) - 1
            /\ Cardinality(D \ {d}) = Cardinality(D) - 1
        BY <1>4, <3>1, <3>3, WithoutOne
      <4> QED BY <1>3, <1>5, <4>1
    <3>6. Cheaper(C \ {c}, D \ {d})
      BY <1>3, <3>1, <3>3, <3>5
    <3> HIDE DEF Cheaper
    <3> QED BY <3>1, <3>3, <3>4, <3>6
  <2> QED BY <2>1, <2>2
<1>8. PICK c \in C, d \in D : c.value <= d.value /\ Cheaper(C \ {c}, D \ {d})
  BY <1>7
<1>9. /\ Coins(C \ {c}) /\ c.value \in Nat /\ Coins(D \ {d}) /\ d.value \in Nat
      /\ Cardinality(C \ {c}) = Cardinality(C) - 1
  BY <1>4, <1>8, WithoutOne
<1>10. C \ {c} \notin F
  <2> HIDE DEF F
  <2> QED BY <1>2, <1>5, <1>9
<1>11. Total(C \ {c}) <= Total(D \ {d})
  <2> HIDE DEF Cheaper
  <2> QED BY <1>4, <1>8, <1>10
<1>12. /\ Total(C) = c.value + Total(C \ {c}) /\ Total(C \ {c}) \in Nat
       /\ Total(D) = d.value + Total(D \ {d}) /\ Total(D \ {d}) \in Nat
  BY <1>4, <1>8, <1>9, TotalWithout, TotalNat
<1> QED BY <1>3, <1>8, <1>9, <1>11, <1>12
-----------------------------------------------------------------------------
(* The loop.                                                               *)

\* What may be spent are coins of the wallet.
LEMMA SpendableCoins ==
  ASSUME Shape
  PROVE  /\ Coins(SpendableOutputs) /\ SpendableOutputs \in SUBSET Wallet /\ Coins(Wallet)
         /\ Coins(inputs) /\ Total(inputs) \in Nat /\ Cardinality(inputs) \in Nat
         /\ required \in Nat \ {0}
<1>1. Coins(Wallet) /\ required \in Nat \ {0}
  BY WalletAssumption DEF Coins, Shape
<1>2. SpendableOutputs \in SUBSET Wallet /\ inputs \in SUBSET SpendableOutputs
  BY DEF Shape, SpendableOutputs
<1>3. Coins(SpendableOutputs) /\ Coins(inputs) /\ Cardinality(inputs) \in Nat
  BY <1>1, <1>2, SomeCoins
<1> QED BY <1>1, <1>2, <1>3, TotalNat

\* The list of all coins, sorted, has them all, each once.
LEMMA SortedList ==
  ASSUME NEW S, IsFiniteSet(S), NEW s \in SetToSeqs(S), Descending(s)
  PROVE  /\ s \in Seq(S) /\ S = {s[i] : i \in 1..Len(s)}
         /\ \A i, j \in 1..Len(s) : i < j => s[i] # s[j] /\ s[j].value <= s[i].value
<1> DEFINE n == Cardinality(S)
<1>1. n \in Nat
  BY FS_CardinalityType
<1> HIDE DEF n
<1>2. s \in [1..n -> S] /\ \A i, j \in 1..n : i # j => s[i] # s[j]
  BY DEF SetToSeqs, n
<1>3. s \in Seq(S) /\ Len(s) = n
  BY <1>1, <1>2
<1>4. s \in Injection(1..n, S)
  BY <1>2 DEF Injection, IsInjective
<1>5. Cardinality(1..n) = n
  BY <1>1, FS_Interval
<1>6. s \in Surjection(1..n, S)
  BY <1>4, <1>5, FS_Injection DEF n
<1>7. S = {s[i] : i \in 1..n}
  BY <1>2, <1>6 DEF Surjection
<1>8. \A i, j \in 1..n : i < j => s[i] # s[j]
  BY <1>1, <1>2
<1>9. \A i, j \in 1..n : i < j => s[i].value >= s[j].value
  BY <1>3 DEF Descending, IsSorted
<1>10. ASSUME NEW i \in 1..n, NEW j \in 1..n, i < j PROVE s[j].value <= s[i].value
  BY <1>9, <1>10
<1> QED BY <1>3, <1>7, <1>8, <1>10

\* Before the loop nothing is picked.
LEMMA InitIInv == Init => IInv
<1> SUFFICES ASSUME Init PROVE IInv
  OBVIOUS
<1>1. Shape
  BY DEF Init, Shape
<1>2. Cardinality({}) = 0 /\ Coins({})
  BY FS_EmptySet DEF Coins
<1>3. Total({}) = 0
  BY <1>2, TotalNat
<1>4. Counted
  BY <1>2, <1>3, SelectionAssumption DEF Init, Counted
<1>5. Sorted
  BY DEF Init, Sorted
<1>6. Decided
  BY DEF Init, Decided
<1> QED BY <1>1, <1>4, <1>5, <1>6 DEF Init, IInv, TakesDearest, TakesNoMoreThanNeeded

\* The outputs are read and sorted: the loop has all of them before it.
LEMMA ReadKeeps ==
  ASSUME IInv, ReadOutputs
  PROVE  IInv'
<1>1. /\ outputs' \in SetToSeqs(SpendableOutputs) /\ Descending(outputs')
      /\ pc = "read" /\ pc' = "pick"
      /\ UNCHANGED <<unspent, poolSpent, required, inputs, total>>
  BY DEF ReadOutputs
<1>2. SpendableOutputs' = SpendableOutputs
  BY <1>1 DEF SpendableOutputs
<1>3. Shape /\ inputs = {} /\ Counted /\ total = 0
  BY <1>1, TotalNat, FS_EmptySet DEF IInv, Shape, Counted, Coins
<1>4. /\ outputs' \in Seq(SpendableOutputs)
      /\ SpendableOutputs = {outputs'[i] : i \in 1..Len(outputs')}
      /\ \A i, j \in 1..Len(outputs') : i < j => /\ outputs'[i] # outputs'[j]
                                                 /\ outputs'[j].value <= outputs'[i].value
  BY <1>1, <1>3, SpendableCoins, SortedList DEF Coins
<1>5. Shape'
  BY <1>1, <1>2, <1>3, <1>4 DEF Shape
<1>6. Counted'
  BY <1>1, <1>3 DEF Counted
<1>7. Sorted'
  BY <1>1, <1>3, <1>4 DEF Sorted
<1>8. Going'
  <2>1. total' < required'
    BY <1>1, <1>3, SpendableCoins
  <2>2. Cardinality(inputs') < MaxInputs
    BY <1>1, <1>3, FS_EmptySet, SelectionAssumption
  <2>3. SpendableOutputs' = inputs' \cup Listed'
    BY <1>1, <1>2, <1>3, <1>4 DEF Listed
  <2> QED BY <2>1, <2>2, <2>3 DEF Going
<1>9. Decided'
  BY <1>1, <1>8 DEF Decided
<1> QED BY <1>1, <1>3, <1>5, <1>6, <1>7, <1>9 DEF IInv, TakesDearest, TakesNoMoreThanNeeded

\* The next output becomes an input: it is the dearest of those that are left
\* and the cheapest of those that are taken.
LEMMA PickKeeps ==
  ASSUME IInv, Pick
  PROVE  IInv'
<1>1. /\ pc = "pick" /\ outputs # <<>>
      /\ UNCHANGED <<unspent, poolSpent, required, pc>>
  BY DEF Pick
<1>2. SpendableOutputs' = SpendableOutputs
  BY <1>1 DEF SpendableOutputs
<1>3. Shape /\ Going
  BY <1>1 DEF IInv, Decided, Stopped
<1>4. PICK c : c = Head(outputs)
  OBVIOUS
<1>5. /\ outputs \in Seq(SpendableOutputs) /\ Len(outputs) \in Nat \ {0}
      /\ c \in SpendableOutputs /\ c = outputs[1]
      /\ Tail(outputs) \in Seq(SpendableOutputs) /\ Len(Tail(outputs)) = Len(outputs) - 1
      /\ \A i \in 1..(Len(outputs) - 1) : Tail(outputs)[i] = outputs[i + 1]
  BY <1>1, <1>3, <1>4 DEF Shape
<1>6. c \notin inputs /\ c.value \in Nat /\ \A d \in inputs : c.value <= d.value
  BY <1>3, <1>5, SpendableCoins DEF IInv, Sorted, Coins
<1>7. /\ inputs' = inputs \cup {c} /\ total' = total + c.value
      /\ \/ outputs' = <<>> /\ (total' >= required \/ Cardinality(inputs') = MaxInputs)
         \/ /\ outputs' = Tail(outputs)
            /\ ~(total' >= required) /\ Cardinality(inputs') # MaxInputs
  BY <1>4 DEF Pick, StopsAt
<1>8. /\ Coins(inputs) /\ total = Total(inputs) /\ total \in Nat /\ required \in Nat
      /\ Cardinality(inputs) \in Nat /\ Coins(SpendableOutputs)
  BY <1>3, SpendableCoins DEF IInv, Counted
<1>9. /\ total' = Total(inputs') /\ total' \in Nat /\ Coins(inputs')
      /\ Cardinality(inputs') = Cardinality(inputs) + 1 /\ Cardinality(inputs') \in Nat
  BY <1>6, <1>7, <1>8, TotalWith
<1>10. Shape'
  <2>0. <<>> \in Seq(SpendableOutputs)
    OBVIOUS
  <2>1. outputs' \in Seq(SpendableOutputs)
    BY <1>5, <1>7, <2>0, Zenon
  <2>2. inputs' \in SUBSET SpendableOutputs
    BY <1>3, <1>5, <1>7 DEF Shape
  <2> QED BY <1>1, <1>2, <1>3, <2>1, <2>2 DEF Shape
<1>11. Counted'
  BY <1>3, <1>8, <1>9, SelectionAssumption DEF Counted, Going
<1>12. Sorted'
  <2>1. CASE outputs' = <<>>
    BY <2>1 DEF Sorted
  <2>2. CASE outputs' = Tail(outputs)
    <3>1. \A i \in 1..Len(outputs') : i + 1 \in 1..Len(outputs) /\ 1 < i + 1 /\ outputs'[i] = outputs[i + 1]
      BY <1>5, <2>2
    <3>2. \A i, j \in 1..Len(outputs') :
            i < j => outputs'[i] # outputs'[j] /\ outputs'[j].value <= outputs'[i].value
      BY <1>5, <2>2, <3>1 DEF IInv, Sorted
    <3>3. \A d \in inputs, i \in 1..Len(outputs') : outputs'[i] # d /\ outputs'[i].value <= d.value
      BY <3>1 DEF IInv, Sorted
    <3>4. \A i \in 1..Len(outputs') : outputs'[i] # c /\ outputs'[i].value <= c.value
      BY <1>5, <3>1 DEF IInv, Sorted
    <3> QED BY <1>7, <3>2, <3>3, <3>4 DEF Sorted
  <2> QED BY <1>7, <2>1, <2>2
<1>13. Decided'
  <2>1. CASE outputs' = <<>> /\ (total' >= required \/ Cardinality(inputs') = MaxInputs)
    BY <1>1, <2>1 DEF Decided, Stopped
  <2>2. CASE /\ outputs' = Tail(outputs)
             /\ ~(total' >= required) /\ Cardinality(inputs') # MaxInputs
    <3>1. total' < required' /\ Cardinality(inputs') < MaxInputs
      BY <1>1, <1>3, <1>8, <1>9, <2>2, SelectionAssumption DEF Going
    <3>2. Listed \subseteq {c} \cup Listed'
      <4> SUFFICES ASSUME NEW i \in 1..Len(outputs), i # 1
                   PROVE  \E j \in 1..Len(outputs') : outputs[i] = outputs'[j]
        BY <1>5 DEF Listed
      <4>1. i - 1 \in 1..(Len(outputs) - 1) /\ (i - 1) + 1 = i
        BY <1>5
      <4> QED BY <1>5, <2>2, <4>1
    <3>3. Listed' \subseteq SpendableOutputs
      BY <1>5, <2>2 DEF Listed
    <3>4. SpendableOutputs' = inputs' \cup Listed'
      BY <1>2, <1>3, <1>5, <1>7, <3>2, <3>3 DEF Going, Shape
    <3> QED BY <1>1, <3>1, <3>4 DEF Decided, Going
  <2> QED BY <1>7, <2>1, <2>2
<1>14. TakesDearest(inputs, SpendableOutputs)'
  <2>1. ASSUME NEW d \in SpendableOutputs \ inputs PROVE d.value <= c.value
    <3>1. PICK i \in 1..Len(outputs) : d = outputs[i]
      BY <1>3, <2>1 DEF Going, Listed
    <3>2. CASE i = 1
      BY <1>5, <1>6, <3>1, <3>2
    <3>3. CASE i # 1
      BY <1>5, <3>1, <3>3 DEF IInv, Sorted
    <3> QED BY <3>2, <3>3
  <2>2. \A e \in inputs, d \in SpendableOutputs \ inputs : d.value <= e.value
    BY DEF IInv, TakesDearest
  <2> QED BY <1>2, <1>7, <2>1, <2>2 DEF TakesDearest
<1>15. TakesNoMoreThanNeeded(inputs, required)'
  <2> SUFFICES ASSUME NEW e \in inputs', \A d \in inputs' : e.value <= d.value
               PROVE  Total(inputs' \ {e}) < required
    BY <1>1 DEF TakesNoMoreThanNeeded
  <2>1. e.value \in Nat /\ e.value <= c.value /\ c.value <= e.value
    BY <1>6, <1>7, <1>9 DEF Coins
  <2>2. Total(inputs') = e.value + Total(inputs' \ {e}) /\ Total(inputs' \ {e}) \in Nat
    BY <1>9, TotalWithout, WithoutOne, TotalNat
  <2> QED BY <1>3, <1>6, <1>7, <1>8, <1>9, <2>1, <2>2 DEF Going
<1> QED BY <1>10, <1>11, <1>12, <1>13, <1>14, <1>15 DEF IInv

\* The loop has ended, and what it has picked is compared with what is needed.
LEMMA DecideKeeps ==
  ASSUME IInv, Decide
  PROVE  IInv'
<1>1. /\ pc = "pick" /\ outputs = <<>> /\ pc' = IF total < required THEN "short" ELSE "enough"
      /\ UNCHANGED <<unspent, poolSpent, required, outputs, inputs, total>>
  BY DEF Decide
<1>2. SpendableOutputs' = SpendableOutputs
  BY <1>1 DEF SpendableOutputs
<1>3. Shape /\ total \in Nat /\ required \in Nat
  BY SpendableCoins DEF IInv, Counted
<1>4. Shape' /\ Counted' /\ Sorted'
  BY <1>1, <1>2 DEF IInv, Shape, Counted, Sorted
<1>5. Decided'
  BY <1>1, <1>2, <1>3 DEF IInv, Decided, Going, Stopped, Listed
<1> QED BY <1>1, <1>2, <1>4, <1>5 DEF IInv, TakesDearest, TakesNoMoreThanNeeded

\* The invariant holds.
THEOREM SelectionInvariant == Spec => []IInv
<1>1. IInv /\ [Next]_vars => IInv'
  <2> SUFFICES ASSUME IInv, [Next]_vars PROVE IInv'
    OBVIOUS
  <2>1. CASE UNCHANGED vars
    <3>1. SpendableOutputs' = SpendableOutputs
      BY <2>1 DEF vars, SpendableOutputs
    <3> QED BY <2>1, <3>1 DEF vars, IInv, Shape, Counted, Sorted, Decided, Going, Stopped, Listed,
                              TakesDearest, TakesNoMoreThanNeeded
  <2> QED BY <2>1, ReadKeeps, PickKeeps, DecideKeeps DEF Next
<1> QED BY <1>1, InitIInv, PTL DEF Spec

\* What the loop of buildCustodyTransfer picks is a transfer of CoinSelection,
\* for every wallet and every required value.
THEOREM LoopPicksTransfer == Spec => []PicksTransfer
<1>1. IInv => PicksTransfer
  <2> SUFFICES ASSUME IInv, pc = "enough"
               PROVE  /\ [ins |-> inputs, change |-> total - required]
                           \in Transfers(SpendableOutputs, required)
                      /\ inputs \cap poolSpent = {}
    BY DEF PicksTransfer
  <2>1. /\ Shape /\ total = Total(inputs) /\ total >= required /\ Cardinality(inputs) <= MaxInputs
        /\ inputs \in SUBSET SpendableOutputs
    BY DEF IInv, Shape, Counted, Decided
  <2>2. /\ total \in Nat /\ required \in Nat \ {0} /\ Coins(inputs)
        /\ Coins(Wallet) /\ inputs \in SUBSET Wallet
    BY <2>1, SpendableCoins
  <2>3. inputs # {}
    BY <2>1, <2>2, TotalNat
  <2>4. Total(inputs) <= Total(Wallet)
    <3>1. Cardinality(inputs) <= Cardinality(Wallet)
      BY <2>2, SomeCoins
    <3>2. \A c \in inputs \ Wallet, d \in Wallet \ inputs : c.value <= d.value
      BY <2>2
    <3> QED BY <2>2, <3>1, <3>2, Exchange
  <2>5. Total(Wallet) \in Nat /\ Total(Wallet) <= Supply /\ Supply \in Nat
    BY <2>2, TotalNat, WalletAssumption, SelectionAssumption
  <2>6. total - required \in 0..Supply /\ Total(inputs) = required + (total - required)
    BY <2>1, <2>2, <2>4, <2>5
  <2>7. inputs \cap poolSpent = {}
    BY <2>1 DEF SpendableOutputs
  <2> QED BY <2>1, <2>3, <2>6, <2>7 DEF Transfers, IInv
<1> QED BY <1>1, SelectionInvariant, PTL

\* No choice of coins within the input limit would do when the loop reports that
\* the balance is insufficient.
THEOREM LackIsReal == Spec => []ShortIsReal
<1>1. IInv => ShortIsReal
  <2> SUFFICES ASSUME IInv, pc = "short",
                      NEW coins \in SUBSET SpendableOutputs, Cardinality(coins) <= MaxInputs
               PROVE  Total(coins) < required
    BY DEF ShortIsReal
  <2>1. /\ Shape /\ total = Total(inputs) /\ total < required /\ outputs = <<>>
        /\ inputs \in SUBSET SpendableOutputs
    BY DEF IInv, Shape, Counted, Decided
  <2>2. /\ total \in Nat /\ required \in Nat /\ Coins(inputs) /\ Coins(SpendableOutputs)
        /\ Cardinality(inputs) \in Nat
    BY <2>1, SpendableCoins
  <2>3. Coins(coins) /\ Total(coins) \in Nat /\ Cardinality(coins) \in Nat
    BY <2>2, SomeCoins, TotalNat
  <2>4. inputs = SpendableOutputs \/ Cardinality(inputs) = MaxInputs
    <3>1. CASE Going
      <4>1. Listed = {}
        BY <2>1 DEF Listed
      <4> QED BY <3>1, <4>1 DEF Going
    <3>2. CASE Stopped
      BY <2>1, <2>2, <3>2 DEF Stopped
    <3> QED BY <3>1, <3>2 DEF IInv, Decided
  <2>5. Cardinality(coins) <= Cardinality(inputs)
    BY <2>2, <2>4, SomeCoins
  <2>6. \A c \in coins \ inputs, d \in inputs \ coins : c.value <= d.value
    BY DEF IInv, TakesDearest
  <2>7. Total(coins) <= Total(inputs)
    BY <2>2, <2>3, <2>5, <2>6, Exchange
  <2> QED BY <2>1, <2>2, <2>3, <2>7
<1> QED BY <1>1, SelectionInvariant, PTL
=============================================================================
