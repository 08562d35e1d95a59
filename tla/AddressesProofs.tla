--------------------------- MODULE AddressesProofs ---------------------------
(***************************************************************************)
(* Proofs about Addresses for every number of references, indices and      *)
(* losses of the database.                                                 *)
(***************************************************************************)
EXTENDS Addresses, TLAPS

\* Only deposit addresses carry a reference.
RowRefs == \A i \in DOMAIN addresses :
             addresses[i].ref # NoReference => addresses[i].kind = "deposit"
CallRefs == \A c \in call : c.kind = "deposit" <=> c.ref # NoReference

\* Below the index of a call there is no gap: rows go away only with the whole
\* table, and not while the daemon runs.
CallNoGap == \A c \in call : \A j \in 0..(c.index - 1) : j \in DOMAIN addresses

\* A call past its insert finds its own row.
CallInserted ==
  \A c \in call : c.pc = "added" =>
    /\ c.index \in DOMAIN addresses
    /\ addresses[c.index].kind = c.kind
    /\ addresses[c.index].ref = c.ref

\* Between a loss and the end of recover-addresses the daemon is down and the
\* table holds nothing but what the command has rebuilt; a running command
\* leaves no gap behind it.
RebuiltOnly ==
  /\ ~up => call = {}
  /\ ~restored => /\ ~up
                  /\ \A i \in DOMAIN addresses : addresses[i].ref = NoReference
  /\ cli < Count => \A j \in 0..(cli - 1) : j \in DOMAIN addresses

\* What was told from a lost database is within Count, and once rebuilt it
\* belongs to no customer.
OldAreChange ==
  \A a \in told :
    /\ a.db <= losses
    /\ a.db < losses => a.index < Count
    /\ a.db < losses /\ restored => /\ a.index \in DOMAIN addresses
                                    /\ addresses[a.index].ref = NoReference

IInv == /\ TypeOK
        /\ RowRefs /\ CallRefs
        /\ CallInserted /\ CallNoGap
        /\ RebuiltOnly
        /\ OldAreChange
        /\ ReferenceStable
        /\ NoReuse
        /\ ToldIsWatched
        /\ NoGaps
-----------------------------------------------------------------------------
\* Inserting a row keeps the table a table and all other rows.
LEMMA InsertShape ==
  ASSUME TypeOK, NEW i \in Nat, NEW kind \in {"deposit", "change"},
         NEW ref \in References \cup {NoReference},
         i \notin DOMAIN addresses, addresses' = Insert(i, kind, ref)
  PROVE  /\ DOMAIN addresses' = DOMAIN addresses \cup {i}
         /\ addresses' \in [DOMAIN addresses' -> Address]
         /\ addresses'[i].kind = kind /\ addresses'[i].ref = ref
         /\ \A j \in DOMAIN addresses : addresses'[j] = addresses[j]
BY DEF Insert, TypeOK, Address

\* Nothing is stored or told at the start.
LEMMA InitIInv == Init => IInv
<1> SUFFICES ASSUME Init PROVE IInv
  OBVIOUS
<1>1. DOMAIN addresses = {} /\ addresses \in [{} -> Address]
  BY DEF Init
<1>2. TypeOK
  <2>1. up \in BOOLEAN /\ restored \in BOOLEAN
    BY DEF Init
  <2>2. cli \in 0..Count /\ losses \in 0..MaxLosses
    BY AddressesAssumption DEF Init
  <2>3. registered = {} /\ call = {} /\ told = {}
    BY DEF Init
  <2> QED BY <1>1, <2>1, <2>2, <2>3 DEF TypeOK
<1>3. told = {} /\ call = {} /\ restored
  BY DEF Init
<1>4. ~(cli < Count)
  BY AddressesAssumption DEF Init
<1> QED BY <1>1, <1>2, <1>3, <1>4
        DEF IInv, RowRefs, CallRefs, CallInserted, CallNoGap, RebuiltOnly, OldAreChange,
            ReferenceStable, NoReuse, ToldIsWatched, NoGaps

\* Telling a client the stored, watched address of its reference.
LEMMA TellKeeps ==
  ASSUME IInv, up, NEW ref \in References, NEW i \in Nat,
         i \in DOMAIN addresses, addresses[i].ref = ref,
         addresses[i].kind = "deposit",
         registered' = registered \cup {i}, Tell(ref, i), call' \subseteq call,
         UNCHANGED <<up, addresses, cli, losses, restored>>
  PROVE  IInv'
<1> DEFINE new == [ref |-> ref, index |-> i, db |-> losses]
<1>1. told' = told \cup {new}
  BY DEF Tell
<1>2. losses \in Nat /\ restored
  BY DEF IInv, TypeOK, RebuiltOnly
<1>3. TypeOK'
  BY <1>1, <1>2 DEF IInv, TypeOK, Answer
<1>4. RowRefs' /\ CallRefs' /\ CallInserted' /\ CallNoGap' /\ RebuiltOnly' /\ NoGaps'
  BY DEF IInv, RowRefs, CallRefs, CallInserted, CallNoGap, RebuiltOnly, NoGaps
<1>5. OldAreChange'
  BY <1>1, <1>2 DEF IInv, OldAreChange
<1>6. ReferenceStable'
  BY <1>1 DEF IInv, ReferenceStable
<1>7. NoReuse'
  <2>1. ASSUME NEW a \in told, a.index = i PROVE a.ref = ref
    <3>1. a \in Answer /\ a.db <= losses
      BY DEF IInv, TypeOK, OldAreChange
    <3>2. ~(a.db < losses)
      BY <1>2, <2>1, AddressesAssumption DEF IInv, OldAreChange
    <3>3. a.db = losses
      BY <1>2, <3>1, <3>2 DEF Answer
    <3> QED BY <2>1, <3>3 DEF IInv, ReferenceStable
  <2>2. new.index = i /\ new.ref = ref
    OBVIOUS
  <2> HIDE DEF new
  <2> SUFFICES ASSUME NEW a \in told', NEW b \in told', a.index = b.index
               PROVE  a.ref = b.ref
    BY DEF NoReuse
  <2> QED BY <1>1, <2>1, <2>2 DEF IInv, NoReuse
<1>8. ToldIsWatched'
  BY <1>1 DEF IInv, ToldIsWatched
<1> QED BY <1>3, <1>4, <1>5, <1>6, <1>7, <1>8 DEF IInv

\* Adding a row where there was none keeps what was told; the new row has no
\* gap below it.
LEMMA InsertKeeps ==
  ASSUME IInv, NEW i \in Nat, NEW kind \in {"deposit", "change"},
         NEW ref \in References \cup {NoReference},
         i \notin DOMAIN addresses,
         ref # NoReference => kind = "deposit" /\ restored,
         \A j \in 0..(i - 1) : j \in DOMAIN addresses,
         addresses' = Insert(i, kind, ref),
         UNCHANGED <<up, registered, losses, told>>,
         restored' \in BOOLEAN, restored => restored'
  PROVE  /\ RowRefs' /\ ReferenceStable' /\ NoReuse'
         /\ ToldIsWatched' /\ NoGaps'
         /\ DOMAIN addresses' \subseteq Nat /\ addresses' \in [DOMAIN addresses' -> Address]
         /\ \A j \in DOMAIN addresses : j \in DOMAIN addresses' /\ addresses'[j] = addresses[j]
<1>1. /\ DOMAIN addresses' = DOMAIN addresses \cup {i}
      /\ addresses' \in [DOMAIN addresses' -> Address]
      /\ addresses'[i].kind = kind /\ addresses'[i].ref = ref
      /\ \A j \in DOMAIN addresses : addresses'[j] = addresses[j]
  BY InsertShape DEF IInv
<1>2. RowRefs'
  BY <1>1 DEF IInv, RowRefs, CallRefs
<1>3. ReferenceStable' /\ NoReuse' /\ ToldIsWatched'
  BY <1>1 DEF IInv, ReferenceStable, NoReuse, ToldIsWatched
<1>4. NoGaps'
  <2> SUFFICES ASSUME NEW k \in DOMAIN addresses', NEW j \in 0..k
               PROVE  j \in DOMAIN addresses'
    BY DEF NoGaps
  <2>1. CASE k = i
    BY <1>1, <2>1
  <2>2. CASE k \in DOMAIN addresses
    BY <1>1, <2>2 DEF IInv, NoGaps
  <2> QED BY <1>1, <2>1, <2>2
<1>5. DOMAIN addresses' \subseteq Nat
  BY <1>1 DEF IInv, TypeOK
<1> QED BY <1>1, <1>2, <1>3, <1>4, <1>5

\* Every step of daemon, operator and command keeps the invariant.
LEMMA NextIInv == IInv /\ [Next]_vars => IInv'
<1> SUFFICES ASSUME IInv, [Next]_vars PROVE IInv'
  OBVIOUS
<1>0. TypeOK /\ losses \in Nat /\ Count \in Nat
  BY AddressesAssumption DEF IInv, TypeOK
<1>1. ASSUME NEW ref \in References, ExistingAddress(ref) PROVE IInv'
  <2>1. PICK i \in DOMAIN addresses : /\ addresses[i].ref = ref
                                      /\ registered' = registered \cup {i}
                                      /\ Tell(ref, i)
    BY <1>1 DEF ExistingAddress
  <2>2. addresses[i].kind = "deposit"
    BY <2>1, AddressesAssumption DEF IInv, RowRefs
  <2>3. i \in Nat /\ up
    BY <1>0, <1>1 DEF TypeOK, ExistingAddress
  <2> QED BY <1>1, <2>1, <2>2, <2>3, TellKeeps DEF ExistingAddress
<1>2. ASSUME NEW kind, NEW ref, DeriveAddress(kind, ref),
             \/ kind = "deposit" /\ ref \in References
             \/ kind = "change" /\ ref = NoReference
      PROVE  IInv'
  <2>1. PICK i \in Index :
          /\ IsNextIndex(i)
          /\ call' = {[pc |-> "derived", index |-> i, kind |-> kind, ref |-> ref]}
    BY <1>2 DEF DeriveAddress
  <2>2. UNCHANGED <<up, addresses, registered, cli, losses, restored, told>> /\ up
    BY <1>2 DEF DeriveAddress
  <2>3. TypeOK'
    BY <1>2, <2>1, <2>2 DEF IInv, TypeOK, Call
  <2>4. CallRefs' /\ CallInserted'
    BY <1>2, <2>1, AddressesAssumption DEF CallRefs, CallInserted
  <2>5. CallNoGap'
    <3>1. \A j \in 0..(i - 1) : j \in DOMAIN addresses
      BY <2>1, AddressesAssumption DEF IInv, NoGaps, IsNextIndex, Index
    <3> QED BY <2>1, <2>2, <3>1 DEF CallNoGap
  <2>6. RowRefs' /\ RebuiltOnly' /\ OldAreChange' /\ ReferenceStable' /\ NoReuse'
        /\ ToldIsWatched' /\ NoGaps'
    BY <2>2 DEF IInv, RowRefs, RebuiltOnly, OldAreChange, ReferenceStable, NoReuse,
                ToldIsWatched, NoGaps
  <2> QED BY <2>3, <2>4, <2>5, <2>6 DEF IInv
<1>3. CASE AddAddress
  <2>1. PICK c \in call : /\ c.pc = "derived"
                          /\ CanInsert(c.index, c.ref)
                          /\ addresses' = Insert(c.index, c.kind, c.ref)
                          /\ call' = {[c EXCEPT !.pc = "added"]}
                          /\ UNCHANGED <<up, registered, cli, losses, restored, told>>
    BY <1>3 DEF AddAddress
  <2>2. /\ c \in Call /\ up /\ restored
        /\ c.index \in Nat /\ c.kind \in {"deposit", "change"}
        /\ c.ref \in References \cup {NoReference}
    BY <1>0, AddressesAssumption DEF IInv, TypeOK, RebuiltOnly, Call, Index
  <2>3. /\ c.index \notin DOMAIN addresses
        /\ c.ref # NoReference => c.kind = "deposit" /\ restored
        /\ \A j \in 0..(c.index - 1) : j \in DOMAIN addresses
    BY <2>1, <2>2 DEF CanInsert, IInv, CallRefs, CallNoGap
  <2>4. /\ RowRefs' /\ ReferenceStable' /\ NoReuse' /\ ToldIsWatched' /\ NoGaps'
        /\ DOMAIN addresses' \subseteq Nat /\ addresses' \in [DOMAIN addresses' -> Address]
        /\ \A j \in DOMAIN addresses : j \in DOMAIN addresses' /\ addresses'[j] = addresses[j]
    BY <1>0, <2>1, <2>2, <2>3, InsertKeeps DEF TypeOK
  <2>5. /\ c.index \in DOMAIN addresses'
        /\ addresses'[c.index].kind = c.kind /\ addresses'[c.index].ref = c.ref
    BY <1>0, <2>1, <2>2, <2>3, InsertShape
  <2>6. \A d \in call' : d \in Call /\ d.index = c.index /\ d.kind = c.kind /\ d.ref = c.ref
    BY <2>1, <2>2 DEF Call
  <2>7. TypeOK'
    BY <1>0, <2>1, <2>4, <2>6 DEF TypeOK
  <2>8. CallRefs' /\ CallInserted' /\ CallNoGap'
    BY <2>3, <2>4, <2>5, <2>6 DEF IInv, CallRefs, CallInserted, CallNoGap
  <2>9. RebuiltOnly' /\ OldAreChange'
    BY <2>1, <2>2, <2>4 DEF IInv, RebuiltOnly, OldAreChange
  <2> QED BY <2>4, <2>7, <2>8, <2>9 DEF IInv
<1>4. CASE RegisterAddress
  <2>1. PICK c \in call :
          /\ c.pc = "added"
          /\ registered' = registered \cup {c.index}
          /\ IF c.kind = "deposit" THEN Tell(c.ref, c.index) ELSE UNCHANGED told
          /\ call' = {}
          /\ UNCHANGED <<up, addresses, cli, losses, restored>>
    BY <1>4 DEF RegisterAddress
  <2>2. /\ c \in Call /\ c.index \in Nat /\ up
        /\ c.ref \in References \cup {NoReference}
        /\ c.index \in DOMAIN addresses
        /\ addresses[c.index].kind = c.kind /\ addresses[c.index].ref = c.ref
    BY <1>0, <2>1, AddressesAssumption
       DEF IInv, TypeOK, RebuiltOnly, CallInserted, Call, Index
  <2>3. CASE c.kind = "deposit"
    <3>1. c.ref \in References
      BY <2>2, <2>3 DEF IInv, CallRefs
    <3> QED BY <2>1, <2>2, <2>3, <3>1, TellKeeps
  <2>4. CASE c.kind # "deposit"
    <3>1. UNCHANGED told
      BY <2>1, <2>4
    <3> QED BY <2>1, <2>2, <3>1
            DEF IInv, TypeOK, RowRefs, CallRefs, CallInserted, CallNoGap, RebuiltOnly,
                OldAreChange, ReferenceStable, NoReuse, ToldIsWatched, NoGaps
  <2> QED BY <2>3, <2>4
<1>5. CASE FailAddress \/ Stop
  <2>1. call' = {} /\ UNCHANGED <<addresses, registered, cli, losses, restored, told>>
    BY <1>5 DEF FailAddress, Stop
  <2>2. up' \in BOOLEAN /\ (up' => up)
    <3>1. up' = up \/ up' = FALSE
      BY <1>5 DEF FailAddress, Stop
    <3>2. up \in BOOLEAN
      BY <1>0 DEF TypeOK
    <3>3. CASE up' = up
      BY <3>2, <3>3, Zenon
    <3>4. CASE up' = FALSE
      BY <3>4
    <3> QED BY <3>1, <3>3, <3>4
  <2> QED BY <2>1, <2>2
          DEF IInv, TypeOK, RowRefs, CallRefs, CallInserted, CallNoGap, RebuiltOnly,
              OldAreChange, ReferenceStable, NoReuse, ToldIsWatched, NoGaps
<1>6. CASE Start
  <2>1. /\ ~up /\ restored /\ up'
        /\ registered' = registered \cup DOMAIN addresses
        /\ UNCHANGED <<addresses, call, cli, losses, restored, told>>
    BY <1>6 DEF Start
  <2> QED BY <2>1
          DEF IInv, TypeOK, RowRefs, CallRefs, CallInserted, CallNoGap, RebuiltOnly,
              OldAreChange, ReferenceStable, NoReuse, ToldIsWatched, NoGaps
<1>7. CASE LoseDatabase
  <2>1. /\ ~up /\ cli = Count /\ losses < MaxLosses
        /\ \A i \in DOMAIN addresses : i < Count
        /\ losses' = losses + 1
        /\ addresses' = [i \in {} |-> {}]
        /\ restored' = FALSE
        /\ UNCHANGED <<up, registered, call, cli, told>>
    BY <1>7 DEF LoseDatabase
  <2>2. DOMAIN addresses' = {} /\ addresses' \in [{} -> Address]
    BY <2>1
  <2>3. call' = {}
    BY <2>1 DEF IInv, RebuiltOnly
  <2>4. ASSUME NEW a \in told'
        PROVE  a.db <= losses /\ a.db < losses' /\ a.db # losses' /\ a.index < Count
    <3>1. a \in told /\ a \in Answer /\ a.db \in Nat
      BY <1>0, <2>1, <2>4 DEF TypeOK, Answer
    <3>2. a.db <= losses /\ (a.db < losses => a.index < Count)
      BY <3>1 DEF IInv, OldAreChange
    <3>3. a.db = losses => a.index < Count
      BY <2>1, <3>1 DEF IInv, ReferenceStable
    <3> QED BY <1>0, <2>1, <3>1, <3>2, <3>3
  <2>5. losses' \in 0..MaxLosses
    BY <1>0, <2>1, AddressesAssumption DEF TypeOK
  <2>6. TypeOK'
    BY <1>0, <2>1, <2>2, <2>3, <2>5 DEF TypeOK
  <2>7. RowRefs' /\ CallRefs' /\ CallInserted' /\ CallNoGap' /\ NoGaps'
    BY <2>2, <2>3 DEF RowRefs, CallRefs, CallInserted, CallNoGap, NoGaps
  <2>8. RebuiltOnly'
    BY <1>0, <2>1, <2>2, <2>3 DEF RebuiltOnly
  <2>9. OldAreChange' /\ ReferenceStable'
    <3>1. ~restored'
      BY <2>1
    <3>2. \A a \in told' : a.db <= losses' /\ a.db # losses' /\ a.index < Count
      <4> SUFFICES ASSUME NEW a \in told'
                   PROVE  a.db <= losses' /\ a.db # losses' /\ a.index < Count
        OBVIOUS
      <4>1. a.db \in Nat
        BY <1>0, <2>1 DEF TypeOK, Answer
      <4> QED BY <1>0, <2>1, <2>4, <4>1
    <3> QED BY <3>1, <3>2 DEF OldAreChange, ReferenceStable
  <2>10. NoReuse' /\ ToldIsWatched'
    BY <2>1 DEF IInv, NoReuse, ToldIsWatched
  <2> QED BY <2>6, <2>7, <2>8, <2>9, <2>10 DEF IInv
<1>8. CASE StartRecovery \/ AbortRecovery
  <2>1. /\ UNCHANGED <<up, addresses, registered, call, losses, restored, told>>
        /\ cli' = 0 \/ cli' = Count
    BY <1>8 DEF StartRecovery, AbortRecovery
  <2>2. TypeOK'
    BY <1>0, <2>1 DEF TypeOK
  <2>3. RebuiltOnly'
    BY <1>0, <2>1 DEF IInv, RebuiltOnly
  <2> QED BY <2>1, <2>2, <2>3
          DEF IInv, RowRefs, CallRefs, CallInserted, CallNoGap,
              OldAreChange, ReferenceStable, NoReuse, ToldIsWatched, NoGaps
<1>9. CASE RecoverIndex
  <2>1. /\ cli < Count
        /\ addresses' = IF cli \in DOMAIN addresses THEN addresses
                        ELSE Insert(cli, "change", NoReference)
        /\ cli' = cli + 1
        /\ restored' = (restored \/ cli' = Count)
        /\ UNCHANGED <<up, registered, call, losses, told>>
    BY <1>9 DEF RecoverIndex
  <2>2. cli \in Nat /\ cli' \in 0..Count
    BY <1>0, <2>1 DEF TypeOK
  <2>3. restored' \in BOOLEAN /\ (restored => restored')
    BY <1>0, <2>1 DEF TypeOK
  <2>4. /\ RowRefs' /\ ReferenceStable' /\ NoReuse' /\ ToldIsWatched' /\ NoGaps'
        /\ DOMAIN addresses' \subseteq Nat /\ addresses' \in [DOMAIN addresses' -> Address]
        /\ \A j \in DOMAIN addresses : j \in DOMAIN addresses' /\ addresses'[j] = addresses[j]
    <3>1. CASE cli \in DOMAIN addresses
      <4>1. addresses' = addresses
        BY <2>1, <3>1
      <4> QED BY <1>0, <2>1, <4>1
              DEF IInv, TypeOK, RowRefs, ReferenceStable, NoReuse, ToldIsWatched, NoGaps
    <3>2. CASE cli \notin DOMAIN addresses
      <4>1. addresses' = Insert(cli, "change", NoReference)
        BY <2>1, <3>2
      <4>2. \A j \in 0..(cli - 1) : j \in DOMAIN addresses
        BY <2>1 DEF IInv, RebuiltOnly
      <4> QED BY <2>1, <2>2, <2>3, <3>2, <4>1, <4>2, InsertKeeps
    <3> QED BY <3>1, <3>2
  <2>5. \A j \in 0..cli : j \in DOMAIN addresses'
    <3>1. cli \in DOMAIN addresses'
      <4>1. CASE cli \in DOMAIN addresses
        BY <2>4, <4>1
      <4>2. CASE cli \notin DOMAIN addresses
        BY <2>1, <4>2 DEF Insert
      <4> QED BY <4>1, <4>2
    <3> QED BY <2>1, <2>2, <2>4, <3>1 DEF IInv, RebuiltOnly
  <2>6. ASSUME ~restored, NEW j \in DOMAIN addresses'
        PROVE  addresses'[j].ref = NoReference
    <3>1. CASE j \in DOMAIN addresses
      BY <2>4, <2>6, <3>1 DEF IInv, RebuiltOnly
    <3>2. CASE j \notin DOMAIN addresses
      <4>1. addresses' = Insert(cli, "change", NoReference)
        BY <2>1, <3>2
      <4> QED BY <2>6, <3>2, <4>1 DEF Insert
    <3> QED BY <3>1, <3>2
  <2>7. TypeOK'
    BY <1>0, <2>1, <2>2, <2>3, <2>4 DEF TypeOK
  <2>8. CallRefs' /\ CallInserted' /\ CallNoGap'
    BY <2>1, <2>4 DEF IInv, CallRefs, CallInserted, CallNoGap
  <2>9. RebuiltOnly'
    BY <2>1, <2>2, <2>3, <2>5, <2>6 DEF IInv, RebuiltOnly
  <2>10. OldAreChange'
    <3> SUFFICES ASSUME NEW a \in told
                 PROVE  /\ a.db <= losses
                        /\ a.db < losses => a.index < Count
                        /\ a.db < losses /\ restored' =>
                             /\ a.index \in DOMAIN addresses'
                             /\ addresses'[a.index].ref = NoReference
      BY <2>1 DEF OldAreChange
    <3>1. a \in Answer /\ a.index \in Nat
      BY <1>0 DEF TypeOK, Answer
    <3>2. a.db <= losses /\ (a.db < losses => a.index < Count)
      BY DEF IInv, OldAreChange
    <3>3. CASE restored
      BY <2>4, <3>2, <3>3 DEF IInv, OldAreChange
    <3>4. CASE ~restored
      <4>1. ASSUME a.db < losses, restored' PROVE a.index \in 0..cli
        <5>1. cli + 1 = Count
          BY <2>1, <3>4, <4>1
        <5> QED BY <1>0, <2>2, <3>1, <3>2, <4>1, <5>1
      <4> QED BY <2>5, <2>6, <3>2, <3>4, <4>1
    <3> QED BY <3>3, <3>4
  <2> QED BY <2>4, <2>7, <2>8, <2>9, <2>10 DEF IInv
<1>10. CASE UNCHANGED vars
  BY <1>10 DEF vars, IInv, TypeOK, RowRefs, CallRefs, CallInserted, CallNoGap, RebuiltOnly,
               OldAreChange, ReferenceStable, NoReuse, ToldIsWatched, NoGaps
<1> QED BY <1>1, <1>2, <1>3, <1>4, <1>5, <1>6, <1>7, <1>8, <1>9, <1>10 DEF Next

\* The invariant holds of every behaviour of daemon, operator and command.
THEOREM AddressInvariant == Spec => []IInv
BY InitIInv, NextIInv, PTL DEF Spec

\* The state keeps its shape, and op admits one newAddress at a time.
THEOREM AddressTypes == Spec => []TypeOK
<1>1. IInv => TypeOK
  BY DEF IInv
<1> QED BY <1>1, AddressInvariant, PTL

\* A client that repeats its reference is given the address it was told before,
\* whatever recover-addresses does next to the daemon.
THEOREM ReferencesAreStable == Spec => []ReferenceStable
<1>1. IInv => ReferenceStable
  BY DEF IInv
<1> QED BY <1>1, AddressInvariant, PTL

\* No two customers share an address, across every loss of the database that
\* recover-addresses was run after.
THEOREM AddressesNotReused == Spec => []NoReuse
<1>1. IInv => NoReuse
  BY DEF IInv
<1> QED BY <1>1, AddressInvariant, PTL

\* Every address a client was told is watched by the wallet index.
THEOREM ToldAddressesWatched == Spec => []ToldIsWatched
<1>1. IInv => ToldIsWatched
  BY DEF IInv
<1> QED BY <1>1, AddressInvariant, PTL

\* Child indices have no gaps, so that a count restores all of them.
THEOREM IndicesHaveNoGaps == Spec => []NoGaps
<1>1. IInv => NoGaps
  BY DEF IInv
<1> QED BY <1>1, AddressInvariant, PTL
=============================================================================
