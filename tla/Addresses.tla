------------------------------ MODULE Addresses ------------------------------
(***************************************************************************)
(* Deposit and change addresses: NewDepositAddress and newAddress, the     *)
(* table they fill, the registration with the wallet index that makes a    *)
(* deposit visible, start and stop of the daemon, loss of walletd.sqlite3  *)
(* and its reconstruction by the recover-addresses command, which is a     *)
(* process of its own and takes no lock of the daemon's.                   *)
(*                                                                         *)
(* A child index stands for the address derived from it (derive.Keys is a  *)
(* deterministic function of master seed and index).                       *)
(***************************************************************************)
EXTENDS Integers, FiniteSets

CONSTANTS References,    \* customer references
          NoReference,   \* NULL in the reference column
          Count,         \* -count of recover-addresses
          MaxIndex,      \* bound on child indices
          MaxLosses      \* bound on losses of the database

ASSUME AddressesAssumption ==
  /\ NoReference \notin References
  /\ Count \in Nat \ {0} /\ MaxIndex \in Nat /\ MaxLosses \in Nat

VARIABLES
  up,          \* the daemon runs
  addresses,   \* table addresses: child index -> kind and reference
  registered,  \* indices the wallet index watches (WM.AddAddresses)
  call,        \* the newAddress in flight, under op
  cli,         \* next index recover-addresses looks at; Count when it is done
  losses,      \* losses of the database so far
  restored,    \* recover-addresses has completed since the last loss
  told         \* answers of NewDepositAddress, with the database they came from

vars == <<up, addresses, registered, call, cli, losses, restored, told>>

Index == 0..MaxIndex
Address == [kind : {"deposit", "change"}, ref : References \cup {NoReference}]
Call == [pc : {"derived", "added"}, index : Index,
         kind : {"deposit", "change"}, ref : References \cup {NoReference}]
Answer == [ref : References, index : Nat, db : Nat]

\* INSERT INTO addresses: child_index is the primary key, reference is unique.
Insert(i, kind, ref) ==
  [j \in DOMAIN addresses \cup {i} |->
     IF j = i THEN [kind |-> kind, ref |-> ref] ELSE addresses[j]]

ReferenceTaken(ref) ==
  ref # NoReference /\ \E i \in DOMAIN addresses : addresses[i].ref = ref

CanInsert(i, ref) == i \notin DOMAIN addresses /\ ~ReferenceTaken(ref)

\* Faulty variant: an empty table starts at 1.
IsNextFromOne(i) == /\ \A j \in DOMAIN addresses : j < i
                    /\ i = 1 \/ i - 1 \in DOMAIN addresses

\* NextIndex: COALESCE(MAX(child_index)+1, 0).
IsNextIndex(i) == /\ \A j \in DOMAIN addresses : j < i
                  /\ i = 0 \/ i - 1 \in DOMAIN addresses

Init ==
  /\ up = FALSE
  /\ addresses = [i \in {} |-> {}]
  /\ registered = {}
  /\ call = {}
  /\ cli = Count
  /\ losses = 0
  /\ restored = TRUE
  /\ told = {}
-----------------------------------------------------------------------------
(* NewDepositAddress and newAddress, under op.                             *)

Tell(ref, i) == told' = told \cup {[ref |-> ref, index |-> i, db |-> losses]}

\* Faulty variant: an existing address is returned without registering it.
ExistingUnregistered(ref) ==
  /\ up /\ call = {}
  /\ \E i \in DOMAIN addresses : addresses[i].ref = ref /\ Tell(ref, i)
  /\ UNCHANGED <<up, addresses, registered, call, cli, losses, restored>>

\* The reference has an address: it is registered again and returned.  (If
\* registration fails the call fails and nothing changes.)
ExistingAddress(ref) ==
  /\ up /\ call = {}
  /\ \E i \in DOMAIN addresses :
       /\ addresses[i].ref = ref
       /\ registered' = registered \cup {i}
       /\ Tell(ref, i)
  /\ UNCHANGED <<up, addresses, call, cli, losses, restored>>

\* Faulty variant: newAddress runs without op.
DeriveWithoutOp(kind, ref) ==
  /\ up
  /\ ~ReferenceTaken(ref)
  /\ \E i \in Index :
       /\ IsNextIndex(i)
       /\ call' = call \cup {[pc |-> "derived", index |-> i, kind |-> kind, ref |-> ref]}
  /\ UNCHANGED <<up, addresses, registered, cli, losses, restored, told>>

\* newAddress reads the next index and derives its keys.
DeriveAddress(kind, ref) ==
  /\ up /\ call = {}
  /\ ~ReferenceTaken(ref)
  /\ \E i \in Index :
       /\ IsNextIndex(i)
       /\ call' = {[pc |-> "derived", index |-> i, kind |-> kind, ref |-> ref]}
  /\ UNCHANGED <<up, addresses, registered, cli, losses, restored, told>>

\* AddAddress: the insert succeeds unless the command took the index meanwhile.
AddAddress ==
  \E c \in call :
    /\ c.pc = "derived"
    /\ CanInsert(c.index, c.ref)
    /\ addresses' = Insert(c.index, c.kind, c.ref)
    /\ call' = {[c EXCEPT !.pc = "added"]}
    /\ UNCHANGED <<up, registered, cli, losses, restored, told>>

\* registerAddress succeeds; a deposit address is returned to the client.
RegisterAddress ==
  \E c \in call :
    /\ c.pc = "added"
    /\ registered' = registered \cup {c.index}
    /\ IF c.kind = "deposit" THEN Tell(c.ref, c.index) ELSE UNCHANGED told
    /\ call' = {}
    /\ UNCHANGED <<up, addresses, cli, losses, restored>>

\* The insert or the registration fails: the client gets an error, and a row
\* that was inserted stays.
FailAddress ==
  /\ call # {}
  /\ call' = {}
  /\ UNCHANGED <<up, addresses, registered, cli, losses, restored, told>>
-----------------------------------------------------------------------------
(* The daemon's life.                                                      *)

\* OpenNode registers every stored address.  An operator who has lost the
\* database runs recover-addresses first.
Start ==
  /\ ~up /\ restored
  /\ up' = TRUE
  /\ registered' = registered \cup DOMAIN addresses
  /\ UNCHANGED <<addresses, call, cli, losses, restored, told>>

\* Close, or a crash anywhere.
Stop ==
  /\ up
  /\ up' = FALSE
  /\ call' = {}
  /\ UNCHANGED <<addresses, registered, cli, losses, restored, told>>

\* walletd.sqlite3 is lost while its addresses were still within Count.
LoseDatabase ==
  /\ ~up /\ cli = Count
  /\ losses < MaxLosses
  /\ \A i \in DOMAIN addresses : i < Count
  /\ losses' = losses + 1
  /\ addresses' = [i \in {} |-> {}]
  /\ restored' = FALSE
  /\ UNCHANGED <<up, registered, call, cli, told>>
-----------------------------------------------------------------------------
(* recover-addresses.                                                      *)

StartRecovery ==
  /\ cli = Count
  /\ cli' = 0
  /\ UNCHANGED <<up, addresses, registered, call, losses, restored, told>>

\* Faulty variant: rows that exist are written again.
RecoverOverwriting ==
  /\ cli < Count
  /\ addresses' = Insert(cli, "change", NoReference)
  /\ cli' = cli + 1
  /\ restored' = (restored \/ cli' = Count)
  /\ UNCHANGED <<up, registered, call, losses, told>>

\* Faulty variant: the loop ends one index early.
RecoverShort ==
  /\ cli < Count
  /\ addresses' = IF cli \in DOMAIN addresses \/ cli + 1 = Count THEN addresses
                  ELSE Insert(cli, "change", NoReference)
  /\ cli' = cli + 1
  /\ restored' = (restored \/ cli' = Count)
  /\ UNCHANGED <<up, registered, call, losses, told>>

\* One turn of the loop: a row that exists is kept, one that does not is added
\* as a change address.
RecoverIndex ==
  /\ cli < Count
  /\ addresses' = IF cli \in DOMAIN addresses THEN addresses
                  ELSE Insert(cli, "change", NoReference)
  /\ cli' = cli + 1
  /\ restored' = (restored \/ cli' = Count)
  /\ UNCHANGED <<up, registered, call, losses, told>>

\* The command is interrupted, or the insert loses against the daemon's.
AbortRecovery ==
  /\ cli < Count
  /\ cli' = Count
  /\ UNCHANGED <<up, addresses, registered, call, losses, restored, told>>
-----------------------------------------------------------------------------
Next ==
  \/ \E ref \in References : ExistingAddress(ref) \/ DeriveAddress("deposit", ref)
  \/ DeriveAddress("change", NoReference)
  \/ AddAddress \/ RegisterAddress \/ FailAddress
  \/ Start \/ Stop \/ LoseDatabase
  \/ StartRecovery \/ RecoverIndex \/ AbortRecovery

Spec == Init /\ [][Next]_vars
-----------------------------------------------------------------------------
(* Properties.                                                             *)

\* The state keeps its shape; op admits one newAddress at a time.
TypeOK ==
  /\ up \in BOOLEAN /\ restored \in BOOLEAN
  /\ DOMAIN addresses \subseteq Nat
  /\ addresses \in [DOMAIN addresses -> Address]
  /\ registered \subseteq Nat
  /\ call \subseteq Call /\ \A c, d \in call : c = d
  /\ cli \in 0..Count
  /\ losses \in 0..MaxLosses
  /\ told \subseteq Answer

\* As long as the database lives, a reference keeps the address its client was
\* told, and that address is credited as a deposit.
ReferenceStable ==
  \A a \in told : a.db = losses =>
    /\ a.index \in DOMAIN addresses
    /\ addresses[a.index].kind = "deposit"
    /\ addresses[a.index].ref = a.ref

\* No address is ever given to two customers, also not by a daemon that runs on
\* a table rebuilt by recover-addresses.
NoReuse ==
  \A a, b \in told : a.index = b.index => a.ref = b.ref

\* An address a client was told is watched by the wallet index: a deposit to
\* it is seen.
ToldIsWatched == \A a \in told : a.index \in registered

\* Child indices have no gap, whatever failed or was interrupted: restoring
\* the first n addresses restores every address there was.
NoGaps == \A i \in DOMAIN addresses : \A j \in 0..i : j \in DOMAIN addresses
=============================================================================
