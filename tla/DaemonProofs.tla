---------------------------- MODULE DaemonProofs ----------------------------
(***************************************************************************)
(* Proofs about Service and Daemon, for any number of clients, identifiers,*)
(* restarts and other commands.  A step of a client or of the background   *)
(* of Daemon is a step of Service, so that the lemmas about Service carry  *)
(* its invariant over; the rest is about the rows and the data directory.  *)
(***************************************************************************)
EXTENDS Daemon, TLAPS

(* Service.                                                                *)

\* op is held by exactly the requests past Lock, or by autoDefend.
Held == {"holding", "signing", "stored", "woken"}

OpMeans ==
  /\ \A c \in Clients : pc[c] \in Held => op = c
  /\ loop \in {"seed", "defending"} => op = Loop

\* A copy of the seed is used only by who holds op and has read it.
SeedMeans ==
  /\ \A c \in Clients : c \in seeds => pc[c] \in Held \ {"holding"} /\ want[c] = "sign"
  /\ Loop \in seeds => loop = "defending"

\* What has signed is a signing request.
SignMeans ==
  \A c \in Clients : pc[c] \in {"signing", "stored", "woken"} => want[c] = "sign"

\* Close has waited for the loop.
JoinMeans == stage \in {"locking", "closed"} => loop = "done"

SInv == TypeOK /\ OpMeans /\ SeedMeans /\ SignMeans /\ JoinMeans /\ LockedIsQuiet
-----------------------------------------------------------------------------
\* Nothing is held at the start.
LEMMA SInit == Init => SInv
<1> SUFFICES ASSUME Init PROVE SInv
  OBVIOUS
<1>1. TypeOK
  BY DEF Init, TypeOK, Stages, Places, LoopPlaces, Wants
<1>2. OpMeans /\ SeedMeans /\ SignMeans /\ JoinMeans /\ LockedIsQuiet
  BY DEF Init, OpMeans, SeedMeans, SignMeans, JoinMeans, LockedIsQuiet, Held
<1> QED BY <1>1, <1>2 DEF SInv

\* Two holders of a copy would both hold op.
LEMMA OneSeed ==
  ASSUME SInv, op = Nobody \/ (\E c \in Clients : op = c /\ pc[c] = "holding")
  PROVE  seeds = {}
BY ServiceAssumption DEF SInv, TypeOK, OpMeans, SeedMeans, Held

\* A step of a request keeps the invariant.
LEMMA RequestKeeps ==
  ASSUME SInv, NEW c \in Clients,
         (\E w \in Wants : Request(c, w)) \/ Acquire(c) \/ Serve(c)
  PROVE  SInv'
<1> USE ServiceAssumption
<1>1. ASSUME NEW w \in Wants, Request(c, w) PROVE SInv'
  <2>1. TypeOK'
    BY <1>1 DEF SInv, TypeOK, Request, Move, Places, Wants
  <2>2. pc[c] = "idle" /\ pc' = [pc EXCEPT ![c] = "waiting"] /\ want' = [want EXCEPT ![c] = w]
    BY <1>1 DEF Request, Move
  <2>3. OpMeans' /\ SeedMeans' /\ SignMeans' /\ JoinMeans' /\ LockedIsQuiet'
    BY <1>1, <2>2 DEF SInv, TypeOK, OpMeans, SeedMeans, SignMeans, JoinMeans, LockedIsQuiet, Request, Held
  <2> QED BY <2>1, <2>3 DEF SInv
<1>2. CASE Acquire(c)
  <2>1. TypeOK'
    BY <1>2 DEF SInv, TypeOK, Acquire, Move, Places
  <2>2. OpMeans' /\ SeedMeans' /\ SignMeans' /\ JoinMeans' /\ LockedIsQuiet'
    BY <1>2 DEF SInv, TypeOK, OpMeans, SeedMeans, SignMeans, JoinMeans, LockedIsQuiet, Acquire, Move, Held
  <2> QED BY <2>1, <2>2 DEF SInv
<1>3. CASE CopySeed(c)
  <2>1. TypeOK'
    BY <1>3 DEF SInv, TypeOK, CopySeed, Move, Places
  <2>2. OpMeans' /\ SeedMeans' /\ SignMeans' /\ JoinMeans'
    BY <1>3 DEF SInv, TypeOK, OpMeans, SeedMeans, SignMeans, JoinMeans, CopySeed, Move, Held
  <2>3. LockedIsQuiet'
    BY <1>3 DEF LockedIsQuiet, CopySeed
  <2> QED BY <2>1, <2>2, <2>3 DEF SInv
<1>4. CASE SignEnds(c)
  <2>1. pc[c] \in Held /\ pc' = [pc EXCEPT ![c] = "idle"]
    BY <1>4 DEF SignEnds, Move, Held
  <2>2. op = c /\ op' = Nobody /\ seeds' = seeds \ {c}
        /\ UNCHANGED <<stage, master, wake, loop, want, owed>>
    BY <1>4, <2>1 DEF SInv, OpMeans, SignEnds
  <2>3. TypeOK'
    BY <2>1, <2>2 DEF SInv, TypeOK, Places
  <2>4. OpMeans' /\ SeedMeans' /\ SignMeans' /\ JoinMeans' /\ LockedIsQuiet'
    BY <2>1, <2>2 DEF SInv, TypeOK, OpMeans, SeedMeans, SignMeans, JoinMeans, LockedIsQuiet, Held
  <2> QED BY <2>3, <2>4 DEF SInv
<1>5. CASE Store(c)
  <2>1. TypeOK'
    BY <1>5 DEF SInv, TypeOK, Store, Move, Places
  <2>2. OpMeans' /\ SeedMeans' /\ SignMeans' /\ JoinMeans' /\ LockedIsQuiet'
    BY <1>5 DEF SInv, TypeOK, OpMeans, SeedMeans, SignMeans, JoinMeans, LockedIsQuiet, Store, Move, Held
  <2> QED BY <2>1, <2>2 DEF SInv
<1>6. CASE StoredWake(c)
  <2>1. TypeOK'
    BY <1>6 DEF SInv, TypeOK, StoredWake, Wake, Move, Places
  <2>2. OpMeans' /\ SeedMeans' /\ SignMeans' /\ JoinMeans' /\ LockedIsQuiet'
    BY <1>6 DEF SInv, TypeOK, OpMeans, SeedMeans, SignMeans, JoinMeans, LockedIsQuiet, StoredWake, Move, Held
  <2> QED BY <2>1, <2>2 DEF SInv
<1>7. CASE Unlock(c)
  <2>0. op = c
    BY <1>7 DEF SInv, OpMeans, Unlock, Move, Held
  <2>1. TypeOK'
    BY <1>7 DEF SInv, TypeOK, Unlock, Move, Places
  <2>2. OpMeans' /\ SeedMeans' /\ SignMeans' /\ JoinMeans'
    BY <1>7, <2>0 DEF SInv, TypeOK, OpMeans, SeedMeans, SignMeans, JoinMeans, Unlock, Move, Held
  <2>3. LockedIsQuiet'
    BY <1>7 DEF LockedIsQuiet, Unlock
  <2> QED BY <2>1, <2>2, <2>3 DEF SInv
<1>8. CASE UnlockWake(c)
  <2>1. TypeOK'
    BY <1>8 DEF SInv, TypeOK, UnlockWake, Wake, Move, Places
  <2>2. OpMeans' /\ SeedMeans' /\ SignMeans' /\ JoinMeans' /\ LockedIsQuiet'
    BY <1>8 DEF SInv, TypeOK, OpMeans, SeedMeans, SignMeans, JoinMeans, LockedIsQuiet, UnlockWake, Move, Held
  <2> QED BY <2>1, <2>2 DEF SInv
<1>9. CASE Lock(c)
  <2>0. op = c /\ pc[c] = "holding"
    BY <1>9 DEF SInv, OpMeans, Lock, Move, Held
  <2>1. TypeOK'
    BY <1>9 DEF SInv, TypeOK, Lock, Move, Places
  <2>2. OpMeans' /\ SeedMeans' /\ SignMeans' /\ JoinMeans'
    BY <1>9, <2>0 DEF SInv, TypeOK, OpMeans, SeedMeans, SignMeans, JoinMeans, Lock, Move, Held
  <2>3. seeds = {}
    BY <2>0, OneSeed
  <2>4. LockedIsQuiet'
    BY <1>9, <2>3 DEF LockedIsQuiet, Lock
  <2> QED BY <2>1, <2>2, <2>4 DEF SInv
<1> QED BY <1>1, <1>2, <1>3, <1>4, <1>5, <1>6, <1>7, <1>8, <1>9 DEF Serve

\* A step of the loop keeps the invariant.
LEMMA LoopKeeps ==
  ASSUME SInv, Reorg \/ Tick \/ LoopStep \/ LoopReturns
  PROVE  SInv'
<1> USE ServiceAssumption DEF SInv
<1>1. CASE Reorg \/ Tick \/ TakeWake \/ LoopReturns \/ PassEnds
  <2>1. TypeOK'
    BY <1>1 DEF TypeOK, LoopPlaces, Wake, Reorg, Tick, TakeWake, LoopReturns, PassEnds
  <2>2. OpMeans' /\ SeedMeans' /\ SignMeans'
    BY <1>1 DEF OpMeans, SeedMeans, SignMeans, Reorg, Tick, TakeWake, LoopReturns, PassEnds
  <2>3. JoinMeans' /\ LockedIsQuiet'
    BY <1>1 DEF JoinMeans, LockedIsQuiet, Reorg, Tick, TakeWake, LoopReturns, PassEnds
  <2> QED BY <2>1, <2>2, <2>3
<1>2. CASE DefendWanted
  <2>0. loop = "defend" /\ loop' \in {"trylock", "select"}
        /\ UNCHANGED <<stage, op, master, seeds, wake, pc, want, owed>>
    BY <1>2 DEF DefendWanted
  <2> QED BY <2>0 DEF TypeOK, LoopPlaces, OpMeans, SeedMeans, SignMeans, JoinMeans, LockedIsQuiet
<1>3. CASE TryLock
  <2>0. /\ loop = "trylock"
        /\ UNCHANGED <<stage, master, seeds, wake, pc, want, owed>>
        /\ \/ op = Nobody /\ op' = Loop /\ loop' = "seed"
           \/ op' = op /\ loop' = "select"
    BY <1>3 DEF TryLock
  <2>1. TypeOK'
    BY <2>0 DEF TypeOK, LoopPlaces
  <2>2. OpMeans' /\ SeedMeans' /\ SignMeans' /\ JoinMeans' /\ LockedIsQuiet'
    BY <2>0 DEF TypeOK, OpMeans, SeedMeans, SignMeans, JoinMeans, LockedIsQuiet, Held
  <2> QED BY <2>1, <2>2
<1>4. CASE DefendSeed
  <2>1. TypeOK'
    BY <1>4 DEF TypeOK, LoopPlaces, DefendSeed
  <2>2. OpMeans' /\ SeedMeans' /\ SignMeans' /\ JoinMeans'
    BY <1>4 DEF OpMeans, SeedMeans, SignMeans, JoinMeans, DefendSeed
  <2>3. LockedIsQuiet'
    BY <1>4 DEF LockedIsQuiet, DefendSeed
  <2> QED BY <2>1, <2>2, <2>3
<1>5. CASE DefendEnds
  <2>0. op = Loop
    BY <1>5 DEF OpMeans, DefendEnds
  <2>1. TypeOK'
    BY <1>5 DEF TypeOK, LoopPlaces, DefendEnds
  <2>2. OpMeans' /\ SeedMeans' /\ SignMeans' /\ JoinMeans' /\ LockedIsQuiet'
    BY <1>5, <2>0 DEF OpMeans, SeedMeans, SignMeans, JoinMeans, LockedIsQuiet, DefendEnds, Held
  <2> QED BY <2>1, <2>2
<1> QED BY <1>1, <1>2, <1>3, <1>4, <1>5 DEF LoopStep

\* A step of the shutdown keeps the invariant.
LEMMA CloseKeeps ==
  ASSUME SInv, Signal \/ Close \/ CloseLocks
  PROVE  SInv'
<1>1. TypeOK'
  BY DEF SInv, TypeOK, Stages, Signal, Close, Drained, Joined, CloseLocks
<1>2. OpMeans' /\ SeedMeans' /\ SignMeans' /\ JoinMeans'
  BY DEF SInv, OpMeans, SeedMeans, SignMeans, JoinMeans, Signal, Close, Drained, Joined, CloseLocks
<1>3. LockedIsQuiet'
  <2>1. CASE CloseLocks
    <3>1. seeds = {} /\ seeds' = seeds
      BY <2>1, OneSeed DEF CloseLocks
    <3> QED BY <3>1 DEF LockedIsQuiet
  <2>2. CASE Signal \/ Close
    BY <2>2 DEF SInv, LockedIsQuiet, Signal, Close, Drained, Joined
  <2> QED BY <2>1, <2>2
<1> QED BY <1>1, <1>2, <1>3 DEF SInv

\* The invariant holds of every interleaving of requests, loop and shutdown.
THEOREM ServiceInvariant == Spec => []SInv
<1>1. SInv /\ UNCHANGED vars => SInv'
  BY DEF vars, SInv, TypeOK, OpMeans, SeedMeans, SignMeans, JoinMeans, LockedIsQuiet
<1>2. SInv /\ [Next]_vars => SInv'
  BY <1>1, RequestKeeps, LoopKeeps, CloseKeeps DEF Next
<1> QED BY <1>2, SInit, PTL DEF Spec

\* Lock returns only after every operation that had copied the seed: while the
\* wallet is locked nobody signs.
THEOREM LockWaitsForSigners == Spec => []LockedIsQuiet
<1>1. SInv => LockedIsQuiet
  BY DEF SInv
<1> QED BY <1>1, ServiceInvariant, PTL

\* No pass runs once Close has returned.
THEOREM CloseWaitsForLoop == Spec => []NoPassAfterClose
<1>1. SInv => NoPassAfterClose
  BY DEF SInv, JoinMeans, NoPassAfterClose
<1> QED BY <1>1, ServiceInvariant, PTL

\* The state keeps its shape: rebroadcastWake never holds more than one message.
THEOREM ServiceTypes == Spec => []TypeOK
<1>1. SInv => TypeOK
  BY DEF SInv
<1> QED BY <1>1, ServiceInvariant, PTL
-----------------------------------------------------------------------------
(* Daemon.                                                                 *)

\* Before the service exists, nothing of it does.
BootMeans == boot \in {"off", "opening"} => loop = "done" /\ stage = "closed"

OpenPlaces == {"closed", "begun", "tables", "height", "block", "index", "open"}

DirType ==
  /\ columns \subseteq Columns
  /\ at \in [Procs -> OpenPlaces]
  /\ seen \in [Procs -> SUBSET Columns]

\* Columns are only added, so that what a process has read is still there; how
\* far it has come says which ones it has seen or added.
DirMeans ==
  /\ \A p \in Procs : seen[p] \subseteq columns
  /\ \A p \in Procs : at[p] \in {"block", "index", "open"} => "confirmed_height" \in columns
  /\ \A p \in Procs : at[p] \in {"index", "open"} => "confirmed_block_id" \in columns

TokenMeans ==
  /\ token \in {"absent", "partial", "whole"}
  /\ boot \in {"listen", "up"} => token = "whole"

ApiType ==
  /\ ask \in [Clients -> Asks]
  /\ rows \in [Ids -> Bodies \cup {NoRow}]
  /\ created \in [Ids -> Nat]
  /\ said \subseteq Asks

\* A request that signs has found no row and, as it holds op, nobody stores one
\* meanwhile; one that has stored its row has not been answered, nor has anyone
\* else been told 201.
RowMeans ==
  /\ \A c \in Clients : pc[c] = "signing" => Row(c) = NoRow
  /\ \A c \in Clients : pc[c] \in {"stored", "woken"} =>
       Row(c) = ask[c].body /\ created[ask[c].id] = 0
  /\ \A i \in Ids : rows[i] = NoRow => created[i] = 0

DirInv == DirType /\ DirMeans
ApiInv == ApiType /\ RowMeans /\ CreatedOnce
DInv == SInv /\ BootMeans /\ DirInv /\ TokenMeans /\ ApiInv
-----------------------------------------------------------------------------
\* An early or empty directory, and no process.
LEMMA DInit == DaemonInit => DInv
<1> SUFFICES ASSUME DaemonInit PROVE DInv
  OBVIOUS
<1>1. TypeOK
  BY DEF DaemonInit, TypeOK, Stages, Places, LoopPlaces, Wants
<1>2. OpMeans /\ SeedMeans /\ SignMeans /\ JoinMeans /\ LockedIsQuiet
  BY DEF DaemonInit, OpMeans, SeedMeans, SignMeans, JoinMeans, LockedIsQuiet, Held
<1>3. BootMeans /\ TokenMeans
  BY DEF DaemonInit, BootMeans, TokenMeans, DirInit
<1>4. DirInv
  BY DEF DaemonInit, DirInit, DirInv, DirType, DirMeans, OpenPlaces
<1>5. ApiInv
  BY DEF DaemonInit, ApiInit, ApiInv, ApiType, RowMeans, CreatedOnce
<1> QED BY <1>1, <1>2, <1>3, <1>4, <1>5 DEF DInv, SInv
-----------------------------------------------------------------------------
(* The data directory.                                                     *)

\* A process closes the database, or has not opened it.
LEMMA CloseStoreKeeps ==
  ASSUME DirInv, NEW p \in Procs, CloseStore(p)
  PROVE  DirInv'
BY DEF DirInv, DirType, DirMeans, CloseStore, OpenPlaces

\* A statement of meta.Open.
LEMMA OpenKeeps ==
  ASSUME DirInv, NEW p \in Procs, Open(p) \/ BeginOpen(p) \/ InitWallet(p)
  PROVE  DirInv'
<1> USE DEF DirInv
<1>1. CASE BeginOpen(p) \/ InitWallet(p)
  BY <1>1 DEF DirType, DirMeans, BeginOpen, InitWallet, Step, OpenPlaces
<1>2. CASE CreateTables(p)
  BY <1>2 DEF DirType, DirMeans, CreateTables, Step, OpenPlaces, Columns
<1>3. CASE ReadColumns(p)
  BY <1>3 DEF DirType, DirMeans, ReadColumns, Step, OpenPlaces
<1>4. CASE AddHeight(p)
  <2>1. columns' = columns \cup ({"confirmed_height"} \ seen[p])
    BY <1>4 DEF AddHeight, AddColumn
  <2>2. columns \subseteq columns' /\ "confirmed_height" \in columns' /\ columns' \subseteq Columns
    BY <2>1 DEF DirMeans, DirType, Columns
  <2> QED BY <1>4, <2>2 DEF DirType, DirMeans, AddHeight, AddColumn, Step, OpenPlaces
<1>5. CASE AddBlockID(p)
  <2>1. columns' = columns \cup ({"confirmed_block_id"} \ seen[p])
    BY <1>5 DEF AddBlockID, AddColumn
  <2>2. columns \subseteq columns' /\ "confirmed_block_id" \in columns' /\ columns' \subseteq Columns
    BY <2>1 DEF DirMeans, DirType, Columns
  <2> QED BY <1>5, <2>2 DEF DirType, DirMeans, AddBlockID, AddColumn, Step, OpenPlaces
<1>6. CASE CreateIndices(p)
  BY <1>6 DEF DirType, DirMeans, CreateIndices, Step, OpenPlaces
<1> QED BY <1>1, <1>2, <1>3, <1>4, <1>5, <1>6 DEF Open

\* The token has no part in it.
LEMMA DirUnchanged ==
  ASSUME DirInv, UNCHANGED <<columns, at, seen>>
  PROVE  DirInv'
BY DEF DirInv, DirType, DirMeans
-----------------------------------------------------------------------------
(* Rows and answers.                                                       *)

\* The rows and where requests are: nothing else matters.
LEMMA ApiUnchanged ==
  ASSUME ApiInv, UNCHANGED <<apiVars, pc>>
  PROVE  ApiInv'
BY DEF ApiInv, ApiType, RowMeans, CreatedOnce, Row, apiVars

\* A request goes to a place where nothing is known of it.
LEMMA ApiMoves ==
  ASSUME ApiInv, SInv, UNCHANGED apiVars,
         NEW c \in Clients, NEW to \in {"idle", "waiting", "holding", "unlocked"},
         pc' = [pc EXCEPT ![c] = to]
  PROVE  ApiInv'
BY DEF ApiInv, ApiType, RowMeans, CreatedOnce, Row, apiVars, SInv, TypeOK

\* A step of a request keeps rows and answers true.
LEMMA AnswerKeeps ==
  ASSUME ApiInv, SInv, NEW c \in Clients, Answer(c)
  PROVE  ApiInv'
<1> USE ServiceAssumption, ApiAssumption
<1>1. CASE Existing(c)
  <2>1. pc[c] = "holding" /\ pc' = [pc EXCEPT ![c] = "idle"] /\ UNCHANGED <<ask, rows>>
    BY <1>1 DEF Existing, SignEnds, Move
  <2>2. \A d \in Clients : pc[d] \notin {"signing", "stored", "woken"}
    BY <2>1 DEF SInv, OpMeans, Held
  <2>3. \/ UNCHANGED <<said, created>>
        \/ /\ Row(c) = ask[c].body
           /\ said' = said \cup {ask[c]}
           /\ created' = [created EXCEPT ![ask[c].id] = @ + 0]
    BY <1>1 DEF Existing, Tell
  <2>4. created' = created
    BY <2>3 DEF ApiInv, ApiType, Asks
  <2>5. ApiType'
    BY <2>1, <2>3, <2>4 DEF ApiInv, ApiType
  <2>6. RowMeans'
    BY <2>1, <2>2, <2>4 DEF ApiInv, RowMeans, Row, SInv, TypeOK
  <2>7. CreatedOnce'
    BY <2>1, <2>3, <2>4 DEF ApiInv, CreatedOnce, Row
  <2> QED BY <2>5, <2>6, <2>7 DEF ApiInv
<1>2. CASE BeginNew(c)
  BY <1>2 DEF BeginNew, CopySeed, Move, ApiInv, ApiType, RowMeans, CreatedOnce, Row, apiVars, SInv, TypeOK
<1>3. CASE Fail(c)
  <2>1. pc' = [pc EXCEPT ![c] = "idle"] /\ UNCHANGED apiVars
    BY <1>3 DEF Fail, SignEnds, Move
  <2> QED BY <2>1, ApiMoves
<1>4. CASE AddRow(c)
  <2>1. /\ pc[c] = "signing" /\ pc' = [pc EXCEPT ![c] = "stored"]
        /\ Row(c) = NoRow
        /\ rows' = [rows EXCEPT ![ask[c].id] = ask[c].body]
        /\ UNCHANGED <<ask, created, said>>
    BY <1>4 DEF AddRow, Store, Move
  <2>2. \A d \in Clients : d # c => pc[d] \notin {"signing", "stored", "woken"}
    BY <2>1 DEF SInv, OpMeans, Held
  <2>3. ask[c] \in Asks /\ ask[c].id \in Ids /\ ask[c].body \in Bodies
    BY DEF ApiInv, ApiType, Asks
  <2>4. ApiType'
    BY <2>1, <2>3 DEF ApiInv, ApiType
  <2>5. RowMeans'
    BY <2>1, <2>2, <2>3 DEF ApiInv, ApiType, RowMeans, Row, SInv, TypeOK
  <2>6. \A q \in said : q.id # ask[c].id
    BY <2>1, <2>3 DEF ApiInv, ApiType, CreatedOnce, Row, Asks
  <2>7. CreatedOnce'
    BY <2>1, <2>3, <2>6 DEF ApiInv, ApiType, CreatedOnce, Asks
  <2> QED BY <2>4, <2>5, <2>7 DEF ApiInv
<1>5. CASE AnswerCreated(c)
  <2>1. pc[c] = "woken" /\ pc' = [pc EXCEPT ![c] = "idle"] /\ UNCHANGED <<ask, rows>>
    BY <1>5 DEF AnswerCreated, SignEnds, Move
  <2>2. \A d \in Clients : d # c => pc[d] \notin {"signing", "stored", "woken"}
    BY <2>1 DEF SInv, OpMeans, Held
  <2>3. Row(c) = ask[c].body /\ created[ask[c].id] = 0
    BY <2>1 DEF ApiInv, RowMeans
  <2>4. ask[c] \in Asks /\ ask[c].id \in Ids /\ ask[c].body \in Bodies
    BY DEF ApiInv, ApiType, Asks
  <2>5. \/ UNCHANGED <<said, created>>
        \/ /\ said' = said \cup {ask[c]}
           /\ created' = [created EXCEPT ![ask[c].id] = @ + 1]
    BY <1>5 DEF AnswerCreated, Tell
  <2>6. ApiType'
    BY <2>1, <2>4, <2>5 DEF ApiInv, ApiType
  <2>7. RowMeans'
    BY <2>1, <2>2, <2>3, <2>4, <2>5 DEF ApiInv, ApiType, RowMeans, Row, SInv, TypeOK
  <2>8. CreatedOnce'
    BY <2>1, <2>3, <2>4, <2>5 DEF ApiInv, ApiType, CreatedOnce, Row
  <2> QED BY <2>6, <2>7, <2>8 DEF ApiInv
<1>6. CASE StoredWake(c) /\ UNCHANGED apiVars
  BY <1>6 DEF StoredWake, Move, ApiInv, ApiType, RowMeans, CreatedOnce, Row, apiVars, SInv, TypeOK
<1>7. CASE (Unlock(c) \/ UnlockWake(c) \/ Lock(c)) /\ UNCHANGED apiVars
  <2>1. \E to \in {"idle", "unlocked"} : pc' = [pc EXCEPT ![c] = to]
    BY <1>7 DEF Unlock, UnlockWake, Lock, Move
  <2> QED BY <1>7, <2>1, ApiMoves
<1> QED BY <1>1, <1>2, <1>3, <1>4, <1>5, <1>6, <1>7 DEF Answer
-----------------------------------------------------------------------------
(* The process.                                                            *)

\* A request refused for its password leaves the service as it was.
LEMMA WrongPasswordKeeps ==
  ASSUME SInv, NEW c \in Clients, WrongPassword(c)
  PROVE  SInv'
<1>1. pc[c] = "waiting" /\ pc' = [pc EXCEPT ![c] = "idle"]
      /\ UNCHANGED <<stage, op, master, seeds, wake, loop, want, owed>>
  BY DEF WrongPassword, Move
<1>2. TypeOK'
  BY <1>1 DEF SInv, TypeOK, Places
<1>3. OpMeans' /\ SeedMeans' /\ SignMeans' /\ JoinMeans' /\ LockedIsQuiet'
  BY <1>1 DEF SInv, TypeOK, OpMeans, SeedMeans, SignMeans, JoinMeans, LockedIsQuiet, Held
<1> QED BY <1>2, <1>3 DEF SInv

\* A step of a client.
LEMMA ClientKeeps ==
  ASSUME DInv, NEW c \in Clients, Client(c)
  PROVE  DInv'
<1> USE DEF DInv
<1>1. UNCHANGED <<dirVars, boot>>
  BY DEF Client
<1>2. DirInv' /\ TokenMeans'
  BY <1>1, DirUnchanged DEF dirVars, TokenMeans
<1>3. CASE boot = "up" /\ Ask(c)
  <2>1. \E w \in Wants : Request(c, w)
    BY <1>3 DEF Ask, Post, PostLock, PostUnlock, Wants
  <2>2. SInv'
    BY <2>1, RequestKeeps
  <2>3. pc' = [pc EXCEPT ![c] = "waiting"] /\ UNCHANGED apiVars
    BY <1>3 DEF Ask, Post, PostLock, PostUnlock, Request, Move
  <2>4. ApiInv'
    BY <2>3, ApiMoves
  <2>5. BootMeans'
    BY <1>1, <1>3 DEF BootMeans
  <2> QED BY <1>2, <2>2, <2>4, <2>5
<1>4. CASE Acquire(c) /\ UNCHANGED apiVars
  <2>1. SInv'
    BY <1>4, RequestKeeps
  <2>2. pc' = [pc EXCEPT ![c] = "holding"] /\ UNCHANGED <<loop, stage>>
    BY <1>4 DEF Acquire, Move
  <2>3. ApiInv'
    BY <1>4, <2>2, ApiMoves
  <2> QED BY <1>1, <1>2, <2>1, <2>2, <2>3 DEF BootMeans
<1>5. CASE WrongPassword(c)
  <2>1. pc' = [pc EXCEPT ![c] = "idle"] /\ UNCHANGED <<loop, stage, apiVars>>
    BY <1>5 DEF WrongPassword, Move
  <2>2. ApiInv'
    BY <2>1, ApiMoves
  <2> QED BY <1>1, <1>2, <1>5, <2>1, <2>2, WrongPasswordKeeps DEF BootMeans
<1>6. CASE Answer(c)
  <2>1. Serve(c)
    BY <1>6 DEF Answer, Serve, Existing, BeginNew, Fail, AddRow, AnswerCreated
  <2>2. SInv'
    BY <2>1, RequestKeeps
  <2>3. UNCHANGED <<loop, stage>>
    BY <2>1 DEF Serve, CopySeed, SignEnds, Store, StoredWake, Unlock, UnlockWake, Lock
  <2>4. ApiInv'
    BY <1>6, AnswerKeeps
  <2> QED BY <1>1, <1>2, <2>2, <2>3, <2>4 DEF BootMeans
<1> QED BY <1>3, <1>4, <1>5, <1>6 DEF Client

\* A step of the loop, of the chain manager, of the signal or of Close.
LEMMA BackgroundKeeps ==
  ASSUME DInv, Background
  PROVE  DInv'
<1> USE DEF DInv
<1>1. SInv'
  BY LoopKeeps, CloseKeeps DEF Background, Close
<1>2. UNCHANGED <<apiVars, dirVars, boot>> /\ UNCHANGED pc
  BY DEF Background, Reorg, Tick, LoopStep, TakeWake, PassEnds, DefendWanted, TryLock, DefendSeed,
         DefendEnds, LoopReturns, Signal, Joined, CloseLocks
<1>3. DirInv' /\ TokenMeans' /\ ApiInv'
  BY <1>2, DirUnchanged, ApiUnchanged DEF dirVars, TokenMeans
<1>4. BootMeans'
  BY <1>2 DEF BootMeans, Background, Reorg, Tick, LoopStep, TakeWake, PassEnds, DefendWanted, TryLock,
         DefendSeed, DefendEnds, LoopReturns, Signal, Joined, CloseLocks
<1> QED BY <1>1, <1>3, <1>4

\* A step of runDaemon.
LEMMA BootKeeps ==
  ASSUME DInv, Start \/ Boot \/ Fails \/ ShutDown
  PROVE  DInv'
<1> USE ServiceAssumption, DaemonAssumption DEF DInv
<1>0. Main \in Procs
  OBVIOUS
<1>1. CASE Start \/ OpenRecords
  <2>1. UNCHANGED <<serviceVars, apiVars>> /\ boot' = "opening" /\ boot \in {"off", "opening"}
    BY <1>1 DEF Start, OpenRecords
  <2>2. DirInv'
    BY <1>0, <1>1, OpenKeeps DEF Start, OpenRecords
  <2>3. SInv'
    BY <2>1 DEF serviceVars, SInv, TypeOK, OpMeans, SeedMeans, SignMeans, JoinMeans, LockedIsQuiet
  <2>4. ApiInv'
    BY <2>1, ApiUnchanged DEF serviceVars
  <2>5. token' = token
    BY <1>1 DEF Start, OpenRecords, BeginOpen, Open, CreateTables, ReadColumns, AddHeight, AddBlockID,
                AddColumn, CreateIndices
  <2> QED BY <2>1, <2>2, <2>3, <2>4, <2>5 DEF serviceVars, BootMeans, TokenMeans
<1>2. CASE StartService
  <2>1. /\ stage' \in {"serving", "draining"} /\ boot' = "unlock"
        /\ loop = "done" /\ loop' = "select" /\ wake' = 1 /\ owed' = TRUE
        /\ UNCHANGED <<op, master, seeds, pc, want, apiVars, dirVars>>
    BY <1>2 DEF StartService, BootMeans
  <2>2. TypeOK'
    BY <2>1 DEF SInv, TypeOK, Stages, LoopPlaces
  <2>3. OpMeans' /\ SeedMeans' /\ SignMeans' /\ JoinMeans' /\ LockedIsQuiet'
    BY <2>1 DEF SInv, OpMeans, SeedMeans, SignMeans, JoinMeans, LockedIsQuiet
  <2>4. DirInv' /\ ApiInv'
    BY <2>1, DirUnchanged, ApiUnchanged DEF dirVars
  <2> QED BY <2>1, <2>2, <2>3, <2>4 DEF SInv, BootMeans, TokenMeans, dirVars
<1>3. CASE StartUnlocked
  <2>1. /\ op = Nobody /\ boot' = "token" /\ master' = TRUE /\ owed' = TRUE /\ wake' = 1
        /\ UNCHANGED <<stage, op, seeds, loop, pc, want, apiVars, dirVars>>
    BY <1>3 DEF StartUnlocked, Wake
  <2>2. TypeOK'
    BY <2>1 DEF SInv, TypeOK
  <2>3. OpMeans' /\ SeedMeans' /\ SignMeans' /\ JoinMeans' /\ LockedIsQuiet'
    BY <2>1 DEF SInv, OpMeans, SeedMeans, SignMeans, JoinMeans, LockedIsQuiet
  <2>4. DirInv' /\ ApiInv'
    BY <2>1, DirUnchanged, ApiUnchanged DEF dirVars
  <2> QED BY <2>1, <2>2, <2>3, <2>4 DEF SInv, BootMeans, TokenMeans, dirVars
<1>4. CASE StartLocked \/ ReadToken \/ WriteToken \/ Listen
  <2>1. UNCHANGED <<serviceVars, apiVars, columns, at, seen>> /\ boot' \notin {"off", "opening"}
    BY <1>4 DEF StartLocked, ReadToken, WriteToken, Listen, dirVars
  <2>2. TokenMeans'
    BY <1>4 DEF TokenMeans, StartLocked, ReadToken, WriteToken, Listen, dirVars
  <2>3. SInv'
    BY <2>1 DEF serviceVars, SInv, TypeOK, OpMeans, SeedMeans, SignMeans, JoinMeans, LockedIsQuiet
  <2>4. DirInv' /\ ApiInv'
    BY <2>1, DirUnchanged, ApiUnchanged DEF serviceVars
  <2> QED BY <2>1, <2>2, <2>3, <2>4 DEF BootMeans
<1>5. CASE Fails \/ ShutDown
  <2>1. /\ stage' = "joining" /\ boot' = "down"
        /\ UNCHANGED <<op, master, seeds, wake, loop, pc, want, owed, apiVars, dirVars>>
    BY <1>5 DEF Fails, ShutDown, Drained
  <2>2. SInv'
    BY <2>1 DEF SInv, TypeOK, Stages, OpMeans, SeedMeans, SignMeans, JoinMeans, LockedIsQuiet
  <2>3. DirInv' /\ ApiInv'
    BY <2>1, DirUnchanged, ApiUnchanged DEF dirVars
  <2> QED BY <2>1, <2>2, <2>3 DEF BootMeans, TokenMeans, dirVars
<1> QED BY <1>1, <1>2, <1>3, <1>4, <1>5 DEF Boot

\* The process ends: rows and files stay.
LEMMA EndsKeeps ==
  ASSUME DInv, Ends
  PROVE  DInv'
<1> USE ServiceAssumption, DaemonAssumption DEF DInv
<1>1. TypeOK'
  BY DEF Ends, Gone, TypeOK, Stages, Places, LoopPlaces, Wants
<1>2. OpMeans' /\ SeedMeans' /\ SignMeans' /\ JoinMeans' /\ LockedIsQuiet'
  BY DEF Ends, Gone, OpMeans, SeedMeans, SignMeans, JoinMeans, LockedIsQuiet, Held
<1>3. DirInv'
  BY CloseStoreKeeps DEF Ends
<1>4. ApiInv'
  BY DEF Ends, Gone, ApiInv, ApiType, RowMeans, CreatedOnce, Row, apiVars
<1>5. BootMeans' /\ TokenMeans'
  BY DEF Ends, Gone, BootMeans, TokenMeans, CloseStore
<1> QED BY <1>1, <1>2, <1>3, <1>4, <1>5 DEF SInv

\* Another command on the directory.
LEMMA CommandKeeps ==
  ASSUME DInv, Command(Tool), UNCHANGED <<serviceVars, apiVars, boot>>
  PROVE  DInv'
<1> USE DaemonAssumption DEF DInv
<1>1. DirInv'
  BY OpenKeeps, CloseStoreKeeps DEF Command, RecoverAddresses, EndCommand
<1>2. TokenMeans'
  BY DEF TokenMeans, Command, InitWallet, RecoverAddresses, BeginOpen, Open, CreateTables, ReadColumns,
         AddHeight, AddBlockID, AddColumn, CreateIndices, EndCommand, CloseStore
<1>3. SInv'
  BY DEF serviceVars, SInv, TypeOK, OpMeans, SeedMeans, SignMeans, JoinMeans, LockedIsQuiet
<1>4. ApiInv' /\ BootMeans'
  BY ApiUnchanged DEF serviceVars, BootMeans
<1> QED BY <1>1, <1>2, <1>3, <1>4
-----------------------------------------------------------------------------
\* The invariant holds through every start, failure, crash and restart.
THEOREM DaemonInvariant == DaemonSpec => []DInv
<1>1. DInv /\ UNCHANGED allVars => DInv'
  <2> SUFFICES ASSUME DInv, UNCHANGED allVars PROVE DInv'
    OBVIOUS
  <2>1. SInv'
    BY DEF DInv, allVars, serviceVars, SInv, TypeOK, OpMeans, SeedMeans, SignMeans, JoinMeans, LockedIsQuiet
  <2>2. DirInv' /\ ApiInv'
    BY DirUnchanged, ApiUnchanged DEF DInv, allVars, serviceVars, dirVars
  <2> QED BY <2>1, <2>2 DEF DInv, allVars, serviceVars, dirVars, BootMeans, TokenMeans
<1>2. DInv /\ DaemonNext => DInv'
  BY ClientKeeps, BackgroundKeeps, BootKeeps, EndsKeeps, CommandKeeps DEF DaemonNext
<1> QED BY <1>1, <1>2, DInit, PTL DEF DaemonSpec

\* However many clients repeat an identifier, across whatever crashes: one of
\* them at most is told that it has created the row, and a 2xx answer stays true.
THEOREM OneIsToldCreated == DaemonSpec => []CreatedOnce
<1>1. DInv => CreatedOnce
  BY DEF DInv, ApiInv
<1> QED BY <1>1, DaemonInvariant, PTL

\* A process past meta.Open has all columns, and a daemon that serves has a
\* whole token.
THEOREM NothingHalfMade == DaemonSpec => []OpenedIsWhole
<1>1. DInv => OpenedIsWhole
  BY DEF DInv, DirInv, DirType, DirMeans, TokenMeans, OpenedIsWhole, Columns
<1> QED BY <1>1, DaemonInvariant, PTL

\* In whatever way the daemon came up, or fails to: a locked wallet has no copy
\* of the seed in use.
THEOREM DaemonLockWaits == DaemonSpec => []LockedIsQuiet
<1>1. DInv => LockedIsQuiet
  BY DEF DInv, SInv
<1> QED BY <1>1, DaemonInvariant, PTL

\* The databases are closed only when the loop has returned, also after a start
\* that failed.
THEOREM DaemonCloseWaits == DaemonSpec => []NoPassAfterClose
<1>1. DInv => NoPassAfterClose
  BY DEF DInv, SInv, JoinMeans, NoPassAfterClose
<1> QED BY <1>1, DaemonInvariant, PTL
=============================================================================
