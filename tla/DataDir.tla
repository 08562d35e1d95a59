------------------------------- MODULE DataDir -------------------------------
(***************************************************************************)
(* The data directory: master.key, the schema of walletd.sqlite3 and       *)
(* api.token, as the commands of main.go create and upgrade them.          *)
(*                                                                         *)
(* meta.Open commits one statement at a time, so that another process, or  *)
(* the end of this one, may come between any two of them.  A database of a *)
(* development build has the table withdrawals without its confirmation    *)
(* columns.                                                                *)
(***************************************************************************)
CONSTANTS Procs   \* processes that open the database

VARIABLES
  key,      \* master.key exists
  table,    \* the table withdrawals exists
  columns,  \* confirmation columns of that table
  token,    \* api.token: "absent", "partial" or "whole"
  at,       \* how far each process is in meta.Open
  seen      \* columns it has read with PRAGMA table_info

dirVars == <<key, table, columns, token, at, seen>>

Columns == {"confirmed_height", "confirmed_block_id"}

\* An empty directory, or one a development build has left.
DirInit ==
  /\ \/ key = FALSE /\ table = FALSE /\ token = "absent"
     \/ key = TRUE /\ table = TRUE /\ token \in {"absent", "whole"}
  /\ columns = {}
  /\ at = [p \in Procs |-> "closed"] /\ seen = [p \in Procs |-> {}]

Step(p, from, to) == at[p] = from /\ at' = [at EXCEPT ![p] = to]

BeginOpen(p) == Step(p, "closed", "begun") /\ UNCHANGED <<key, table, columns, token, seen>>

\* CREATE TABLE IF NOT EXISTS; a new table has every column.
CreateTables(p) ==
  /\ Step(p, "begun", "tables")
  /\ table' = TRUE
  /\ columns' = IF table THEN columns ELSE Columns
  /\ UNCHANGED <<key, token, seen>>

\* PRAGMA table_info(withdrawals)
ReadColumns(p) ==
  /\ Step(p, "tables", "height")
  /\ seen' = [seen EXCEPT ![p] = columns]
  /\ UNCHANGED <<key, table, columns, token>>

\* ALTER TABLE, for a column that was missing and still is.
AddColumn(p, column) ==
  /\ column \notin seen[p] => column \notin columns
  /\ columns' = columns \cup ({column} \ seen[p])
  /\ UNCHANGED <<key, table, token, seen>>

AddHeight(p) == Step(p, "height", "block") /\ AddColumn(p, "confirmed_height")

\* Faulty variant: one question for both columns.
AddBlockIDWithHeight(p) ==
  /\ Step(p, "block", "index")
  /\ columns' = IF "confirmed_height" \in seen[p] THEN columns ELSE Columns
  /\ UNCHANGED <<key, table, token, seen>>

AddBlockID(p) == Step(p, "block", "index") /\ AddColumn(p, "confirmed_block_id")

\* The indices need their column; then version 3, and Open returns the store.
CreateIndices(p) ==
  /\ Step(p, "index", "open")
  /\ "confirmed_height" \in columns
  /\ seen' = [seen EXCEPT ![p] = {}]
  /\ UNCHANGED <<key, table, columns, token>>

\* An error of any statement (the column has come meanwhile, the file is busy),
\* Store.Close, or the end of the process.
CloseStore(p) ==
  /\ at' = [at EXCEPT ![p] = "closed"]
  /\ seen' = [seen EXCEPT ![p] = {}]
  /\ UNCHANGED <<key, table, columns, token>>

Open(p) == \/ CreateTables(p) \/ ReadColumns(p) \/ AddHeight(p) \/ AddBlockID(p)
           \/ CreateIndices(p)
-----------------------------------------------------------------------------
(* The other commands.                                                     *)

\* init: a new master.key, then the database.
InitWallet(p) ==
  /\ ~key
  /\ key' = TRUE
  /\ Step(p, "closed", "begun")
  /\ UNCHANGED <<table, columns, token, seen>>

\* recover-addresses reads the key and opens the database.
RecoverAddresses(p) == key /\ BeginOpen(p)

EndCommand(p) == at[p] # "closed" /\ CloseStore(p)

Command(p) == InitWallet(p) \/ RecoverAddresses(p) \/ Open(p) \/ EndCommand(p)
=============================================================================
