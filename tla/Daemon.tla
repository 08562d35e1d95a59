------------------------------- MODULE Daemon -------------------------------
(***************************************************************************)
(* The process: runDaemon from its start on a data directory, through a    *)
(* service with its clients, to its end by a signal, a failure or a crash, *)
(* and started again.  Composes the service behind its API with the data   *)
(* directory.                                                              *)
(*                                                                         *)
(* A process that does not run is a service that is closed.  The liveness  *)
(* of the service is checked in Service.                                   *)
(***************************************************************************)
EXTENDS Api, DataDir

CONSTANTS Main,   \* the process of the daemon
          Tool    \* another command on the same directory

ASSUME DaemonAssumption == Procs = {Main, Tool} /\ Main # Tool

VARIABLE boot     \* where runDaemon is

serviceVars == <<stage, op, master, seeds, wake, loop, pc, want, owed>>
allVars == <<serviceVars, apiVars, dirVars, boot>>

BootStages == {"off", "opening", "unlock", "token", "write", "listen", "up", "down"}

\* Service variables of a process that is not there.
Gone ==
  /\ stage' = "closed" /\ op' = Nobody /\ master' = FALSE /\ seeds' = {}
  /\ wake' = 0 /\ loop' = "done" /\ owed' = FALSE
  /\ pc' = [c \in Clients |-> "idle"] /\ want' = [c \in Clients |-> "sign"]

DaemonInit ==
  /\ DirInit /\ ApiInit
  /\ boot = "off"
  /\ stage = "closed" /\ op = Nobody /\ master = FALSE /\ seeds = {}
  /\ wake = 0 /\ loop = "done" /\ owed = FALSE
  /\ pc = [c \in Clients |-> "idle"] /\ want = [c \in Clients |-> "sign"]
-----------------------------------------------------------------------------
(* runDaemon.                                                              *)

\* Without master.key there is no wallet to run.
Start ==
  /\ boot = "off" /\ key
  /\ boot' = "opening"
  /\ BeginOpen(Main)
  /\ UNCHANGED <<serviceVars, apiVars>>

OpenRecords ==
  /\ boot = "opening"
  /\ Open(Main)
  /\ UNCHANGED <<serviceVars, apiVars, boot>>

\* OpenNode and NewService, which wakes its loop.  A signal that came while the
\* node was opened has cancelled the context by now.
StartService ==
  /\ boot = "opening" /\ at[Main] = "open"
  /\ boot' = "unlock"
  /\ stage' \in {"serving", "draining"}
  /\ loop' = "select" /\ wake' = 1 /\ owed' = TRUE
  /\ UNCHANGED <<op, master, seeds, pc, want, apiVars, dirVars>>

\* With -password-file the wallet is unlocked before the API is up.
StartLocked ==
  /\ boot = "unlock"
  /\ boot' = "token"
  /\ UNCHANGED <<serviceVars, apiVars, dirVars>>

StartUnlocked ==
  /\ boot = "unlock" /\ op = Nobody
  /\ boot' = "token"
  /\ master' = TRUE /\ owed' = TRUE
  /\ Wake
  /\ UNCHANGED <<stage, op, seeds, loop, pc, want, apiVars, dirVars>>

\* Faulty variant: a token file that is there is taken as it is.
ReadTokenUnchecked ==
  /\ boot = "token"
  /\ boot' = IF token = "absent" THEN "write" ELSE "listen"
  /\ token' = IF token = "absent" THEN "partial" ELSE token
  /\ UNCHANGED <<key, table, columns, at, seen, serviceVars, apiVars>>

\* loadOrCreateToken: a new file is created first and written then; one that
\* is there has to have its 64 digits.
ReadToken ==
  /\ boot = "token" /\ token # "partial"
  /\ boot' = IF token = "absent" THEN "write" ELSE "listen"
  /\ token' = IF token = "absent" THEN "partial" ELSE token
  /\ UNCHANGED <<key, table, columns, at, seen, serviceVars, apiVars>>

WriteToken ==
  /\ boot = "write"
  /\ boot' = "listen"
  /\ token' = "whole"
  /\ UNCHANGED <<key, table, columns, at, seen, serviceVars, apiVars>>

Listen ==
  /\ boot = "listen"
  /\ boot' = "up"
  /\ UNCHANGED <<serviceVars, apiVars, dirVars>>

\* A wrong password, a bad token, a taken port; or Serve fails later.  The
\* deferred Close runs, and server.Shutdown does not.
Fails ==
  /\ \/ boot \in {"unlock", "token", "write", "listen"}
     \/ boot = "up" /\ stage = "serving"
  /\ boot' = "down"
  /\ stage' = "joining"
  /\ UNCHANGED <<op, master, seeds, wake, loop, pc, want, owed, apiVars, dirVars>>

\* runDaemon looks at the signal once the API is up.
ShutDown ==
  /\ boot = "up"
  /\ Drained
  /\ boot' = "down"
  /\ UNCHANGED <<apiVars, dirVars>>

\* The end of the process: after Close, or killed at any moment.
Ends ==
  /\ boot # "off"
  /\ boot' = "off"
  /\ Gone
  /\ CloseStore(Main)
  /\ UNCHANGED apiVars

Boot == \/ OpenRecords \/ StartService \/ StartLocked \/ StartUnlocked
        \/ ReadToken \/ WriteToken \/ Listen
-----------------------------------------------------------------------------
Client(c) ==
  /\ \/ boot = "up" /\ Ask(c)
     \/ Acquire(c) /\ UNCHANGED apiVars
     \/ WrongPassword(c) \/ Answer(c)
  /\ UNCHANGED <<dirVars, boot>>

Background ==
  /\ \/ Reorg \/ Tick \/ LoopStep \/ LoopReturns
     \/ Signal \/ Joined \/ CloseLocks
  /\ UNCHANGED <<apiVars, dirVars, boot>>

DaemonNext ==
  \/ Start \/ Boot \/ Fails \/ ShutDown \/ Ends
  \/ \E c \in Clients : Client(c)
  \/ Background
  \/ Command(Tool) /\ UNCHANGED <<serviceVars, apiVars, boot>>

DaemonSpec == DaemonInit /\ [][DaemonNext]_allVars
-----------------------------------------------------------------------------
\* A process that has opened the database finds every column it will read and
\* write, whatever process upgraded it and wherever an earlier upgrade ended;
\* and a daemon that answers requests has a whole token to compare with, also
\* when its predecessor ended while writing it.
OpenedIsWhole ==
  /\ \A p \in Procs : at[p] = "open" => columns = Columns
  /\ boot = "up" => token = "whole"
=============================================================================
