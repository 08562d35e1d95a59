------------------------------- MODULE Service -------------------------------
(***************************************************************************)
(* The daemon's own concurrency: the mutex op, the signing key in memory,  *)
(* the rebroadcast loop with its wake channel and automatic DEFEND, and    *)
(* the shutdown of runDaemon.                                              *)
(*                                                                         *)
(* What handlers and passes do to journal, chain and pool is the subject   *)
(* of Custody; here a handler only takes op, copies the seed, stores       *)
(* something and wakes the loop.  mu is held across single assignments     *)
(* only, so that each of its critical sections is one step.                *)
(***************************************************************************)
EXTENDS Naturals

CONSTANTS Clients,   \* HTTP requests that may be served at the same time
          Loop,      \* the rebroadcast goroutine
          Nobody     \* op is free

ASSUME ServiceAssumption == /\ Loop # Nobody
                            /\ Loop \notin Clients /\ Nobody \notin Clients

VARIABLES
  stage,    \* of runDaemon, from serving to the return of Service.Close
  op,       \* who holds the mutex op
  master,   \* the seed is in memory (s.master # nil)
  seeds,    \* who works with a copy of it (masterSeed)
  wake,     \* messages in rebroadcastWake
  loop,     \* where rebroadcastLoop is
  pc, want, \* where each request is, and what it is for
  owed      \* something happened that the next pass has to look at

vars == <<stage, op, master, seeds, wake, loop, pc, want, owed>>

Stages == {"serving", "draining", "joining", "locking", "closed"}
Wants == {"sign", "unlock", "lock"}
Places == {"idle", "waiting", "holding", "signing", "stored", "woken", "unlocked"}
LoopPlaces == {"select", "pass", "defend", "trylock", "seed", "defending", "done"}

\* NewService wakes the loop; runDaemon may have unlocked the wallet.
Init ==
  /\ stage = "serving"
  /\ op = Nobody
  /\ master \in BOOLEAN
  /\ seeds = {}
  /\ wake = 1
  /\ loop = "select"
  /\ pc = [c \in Clients |-> "idle"] /\ want = [c \in Clients |-> "sign"]
  /\ owed = TRUE

\* The context of the service is cancelled: by the signal, or by Close.
Cancelled == stage # "serving"

\* Faulty variant: rebroadcastWake has no buffer.
WakeUnbuffered == wake' = IF loop = "select" THEN 1 ELSE wake

\* Faulty variant: every wake-up is queued, as a channel without bound would.
WakeQueued == wake' = wake + 1

\* wakeRebroadcast: the channel holds one message, and a second one is not
\* needed.
Wake == wake' = 1
-----------------------------------------------------------------------------
(* Requests.                                                               *)

Move(c, from, to) == pc[c] = from /\ pc' = [pc EXCEPT ![c] = to]

Request(c, w) ==
  /\ stage = "serving"
  /\ Move(c, "idle", "waiting")
  /\ want' = [want EXCEPT ![c] = w]
  /\ UNCHANGED <<stage, op, master, seeds, wake, loop, owed>>

\* s.op.Lock()
Acquire(c) ==
  /\ op = Nobody
  /\ Move(c, "waiting", "holding")
  /\ op' = c
  /\ UNCHANGED <<stage, master, seeds, wake, loop, want, owed>>

\* masterSeed copies the seed, or the wallet is locked and the call ends.
CopySeed(c) ==
  /\ want[c] = "sign" /\ master
  /\ Move(c, "holding", "signing")
  /\ seeds' = seeds \cup {c}
  /\ UNCHANGED <<stage, op, master, wake, loop, want, owed>>

\* The call ends early: locked, no peers, index behind, not enough coins, the
\* chain moved; or it found the stored answer and never needed the seed.
SignEnds(c) ==
  /\ want[c] = "sign"
  /\ Move(c, "holding", "idle") \/ Move(c, "signing", "idle") \/ Move(c, "woken", "idle")
  /\ op' = Nobody
  /\ seeds' = seeds \ {c}
  /\ UNCHANGED <<stage, master, wake, loop, want, owed>>

\* The transaction is signed and stored: a pass that reads the journal from
\* now on finds it.
Store(c) ==
  /\ Move(c, "signing", "stored")
  /\ owed' = TRUE
  /\ UNCHANGED <<stage, op, master, seeds, wake, loop, want>>

\* Submitted; the loop is woken while op is still held.
StoredWake(c) ==
  /\ Move(c, "stored", "woken")
  /\ Wake
  /\ UNCHANGED <<stage, op, master, seeds, loop, want, owed>>

\* Unlock: op and mu are released before the loop is woken.
Unlock(c) ==
  /\ want[c] = "unlock"
  /\ Move(c, "holding", "unlocked")
  /\ master' = TRUE
  /\ op' = Nobody
  /\ owed' = TRUE
  /\ UNCHANGED <<stage, seeds, wake, loop, want>>

UnlockWake(c) ==
  /\ Move(c, "unlocked", "idle")
  /\ Wake
  /\ UNCHANGED <<stage, op, master, seeds, loop, want, owed>>

\* Faulty variant: Lock takes mu and not op.
LockWithoutOp(c) ==
  /\ want[c] = "lock"
  /\ Move(c, "waiting", "idle")
  /\ master' = FALSE
  /\ UNCHANGED <<stage, op, seeds, wake, loop, want, owed>>

\* Lock clears the seed and returns.
Lock(c) ==
  /\ want[c] = "lock"
  /\ Move(c, "holding", "idle")
  /\ master' = FALSE
  /\ op' = Nobody
  /\ UNCHANGED <<stage, seeds, wake, loop, want, owed>>
-----------------------------------------------------------------------------
(* rebroadcastLoop.                                                        *)

\* The chain manager calls back on every change of the tip, until cancelReorg.
Reorg ==
  /\ stage \in {"serving", "draining"}
  /\ Wake
  /\ owed' = TRUE
  /\ UNCHANGED <<stage, op, master, seeds, loop, pc, want>>

\* A pass starts: it reads tip and journal after this.
Tick ==
  /\ loop = "select"
  /\ loop' = "pass"
  /\ owed' = FALSE
  /\ UNCHANGED <<stage, op, master, seeds, wake, pc, want>>

TakeWake ==
  /\ loop = "select" /\ wake = 1
  /\ wake' = 0
  /\ loop' = "pass"
  /\ owed' = FALSE
  /\ UNCHANGED <<stage, op, master, seeds, pc, want>>

LoopReturns ==
  /\ loop = "select" /\ Cancelled
  /\ loop' = "done"
  /\ UNCHANGED <<stage, op, master, seeds, wake, pc, want, owed>>

PassEnds ==
  /\ loop = "pass"
  /\ loop' = "defend"
  /\ UNCHANGED <<stage, op, master, seeds, wake, pc, want, owed>>

\* autoDefend: unlocked, with peers, and op is free; otherwise not this time.
DefendWanted ==
  /\ loop = "defend"
  /\ loop' \in IF master THEN {"trylock", "select"} ELSE {"select"}
  /\ UNCHANGED <<stage, op, master, seeds, wake, pc, want, owed>>

TryLock ==
  /\ loop = "trylock"
  /\ IF op = Nobody THEN op' = Loop /\ loop' = "seed"
                    ELSE op' = op /\ loop' = "select"
  /\ UNCHANGED <<stage, master, seeds, wake, pc, want, owed>>

DefendSeed ==
  /\ loop = "seed" /\ master
  /\ seeds' = seeds \cup {Loop}
  /\ loop' = "defending"
  /\ UNCHANGED <<stage, op, master, wake, pc, want, owed>>

\* Faulty variant: an early return forgets op.
DefendEndsLocked ==
  /\ loop \in {"seed", "defending"}
  /\ loop' = "select"
  /\ op' = IF loop = "seed" THEN op ELSE Nobody
  /\ seeds' = seeds \ {Loop}
  /\ UNCHANGED <<stage, master, wake, pc, want, owed>>

\* Nothing to defend, an error, or the transaction is stored and submitted.
DefendEnds ==
  /\ loop \in {"seed", "defending"}
  /\ loop' = "select"
  /\ op' = Nobody
  /\ seeds' = seeds \ {Loop}
  /\ UNCHANGED <<stage, master, wake, pc, want, owed>>
-----------------------------------------------------------------------------
(* Shutdown: runDaemon and Close.                                          *)

Signal ==
  /\ stage = "serving"
  /\ stage' = "draining"
  /\ UNCHANGED <<op, master, seeds, wake, loop, pc, want, owed>>

\* server.Shutdown returns when the requests have, or after ten seconds.
Drained ==
  /\ stage = "draining"
  /\ stage' = "joining"
  /\ UNCHANGED <<op, master, seeds, wake, loop, pc, want, owed>>

\* Faulty variant: Close does not wait for the loop.
NotJoined ==
  /\ stage = "joining"
  /\ stage' = "locking"
  /\ UNCHANGED <<op, master, seeds, wake, loop, pc, want, owed>>

\* <-s.rebroadcastDone
Joined ==
  /\ stage = "joining" /\ loop = "done"
  /\ stage' = "locking"
  /\ UNCHANGED <<op, master, seeds, wake, loop, pc, want, owed>>

\* s.Lock(), and Close returns.
CloseLocks ==
  /\ stage = "locking" /\ op = Nobody
  /\ master' = FALSE
  /\ stage' = "closed"
  /\ UNCHANGED <<op, seeds, wake, loop, pc, want, owed>>
-----------------------------------------------------------------------------
Serve(c) == \/ CopySeed(c) \/ SignEnds(c) \/ Store(c) \/ StoredWake(c)
            \/ Unlock(c) \/ UnlockWake(c) \/ Lock(c)

LoopStep == \/ TakeWake \/ PassEnds
            \/ DefendWanted \/ TryLock \/ DefendSeed \/ DefendEnds

Close == Drained \/ Joined

Next ==
  \/ \E c \in Clients : (\E w \in Wants : Request(c, w)) \/ Acquire(c) \/ Serve(c)
  \/ Reorg
  \/ Tick \/ LoopStep \/ LoopReturns
  \/ Signal \/ Close \/ CloseLocks

Spec == Init /\ [][Next]_vars

\* Handlers, passes and shutdown go on.  A Go mutex is handed to every waiter
\* in turn, and select chooses among its ready cases at random: who waits for
\* op gets it, and a cancelled context is noticed.  The ticker is not needed.
FairSpec ==
  /\ Spec
  /\ \A c \in Clients : WF_vars(Serve(c)) /\ SF_vars(Acquire(c))
  /\ WF_vars(LoopStep) /\ SF_vars(LoopReturns)
  /\ WF_vars(Close) /\ SF_vars(CloseLocks)
-----------------------------------------------------------------------------
(* Properties.                                                             *)

\* The state keeps its shape: one holder of op, one message at most in the wake
\* channel.
TypeOK ==
  /\ stage \in Stages
  /\ op \in Clients \cup {Loop, Nobody}
  /\ master \in BOOLEAN /\ owed \in BOOLEAN
  /\ seeds \subseteq Clients \cup {Loop}
  /\ wake \in {0, 1}
  /\ loop \in LoopPlaces
  /\ pc \in [Clients -> Places] /\ want \in [Clients -> Wants]

\* While the wallet is locked nobody works with a copy of the seed: Lock
\* returns only after every operation that had read it, automatic DEFEND
\* included.
LockedIsQuiet == ~master => seeds = {}

\* When Close returns and runDaemon closes the databases, no pass runs and
\* none can start.
NoPassAfterClose == stage = "closed" => loop = "done"

\* The wake channel loses nothing: after a change of the tip, a stored
\* transaction or an unlock, a pass starts without waiting for the ticker,
\* however busy the loop was (a shutdown leaves it to the next start).
WakeIsServed == owed ~> (~owed \/ Cancelled)

\* A signal ends in the return of Close: no order of locks and joins keeps the
\* daemon up.
ShutdownEnds == (stage = "draining") ~> (stage = "closed")
=============================================================================
