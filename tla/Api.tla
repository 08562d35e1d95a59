--------------------------------- MODULE Api ---------------------------------
(***************************************************************************)
(* The HTTP API in front of the service: what a client that repeats its    *)
(* requests is told.  A request that creates something carries an          *)
(* identifier of the client's choice; it is answered 201 when this call    *)
(* has stored the row, 200 when it was stored before and for the same      *)
(* parameters, and 400 otherwise.  Withdrawals stand for the other         *)
(* endpoints with this answer (fund, claim, refund); what the calls do to  *)
(* chain and journal is the subject of Custody and Swaps.                  *)
(***************************************************************************)
EXTENDS Service

CONSTANTS Ids, Bodies,   \* identifiers, and what may be asked under one
          NoRow

ASSUME ApiAssumption == NoRow \notin Bodies

VARIABLES
  ask,      \* what each client asks for, and asks for again
  rows,     \* table withdrawals: identifier -> parameters
  created,  \* answers 201 so far, by identifier
  said      \* requests that were answered 200 or 201

apiVars == <<ask, rows, created, said>>

Asks == [id : Ids, body : Bodies]

ApiInit ==
  /\ ask \in [Clients -> Asks]
  /\ rows = [i \in Ids |-> NoRow]
  /\ created = [i \in Ids |-> 0]
  /\ said = {}

Row(c) == rows[ask[c].id]

Post(c) == Request(c, "sign") /\ UNCHANGED apiVars

PostLock(c) == Request(c, "lock") /\ UNCHANGED apiVars

PostUnlock(c) == Request(c, "unlock") /\ UNCHANGED apiVars

\* 401: ReadKey fails before op is taken.
WrongPassword(c) ==
  /\ want[c] = "unlock"
  /\ Move(c, "waiting", "idle")
  /\ UNCHANGED <<stage, op, master, seeds, wake, loop, want, owed, apiVars>>

\* The answer of a call that succeeds, or 400 because its view fails.
Tell(c, fresh) ==
  \/ /\ said' = said \cup {ask[c]}
     /\ created' = [created EXCEPT ![ask[c].id] = @ + fresh]
  \/ UNCHANGED <<said, created>>

\* Faulty variant: every call that succeeds says that it created the row.
ExistingCreated(c) ==
  /\ pc[c] = "holding" /\ Row(c) # NoRow
  /\ SignEnds(c)
  /\ IF Row(c) = ask[c].body THEN Tell(c, 1) ELSE UNCHANGED <<said, created>>
  /\ UNCHANGED <<ask, rows>>

\* 200 if the stored row is what is asked for, else 400.
Existing(c) ==
  /\ pc[c] = "holding" /\ Row(c) # NoRow
  /\ SignEnds(c)
  /\ IF Row(c) = ask[c].body THEN Tell(c, 0) ELSE UNCHANGED <<said, created>>
  /\ UNCHANGED <<ask, rows>>

BeginNew(c) == Row(c) = NoRow /\ CopySeed(c) /\ UNCHANGED apiVars

\* 400: the wallet is locked, or building, signing or storing fails.
Fail(c) ==
  /\ pc[c] = "signing" \/ (pc[c] = "holding" /\ Row(c) = NoRow)
  /\ SignEnds(c)
  /\ UNCHANGED apiVars

\* AddWithdrawal: the identifier is the table's primary key.
AddRow(c) ==
  /\ Row(c) = NoRow
  /\ Store(c)
  /\ rows' = [rows EXCEPT ![ask[c].id] = ask[c].body]
  /\ UNCHANGED <<ask, created, said>>

\* 201
AnswerCreated(c) ==
  /\ pc[c] = "woken"
  /\ SignEnds(c)
  /\ Tell(c, 1)
  /\ UNCHANGED <<ask, rows>>

Answer(c) ==
  \/ Existing(c) \/ BeginNew(c) \/ Fail(c) \/ AddRow(c) \/ AnswerCreated(c)
  \/ (StoredWake(c) \/ Unlock(c) \/ UnlockWake(c) \/ Lock(c)) /\ UNCHANGED apiVars

Ask(c) == Post(c) \/ PostLock(c) \/ PostUnlock(c)
-----------------------------------------------------------------------------
\* However requests for one identifier overlap, repeat and lose their answers
\* in a crash: one of them at most is told that it has created something, and
\* whoever was told 200 or 201 finds under the identifier what he asked for.
CreatedOnce ==
  /\ \A i \in Ids : created[i] <= 1
  /\ \A q \in said : rows[q.id] = q.body
=============================================================================
