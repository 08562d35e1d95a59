------------------------------ MODULE Payments ------------------------------
(***************************************************************************)
(* What the withdrawal API promises, whatever crashes, reorganizations and *)
(* retries happen underneath: a request identifier is bound to one         *)
(* transaction for ever, only a bound transaction ever leaves the process, *)
(* and every answer for the identifier names that transaction and the      *)
(* parameters it was bound with.                                           *)
(***************************************************************************)
CONSTANTS Requests, Transactions

VARIABLES bound,      \* function from the requests accepted so far
          released,   \* transactions handed to the network
          answers     \* answers given to clients

vars == <<bound, released, answers>>

Init == /\ bound = [r \in {} |-> r]
        /\ released = {}
        /\ answers = {}

\* A new request is accepted and bound to a transaction that pays it.
Bind(r) ==
  /\ r \notin DOMAIN bound
  /\ DOMAIN bound' = DOMAIN bound \cup {r}
  /\ bound'[r] \in Transactions
  /\ bound'[r].req = r
  /\ \A q \in DOMAIN bound : bound'[q] = bound[q]
  /\ UNCHANGED <<released, answers>>

\* The transaction of an accepted request leaves the process (again).
Release(r) ==
  /\ r \in DOMAIN bound
  /\ released' = released \cup {bound[r]}
  /\ UNCHANGED <<bound, answers>>

\* A client learns what its request is bound to.
Answer(r) ==
  /\ r \in DOMAIN bound
  /\ answers' = answers \cup {[req |-> r, par |-> bound[r].par, tx |-> bound[r]]}
  /\ UNCHANGED <<bound, released>>

Next == \E r \in Requests : Bind(r) \/ Release(r) \/ Answer(r)

Spec == Init /\ [][Next]_vars
=============================================================================
