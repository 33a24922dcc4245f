----------------------------- MODULE LeaveBook -----------------------------
(***************************************************************************)
(* What the leave verbs promise together: every request is decided in one  *)
(* step, and the balance it is drawn from moves in that same step.  No     *)
(* caller, no snapshot, no engine, no publication: TimeoffRequests, with   *)
(* all of those, implements this book.                                     *)
(***************************************************************************)
EXTENDS Integers

CONSTANTS
  Requests,    \* the requests that can be asked
  Keys,        \* one allocation per key
  Terms,       \* what a request can ask for
  KeyOf,       \* KeyOf[t]: the allocation the terms t draw on
  Amount,      \* Amount[t]: how much they draw
  Allocations, \* what an allocation can be
  None

VARIABLES
  state,      \* state[r]: where the request stands
  asked,      \* asked[r]: the terms it was asked with
  allocation, \* allocation[k]
  taken       \* taken[k]: what the granted requests have drawn

vars == <<state, asked, allocation, taken>>

Init ==
  /\ state      = [r \in Requests |-> "absent"]
  /\ asked      = [r \in Requests |-> None]
  /\ allocation = [k \in Keys |-> 0]
  /\ taken      = [k \in Keys |-> 0]

Move(r, s) == state' = [state EXCEPT ![r] = s]

Ask(r, t) ==
  /\ state[r] = "absent"
  /\ Move(r, "pending")
  /\ asked' = [asked EXCEPT ![r] = t]
  /\ UNCHANGED <<allocation, taken>>

\* Granted and drawn together, and only what the allocation still holds.
Grant(r) ==
  LET t == asked[r]
      k == KeyOf[t]
  IN /\ state[r] = "pending"
     /\ taken[k] + Amount[t] <= allocation[k]
     /\ Move(r, "approved")
     /\ taken' = [taken EXCEPT ![k] = @ + Amount[t]]
     /\ UNCHANGED <<asked, allocation>>

Refuse(r) ==
  /\ state[r] = "pending"
  /\ Move(r, "rejected")
  /\ UNCHANGED <<asked, allocation, taken>>

Withdraw(r) ==
  /\ state[r] = "pending"
  /\ Move(r, "cancelled")
  /\ UNCHANGED <<asked, allocation, taken>>

\* A granted request gives back exactly what its grant took.
GiveBack(r) ==
  LET t == asked[r]
  IN /\ state[r] = "approved"
     /\ Move(r, "cancelled")
     /\ taken' = [taken EXCEPT ![KeyOf[t]] = @ - Amount[t]]
     /\ UNCHANGED <<asked, allocation>>

\* An allocation never falls below what has been taken from it.
Allocate(k, n) ==
  /\ taken[k] <= n
  /\ allocation' = [allocation EXCEPT ![k] = n]
  /\ UNCHANGED <<state, asked, taken>>

Next ==
  \/ \E r \in Requests, t \in Terms : Ask(r, t)
  \/ \E r \in Requests : Grant(r) \/ Refuse(r) \/ Withdraw(r) \/ GiveBack(r)
  \/ \E k \in Keys, n \in Allocations : Allocate(k, n)

Spec == Init /\ [][Next]_vars
=============================================================================
