------------------------ MODULE TimeoffRequestsCrud ------------------------
(***************************************************************************)
(* The verbs of TimeoffRequests beside the generic CRUD surface: the       *)
(* deployment that mounts all_crud_routes over the same two tables.  A     *)
(* PUT or a PATCH of a request reads the entity, compares the edit with    *)
(* what it read by the row rules, and saves the copy whole, with no lock   *)
(* in between: the verbs may move the row meanwhile.  What still stands    *)
(* between a stale copy and the row is the transition trigger.  The        *)
(* generic service itself is a library (backbone_core): its writes are     *)
(* modelled from the rules, the routes and the DTOs of src/.               *)
(***************************************************************************)
EXTENDS TimeoffRequests

CONSTANT Editors   \* the concurrent generic updates

VARIABLE copy      \* the entity each generic update has read, with its id

crudVars == <<vars, copy>>

Links == Requests \cup {None}

CrudInit == Init /\ copy = [e \in Editors |-> None]

\* A created request is pending, with whatever terms and approval link the
\* body carries: no day, cap or engine check.
GenericCreate(r, t, l) ==
  /\ Fresh(r)
  /\ Pending(r, t, l)
  /\ UNCHANGED <<book, filing, call, settled, ghost, copy>>

\* PUT and PATCH, the read.
GenericRead(e, r) ==
  /\ copy[e] = None
  /\ Live(r)
  /\ copy' = [copy EXCEPT ![e] = [req |-> r, row |-> request[r]]]
  /\ UNCHANGED vars

\* A bug: the edit is not compared with the entity it was made from.
UpdateAnything(before, t) == TRUE

\* The row rules, on the entity as read: `status` moves only through the verbs,
\* and an approved request keeps its terms (approved_request_terms_frozen).
UpdateAllowed(before, t) == before.status # "approved" \/ t = before.terms

\* A bug: the transition trigger is not installed.
AnyTransition(from, to) == TRUE

\* timeoff_requests_status_transition_check.  The verbs ask for a declared move
\* in their own WHERE.
Declared(from, to) ==
  \/ from = to
  \/ from = "pending" /\ to \in {"approved", "rejected", "cancelled"}
  \/ from = "approved" /\ to = "cancelled"

\* The save: the copy with its new terms and link, over the row as it is by now.
\* The status is the copy's; the metadata too or, where the save leaves it
\* alone, the row's.
GenericSave(e, t, l, deleted) ==
  LET before == copy[e].row
      r      == copy[e].req
  IN /\ copy[e] # None
     /\ UpdateAllowed(before, t)
     /\ Declared(request[r].status, before.status)
     /\ deleted \in {before.deleted, request[r].deleted}
     /\ request' = [request EXCEPT ![r] =
                      [status |-> before.status, terms |-> t, link |-> l, deleted |-> deleted]]
     /\ copy' = [copy EXCEPT ![e] = None]
     /\ UNCHANGED <<book, filing, call, settled, ghost>>

\* Refused by the rules or the trigger, failed, or dropped.
GenericDrop(e) ==
  /\ copy[e] # None
  /\ copy' = [copy EXCEPT ![e] = None]
  /\ UNCHANGED vars

\* DELETE stamps metadata.deleted_at; restore clears it.
GenericDelete(r) ==
  /\ Live(r)
  /\ request' = [request EXCEPT ![r].deleted = TRUE]
  /\ UNCHANGED <<book, filing, call, settled, ghost, copy>>

GenericRestore(r) ==
  /\ request[r].deleted
  /\ request' = [request EXCEPT ![r].deleted = FALSE]
  /\ UNCHANGED <<book, filing, call, settled, ghost, copy>>

\* Create or update a balance: any amounts the CHECKs take, those of a stale copy
\* that is saved whole included.
GenericBalanceWrite(k, a, u) ==
  /\ ChecksHold(a, u)
  /\ minted' = minted \cup {k}
  /\ allocated' = [allocated EXCEPT ![k] = a]
  /\ used' = [used EXCEPT ![k] = u]
  /\ UNCHANGED <<request, filing, call, settled, ghost, copy>>

CrudNext ==
  \/ Next /\ UNCHANGED copy
  \/ \E r \in Requests, t \in Terms, l \in Links : GenericCreate(r, t, l)
  \/ \E e \in Editors, r \in Requests : GenericRead(e, r)
  \/ \E e \in Editors, t \in Terms, l \in Links, deleted \in BOOLEAN : GenericSave(e, t, l, deleted)
  \/ \E e \in Editors : GenericDrop(e)
  \/ \E r \in Requests : GenericDelete(r)
  \/ \E r \in Requests : GenericRestore(r)
  \/ \E k \in Keys : \E a, u \in 0 .. MaxAllocated : GenericBalanceWrite(k, a, u)

CrudSpec == CrudInit /\ [][CrudNext]_crudVars

-----------------------------------------------------------------------------
\* Hook rule TR3a with generic updates under way: between its approval and its
\* cancellation nothing changes what an approved request asks for, not even the
\* save of a copy that was read while the request was still pending.
ApprovedTermsFrozen ==
  [][\A r \in Requests :
       request[r].status = "approved" => request'[r].terms = request[r].terms]_crudVars

\* No decided request is reopened or decided again, although a generic update
\* may save the status it read before a verb decided the request.
OnlyDeclaredTransitions ==
  [][\A r \in Requests :
       request'[r].status # request[r].status =>
         <<request[r].status, request'[r].status>> \in
           {<<"absent", "pending">>, <<"pending", "approved">>, <<"pending", "rejected">>,
            <<"pending", "cancelled">>, <<"approved", "cancelled">>}]_crudVars
=============================================================================
