--------------------- MODULE TimeoffRequestsCrudProofs ---------------------
(***************************************************************************)
(* What the generic CRUD surface leaves of the safety of the verbs, proved *)
(* for any requests, callers, keys and terms.  Rows may ask for spans of   *)
(* any sign, carry any link and change while an approval has read them, so *)
(* the invariant is weaker than that of the verbs alone: it knows only     *)
(* which rows exist, that the CHECKs hold, and how far the row may have    *)
(* moved since a generic update read it.                                   *)
(***************************************************************************)
EXTENDS TimeoffRequestsCrud, TimeoffRequestsProofs

CrudTyped ==
  /\ request \in [Requests -> Rows]
  /\ call \in [Callers -> Calls]
  /\ allocated \in [Keys -> Int] /\ used \in [Keys -> Int]

RowsAsk == \A r \in Requests : request[r].status # "absent" => request[r].terms \in Terms

\* A caller that inserts holds an id without a row, one past a read an id with
\* a row, and both hold terms: not necessarily the row's.
Holds(c) ==
  LET r == call[c].req
  IN /\ call[c].pc # "idle" => r \in Requests
     /\ call[c].pc \in Inserting => call[c].terms \in Terms /\ request[r].status = "absent"
     /\ call[c].pc \in Holding => call[c].terms \in Terms /\ request[r].status # "absent"

CrudInv ==
  /\ CrudTyped
  /\ RowsAsk
  /\ \A c \in Callers : Holds(c)
  /\ OneInsert
  /\ NeverOverdrawn

\* What a generic update holds: a request that existed.  The row has since made
\* declared moves, and has kept its terms if it was approved and still is.
Follows(c) ==
  /\ c.row.status # "absent" /\ c.row.terms \in Terms
  /\ Declared(c.row.status, request[c.req].status)
  /\ c.row.status = "approved" /\ request[c.req].status = "approved"
       => request[c.req].terms = c.row.terms

CopyInv ==
  /\ copy \in [Editors -> [req : Requests, row : Rows] \cup {None}]
  /\ \A e \in Editors : copy[e] # None => Follows(copy[e])

LEMMA InitCrud == Init => CrudInv
BY NoneAssumption DEF Init, CrudInv, CrudTyped, RowsAsk, Holds, OneInsert, NeverOverdrawn, Absent,
   Idle, Rows, Calls, Statuses, PCs, Inserting, Holding

-----------------------------------------------------------------------------
(* Steps of a call.                                                        *)

\* A call that ends.
LEMMA ReturnKeeps ==
  ASSUME CrudInv, NEW c \in Callers, Return(c), UNCHANGED <<request, allocated, used>>
  PROVE  CrudInv'
<1>. USE DEF Return
<1>1. CrudTyped' /\ RowsAsk' /\ NeverOverdrawn'
  BY DEF CrudInv, CrudTyped, RowsAsk, NeverOverdrawn, Idle, Calls, PCs
<1>2. \A d \in Callers : Holds(d)'
  BY DEF CrudInv, CrudTyped, Holds, Idle, Inserting, Holding
<1>3. OneInsert'
  BY DEF CrudInv, CrudTyped, OneInsert, Idle, Inserting
<1>. QED  BY <1>1, <1>2, <1>3 DEF CrudInv

\* A call that begins: with a fresh id, or with a row that exists.
LEMMA StartKeeps ==
  ASSUME CrudInv, NEW c \in Callers, NEW r \in Requests, NEW t \in Terms, NEW l \in Links,
         NEW pc \in PCs, Start(c, pc, r, t, l),
         \/ pc \in Inserting /\ Fresh(r)
         \/ pc \in Holding /\ request[r].status # "absent",
         UNCHANGED <<request, allocated, used>>
  PROVE  CrudInv'
<1>. USE DEF Start
<1>1. CrudTyped' /\ RowsAsk' /\ NeverOverdrawn'
  BY DEF CrudInv, CrudTyped, RowsAsk, NeverOverdrawn, Calls, Links
<1>2. \A d \in Callers : Holds(d)'
  BY DEF CrudInv, CrudTyped, Holds, Fresh, Inserting, Holding
<1>3. OneInsert'
  BY DEF CrudInv, CrudTyped, Holds, OneInsert, Fresh, Inserting, Holding
<1>. QED  BY <1>1, <1>2, <1>3 DEF CrudInv

LEMMA ProceedKeeps ==
  ASSUME CrudInv, NEW c \in Callers, call[c].pc = "verdict", Proceed(c, "approve"),
         UNCHANGED <<request, allocated, used>>
  PROVE  CrudInv'
<1>. USE DEF Proceed
<1>1. call[c] \in Calls /\ [call[c] EXCEPT !.pc = "approve"] \in Calls
  BY DEF CrudInv, CrudTyped, Calls, PCs
<1>2. CrudTyped' /\ RowsAsk' /\ NeverOverdrawn'
  BY <1>1 DEF CrudInv, CrudTyped, RowsAsk, NeverOverdrawn
<1>3. \A d \in Callers : Holds(d)'
  BY <1>1 DEF CrudInv, CrudTyped, Holds, Inserting, Holding, Calls
<1>4. OneInsert'
  BY <1>1 DEF CrudInv, CrudTyped, OneInsert, Inserting, Calls
<1>. QED  BY <1>2, <1>3, <1>4 DEF CrudInv

\* A request is decided and its announcement is due.
LEMMA DecideKeeps ==
  ASSUME CrudInv, NEW c \in Callers, NEW r \in Requests, NEW s \in Statuses \ {"absent"},
         NEW e \in Events, request[r].status # "absent", SetStatus(r, s), ThenPublish(c, r, e),
         UNCHANGED allocated, used' \in [Keys -> Int], NeverOverdrawn'
  PROVE  CrudInv'
<1>. USE DEF ThenPublish
<1>1. request' \in [Requests -> Rows]
  BY SetStatusType DEF CrudInv, CrudTyped
<1>2. \A q \in Requests : /\ request'[q].terms = request[q].terms
                          /\ request'[q].status = "absent" <=> request[q].status = "absent"
  BY DEF CrudInv, CrudTyped, SetStatus, Rows
<1>3. CrudTyped' /\ RowsAsk'
  BY <1>1, <1>2 DEF CrudInv, CrudTyped, RowsAsk, Calls, PCs
<1>4. \A d \in Callers : Holds(d)'
  BY <1>2 DEF CrudInv, CrudTyped, Holds, Inserting, Holding
<1>5. OneInsert'
  BY DEF CrudInv, CrudTyped, Holds, OneInsert, Inserting
<1>. QED  BY <1>3, <1>4, <1>5 DEF CrudInv

\* A row is inserted under an id which no call is about to insert.
LEMMA PendingKeeps ==
  ASSUME CrudInv, NEW r \in Requests, NEW t \in Terms, NEW l \in Links, Pending(r, t, l),
         call' = call \/ \E c \in Callers : Return(c),
         \A d \in Callers : call'[d].pc \in Inserting => call'[d].req # r,
         UNCHANGED <<allocated, used>>
  PROVE  CrudInv'
<1>. USE DEF Return, Pending
<1>1. CrudTyped' /\ RowsAsk' /\ NeverOverdrawn'
  BY DEF CrudInv, CrudTyped, RowsAsk, NeverOverdrawn, Idle, Calls, PCs, Rows, Statuses, Links
<1>2. \A d \in Callers : call'[d] = call[d] \/ call'[d] = Idle
  BY DEF CrudInv, CrudTyped
<1>3. \A d \in Callers : Holds(d)'
  BY <1>2 DEF CrudInv, CrudTyped, Holds, Idle, Inserting, Holding
<1>4. OneInsert'
  BY <1>2 DEF CrudInv, CrudTyped, OneInsert, Idle, Inserting
<1>. QED  BY <1>1, <1>3, <1>4 DEF CrudInv

\* A row is edited or stamped.
LEMMA EditKeeps ==
  ASSUME CrudInv, NEW r \in Requests, NEW q \in Rows, request' = [request EXCEPT ![r] = q],
         q.status = request[r].status, q.status # "absent" => q.terms \in Terms,
         UNCHANGED <<call, allocated, used>>
  PROVE  CrudInv'
BY DEF CrudInv, CrudTyped, RowsAsk, Holds, OneInsert, NeverOverdrawn

\* A balance is written within its CHECKs.
LEMMA BalanceKeeps ==
  ASSUME CrudInv, allocated' \in [Keys -> Int], used' \in [Keys -> Int], NeverOverdrawn',
         UNCHANGED <<request, call>>
  PROVE  CrudInv'
BY DEF CrudInv, CrudTyped, RowsAsk, Holds, OneInsert

-----------------------------------------------------------------------------
LEMMA CrudBegin == ASSUME CrudInv, NEW c \in Callers, Begin(c) PROVE CrudInv'
<1>1. ASSUME NEW r \in Requests, NEW t \in Terms, SubmitFile(c, r, t) PROVE CrudInv'
  <2>1. PICK pc \in Inserting, l \in Links : Start(c, pc, r, t, l)
    BY <1>1 DEF SubmitFile, Inserting, Links
  <2>. QED  BY <1>1, <2>1, StartKeeps DEF SubmitFile, Inserting, PCs, book
<1>2. ASSUME NEW r \in Requests, ApproveRead(c, r) PROVE CrudInv'
  <2>1. request[r].terms \in Terms /\ request[r].link \in Links
    BY <1>2 DEF CrudInv, CrudTyped, RowsAsk, ApproveRead, Rows, Links
  <2>. QED  BY <1>2, <2>1, StartKeeps DEF ApproveRead, Snapshot, Live, Holding, PCs, book
<1>3. ASSUME NEW r \in Requests, Reject(c, r) PROVE CrudInv'
  <2>1. request[r].status # "absent" /\ request[r].terms \in Terms
    BY <1>3 DEF CrudInv, RowsAsk, Reject, RejectGate, Live
  <2>2. Announcement("refused", request[r].terms) \in Events
    BY <2>1, AnnouncementIsEvent DEF Settlements
  <2>3. used' \in [Keys -> Int] /\ NeverOverdrawn'
    BY <1>3 DEF CrudInv, CrudTyped, NeverOverdrawn, Reject, book
  <2>. QED  BY <1>3, <2>1, <2>2, <2>3, DecideKeeps DEF Reject, Statuses, book
<1>4. ASSUME NEW r \in Requests, CancelRead(c, r) PROVE CrudInv'
  <2>1. request[r].terms \in Terms /\ None \in Links
    BY <1>4 DEF CrudInv, RowsAsk, CancelRead, Live, Links
  <2>. QED  BY <1>4, <2>1, StartKeeps DEF CancelRead, Live, Holding, PCs, book
<1>. QED  BY <1>1, <1>2, <1>3, <1>4 DEF Begin

\* A draw or a restore moves one balance, and the CHECKs decide.
LEMMA ChecksDecide ==
  ASSUME CrudInv, NEW k \in Keys, NEW n \in Int, ChecksHold(allocated[k], n),
         used' = [used EXCEPT ![k] = n], UNCHANGED allocated
  PROVE  used' \in [Keys -> Int] /\ NeverOverdrawn'
BY DEF CrudInv, CrudTyped, NeverOverdrawn, ChecksHold

LEMMA CrudContinue == ASSUME CrudInv, NEW c \in Callers, Continue(c) PROVE CrudInv'
<1>. DEFINE r == call[c].req
            t == call[c].terms
<1>1. CASE SubmitInsert(c)
  <2>1. r \in Requests /\ t \in Terms /\ call[c].link \in Links
    BY <1>1 DEF CrudInv, CrudTyped, Holds, SubmitInsert, Inserting, Calls, Links
  <2>2. \A d \in Callers : call'[d].pc \in Inserting => call'[d].req # r
    BY <1>1 DEF SubmitInsert, Return, CrudInv, CrudTyped, OneInsert, Idle, Inserting
  <2>. QED  BY <1>1, <2>1, <2>2, PendingKeeps DEF SubmitInsert, book
<1>2. CASE SubmitOutright(c) \/ SubmitInsertFails(c) \/ ApproveRollback(c) \/ CancelRollback(c)
           \/ Publish(c)
  BY <1>2, ReturnKeeps
     DEF SubmitOutright, SubmitInsertFails, ApproveRollback, CancelRollback, Publish, book
<1>3. CASE ApproveVerdict(c)
  BY <1>3, ReturnKeeps, ProceedKeeps DEF ApproveVerdict, book
<1>4. ASSUME call[c].pc \in Holding
      PROVE  /\ r \in Requests /\ t \in Terms /\ request[r].status # "absent"
             /\ t.key \in Keys /\ used[t.key] + Days(t) \in Int /\ used[t.key] - Days(t) \in Int
             /\ Grant(t) \in Events /\ Announcement("cancelled", t) \in Events
  <2>1. r \in Requests /\ t \in Terms /\ request[r].status # "absent"
    BY <1>4 DEF CrudInv, Holds, Holding
  <2>2. t.key \in Keys /\ Days(t) \in Int /\ used[t.key] \in Int
    BY <2>1, TermsFacts DEF CrudInv, CrudTyped
  <2>. QED  BY <2>1, <2>2, GrantIsEvent, AnnouncementIsEvent DEF Settlements
<1>5. CASE ApproveCommit(c)
  <2>1. call[c].pc \in Holding
    BY <1>5 DEF ApproveCommit, Holding
  <2>2. used' \in [Keys -> Int] /\ NeverOverdrawn'
    BY <1>4, <1>5, <2>1, ChecksDecide DEF ApproveCommit, CanDraw, Draw
  <2>. QED  BY <1>4, <1>5, <2>1, <2>2, DecideKeeps DEF ApproveCommit, Statuses
<1>6. CASE CancelPending(c)
  <2>1. call[c].pc \in Holding
    BY <1>6 DEF CancelPending, Holding
  <2>2. used' \in [Keys -> Int] /\ NeverOverdrawn'
    BY <1>6 DEF CrudInv, CrudTyped, NeverOverdrawn, CancelPending, book
  <2>. QED  BY <1>4, <1>6, <2>1, <2>2, DecideKeeps DEF CancelPending, Statuses, book
<1>7. CASE CancelApproved(c)
  <2>1. call[c].pc \in Holding
    BY <1>7 DEF CancelApproved, Holding
  <2>2. used' \in [Keys -> Int] /\ NeverOverdrawn'
    BY <1>4, <1>7, <2>1, ChecksDecide DEF CancelApproved, CanRestore
  <2>. QED  BY <1>4, <1>7, <2>1, <2>2, DecideKeeps DEF CancelApproved, Statuses
<1>. QED  BY <1>1, <1>2, <1>3, <1>5, <1>6, <1>7 DEF Continue

LEMMA CrudNextVerbs == ASSUME CrudInv, Next PROVE CrudInv'
<1>1. ASSUME NEW c \in Callers, Crash(c) PROVE CrudInv'
  BY <1>1, ReturnKeeps DEF Crash, book
<1>2. ASSUME NEW r \in Requests, SubmitFileFails(r) \/ EngineDecides(r) PROVE CrudInv'
  <2>1. UNCHANGED <<request, call, allocated, used>>
    BY <1>2 DEF SubmitFileFails, EngineDecides, book
  <2>. QED  BY <2>1 DEF CrudInv, CrudTyped, RowsAsk, Holds, OneInsert, NeverOverdrawn
<1>3. ASSUME NEW k \in Keys, NEW delta \in Deltas, AdjustBalance(k, delta) PROVE CrudInv'
  <2>1. delta \in Int /\ allocated[k] + delta \in Int
    BY BalanceAssumption DEF CrudInv, CrudTyped
  <2>2. allocated' \in [Keys -> Int] /\ used' \in [Keys -> Int] /\ NeverOverdrawn'
    BY <1>3, <2>1 DEF CrudInv, CrudTyped, NeverOverdrawn, AdjustBalance, AdjustGate
  <2>. QED  BY <1>3, <2>2, BalanceKeeps DEF AdjustBalance
<1>. QED  BY <1>1, <1>2, <1>3, CrudBegin, CrudContinue DEF Next, SteadyNext

\* A save that the trigger lets through leaves the status as it is, and an
\* approved request its terms.
LEMMA SavesKeep ==
  ASSUME CrudInv, CopyInv, NEW e \in Editors, NEW t \in Terms, NEW l \in Links,
         NEW d \in BOOLEAN, GenericSave(e, t, l, d)
  PROVE  \E r \in Requests, q \in Rows :
           /\ request' = [request EXCEPT ![r] = q]
           /\ q.status = request[r].status /\ q.terms \in Terms
           /\ request[r].status = "approved" => q.terms = request[r].terms
<1>. DEFINE r == copy[e].req
            before == copy[e].row
            q == [status |-> before.status, terms |-> t, link |-> l, deleted |-> d]
<1>1. copy[e] # None /\ UpdateAllowed(before, t) /\ Declared(request[r].status, before.status)
      /\ request' = [request EXCEPT ![r] = q]
  BY DEF GenericSave
<1>2. r \in Requests /\ before \in Rows /\ Follows(copy[e])
  BY <1>1 DEF CopyInv
<1>3. q \in Rows
  BY <1>2 DEF Rows, Links
<1>4. before.status = request[r].status
  BY <1>1, <1>2 DEF Follows, Declared
<1>5. request[r].status = "approved" => t = request[r].terms
  BY <1>1, <1>2, <1>4 DEF Follows, UpdateAllowed
<1>. QED  BY <1>1, <1>2, <1>3, <1>4, <1>5

LEMMA CrudNextInv == CrudInv /\ CopyInv /\ [CrudNext]_crudVars => CrudInv'
<1>. SUFFICES ASSUME CrudInv, CopyInv, [CrudNext]_crudVars PROVE CrudInv'
  OBVIOUS
<1>1. ASSUME NEW r \in Requests, NEW t \in Terms, NEW l \in Links, GenericCreate(r, t, l)
      PROVE  CrudInv'
  BY <1>1, PendingKeeps DEF GenericCreate, Fresh, book
<1>2. ASSUME NEW e \in Editors, NEW t \in Terms, NEW l \in Links, NEW d \in BOOLEAN,
             GenericSave(e, t, l, d)
      PROVE  CrudInv'
  <2>1. UNCHANGED <<call, allocated, used>>
    BY <1>2 DEF GenericSave, book
  <2>. QED  BY <1>2, <2>1, SavesKeep, EditKeeps
<1>3. ASSUME NEW r \in Requests, GenericDelete(r) \/ GenericRestore(r) PROVE CrudInv'
  <2>1. PICK d \in BOOLEAN : request' = [request EXCEPT ![r].deleted = d]
    BY <1>3 DEF GenericDelete, GenericRestore
  <2>. DEFINE q == [request[r] EXCEPT !.deleted = d]
  <2>2. q \in Rows /\ q.status = request[r].status /\ q.terms = request[r].terms
    BY DEF CrudInv, CrudTyped, Rows
  <2>3. q.status # "absent" => q.terms \in Terms
    BY <2>2 DEF CrudInv, RowsAsk
  <2>4. request' = [request EXCEPT ![r] = q]
    BY <2>1
  <2>. QED  BY <1>3, <2>2, <2>3, <2>4, EditKeeps DEF GenericDelete, GenericRestore, book
<1>4. ASSUME NEW k \in Keys, NEW a \in 0 .. MaxAllocated, NEW u \in 0 .. MaxAllocated,
             GenericBalanceWrite(k, a, u)
      PROVE  CrudInv'
  <2>1. allocated' \in [Keys -> Int] /\ used' \in [Keys -> Int] /\ NeverOverdrawn'
    BY <1>4 DEF CrudInv, CrudTyped, NeverOverdrawn, GenericBalanceWrite, ChecksHold
  <2>. QED  BY <1>4, <2>1, BalanceKeeps DEF GenericBalanceWrite
<1>5. CASE UNCHANGED vars
  BY <1>5 DEF vars, book, CrudInv, CrudTyped, RowsAsk, Holds, OneInsert, NeverOverdrawn
<1>6. UNCHANGED crudVars \/ (\E e \in Editors, r \in Requests : GenericRead(e, r))
        \/ (\E e \in Editors : GenericDrop(e)) => UNCHANGED vars
  BY DEF crudVars, GenericRead, GenericDrop
<1>. QED  BY <1>1, <1>2, <1>3, <1>4, <1>5, <1>6, CrudNextVerbs DEF CrudNext

-----------------------------------------------------------------------------
(* What one step may do to one row.                                        *)

Transitions ==
  {<<"absent", "pending">>, <<"pending", "approved">>, <<"pending", "rejected">>,
   <<"pending", "cancelled">>, <<"approved", "cancelled">>}

\* A row is inserted, decided with its terms as they are, or edited, in its terms
\* only when it is not approved.
RowMoves(r) ==
  \/ request'[r].status = request[r].status /\ request'[r].terms = request[r].terms
  \/ /\ request'[r].status = request[r].status
     /\ request[r].status # "approved"
  \/ /\ <<request[r].status, request'[r].status>> \in Transitions
     /\ request[r].status # "absent" => request'[r].terms = request[r].terms

LEMMA StatusMoves ==
  ASSUME CrudInv, NEW q \in Requests, NEW s \in Statuses, SetStatus(q, s),
         <<request[q].status, s>> \in Transitions, request[q].status # "absent"
  PROVE  \A r \in Requests : RowMoves(r)
<1>1. \A r \in Requests : /\ request'[r].terms = request[r].terms
                          /\ request'[r].status = IF r = q THEN s ELSE request[r].status
  BY DEF CrudInv, CrudTyped, SetStatus, Rows
<1>. QED  BY <1>1 DEF RowMoves

LEMMA InsertMoves ==
  ASSUME CrudInv, NEW q \in Requests, NEW t, NEW l, Pending(q, t, l), request[q].status = "absent"
  PROVE  \A r \in Requests : RowMoves(r)
BY DEF CrudInv, CrudTyped, Pending, RowMoves, Transitions

\* Most steps leave the rows alone; a verb's commit decides one, an insert adds
\* one, the generic surface edits one.
LEMMA RowsMove ==
  ASSUME CrudInv, CopyInv, [CrudNext]_crudVars
  PROVE  \A r \in Requests : RowMoves(r)
<1>1. CASE UNCHANGED request
  BY <1>1 DEF RowMoves
<1>2. ASSUME NEW c \in Callers, SubmitInsert(c) PROVE \A r \in Requests : RowMoves(r)
  BY <1>2, InsertMoves DEF SubmitInsert, CrudInv, Holds, Inserting
<1>3. ASSUME NEW c \in Callers, ApproveCommit(c) \/ CancelPending(c) \/ CancelApproved(c)
      PROVE  \A r \in Requests : RowMoves(r)
  <2>1. call[c].req \in Requests
    BY <1>3 DEF CrudInv, Holds, ApproveCommit, CancelPending, CancelApproved
  <2>. QED
    BY <1>3, <2>1, StatusMoves
       DEF ApproveCommit, CancelPending, CancelApproved, ApproveGate, CancelPendingGate,
           CancelApprovedGate, Statuses, Transitions
<1>4. ASSUME NEW c \in Callers, NEW q \in Requests, Reject(c, q)
      PROVE  \A r \in Requests : RowMoves(r)
  BY <1>4, StatusMoves DEF Reject, RejectGate, Statuses, Transitions
<1>5. ASSUME NEW q \in Requests, NEW t \in Terms, NEW l \in Links, GenericCreate(q, t, l)
      PROVE  \A r \in Requests : RowMoves(r)
  BY <1>5, InsertMoves DEF GenericCreate, Fresh
<1>6. ASSUME NEW e \in Editors, NEW t \in Terms, NEW l \in Links, NEW d \in BOOLEAN,
             GenericSave(e, t, l, d)
      PROVE  \A r \in Requests : RowMoves(r)
  <2>1. PICK q \in Requests, after \in Rows :
               /\ request' = [request EXCEPT ![q] = after]
               /\ after.status = request[q].status
               /\ request[q].status = "approved" => after.terms = request[q].terms
    BY <1>6, SavesKeep
  <2>2. \A r \in Requests : request'[r] = IF r = q THEN after ELSE request[r]
    BY <2>1 DEF CrudInv, CrudTyped
  <2>. QED  BY <2>1, <2>2 DEF RowMoves
<1>7. ASSUME NEW q \in Requests, GenericDelete(q) \/ GenericRestore(q)
      PROVE  \A r \in Requests : RowMoves(r)
  <2>1. \A r \in Requests : /\ request'[r].status = request[r].status
                            /\ request'[r].terms = request[r].terms
    BY <1>7 DEF GenericDelete, GenericRestore, CrudInv, CrudTyped, Rows
  <2>. QED  BY <2>1 DEF RowMoves
<1>8. CASE Next
  <2>1. ASSUME NEW c \in Callers, Begin(c) PROVE \A r \in Requests : RowMoves(r)
    BY <1>1, <1>4, <2>1 DEF Begin, SubmitFile, ApproveRead, CancelRead
  <2>2. ASSUME NEW c \in Callers, Continue(c) PROVE \A r \in Requests : RowMoves(r)
    BY <1>1, <1>2, <1>3, <2>2
       DEF Continue, SubmitOutright, SubmitInsertFails, ApproveVerdict, ApproveRollback,
           CancelRollback, Publish
  <2>. QED
    BY <1>1, <1>8, <2>1, <2>2 DEF Next, SteadyNext, SubmitFileFails, AdjustBalance,
       EngineDecides, Crash
<1>9. UNCHANGED crudVars \/ (\E e \in Editors, r \in Requests : GenericRead(e, r))
        \/ (\E e \in Editors : GenericDrop(e))
        \/ (\E k \in Keys : \E a, u \in 0 .. MaxAllocated : GenericBalanceWrite(k, a, u))
        => UNCHANGED request
  BY DEF crudVars, vars, GenericRead, GenericDrop, GenericBalanceWrite
<1>. QED
  BY <1>1, <1>5, <1>6, <1>7, <1>8, <1>9 DEF CrudNext

\* Moves and edits take a row no further from what was read of it than declared.
LEMMA FollowsOn ==
  ASSUME NEW c \in [req : Requests, row : Rows], Follows(c), RowMoves(c.req)
  PROVE  Follows(c)'
BY DEF Follows, RowMoves, Declared, Transitions

LEMMA CopyNextInv ==
  ASSUME CrudInv, CopyInv, [CrudNext]_crudVars
  PROVE  CopyInv'
<1>1. \A c \in [req : Requests, row : Rows] : Follows(c) => Follows(c)'
  BY RowsMove, FollowsOn
<1>2. ASSUME NEW e \in Editors, NEW r \in Requests, GenericRead(e, r) PROVE CopyInv'
  <2>1. PICK c \in [req : Requests, row : Rows] : c = [req |-> r, row |-> request[r]]
    BY DEF CrudInv, CrudTyped
  <2>2. Follows(c)'
    BY <1>1, <1>2, <2>1 DEF CrudInv, RowsAsk, GenericRead, Live, Follows, Declared
  <2>3. copy' = [copy EXCEPT ![e] = c]
    BY <1>2, <2>1 DEF GenericRead
  <2>. QED  BY <1>1, <2>1, <2>2, <2>3 DEF CopyInv
<1>3. ASSUME NEW e \in Editors, copy' = [copy EXCEPT ![e] = None] PROVE CopyInv'
  BY <1>1, <1>3 DEF CopyInv
<1>4. CASE UNCHANGED copy
  BY <1>1, <1>4 DEF CopyInv
<1>. QED
  BY <1>2, <1>3, <1>4
     DEF CrudNext, GenericCreate, GenericSave, GenericDrop, GenericDelete, GenericRestore,
         GenericBalanceWrite, crudVars

LEMMA CrudInvAlways == CrudSpec => [](CrudInv /\ CopyInv)
<1>1. CrudInit => CrudInv /\ CopyInv
  BY InitCrud DEF CrudInit, CopyInv
<1>. QED  BY <1>1, CrudNextInv, CopyNextInv, PTL DEF CrudSpec

-----------------------------------------------------------------------------
\* With a client writing any row the rules admit beside the verbs, no balance is
\* overdrawn, whatever spans requests ask for.
THEOREM CrudNeverOverdraws == CrudSpec => []NeverOverdrawn
BY CrudInvAlways, PTL DEF CrudInv

\* Hook rule TR3a with any number of generic updates under way, stale ones
\* included: until it is cancelled, an approved request keeps its terms.
THEOREM CrudTermsFrozen == CrudSpec => ApprovedTermsFrozen
<1>1. CrudInv /\ CopyInv /\ [CrudNext]_crudVars =>
        [\A r \in Requests :
           request[r].status = "approved" => request'[r].terms = request[r].terms]_crudVars
  BY RowsMove DEF RowMoves
<1>. QED  BY <1>1, CrudInvAlways, PTL DEF CrudSpec, ApprovedTermsFrozen

\* With the trigger installed every move is a declared one: the verbs ask for no
\* other, and a save whose status has become stale is refused.
THEOREM CrudTransitions == CrudSpec => OnlyDeclaredTransitions
<1>1. CrudInv /\ CopyInv /\ [CrudNext]_crudVars =>
        [\A r \in Requests :
           request'[r].status # request[r].status =>
             <<request[r].status, request'[r].status>> \in Transitions]_crudVars
  BY RowsMove DEF RowMoves
<1>. QED  BY <1>1, CrudInvAlways, PTL DEF CrudSpec, OnlyDeclaredTransitions, Transitions
=============================================================================
