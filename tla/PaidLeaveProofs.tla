-------------------------- MODULE PaidLeaveProofs --------------------------
(***************************************************************************)
(* Proofs about what is read beside the verbs, for any requests, callers,  *)
(* keys and terms: the figures of a leave form (LeaveStanding) and the     *)
(* paid days of payroll (PaidLeave).  Both read nothing but what the book  *)
(* says, so their steps are the entries of LeaveBook.                      *)
(***************************************************************************)
EXTENDS PaidLeave, TimeoffRequestsProofs

Filed == {r \in Requests : request[r].status # "absent"}

\* The requests filed are finitely many, since each is a step, and no verb
\* deletes one.
Shown == IsFiniteSet(Filed) /\ \A r \in Requests : ~request[r].deleted

\* What one entry of the book does to the rows and to `used`.
LEMMA Entry ==
  ASSUME Inv, [Next]_vars
  PROVE  \/ \E r \in Requests, t \in Terms :
              /\ request[r].status = "absent"
              /\ request'[r].status = "pending" /\ request'[r].terms = t
              /\ \A q \in Requests \ {r} : request'[q].status = request[q].status
                                           /\ request'[q].terms = request[q].terms
              /\ used' = used
         \/ \E r \in Requests :
              /\ \A q \in Requests : request'[q].terms = request[q].terms
              /\ \A q \in Requests \ {r} : request'[q].status = request[q].status
              /\ \/ /\ request[r].status = "pending" /\ request'[r].status = "approved"
                    /\ used' = [used EXCEPT ![request[r].terms.key] = @ + Days(request[r].terms)]
                 \/ /\ request[r].status = "pending"
                    /\ request'[r].status \in {"rejected", "cancelled"}
                    /\ used' = used
                 \/ /\ request[r].status = "approved" /\ request'[r].status = "cancelled"
                    /\ used' = [used EXCEPT ![request[r].terms.key] = @ - Days(request[r].terms)]
         \/ /\ \A q \in Requests : request'[q].status = request[q].status
                                   /\ request'[q].terms = request[q].terms
            /\ used' = used
<1> DEFINE Same == [q \in Requests |-> request[q].terms]' = [q \in Requests |-> request[q].terms]
           Moves(r, s) == \A q \in Requests :
                            request'[q].status = IF q = r THEN s ELSE request[q].status
<1>1. Same => \A q \in Requests : request'[q].terms = request[q].terms
  <2>1. SUFFICES ASSUME Same, NEW q \in Requests PROVE request'[q].terms = request[q].terms
    OBVIOUS
  <2>2. [x \in Requests |-> request'[x].terms][q] = [x \in Requests |-> request[x].terms][q]
    BY <2>1
  <2> QED BY <2>2
<1>2. ASSUME NEW r \in Requests, NEW s, Book!Move(r, s) PROVE Moves(r, s)
  <2>1. SUFFICES ASSUME NEW q \in Requests
                 PROVE  request'[q].status = IF q = r THEN s ELSE request[q].status
    OBVIOUS
  <2>2. [x \in Requests |-> request'[x].status][q] = IF q = r THEN s ELSE request[q].status
    BY <1>2 DEF Book!Move
  <2> QED BY <2>2
<1>3. ASSUME NEW r \in Requests, request[r].status # "absent"
      PROVE  /\ [t \in Terms |-> t.key][request[r].terms] = request[r].terms.key
             /\ [t \in Terms |-> Days(t)][request[r].terms] = Days(request[r].terms)
  BY <1>3 DEF Inv, RowInv
<1>4. ASSUME NEW r \in Requests, NEW t \in Terms, Book!Ask(r, t)
      PROVE  /\ request[r].status = "absent" /\ Moves(r, "pending") /\ used' = used
             /\ request'[r].terms = t
             /\ \A q \in Requests \ {r} : request'[q].terms = request[q].terms
  <2>1. /\ request[r].status = "absent" /\ Moves(r, "pending") /\ used' = used
        /\ [q \in Requests |-> request'[q].terms]
             = [[q \in Requests |-> request[q].terms] EXCEPT ![r] = t]
    BY <1>2, <1>4 DEF Book!Ask
  <2>2. \A q \in Requests : request'[q].terms = IF q = r THEN t ELSE request[q].terms
    <3>1. TAKE q \in Requests
    <3>2. [x \in Requests |-> request'[x].terms][q] = IF q = r THEN t ELSE request[q].terms
      BY <2>1
    <3> QED BY <3>2
  <2> QED BY <2>1, <2>2
<1>5. ASSUME NEW r \in Requests, Book!Grant(r)
      PROVE  /\ request[r].status = "pending" /\ Moves(r, "approved") /\ Same
             /\ used' = [used EXCEPT ![request[r].terms.key] = @ + Days(request[r].terms)]
  <2>1. request[r].status = "pending"
    BY <1>5 DEF Book!Grant
  <2> QED BY <1>2, <1>3, <1>5, <2>1 DEF Book!Grant
<1>6. ASSUME NEW r \in Requests, Book!Refuse(r) \/ Book!Withdraw(r)
      PROVE  /\ request[r].status = "pending" /\ (Moves(r, "rejected") \/ Moves(r, "cancelled"))
             /\ Same /\ used' = used
  BY <1>2, <1>6 DEF Book!Refuse, Book!Withdraw
<1>7. ASSUME NEW r \in Requests, Book!GiveBack(r)
      PROVE  /\ request[r].status = "approved" /\ Moves(r, "cancelled") /\ Same
             /\ used' = [used EXCEPT ![request[r].terms.key] = @ - Days(request[r].terms)]
  <2>1. request[r].status = "approved"
    BY <1>7 DEF Book!GiveBack
  <2> QED BY <1>2, <1>3, <1>7, <2>1 DEF Book!GiveBack
<1>8. ASSUME [q \in Requests |-> request[q].status]' = [q \in Requests |-> request[q].status],
             Same, used' = used
      PROVE  /\ \A q \in Requests : request'[q].status = request[q].status
                                    /\ request'[q].terms = request[q].terms
             /\ used' = used
  <2>1. ASSUME NEW q \in Requests PROVE request'[q].status = request[q].status
    <3>1. [x \in Requests |-> request'[x].status][q] = [x \in Requests |-> request[x].status][q]
      BY <1>8
    <3> QED BY <3>1
  <2> QED BY <1>1, <1>8, <2>1
<1>9. [Book!Next]_(Book!vars)
  BY BookStep
<1>10. CASE \E r \in Requests, t \in Terms : Book!Ask(r, t)
  BY <1>4, <1>10
<1>11. CASE \E r \in Requests : Book!Grant(r) \/ Book!Refuse(r) \/ Book!Withdraw(r) \/ Book!GiveBack(r)
  BY <1>1, <1>5, <1>6, <1>7, <1>11
<1>12. CASE \/ \E k \in Keys, n \in 0 .. MaxAllocated : Book!Allocate(k, n)
            \/ UNCHANGED Book!vars
  BY <1>8, <1>12 DEF Book!Allocate, Book!vars
<1> QED BY <1>9, <1>10, <1>11, <1>12 DEF Book!Next
\* A request keeps its flag, a balance row is never removed.
LEMMA NothingDeleted ==
  ASSUME Inv, [Next]_vars, \A r \in Requests : ~request[r].deleted
  PROVE  minted \subseteq minted' /\ \A r \in Requests : ~request'[r].deleted
<1>1. ASSUME NEW r \in Requests, NEW s, SetStatus(r, s)
      PROVE  \A q \in Requests : ~request'[q].deleted
  BY <1>1 DEF SetStatus, Inv, TypeOK, Rows
<1>2. ASSUME NEW c \in Callers, SubmitInsert(c) PROVE \A q \in Requests : ~request'[q].deleted
  BY <1>2 DEF SubmitInsert, Pending, Inv, TypeOK, Rows
<1>3. ASSUME NEW c \in Callers, ApproveCommit(c) \/ CancelPending(c) \/ CancelApproved(c)
      PROVE  \A q \in Requests : ~request'[q].deleted
  <2>1. call[c].req \in Requests
    BY <1>3 DEF Inv, CallInv, ApproveCommit, CancelPending, CancelApproved
  <2> QED BY <1>1, <1>3, <2>1 DEF ApproveCommit, CancelPending, CancelApproved
<1>4. ASSUME NEW c \in Callers, Begin(c)
      PROVE  minted \subseteq minted' /\ \A r \in Requests : ~request'[r].deleted
  BY <1>1, <1>4 DEF Begin, SubmitFile, ApproveRead, Reject, CancelRead, book
<1>5. ASSUME NEW c \in Callers, Continue(c)
      PROVE  minted \subseteq minted' /\ \A r \in Requests : ~request'[r].deleted
  BY <1>2, <1>3, <1>5
     DEF Continue, SubmitInsert, SubmitOutright, SubmitInsertFails, ApproveVerdict, ApproveCommit,
         ApproveRollback, CancelPending, CancelApproved, CancelRollback, Publish, book
<1> QED
  BY <1>4, <1>5 DEF Next, SteadyNext, SubmitFileFails, AdjustBalance, EngineDecides, Crash, vars, book

\* Every step keeps the filed requests finitely many and none of them deleted.
LEMMA NextShown == Inv /\ Shown /\ [Next]_vars => Shown'
<1> SUFFICES ASSUME Inv, Shown, [Next]_vars PROVE Shown'
  OBVIOUS
<1>1. PICK r : Filed' \subseteq Filed \cup {r}
  BY Entry DEF Filed
<1>2. IsFiniteSet(Filed \cup {r})
  BY FS_AddElement DEF Shown
<1>3. IsFiniteSet(Filed')
  BY <1>1, <1>2, FS_Subset
<1> QED BY <1>3, NothingDeleted DEF Shown

\* Shown is an invariant of the verbs.
LEMMA ShownAlways == Spec => []Shown
<1>1. ASSUME Init PROVE Shown
  <2>1. Filed = {} /\ \A r \in Requests : ~request[r].deleted
    BY <1>1 DEF Init, Filed, Absent
  <2> QED BY <2>1, FS_EmptySet DEF Shown
<1> QED BY <1>1, NextShown, InvAlways, PTL DEF Spec

-----------------------------------------------------------------------------
(* The figures of a leave form.                                            *)

PendingAt(k) == {r \in Requests : request[r].status = "pending" /\ request[r].terms.key = k}
AskDays      == [r \in Requests |-> Days(request[r].terms)]

\* The sum of the figure is the sum of the function of days asked.
LEMMA AskTotal ==
  ASSUME NEW S \in SUBSET Requests, IsFiniteSet(S)
  PROVE  MapThenSumSet(LAMBDA r : Days(request[r].terms), S) = Total(AskDays, S)
<1> DEFINE G(f) == f = [s \in SUBSET S |->
                          IF s = {} THEN 0
                          ELSE Days(request[CHOOSE x \in s : TRUE].terms)
                                 + f[s \ {CHOOSE x \in s : TRUE}]]
<1>1. \A s \in SUBSET S : s # {} => AskDays[Pick(s)] = Days(request[Pick(s)].terms)
  BY PickIn DEF AskDays
<1>2. \A f : Tallies(f, AskDays, S) <=> G(f)
  BY <1>1 DEF Tallies, Pick
<1>3. \E f : G(f)
  <2> HIDE DEF G
  <2> QED BY <1>2, TalliesExist
<1>4. MapThenSumSet(LAMBDA r : Days(request[r].terms), S) = (CHOOSE f : G(f))[S]
  BY DEF MapThenSumSet, MapThenFoldSet
<1>5. G(CHOOSE f : G(f))
  <2> HIDE DEF G
  <2> QED BY <1>3
<1> HIDE DEF G
<1> QED BY <1>2, <1>4, <1>5, TotalTallies

\* What is held back of a key for its pending asks.
HoldsBack(k) ==
  /\ PendingDays(k) = Total(AskDays, PendingAt(k)) /\ PendingDays(k) \in Nat
  /\ IsFiniteSet(PendingAt(k))
  /\ \A r \in PendingAt(k) : AskDays[r] \in Nat

\* The book as the reads beside it find it.
Books == Inv /\ Shown /\ \A k \in Keys : HoldsBack(k)

\* What a preview holds back for pending asks is a finite sum of positive spans.
LEMMA HeldBack == ASSUME Inv, Shown, NEW k \in Keys PROVE HoldsBack(k)
<1>1. PendingAt(k) \in SUBSET Requests /\ PendingAt(k) \in SUBSET Filed
  BY DEF PendingAt, Filed
<1>2. IsFiniteSet(PendingAt(k))
  BY <1>1, FS_Subset DEF Shown
<1>3. \A r \in PendingAt(k) : AskDays[r] \in Nat
  BY SubmittableDraws DEF PendingAt, AskDays, Inv, RowInv
<1>4. {r \in Requests : /\ Live(r) /\ request[r].status = "pending"
                        /\ request[r].terms.key = k} = PendingAt(k)
  BY DEF PendingAt, Shown, Live
<1>5. PendingDays(k) = Total(AskDays, PendingAt(k))
  BY <1>1, <1>2, <1>4, AskTotal DEF PendingDays
<1>6. 0 <= Total(AskDays, PendingAt(k)) /\ Total(AskDays, PendingAt(k)) \in Int
  <2>1. PendingAt(k) \in SUBSET PendingAt(k) /\ \A r \in PendingAt(k) : AskDays[r] \in Int
    BY <1>3
  <2> QED BY <1>2, <1>3, <2>1, TotalPart, TotalInt
<1> QED BY <1>2, <1>3, <1>5, <1>6 DEF HoldsBack

\* Books is an invariant of the verbs.
LEMMA BooksAlways == Spec => []Books
<1>1. Inv /\ Shown => Books
  BY HeldBack DEF Books
<1> QED BY <1>1, InvAlways, ShownAlways, PTL

\* Where Books holds, an ask that fits is one the draw lets through.
LEMMA FitsDraws == Books => PreviewAgreesWithTheVerbs
<1> SUFFICES ASSUME Books, NEW t \in Terms, Fits(t) PROVE Submittable(t) /\ CanDraw(t)
  BY DEF PreviewAgreesWithTheVerbs
<1>1. Submittable(t) /\ t.key \in Keys
  BY TermsFacts DEF Fits, Submittable
<1>2. Days(t) \in Int /\ Days(t) >= 1
  BY <1>1, SubmittableDraws
<1>3. used[t.key] \in Int /\ allocated[t.key] \in Int /\ 0 <= used[t.key]
  BY <1>1, BalanceAssumption DEF Books, Inv, TypeOK, NeverOverdrawn
<1>4. PendingDays(t.key) \in Nat
  BY <1>1 DEF Books, HoldsBack
<1>5. Days(t) <= allocated[t.key] - used[t.key] - PendingDays(t.key)
  BY DEF Fits, AvailableAfterPending
<1>6. used[t.key] + Days(t) <= allocated[t.key] /\ 0 <= used[t.key] + Days(t)
  BY <1>2, <1>3, <1>4, <1>5
<1> QED BY <1>1, <1>6 DEF Fits, WithinWindow, CanDraw, DrawGate, ChecksHold

\* What the leave form calls a fit is an ask that the submit and the draw take,
\* in every state the verbs reach.
THEOREM FitIsAccepted == Spec => []PreviewAgreesWithTheVerbs
BY FitsDraws, BooksAlways, PTL

\* No entry but a new ask of the key takes more of it than it held back.
LEMMA EntriesHoldBack ==
  ASSUME Books, Books', [Next]_vars, NEW k \in Keys,
         ~\E r \in Requests : /\ request[r].status = "absent"
                              /\ request'[r].status = "pending"
                              /\ request'[r].terms.key = k
  PROVE  used'[k] + PendingDays(k)' <= used[k] + PendingDays(k)
<1> DEFINE P == PendingAt(k)
           T(S) == Total(AskDays, S)
<1>1. /\ PendingDays(k) = T(P) /\ T(P) \in Nat
      /\ IsFiniteSet(P) /\ \A r \in P : AskDays[r] \in Nat
  BY DEF Books, HoldsBack
<1>2. PendingDays(k)' = Total(AskDays', P')
  BY DEF Books, HoldsBack
<1>3. used \in [Keys -> Int] /\ used' \in [Keys -> Int]
  BY DEF Books, Inv, TypeOK
<1>4. ASSUME \A r \in P' : r \in P /\ AskDays'[r] = AskDays[r]
      PROVE  PendingDays(k)' = T(P') /\ P' \in SUBSET P
  <2>1. P' \in SUBSET P
    BY <1>4
  <2>2. IsFiniteSet(P')
    BY <1>1, <2>1, FS_Subset
  <2>3. Total(AskDays', P') = T(P')
    BY <1>4, <2>2, TotalSame
  <2> QED BY <1>2, <2>1, <2>3
<1>5. ASSUME NEW S \in SUBSET P PROVE T(S) <= T(P) /\ T(S) \in Int
  <2>1. IsFiniteSet(S) /\ \A r \in S : AskDays[r] \in Int
    BY <1>1, FS_Subset
  <2> HIDE DEF P
  <2> QED BY <1>1, <2>1, TotalPart, TotalInt
<1>6. ASSUME \A r \in P' : r \in P /\ AskDays'[r] = AskDays[r], used'[k] <= used[k]
      PROVE  used'[k] + PendingDays(k)' <= used[k] + PendingDays(k)
  <2>1. T(P') <= T(P) /\ T(P') \in Int /\ PendingDays(k)' = T(P')
    BY <1>4, <1>5, <1>6
  <2> QED BY <1>1, <1>3, <1>6, <2>1
<1>7. ASSUME NEW r \in Requests, NEW t \in Terms,
             request[r].status = "absent", request'[r].status = "pending", request'[r].terms = t,
             \A q \in Requests \ {r} : request'[q].status = request[q].status
                                       /\ request'[q].terms = request[q].terms,
             used' = used
      PROVE  used'[k] + PendingDays(k)' <= used[k] + PendingDays(k)
  <2>1. \A q \in P' : q \in P /\ AskDays'[q] = AskDays[q]
    BY <1>7 DEF PendingAt, AskDays
  <2> QED BY <1>3, <1>6, <1>7, <2>1
<1>8. ASSUME \A q \in Requests : request'[q].terms = request[q].terms,
             \A q \in Requests : request'[q].status = "pending" => request[q].status = "pending"
      PROVE  \A q \in P' : q \in P /\ AskDays'[q] = AskDays[q]
  BY <1>8 DEF PendingAt, AskDays
<1>9. ASSUME NEW r \in Requests,
             \A q \in Requests : request'[q].terms = request[q].terms,
             \A q \in Requests \ {r} : request'[q].status = request[q].status,
             request[r].status = "pending", request'[r].status = "approved",
             used' = [used EXCEPT ![request[r].terms.key] = @ + Days(request[r].terms)]
      PROVE  used'[k] + PendingDays(k)' <= used[k] + PendingDays(k)
  <2>1. \A q \in P' : q \in P /\ AskDays'[q] = AskDays[q]
    BY <1>8, <1>9
  <2>2. CASE request[r].terms.key # k
    BY <1>3, <1>6, <1>9, <2>1, <2>2
  <2>3. CASE request[r].terms.key = k
    <3>1. r \in P /\ P' = P \ {r} /\ AskDays[r] = Days(request[r].terms)
      BY <1>9, <2>3 DEF PendingAt, AskDays
    <3>2. T(P) = AskDays[r] + T(P \ {r})
      <4>1. \A q \in P : AskDays[q] \in Int
        BY <1>1
      <4> HIDE DEF P
      <4> QED BY <1>1, <3>1, <4>1, TotalRemove
    <3>3. T(P \ {r}) \in Int /\ AskDays[r] \in Nat
      BY <1>1, <1>5, <3>1
    <3>4. used'[k] = used[k] + AskDays[r] /\ used[k] \in Int
      BY <1>3, <1>9, <2>3, <3>1
    <3>5. PendingDays(k)' = T(P \ {r})
      BY <1>4, <2>1, <3>1
    <3> HIDE DEF T, P
    <3> QED BY <1>1, <3>2, <3>3, <3>4, <3>5
  <2> QED BY <2>2, <2>3
<1>10. ASSUME NEW r \in Requests,
              \A q \in Requests : request'[q].terms = request[q].terms,
              \A q \in Requests \ {r} : request'[q].status = request[q].status,
              request[r].status = "approved", request'[r].status = "cancelled",
              used' = [used EXCEPT ![request[r].terms.key] = @ - Days(request[r].terms)]
       PROVE  used'[k] + PendingDays(k)' <= used[k] + PendingDays(k)
  <2>1. Days(request[r].terms) \in Int /\ Days(request[r].terms) >= 1
    BY <1>10, SubmittableDraws DEF Books, Inv, RowInv
  <2>2. used'[k] <= used[k]
    BY <1>3, <1>10, <2>1
  <2> QED BY <1>6, <1>8, <1>10, <2>2
<1>11. ASSUME NEW r \in Requests,
              \A q \in Requests : request'[q].terms = request[q].terms,
              \A q \in Requests \ {r} : request'[q].status = request[q].status,
              request'[r].status \in {"rejected", "cancelled"}, used' = used
       PROVE  used'[k] + PendingDays(k)' <= used[k] + PendingDays(k)
  BY <1>3, <1>6, <1>8, <1>11
<1>12. ASSUME \A q \in Requests : request'[q].status = request[q].status
                                  /\ request'[q].terms = request[q].terms,
              used' = used
       PROVE  used'[k] + PendingDays(k)' <= used[k] + PendingDays(k)
  BY <1>3, <1>6, <1>8, <1>12
<1> HIDE DEF P, T
<1>13. Inv
  BY DEF Books
<1> QED BY Entry, <1>13, <1>7, <1>9, <1>10, <1>11, <1>12

\* A fit is taken back by a new ask of its key or a lowered allocation only.
THEOREM FitIsKept == Spec => PreviewPromiseKept
<1>1. ASSUME Books, Books', [Next]_vars, NEW t \in Terms, Fits(t),
             ~(allocated'[t.key] < allocated[t.key]), ~\E r \in Requests : /\ request[r].status = "absent"
                                    /\ request'[r].status = "pending"
                                    /\ request'[r].terms.key = t.key
      PROVE  Fits(t)'
  <2>1. t.key \in Keys /\ Days(t) \in Int
    BY TermsFacts
  <2>2. used'[t.key] + PendingDays(t.key)' <= used[t.key] + PendingDays(t.key)
    BY <1>1, <2>1, EntriesHoldBack
  <2>3. /\ allocated[t.key] \in Int /\ allocated'[t.key] \in Int
        /\ used[t.key] \in Int /\ used'[t.key] \in Int
        /\ PendingDays(t.key) \in Int /\ PendingDays(t.key)' \in Int
    <3>1. PendingDays(t.key) \in Nat /\ PendingDays(t.key)' \in Nat
      BY <1>1, <2>1 DEF Books, HoldsBack
    <3> QED BY <1>1, <2>1, <3>1, BalanceAssumption DEF Books, Inv, TypeOK
  <2>4. Days(t) <= allocated[t.key] - used[t.key] - PendingDays(t.key)
    BY <1>1 DEF Fits, AvailableAfterPending
  <2>5. Days(t) <= allocated'[t.key] - used'[t.key] - PendingDays(t.key)'
    BY <1>1, <2>1, <2>2, <2>3, <2>4
  <2>6. t.key \in minted'
    BY <1>1, NothingDeleted DEF Books, Fits, Shown
  <2> QED BY <1>1, <2>5, <2>6 DEF Fits, AvailableAfterPending, WithinWindow
<1>2. Books /\ Books' /\ [Next]_vars
        => [\A t \in Terms : Fits(t) /\ ~Fits(t)' =>
              \/ allocated'[t.key] < allocated[t.key]
              \/ \E r \in Requests : /\ request[r].status = "absent"
                                     /\ request'[r].status = "pending"
                                     /\ request'[r].terms.key = t.key]_vars
  BY <1>1
<1> QED BY <1>2, BooksAlways, PTL DEF Spec, PreviewPromiseKept
-----------------------------------------------------------------------------
(* The paid days of payroll.                                               *)

\* Edits of leave types move nothing the verbs move.
LEMMA PayrollIsRead == PaySpec => Spec
<1>1. PayInit => Init
  BY DEF PayInit
<1>2. [PayNext]_payVars => [Next]_vars
  BY DEF PayNext, payVars, TypeWrite, PatchType, PutType, Next
<1> QED BY <1>1, <1>2, PTL DEF PaySpec, Spec

\* The dates from a to b, whichever of a request and a period ends first.
LEMMA ExpandedDates ==
  ASSUME NEW t \in Terms, NEW lo \in Int, NEW hi \in Int
  PROVE  Expanded(t, lo, hi) = {d \in Int : t.from <= d /\ d <= t.to /\ lo <= d /\ d <= hi}
<1>1. t.from \in Int /\ t.to \in Int
  BY TermsFacts
<1>2. ASSUME NEW a \in Int, NEW b \in Int
      PROVE  /\ Max({a, b}) \in Int /\ \A d \in Int : Max({a, b}) <= d <=> a <= d /\ b <= d
             /\ Min({a, b}) \in Int /\ \A d \in Int : d <= Min({a, b}) <=> d <= a /\ d <= b
  <2>1. \E x \in {a, b} : \A y \in {a, b} : x >= y
    OBVIOUS
  <2>2. Max({a, b}) \in {a, b} /\ \A y \in {a, b} : Max({a, b}) >= y
    BY <2>1 DEF Max
  <2>3. \E x \in {a, b} : \A y \in {a, b} : x <= y
    OBVIOUS
  <2>4. Min({a, b}) \in {a, b} /\ \A y \in {a, b} : Min({a, b}) <= y
    BY <2>3 DEF Min
  <2> QED BY <2>2, <2>4
<1> DEFINE a == Max({t.from, lo})
           b == Min({t.to, hi})
<1>3. /\ a \in Int /\ \A d \in Int : a <= d <=> t.from <= d /\ lo <= d
      /\ b \in Int /\ \A d \in Int : d <= b <=> d <= t.to /\ d <= hi
  BY <1>1, <1>2
<1>4. Expanded(t, lo, hi) = a .. b
  BY DEF Expanded
<1> HIDE DEF a, b
<1>5. a .. b = {d \in Int : a <= d /\ d <= b}
  BY <1>3
<1> QED BY <1>3, <1>4, <1>5

\* The dates that paid leave covers.
Leave == {d \in Int : \E r \in PaidRequests : request[r].terms.from <= d /\ d <= request[r].terms.to}

\* What is paid in a period is the days of paid leave that fall in it.
LEMMA PaidDates ==
  ASSUME Inv, NEW lo \in Int, NEW hi \in Int
  PROVE  PaidDays(lo, hi) = {d \in Leave : lo <= d /\ d <= hi}
<1>1. \A r \in PaidRequests : request[r].terms \in Terms
  BY DEF PaidRequests, Payable, Inv, RowInv
<1>2. \A r \in PaidRequests :
        Expanded(request[r].terms, lo, hi)
          = {d \in Int : request[r].terms.from <= d /\ d <= request[r].terms.to /\ lo <= d /\ d <= hi}
  BY <1>1, ExpandedDates
<1> QED BY <1>2 DEF PaidDays, Leave

\* A day of paid leave is paid in exactly one of two consecutive periods,
\* whatever verbs and edits of types came before.
THEOREM DaysSplitOnce == PaySpec => []PeriodsAddUp
<1>1. Inv => PeriodsAddUp
  <2> SUFFICES ASSUME Inv, NEW lo \in Calendar, NEW mid \in Calendar, NEW hi \in Calendar,
                      lo <= mid, mid < hi
               PROVE  /\ PaidDays(lo, mid) \cap PaidDays(mid + 1, hi) = {}
                      /\ PaidDays(lo, mid) \cup PaidDays(mid + 1, hi) = PaidDays(lo, hi)
    BY DEF PeriodsAddUp
  <2>1. lo \in Int /\ mid \in Int /\ hi \in Int /\ mid + 1 \in Int
    BY PayrollAssumption
  <2>2. Leave \subseteq Int
    BY DEF Leave
  <2>3. /\ PaidDays(lo, mid) = {d \in Leave : lo <= d /\ d <= mid}
        /\ PaidDays(mid + 1, hi) = {d \in Leave : mid + 1 <= d /\ d <= hi}
        /\ PaidDays(lo, hi) = {d \in Leave : lo <= d /\ d <= hi}
    BY <2>1, PaidDates
  <2>4. \A d \in Leave : d <= mid <=> ~(mid + 1 <= d)
    BY <2>1, <2>2
  <2>5. \A d \in Leave : (mid + 1 <= d => lo <= d) /\ (d <= mid => d <= hi)
    BY <2>1, <2>2
  <2> QED BY <2>3, <2>4, <2>5
<1> QED BY <1>1, PayrollIsRead, InvAlways, PTL

\* An approval is the only way into the paid days, a cancel of one the only way
\* out, and both move the balance.
THEOREM PayMovesWithUsed == PaySpec => PayMovesWithTheBalance
<1>1. ASSUME Books, Books', [Next]_vars, UNCHANGED paid, \A k \in Own : used'[k] = used[k],
             NEW r \in Requests
      PROVE  r \in PaidRequests' <=> r \in PaidRequests
  <2>1. used \in [Keys -> Int] /\ Own \subseteq Keys
    BY <1>1, PayrollAssumption DEF Books, Inv, TypeOK
  <2>2. ASSUME NEW q \in Requests, request[q].status # "absent"
        PROVE  LET t == request[q].terms
               IN t.key \in Keys /\ Days(t) \in Int /\ Days(t) >= 1
    BY <1>1, <2>2, TermsFacts, SubmittableDraws DEF Books, Inv, RowInv
  <2>3. ASSUME NEW q \in Requests, request[q].status \in {"pending", "approved"},
               \/ used' = [used EXCEPT ![request[q].terms.key] = @ + Days(request[q].terms)]
               \/ used' = [used EXCEPT ![request[q].terms.key] = @ - Days(request[q].terms)]
        PROVE  request[q].terms.key \notin Own
    <3>1. request[q].terms.key \in Keys /\ Days(request[q].terms) \in Int /\ Days(request[q].terms) >= 1
      BY <2>2, <2>3
    <3>2. used'[request[q].terms.key] # used[request[q].terms.key]
      BY <2>1, <2>3, <3>1
    <3> QED BY <1>1, <3>2
  <2>4. \/ request'[r].terms = request[r].terms
           /\ (request'[r].status = "approved" <=> request[r].status = "approved")
        \/ request'[r].status # "approved" /\ request[r].status # "approved"
        \/ request'[r].terms = request[r].terms /\ request[r].terms.key \notin Own
    <3>1. Inv
      BY <1>1 DEF Books
    <3> QED BY <1>1, <2>3, <3>1, Entry
  <2>5. ~request[r].deleted /\ ~request'[r].deleted
    BY <1>1 DEF Books, Shown
  <2> QED BY <1>1, <2>4, <2>5 DEF PaidRequests, Payable, Live
<1>2. ASSUME Books, Books', [Next]_vars, UNCHANGED paid, \A k \in Own : used'[k] = used[k],
             NEW lo, NEW hi
      PROVE  PaidDays(lo, hi)' = PaidDays(lo, hi)
  <2>1. PaidRequests' = PaidRequests
    BY <1>1, <1>2 DEF PaidRequests
  <2>2. \A r \in PaidRequests : request'[r].terms = request[r].terms
    BY <1>2, Entry DEF Books, PaidRequests, Payable
  <2> QED BY <2>1, <2>2 DEF PaidDays, Expanded
<1>3. Books /\ Books' /\ [Next]_vars
        => [\A lo, hi \in Calendar :
              PaidDays(lo, hi)' # PaidDays(lo, hi) =>
                \/ \E k \in Own : used'[k] # used[k]
                \/ paid' # paid]_payVars
  BY <1>2
<1> QED BY <1>3, PayrollIsRead, BooksAlways, PTL DEF Spec, PayMovesWithTheBalance

-----------------------------------------------------------------------------
\* What an approval draws lies in the window of its balance.
DrawsFit ==
  \A r \in Requests : drawn[r] # None =>
    /\ Window[drawn[r].key].from <= drawn[r].from
    /\ drawn[r].to <= Window[drawn[r].key].to

LEMMA DrawsFitAlways == Spec => []DrawsFit
<1>1. Init => DrawsFit
  BY DEF Init, DrawsFit
<1>2. ASSUME Inv, DrawsFit, [Next]_vars PROVE DrawsFit'
  <2>1. CASE UNCHANGED drawn
    BY <1>2, <2>1 DEF DrawsFit
  <2>2. ASSUME NEW c \in Callers, ApproveCommit(c) PROVE DrawsFit'
    <3>1. DrawGate(call[c].terms) /\ drawn' = [drawn EXCEPT ![call[c].req] = call[c].terms]
      BY <2>2 DEF ApproveCommit, CanDraw
    <3> QED BY <1>2, <3>1 DEF DrawsFit, DrawGate, Inv, TypeOK
  <2>3. ASSUME NEW c \in Callers, Begin(c) PROVE UNCHANGED drawn
    BY <2>3 DEF Begin, SubmitFile, ApproveRead, Reject, CancelRead, ghost
  <2>4. ASSUME NEW c \in Callers, Continue(c), ~ApproveCommit(c) PROVE UNCHANGED drawn
    BY <2>4
       DEF Continue, SubmitInsert, SubmitOutright, SubmitInsertFails, ApproveVerdict,
           ApproveRollback, CancelPending, CancelApproved, CancelRollback, Publish, ghost
  <2> QED
    BY <1>2, <2>1, <2>2, <2>3, <2>4
       DEF Next, SteadyNext, SubmitFileFails, AdjustBalance, EngineDecides, Crash, vars, ghost
<1> QED BY <1>1, <1>2, InvAlways, PTL DEF Spec

\* Every date payroll pays was drawn from a balance of the employee that is valid
\* on it and still holds the draw.
THEOREM PaidIsDrawn == PaySpec => []PaidDaysAreDrawn
<1>1. Inv /\ Ledger /\ DrawsFit => PaidDaysAreDrawn
  <2> SUFFICES ASSUME Inv, Ledger, DrawsFit, NEW lo \in Calendar, NEW hi \in Calendar,
                      NEW d \in PaidDays(lo, hi)
               PROVE  \E r \in Requests : Funds(r, d)
    BY DEF PaidDaysAreDrawn
  <2>1. lo \in Int /\ hi \in Int
    BY PayrollAssumption
  <2>2. PICK r \in PaidRequests : /\ d \in Int /\ request[r].terms.from <= d
                                  /\ d <= request[r].terms.to
    BY <2>1, PaidDates DEF Leave
  <2>3. /\ r \in Requests /\ request[r].status = "approved"
        /\ drawn[r] = request[r].terms /\ drawn[r] \in Terms /\ drawn[r].key \in Own
    BY DEF PaidRequests, Payable, Inv, RowInv
  <2>4. drawn[r] # None /\ drawn[r].key \in Keys /\ drawn[r].from \in Int /\ drawn[r].to \in Int
    BY <2>3, NoneAssumption, TermsFacts
  <2>5. /\ Window[drawn[r].key].from <= d /\ d <= Window[drawn[r].key].to
    <3>1. Window[drawn[r].key].from \in Int /\ Window[drawn[r].key].to \in Int
      BY <2>4, BalanceAssumption
    <3> QED BY <2>2, <2>3, <2>4, <3>1 DEF DrawsFit
  <2>6. Days(drawn[r]) <= used[drawn[r].key]
    <3> DEFINE S == Standing(drawn[r].key)
    <3>1. IsFiniteSet(S) /\ used[drawn[r].key] = Total(DaysDrawn, S) /\ r \in S
      BY <2>3, <2>4 DEF Ledger, Standing
    <3>2. \A q \in S : DaysDrawn[q] \in Nat
      <4>1. ASSUME NEW q \in Requests, request[q].status = "approved"
            PROVE  Days(drawn[q]) \in Nat
        <5>1. drawn[q] \in Terms /\ Submittable(drawn[q])
          BY <4>1 DEF Inv, RowInv
        <5>2. Days(drawn[q]) \in Int /\ Days(drawn[q]) >= 1
          BY <5>1, TermsFacts, SubmittableDraws
        <5> QED BY <5>2
      <4> QED BY <4>1 DEF Standing, DaysDrawn
    <3>3. DaysDrawn[r] = Days(drawn[r])
      BY <2>3 DEF DaysDrawn
    <3> HIDE DEF S
    <3>4. S \ {r} \in SUBSET S /\ \A q \in S : DaysDrawn[q] \in Int
      BY <3>2
    <3>5. Total(DaysDrawn, S) = DaysDrawn[r] + Total(DaysDrawn, S \ {r})
      BY <3>1, <3>4, TotalRemove
    <3>6. 0 <= Total(DaysDrawn, S \ {r}) /\ Total(DaysDrawn, S \ {r}) \in Int
      BY <3>1, <3>2, <3>4, TotalPart, TotalInt, FS_Subset
    <3> QED BY <3>1, <3>2, <3>3, <3>5, <3>6
  <2> QED BY <2>2, <2>3, <2>4, <2>5, <2>6 DEF Funds
<1> QED BY <1>1, PayrollIsRead, InvAlways, LedgerAlways, DrawsFitAlways, PTL
=============================================================================
