---------------------------- MODULE RequestRows ----------------------------
(***************************************************************************)
(* One row of timeoff_requests under transactions, and its audit history.  *)
(*                                                                         *)
(* The verbs move the row with gated UPDATEs.  A generic PUT or PATCH      *)
(* reads the entity, edits the copy, compares the two by the row rules and *)
(* saves the copy whole, without a lock in between: what it saves may be   *)
(* stale.  A trigger refuses undeclared moves of the status; another adds  *)
(* an entry to the trail, which timeoff_request_history reads, in the      *)
(* transaction of the write.                                               *)
(***************************************************************************)
EXTENDS Integers, Sequences, FiniteSets, Folds

CONSTANTS
  Writers,     \* the concurrent transactions
  Terms,       \* employee, type, dates and part
  MaxInstant,  \* BOUND on the clock of the trail
  None

Decisions == {"approved", "rejected", "cancelled"}
Statuses  == {"pending"} \cup Decisions
Rows      == [status : Statuses, terms : Terms, deleted : BOOLEAN]

ASSUME RowAssumption == None \notin Rows /\ MaxInstant \in Nat

VARIABLES
  row,     \* what is committed, None before the insert and after a purge
  txn,     \* each writer: what it read and what it has written
  trail,   \* auditlog.audit_trails, the entries of this row
  clock    \* the last instant an entry was stamped with

vars == <<row, txn, trail, clock>>

Idle == [pc |-> "idle", copy |-> None, since |-> 0, after |-> None, at |-> 0]

Init ==
  /\ row = None
  /\ txn = [w \in Writers |-> Idle]
  /\ trail = <<>>
  /\ clock = 0

-----------------------------------------------------------------------------
(* A transaction: it begins, writes once, and commits or rolls back.       *)

\* BEGIN; for a PUT or a PATCH also the read of the entity.
Begin(w) ==
  /\ txn[w].pc = "idle"
  /\ txn' = [txn EXCEPT ![w] = [pc |-> "begun", copy |-> row, since |-> clock,
                                after |-> None, at |-> 0]]
  /\ UNCHANGED <<row, trail, clock>>

\* Another writer holds the row: the statement waits, then sees what it left.
Locked == \E w \in Writers : txn[w].pc = "wrote"

\* A bug: the instant the transaction began, as NOW() would give.
StampedAtBegin(w) == txn[w].since + 1

\* The capture stamps under the lock of the row.
Stamped(w) == clock + 1

Write(w, after) ==
  /\ txn[w].pc = "begun" /\ ~Locked
  /\ clock < MaxInstant
  /\ txn' = [txn EXCEPT ![w] = [pc |-> "wrote", copy |-> @.copy, since |-> @.since,
                                after |-> after, at |-> Stamped(w)]]
  /\ clock' = clock + 1
  /\ UNCHANGED <<row, trail>>

\* A bug: the transition trigger is not installed.
AnyTransition(from, to) == TRUE

\* timeoff_requests_status_transition_check.
Declared(from, to) ==
  \/ from = to
  \/ from = "pending" /\ to \in Decisions
  \/ from = "approved" /\ to = "cancelled"

Update(w, after) ==
  /\ row # None
  /\ Declared(row.status, after.status)
  /\ Write(w, after)

\* A new request is pending, whatever a POST says.
Created(t) == [status |-> "pending", terms |-> t, deleted |-> FALSE]

\* The insert of a submit or a POST: the id is fresh, and one that was rolled back
\* is not used again.
Insert(w, t) ==
  /\ row = None /\ clock = 0
  /\ Write(w, Created(t))

\* mark_approved, mark_rejected, cancel_pending and cancel_approved: the gate
\* is in the WHERE of the UPDATE.
Decide(w, to) ==
  /\ row # None
  /\ \/ row.status = "pending"
     \/ row.status = "approved" /\ to = "cancelled"
  /\ to = "rejected" => ~row.deleted
  /\ Update(w, [row EXCEPT !.status = to])

\* What a PUT carries, and what a PATCH may name.
Bodies == [status : Statuses, terms : Terms]
Fields == {"status", "terms"}

\* A PUT replaces the status and the terms, a PATCH those it names.
Replaced(copy, b)        == [copy EXCEPT !.status = b.status, !.terms = b.terms]
Patched(copy, fields, b) == [f \in DOMAIN copy |-> IF f \in fields THEN b[f] ELSE copy[f]]

\* The row rules, between the entity as read and as edited: the status belongs
\* to the verbs, and an approved request keeps its terms.
RowRules(copy, after) ==
  /\ after.status = copy.status
  /\ copy.status = "approved" => after.terms = copy.terms

\* The entity is saved whole.  Its metadata is the copy's or, where the save
\* leaves it alone, the row's.
Save(w, after) ==
  /\ row # None /\ txn[w].copy # None
  /\ ~txn[w].copy.deleted
  /\ RowRules(txn[w].copy, after)
  /\ after.deleted \in {txn[w].copy.deleted, row.deleted}
  /\ Update(w, after)

Put(w, b) ==
  /\ txn[w].copy # None
  /\ \E deleted \in BOOLEAN : Save(w, [Replaced(txn[w].copy, b) EXCEPT !.deleted = deleted])

Patch(w, fields, b) ==
  /\ txn[w].copy # None
  /\ \E deleted \in BOOLEAN :
       Save(w, [Patched(txn[w].copy, fields, b) EXCEPT !.deleted = deleted])

\* A soft delete and a restore stamp the metadata; the trash can be emptied.
Restamp(w, deleted) ==
  /\ row # None /\ row.deleted # deleted
  /\ Update(w, [row EXCEPT !.deleted = deleted])

Purge(w) ==
  /\ row # None /\ row.deleted
  /\ Write(w, None)

\* Refused, failed, dropped or crashed.
Rollback(w) ==
  /\ txn[w].pc # "idle"
  /\ txn' = [txn EXCEPT ![w] = Idle]
  /\ UNCHANGED <<row, trail, clock>>

-----------------------------------------------------------------------------
(* The trail.                                                              *)

\* What an entry says of a write: the fields that changed, with their new
\* values, or all of them after an insert.
Changed(before, after) ==
  IF after = None THEN <<>>
  ELSE LET fields == {f \in DOMAIN after : before = None \/ before[f] # after[f]}
       IN [f \in fields |-> after[f]]

Entry(w) ==
  [action  |-> IF row = None THEN "insert" ELSE IF txn[w].after = None THEN "delete" ELSE "update",
   changed |-> Changed(row, txn[w].after),
   at      |-> txn[w].at]

Commit(w) ==
  /\ txn[w].pc = "wrote"
  /\ row' = txn[w].after
  /\ trail' = Append(trail, Entry(w))
  /\ txn' = [txn EXCEPT ![w] = Idle]
  /\ UNCHANGED clock

-----------------------------------------------------------------------------
(* timeoff_request_history.                                                *)

\* The entries that had occurred by t, by their places in the trail.
Past(t) == {i \in DOMAIN trail : trail[i].at <= t}

\* The position in the list of an entry, numbered from the oldest.
Position(i) == Cardinality(Past(trail[i].at))

\* The newest of some entries.
Newest(entries, S) == CHOOSE i \in S : \A j \in S : entries[j].at <= entries[i].at

\* What the image is built on.
Blank == [image |-> <<>>, gone |-> FALSE]

\* One image over another: a field of the first hides that of the second.
Over(new, old) ==
  [f \in DOMAIN new \cup DOMAIN old |-> IF f \in DOMAIN new THEN new[f] ELSE old[f]]

\* A bug: the fold starts from the newest entry.
ApplyOldOver(s, e) ==
  IF e.action = "delete" THEN [image |-> <<>>, gone |-> TRUE]
  ELSE [image |-> Over(s.image, e.changed), gone |-> FALSE]

\* The diffs are laid over each other; a delete clears the image, and whatever
\* comes after it brings the subject back.
Apply(s, e) ==
  IF e.action = "delete" THEN [image |-> <<>>, gone |-> TRUE]
  ELSE [image |-> Over(e.changed, s.image), gone |-> FALSE]

\* ORDER BY occurred_at, and the fold: the newest is applied last.
Replay(entries, S) ==
  MapThenFoldSet(LAMBDA i, s : Apply(s, entries[i]), Blank,
                 LAMBDA i : i, LAMBDA s : Newest(entries, s), S)

\* ?as_of=t: the image, or why there is none.
AsOf(t) ==
  LET last == Replay(trail, Past(t))
  IN IF Past(t) = {} THEN "history_before_subject"
     ELSE IF last.gone THEN "subject_deleted_before_as_of"
     ELSE last.image

-----------------------------------------------------------------------------
\* The writing routes of the generic surface.
GenericWrite(w) ==
  \/ \E t \in Terms : Insert(w, t)
  \/ \E b \in Bodies : Put(w, b)
  \/ \E b \in Bodies, fields \in SUBSET Fields : Patch(w, fields, b)
  \/ \E deleted \in BOOLEAN : Restamp(w, deleted)
  \/ Purge(w)

Next ==
  \E w \in Writers :
    \/ Begin(w)
    \/ \E to \in Decisions : Decide(w, to)
    \/ GenericWrite(w)
    \/ Commit(w)
    \/ Rollback(w)

Spec == Init /\ [][Next]_vars

-----------------------------------------------------------------------------
(* Properties.                                                             *)

\* The row, the transactions and the clock keep their types; one transaction
\* at most has written the row and not ended.
TypeOK ==
  /\ row \in Rows \cup {None}
  /\ txn \in [Writers -> [pc : {"idle", "begun", "wrote"}, copy : Rows \cup {None},
                          since : Nat, after : Rows \cup {None}, at : Nat]]
  /\ clock \in Nat
  /\ \A v, w \in Writers : txn[v].pc = "wrote" /\ txn[w].pc = "wrote" => v = w

\* Hook rule TR3a where it is hardest to keep: the rules compare an edit with
\* the entity as it was read, and the request may be approved before the edit is
\* saved.  The terms it was approved with stay as they are.
TermsSurviveStaleSaves ==
  [][row # None /\ row.status = "approved" /\ row' # None
       => row'.terms = row.terms]_vars

\* "The row image at any instant is reconstructible from the trail alone": the
\* image of now is the row, and a purged row is answered as deleted.
ImageIsTheRow ==
  AsOf(clock) =
    IF row # None THEN row
    ELSE IF trail = <<>> THEN "history_before_subject" ELSE "subject_deleted_before_as_of"

\* No open transaction has written by the instant t.
Settled(t) == t <= clock /\ \A w \in Writers : txn[w].pc = "wrote" => t < txn[w].at

\* What the history says is final, although entries are written by transactions
\* that end in any order: a position names the same entry for ever, and the image
\* of an instant stays once the transactions that had written by then have ended.
HistoryIsFinal ==
  [][/\ \A i \in DOMAIN trail : Position(i)' = Position(i)
     /\ \A t \in 0 .. clock : Settled(t) => Settled(t)' /\ AsOf(t)' = AsOf(t)]_vars
=============================================================================
