---------------------------- MODULE BalanceRows ----------------------------
(***************************************************************************)
(* timeoff_balances as rows: a key (employee, type, period) may have       *)
(* several, live, in the trash or purged.  Every writer of the table is    *)
(* here: the draw of an approval and the restore of a cancel, which match  *)
(* rows by key alone; the find-or-create of adjust_balance, two steps      *)
(* under a row lock; the grants of the accrual walk; and, where it is      *)
(* mounted, the generic CRUD surface.                                      *)
(*                                                                         *)
(* A verb of a request decides it and moves its rows in one step, as       *)
(* LeaveBook has it.  A statement waits for the rows that it would change  *)
(* and another transaction has locked: its action is not enabled.          *)
(***************************************************************************)
EXTENDS Integers, FiniteSets, FiniteSetsExt

CONSTANTS
  Ids,           \* the balance ids that can be minted
  Keys,          \* (employee, timeoff type, period)
  Asks,          \* the requests filed, with days and key
  KeyOf, Amount,
  Hands,         \* the concurrent calls of adjust_balance
  Deltas,        \* the amounts an adjustment can carry
  Unique,        \* the statuses the decorator's unique index covers
  Generic,       \* is the generic CRUD surface mounted?
  MaxAllocated,  \* BOUND on an allocation
  None

ASSUME RowsAssumption ==
  /\ KeyOf \in [Asks -> Keys] /\ Amount \in [Asks -> Nat]
  /\ Deltas \subseteq Int \ {0}
  /\ Unique \subseteq {"live", "deleted"}
  /\ Generic \in BOOLEAN /\ MaxAllocated \in Nat
  /\ None \notin Keys \cup Ids

VARIABLES
  row,      \* timeoff_balances
  ask,      \* the status of each request
  hand,     \* the open transaction of each adjust_balance
  given,    \* history: what each row was given, write by write
  edited    \* history: the keys a generic update or a purge hit

rowVars == <<row, ask, hand, given, edited>>

Amounts  == 0 .. MaxAllocated
Statuses == {"absent", "live", "deleted", "purged"}
Balances == [status : Statuses, key : Keys \cup {None}, allocated : Amounts, used : Amounts]
Absent   == [status |-> "absent", key |-> None, allocated |-> 0, used |-> 0]
Idle     == [pc |-> "idle", id |-> None, key |-> None, allocated |-> 0, delta |-> 0]

RowsInit ==
  /\ row    = [i \in Ids |-> Absent]
  /\ ask    = [a \in Asks |-> "pending"]
  /\ hand   = [h \in Hands |-> Idle]
  /\ given  = [i \in Ids |-> 0]
  /\ edited = {}

-----------------------------------------------------------------------------
(* The table.                                                              *)

Stored(i) == row[i].status \in {"live", "deleted"}

\* The CHECK constraints.
ChecksHold(a, u) == 0 <= u /\ u <= a

\* A bug: nothing holds the row between the read and the write.
NeverLocked(i) == FALSE

\* FOR UPDATE holds a row to the end of its transaction.
Locked(i) == \E h \in Hands : hand[h].pc = "locked" /\ hand[h].id = i

\* An id is a fresh UUID.
FreshId(i) == row[i].status = "absent" /\ \A h \in Hands : hand[h].id # i

\* A bug: the decorator is not installed.
AdmitsAny(i, k, s) == TRUE

\* Does the unique index admit row i with key k in status s?  It waits for an
\* insert that is not committed.
Admits(i, k, s) ==
  s \in Unique =>
    /\ \A j \in Ids \ {i} : ~(row[j].status \in Unique /\ row[j].key = k)
    /\ "live" \in Unique =>
         \A h \in Hands : ~(hand[h].pc = "minted" /\ hand[h].id # i /\ hand[h].key = k)

Add(S, n) == row' = [i \in Ids |-> IF i \in S THEN [row[i] EXCEPT !.used = @ + n] ELSE row[i]]

-----------------------------------------------------------------------------
(* Approve and cancel.                                                     *)

OfKey(k) == {i \in Ids : Stored(i) /\ row[i].key = k}

\* A bug: the draw is gated on the days left before it.
DrawnOverdrawing(a) == {i \in OfKey(KeyOf[a]) : row[i].used < row[i].allocated}

\* The WHEREs of draw and restore, live rows and rows in the trash alike.
Drawn(a)    == {i \in OfKey(KeyOf[a]) : row[i].used + Amount[a] <= row[i].allocated}
Restored(a) == {i \in OfKey(KeyOf[a]) : row[i].used >= Amount[a]}

Approve(a) ==
  /\ ask[a] = "pending"
  /\ Drawn(a) # {} /\ \A i \in Drawn(a) : ~Locked(i)
  /\ Add(Drawn(a), Amount[a])
  /\ ask' = [ask EXCEPT ![a] = "approved"]
  /\ UNCHANGED <<hand, given, edited>>

\* A bug: a cancel of any request restores.
CancelAnything(a) ==
  /\ Restored(a) # {} /\ \A i \in Restored(a) : ~Locked(i)
  /\ Add(Restored(a), 0 - Amount[a])
  /\ ask' = [ask EXCEPT ![a] = "cancelled"]
  /\ UNCHANGED <<hand, given, edited>>

Cancel(a) ==
  /\ ask[a] = "approved"
  /\ Restored(a) # {} /\ \A i \in Restored(a) : ~Locked(i)
  /\ Add(Restored(a), 0 - Amount[a])
  /\ ask' = [ask EXCEPT ![a] = "cancelled"]
  /\ UNCHANGED <<hand, given, edited>>

-----------------------------------------------------------------------------
(* adjust_balance: find the live row and lock it, or mint it at zero; then  *)
(* check and write.                                                        *)

AdjustFind(h, i, d) ==
  /\ hand[h].pc = "idle"
  /\ row[i].status = "live" /\ ~Locked(i)
  /\ hand' = [hand EXCEPT ![h] = [pc |-> "locked", id |-> i, key |-> row[i].key,
                                  allocated |-> row[i].allocated, delta |-> d]]
  /\ UNCHANGED <<row, ask, given, edited>>

AdjustMint(h, i, k, d) ==
  /\ hand[h].pc = "idle"
  /\ ~\E j \in OfKey(k) : row[j].status = "live"
  /\ FreshId(i) /\ Admits(i, k, "live")
  /\ hand' = [hand EXCEPT ![h] = [pc |-> "minted", id |-> i, key |-> k,
                                  allocated |-> 0, delta |-> d]]
  /\ UNCHANGED <<row, ask, given, edited>>

\* The allocation the call is about to write, and the used days it reads again.
Target(h) == hand[h].allocated + hand[h].delta
Held(h)   == IF hand[h].pc = "minted" THEN 0 ELSE row[hand[h].id].used

AdjustGate(h) == 0 <= Target(h) /\ Held(h) <= Target(h) /\ Target(h) <= MaxAllocated

AdjustCommit(h) ==
  LET i == hand[h].id
  IN /\ hand[h].pc # "idle"
     /\ AdjustGate(h)
     /\ row' = [row EXCEPT ![i] = [status |-> "live", key |-> hand[h].key,
                                   allocated |-> Target(h), used |-> Held(h)]]
     /\ given' = [given EXCEPT ![i] = @ + hand[h].delta]
     /\ hand' = [hand EXCEPT ![h] = Idle]
     /\ UNCHANGED <<ask, edited>>

\* Refused, failed or dropped: the transaction rolls back.
AdjustRollback(h) ==
  /\ hand[h].pc # "idle"
  /\ hand' = [hand EXCEPT ![h] = Idle]
  /\ UNCHANGED <<row, ask, given, edited>>

-----------------------------------------------------------------------------
\* apply_grant, by id: the walk may have claimed i before it was deleted.
Accrue(i) ==
  /\ Stored(i) /\ ~Locked(i)
  /\ row[i].allocated < MaxAllocated
  /\ row' = [row EXCEPT ![i].allocated = @ + 1]
  /\ given' = [given EXCEPT ![i] = @ + 1]
  /\ UNCHANGED <<ask, hand, edited>>

-----------------------------------------------------------------------------
(* The generic surface.  A bulk create is several creates, an upsert is a   *)
(* create or a PUT.                                                        *)

\* What a POST or a PUT carries: what some client read earlier, or anything else.
Bodies == [key : Keys, allocated : Amounts \cup {-1}, used : Amounts \cup {-1}]

\* What a PATCH may name.
Fields == {"key", "allocated", "used"}

Created(b) == [status |-> "live", key |-> b.key, allocated |-> b.allocated, used |-> b.used]

\* A PUT replaces every field and leaves the metadata alone.
Replaced(r, b) == [r EXCEPT !.key = b.key, !.allocated = b.allocated, !.used = b.used]

\* A PATCH replaces the fields it names.
Patched(r, fields, b) ==
  Replaced(r, [f \in Fields |-> IF f \in fields THEN b[f] ELSE r[f]])

\* The row rules: required fields, and no negative amount.
RowRules(r) == r.key \in Keys /\ r.allocated >= 0 /\ r.used >= 0

Store(i, r) ==
  /\ Generic /\ ~Locked(i)
  /\ RowRules(r) /\ ChecksHold(r.allocated, r.used)
  /\ Admits(i, r.key, r.status)
  /\ row' = [row EXCEPT ![i] = r]
  /\ given' = [given EXCEPT ![i] = r.allocated]
  /\ UNCHANGED <<ask, hand>>

GenericCreate(i, b) ==
  /\ FreshId(i)
  /\ Store(i, Created(b))
  /\ UNCHANGED edited

\* The entity is read, edited and saved whole; the save of a copy that has become
\* stale is a PUT of what was read.
GenericSave(i, r) ==
  /\ row[i].status = "live"
  /\ Store(i, r)
  /\ edited' = edited \cup {row[i].key, r.key}

GenericPut(i, b)           == GenericSave(i, Replaced(row[i], b))
GenericPatch(i, fields, b) == GenericSave(i, Patched(row[i], fields, b))

\* A statement that stamps the metadata of the rows of S, or removes them.
Restamp(S, s) ==
  /\ Generic /\ \A i \in S : ~Locked(i)
  /\ row' = [i \in Ids |-> IF i \in S THEN [row[i] EXCEPT !.status = s] ELSE row[i]]
  /\ UNCHANGED <<ask, hand, given>>

GenericDelete(i) ==
  /\ row[i].status = "live"
  /\ Restamp({i}, "deleted")
  /\ UNCHANGED edited

GenericRestore(i) ==
  /\ row[i].status = "deleted"
  /\ Admits(i, row[i].key, "live")
  /\ Restamp({i}, "live")
  /\ UNCHANGED edited

Trash == {i \in Ids : row[i].status = "deleted"}

\* Permanent deletion of one row of the trash, or of all of it.
GenericPurge(S) ==
  /\ S # {} /\ S \subseteq Trash
  /\ Restamp(S, "purged")
  /\ edited' = edited \cup {row[i].key : i \in S}

GenericNext ==
  \/ \E i \in Ids, b \in Bodies : GenericCreate(i, b)
  \/ \E i \in Ids, b \in Bodies : GenericPut(i, b)
  \/ \E i \in Ids, b \in Bodies, fields \in SUBSET Fields : GenericPatch(i, fields, b)
  \/ \E i \in Ids : GenericDelete(i)
  \/ \E i \in Ids : GenericRestore(i)
  \/ \E i \in Ids : GenericPurge({i})
  \/ GenericPurge(Trash)

-----------------------------------------------------------------------------
AdjustEnds(h) == AdjustCommit(h) \/ AdjustRollback(h)

RowsNext ==
  \/ \E a \in Asks : Approve(a)
  \/ \E a \in Asks : Cancel(a)
  \/ \E h \in Hands, i \in Ids, d \in Deltas : AdjustFind(h, i, d)
  \/ \E h \in Hands, i \in Ids, k \in Keys, d \in Deltas : AdjustMint(h, i, k, d)
  \/ \E h \in Hands : AdjustCommit(h)
  \/ \E h \in Hands : AdjustRollback(h)
  \/ \E i \in Ids : Accrue(i)
  \/ GenericNext

-----------------------------------------------------------------------------
(* Properties.                                                             *)

RowsTypeOK ==
  /\ row \in [Ids -> Balances]
  /\ ask \in [Asks -> {"pending", "approved", "cancelled"}]
  /\ hand \in [Hands -> [pc : {"idle", "locked", "minted"}, id : Ids \cup {None},
                         key : Keys \cup {None}, allocated : Amounts, delta : Deltas \cup {0}]]
  /\ \A h \in Hands : hand[h].pc # "idle" => hand[h].id \in Ids /\ hand[h].key \in Keys
  /\ given \in [Ids -> Int]
  /\ edited \subseteq Keys

\* No row is overdrawn, whoever writes it and in whatever status it is: what is
\* drawn from a row in the trash is still bounded by its allocation.
RowsNeverOverdrawn == \A i \in Ids : 0 <= row[i].used /\ row[i].used <= row[i].allocated

\* adjust_balance writes an absolute allocation that it computed from an
\* earlier read: no adjustment, grant or generic write between the two is lost.
NoAdjustmentIsLost == \A i \in Ids : row[i].allocated = given[i]

\* "The uniqueness the draw/restore UPDATEs rely on": with the decorator's
\* index, an approval or a cancel moves one live balance at most, although two
\* first adjustments may mint at the same time and a row may come back from the
\* trash.
OneLiveRowMoves ==
  [][\A a \in Asks :
       ask'[a] # ask[a] =>
         Cardinality({i \in Ids : row[i].status = "live" /\ row'[i].used # row[i].used}) <= 1]_rowVars

\* The rows that ever had key k.
RowsOf(k) == {i \in Ids : row[i].key = k}

\* A key that always had one row, which no generic update or purge touched,
\* still holds every day its approved requests drew, whatever adjustments,
\* grants, deletions and restores happened: any of them can be cancelled.
DrawnDaysAreHeld ==
  \A i \in Ids :
    LET k == row[i].key
    IN Stored(i) /\ RowsOf(k) = {i} /\ k \notin edited =>
         MapThenSumSet(LAMBDA a : Amount[a],
           {a \in Asks : ask[a] = "approved" /\ KeyOf[a] = k}) <= row[i].used
=============================================================================
