---------------------- MODULE OffboardingEncashProofs ----------------------
(***************************************************************************)
(* Proofs about BalanceRows beside OffboardingEncash, for any rows, keys,  *)
(* requests, adjustments and events: no row is overdrawn, no adjustment is *)
(* lost, no event encashes twice, and the row of a key holds what its      *)
(* approvals drew; with the unique index on live rows, an approval or a    *)
(* cancel moves one live row at most.                                      *)
(***************************************************************************)
EXTENDS OffboardingEncash, FiniteSums, FiniteSetTheorems, TLAPS

HandSet == [pc : {"idle", "locked", "minted"}, id : Ids \cup {None},
            key : Keys \cup {None}, allocated : Amounts, delta : Deltas \cup {0}]

\* An open adjustment holds its row: what it read of it is still there, and a
\* row it minted is still nobody else's.
HandHolds(h) ==
  /\ hand[h].pc = "locked" =>
       row[hand[h].id].status = "live" /\ row[hand[h].id].allocated = hand[h].allocated
  /\ hand[h].pc = "minted" => row[hand[h].id].status = "absent" /\ hand[h].allocated = 0

HandsHold == \A h \in Hands : HandHolds(h)

HandsApart ==
  \A g, h \in Hands :
    g # h /\ hand[g].pc # "idle" /\ hand[h].pc # "idle" => hand[g].id # hand[h].id

AbsentRows ==
  \A i \in Ids : IF row[i].status = "absent" THEN row[i].allocated = 0 ELSE row[i].key \in Keys

RowsInv ==
  /\ RowsTypeOK /\ RowsNeverOverdrawn /\ NoAdjustmentIsLost
  /\ HandsHold /\ HandsApart /\ AbsentRows

\* The numbers that RowsInv types.
LEMMA Typed ==
  ASSUME RowsInv
  PROVE  /\ \A i \in Ids : /\ row[i].used \in Nat /\ row[i].allocated \in Nat
                          /\ row[i].allocated <= MaxAllocated /\ row[i].used <= row[i].allocated
                          /\ given[i] \in Int /\ row[i].allocated = given[i]
         /\ \A a \in Asks : Amount[a] \in Nat
         /\ \A h \in Hands : hand[h].allocated \in Nat /\ hand[h].delta \in Int
<1>1. /\ row \in [Ids -> Balances] /\ given \in [Ids -> Int] /\ hand \in [Hands -> HandSet]
      /\ RowsNeverOverdrawn /\ NoAdjustmentIsLost
  BY DEF RowsInv, RowsTypeOK, Balances, HandSet
<1>2. \A i \in Ids : row[i].used \in Amounts /\ row[i].allocated \in Amounts
  BY <1>1 DEF Balances
<1>3. \A h \in Hands : hand[h].allocated \in Amounts /\ hand[h].delta \in Deltas \cup {0}
  BY <1>1 DEF HandSet
<1>4. \A i \in Ids : given[i] \in Int /\ row[i].used <= row[i].allocated /\ row[i].allocated = given[i]
  BY <1>1 DEF RowsNeverOverdrawn, NoAdjustmentIsLost
<1>5. MaxAllocated \in Nat /\ \A a \in Asks : Amount[a] \in Nat
  BY RowsAssumption
<1>6. \A h \in Hands : hand[h].allocated \in Nat /\ hand[h].delta \in Int
  <2>1. Amounts \subseteq Nat /\ Deltas \cup {0} \subseteq Int
    BY RowsAssumption DEF Amounts
  <2> QED BY <1>3, <2>1
<1>7. \A i \in Ids : row[i].used \in Nat /\ row[i].allocated \in Nat /\ row[i].allocated <= MaxAllocated
  BY <1>2, <1>5 DEF Amounts
<1> QED BY <1>4, <1>5, <1>6, <1>7

\* What a row may become, `given` with it.
RowFits(r, g) ==
  /\ r \in Balances /\ r.used <= r.allocated /\ r.allocated = g
  /\ IF r.status = "absent" THEN r.allocated = 0 ELSE r.key \in Keys

\* A step that leaves the hands alone, and whose every row fits and is kept
\* where an adjustment holds it.
LEMMA RowStep ==
  ASSUME RowsInv,
         row' = [i \in Ids |-> row'[i]], given' = [i \in Ids |-> given'[i]],
         \A i \in Ids : RowFits(row'[i], given'[i]) /\ given'[i] \in Int,
         \A h \in Hands : hand[h].pc = "locked" =>
           row'[hand[h].id].status = "live"
             /\ row'[hand[h].id].allocated = row[hand[h].id].allocated,
         \A h \in Hands : hand[h].pc = "minted" => row'[hand[h].id] = row[hand[h].id],
         UNCHANGED hand,
         ask' \in [Asks -> {"pending", "approved", "cancelled"}],
         edited' \subseteq Keys
  PROVE  RowsInv'
<1>1. RowsTypeOK'
  BY DEF RowsInv, RowsTypeOK, RowFits, Balances
<1>2. RowsNeverOverdrawn' /\ NoAdjustmentIsLost'
  BY DEF RowsNeverOverdrawn, NoAdjustmentIsLost, RowFits, Balances, Amounts
<1>3. HandsHold' /\ HandsApart' /\ AbsentRows'
  BY DEF RowsInv, HandsHold, HandHolds, HandsApart, RowFits, AbsentRows
<1> QED BY <1>1, <1>2, <1>3 DEF RowsInv

LEMMA InitRowsInv == Init => RowsInv
BY RowsAssumption
DEF Init, RowsInit, RowsInv, RowsTypeOK, RowsNeverOverdrawn, NoAdjustmentIsLost, HandsHold,
    HandHolds, HandsApart, AbsentRows, Absent, Idle, Balances, Amounts, Statuses

\* Adding to the used days of rows that nobody has locked.
LEMMA AddStep ==
  ASSUME RowsInv, NEW S \in SUBSET Ids, NEW n \in Int, Add(S, n),
         \A i \in S : /\ ~Locked(i) /\ Stored(i)
                      /\ 0 <= row[i].used + n /\ row[i].used + n <= row[i].allocated,
         UNCHANGED <<hand, given, edited>>,
         ask' \in [Asks -> {"pending", "approved", "cancelled"}]
  PROVE  RowsInv'
<1>1. row' = [i \in Ids |-> row'[i]] /\ given' = [i \in Ids |-> given'[i]]
  BY DEF RowsInv, RowsTypeOK, Add
<1>2. ASSUME NEW i \in Ids PROVE RowFits(row'[i], given'[i]) /\ given'[i] \in Int
  <2>1. row[i] \in Balances /\ given[i] \in Int /\ row[i].used <= row[i].allocated
        /\ row[i].allocated = given[i]
        /\ (IF row[i].status = "absent" THEN row[i].allocated = 0 ELSE row[i].key \in Keys)
    BY DEF RowsInv, RowsTypeOK, Balances, RowsNeverOverdrawn, NoAdjustmentIsLost, AbsentRows
  <2>2. CASE i \in S
    <3>1. row'[i] = [row[i] EXCEPT !.used = row[i].used + n]
      BY <2>2 DEF Add
    <3>2. row[i].used + n \in Amounts
      BY <2>1, <2>2, RowsAssumption DEF Amounts, Balances
    <3> QED BY <2>1, <2>2, <3>1, <3>2 DEF RowFits, Balances
  <2>3. CASE i \notin S
    BY <2>1, <2>3 DEF Add, RowFits
  <2> QED BY <2>2, <2>3
<1>3. ASSUME NEW h \in Hands, hand[h].pc # "idle"
      PROVE  row'[hand[h].id] = row[hand[h].id]
  <2>1. hand[h].id \in Ids /\ hand[h].pc \in {"locked", "minted"}
    BY <1>3 DEF RowsInv, RowsTypeOK
  <2>2. hand[h].id \notin S
    BY <2>1 DEF Locked, Stored, RowsInv, HandsHold, HandHolds, Absent
  <2> QED BY <2>1, <2>2 DEF Add
<1> QED BY <1>1, <1>2, <1>3, RowStep DEF RowsInv, RowsTypeOK, HandsHold, HandHolds

LEMMA ApproveRowsInv == ASSUME RowsInv, NEW a \in Asks, Approve(a) PROVE RowsInv'
<1>1. Drawn(a) \in SUBSET Ids /\ Amount[a] \in Int
  BY RowsAssumption DEF Drawn, OfKey
<1>2. \A i \in Drawn(a) : /\ ~Locked(i) /\ Stored(i)
                          /\ 0 <= row[i].used + Amount[a]
                          /\ row[i].used + Amount[a] <= row[i].allocated
  BY Typed DEF Approve, Drawn, OfKey
<1>3. ask' \in [Asks -> {"pending", "approved", "cancelled"}]
  BY DEF Approve, RowsInv, RowsTypeOK
<1> QED BY <1>1, <1>2, <1>3, AddStep DEF Approve

LEMMA CancelRowsInv == ASSUME RowsInv, NEW a \in Asks, Cancel(a) PROVE RowsInv'
<1>1. Restored(a) \in SUBSET Ids /\ 0 - Amount[a] \in Int
  BY RowsAssumption DEF Restored, OfKey
<1>2. \A i \in Restored(a) : /\ ~Locked(i) /\ Stored(i)
                             /\ 0 <= row[i].used + (0 - Amount[a])
                             /\ row[i].used + (0 - Amount[a]) <= row[i].allocated
  BY Typed DEF Cancel, Restored, OfKey
<1>3. ask' \in [Asks -> {"pending", "approved", "cancelled"}]
  BY DEF Cancel, RowsInv, RowsTypeOK
<1> QED BY <1>1, <1>2, <1>3, AddStep DEF Cancel

LEMMA AdjustFindRowsInv ==
  ASSUME RowsInv, NEW h \in Hands, NEW i \in Ids, NEW d \in Deltas, AdjustFind(h, i, d)
  PROVE  RowsInv'
<1>1. hand' = [hand EXCEPT ![h] = [pc |-> "locked", id |-> i, key |-> row[i].key,
                                   allocated |-> row[i].allocated, delta |-> d]]
      /\ UNCHANGED <<row, ask, given, edited>>
  BY DEF AdjustFind
<1>2. RowsTypeOK'
  <2>1. row[i].key \in Keys /\ row[i].allocated \in Amounts
    BY DEF AdjustFind, RowsInv, RowsTypeOK, AbsentRows, Balances
  <2>2. [pc |-> "locked", id |-> i, key |-> row[i].key, allocated |-> row[i].allocated, delta |-> d]
          \in HandSet
    BY <2>1 DEF HandSet
  <2>3. hand' \in [Hands -> HandSet]
    BY <1>1, <2>2 DEF RowsInv, RowsTypeOK, HandSet
  <2>4. \A g \in Hands : hand'[g].pc # "idle" => hand'[g].id \in Ids /\ hand'[g].key \in Keys
    BY <1>1, <2>1 DEF RowsInv, RowsTypeOK
  <2> QED BY <1>1, <2>3, <2>4 DEF RowsInv, RowsTypeOK, HandSet
<1>3. HandsHold'
  BY <1>1 DEF AdjustFind, RowsInv, RowsTypeOK, HandsHold, HandHolds
<1>4. HandsApart'
  <2>1. \A g \in Hands : hand[g].pc # "idle" => hand[g].id # i
    BY DEF AdjustFind, Locked, RowsInv, RowsTypeOK, HandsHold, HandHolds, Absent
  <2> QED BY <1>1, <2>1 DEF RowsInv, RowsTypeOK, HandsApart
<1> QED BY <1>1, <1>2, <1>3, <1>4
    DEF RowsInv, RowsNeverOverdrawn, NoAdjustmentIsLost, AbsentRows

LEMMA AdjustMintRowsInv ==
  ASSUME RowsInv, NEW h \in Hands, NEW i \in Ids, NEW k \in Keys, NEW d \in Deltas,
         AdjustMint(h, i, k, d)
  PROVE  RowsInv'
<1>1. /\ hand' = [hand EXCEPT ![h] = [pc |-> "minted", id |-> i, key |-> k,
                                      allocated |-> 0, delta |-> d]]
      /\ UNCHANGED <<row, ask, given, edited>>
      /\ row[i].status = "absent"
      /\ \A g \in Hands : hand[g].id # i
  BY DEF AdjustMint, FreshId
<1>2. RowsTypeOK'
  <2>1. [pc |-> "minted", id |-> i, key |-> k, allocated |-> 0, delta |-> d] \in HandSet
    BY RowsAssumption DEF HandSet, Amounts
  <2>2. hand' \in [Hands -> HandSet]
    BY <1>1, <2>1 DEF RowsInv, RowsTypeOK, HandSet
  <2>3. \A g \in Hands : hand'[g].pc # "idle" => hand'[g].id \in Ids /\ hand'[g].key \in Keys
    BY <1>1 DEF RowsInv, RowsTypeOK
  <2> QED BY <1>1, <2>2, <2>3 DEF RowsInv, RowsTypeOK, HandSet
<1>3. HandsHold'
  BY <1>1 DEF RowsInv, RowsTypeOK, HandsHold, HandHolds
<1>4. HandsApart'
  BY <1>1 DEF RowsInv, RowsTypeOK, HandsApart
<1> QED BY <1>1, <1>2, <1>3, <1>4
    DEF RowsInv, RowsNeverOverdrawn, NoAdjustmentIsLost, AbsentRows

LEMMA AdjustCommitRowsInv ==
  ASSUME RowsInv, NEW h \in Hands, AdjustCommit(h) PROVE RowsInv'
<1> DEFINE i == hand[h].id
<1>1. /\ hand[h].pc \in {"locked", "minted"} /\ i \in Ids /\ hand[h].key \in Keys
      /\ row' = [row EXCEPT ![i] = [status |-> "live", key |-> hand[h].key,
                                    allocated |-> Target(h), used |-> Held(h)]]
      /\ given' = [given EXCEPT ![i] = @ + hand[h].delta]
      /\ hand' = [hand EXCEPT ![h] = Idle]
      /\ UNCHANGED <<ask, edited>>
  BY DEF AdjustCommit, RowsInv, RowsTypeOK
<1>2. Target(h) \in Amounts /\ Held(h) \in Amounts /\ Held(h) <= Target(h)
  <2>1. 0 <= Target(h) /\ Held(h) <= Target(h) /\ Target(h) <= MaxAllocated
    BY DEF AdjustCommit, AdjustGate
  <2>2. Target(h) \in Int
    BY Typed DEF Target
  <2>3. Held(h) \in Nat
    BY <1>1, Typed DEF Held
  <2> QED BY <2>1, <2>2, <2>3, RowsAssumption DEF Amounts
<1>3. given[i] = hand[h].allocated /\ Target(h) = given[i] + hand[h].delta
  <2>1. hand[h].allocated = row[i].allocated
    BY <1>1 DEF RowsInv, HandsHold, HandHolds, AbsentRows
  <2> QED BY <1>1, <2>1, Typed DEF Target
<1>4. hand[h].delta \in Int /\ given \in [Ids -> Int]
  BY Typed DEF RowsInv, RowsTypeOK
<1>5. RowsTypeOK'
  <2>1. row' \in [Ids -> Balances]
    BY <1>1, <1>2 DEF RowsInv, RowsTypeOK, Balances, Statuses
  <2>2. given' \in [Ids -> Int]
    BY <1>1, <1>4
  <2>3. \A g \in Hands : /\ hand'[g] \in HandSet
                         /\ hand'[g].pc # "idle" => hand'[g].id \in Ids /\ hand'[g].key \in Keys
    BY <1>1, RowsAssumption DEF RowsInv, RowsTypeOK, HandSet, Idle, Amounts
  <2> QED BY <1>1, <2>1, <2>2, <2>3 DEF RowsInv, RowsTypeOK, Balances, HandSet
<1>6. RowsNeverOverdrawn'
  BY <1>1, <1>2 DEF RowsInv, RowsTypeOK, RowsNeverOverdrawn, Amounts
<1>7. NoAdjustmentIsLost'
  BY <1>1, <1>3, <1>4 DEF RowsInv, RowsTypeOK, NoAdjustmentIsLost
<1>8. HandsHold' /\ HandsApart'
  BY <1>1 DEF RowsInv, RowsTypeOK, HandsHold, HandHolds, HandsApart, Idle
<1>9. AbsentRows'
  BY <1>1 DEF RowsInv, RowsTypeOK, AbsentRows
<1> QED BY <1>1, <1>5, <1>6, <1>7, <1>8, <1>9 DEF RowsInv

LEMMA AdjustRollbackRowsInv ==
  ASSUME RowsInv, NEW h \in Hands, AdjustRollback(h) PROVE RowsInv'
<1>1. hand' = [hand EXCEPT ![h] = Idle] /\ UNCHANGED <<row, ask, given, edited>>
  BY DEF AdjustRollback
<1>2. RowsTypeOK'
  BY <1>1, RowsAssumption DEF RowsInv, RowsTypeOK, Idle, Amounts
<1>3. HandsHold' /\ HandsApart'
  BY <1>1 DEF RowsInv, RowsTypeOK, HandsHold, HandHolds, HandsApart, Idle
<1> QED BY <1>1, <1>2, <1>3 DEF RowsInv, RowsNeverOverdrawn, NoAdjustmentIsLost, AbsentRows

LEMMA AccrueRowsInv == ASSUME RowsInv, NEW i \in Ids, Accrue(i) PROVE RowsInv'
<1>1. /\ row' = [row EXCEPT ![i].allocated = @ + 1]
      /\ given' = [given EXCEPT ![i] = @ + 1]
      /\ Stored(i) /\ ~Locked(i) /\ row[i].allocated < MaxAllocated
      /\ UNCHANGED <<ask, hand, edited>>
  BY DEF Accrue
<1>2. row' = [j \in Ids |-> row'[j]] /\ given' = [j \in Ids |-> given'[j]]
  BY <1>1 DEF RowsInv, RowsTypeOK
<1>3. ASSUME NEW j \in Ids PROVE RowFits(row'[j], given'[j]) /\ given'[j] \in Int
  <2>1. row[j] \in Balances /\ RowFits(row[j], given[j]) /\ given[j] \in Int
    BY Typed DEF RowsInv, RowsTypeOK, Balances, AbsentRows, RowFits
  <2>2. CASE j = i
    <3>1. row'[i] = [row[i] EXCEPT !.allocated = row[i].allocated + 1] /\ given'[i] = given[i] + 1
      BY <1>1 DEF RowsInv, RowsTypeOK
    <3>2. row[i].allocated + 1 \in Amounts
      BY <1>1, Typed, RowsAssumption DEF Amounts
    <3> QED BY <1>1, <2>1, <2>2, <3>1, <3>2, Typed DEF RowFits, Balances, Stored
  <2>3. CASE j # i
    BY <1>1, <2>1, <2>3 DEF RowsInv, RowsTypeOK
  <2> QED BY <2>2, <2>3
<1>4. ASSUME NEW h \in Hands, hand[h].pc # "idle"
      PROVE  row'[hand[h].id] = row[hand[h].id]
  BY <1>1, <1>4 DEF Stored, Locked, RowsInv, RowsTypeOK, HandsHold, HandHolds
<1> QED BY <1>1, <1>2, <1>3, <1>4, RowStep DEF RowsInv, RowsTypeOK, HandsHold, HandHolds

\* A row that is written as the generic surface writes it.
LEMMA StoreRowsInv ==
  ASSUME RowsInv, NEW i \in Ids, NEW r \in Balances, r.status = "live",
         Store(i, r), \A h \in Hands : hand[h].pc # "idle" => hand[h].id # i,
         edited' \subseteq Keys
  PROVE  RowsInv'
<1>1. /\ row' = [row EXCEPT ![i] = r]
      /\ given' = [given EXCEPT ![i] = r.allocated]
      /\ r.key \in Keys /\ 0 <= r.used /\ r.used <= r.allocated
      /\ UNCHANGED <<ask, hand>>
  BY DEF Store, RowRules, ChecksHold
<1>2. row' = [j \in Ids |-> row'[j]] /\ given' = [j \in Ids |-> given'[j]]
  BY <1>1 DEF RowsInv, RowsTypeOK
<1>3. ASSUME NEW j \in Ids PROVE RowFits(row'[j], given'[j]) /\ given'[j] \in Int
  BY <1>1, RowsAssumption
  DEF RowsInv, RowsTypeOK, RowsNeverOverdrawn, NoAdjustmentIsLost, AbsentRows, RowFits, Balances,
      Amounts, Statuses
<1>4. ASSUME NEW h \in Hands, hand[h].pc # "idle"
      PROVE  row'[hand[h].id] = row[hand[h].id]
  BY <1>1, <1>4 DEF RowsInv, RowsTypeOK
<1> QED BY <1>1, <1>2, <1>3, <1>4, RowStep DEF RowsInv, RowsTypeOK, HandsHold, HandHolds

\* What a PUT or a PATCH makes of a row is a row again, when no amount is negative.
LEMMA ReplacedIsARow ==
  ASSUME NEW r \in Balances, NEW c, c.key \in Keys,
         c.allocated \in Amounts \cup {-1}, c.used \in Amounts \cup {-1},
         c.allocated >= 0, c.used >= 0
  PROVE  Replaced(r, c) \in Balances /\ Replaced(r, c).status = r.status
<1>1. c.allocated \in Amounts /\ c.used \in Amounts
  OBVIOUS
<1>2. [r EXCEPT !.key = c.key] \in Balances
  BY DEF Balances
<1> QED BY <1>1, <1>2 DEF Replaced, Balances

LEMMA SaveIsARow ==
  ASSUME NEW r \in Balances, NEW c, c.key \in Keys \cup {None},
         c.allocated \in Amounts \cup {-1}, c.used \in Amounts \cup {-1},
         RowRules(Replaced(r, c))
  PROVE  Replaced(r, c) \in Balances /\ Replaced(r, c).status = r.status
<1>1. Replaced(r, c).key = c.key /\ Replaced(r, c).allocated = c.allocated
      /\ Replaced(r, c).used = c.used
  BY DEF Replaced, Balances
<1> QED BY <1>1, ReplacedIsARow DEF RowRules

\* Rows that are deleted, restored or purged keep their amounts.
LEMMA RestampRowsInv ==
  ASSUME RowsInv, NEW S \in SUBSET Ids, NEW s \in {"live", "deleted", "purged"}, Restamp(S, s),
         \A i \in S : row[i].status # "absent", edited' \subseteq Keys
  PROVE  RowsInv'
<1>1. /\ row' = [i \in Ids |-> IF i \in S THEN [row[i] EXCEPT !.status = s] ELSE row[i]]
      /\ UNCHANGED <<ask, hand, given>>
      /\ \A i \in S : ~Locked(i)
  BY DEF Restamp
<1>2. row' = [j \in Ids |-> row'[j]] /\ given' = [j \in Ids |-> given'[j]]
  BY <1>1 DEF RowsInv, RowsTypeOK
<1>3. ASSUME NEW j \in Ids PROVE RowFits(row'[j], given'[j]) /\ given'[j] \in Int
  BY <1>1, RowsAssumption
  DEF RowsInv, RowsTypeOK, RowsNeverOverdrawn, NoAdjustmentIsLost, AbsentRows, RowFits, Balances,
      Amounts, Statuses
<1>4. ASSUME NEW h \in Hands, hand[h].pc # "idle"
      PROVE  row'[hand[h].id] = row[hand[h].id]
  BY <1>1, <1>4 DEF Locked, RowsInv, RowsTypeOK, HandsHold, HandHolds
<1>5. ask' \in [Asks -> {"pending", "approved", "cancelled"}] /\ UNCHANGED hand
  BY <1>1 DEF RowsInv, RowsTypeOK
<1>6. \A h \in Hands : hand[h].pc = "locked" => row[hand[h].id].status = "live"
  BY DEF RowsInv, HandsHold, HandHolds
<1>7. /\ \A h \in Hands : hand[h].pc = "locked" =>
           row'[hand[h].id].status = "live"
             /\ row'[hand[h].id].allocated = row[hand[h].id].allocated
      /\ \A h \in Hands : hand[h].pc = "minted" => row'[hand[h].id] = row[hand[h].id]
  BY <1>4, <1>6
<1> QED BY <1>2, <1>3, <1>5, <1>7, RowStep

-----------------------------------------------------------------------------
(* The handler, and the step of the whole.                                 *)

LEMMA HandleRowsInv == ASSUME RowsInv, NEW e \in Events, Handle(e) PROVE RowsInv'
<1>1. /\ row' = [i \in Ids |-> IF i \in Remaining(e)
                               THEN [row[i] EXCEPT !.used = row[i].allocated] ELSE row[i]]
      /\ UNCHANGED <<ask, hand, given, edited>>
      /\ \A i \in Remaining(e) : ~Locked(i) /\ Stored(i)
  BY DEF Handle, Remaining
<1>2. row' = [i \in Ids |-> row'[i]] /\ given' = [i \in Ids |-> given'[i]]
  BY <1>1 DEF RowsInv, RowsTypeOK
<1>3. ASSUME NEW i \in Ids PROVE RowFits(row'[i], given'[i]) /\ given'[i] \in Int
  <2>1. row[i] \in Balances /\ RowFits(row[i], given[i]) /\ given[i] \in Int
    BY Typed DEF RowsInv, RowsTypeOK, Balances, AbsentRows, RowFits
  <2>2. CASE i \in Remaining(e)
    <3>1. row'[i] = [row[i] EXCEPT !.used = row[i].allocated] /\ given'[i] = given[i]
      BY <1>1, <2>2
    <3> QED BY <2>1, <3>1, Typed DEF RowFits, Balances
  <2>3. CASE i \notin Remaining(e)
    BY <1>1, <2>1, <2>3
  <2> QED BY <2>2, <2>3
<1>4. ASSUME NEW h \in Hands, hand[h].pc # "idle"
      PROVE  row'[hand[h].id] = row[hand[h].id]
  <2>1. hand[h].id \in Ids /\ hand[h].pc \in {"locked", "minted"}
    BY <1>4 DEF RowsInv, RowsTypeOK
  <2>2. hand[h].id \notin Remaining(e)
    BY <1>1, <2>1 DEF Locked, Stored, RowsInv, HandsHold, HandHolds
  <2> QED BY <1>1, <2>1, <2>2
<1> QED BY <1>1, <1>2, <1>3, <1>4, RowStep DEF RowsInv, RowsTypeOK, HandsHold, HandHolds

LEMMA GenericSaveRowsInv ==
  ASSUME RowsInv, NEW i \in Ids, NEW b \in Bodies, NEW fields \in SUBSET Fields,
         GenericPut(i, b) \/ GenericPatch(i, fields, b)
  PROVE  RowsInv'
<1>1. row[i] \in Balances /\ row[i].status = "live" /\ row[i].key \in Keys /\ edited \subseteq Keys
  BY DEF RowsInv, RowsTypeOK, AbsentRows, GenericPut, GenericPatch, GenericSave
<1>2. \A h \in Hands : hand[h].pc # "idle" => hand[h].id # i
  BY DEF GenericPut, GenericPatch, GenericSave, Store, Locked, RowsInv, RowsTypeOK, HandsHold,
         HandHolds
<1>3. PICK c : /\ c.key \in Keys \cup {None}
               /\ c.allocated \in Amounts \cup {-1} /\ c.used \in Amounts \cup {-1}
               /\ GenericSave(i, Replaced(row[i], c))
  <2>1. CASE GenericPut(i, b)
    BY <2>1 DEF GenericPut, Bodies
  <2>2. CASE GenericPatch(i, fields, b)
    <3> DEFINE c == [f \in Fields |-> IF f \in fields THEN b[f] ELSE row[i][f]]
    <3>1. /\ c.key \in Keys \cup {None}
          /\ c.allocated \in Amounts \cup {-1} /\ c.used \in Amounts \cup {-1}
      BY <1>1 DEF Bodies, Fields, Balances
    <3> QED BY <2>2, <3>1 DEF GenericPatch, Patched
  <2> QED BY <2>1, <2>2
<1> DEFINE r == Replaced(row[i], c)
<1>4. Store(i, r) /\ RowRules(r) /\ edited' = edited \cup {row[i].key, r.key}
  BY <1>3 DEF GenericSave, Store
<1>5. r \in Balances /\ r.status = "live"
  BY <1>1, <1>3, <1>4, SaveIsARow
<1>6. edited' \subseteq Keys
  BY <1>1, <1>4 DEF RowRules
<1> HIDE DEF r
<1> QED BY <1>2, <1>4, <1>5, <1>6, StoreRowsInv

LEMMA GenericRowsInv == ASSUME RowsInv, GenericNext PROVE RowsInv'
<1>1. edited \subseteq Keys /\ \A i \in Ids : row[i].status # "absent" => row[i].key \in Keys
  BY DEF RowsInv, RowsTypeOK, AbsentRows
<1>2. ASSUME NEW i \in Ids, NEW b \in Bodies, GenericCreate(i, b) PROVE RowsInv'
  <2>1. Created(b) \in Balances /\ Created(b).status = "live"
    BY <1>2, RowsAssumption
    DEF GenericCreate, Store, RowRules, Created, Bodies, Balances, Statuses, Amounts
  <2>2. \A h \in Hands : hand[h].id # i
    BY <1>2 DEF GenericCreate, FreshId
  <2>3. Store(i, Created(b)) /\ edited' \subseteq Keys
    BY <1>1, <1>2 DEF GenericCreate
  <2> QED BY <2>1, <2>2, <2>3, StoreRowsInv
<1>3. ASSUME NEW i \in Ids, NEW b \in Bodies, NEW fields \in SUBSET Fields,
             GenericPut(i, b) \/ GenericPatch(i, fields, b)
      PROVE  RowsInv'
  BY <1>3, GenericSaveRowsInv
<1>4. ASSUME NEW i \in Ids, GenericDelete(i) PROVE RowsInv'
  BY <1>1, <1>4, RestampRowsInv DEF GenericDelete
<1>5. ASSUME NEW i \in Ids, GenericRestore(i) PROVE RowsInv'
  BY <1>1, <1>5, RestampRowsInv DEF GenericRestore
<1>6. ASSUME NEW S \in SUBSET Ids, GenericPurge(S) PROVE RowsInv'
  <2>1. \A i \in S : row[i].status # "absent"
    BY <1>6 DEF GenericPurge, Trash
  <2>2. Restamp(S, "purged") /\ edited' \subseteq Keys
    BY <1>1, <1>6, <2>1 DEF GenericPurge
  <2> QED BY <2>1, <2>2, RestampRowsInv
<1>7. Trash \in SUBSET Ids
  BY DEF Trash
<1>8. ASSUME NEW i \in Ids, NEW b \in Bodies, GenericPut(i, b) PROVE RowsInv'
  BY <1>3, <1>8 DEF Fields
<1> QED BY <1>2, <1>3, <1>4, <1>5, <1>6, <1>7, <1>8 DEF GenericNext

RelayTypeOK ==
  /\ inbox \subseteq sent /\ sent \subseteq Events /\ zeroed \subseteq Events
  /\ DOMAIN encashed = Events

IInv == RowsInv /\ RelayTypeOK

LEMMA InitIInv == Init => IInv
BY InitRowsInv DEF Init, IInv, RelayTypeOK

LEMMA NextRowsInv == RowsInv /\ [Next]_vars => RowsInv'
<1> SUFFICES ASSUME RowsInv, [Next]_vars PROVE RowsInv'
  OBVIOUS
<1>1. ASSUME RowsNext PROVE RowsInv'
  <2>1. ASSUME NEW a \in Asks, Approve(a) \/ Cancel(a) PROVE RowsInv'
    BY <2>1, ApproveRowsInv, CancelRowsInv
  <2>2. ASSUME NEW h \in Hands, NEW i \in Ids, NEW d \in Deltas, AdjustFind(h, i, d)
        PROVE  RowsInv'
    BY <2>2, AdjustFindRowsInv
  <2>3. ASSUME NEW h \in Hands, NEW i \in Ids, NEW k \in Keys, NEW d \in Deltas,
               AdjustMint(h, i, k, d)
        PROVE  RowsInv'
    BY <2>3, AdjustMintRowsInv
  <2>4. ASSUME NEW h \in Hands, AdjustCommit(h) \/ AdjustRollback(h) PROVE RowsInv'
    BY <2>4, AdjustCommitRowsInv, AdjustRollbackRowsInv
  <2>5. ASSUME NEW i \in Ids, Accrue(i) PROVE RowsInv'
    BY <2>5, AccrueRowsInv
  <2> QED BY <1>1, <2>1, <2>2, <2>3, <2>4, <2>5, GenericRowsInv DEF RowsNext
<1>2. ASSUME NEW e \in Events, Handle(e) PROVE RowsInv'
  BY <1>2, HandleRowsInv
<1>3. ASSUME UNCHANGED rowVars PROVE RowsInv'
  BY <1>3
  DEF rowVars, RowsInv, RowsTypeOK, RowsNeverOverdrawn, NoAdjustmentIsLost, HandsHold, HandHolds,
      HandsApart, AbsentRows
<1> QED BY <1>1, <1>2, <1>3 DEF Next, Close, Redeliver, vars

LEMMA NextRelay == RelayTypeOK /\ [Next]_vars => RelayTypeOK'
BY DEF RelayTypeOK, Next, relay, vars, Close, Handle, Redeliver

LEMMA AlwaysIInv == Spec => []IInv
<1>1. IInv /\ [Next]_vars => IInv'
  BY NextRowsInv, NextRelay DEF IInv
<1> QED BY <1>1, InitIInv, PTL DEF Spec

\* The rows, the open adjustments and the relay keep their types.
THEOREM RowsTypeCorrect == Spec => []TypeOK
<1>1. IInv => TypeOK
  BY DEF IInv, RowsInv, RelayTypeOK, TypeOK
<1> QED BY <1>1, AlwaysIInv, PTL

\* Whoever writes it, with or without the unique index, no row is overdrawn.
THEOREM NoRowIsOverdrawn == Spec => []RowsNeverOverdrawn
<1>1. IInv => RowsNeverOverdrawn
  BY DEF IInv, RowsInv
<1> QED BY <1>1, AlwaysIInv, PTL

\* An adjustment's absolute write loses nothing that was given before it.
THEOREM AdjustmentsAddUp == Spec => []NoAdjustmentIsLost
<1>1. IInv => NoAdjustmentIsLost
  BY DEF IInv, RowsInv
<1> QED BY <1>1, AlwaysIInv, PTL

\* However often and in whatever order events are delivered, one takes its days
\* once.
THEOREM EncashedOnce == Spec => NothingEncashedTwice
<1>1. IInv /\ [Next]_vars => [\A e \in inbox : encashed'[e] = encashed[e]]_vars
  <2> SUFFICES ASSUME RelayTypeOK, [Next]_vars, NEW e \in inbox
               PROVE  encashed'[e] = encashed[e]
    BY DEF IInv
  <2>1. e \in Events
    BY DEF RelayTypeOK
  <2>2. ASSUME NEW f \in Events, Handle(f) PROVE encashed'[e] = encashed[e]
    <3>1. e # f
      BY <2>2 DEF Handle, FirstTime
    <3> QED BY <2>1, <2>2, <3>1 DEF Handle, RelayTypeOK
  <2> QED BY <2>2 DEF Next, relay, vars, Close, Redeliver
<1> QED BY <1>1, AlwaysIInv, PTL DEF Spec, NothingEncashedTwice

-----------------------------------------------------------------------------
(* What the unique index on live rows buys.                                *)

Live(i) == row[i].status = "live"

\* A key has one live row, or one that is being minted, and never both.
OneLive ==
  /\ \A i, j \in Ids : Live(i) /\ Live(j) /\ row[i].key = row[j].key => i = j
  /\ \A h \in Hands, j \in Ids : hand[h].pc = "minted" /\ Live(j) => row[j].key # hand[h].key
  /\ \A g, h \in Hands :
       hand[g].pc = "minted" /\ hand[h].pc = "minted" /\ hand[g].key = hand[h].key => g = h

\* A locked row keeps the key it was found by.
KeysHeld == \A h \in Hands : hand[h].pc = "locked" => row[hand[h].id].key = hand[h].key

UInv == OneLive /\ KeysHeld

\* A step that makes no row live and changes no key.
LEMMA NoneGained ==
  ASSUME UInv, \A h \in Hands : hand[h].pc # "idle" => hand[h].id \in Ids,
         \A i \in Ids : row'[i].key = row[i].key /\ (row'[i].status = "live" => Live(i)),
         \A h \in Hands : hand'[h] = hand[h] \/ hand'[h] = Idle
  PROVE  UInv'
BY DEF UInv, OneLive, KeysHeld, Live, Idle

\* A row that becomes live, or a live row that changes its key, past the index.
LEMMA OneGained ==
  ASSUME "live" \in Unique, RowsInv, UInv, NEW i \in Ids, NEW k \in Keys,
         Admits(i, k, "live"), ~Locked(i), row'[i].status = "live", row'[i].key = k,
         \A j \in Ids \ {i} : row'[j] = row[j],
         \A h \in Hands : hand[h].pc = "minted" => hand[h].id # i,
         UNCHANGED hand
  PROVE  UInv'
<1>1. \A j \in Ids \ {i} : Live(j) => row[j].key # k
  BY DEF Admits, Live
<1>2. \A h \in Hands : hand[h].pc = "minted" => hand[h].key # k
  BY DEF Admits
<1>3. OneLive'
  BY <1>1, <1>2 DEF UInv, OneLive, Live
<1>4. KeysHeld'
  BY DEF UInv, KeysHeld, Locked, RowsInv, RowsTypeOK
<1> QED BY <1>3, <1>4 DEF UInv

\* The rows a draw, a restore, a grant or an encashment moves.
LEMMA MovesKeepIndex ==
  ASSUME RowsInv, UInv, UNCHANGED hand,
         \A i \in Ids : row'[i].key = row[i].key /\ row'[i].status = row[i].status
  PROVE  UInv'
BY NoneGained DEF RowsInv, RowsTypeOK, Live

LEMMA AdjustKeepsIndex ==
  ASSUME "live" \in Unique, RowsInv, UInv, NEW h \in Hands,
         \/ \E i \in Ids, d \in Deltas : AdjustFind(h, i, d)
         \/ \E i \in Ids, k \in Keys, d \in Deltas : AdjustMint(h, i, k, d)
         \/ AdjustCommit(h)
         \/ AdjustRollback(h)
  PROVE  UInv'
<1>1. hand \in [Hands -> HandSet] /\ row \in [Ids -> Balances]
  BY DEF RowsInv, RowsTypeOK, HandSet
<1>2. ASSUME NEW i \in Ids, NEW d \in Deltas, AdjustFind(h, i, d) PROVE UInv'
  BY <1>1, <1>2 DEF AdjustFind, UInv, OneLive, KeysHeld, Live
<1>3. ASSUME NEW i \in Ids, NEW k \in Keys, NEW d \in Deltas, AdjustMint(h, i, k, d) PROVE UInv'
  <2>1. \A j \in Ids : Live(j) => row[j].key # k
    BY <1>3 DEF AdjustMint, OfKey, Stored, Live
  <2>2. \A g \in Hands : hand[g].pc = "minted" => hand[g].key # k
    BY <1>3 DEF AdjustMint, Admits, FreshId
  <2>3. /\ \A g \in Hands \ {h} : hand'[g] = hand[g]
        /\ hand'[h].pc = "minted" /\ hand'[h].key = k
        /\ row' = row
    BY <1>1, <1>3 DEF AdjustMint
  <2> QED BY <2>1, <2>2, <2>3 DEF UInv, OneLive, KeysHeld, Live
<1>4. CASE AdjustCommit(h)
  <2> DEFINE i == hand[h].id
             k == hand[h].key
  <2>1. i \in Ids /\ k \in Keys /\ hand[h].pc \in {"locked", "minted"}
    BY <1>4 DEF AdjustCommit, RowsInv, RowsTypeOK
  <2>2. /\ row'[i].status = "live" /\ row'[i].key = k
        /\ \A j \in Ids \ {i} : row'[j] = row[j]
        /\ hand'[h] = Idle /\ \A g \in Hands \ {h} : hand'[g] = hand[g]
    BY <1>1, <1>4, <2>1 DEF AdjustCommit
  <2>3. CASE hand[h].pc = "locked"
    <3>1. Live(i) /\ row[i].key = k
      BY <2>3 DEF RowsInv, HandsHold, HandHolds, UInv, KeysHeld, Live
    <3>2. \A j \in Ids : row'[j].key = row[j].key /\ (row'[j].status = "live" => Live(j))
      BY <2>2, <3>1 DEF Live
    <3> QED BY <2>2, <3>2, NoneGained DEF RowsInv, RowsTypeOK
  <2>4. CASE hand[h].pc = "minted"
    <3>1. \A j \in Ids : Live(j) => row[j].key # k
      BY <2>4 DEF UInv, OneLive
    <3>2. \A g \in Hands \ {h} :
            /\ hand[g].pc = "minted" => hand[g].key # k
            /\ hand[g].pc # "idle" => hand[g].id # i
      BY <2>4 DEF UInv, OneLive, RowsInv, HandsApart
    <3>3. OneLive'
      BY <2>2, <3>1, <3>2 DEF UInv, OneLive, Live, Idle
    <3>4. KeysHeld'
      BY <2>2, <3>2 DEF UInv, KeysHeld, Idle, RowsInv, RowsTypeOK
    <3> QED BY <3>3, <3>4 DEF UInv
  <2> QED BY <2>1, <2>3, <2>4
<1>5. CASE AdjustRollback(h)
  BY <1>1, <1>5, NoneGained DEF AdjustRollback, Live, RowsInv, RowsTypeOK
<1> QED BY <1>2, <1>3, <1>4, <1>5

\* The generic surface: a write of a live row, past the index.
LEMMA StoreKeepsIndex ==
  ASSUME "live" \in Unique, RowsInv, UInv, NEW i \in Ids, NEW r, Store(i, r),
         r.status = "live", FreshId(i) \/ Live(i)
  PROVE  UInv'
<1>1. r.key \in Keys /\ Admits(i, r.key, "live") /\ ~Locked(i) /\ hand' = hand
  BY DEF Store, RowRules
<1>2. row'[i] = r /\ \A j \in Ids \ {i} : row'[j] = row[j]
  BY DEF Store, RowsInv, RowsTypeOK
<1>3. \A h \in Hands : hand[h].pc = "minted" => hand[h].id # i
  BY DEF FreshId, Live, RowsInv, HandsHold, HandHolds
<1> QED BY <1>1, <1>2, <1>3, OneGained

LEMMA GenericKeepsIndex ==
  ASSUME "live" \in Unique, RowsInv, UInv, GenericNext
  PROVE  UInv'
<1>1. row \in [Ids -> Balances]
  BY DEF RowsInv, RowsTypeOK
<1>2. ASSUME NEW i \in Ids, NEW b \in Bodies, GenericCreate(i, b) PROVE UInv'
  BY <1>2, StoreKeepsIndex DEF GenericCreate, Created
<1>3. ASSUME NEW i \in Ids, NEW b, GenericSave(i, Replaced(row[i], b)) PROVE UInv'
  <2>1. Replaced(row[i], b).status = row[i].status
    BY <1>1 DEF Replaced, Balances
  <2> QED BY <1>3, <2>1, StoreKeepsIndex DEF GenericSave, Live
<1>4. ASSUME NEW i \in Ids, NEW b \in Bodies, NEW fields \in SUBSET Fields,
             GenericPatch(i, fields, b)
      PROVE  UInv'
  BY <1>3, <1>4 DEF GenericPatch, Patched
<1>5. ASSUME NEW S \in SUBSET Ids, NEW s \in {"deleted", "purged"}, Restamp(S, s) PROVE UInv'
  <2>1. \A i \in Ids : row'[i].key = row[i].key /\ (row'[i].status = "live" => Live(i))
    BY <1>1, <1>5 DEF Restamp, Live, Balances
  <2>2. hand' = hand
    BY <1>5 DEF Restamp
  <2> QED BY <2>1, <2>2, NoneGained DEF RowsInv, RowsTypeOK
<1>6. ASSUME NEW i \in Ids, GenericRestore(i) PROVE UInv'
  <2>1. /\ row'[i].status = "live" /\ row'[i].key = row[i].key
        /\ \A j \in Ids \ {i} : row'[j] = row[j]
        /\ ~Locked(i) /\ hand' = hand
    BY <1>1, <1>6 DEF GenericRestore, Restamp, Balances
  <2>2. row[i].key \in Keys /\ \A h \in Hands : hand[h].pc = "minted" => hand[h].id # i
    BY <1>6 DEF GenericRestore, RowsInv, AbsentRows, HandsHold, HandHolds
  <2> QED BY <1>6, <2>1, <2>2, OneGained DEF GenericRestore
<1>7. ASSUME NEW S \in SUBSET Ids, GenericPurge(S) PROVE UInv'
  BY <1>5, <1>7 DEF GenericPurge
<1>8. ASSUME NEW i \in Ids, GenericDelete(i) PROVE UInv'
  BY <1>5, <1>8 DEF GenericDelete
<1>9. Trash \in SUBSET Ids
  BY DEF Trash
<1> QED BY <1>2, <1>3, <1>4, <1>6, <1>7, <1>8, <1>9 DEF GenericNext, GenericPut

LEMMA NextUInv == ASSUME "live" \in Unique, RowsInv, UInv, [Next]_vars PROVE UInv'
<1>1. row \in [Ids -> Balances]
  BY DEF RowsInv, RowsTypeOK
<1>2. ASSUME NEW a \in Asks, Approve(a) \/ Cancel(a) PROVE UInv'
  BY <1>1, <1>2, MovesKeepIndex DEF Approve, Cancel, Add, Balances
<1>3. ASSUME NEW i \in Ids, Accrue(i) PROVE UInv'
  BY <1>1, <1>3, MovesKeepIndex DEF Accrue, Balances
<1>4. ASSUME NEW e \in Events, Handle(e) PROVE UInv'
  BY <1>1, <1>4, MovesKeepIndex DEF Handle, Balances
<1>5. CASE UNCHANGED rowVars
  BY <1>5, MovesKeepIndex DEF rowVars
<1> QED
  BY <1>2, <1>3, <1>4, <1>5, AdjustKeepsIndex, GenericKeepsIndex
  DEF Next, RowsNext, Close, Redeliver, vars

\* With the decorator's index, and whatever else it covers, an approval or a
\* cancel moves one live row at most, for any number of rows, keys and writers.
THEOREM OneLiveRow == ASSUME "live" \in Unique PROVE Spec => OneLiveRowMoves
<1> DEFINE Moved == {i \in Ids : row[i].status = "live" /\ row'[i].used # row[i].used}
<1>1. ASSUME RowsInv, UInv, [Next]_vars, NEW a \in Asks, ask'[a] # ask[a]
      PROVE  Cardinality(Moved) <= 1
  <2>1. ask \in [Asks -> {"pending", "approved", "cancelled"}]
    BY <1>1 DEF RowsInv, RowsTypeOK
  <2>2. PICK b \in Asks : Approve(b) \/ Cancel(b)
    <3>1. ASSUME GenericNext PROVE ask' = ask
      BY <3>1 DEF GenericNext, GenericCreate, GenericPut, GenericPatch, GenericSave, Store,
                  GenericDelete, GenericRestore, GenericPurge, Restamp
    <3> QED
      BY <1>1, <3>1 DEF Next, RowsNext, rowVars, vars, Close, Handle, Redeliver, AdjustFind,
                        AdjustMint, AdjustCommit, AdjustRollback, Accrue
  <2>3. \A i \in Moved : i \in OfKey(KeyOf[b])
    <3>1. \A i \in Ids : row'[i].used # row[i].used => i \in Drawn(b) \cup Restored(b)
      BY <2>2 DEF Approve, Cancel, Add
    <3> QED BY <3>1 DEF Drawn, Restored
  <2>4. \A i, j \in Moved : i = j
    BY <1>1, <2>3 DEF UInv, OneLive, Live, OfKey
  <2>5. CASE Moved = {}
    BY <2>5, FS_EmptySet
  <2>6. CASE Moved # {}
    <3>1. PICK i \in Moved : TRUE
      BY <2>6
    <3>2. Moved = {i}
      BY <2>4, <3>1
    <3>3. Cardinality(Moved) = Cardinality({i})
      BY <3>2
    <3>4. Cardinality({i}) = 1
      BY FS_Singleton
    <3> HIDE DEF Moved
    <3> QED BY <3>3, <3>4
  <2> QED BY <2>5, <2>6
<1>2. RowsInv /\ UInv /\ [Next]_vars =>
        [\A a \in Asks : ask'[a] # ask[a] => Cardinality(Moved) <= 1]_rowVars
  BY <1>1
<1>3. Init => UInv
  BY DEF Init, RowsInit, Absent, Idle, UInv, OneLive, KeysHeld, Live
<1>4. RowsInv /\ UInv /\ [Next]_vars => UInv'
  BY NextUInv
<1>5. IInv => RowsInv
  BY DEF IInv
<1> QED BY <1>2, <1>3, <1>4, <1>5, AlwaysIInv, PTL DEF Spec, OneLiveRowMoves

-----------------------------------------------------------------------------
(* The days of a key that has one row.                                     *)

AbsentKeys == \A i \in Ids : row[i].status = "absent" => row[i].key = None

ApprovedOf(k) == {a \in Asks : ask[a] = "approved" /\ KeyOf[a] = k}

\* The approvals of a key are finitely many, since each is a step.  A key that
\* no generic update or purge touched and that never had a row never had a draw,
\* and one row holds all its draws.
KeyHolds(k) ==
  /\ IsFiniteSet(ApprovedOf(k))
  /\ k \notin edited =>
       /\ RowsOf(k) = {} => ApprovedOf(k) = {}
       /\ \A i \in Ids : RowsOf(k) = {i} => Total(Amount, ApprovedOf(k)) <= row[i].used

DaysHeld == AbsentKeys /\ KeysHeld /\ \A k \in Keys : KeyHolds(k)

\* A row that exists keeps its key and every used day, but for a generic update
\* or a purge, which edits the key it leaves and the key it takes.
RowsGrow ==
  \A i \in Ids :
    /\ row'[i].status = "absent" => row'[i] = row[i]
    /\ row[i].status # "absent" =>
         \/ row'[i].key = row[i].key /\ row[i].used <= row'[i].used
         \/ {row[i].key, row'[i].key} \subseteq edited'


\* Steps of anything but a request.
LEMMA GrowthHolds ==
  ASSUME RowsInv, RowsInv', DaysHeld, RowsGrow, UNCHANGED ask, edited \subseteq edited'
  PROVE  AbsentKeys' /\ \A k \in Keys : KeyHolds(k)'
<1>1. AbsentKeys'
  BY DEF DaysHeld, AbsentKeys, RowsGrow
<1>2. ASSUME NEW k \in Keys, k \notin edited' PROVE KeyHolds(k)'
  <2>1. KeyHolds(k) /\ k \notin edited /\ ApprovedOf(k)' = ApprovedOf(k)
    BY <1>2 DEF DaysHeld, ApprovedOf
  <2>2. \A i \in RowsOf(k) : i \in RowsOf(k)' /\ row[i].used <= row'[i].used
    BY <1>2, RowsAssumption DEF RowsOf, RowsGrow, DaysHeld, AbsentKeys
  <2>3. \A i \in Ids : row[i].used \in Nat /\ row'[i].used \in Nat
    <3>1. \A i \in Ids : row[i].used \in Nat
      BY Typed
    <3>2. \A i \in Ids : row'[i].used \in Amounts
      BY DEF RowsInv, RowsTypeOK, Balances
    <3> QED BY <3>1, <3>2, RowsAssumption DEF Amounts
  <2>4. RowsOf(k)' = {} => ApprovedOf(k) = {}
    BY <2>1, <2>2 DEF KeyHolds
  <2>5. ASSUME NEW i \in Ids, RowsOf(k)' = {i} PROVE Total(Amount, ApprovedOf(k)) <= row'[i].used
    <3>1. CASE RowsOf(k) = {}
      <4>1. ApprovedOf(k) = {}
        BY <2>1, <3>1 DEF KeyHolds
      <4>2. Total(Amount, ApprovedOf(k)) = 0
        BY <4>1, TotalEmpty
      <4> QED BY <2>3, <4>2
    <3>2. CASE RowsOf(k) # {}
      <4>1. RowsOf(k) = {i}
        BY <2>2, <2>5, <3>2
      <4>2. Total(Amount, ApprovedOf(k)) <= row[i].used
        BY <2>1, <4>1 DEF KeyHolds
      <4>3. Total(Amount, ApprovedOf(k)) \in Int
        BY <2>1, TotalInt, RowsAssumption DEF KeyHolds, ApprovedOf
      <4> QED BY <2>2, <2>3, <4>1, <4>2, <4>3
    <3> QED BY <3>1, <3>2
  <2> QED BY <2>1, <2>4, <2>5 DEF KeyHolds
<1>3. ASSUME NEW k \in Keys, k \in edited' PROVE KeyHolds(k)'
  BY <1>3 DEF KeyHolds, DaysHeld, ApprovedOf
<1> QED BY <1>1, <1>2, <1>3

\* The days an approval draws, or a cancel gives back, of the key of a request.
LEMMA MoveHolds ==
  ASSUME RowsInv, RowsInv', DaysHeld, NEW a \in Asks, NEW n \in Int, NEW S \in SUBSET OfKey(KeyOf[a]),
         S # {}, Add(S, n), UNCHANGED edited,
         \A k \in Keys \ {KeyOf[a]} : ApprovedOf(k)' = ApprovedOf(k),
         IsFiniteSet(ApprovedOf(KeyOf[a])'),
         Total(Amount, ApprovedOf(KeyOf[a])') = Total(Amount, ApprovedOf(KeyOf[a])) + n
  PROVE  AbsentKeys' /\ \A k \in Keys : KeyHolds(k)'
<1>1. row \in [Ids -> Balances] /\ S \subseteq Ids
  BY DEF RowsInv, RowsTypeOK, OfKey
<1>2. \A i \in Ids : /\ row'[i].key = row[i].key /\ row'[i].status = row[i].status
                     /\ i \in S => row'[i].used = row[i].used + n
                     /\ i \notin S => row'[i] = row[i]
  BY <1>1 DEF Add, Balances
<1>3. AbsentKeys' /\ \A k \in Keys : RowsOf(k)' = RowsOf(k)
  BY <1>2 DEF DaysHeld, AbsentKeys, RowsOf
<1>4. ASSUME NEW k \in Keys, k # KeyOf[a] PROVE KeyHolds(k)'
  <2>1. \A i \in RowsOf(k) : row'[i] = row[i]
    BY <1>2, <1>4 DEF RowsOf, OfKey
  <2>2. KeyHolds(k) /\ ApprovedOf(k)' = ApprovedOf(k) /\ RowsOf(k)' = RowsOf(k)
    BY <1>3, <1>4 DEF DaysHeld
  <2> QED BY <2>1, <2>2 DEF KeyHolds
<1>5. KeyHolds(KeyOf[a])'
  <2> DEFINE k == KeyOf[a]
  <2>1. k \in Keys /\ KeyHolds(k) /\ RowsOf(k)' = RowsOf(k) /\ S \subseteq RowsOf(k)
    BY <1>3, RowsAssumption DEF DaysHeld, OfKey, RowsOf
  <2>2. Total(Amount, ApprovedOf(k)) \in Int
    BY <2>1, TotalInt, RowsAssumption DEF KeyHolds, ApprovedOf
  <2>3. ASSUME NEW i \in Ids, RowsOf(k) = {i}, k \notin edited
        PROVE  Total(Amount, ApprovedOf(k)') <= row'[i].used
    <3>1. i \in S /\ row'[i].used = row[i].used + n /\ row[i].used \in Int
      BY <1>2, <2>1, <2>3, Typed
    <3>2. Total(Amount, ApprovedOf(k)) <= row[i].used
      BY <2>1, <2>3 DEF KeyHolds
    <3>3. Total(Amount, ApprovedOf(k)') = Total(Amount, ApprovedOf(k)) + n
      OBVIOUS
    <3> HIDE DEF k
    <3> QED BY <2>2, <3>1, <3>2, <3>3
  <2>4. RowsOf(k) # {}
    BY <2>1
  <2> QED BY <2>1, <2>3, <2>4 DEF KeyHolds
<1> QED BY <1>3, <1>4, <1>5

\* An approval draws from the rows of its key what it adds to the approved days.
LEMMA ApproveHolds ==
  ASSUME RowsInv, RowsInv', DaysHeld, NEW a \in Asks, Approve(a)
  PROVE  AbsentKeys' /\ \A k \in Keys : KeyHolds(k)'
<1> DEFINE A == ApprovedOf(KeyOf[a])
<1>0. KeyOf[a] \in Keys /\ \A b \in Asks : Amount[b] \in Int
  BY RowsAssumption
<1>1. IsFiniteSet(A) /\ Amount[a] \in Int /\ a \notin A /\ \A b \in A : Amount[b] \in Int
  <2>1. KeyHolds(KeyOf[a])
    BY <1>0 DEF DaysHeld
  <2> QED BY <1>0, <2>1 DEF KeyHolds, ApprovedOf, Approve
<1>2. A' = A \cup {a} /\ \A k \in Keys \ {KeyOf[a]} : ApprovedOf(k)' = ApprovedOf(k)
  BY DEF Approve, RowsInv, RowsTypeOK, ApprovedOf
<1>3. IsFiniteSet(A') /\ Total(Amount, A') = Total(Amount, A) + Amount[a]
  <2> HIDE DEF A
  <2>1. IsFiniteSet(A \cup {a})
    BY <1>1, FS_AddElement
  <2> QED BY <1>1, <1>2, <2>1, TotalAdd, TotalInt
<1>4. Drawn(a) \in SUBSET OfKey(KeyOf[a]) /\ Drawn(a) # {} /\ Add(Drawn(a), Amount[a]) /\ UNCHANGED edited
  BY DEF Approve, Drawn
<1> QED BY <1>1, <1>2, <1>3, <1>4, MoveHolds

\* A cancel gives back what it takes off the approved days.
LEMMA CancelHolds ==
  ASSUME RowsInv, RowsInv', DaysHeld, NEW a \in Asks, Cancel(a)
  PROVE  AbsentKeys' /\ \A k \in Keys : KeyHolds(k)'
<1> DEFINE A == ApprovedOf(KeyOf[a])
<1>0. KeyOf[a] \in Keys /\ \A b \in Asks : Amount[b] \in Int
  BY RowsAssumption
<1>1. IsFiniteSet(A) /\ Amount[a] \in Int /\ a \in A /\ \A b \in A : Amount[b] \in Int
  <2>1. KeyHolds(KeyOf[a])
    BY <1>0 DEF DaysHeld
  <2> QED BY <1>0, <2>1 DEF KeyHolds, ApprovedOf, Cancel
<1>2. A' = A \ {a} /\ \A k \in Keys \ {KeyOf[a]} : ApprovedOf(k)' = ApprovedOf(k)
  BY DEF Cancel, RowsInv, RowsTypeOK, ApprovedOf
<1>3. IsFiniteSet(A') /\ Total(Amount, A') = Total(Amount, A) + (0 - Amount[a])
  <2> HIDE DEF A
  <2>1. IsFiniteSet(A \ {a})
    BY <1>1, FS_RemoveElement
  <2>2. Total(Amount, A) = Amount[a] + Total(Amount, A \ {a}) /\ Total(Amount, A \ {a}) \in Int
    BY <1>1, <2>1, TotalRemove, TotalInt
  <2> QED BY <1>1, <1>2, <2>1, <2>2
<1>4. /\ Restored(a) \in SUBSET OfKey(KeyOf[a]) /\ Restored(a) # {}
      /\ Add(Restored(a), 0 - Amount[a]) /\ UNCHANGED edited /\ 0 - Amount[a] \in Int
  BY <1>1 DEF Cancel, Restored
<1> QED BY <1>2, <1>3, <1>4, MoveHolds

\* A write of a whole row by the generic surface or by an adjustment.
LEMMA WriteGrows ==
  ASSUME RowsInv, NEW i \in Ids, row'[i].status = "live",
         \A j \in Ids \ {i} : row'[j] = row[j],
         \/ row[i].status = "absent"
         \/ row'[i].key = row[i].key /\ row[i].used <= row'[i].used
         \/ {row[i].key, row'[i].key} \subseteq edited'
  PROVE  RowsGrow
<1>1. \A j \in Ids : row[j].used <= row[j].used
  BY Typed
<1> QED BY <1>1 DEF RowsGrow

\* A delete or a restore leaves the keys that are held as they were,
LEMMA RestampGrows ==
  ASSUME RowsInv, NEW S \in SUBSET Ids, NEW s \in {"live", "deleted", "purged"}, Restamp(S, s)
  PROVE  RowsGrow
<1>1. \A i \in Ids : row[i] \in Balances /\ row[i].used <= row[i].used
  BY Typed DEF RowsInv, RowsTypeOK
<1>2. \A i \in Ids : /\ row'[i].key = row[i].key /\ row'[i].used = row[i].used
                     /\ row'[i].status = "absent" => row'[i] = row[i]
  BY <1>1 DEF Restamp, Balances
<1> QED BY <1>1, <1>2 DEF RowsGrow

\* a generic write takes days off the keys it marks as edited and no other,
LEMMA GenericGrows ==
  ASSUME RowsInv, GenericNext
  PROVE  RowsGrow /\ UNCHANGED <<ask, hand>> /\ edited \subseteq edited'
<1>1. row \in [Ids -> Balances]
  BY DEF RowsInv, RowsTypeOK
<1>2. ASSUME NEW i \in Ids, NEW b \in Bodies, GenericCreate(i, b)
      PROVE  RowsGrow /\ UNCHANGED <<ask, hand>> /\ edited \subseteq edited'
  <2>1. /\ row[i].status = "absent" /\ row'[i].status = "live"
        /\ \A j \in Ids \ {i} : row'[j] = row[j]
    BY <1>1, <1>2 DEF GenericCreate, FreshId, Store, Created
  <2> QED BY <1>2, <2>1, WriteGrows DEF GenericCreate, Store
<1>3. ASSUME NEW i \in Ids, NEW b, GenericSave(i, Replaced(row[i], b))
      PROVE  RowsGrow /\ UNCHANGED <<ask, hand>> /\ edited \subseteq edited'
  <2>1. Replaced(row[i], b).status = "live"
    BY <1>1, <1>3 DEF GenericSave, Replaced, Balances
  <2>2. /\ row'[i] = Replaced(row[i], b) /\ \A j \in Ids \ {i} : row'[j] = row[j]
        /\ edited' = edited \cup {row[i].key, Replaced(row[i], b).key}
        /\ UNCHANGED <<ask, hand>>
    BY <1>1, <1>3 DEF GenericSave, Store
  <2> QED BY <2>1, <2>2, WriteGrows
<1>4. ASSUME NEW i \in Ids, NEW b \in Bodies, NEW fields \in SUBSET Fields,
             GenericPatch(i, fields, b)
      PROVE  RowsGrow /\ UNCHANGED <<ask, hand>> /\ edited \subseteq edited'
  BY <1>3, <1>4 DEF GenericPatch, Patched
<1>5. ASSUME NEW S \in SUBSET Ids, NEW s \in {"live", "deleted", "purged"}, Restamp(S, s),
             edited \subseteq edited'
      PROVE  RowsGrow /\ UNCHANGED <<ask, hand>> /\ edited \subseteq edited'
  BY <1>5, RestampGrows DEF Restamp
<1>6. ASSUME NEW i \in Ids, GenericDelete(i) \/ GenericRestore(i)
      PROVE  RowsGrow /\ UNCHANGED <<ask, hand>> /\ edited \subseteq edited'
  BY <1>5, <1>6 DEF GenericDelete, GenericRestore
<1>7. ASSUME NEW S \in SUBSET Ids, GenericPurge(S)
      PROVE  RowsGrow /\ UNCHANGED <<ask, hand>> /\ edited \subseteq edited'
  BY <1>5, <1>7 DEF GenericPurge
<1>8. Trash \in SUBSET Ids
  BY DEF Trash
<1> QED BY <1>2, <1>3, <1>4, <1>6, <1>7, <1>8 DEF GenericNext, GenericPut

\* and an adjustment leaves what is drawn as it was.
LEMMA AdjustGrows ==
  ASSUME RowsInv, KeysHeld, NEW h \in Hands,
         \/ \E i \in Ids, d \in Deltas : AdjustFind(h, i, d)
         \/ \E i \in Ids, k \in Keys, d \in Deltas : AdjustMint(h, i, k, d)
         \/ AdjustCommit(h)
         \/ AdjustRollback(h)
  PROVE  RowsGrow /\ KeysHeld' /\ UNCHANGED <<ask, edited>>
<1>1. row \in [Ids -> Balances] /\ hand \in [Hands -> HandSet]
  BY DEF RowsInv, RowsTypeOK, HandSet
<1>2. row' = row => RowsGrow
  BY Typed DEF RowsGrow
<1>3. CASE AdjustCommit(h)
  <2> DEFINE i == hand[h].id
  <2>1. /\ i \in Ids /\ hand[h].pc \in {"locked", "minted"} /\ UNCHANGED <<ask, edited>>
        /\ hand' = [hand EXCEPT ![h] = Idle]
        /\ row'[i].status = "live" /\ row'[i].key = hand[h].key /\ row'[i].used = Held(h)
        /\ \A j \in Ids \ {i} : row'[j] = row[j]
    BY <1>1, <1>3 DEF AdjustCommit, RowsInv, RowsTypeOK
  <2>2. \/ row[i].status = "absent"
        \/ row'[i].key = row[i].key /\ row[i].used <= row'[i].used
    BY <2>1, Typed DEF Held, KeysHeld, RowsInv, HandsHold, HandHolds
  <2>3. KeysHeld'
    <3>1. SUFFICES ASSUME NEW g \in Hands, hand'[g].pc = "locked"
                   PROVE  row'[hand'[g].id].key = hand'[g].key
      BY DEF KeysHeld
    <3>2. g # h /\ hand'[g] = hand[g] /\ hand[g].id \in Ids /\ hand[g].id # i
      BY <1>1, <2>1, <3>1 DEF Idle, RowsInv, RowsTypeOK, HandsApart
    <3> QED BY <2>1, <3>1, <3>2 DEF KeysHeld
  <2> QED BY <2>1, <2>2, <2>3, WriteGrows
<1>4. ASSUME NEW i \in Ids, NEW d \in Deltas, AdjustFind(h, i, d)
      PROVE  KeysHeld' /\ UNCHANGED <<row, ask, edited>>
  BY <1>1, <1>4 DEF AdjustFind, KeysHeld
<1>5. ASSUME NEW i \in Ids, NEW k \in Keys, NEW d \in Deltas, AdjustMint(h, i, k, d)
      PROVE  KeysHeld' /\ UNCHANGED <<row, ask, edited>>
  BY <1>1, <1>5 DEF AdjustMint, KeysHeld
<1>6. CASE AdjustRollback(h)
  BY <1>1, <1>2, <1>6 DEF AdjustRollback, KeysHeld, Idle
<1> QED BY <1>2, <1>3, <1>4, <1>5, <1>6

\* What is locked keeps its key.
LEMMA OthersKeepLocked ==
  ASSUME RowsInv, KeysHeld, UNCHANGED hand,
         \A i \in Ids : ~Locked(i) \/ row'[i].key = row[i].key
  PROVE  KeysHeld'
BY DEF KeysHeld, Locked, RowsInv, RowsTypeOK

\* A generic write waits for a locked row.
LEMMA GenericKeepsLocked ==
  ASSUME RowsInv, KeysHeld, GenericNext PROVE KeysHeld'
<1>1. row \in [Ids -> Balances]
  BY DEF RowsInv, RowsTypeOK
<1>2. ASSUME NEW i \in Ids, NEW r, Store(i, r) PROVE KeysHeld'
  BY <1>1, <1>2, OthersKeepLocked DEF Store
<1>3. ASSUME NEW S \in SUBSET Ids, NEW s \in {"live", "deleted", "purged"}, Restamp(S, s) PROVE KeysHeld'
  BY <1>1, <1>3, OthersKeepLocked DEF Restamp, Balances
<1>4. Trash \in SUBSET Ids
  BY DEF Trash
<1> QED BY <1>2, <1>3, <1>4
        DEF GenericNext, GenericCreate, GenericPut, GenericPatch, GenericSave, GenericDelete,
            GenericRestore, GenericPurge

\* Every step keeps the days that were drawn.
LEMMA NextDaysHeld == ASSUME RowsInv, RowsInv', DaysHeld, [Next]_vars PROVE DaysHeld'
<1>1. row \in [Ids -> Balances]
  BY DEF RowsInv, RowsTypeOK
<1>2. ASSUME NEW a \in Asks, Approve(a) \/ Cancel(a) PROVE DaysHeld'
  <2>1. KeysHeld'
    BY <1>1, <1>2, OthersKeepLocked DEF Approve, Cancel, Add, Balances, DaysHeld
  <2> QED BY <1>2, <2>1, ApproveHolds, CancelHolds DEF DaysHeld
<1>3. ASSUME NEW h \in Hands,
             \/ \E i \in Ids, d \in Deltas : AdjustFind(h, i, d)
             \/ \E i \in Ids, k \in Keys, d \in Deltas : AdjustMint(h, i, k, d)
             \/ AdjustCommit(h)
             \/ AdjustRollback(h)
      PROVE  DaysHeld'
  <2>1. RowsGrow /\ KeysHeld' /\ UNCHANGED <<ask, edited>>
    BY <1>3, AdjustGrows DEF DaysHeld
  <2> QED BY <2>1, GrowthHolds DEF DaysHeld
<1>4. ASSUME UNCHANGED <<ask, hand, edited>>,
             \A i \in Ids : row'[i].key = row[i].key /\ row'[i].status = row[i].status
                            /\ row[i].used <= row'[i].used,
             \A i \in Ids : row[i].status = "absent" => row'[i] = row[i]
      PROVE  DaysHeld'
  <2>1. RowsGrow
    BY <1>4 DEF RowsGrow
  <2>2. KeysHeld'
    BY <1>4, OthersKeepLocked DEF DaysHeld
  <2> QED BY <1>4, <2>1, <2>2, GrowthHolds DEF DaysHeld
<1>5. ASSUME NEW i \in Ids, Accrue(i) PROVE DaysHeld'
  BY <1>1, <1>4, <1>5, Typed DEF Accrue, Balances, Stored
<1>6. ASSUME NEW e \in Events, Handle(e) PROVE DaysHeld'
  <2>1. \A i \in Ids : /\ row'[i].key = row[i].key /\ row'[i].status = row[i].status
                       /\ row[i].used <= row'[i].used
                       /\ row[i].status = "absent" => row'[i] = row[i]
    BY <1>1, <1>6, Typed DEF Handle, Remaining, Stored, Balances
  <2> QED BY <1>4, <1>6, <2>1 DEF Handle
<1>7. CASE UNCHANGED rowVars
  BY <1>4, <1>7, Typed DEF rowVars
<1>8. CASE GenericNext
  BY <1>8, GenericGrows, GenericKeepsLocked, GrowthHolds DEF DaysHeld
<1> QED
  BY <1>2, <1>3, <1>5, <1>6, <1>7, <1>8 DEF Next, RowsNext, Close, Redeliver, vars

\* Without any index on the balances: a key that had one row, which no generic
\* update or purge touched, holds the days of every request that can be cancelled.
THEOREM DaysStayHeld == Spec => []DrawnDaysAreHeld
<1>1. ASSUME Init PROVE DaysHeld
  <2>1. \A k \in Keys : ApprovedOf(k) = {} /\ RowsOf(k) = {}
    BY <1>1, RowsAssumption DEF Init, RowsInit, ApprovedOf, RowsOf, Absent
  <2>2. \A k \in Keys : KeyHolds(k)
    BY <2>1, FS_EmptySet DEF KeyHolds
  <2> QED BY <1>1, <2>2 DEF DaysHeld, AbsentKeys, KeysHeld, Init, RowsInit, Absent, Idle
<1>2. RowsInv /\ RowsInv' /\ DaysHeld /\ [Next]_vars => DaysHeld'
  BY NextDaysHeld
<1>3. RowsInv /\ DaysHeld => DrawnDaysAreHeld
  <2>1. SUFFICES ASSUME RowsInv, DaysHeld, NEW i \in Ids, NEW k \in Keys, k = row[i].key,
                        RowsOf(k) = {i}, k \notin edited
                 PROVE  MapThenSumSet(LAMBDA a : Amount[a], ApprovedOf(k)) <= row[i].used
    BY DEF DrawnDaysAreHeld, ApprovedOf, Stored, RowsInv, AbsentRows
  <2>2. Total(Amount, ApprovedOf(k)) <= row[i].used
    BY <2>1 DEF DaysHeld, KeyHolds
  <2> QED BY <2>2 DEF Total
<1>4. IInv => RowsInv
  BY DEF IInv
<1> QED BY <1>1, <1>2, <1>3, <1>4, AlwaysIInv, PTL DEF Spec
=============================================================================
