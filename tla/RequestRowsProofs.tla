------------------------- MODULE RequestRowsProofs -------------------------
(***************************************************************************)
(* Proofs about RequestRows, for any writers and any terms: the types,     *)
(* that an approved request keeps its terms although edits are compared    *)
(* with a copy that may be stale, and that the history replayed from the   *)
(* trail is the row, and final.                                            *)
(***************************************************************************)
EXTENDS RequestRows, FiniteSums, TLAPS

RowsTyped ==
  /\ row \in Rows \cup {None}
  /\ txn \in [Writers -> [pc : {"idle", "begun", "wrote"}, copy : Rows \cup {None},
                          since : Nat, after : Rows \cup {None}, at : Nat]]
  /\ clock \in Nat

HolderIsAlone ==
  \A v, w \in Writers : txn[v].pc = "wrote" /\ txn[w].pc = "wrote" => v = w

\* What a row may have become since it was q: `Declared` is transitive.
Follows(q, r) ==
  /\ Declared(q.status, r.status)
  /\ q.status = "approved" /\ r.status = "approved" => r.terms = q.terms

\* What a writer may put in the place of q.
Replaces(q, r) == Follows(q, r) /\ (q.status = "approved" => r.terms = q.terms)

\* What has been written and not committed replaces the committed row; a row
\* that is being inserted was read by nobody.
WrittenReplaces ==
  \A w \in Writers :
    txn[w].pc = "wrote" =>
      /\ clock > 0
      /\ row # None /\ txn[w].after # None => Replaces(row, txn[w].after)
      /\ row = None /\ txn[w].after # None => \A v \in Writers : txn[v].copy = None

\* The committed row follows every copy that was read of it.
RowFollowsCopies ==
  /\ row # None => clock > 0
  /\ \A w \in Writers :
       txn[w].copy # None =>
         /\ clock > 0
         /\ row # None => Follows(txn[w].copy, row)

IInv == RowsTyped /\ HolderIsAlone /\ WrittenReplaces /\ RowFollowsCopies

\* What a row may have become is transitive.
LEMMA FollowsTransitive ==
  ASSUME NEW p \in Rows, NEW q \in Rows, NEW r \in Rows, Follows(p, q), Follows(q, r)
  PROVE  Follows(p, r)
BY DEF Follows, Declared, Rows, Statuses, Decisions

LEMMA InitIInv == Init => IInv
BY DEF Init, IInv, RowsTyped, HolderIsAlone, WrittenReplaces, RowFollowsCopies, Idle

LEMMA BeginIInv == ASSUME IInv, NEW w \in Writers, Begin(w) PROVE IInv'
<1>1. RowsTyped'
  BY DEF IInv, RowsTyped, Begin, Idle
<1>2. HolderIsAlone' /\ WrittenReplaces'
  BY DEF IInv, RowsTyped, HolderIsAlone, WrittenReplaces, Begin, Idle
<1>3. RowFollowsCopies'
  <2>1. row # None => Follows(row, row)
    BY DEF Follows, Declared
  <2> QED BY <2>1 DEF IInv, RowsTyped, RowFollowsCopies, Begin, Idle
<1> QED BY <1>1, <1>2, <1>3 DEF IInv

LEMMA RollbackIInv == ASSUME IInv, NEW w \in Writers, Rollback(w) PROVE IInv'
BY DEF IInv, RowsTyped, HolderIsAlone, WrittenReplaces, RowFollowsCopies, Rollback, Idle

LEMMA WriteIInv ==
  ASSUME IInv, NEW w \in Writers, NEW after \in Rows \cup {None}, Write(w, after),
         row # None /\ after # None => Replaces(row, after),
         row = None /\ after # None => clock = 0
  PROVE  IInv'
<1>1. RowsTyped'
  BY DEF IInv, RowsTyped, Write, Stamped
<1>2. HolderIsAlone'
  BY DEF IInv, RowsTyped, HolderIsAlone, Write, Locked
<1>3. WrittenReplaces'
  BY DEF IInv, RowsTyped, WrittenReplaces, RowFollowsCopies, Write, Locked
<1>4. RowFollowsCopies'
  BY DEF IInv, RowsTyped, RowFollowsCopies, Write
<1> QED BY <1>1, <1>2, <1>3, <1>4 DEF IInv

LEMMA CommitIInv == ASSUME IInv, NEW w \in Writers, Commit(w) PROVE IInv'
<1> USE RowAssumption
<1>1. RowsTyped'
  BY DEF IInv, RowsTyped, Commit, Idle
<1>2. HolderIsAlone'
  BY DEF IInv, RowsTyped, HolderIsAlone, Commit, Idle
<1>3. WrittenReplaces'
  BY DEF IInv, RowsTyped, HolderIsAlone, WrittenReplaces, Commit, Idle
<1>4. RowFollowsCopies'
  <2>1. clock' > 0
    BY DEF IInv, WrittenReplaces, Commit
  <2>2. SUFFICES ASSUME NEW v \in Writers, txn'[v].copy # None, row' # None
                 PROVE  Follows(txn'[v].copy, row')
    BY <2>1 DEF RowFollowsCopies
  <2>3. v # w /\ txn'[v] = txn[v] /\ row' = txn[w].after /\ row' \in Rows
    BY <2>2 DEF IInv, RowsTyped, Commit, Idle
  <2>4. row # None
    BY <2>2, <2>3 DEF IInv, WrittenReplaces, Commit
  <2>5. Follows(txn[v].copy, row) /\ Follows(row, row')
    BY <2>2, <2>3, <2>4 DEF IInv, WrittenReplaces, RowFollowsCopies, Replaces, Commit
  <2>6. row \in Rows /\ txn[v].copy \in Rows
    BY <2>2, <2>3, <2>4 DEF IInv, RowsTyped
  <2> QED BY <2>3, <2>5, <2>6, FollowsTransitive
<1> QED BY <1>1, <1>2, <1>3, <1>4 DEF IInv

\* A verb's UPDATE, a restamp and a save are replacements: for a save, the copy
\* that the rules compare with cannot hide that the row was approved.
LEMMA DecideReplaces ==
  ASSUME IInv, NEW w \in Writers, NEW to \in Decisions, Decide(w, to)
  PROVE  /\ Write(w, [row EXCEPT !.status = to])
         /\ [row EXCEPT !.status = to] \in Rows
         /\ row # None /\ Replaces(row, [row EXCEPT !.status = to])
BY DEF IInv, RowsTyped, Decide, Update, Rows, Statuses, Decisions, Replaces, Follows, Declared

\* What a PUT or a PATCH saves is a row.
LEMMA EditsAreRows ==
  ASSUME NEW copy \in Rows, NEW b \in Bodies, NEW fields \in SUBSET Fields,
         NEW deleted \in BOOLEAN
  PROVE  /\ [Replaced(copy, b) EXCEPT !.deleted = deleted] \in Rows
         /\ [Patched(copy, fields, b) EXCEPT !.deleted = deleted] \in Rows
<1>1. Replaced(copy, b) \in Rows
  BY DEF Replaced, Bodies, Rows
<1>2. Patched(copy, fields, b) \in Rows
  BY DEF Patched, Bodies, Fields, Rows
<1> QED BY <1>1, <1>2 DEF Rows

LEMMA SaveReplaces ==
  ASSUME IInv, NEW w \in Writers, NEW after \in Rows, Save(w, after)
  PROVE  Write(w, after) /\ row # None /\ Replaces(row, after)
<1>1. /\ Write(w, after) /\ row # None /\ txn[w].copy # None
      /\ Declared(row.status, after.status) /\ RowRules(txn[w].copy, after)
  BY DEF Save, Update
<1>2. Follows(txn[w].copy, row) /\ row \in Rows /\ txn[w].copy \in Rows
  BY <1>1 DEF IInv, RowsTyped, RowFollowsCopies
<1>3. row.status = "approved" => after.terms = row.terms
  BY <1>1, <1>2 DEF RowRules, Follows, Declared, Rows, Statuses, Decisions
<1> QED BY <1>1, <1>3 DEF Replaces, Follows

LEMMA RestampReplaces ==
  ASSUME IInv, NEW w \in Writers, NEW deleted \in BOOLEAN, Restamp(w, deleted)
  PROVE  /\ Write(w, [row EXCEPT !.deleted = deleted])
         /\ [row EXCEPT !.deleted = deleted] \in Rows
         /\ row # None /\ Replaces(row, [row EXCEPT !.deleted = deleted])
BY DEF IInv, RowsTyped, Restamp, Update, Rows, Replaces, Follows, Declared

LEMMA NextIInv == IInv /\ [Next]_vars => IInv'
<1> SUFFICES ASSUME IInv, [Next]_vars PROVE IInv'
  OBVIOUS
<1>1. ASSUME NEW w \in Writers, Begin(w) PROVE IInv'
  BY <1>1, BeginIInv
<1>2. ASSUME NEW w \in Writers, NEW t \in Terms, Insert(w, t) PROVE IInv'
  <2>1. Created(t) \in Rows
    BY DEF Created, Rows, Statuses
  <2> QED BY <1>2, <2>1, WriteIInv DEF Insert
<1>3. ASSUME NEW w \in Writers, NEW to \in Decisions, Decide(w, to) PROVE IInv'
  BY <1>3, DecideReplaces, WriteIInv
<1>4. ASSUME NEW w \in Writers, NEW b \in Bodies, NEW fields \in SUBSET Fields,
             Put(w, b) \/ Patch(w, fields, b)
      PROVE  IInv'
  <2>1. PICK after \in Rows : Save(w, after)
    BY <1>4, EditsAreRows DEF IInv, RowsTyped, Put, Patch
  <2> QED BY <2>1, SaveReplaces, WriteIInv
<1>5. ASSUME NEW w \in Writers, NEW deleted \in BOOLEAN, Restamp(w, deleted) PROVE IInv'
  BY <1>5, RestampReplaces, WriteIInv
<1>6. ASSUME NEW w \in Writers, Purge(w) PROVE IInv'
  BY <1>6, WriteIInv DEF Purge
<1>7. ASSUME NEW w \in Writers, Commit(w) PROVE IInv'
  BY <1>7, CommitIInv
<1>8. ASSUME NEW w \in Writers, Rollback(w) PROVE IInv'
  BY <1>8, RollbackIInv
<1>9. ASSUME NEW w \in Writers, NEW b \in Bodies, Put(w, b) PROVE IInv'
  BY <1>4, <1>9 DEF Fields
<1>10. ASSUME NEW w \in Writers, NEW b \in Bodies, NEW fields \in SUBSET Fields,
              Patch(w, fields, b)
       PROVE  IInv'
  BY <1>4, <1>10
<1>11. CASE UNCHANGED vars
  BY <1>11 DEF IInv, vars, RowsTyped, HolderIsAlone, WrittenReplaces, RowFollowsCopies
<1> QED BY <1>1, <1>2, <1>3, <1>5, <1>6, <1>7, <1>8, <1>9, <1>10, <1>11 DEF Next, GenericWrite

\* The row, the transactions and the clock keep their types, and one
\* transaction at most holds the row.
THEOREM RequestTypeCorrect == Spec => []TypeOK
<1>1. IInv => TypeOK
  BY DEF IInv, RowsTyped, HolderIsAlone, TypeOK
<1> QED BY <1>1, InitIInv, NextIInv, PTL DEF Spec

LEMMA StepKeepsTerms ==
  IInv /\ [Next]_vars =>
    (row # None /\ row.status = "approved" /\ row' # None => row'.terms = row.terms)
<1> SUFFICES ASSUME IInv, [Next]_vars, row # None, row.status = "approved", row' # None
             PROVE  row'.terms = row.terms
  OBVIOUS
<1>1. row' = row \/ \E w \in Writers : Commit(w)
  <2>1. ASSUME NEW w \in Writers, GenericWrite(w) PROVE row' = row
    <3>1. ASSUME NEW after, Save(w, after) PROVE row' = row
      BY <3>1 DEF Save, Update, Write
    <3>2. ASSUME NEW b \in Bodies, Put(w, b) PROVE row' = row
      BY <3>1, <3>2 DEF Put
    <3>3. ASSUME NEW b \in Bodies, NEW fields \in SUBSET Fields, Patch(w, fields, b)
          PROVE  row' = row
      BY <3>1, <3>3 DEF Patch
    <3> QED BY <2>1, <3>2, <3>3 DEF GenericWrite, Insert, Restamp, Update, Purge, Write
  <2> QED BY <2>1 DEF Next, Begin, Decide, Update, Write, Rollback, vars
<1>2. ASSUME NEW w \in Writers, Commit(w) PROVE row'.terms = row.terms
  BY <1>2 DEF IInv, WrittenReplaces, Replaces, Commit
<1> QED BY <1>1, <1>2

\* An approved request keeps its terms, however stale the edits that are saved.
THEOREM TermsSurvive == Spec => TermsSurviveStaleSaves
<1>1. IInv /\ [Next]_vars =>
        [row # None /\ row.status = "approved" /\ row' # None
           => row'.terms = row.terms]_vars
  BY StepKeepsTerms
<1> QED BY <1>1, InitIInv, NextIInv, PTL DEF Spec, TermsSurviveStaleSaves

-----------------------------------------------------------------------------
(* The history.                                                            *)

\* The entries of a trail are stamped one after the other.
Sorted(entries) ==
  /\ \E n \in Nat : DOMAIN entries = 1 .. n
  /\ \A i \in DOMAIN entries : entries[i].at \in Nat
  /\ \A i, j \in DOMAIN entries : i < j => entries[i].at < entries[j].at

\* f is the state of the fold over every part of S.
Folds(f, entries, S) ==
  f = [s \in SUBSET S |->
         IF s = {} THEN Blank
         ELSE Apply(f[s \ {Newest(entries, s)}], entries[Newest(entries, s)])]

\* There is a newest among some entries, and it is the last of them.
LEMMA NewestIsLast ==
  ASSUME NEW entries, Sorted(entries), NEW S \in SUBSET DOMAIN entries, S # {}
  PROVE  Newest(entries, S) \in S /\ \A j \in S : j <= Newest(entries, S)
<1>1. PICK n \in Nat : DOMAIN entries = 1 .. n
  BY DEF Sorted
<1> DEFINE U == {u \in Nat : \A j \in S : j <= u}
<1>2. n \in U
  BY <1>1
<1>3. PICK u \in U : \A m \in U : u <= m
  <2>1. U \subseteq Nat /\ U # {}
    BY <1>2
  <2> HIDE DEF U
  <2>2. PICK u \in U : \A m \in U : <<m, u>> \notin OpToRel(<, Nat)
    BY <2>1, NatLessThanWellFounded, WFMin
  <2>3. \A m \in U : <<m, u>> \in Nat \X Nat
    BY <2>1
  <2>4. \A m \in U : ~(m < u)
    BY <2>2, <2>3, Zenon DEF OpToRel
  <2> QED BY <2>1, <2>4
<1>a. S \subseteq Nat /\ u \in Nat /\ \A j \in S : j <= u
  BY <1>1, <1>3
<1>4. u \in S
  <2>1. SUFFICES ASSUME u \notin S PROVE FALSE
    OBVIOUS
  <2>2. PICK j \in S : TRUE
    OBVIOUS
  <2>3. u - 1 \in Nat /\ \A i \in S : i <= u - 1
    BY <1>a, <2>1, <2>2
  <2>4. u - 1 \in U
    BY <2>3
  <2> QED BY <1>3, <1>a, <2>4
<1> HIDE DEF U
<1>5. ASSUME NEW j \in S PROVE entries[j].at <= entries[u].at
  <2>1. j = u \/ j < u
    BY <1>a
  <2>2. j \in DOMAIN entries /\ u \in DOMAIN entries
    BY <1>4
  <2>3. entries[j].at \in Nat /\ entries[u].at \in Nat
    BY <2>2 DEF Sorted
  <2> QED BY <2>1, <2>2, <2>3 DEF Sorted
<1>6. /\ Newest(entries, S) \in S
      /\ \A j \in S : entries[j].at <= entries[Newest(entries, S)].at
  BY <1>4, <1>5 DEF Newest
<1>7. ASSUME NEW j \in S PROVE j <= Newest(entries, S)
  <2> DEFINE i == Newest(entries, S)
  <2>1. i \in DOMAIN entries /\ j \in DOMAIN entries /\ entries[j].at <= entries[i].at
    BY <1>6
  <2>2. i \in Nat /\ j \in Nat /\ entries[i].at \in Nat /\ entries[j].at \in Nat
    BY <1>1, <2>1 DEF Sorted
  <2> HIDE DEF i
  <2>3. ~(i < j)
    BY <2>1, <2>2 DEF Sorted
  <2> QED BY <2>2, <2>3 DEF i
<1> QED BY <1>6, <1>7

\* Trails that agree on some entries have the same newest of them.
LEMMA NewestAgree ==
  ASSUME NEW d, NEW e, Sorted(d), Sorted(e),
         NEW S \in SUBSET ((DOMAIN d) \cap (DOMAIN e)), S # {}
  PROVE  Newest(d, S) = Newest(e, S)
<1>1. Newest(d, S) \in S /\ Newest(e, S) \in S
  BY NewestIsLast
<1>2. Newest(d, S) <= Newest(e, S) /\ Newest(e, S) <= Newest(d, S)
  BY <1>1, NewestIsLast
<1>3. Newest(d, S) \in Int /\ Newest(e, S) \in Int
  BY <1>1 DEF Sorted
<1> QED BY <1>2, <1>3

\* One step of the recursion.
LEMMA FoldsStep ==
  ASSUME NEW f, NEW e, NEW S, Folds(f, e, S), NEW s \in SUBSET S, s # {}
  PROVE  f[s] = Apply(f[s \ {Newest(e, s)}], e[Newest(e, s)])
BY DEF Folds

\* The recursion has one solution, where two trails agree,
LEMMA FoldsAgree ==
  ASSUME NEW d, NEW e, Sorted(d), Sorted(e), NEW f, NEW g,
         NEW S \in SUBSET DOMAIN d, NEW T \in SUBSET DOMAIN e, IsFiniteSet(S),
         Folds(f, d, S), Folds(g, e, T), \A i \in S \cap T : d[i] = e[i]
  PROVE  \A r \in SUBSET (S \cap T) : f[r] = g[r]
<1> DEFINE B == {r \in SUBSET S : r \in SUBSET T /\ f[r] # g[r]}
<1>1. SUFFICES ASSUME B # {} PROVE FALSE
  OBVIOUS
<1>a. B \subseteq SUBSET S
  OBVIOUS
<1>2. PICK m \in B : \A t \in B : t \subseteq m => t = m
  <2> HIDE DEF B
  <2> QED BY <1>1, <1>a, SmallestSubset
<1>b. m \in SUBSET S /\ m \in SUBSET T /\ f[m] # g[m]
  OBVIOUS
<1>3. m # {}
  BY <1>b DEF Folds
<1> DEFINE i == Newest(d, m)
<1>4. i \in m /\ Newest(e, m) = i /\ d[i] = e[i]
  <2>1. i \in m /\ Newest(e, m) = i
    BY <1>b, <1>3, NewestIsLast, NewestAgree
  <2> QED BY <1>b, <2>1
<1>5. f[m \ {i}] = g[m \ {i}]
  BY <1>2, <1>4
<1>6. /\ f[m] = Apply(f[m \ {i}], d[i])
      /\ g[m] = Apply(g[m \ {i}], e[i])
  BY <1>b, <1>3, <1>4, FoldsStep
<1> QED BY <1>b, <1>4, <1>5, <1>6

\* and has it on every part of a trail.
LEMMA FoldsExist ==
  ASSUME NEW e, Sorted(e), NEW S \in SUBSET DOMAIN e, IsFiniteSet(S)
  PROVE  \E f : Folds(f, e, S)
<1> DEFINE B == {r \in SUBSET S : ~ \E f : Folds(f, e, r)}
<1>1. SUFFICES ASSUME B # {} PROVE FALSE
  OBVIOUS
<1>a. B \subseteq SUBSET S
  OBVIOUS
<1>2. PICK m \in B : \A t \in B : t \subseteq m => t = m
  <2> HIDE DEF B
  <2> QED BY <1>1, <1>a, SmallestSubset
<1> DEFINE P(s) == s \ {Newest(e, s)}
           h(t) == CHOOSE f : Folds(f, e, t)
           F == [s \in SUBSET m |-> IF s = {} THEN Blank
                                    ELSE Apply(h(P(s))[P(s)], e[Newest(e, s)])]
<1>3. ASSUME NEW t \in SUBSET m, t # m PROVE Folds(h(t), e, t)
  <2>1. \E f : Folds(f, e, t)
    BY <1>2, <1>3
  <2> QED BY <2>1
<1>4. \A t \in SUBSET m : t \in SUBSET DOMAIN e /\ IsFiniteSet(t)
  BY FS_Subset
<1> HIDE DEF h
<1>5. ASSUME NEW s \in SUBSET m, s # {}
      PROVE  h(P(s))[P(s)] = F[P(s)]
  <2> DEFINE r == P(s)
  <2>1. r \in SUBSET m /\ r # m
    BY <1>4, <1>5, NewestIsLast
  <2>2. CASE r = {}
    <3>1. Folds(h(r), e, r) /\ F[r] = Blank
      BY <1>3, <2>1, <2>2
    <3>2. h(r)[r] = Blank
      <4> HIDE DEF r
      <4> QED BY <2>2, <3>1 DEF Folds
    <3> QED BY <3>1, <3>2
  <2>3. CASE r # {}
    <3> DEFINE q == P(r)
    <3>1. q \in SUBSET m /\ q # m /\ q \in SUBSET r
      BY <1>4, <2>1, <2>3, NewestIsLast
    <3>2. h(r)[q] = h(q)[q]
      <4>1. Folds(h(r), e, r) /\ Folds(h(q), e, q)
        BY <1>3, <2>1, <3>1
      <4> HIDE DEF r, q
      <4> QED BY <1>4, <2>1, <3>1, <4>1, FoldsAgree
    <3>3. h(r)[r] = Apply(h(r)[q], e[Newest(e, r)])
      <4>1. Folds(h(r), e, r) /\ r \in SUBSET r
        BY <1>3, <2>1
      <4> HIDE DEF r
      <4> QED BY <2>3, <4>1, FoldsStep
    <3>4. F[r] = Apply(h(q)[q], e[Newest(e, r)])
      BY <2>1, <2>3
    <3> QED BY <3>2, <3>3, <3>4
  <2> QED BY <2>2, <2>3
<1>6. Folds(F, e, m)
  BY <1>5 DEF Folds
<1> QED BY <1>2, <1>6

\* What is replayed is that function.
LEMMA ReplayFolds ==
  ASSUME NEW e, Sorted(e), NEW S \in SUBSET DOMAIN e, IsFiniteSet(S)
  PROVE  \E f : Folds(f, e, S) /\ Replay(e, S) = f[S]
<1> DEFINE G(f) == f = [s \in SUBSET S |->
                          IF s = {} THEN Blank
                          ELSE Apply(f[s \ {Newest(e, s)}], e[Newest(e, s)])]
<1>1. \A f : Folds(f, e, S) <=> G(f)
  BY DEF Folds
<1>2. \E f : G(f)
  <2> HIDE DEF G
  <2> QED BY <1>1, FoldsExist
<1>3. Replay(e, S) = (CHOOSE f : G(f))[S]
  BY DEF Replay, MapThenFoldSet
<1>4. G(CHOOSE f : G(f))
  <2> HIDE DEF G
  <2> QED BY <1>2
<1> HIDE DEF G
<1> QED BY <1>1, <1>3, <1>4

\* The image of trails that agree is the same.
LEMMA ReplayAgree ==
  ASSUME NEW d, NEW e, Sorted(d), Sorted(e),
         NEW S \in SUBSET ((DOMAIN d) \cap (DOMAIN e)), IsFiniteSet(S),
         \A i \in S : d[i] = e[i]
  PROVE  Replay(d, S) = Replay(e, S)
<1>1. PICK f : Folds(f, d, S) /\ Replay(d, S) = f[S]
  BY ReplayFolds
<1>2. PICK g : Folds(g, e, S) /\ Replay(e, S) = g[S]
  BY ReplayFolds
<1>3. f[S] = g[S]
  BY <1>1, <1>2, FoldsAgree
<1> QED BY <1>1, <1>2, <1>3

\* The newest entry is applied last.
LEMMA ReplayStep ==
  ASSUME NEW e, Sorted(e), NEW S \in SUBSET DOMAIN e, IsFiniteSet(S), S # {}
  PROVE  Replay(e, S) = Apply(Replay(e, S \ {Newest(e, S)}), e[Newest(e, S)])
<1> DEFINE P == S \ {Newest(e, S)}
<1>1. PICK f : Folds(f, e, S) /\ Replay(e, S) = f[S]
  BY ReplayFolds
<1>2. P \in SUBSET S /\ IsFiniteSet(P)
  BY FS_Subset
<1>3. PICK g : Folds(g, e, P) /\ Replay(e, P) = g[P]
  BY <1>2, ReplayFolds
<1>4. f[P] = g[P]
  <2> HIDE DEF P
  <2> QED BY <1>1, <1>2, <1>3, FoldsAgree
<1>5. f[S] = Apply(f[P], e[Newest(e, S)])
  BY <1>1, FoldsStep
<1> QED BY <1>1, <1>3, <1>4, <1>5

\* What an empty history says.
LEMMA ReplayNothing == ASSUME NEW e, Sorted(e) PROVE Replay(e, {}) = Blank
<1>1. PICK f : Folds(f, e, {}) /\ Replay(e, {}) = f[{}]
  BY ReplayFolds, FS_EmptySet
<1> QED BY <1>1 DEF Folds

-----------------------------------------------------------------------------
(* The trail and the row.                                                  *)

Entries == [action  : {"insert", "update", "delete"},
            changed : {Changed(q, r) : q \in Rows \cup {None}, r \in Rows \cup {None}},
            at      : Nat]

\* What the whole trail replays to.
Image == [image |-> IF row = None THEN <<>> ELSE row,
          gone  |-> row = None /\ trail # <<>>]

\* Entries are stamped one after the other and before the clock, and whoever
\* holds the row has stamped after all of them.
TrailInv ==
  /\ trail \in Seq(Entries) /\ Sorted(trail)
  /\ \A i \in DOMAIN trail : 0 < trail[i].at /\ trail[i].at <= clock
  /\ \A w \in Writers :
       txn[w].pc = "wrote" =>
         /\ 0 < txn[w].at /\ txn[w].at <= clock
         /\ \A i \in DOMAIN trail : trail[i].at < txn[w].at
         /\ row = None => trail = <<>> /\ txn[w].after # None
  /\ row # None => trail # <<>>
  /\ Replay(trail, DOMAIN trail) = Image

\* A transaction begins or gives up, writes, or commits.
LEMMA StepKinds ==
  ASSUME IInv, [Next]_vars
  PROVE  \/ /\ UNCHANGED <<row, trail, clock>>
            /\ \A w \in Writers : txn'[w].pc = "wrote" => txn'[w] = txn[w]
         \/ \E w \in Writers, after \in Rows \cup {None} :
              Write(w, after) /\ (row = None => clock = 0 /\ after # None)
         \/ \E w \in Writers : Commit(w)
<1>1. ASSUME NEW w \in Writers, Begin(w) \/ Rollback(w)
      PROVE  /\ UNCHANGED <<row, trail, clock>>
             /\ \A v \in Writers : txn'[v].pc = "wrote" => txn'[v] = txn[v]
  BY <1>1 DEF IInv, RowsTyped, Begin, Rollback, Idle
<1>2. ASSUME NEW w \in Writers, NEW t \in Terms, Insert(w, t)
      PROVE  \E after \in Rows \cup {None} :
               Write(w, after) /\ (row = None => clock = 0 /\ after # None)
  <2>1. Created(t) \in Rows
    BY DEF Created, Rows, Statuses
  <2> QED BY <1>2, <2>1, RowAssumption DEF Insert
<1>3. ASSUME NEW w \in Writers, NEW to \in Decisions, Decide(w, to)
      PROVE  row # None /\ \E after \in Rows \cup {None} : Write(w, after)
  BY <1>3, DecideReplaces
<1>4. ASSUME NEW w \in Writers, NEW b \in Bodies, NEW fields \in SUBSET Fields,
             Put(w, b) \/ Patch(w, fields, b)
      PROVE  row # None /\ \E after \in Rows \cup {None} : Write(w, after)
  <2>1. PICK after \in Rows : Save(w, after)
    BY <1>4, EditsAreRows DEF IInv, RowsTyped, Put, Patch
  <2> QED BY <2>1, SaveReplaces
<1>5. ASSUME NEW w \in Writers, NEW deleted \in BOOLEAN, Restamp(w, deleted)
      PROVE  row # None /\ \E after \in Rows \cup {None} : Write(w, after)
  BY <1>5, RestampReplaces
<1>6. ASSUME NEW w \in Writers, Purge(w)
      PROVE  row # None /\ \E after \in Rows \cup {None} : Write(w, after)
  BY <1>6 DEF Purge
<1>7. ASSUME NEW w \in Writers, NEW b \in Bodies, Put(w, b)
      PROVE  row # None /\ \E after \in Rows \cup {None} : Write(w, after)
  BY <1>4, <1>7 DEF Fields
<1>8. ASSUME NEW w \in Writers, GenericWrite(w)
      PROVE  \E after \in Rows \cup {None} :
               Write(w, after) /\ (row = None => clock = 0 /\ after # None)
  <2>1. CASE \E t \in Terms : Insert(w, t)
    BY <1>2, <2>1
  <2>2. CASE ~ \E t \in Terms : Insert(w, t)
    BY <1>4, <1>5, <1>6, <1>7, <1>8, <2>2 DEF GenericWrite
  <2> QED BY <2>1, <2>2
<1>9. CASE UNCHANGED vars
  BY <1>9 DEF vars
<1> QED BY <1>1, <1>3, <1>8, <1>9 DEF Next

\* A step that writes nothing leaves the trail.
LEMMA QuietTrailInv ==
  ASSUME TrailInv, UNCHANGED <<row, trail, clock>>,
         \A w \in Writers : txn'[w].pc = "wrote" => txn'[w] = txn[w]
  PROVE  TrailInv'
<1>1. Image' = Image
  BY DEF Image
<1> QED BY <1>1 DEF TrailInv

\* A write stamps after every entry there is.
LEMMA WriteTrailInv ==
  ASSUME IInv, TrailInv, NEW w \in Writers, NEW after \in Rows \cup {None}, Write(w, after),
         row = None => clock = 0 /\ after # None
  PROVE  TrailInv'
<1>1. /\ UNCHANGED <<row, trail>> /\ clock' = clock + 1 /\ clock \in Nat
      /\ txn'[w].after = after /\ txn'[w].at = clock + 1
      /\ \A v \in Writers : txn'[v].pc = "wrote" => v = w
  BY DEF IInv, RowsTyped, Write, Stamped, Locked
<1>2. \A i \in DOMAIN trail : trail[i].at \in Nat /\ 0 < trail[i].at /\ trail[i].at <= clock
  BY DEF TrailInv, Sorted
<1>3. row = None => trail = <<>>
  <2>1. SUFFICES ASSUME row = None PROVE trail = <<>>
    OBVIOUS
  <2>2. clock = 0
    BY <2>1
  <2>3. DOMAIN trail = {}
    <3>1. ASSUME NEW i \in DOMAIN trail PROVE FALSE
      <4>1. trail[i].at \in Nat /\ 0 < trail[i].at /\ trail[i].at <= 0
        BY <1>2, <2>2
      <4> QED BY <4>1
    <3> QED BY <3>1
  <2> QED BY <2>3 DEF TrailInv
<1>4. Image' = Image
  BY <1>1 DEF Image
<1> QED BY <1>1, <1>2, <1>3, <1>4 DEF TrailInv

\* An entry over the row before it gives the row after it.
LEMMA ApplyEntry ==
  ASSUME IInv, TrailInv, NEW w \in Writers, Commit(w)
  PROVE  Apply(Image, Entry(w)) = Image'
<1>1. /\ row \in Rows \cup {None} /\ row' \in Rows \cup {None} /\ row' = txn[w].after
      /\ trail' # <<>> /\ None \notin Rows
      /\ row = None => trail = <<>> /\ row' # None
  BY RowAssumption DEF IInv, RowsTyped, TrailInv, Commit
<1>2. CASE row = None
  <2>1. Changed(row, row') = row' /\ Entry(w).action = "insert" /\ Entry(w).changed = row'
    BY <1>1, <1>2 DEF Changed, Entry, Rows
  <2>2. Over(row', <<>>) = row'
    BY <1>1, <1>2 DEF Over, Rows
  <2> QED BY <1>1, <1>2, <2>1, <2>2 DEF Apply, Image
<1>3. CASE row # None /\ row' = None
  BY <1>1, <1>3 DEF Apply, Image, Entry
<1>4. CASE row # None /\ row' # None
  <2>1. /\ Entry(w).action = "update"
        /\ Entry(w).changed = [f \in {g \in DOMAIN row' : row[g] # row'[g]} |-> row'[f]]
    BY <1>1, <1>4 DEF Changed, Entry
  <2>2. Over(Entry(w).changed, row) = row'
    BY <1>1, <1>4, <2>1 DEF Over, Rows
  <2> QED BY <1>1, <1>4, <2>1, <2>2 DEF Apply, Image
<1> QED BY <1>2, <1>3, <1>4

\* A commit adds the newest entry, which takes the image from row to row.
LEMMA CommitTrailInv ==
  ASSUME IInv, TrailInv, NEW w \in Writers, Commit(w)
  PROVE  TrailInv'
<1> DEFINE n == Len(trail)
<1>1. /\ trail \in Seq(Entries) /\ trail' = Append(trail, Entry(w)) /\ Entry(w) \in Entries
      /\ UNCHANGED clock /\ row' = txn[w].after /\ Entry(w).at = txn[w].at
  <2>1. row \in Rows \cup {None} /\ txn[w].after \in Rows \cup {None} /\ txn[w].at \in Nat
    BY DEF IInv, RowsTyped
  <2>2. Changed(row, txn[w].after)
          \in {Changed(q, r) : q \in Rows \cup {None}, r \in Rows \cup {None}}
    BY <2>1
  <2>3. Entry(w) \in Entries /\ Entry(w).at = txn[w].at
    BY <2>1, <2>2 DEF Entry, Entries
  <2> QED BY <2>3 DEF TrailInv, Commit
<1>2. /\ n \in Nat /\ DOMAIN trail = 1 .. n /\ DOMAIN trail' = 1 .. n + 1
      /\ trail' \in Seq(Entries) /\ trail'[n + 1] = Entry(w)
      /\ \A i \in DOMAIN trail : trail'[i] = trail[i]
  BY <1>1
<1>3. /\ 0 < Entry(w).at /\ Entry(w).at <= clock /\ Entry(w).at \in Nat
      /\ \A i \in DOMAIN trail : trail[i].at < Entry(w).at
  BY <1>1 DEF TrailInv, Commit, Entries
<1> HIDE DEF n
<1>4. Sorted(trail')
  BY <1>2, <1>3 DEF TrailInv, Sorted
<1>5. \A v \in Writers : txn'[v].pc # "wrote"
  BY DEF IInv, RowsTyped, HolderIsAlone, Commit, Idle
<1>6. Replay(trail', DOMAIN trail') = Image'
  <2> DEFINE S == DOMAIN trail'
  <2>0. \A m \in Nat : IsFiniteSet(1 .. m)
    BY FS_Interval
  <2>2. /\ S \ {n + 1} = DOMAIN trail /\ n + 1 \in S /\ S # {}
        /\ IsFiniteSet(S) /\ IsFiniteSet(DOMAIN trail)
    BY <1>2, <2>0
  <2>1. Newest(trail', S) = n + 1
    <3>1. Newest(trail', S) \in S /\ n + 1 <= Newest(trail', S)
      BY <1>4, <2>2, NewestIsLast
    <3> QED BY <1>2, <3>1
  <2>3. Replay(trail', S) = Apply(Replay(trail', DOMAIN trail), Entry(w))
    BY <1>2, <1>4, <2>1, <2>2, ReplayStep
  <2>4. Replay(trail', DOMAIN trail) = Replay(trail, DOMAIN trail)
    BY <1>2, <1>4, <2>2, ReplayAgree DEF TrailInv
  <2> QED BY <2>3, <2>4, ApplyEntry DEF TrailInv
<1>7. \A i \in DOMAIN trail' : 0 < trail'[i].at /\ trail'[i].at <= clock'
  BY <1>1, <1>2, <1>3 DEF TrailInv
<1>8. trail' # <<>>
  BY <1>2
<1> QED BY <1>2, <1>4, <1>5, <1>6, <1>7, <1>8 DEF TrailInv

\* Every step keeps the trail in line with the row.
LEMMA NextTrailInv == IInv /\ TrailInv /\ [Next]_vars => TrailInv'
<1> SUFFICES ASSUME IInv, TrailInv, [Next]_vars PROVE TrailInv'
  OBVIOUS
<1> QED BY StepKinds, QuietTrailInv, WriteTrailInv, CommitTrailInv

\* TrailInv is an invariant.
LEMMA TrailAlways == Spec => [](IInv /\ TrailInv)
<1>1. Init => TrailInv
  <2> SUFFICES ASSUME Init PROVE TrailInv
    OBVIOUS
  <2>1. trail = <<>> /\ DOMAIN trail = {} /\ trail \in Seq(Entries) /\ Sorted(trail)
    BY DEF Init, Sorted
  <2>2. Replay(trail, DOMAIN trail) = Image
    BY <2>1, ReplayNothing DEF Init, Image, Blank
  <2> QED BY <2>1, <2>2 DEF Init, TrailInv, Idle
<1> QED BY <1>1, InitIInv, NextIInv, NextTrailInv, PTL DEF Spec

\* The image of now is the row, whatever was written, deleted, restored and
\* purged on the way.
THEOREM HistoryShowsTheRow == Spec => []ImageIsTheRow
<1>1. IInv /\ TrailInv => ImageIsTheRow
  <2> SUFFICES ASSUME IInv, TrailInv PROVE ImageIsTheRow
    OBVIOUS
  <2>1. Past(clock) = DOMAIN trail
    BY DEF TrailInv, Past
  <2>2. trail = <<>> <=> DOMAIN trail = {}
    BY DEF TrailInv
  <2>3. AsOf(clock) = IF trail = <<>> THEN "history_before_subject"
                      ELSE IF Image.gone THEN "subject_deleted_before_as_of" ELSE Image.image
    BY <2>1, <2>2 DEF TrailInv, AsOf
  <2>4. row # None => trail # <<>>
    BY DEF TrailInv
  <2> QED BY <2>3, <2>4 DEF Image, ImageIsTheRow
<1> QED BY <1>1, TrailAlways, PTL

\* A later entry leaves what the history said of an instant before it.
LEMMA CommitKeepsImages ==
  ASSUME IInv, TrailInv, NEW w \in Writers, Commit(w)
  PROVE  /\ \A i \in DOMAIN trail : Position(i)' = Position(i)
         /\ \A t \in 0 .. clock : Settled(t) => Settled(t)' /\ AsOf(t)' = AsOf(t)
<1> DEFINE n == Len(trail)
<1>1. trail' = Append(trail, Entry(w)) /\ Entry(w).at = txn[w].at /\ trail \in Seq(Entries)
  BY DEF TrailInv, Commit, Entry
<1>2. /\ n \in Nat /\ DOMAIN trail = 1 .. n /\ DOMAIN trail' = 1 .. n + 1
      /\ trail'[n + 1].at = txn[w].at /\ \A i \in DOMAIN trail : trail'[i] = trail[i]
  BY <1>1
<1>3. txn[w].pc = "wrote" /\ txn[w].at \in Nat /\ \A i \in DOMAIN trail : trail[i].at < txn[w].at
  BY DEF TrailInv, Commit, IInv, RowsTyped
<1> HIDE DEF n
<1>4. ASSUME NEW t \in Nat, t < txn[w].at PROVE Past(t)' = Past(t)
  BY <1>2, <1>3, <1>4 DEF Past
<1>5. Sorted(trail) /\ Sorted(trail')
  BY CommitTrailInv DEF TrailInv
<1>6. ASSUME NEW i \in DOMAIN trail PROVE Position(i)' = Position(i)
  <2>1. trail[i].at \in Nat /\ trail'[i].at = trail[i].at /\ trail[i].at < txn[w].at
    BY <1>2, <1>3, <1>5 DEF Sorted
  <2>2. Past(trail[i].at)' = Past(trail[i].at)
    BY <1>2, <1>3, <2>1 DEF Past
  <2> QED BY <2>2 DEF Position
<1>7. ASSUME NEW t \in 0 .. clock, Settled(t) PROVE Settled(t)' /\ AsOf(t)' = AsOf(t)
  <2>1. t \in Nat /\ t < txn[w].at
    BY <1>3, <1>7 DEF Settled, IInv, RowsTyped
  <2>2. Settled(t)'
    BY <1>7 DEF Settled, Commit, IInv, RowsTyped, Idle
  <2>3. Past(t)' = Past(t) /\ Past(t) \subseteq DOMAIN trail /\ Past(t) \subseteq DOMAIN trail'
    BY <1>2, <1>4, <2>1 DEF Past
  <2>4. IsFiniteSet(Past(t))
    <3>1. IsFiniteSet(DOMAIN trail)
      BY <1>2, FS_Interval
    <3> QED BY <2>3, <3>1, FS_Subset
  <2>5. Replay(trail', Past(t)) = Replay(trail, Past(t))
    BY <1>2, <1>5, <2>3, <2>4, ReplayAgree
  <2> QED BY <2>2, <2>3, <2>5 DEF AsOf
<1> QED BY <1>6, <1>7

\* What the history says is final once those who had written have ended.
THEOREM HistoryStays == Spec => HistoryIsFinal
<1> DEFINE A == /\ \A i \in DOMAIN trail : Position(i)' = Position(i)
                /\ \A t \in 0 .. clock : Settled(t) => Settled(t)' /\ AsOf(t)' = AsOf(t)
<1>1. ASSUME IInv, TrailInv, [Next]_vars PROVE A
  <2>1. ASSUME UNCHANGED <<row, trail, clock>>,
               \A w \in Writers : txn'[w].pc = "wrote" => txn'[w] = txn[w]
        PROVE  A
    BY <2>1 DEF Position, Past, Settled, AsOf
  <2>2. ASSUME NEW w \in Writers, NEW after, Write(w, after) PROVE A
    <3>1. UNCHANGED trail /\ \A t : Past(t)' = Past(t)
      BY <2>2 DEF Write, Past
    <3>2. /\ clock' = clock + 1 /\ txn'[w].at = clock + 1 /\ clock \in Nat
          /\ \A v \in Writers \ {w} : txn'[v] = txn[v]
      BY <1>1, <2>2 DEF Write, Stamped, IInv, RowsTyped
    <3>3. \A t \in 0 .. clock : Settled(t) => Settled(t)'
      BY <3>2 DEF Settled
    <3> QED BY <3>1, <3>3 DEF Position, AsOf
  <2>3. ASSUME NEW w \in Writers, Commit(w) PROVE A
    BY <1>1, <2>3, CommitKeepsImages
  <2> QED BY <1>1, <2>1, <2>2, <2>3, StepKinds
<1>2. IInv /\ TrailInv /\ [Next]_vars =>
        [/\ \A i \in DOMAIN trail : Position(i)' = Position(i)
         /\ \A t \in 0 .. clock : Settled(t) => Settled(t)' /\ AsOf(t)' = AsOf(t)]_vars
  BY <1>1
<1> QED BY <1>2, TrailAlways, PTL DEF Spec, HistoryIsFinal
=============================================================================
