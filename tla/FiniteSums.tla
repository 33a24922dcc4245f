----------------------------- MODULE FiniteSums -----------------------------
(***************************************************************************)
(* Sums over finite sets, for the ledgers of the proofs.  MapThenSumSet is *)
(* a recursive function over the subsets of the set; that the recursion    *)
(* has a solution, and that the sum does not depend on the order in which  *)
(* elements are taken, is shown with minimal counterexamples under strict  *)
(* inclusion, in place of an induction principle.                          *)
(***************************************************************************)
EXTENDS Integers, FiniteSets, FiniteSetsExt, FiniteSetTheorems, WellFoundedInduction, TLAPS

\* The sum of w[x] for x \in S.
Total(w, S) == MapThenSumSet(LAMBDA x : w[x], S)

\* The element a fold takes first.
Pick(s) == CHOOSE x \in s : TRUE

\* f is the sum of w over every subset of S.
Tallies(f, w, S) ==
  f = [s \in SUBSET S |-> IF s = {} THEN 0 ELSE w[Pick(s)] + f[s \ {Pick(s)}]]

-----------------------------------------------------------------------------
(* The recursion.                                                          *)

\* The element picked is one of the set.
LEMMA PickIn == ASSUME NEW s, s # {} PROVE Pick(s) \in s
BY DEF Pick

\* A set of subsets of a finite set has a minimal member.
LEMMA SmallestSubset ==
  ASSUME NEW S, IsFiniteSet(S), NEW B, B \subseteq SUBSET S, B # {}
  PROVE  \E m \in B : \A t \in B : t \subseteq m => t = m
<1>1. IsWellFoundedOn(StrictSubsetOrdering(S), SUBSET S)
  BY FS_StrictSubsetOrderingWellFounded, FS_FiniteSubsetsOfFinite
<1>2. PICK m \in B : \A t \in B : ~ (<<t, m>> \in StrictSubsetOrdering(S))
  BY <1>1, WFMin
<1>3. \A t \in B : t \subseteq m => t = m
  BY <1>2 DEF StrictSubsetOrdering
<1> QED BY <1>3

\* One step of the recursion.
LEMMA TalliesStep ==
  ASSUME NEW f, NEW w, NEW S, Tallies(f, w, S), NEW s \in SUBSET S
  PROVE  f[s] = IF s = {} THEN 0 ELSE w[Pick(s)] + f[s \ {Pick(s)}]
BY DEF Tallies

\* The recursion has one solution,
LEMMA TalliesAgree ==
  ASSUME NEW f, NEW g, NEW w, NEW S, NEW T, IsFiniteSet(S), IsFiniteSet(T),
         Tallies(f, w, S), Tallies(g, w, T)
  PROVE  \A r \in (SUBSET S) \cap (SUBSET T) : f[r] = g[r]
<1> DEFINE B == {r \in SUBSET S : r \in SUBSET T /\ f[r] # g[r]}
<1>1. SUFFICES ASSUME B # {} PROVE FALSE
  OBVIOUS
<1>a. B \subseteq SUBSET S
  OBVIOUS
<1>2. PICK m \in B : \A t \in B : t \subseteq m => t = m
  <2> HIDE DEF B
  <2> QED BY <1>1, <1>a, SmallestSubset
<1>b. m \in SUBSET S /\ m \in SUBSET T
  OBVIOUS
<1>3. m # {}
  BY <1>b, TalliesStep
<1>4. Pick(m) \in m
  BY <1>3, PickIn
<1>5. f[m \ {Pick(m)}] = g[m \ {Pick(m)}]
  BY <1>2, <1>4
<1>6. f[m] = w[Pick(m)] + f[m \ {Pick(m)}] /\ g[m] = w[Pick(m)] + g[m \ {Pick(m)}]
  BY <1>b, <1>3, TalliesStep
<1> QED BY <1>5, <1>6

\* and has it for every finite set.
LEMMA TalliesExist ==
  ASSUME NEW w, NEW S, IsFiniteSet(S)
  PROVE  \E f : Tallies(f, w, S)
<1> DEFINE B == {r \in SUBSET S : ~ \E f : Tallies(f, w, r)}
<1>1. SUFFICES ASSUME B # {} PROVE FALSE
  OBVIOUS
<1>a. B \subseteq SUBSET S
  OBVIOUS
<1>2. PICK m \in B : \A t \in B : t \subseteq m => t = m
  <2> HIDE DEF B
  <2> QED BY <1>1, <1>a, SmallestSubset
<1> DEFINE h(t) == CHOOSE f : Tallies(f, w, t)
           F == [s \in SUBSET m |-> IF s = {} THEN 0 
                    ELSE w[Pick(s)] + h(s \ {Pick(s)})[s \ {Pick(s)}]]
<1>3. \A t \in SUBSET m : t # m => Tallies(h(t), w, t)
  <2>1. SUFFICES ASSUME NEW t \in SUBSET m, t # m PROVE Tallies(h(t), w, t)
    OBVIOUS
  <2>2. \E f : Tallies(f, w, t)
    BY <1>2, <2>1
  <2> QED BY <2>2
<1>4. \A t \in SUBSET m : IsFiniteSet(t)
  BY FS_Subset
<1> HIDE DEF h
<1>5. ASSUME NEW s \in SUBSET m, s # {} 
      PROVE  h(s \ {Pick(s)})[s \ {Pick(s)}] = F[s \ {Pick(s)}]
  <2> DEFINE r == s \ {Pick(s)}
  <2>1. r \in SUBSET m /\ r # m
    BY <1>5, PickIn
  <2>2. CASE r = {}
    BY <1>3, <2>1, <2>2, TalliesStep
  <2>3. CASE r # {}
    <3> DEFINE q == r \ {Pick(r)}
    <3>1. q \in SUBSET m /\ q # m /\ q \in SUBSET r
      BY <2>1
    <3>2. h(r)[q] = h(q)[q]
      BY <1>3, <1>4, <2>1, <3>1, TalliesAgree
    <3>3. Tallies(h(r), w, r) /\ r \in SUBSET r
      BY <1>3, <2>1
    <3>5. h(r)[r] = w[Pick(r)] + h(r)[q]
      <4> HIDE DEF r
      <4> QED BY <2>3, <3>3, TalliesStep
    <3>4. F[r] = w[Pick(r)] + h(q)[q]
      BY <2>1, <2>3
    <3> QED BY <3>2, <3>5, <3>4
  <2> QED BY <2>2, <2>3
<1>6. Tallies(F, w, m)
  BY <1>5 DEF Tallies
<1> QED BY <1>2, <1>6

\* What the fold computes is that function.
LEMMA FoldTallies ==
  ASSUME NEW w, NEW S, IsFiniteSet(S)
  PROVE  \E f : Tallies(f, w, S) /\ Total(w, S) = f[S]
<1> DEFINE G(f) == f = [s \in SUBSET S |->
                          IF s = {} THEN 0
                          ELSE w[CHOOSE x \in s : TRUE] + f[s \ {CHOOSE x \in s : TRUE}]]
<1>1. \A f : Tallies(f, w, S) <=> G(f)
  BY DEF Tallies, Pick
<1>2. \E f : G(f)
  <2> HIDE DEF G
  <2> QED BY <1>1, TalliesExist
<1>3. Total(w, S) = (CHOOSE f : G(f))[S]
  BY DEF Total, MapThenSumSet, MapThenFoldSet
<1>4. G(CHOOSE f : G(f))
  <2> HIDE DEF G
  <2> QED BY <1>2
<1> HIDE DEF G
<1> QED BY <1>1, <1>3, <1>4

\* A sum is what the recursion over any larger set gives.
LEMMA TotalTallies ==
  ASSUME NEW f, NEW w, NEW S, IsFiniteSet(S), Tallies(f, w, S), NEW T \in SUBSET S
  PROVE  Total(w, T) = f[T]
<1>1. IsFiniteSet(T)
  BY FS_Subset
<1>2. PICK g : Tallies(g, w, T) /\ Total(w, T) = g[T]
  BY <1>1, FoldTallies
<1> QED BY <1>1, <1>2, TalliesAgree

-----------------------------------------------------------------------------
(* What a sum is.                                                          *)

\* A sum is an element and the sum of the rest,
LEMMA TotalStep ==
  ASSUME NEW w, NEW S, IsFiniteSet(S)
  PROVE  Total(w, S) = IF S = {} THEN 0 ELSE w[Pick(S)] + Total(w, S \ {Pick(S)})
<1>1. PICK f : Tallies(f, w, S)
  BY TalliesExist
<1>2. Total(w, S) = f[S] /\ Total(w, S \ {Pick(S)}) = f[S \ {Pick(S)}]
  BY <1>1, TotalTallies
<1>3. f[S] = IF S = {} THEN 0 ELSE w[Pick(S)] + f[S \ {Pick(S)}]
  BY <1>1, TalliesStep
<1> QED BY <1>2, <1>3

\* a number when its terms are,
LEMMA TotalInt ==
  ASSUME NEW w, NEW S, IsFiniteSet(S), \A x \in S : w[x] \in Int
  PROVE  Total(w, S) \in Int
<1> DEFINE B == {r \in SUBSET S : Total(w, r) \notin Int}
<1>1. SUFFICES ASSUME B # {} PROVE FALSE
  BY FS_Subset
<1>2. B \subseteq SUBSET S
  OBVIOUS
<1>3. PICK m \in B : \A t \in B : t \subseteq m => t = m
  <2> HIDE DEF B
  <2> QED BY <1>1, <1>2, SmallestSubset
<1>4. IsFiniteSet(m) /\ m \subseteq S
  BY FS_Subset
<1>5. m # {} /\ Pick(m) \in m
  BY <1>4, TotalStep, PickIn
<1>6. Total(w, m \ {Pick(m)}) \in Int /\ w[Pick(m)] \in Int
  BY <1>3, <1>4, <1>5
<1>7. Total(w, m) \in Int
  BY <1>4, <1>5, <1>6, TotalStep
<1> QED BY <1>7

\* The order does not matter: any element can be taken out first.
LEMMA TotalRemove ==
  ASSUME NEW w, NEW S, IsFiniteSet(S), \A x \in S : w[x] \in Int, NEW x \in S
  PROVE  Total(w, S) = w[x] + Total(w, S \ {x})
<1> DEFINE B == {r \in SUBSET S : \E y \in r : Total(w, r) # w[y] + Total(w, r \ {y})}
<1>1. SUFFICES ASSUME B # {} PROVE FALSE
  OBVIOUS
<1>2. B \subseteq SUBSET S
  OBVIOUS
<1>3. PICK m \in B : \A t \in B : t \subseteq m => t = m
  <2> HIDE DEF B
  <2> QED BY <1>1, <1>2, SmallestSubset
<1>4. PICK y \in m : Total(w, m) # w[y] + Total(w, m \ {y})
  OBVIOUS
<1> DEFINE p == Pick(m)
<1>5. IsFiniteSet(m) /\ m \subseteq S /\ p \in m
  BY FS_Subset, PickIn, <1>4
<1>6. Total(w, m) = w[p] + Total(w, m \ {p})
  BY <1>4, <1>5, TotalStep
<1>7. p # y
  BY <1>4, <1>6
<1>a. ASSUME NEW u \in m, NEW v \in m, u # v
      PROVE  Total(w, m \ {u}) = w[v] + Total(w, (m \ {u}) \ {v})
  <2>1. m \ {u} \in SUBSET S /\ m \ {u} # m /\ v \in m \ {u}
    BY <1>5, <1>a
  <2>2. m \ {u} \notin B
    <3> HIDE DEF B
    <3> QED BY <1>3, <2>1
  <2> QED BY <2>1, <2>2
<1>8. Total(w, m \ {p}) = w[y] + Total(w, (m \ {p}) \ {y})
  BY <1>a, <1>5, <1>7
<1>9. Total(w, m \ {y}) = w[p] + Total(w, (m \ {y}) \ {p})
  BY <1>a, <1>5, <1>7
<1>10. (m \ {p}) \ {y} = (m \ {y}) \ {p} /\ IsFiniteSet((m \ {p}) \ {y})
  BY <1>5, FS_Subset
<1>11. w[p] \in Int /\ w[y] \in Int /\ Total(w, (m \ {p}) \ {y}) \in Int
  BY <1>5, <1>10, TotalInt
<1> HIDE DEF p, B
<1>12. Total(w, (m \ {y}) \ {p}) = Total(w, (m \ {p}) \ {y})
  BY <1>10
<1>13. Total(w, m) = w[y] + Total(w, m \ {y})
  BY <1>6, <1>8, <1>9, <1>12, <1>11
<1> QED BY <1>4, <1>13

\* Nothing adds up to nothing.
LEMMA TotalEmpty == \A w : Total(w, {}) = 0
BY FS_EmptySet, TotalStep

\* One element more adds its term.
LEMMA TotalAdd ==
  ASSUME NEW w, NEW S, IsFiniteSet(S), \A y \in S : w[y] \in Int,
         NEW x, x \notin S, w[x] \in Int
  PROVE  Total(w, S \cup {x}) = w[x] + Total(w, S)
<1>1. IsFiniteSet(S \cup {x}) /\ (S \cup {x}) \ {x} = S
  BY FS_AddElement
<1> QED BY <1>1, TotalRemove

\* Two functions that agree on a set have one sum over it.
LEMMA TotalSame ==
  ASSUME NEW v, NEW w, NEW S, IsFiniteSet(S), \A x \in S : v[x] = w[x]
  PROVE  Total(v, S) = Total(w, S)
<1> DEFINE B == {r \in SUBSET S : Total(v, r) # Total(w, r)}
<1>1. SUFFICES ASSUME B # {} PROVE FALSE
  OBVIOUS
<1>2. B \subseteq SUBSET S
  OBVIOUS
<1>3. PICK m \in B : \A t \in B : t \subseteq m => t = m
  <2> HIDE DEF B
  <2> QED BY <1>1, <1>2, SmallestSubset
<1>4. IsFiniteSet(m) /\ m \subseteq S
  BY FS_Subset
<1>5. m # {} /\ Pick(m) \in m
  BY <1>4, TotalStep, PickIn
<1>6. Total(v, m \ {Pick(m)}) = Total(w, m \ {Pick(m)}) /\ v[Pick(m)] = w[Pick(m)]
  BY <1>3, <1>4, <1>5
<1>7. Total(v, m) = Total(w, m)
  BY <1>4, <1>5, <1>6, TotalStep
<1> QED BY <1>7

\* A sum of naturals bounds the sum of every part, and is not negative.
LEMMA TotalPart ==
  ASSUME NEW w, NEW S, IsFiniteSet(S), \A x \in S : w[x] \in Nat, NEW T \in SUBSET S
  PROVE  0 <= Total(w, T) /\ Total(w, T) <= Total(w, S)
<1>1. \A x \in S : w[x] \in Int
  OBVIOUS
<1>2. ASSUME NEW r \in SUBSET S PROVE IsFiniteSet(r) /\ Total(w, r) \in Int
  BY <1>1, FS_Subset, TotalInt
<1> DEFINE B == {r \in SUBSET S :
                  \E t \in SUBSET r : ~(0 <= Total(w, t) /\ Total(w, t) <= Total(w, r))}
<1>3. SUFFICES ASSUME B # {} PROVE FALSE
  OBVIOUS
<1>4. B \subseteq SUBSET S
  OBVIOUS
<1>5. PICK m \in B : \A t \in B : t \subseteq m => t = m
  <2> HIDE DEF B
  <2> QED BY <1>3, <1>4, SmallestSubset
<1>6. PICK t \in SUBSET m : ~(0 <= Total(w, t) /\ Total(w, t) <= Total(w, m))
  OBVIOUS
<1>7. m \in SUBSET S /\ t \in SUBSET S
  OBVIOUS
<1>8. ASSUME NEW x \in m, NEW u \in SUBSET (m \ {x})
      PROVE  0 <= Total(w, u) /\ Total(w, u) <= Total(w, m \ {x})
  <2>1. m \ {x} \in SUBSET S /\ m \ {x} # m
    BY <1>7
  <2>2. m \ {x} \notin B
    <3> HIDE DEF B
    <3> QED BY <1>5, <2>1
  <2> QED BY <2>1, <2>2
<1> HIDE DEF B
<1>9. ASSUME NEW x \in m PROVE Total(w, m) = w[x] + Total(w, m \ {x}) /\ w[x] \in Nat
  BY <1>1, <1>2, <1>7, TotalRemove
<1>10. ASSUME NEW x \in m PROVE Total(w, m \ {x}) \in Int /\ {} \in SUBSET (m \ {x})
  BY <1>2, <1>7
<1>11. CASE m = {}
  <2>1. t = {} /\ Total(w, t) = 0 /\ Total(w, m) = 0
    BY <1>11, TotalEmpty
  <2> QED BY <1>6, <2>1
<1>12. CASE t = m /\ m # {}
  <2>1. PICK x \in m : TRUE
    BY <1>12
  <2>2. 0 <= Total(w, m \ {x}) 
    <3>1. m \ {x} \in SUBSET (m \ {x})
      OBVIOUS
    <3> QED BY <1>8, <3>1
  <2>3. 0 <= Total(w, m) /\ Total(w, m) \in Int
    BY <1>2, <1>7, <1>9, <1>10, <2>2
  <2> QED BY <1>6, <1>12, <2>3
<1>13. CASE t # m
  <2>1. PICK x \in m : t \in SUBSET (m \ {x})
    BY <1>13
  <2>2. 0 <= Total(w, t) /\ Total(w, t) <= Total(w, m \ {x}) /\ Total(w, t) \in Int
    BY <1>2, <1>7, <1>8, <2>1
  <2>3. Total(w, t) <= Total(w, m)
    BY <1>9, <1>10, <2>2
  <2> QED BY <1>6, <2>2, <2>3
<1> QED BY <1>11, <1>12, <1>13
=============================================================================
