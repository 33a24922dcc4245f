--------------------------- MODULE MCAccrualWalk ---------------------------
(***************************************************************************)
(* Instances of AccrualWalk for TLC.                                       *)
(***************************************************************************)
EXTENDS AccrualWalk, TLC

CONSTANTS b1, b2, b3, w1, w2

\* Three days every other day, of which one fits, one is kept and one is lost.
Capped == [start |-> 0, every |-> 2, added |-> 3, cap |-> 1, keeps |-> TRUE, most |-> 1]
\* From the third day of the allocation: a day a day, up to three.
Senior == [start |-> 3, every |-> 1, added |-> 1, cap |-> 3, keeps |-> FALSE, most |-> None]
Daily  == [start |-> 0, every |-> 1, added |-> 1, cap |-> None, keeps |-> FALSE, most |-> None]
\* One time three days, of which two fit and the third is lost.
Once   == [start |-> 1, every |-> 0, added |-> 3, cap |-> 2, keeps |-> FALSE, most |-> None]

TwoOrder == <<b1, b2>>
MCOrder  == <<b1, b2, b3>>

\* b3 has no start of its allocation, so no walk grants it anything.
MCFrom == b1 :> 0 @@ b2 :> 1 @@ b3 :> None
MCTo   == b1 :> None @@ b2 :> 3 @@ b3 :> None

MCLadder  == b1 :> <<Capped, Senior>> @@ b2 :> <<Once, Senior>> @@ b3 :> <<Daily>>
\* b2, valid from day 1 to day 3: one time on day 2, a period on day 3, and two
\* periods on day 3 when the first rung was deleted till then.
LiveLadder == b1 :> <<Capped>> @@ b2 :> <<Once, [Senior EXCEPT !.start = 2]>>
DayLadder == b1 :> <<Daily>> @@ b2 :> <<Daily>>
NoEnd     == b1 :> None @@ b2 :> None

\* While runs are under way HR turns a recurring rung into a one-time one, and
\* tries to write a rung that takes days away.
Draft(b, i, l, named) == [of |-> b, sequence |-> i, level |-> l, named |-> named]

MCDrafts ==
  {Draft(b1, 1, [Capped EXCEPT !.start = 1, !.every = 0], {"start", "every"}),
   Draft(b1, 2, [Daily EXCEPT !.added = -3], {"added"})}

\* A rung is deleted and comes back, again and again.
Rebuilt == {Draft(b2, 1, None, {}), Draft(b2, 1, Once, {})}

NoDrafts == {}

MCStarts  == {None, 3}
NoStart   == {None}
NoDeltas  == {}
ClawBack  == {-1}
Gifts     == {1}

\* Runs are alike.
Symmetry == Permutations(Walkers)
=============================================================================
