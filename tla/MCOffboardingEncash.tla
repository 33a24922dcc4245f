------------------------ MODULE MCOffboardingEncash ------------------------
(***************************************************************************)
(* Instances of OffboardingEncash for TLC: two rows for one balance of a   *)
(* leaver, two requests that drew on it, two adjustments.                  *)
(***************************************************************************)
EXTENDS OffboardingEncash, TLC

CONSTANTS i1, i2, ka, a1, a2, h1, h2, e1, ada

MCKeyOf   == [a \in Asks |-> ka]
MCAmount  == [a \in Asks |-> IF a = a1 THEN 1 ELSE 2]
MCDeltas  == {1, -1}
MCOwnerOf == [k \in Keys |-> ada]
MCLeaver  == [e \in Events |-> ada]
=============================================================================
