------------------------ MODULE MCGaugeController -------------------------
(***************************************************************************)
(* Weeks of 2 and locks of at most 3.  The voting runs have two users and  *)
(* no emissions, the emission runs one user and two gauges.                *)
(***************************************************************************)
EXTENDS GaugeController, TLC

CONSTANTS u1, u2, g1, g2

OneUser == {u1}
TwoUsers == {u1, u2}
OneGauge == {g1}
TwoGauges == {g1, g2}
MCValues == {6}
AllOrNothing == {0, 2}
NoneOrHalf == {0, 1}
FullAdjustment == {4}
TwoAdjustments == {2, 6}
UserSymmetry == Permutations(TwoUsers)
GaugeSymmetry == Permutations(TwoGauges)
=============================================================================
