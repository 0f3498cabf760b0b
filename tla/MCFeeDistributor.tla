-------------------------- MODULE MCFeeDistributor --------------------------
(***************************************************************************)
(* Weeks of 2 and arrivals spread over 2 of them, two tokens, and two      *)
(* users, one of them the cliff escrow of the other.  Epochs begin at 4    *)
(* and at 6, and claims are at 3, 5 and 7: of none, one or both of them.   *)
(* The first user can claim for both, and nobody else for either, so they  *)
(* can be exchanged in every state.                                        *)
(***************************************************************************)
EXTENDS FeeDistributor, TLC

CONSTANTS u1, u2, t1, t2

TwoUsers == {u1, u2}
OneToken == {t1}
TwoTokens == {t1, t2}
MCValues == {2}
OtherSet == {{t2}}
FiveArrive == {5}
OneOrTwo == {1, 2}
TheCliff == {u2}
BetweenEpochs == {3, 5}
BetweenClaims == {5}
UserSymmetry == Permutations(TwoUsers)
CliffOfFirst == [u \in TwoUsers |-> IF u = u1 THEN u2 ELSE NoCliff]
=============================================================================
