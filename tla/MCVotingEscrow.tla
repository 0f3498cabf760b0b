--------------------------- MODULE MCVotingEscrow ---------------------------
(***************************************************************************)
(* Two users, weeks of 2 and a longest lock of 3: like the contract's four *)
(* years, not a whole number of weeks.                                     *)
(***************************************************************************)
EXTENDS VotingEscrow, TLC

CONSTANTS u1, u2

MCUsers == {u1, u2}
MCValues == {4}
Symmetry == Permutations(MCUsers)
=============================================================================
