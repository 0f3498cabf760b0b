-------------------------- MODULE MCVestingEscrow --------------------------
(***************************************************************************)
(* Two users, each of whom may get a cliff escrow.                         *)
(***************************************************************************)
EXTENDS VestingEscrow

CONSTANTS u1, u2, c1, c2

TwoUsers == {u1, u2}
TwoCliffs == {c1, c2}
MCCliffOf == [u \in Users |-> IF u = u1 THEN c1 ELSE c2]
MCAmounts == {4}
=============================================================================
