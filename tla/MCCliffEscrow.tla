---------------------------- MODULE MCCliffEscrow ----------------------------
(***************************************************************************)
(* The contract and one other user; cliffs within and after a lock.        *)
(***************************************************************************)
EXTENDS CliffEscrow

CONSTANTS cliff, other

TheUsers == {cliff, other}
MCValues == {3, 6}
MCAmounts == {2, 6}
MCUnlockTimes == {5, 8}
=============================================================================
