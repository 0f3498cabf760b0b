---------------------------- MODULE MCFeeVotes -----------------------------
(* FeeVotes with interchangeable markets. *)
EXTENDS FeeVotes, TLC

CONSTANTS wbtc, cbbtc

BTCMarkets == {wbtc, cbbtc}
Symmetry == Permutations(BTCMarkets)
=============================================================================
