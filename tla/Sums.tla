-------------------------------- MODULE Sums --------------------------------
(***************************************************************************)
(* The sum of a function over a finite domain: balances by account, votes  *)
(* by gauge, emissions by gauge.                                           *)
(***************************************************************************)
EXTENDS FiniteSetsExt

Total(f) == MapThenSumSet(LAMBDA x : f[x], DOMAIN f)
=============================================================================
