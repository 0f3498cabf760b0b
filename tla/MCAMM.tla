------------------------------- MODULE MCAMM -------------------------------
(***************************************************************************)
(* A small market.  At the higher price 20 stablecoins of debt against 4   *)
(* LP tokens is the equilibrium; a deposit needs twice its value in        *)
(* allocated stablecoins.                                                  *)
(***************************************************************************)
EXTENDS AMM

MCPrices == {360, 288}
MCAmounts == {4, 20}
MCFracs == {12, 36}
MCRates == {24}
MCFees == {3}
MCLimits == {0, 60}
MCPulls == {20}
=============================================================================
