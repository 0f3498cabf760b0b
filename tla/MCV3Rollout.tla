---------------------------- MODULE MCV3Rollout ----------------------------
(***************************************************************************)
(* Two collaterals, so that the market votes have an order and the hybrid  *)
(* limits move from one old market to two new ones.                        *)
(***************************************************************************)
EXTENDS V3Rollout

OneForeign == {1}
=============================================================================
