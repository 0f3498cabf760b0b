----------------------------- MODULE MCRefunds ------------------------------
(* Three holders in two batches. *)
EXTENDS Refunds

MCBatches == <<{"h1", "h2"}, {"h3"}>>
=============================================================================
