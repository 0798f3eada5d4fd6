----------------------------- MODULE MCTxSender -----------------------------
(* Values of Batches for model checking TxSender. *)
EXTENDS TxSender, TLC

CONSTANTS c1, c2, l1, l2

\* One client, two batches with no license in common.
BatchesOfOne == (c1 :> <<{l1}, {l2}>>)

\* Two replicas with the same wins, one of which collects a win fewer.
BatchesUneven == (c1 :> <<{l1}, {l2}>>) @@ (c2 :> <<{l2}>>)
=============================================================================
