----------------------------- MODULE MCReaperBatch -----------------------------
(* Batches of two over three orders, and two workers that run the job.  One, *)
(* two or all of the orders are stuck: fewer than a batch, or a whole one    *)
(* that the third order is behind.                                           *)
EXTENDS ReaperBatch
=============================================================================
