---------------------------- MODULE MCMergeSorted ----------------------------
(* Model-checking instance of MergeSorted: up to five nodes in all, values *)
(* with ties, so both branches of every comparison are taken.             *)
EXTENDS MergeSorted

MCValues == 1..3
MCMaxNodes == 5
=============================================================================
