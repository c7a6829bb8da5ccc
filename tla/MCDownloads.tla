---------------------------- MODULE MCDownloads ----------------------------
(* Downloads on small instances.                                           *)
EXTENDS Downloads, TLC

\* Nothing tells two batches, two workers or two ids apart.
Symmetry == Permutations(Batches) \cup Permutations(Workers) \cup Permutations(Ids)
=============================================================================
