--------------------------- MODULE MCReviewWorker ---------------------------
(* TLC instances of ReviewWorker: jobs and replicas are interchangeable.   *)
EXTENDS ReviewWorker, TLC

Symmetry == Permutations(Jobs) \cup Permutations(Replicas)
=============================================================================
