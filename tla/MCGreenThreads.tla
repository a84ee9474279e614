--------------------------- MODULE MCGreenThreads ---------------------------
(* GreenThreads on small sets of threads.  The workers are interchangeable *)
(* in the model: no definition tells one from another.                     *)
EXTENDS GreenThreadsInvariant, TLC

Symmetry == Permutations(Workers)
=============================================================================
