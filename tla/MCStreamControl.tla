--------------------------- MODULE MCStreamControl ---------------------------
(***************************************************************************)
(* Small instances of StreamControl.                                       *)
(***************************************************************************)
EXTENDS StreamControl, TLC

Symmetry == Permutations(Sessions) \cup Permutations(Clicks)

\* Bound: the API requests in progress, uploads, stops and removals together.
MaxRequests == 3
RequestsBound ==
  Cardinality(upload) + Cardinality(removing) + Cardinality(stopping) <= MaxRequests
==============================================================================
