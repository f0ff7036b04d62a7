--------------------------- MODULE MCMediaStorage ----------------------------
(***************************************************************************)
(* Small instances of MediaStorage.                                        *)
(***************************************************************************)
EXTENDS MediaStorage, TLC

Symmetry == Permutations(Assets) \cup Permutations(Handlers)
==============================================================================
