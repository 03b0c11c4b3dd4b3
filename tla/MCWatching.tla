----------------------------- MODULE MCWatching -----------------------------
(* Instances of Watching for TLC *)
EXTENDS Watching, TLC

Symmetry == Permutations(Web)
=============================================================================
