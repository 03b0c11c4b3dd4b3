---------------------------- MODULE MCRunLifecycle ----------------------------
(* RunLifecycle on small instances. The runs are alike, and so are the web *)
(* processes and the workers.                                              *)
EXTENDS RunLifecycle, TLC

Symmetry == Permutations(Runs) \cup Permutations(Web) \cup Permutations(Workers)
=============================================================================
