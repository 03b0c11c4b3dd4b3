--------------------------- MODULE MCEventCooldown ---------------------------
(* EventCooldown on small instances; runs and assets are alike. *)
EXTENDS EventCooldown, TLC

Symmetry == Permutations(Runs) \cup Permutations(Assets)
=============================================================================
