--------------------------- MODULE MCProbePatching ---------------------------
(* ProbePatching on small instances.                                       *)
EXTENDS ProbePatching, TLC

\* No action and no invariant names a function.
PatchSymmetry == Permutations(Functions)
=============================================================================
