--------------------------- MODULE SignMaterialMC ---------------------------
(***************************************************************************)
(* Instances of SignMaterial for TLC.                                      *)
(***************************************************************************)
EXTENDS SignMaterial, TLC

\* Signs differ in nothing, nor do warms.
Symmetry == Permutations(Sign) \union Permutations(Warm)
=============================================================================
