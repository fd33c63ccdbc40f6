------------------------- MODULE MessageDeliveryMC -------------------------
(***************************************************************************)
(* Instances of MessageDelivery for TLC.                                   *)
(***************************************************************************)
EXTENDS MessageDelivery

\* The Starts of one task differ in nothing.
Symmetry == Permutations(Session)
=============================================================================
