---------------------------- MODULE MobileNodeMC ----------------------------
(***************************************************************************)
(* Small instances of MobileNode for TLC.                                  *)
(***************************************************************************)
EXTENDS MobileNode, TLC
=============================================================================
