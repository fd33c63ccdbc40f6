--------------------------- MODULE ProtocolRunMC ---------------------------
(***************************************************************************)
(* Small instances of ProtocolRun for TLC.                                 *)
(***************************************************************************)
EXTENDS ProtocolRun, TLC
=============================================================================
