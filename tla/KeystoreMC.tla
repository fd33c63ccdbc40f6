---------------------------- MODULE KeystoreMC ----------------------------
(***************************************************************************)
(* Small instances of Keystore for TLC.                                    *)
(***************************************************************************)
EXTENDS Keystore
=============================================================================
