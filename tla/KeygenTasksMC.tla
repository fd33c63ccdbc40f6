--------------------------- MODULE KeygenTasksMC ---------------------------
(***************************************************************************)
(* Instances of KeygenTasks for TLC.                                       *)
(***************************************************************************)
EXTENDS KeygenTasks

CONSTANTS h1, h2, t1

\* One Start, delivered twice.
OneTaskOf == [h \in Handler |-> t1]
=============================================================================
