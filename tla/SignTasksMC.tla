---------------------------- MODULE SignTasksMC ----------------------------
(***************************************************************************)
(* Instances of SignTasks for TLC: one task that is delivered twice, and   *)
(* two tasks on one key.                                                   *)
(***************************************************************************)
EXTENDS SignTasks, TLC

CONSTANTS h1, h2, t1, t2, k1, l1

\* One task, delivered twice.
SameTaskOf  == [h \in Handler |-> t1]
EcdsaModeOf == [h \in Handler |-> "ecdsa"]

\* The two deliveries are interchangeable.
Symmetry == Permutations({h1, h2})

\* One delivery per task, two warms on one key.
PairTaskOf == h1 :> t1 @@ h2 :> t2
WarmModeOf == [h \in Handler |-> "warm"]

OneKeyOf  == [h \in Handler |-> k1]
OneLockOf == [h \in Handler |-> l1]
=============================================================================
