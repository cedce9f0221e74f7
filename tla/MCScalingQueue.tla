--------------------------- MODULE MCScalingQueue ---------------------------
(* Instances of ScalingQueue for TLC.                                       *)
EXTENDS ScalingQueue, TLC

CONSTANTS e1, e2, m1, m2, w1, w2

\* One main takes every call.
MCFirst == [e \in Executions |-> m1]
=============================================================================
