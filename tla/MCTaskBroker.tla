---------------------------- MODULE MCTaskBroker ----------------------------
(* Instances of TaskBroker for TLC.                                          *)
EXTENDS TaskBroker, TLC

CONSTANTS r1, r2, l1, q1, q2
=============================================================================
