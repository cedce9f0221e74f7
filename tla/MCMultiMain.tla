----------------------------- MODULE MCMultiMain -----------------------------
(* Instances of MultiMain for TLC.                                           *)
EXTENDS MultiMain, TLC

CONSTANTS m1, m2, e1
=============================================================================
