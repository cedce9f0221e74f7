------------------------ MODULE MCRegularExecutions ------------------------
(* Instances of RegularExecutions for TLC.                                  *)
EXTENDS RegularExecutions, TLC

CONSTANTS e1, e2

\* e1 may be resumed, or run again after a restart; e2 competes with it.
MCTwoAndOne == (e1 :> 2) @@ (e2 :> 1)
\* One execution, resumed twice.
MCThree == (e1 :> 3)
=============================================================================
