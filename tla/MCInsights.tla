------------------------------ MODULE MCInsights ------------------------------
(***************************************************************************)
(* Instances of Insights for TLC.                                          *)
(***************************************************************************)
EXTENDS Insights

CONSTANTS e1, e2, e3, w1, w2

MCEvents == {e1, e2, e3}
MCWorkflows == {w1, w2}

\* Two executions of a workflow that stays, one of a workflow that may go.
MCWorkflowOf == [e \in MCEvents |-> IF e = e3 THEN w2 ELSE w1]
MCDeletable == {w2}

=============================================================================
