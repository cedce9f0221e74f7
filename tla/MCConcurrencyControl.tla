------------------------ MODULE MCConcurrencyControl ------------------------
(* Instances of ConcurrencyControl for TLC.                                 *)
EXTENDS ConcurrencyControl

CONSTANTS r1, r2, r3, r4, r5, r6, e1, e2, e3, e4, e5

\* Two calls carry the id e1; e4 is an evaluation run, e5 a manual one.
MCExecutionOf ==
    (r1 :> e1) @@ (r2 :> e1) @@ (r3 :> e2) @@ (r4 :> e3) @@ (r5 :> e4) @@ (r6 :> e5)
MCMode ==
    (e1 :> "webhook") @@ (e2 :> "trigger") @@ (e3 :> "webhook")
        @@ (e4 :> "evaluation") @@ (e5 :> "manual")
MCLimitTwo == ("production" :> 2) @@ ("evaluation" :> 1)
=============================================================================
