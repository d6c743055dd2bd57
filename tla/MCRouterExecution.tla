-------------------------- MODULE MCRouterExecution --------------------------
(* Values for TLC: three turns, two of them of the same session.           *)
EXTENDS RouterExecution, TLC

CONSTANTS s1, s2, t1, t2, t3

MCSessionOf == t1 :> s1 @@ t2 :> s1 @@ t3 :> s2
=============================================================================
