------------------------------ MODULE MCTurnLoop ------------------------------
(* TurnLoop with the modes that differ in how the loop decides.              *)
EXTENDS TurnLoop

Mode(goal, planning, status, child) ==
  [goal |-> goal, planning |-> planning, status |-> status, child |-> child]

\* An agent without a plan, goal mode, a planning agent, and its child.
MCModes == {Mode(FALSE, FALSE, TRUE, FALSE), Mode(TRUE, FALSE, TRUE, FALSE),
            Mode(FALSE, TRUE, TRUE, FALSE), Mode(FALSE, TRUE, FALSE, TRUE)}
=============================================================================
