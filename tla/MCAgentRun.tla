----------------------------- MODULE MCAgentRun -----------------------------
(***************************************************************************)
(* Model checking AgentRun: the instances differ in their constants only.  *)
(***************************************************************************)
EXTENDS AgentRun

OneDoc == {1}
TwoDocs == {1, 2}
=============================================================================
