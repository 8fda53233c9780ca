--------------------------- MODULE MCPlannerFlow ---------------------------
(* Small instances of the planner and ReAct flow for TLC.                  *)
EXTENDS PlannerFlow
=============================================================================
