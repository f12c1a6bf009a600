------------------------- MODULE MCPlanningServer -------------------------
(* An instance of PlanningServer; see PlanningServer.cfg.                  *)
EXTENDS PlanningServer
============================================================================
