------------------------- MODULE MCLoadtestScenario -------------------------
(* The instance of LoadtestScenario for TLC, given in its configuration. *)
EXTENDS LoadtestScenario
=============================================================================
