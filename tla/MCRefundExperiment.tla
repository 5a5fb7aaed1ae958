-------------------------- MODULE MCRefundExperiment --------------------------
(* RefundExperiment on the instance of MCRefundService: the suite's bound     *)
(* schedules and the scenario faults for the scripted agent, the scenario     *)
(* faults for the ADK agent.                                                  *)
EXTENDS RefundExperiment, MCRefundService
=============================================================================
