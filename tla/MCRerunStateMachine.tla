------------------------ MODULE MCRerunStateMachine ------------------------
(* Instances of RerunStateMachine for TLC. *)
EXTENDS RerunStateMachine

CONSTANTS g1, g2, g3

AllModes == {"disabled", "validate_results", "report_determinism_stats"}
AllCheckSets == {{"nan"}, {"spiky"}, {"nan", "spiky"}}
BothChecks == {{"nan", "spiky"}}

=============================================================================
