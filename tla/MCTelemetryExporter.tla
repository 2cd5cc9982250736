------------------------ MODULE MCTelemetryExporter ------------------------
(* Instances of TelemetryExporter for TLC.                                  *)
EXTENDS TelemetryExporter, TLC

Symmetry == Permutations(Emitters)
=============================================================================
