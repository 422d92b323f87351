--------------------------- MODULE MCPowerTelemetry ---------------------------
(***************************************************************************)
(* Instances of PowerTelemetry for TLC.                                    *)
(***************************************************************************)
EXTENDS PowerTelemetry, TLC
=============================================================================
