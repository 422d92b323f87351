-------------------------- MODULE MCSecurityTelemetry --------------------------
(***************************************************************************)
(* Instances of SecurityTelemetry for TLC.                                 *)
(***************************************************************************)
EXTENDS SecurityTelemetry, TLC
=============================================================================
