--------------------------- MODULE MCGatewayCommands ---------------------------
(***************************************************************************)
(* Instances of GatewayCommands for TLC.                                   *)
(***************************************************************************)
EXTENDS GatewayCommands, TLC

CONSTANTS s1, s2, d1, m1, c1

\* Every session negotiated every capability.
AllSupported == [s \in Session |-> Cmd]

\* Sessions are interchangeable when they negotiate the same capabilities.
SessionSymmetry == Permutations(Session)

=============================================================================
