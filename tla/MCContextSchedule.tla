--------------------------- MODULE MCContextSchedule ---------------------------
(***************************************************************************)
(* Instances of ContextSchedule for TLC.                                   *)
(***************************************************************************)
EXTENDS ContextSchedule, TLC

CONSTANT p1

OneRule == <<p1>>
NoRules == <<>>

HandlerSymmetry == Permutations(Handler)
=============================================================================
