-------------------------- MODULE MCRolloutService --------------------------
(* TLC instance of RolloutService: devices and keys are interchangeable.    *)
EXTENDS RolloutService, TLC

RolloutSymmetry == Permutations(Devices) \union Permutations(Keys)
=============================================================================
