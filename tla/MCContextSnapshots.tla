-------------------------- MODULE MCContextSnapshots --------------------------
(***************************************************************************)
(* An instance of ContextSnapshots for TLC: one key of every kind of       *)
(* storage, in one retention job, and a second hot key, whose snapshot is  *)
(* the first retention meets.                                              *)
(***************************************************************************)
EXTENDS ContextSnapshots, TLC

CONSTANTS k1, k2, k3, k4, x, y

EveryKind == (k1 :> "baseline_v1") @@ (k2 :> "activity_v1") @@ (k3 :> "diagnostic_v1")
             @@ (k4 :> "health_v1")
KindOf == [r \in Result |-> CASE r <= 3 -> k1 [] r = 4 -> k4 [] r \in {5, 6} -> k2 [] OTHER -> k3]

\* Stable states with equal and with older times, in any order; an activity that may
\* be observed unchanged, later and earlier; a health state, older than both, and a
\* diagnostic, whose contents are never compared.
Observations ==
    [r \in Result |->
        CASE r = 1 -> {<<0, y>>}
          [] r = 2 -> {<<1, y>>}
          [] r = 3 -> {<<1, x>>}
          [] r = 6 -> {1, 2} \X {x, y}
          [] OTHER -> {<<0, x>>}]
=============================================================================
