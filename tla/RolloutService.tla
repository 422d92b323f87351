--------------------------- MODULE RolloutService ---------------------------
(***************************************************************************)
(* The rollout service with unconstrained devices: a device may send any    *)
(* acknowledgement and any report, with any report key, for any of its      *)
(* operations, at any time and any number of times.  That                   *)
(* covers a journal that is lost, a request that is delayed past a pause, a *)
(* completion or a cancellation, and two installations of one device that   *)
(* disagree.  The administrators cancel from a context they read earlier.   *)
(***************************************************************************)
EXTENDS UpdateRollout

CONSTANT Keys    \* report keys

VARIABLES
    expected,   \* the cancellation context last read, or None
    touched     \* history variable: its rollout changed since it was read

serviceVars == <<builds, rollouts, reports, expected, touched>>

Touch(r) == touched' = (touched \/ (expected # None /\ expected.op[1] = r))

ServiceInit ==
    /\ ServerInit
    /\ expected = None /\ touched = FALSE

Ack(op, s) ==
    /\ record_ack(op, s)
    /\ IF rollouts' = rollouts THEN UNCHANGED touched ELSE Touch(op[1])
    /\ UNCHANGED expected

Report(op, rep) ==
    /\ record_report(op, rep)
    /\ Touch(op[1])
    /\ UNCHANGED expected

Register(b) == register_build(b) /\ UNCHANGED <<expected, touched>>

Create(b, mode, ds) == create_rollout(b, mode, ds) /\ UNCHANGED <<expected, touched>>

Rollback(r, b, ds) ==
    create_rollback_rollout(r, b, ds) /\ UNCHANGED <<expected, touched>>

Pause(r) == pause_rollout(r) /\ Touch(r) /\ UNCHANGED expected

Activate(r) == activate_rollout(r) /\ Touch(r) /\ UNCHANGED expected

ReadContext(op) ==
    /\ Cancellable(op)
    /\ expected' = rollout_cancellation_context(op)
    /\ touched' = FALSE
    /\ UNCHANGED serverVars

Cancel(op) ==
    /\ expected # None
    /\ cancel_paused_singleton_rollout(op, expected)
    /\ Touch(op[1])
    /\ UNCHANGED expected

ServiceNext ==
    \/ \E b \in Builds : Register(b)
    \/ \E b \in Builds, mode \in {"canary", "bulk"}, ds \in (SUBSET Devices) \ {{}} :
           Create(b, mode, ds)
    \/ \E r \in DOMAIN rollouts :
           \/ Pause(r)
           \/ Activate(r)
           \/ \E b \in Builds, ds \in (SUBSET Devices) \ {{}} : Rollback(r, b, ds)
    \/ \E op \in Operations : ReadContext(op) \/ Cancel(op)
    \/ \E op \in Operations :
           \/ \E s \in {"requested", "scheduled"} : Ack(op, s)
           \/ \E rep \in [key : Keys, status : Outcomes, version : Builds] : Report(op, rep)

ServiceSpec == ServiceInit /\ [][ServiceNext]_serviceVars

-----------------------------------------------------------------------------

ServiceTypeOK ==
    /\ ServerTypeOK
    /\ expected # None => expected.op \in Operations
    /\ touched \in BOOLEAN

(* A device is the open target of at most one rollout, whatever was paused, *)
(* resumed, cancelled or rolled back (_lock_assignable_devices,             *)
(* service.py:506).                                                         *)
OneOwner ==
    /\ ServiceTypeOK
    /\ \A o1, o2 \in Operations : o1[2] = o2[2] /\ Target(o1) \in Open /\ Target(o2) \in Open => o1 = o2

(* An operation with an outcome has one report row and it says the same; an *)
(* open or a cancelled operation has none, however often and however late   *)
(* its device reports (record_report, service.py:1094).                     *)
ReportsMatch ==
    \A op \in Operations :
        LET rows == {row \in reports : row.op = op} IN
            IF Target(op) \in Outcomes
            THEN \E row \in rows : rows = {row} /\ row.status = Target(op)
            ELSE rows = {}

(* A rollout is over exactly when all its targets are: an outcome that      *)
(* closes the last target completes it in the same step, so complete_rollout *)
(* (service.py:765) never finds anything left to complete.                  *)
OverTogether ==
    \A r \in DOMAIN rollouts :
        LET states == {rollouts[r].targets[d] : d \in DOMAIN rollouts[r].targets} IN
            CASE rollouts[r].status = "completed" -> states \subseteq Outcomes
              [] rollouts[r].status = "cancelled" -> states = {"cancelled"}
              [] OTHER -> states \intersect Open # {} /\ "cancelled" \notin states

(* A cancellation takes effect only if nothing happened to the rollout since *)
(* the administrator read its context: no outcome, no resumption, no new     *)
(* acknowledgement (cancel_paused_singleton_rollout, service.py:119).        *)
CancelsWhatWasRead ==
    [][\A op \in Operations :
          Target(op) # "cancelled" /\ rollouts'[op[1]].targets[op[2]] = "cancelled"
              => expected # None /\ expected.op = op /\ ~touched]_serviceVars
=============================================================================
