--------------------------- MODULE UpdateRollout ---------------------------
(***************************************************************************)
(* Agent update rollouts as endpoint_server/updates/service.py keeps them:  *)
(* the catalogue of registered builds, the rollouts with their targets and  *)
(* the terminal reports.  Every service call runs in one transaction under  *)
(* row locks on the build, the rollout, the devices and the targets it      *)
(* reads, so a call is one step here; what interleaves is the order of the  *)
(* administrators' calls and of the devices' retried, delayed and repeated  *)
(* acknowledgements and reports.                                            *)
(*                                                                         *)
(* An operation is the pair <<r, d>> of a rollout and a device (its UUID in *)
(* the code).  A build is its version number: the catalogue holds one build *)
(* per version of the one platform modelled.                                *)
(***************************************************************************)
EXTENDS Integers, FiniteSets, Sequences

CONSTANTS Devices,       \* enrolled, not retired
          Builds,        \* versions of the builds that can be registered
          None,
          MaxRollouts,   \* bound on the rollouts an administrator creates
          MaxPauses      \* bound on the pauses of one rollout

ASSUME RolloutAssumption ==
    /\ Builds \subseteq Nat
    /\ MaxRollouts \in Nat /\ MaxPauses \in Nat

VARIABLES
    builds,     \* registered builds
    rollouts,   \* sequence of [build, mode, status, pauses, targets]
    reports     \* rows of update_reports: [op, key, status, version]

serverVars == <<builds, rollouts, reports>>

Open     == {"assigned", "requested", "scheduled"}
Outcomes == {"applied", "failed", "rolled_back"}
Terminal == Outcomes \union {"cancelled"}

Operations == {op \in (DOMAIN rollouts) \X Devices : op[2] \in DOMAIN rollouts[op[1]].targets}

Target(op) == rollouts[op[1]].targets[op[2]]

WithTarget(op, s) == [rollouts EXCEPT ![op[1]].targets[op[2]] = s]

(* What the devices ask of the service.                                    *)

(* The operation offered to a device, if any.  The minimum launcher version *)
(* of a build can only withhold the offer, as a failed request does.        *)
Offered(op) == Target(op) \in Open /\ rollouts[op[1]].status = "active"

recommendation_for_device(d) == {op \in Operations : op[2] = d /\ Offered(op)}

download_update_artifact(op) == Offered(op)

AckAccepted(op, s) ==
    /\ rollouts[op[1]].status = "active"
    /\ \/ s = "requested" /\ Target(op) \in Open
       \/ s = "scheduled" /\ Target(op) \in {"requested", "scheduled"}

record_ack(op, s) ==
    /\ AckAccepted(op, s)
    /\ rollouts' = IF Target(op) = "scheduled" THEN rollouts ELSE WithTarget(op, s)
    /\ UNCHANGED <<builds, reports>>

Owning(op, key) == {row \in reports : row.op = op /\ row.key = key}

\* Mutant: a second report is taken when the operation is over.
ReportTakenAgain(op, rep) ==
    /\ Owning(op, rep.key) = {}
    /\ Target(op) \in Open \/ Target(op) = rep.status
    /\ rep.status \in {"applied", "rolled_back"} => Target(op) \in {"scheduled", rep.status}
    /\ rep.status = "applied" => rep.version = rollouts[op[1]].build

(* A new report is taken from an open target of a rollout that is active or *)
(* paused; an installed or undone build must have been scheduled.           *)
ReportTaken(op, rep) ==
    /\ Owning(op, rep.key) = {}
    /\ rollouts[op[1]].status \in {"active", "paused"}
    /\ Target(op) \in Open
    /\ rep.status \in {"applied", "rolled_back"} => Target(op) = "scheduled"
    /\ rep.status = "applied" => rep.version = rollouts[op[1]].build

(* The exact report again is answered with success and changes nothing.     *)
ReportRepeated(op, rep) ==
    [op |-> op, key |-> rep.key, status |-> rep.status, version |-> rep.version] \in reports

ReportAccepted(op, rep) == ReportRepeated(op, rep) \/ ReportTaken(op, rep)

\* Mutant: the last outcome does not complete the rollout.
ClosedByHand(rs, r) == [rs EXCEPT ![r].status = @]

(* The last target's outcome completes its rollout, a paused one included.  *)
Closed(rs, r) ==
    [rs EXCEPT ![r].status = IF \A d \in DOMAIN rs[r].targets : rs[r].targets[d] \in Terminal
                             THEN "completed" ELSE @]

record_report(op, rep) ==
    /\ ReportTaken(op, rep)
    /\ reports' = reports \union
           {[op |-> op, key |-> rep.key, status |-> rep.status, version |-> rep.version]}
    /\ rollouts' = Closed(WithTarget(op, rep.status), op[1])
    /\ UNCHANGED builds

(* What the administrators ask.                                             *)

register_build(b) ==
    /\ b \notin builds
    /\ builds' = builds \union {b}
    /\ UNCHANGED <<rollouts, reports>>

\* Mutant: a paused rollout does not own its devices.
OwnedWhileOffered(d) == \E op \in Operations : op[2] = d /\ Offered(op)

Owned(d) == \E op \in Operations : op[2] = d /\ Target(op) \in Open

CreateActive(b, mode, ds) ==
    /\ Len(rollouts) < MaxRollouts
    /\ \A d \in ds : ~Owned(d)
    /\ rollouts' = Append(rollouts,
           [build |-> b, mode |-> mode, status |-> "active", pauses |-> 0,
            targets |-> [d \in ds |-> "assigned"]])
    /\ UNCHANGED <<builds, reports>>

create_rollout(b, mode, ds) ==
    /\ b \in builds
    /\ mode = "bulk" => \E r \in DOMAIN rollouts :
           rollouts[r].build = b /\ rollouts[r].mode = "canary" /\ rollouts[r].status = "completed"
    /\ CreateActive(b, mode, ds)

OlderBuild(trigger, b) == b \in builds /\ b < rollouts[trigger].build

create_rollback_rollout(trigger, b, ds) ==
    /\ OlderBuild(trigger, b)
    /\ \A d \in ds : d \in DOMAIN rollouts[trigger].targets /\ Target(<<trigger, d>>) \in Terminal
    /\ CreateActive(b, "rollback", ds)

pause_rollout(r) ==
    /\ rollouts[r].status = "active"
    /\ rollouts[r].pauses < MaxPauses
    /\ rollouts' = [rollouts EXCEPT ![r].status = "paused", ![r].pauses = @ + 1]
    /\ UNCHANGED <<builds, reports>>

(* The devices of its open targets are still its own: no other rollout took *)
(* one while it was paused.                                                 *)
activate_rollout(r) ==
    /\ rollouts[r].status = "paused"
    /\ \E d \in DOMAIN rollouts[r].targets : Target(<<r, d>>) \in Open
    /\ rollouts' = [rollouts EXCEPT ![r].status = "active"]
    /\ UNCHANGED <<builds, reports>>

(* The context an administrator reads before cancelling: the target's state *)
(* and paused_at, which differs from pause to pause.                        *)
Cancellable(op) ==
    /\ rollouts[op[1]].mode = "canary" /\ rollouts[op[1]].status = "paused"
    /\ DOMAIN rollouts[op[1]].targets = {op[2]}
    /\ Target(op) \in Open

rollout_cancellation_context(op) ==
    [op |-> op, target |-> Target(op), paused_at |-> rollouts[op[1]].pauses]

\* Mutant: a rollout that was resumed and paused again is cancelled.
CancelsAnyPause(op, expected) ==
    Cancellable(op) /\ expected.op = op /\ expected.target = Target(op)

CancelsExpected(op, expected) ==
    Cancellable(op) /\ rollout_cancellation_context(op) = expected

cancel_paused_singleton_rollout(op, expected) ==
    /\ CancelsExpected(op, expected)
    /\ rollouts' = [WithTarget(op, "cancelled") EXCEPT ![op[1]].status = "cancelled"]
    /\ UNCHANGED <<builds, reports>>

ServerInit ==
    /\ builds = {} /\ rollouts = << >> /\ reports = {}

ServerTypeOK ==
    /\ builds \subseteq Builds
    /\ \A r \in DOMAIN rollouts :
           /\ rollouts[r].build \in builds
           /\ rollouts[r].mode \in {"canary", "bulk", "rollback"}
           /\ rollouts[r].status \in {"active", "paused", "completed", "cancelled"}
           /\ rollouts[r].pauses \in 0..MaxPauses
           /\ DOMAIN rollouts[r].targets \subseteq Devices
           /\ \A d \in DOMAIN rollouts[r].targets : rollouts[r].targets[d] \in Open \union Terminal
    /\ \A row \in reports : row.op \in Operations /\ row.status \in Outcomes
=============================================================================
