--------------------------- MODULE UpdateAdapter ---------------------------
(***************************************************************************)
(* The client half of a rollout, common to both platforms: the two journals *)
(* of update_adapter.py on one host, and the calls to the rollout service   *)
(* that they make repeatable.  A call is answered, or fails unprocessed, or *)
(* is processed and its answer lost: `ok` says what the caller learns.      *)
(***************************************************************************)
EXTENDS UpdateRollout

CONSTANTS Host,          \* the device modelled
          Installed,     \* the version its package installed
          Canaries,      \* bound: the rollouts that are canaries, not rollbacks
          Pausable       \* bound: the rollouts an administrator pauses

ASSUME AdapterAssumption == Host \in Devices /\ Installed \in Nat

VARIABLES
    handoffs,   \* endpoint_update_state.json: the operations handed to the installer
    acked,      \* those whose scheduled acknowledgement was delivered
    journal     \* endpoint_update_reports.json: [op, status, version, delivered]

journals == <<handoffs, acked, journal>>

Version(op) == rollouts[op[1]].build

Versions == Builds \union {Installed}

AdapterInit ==
    /\ builds = Builds /\ rollouts = << >> /\ reports = {}
    /\ handoffs = {} /\ acked = {} /\ journal = {}

(* Newer than the running version, or older on an ordered rollback.         *)
Eligible(op, version) ==
    \/ Version(op) > version
    \/ Version(op) < version /\ rollouts[op[1]].mode = "rollback"

(* fetch_recommendation and acknowledge(..., "requested"): an eligible offer *)
(* is acknowledged before anything is downloaded.                           *)
Requested(op, version) ==
    /\ op \in recommendation_for_device(Host) /\ Eligible(op, version)
    /\ record_ack(op, "requested")

Journalled(op) == handoffs \union {op}

\* Mutant: the acknowledgement of a handoff is never repeated.
RetryNever(op) == FALSE

RetryAck(op) == record_ack(op, "scheduled")

(* Only a journalled handoff is acknowledged, and once: the delivery is kept *)
(* in the journal.                                                          *)
retry_scheduled_acknowledgement(op, ok) ==
    \/ ok /\ op \in acked /\ UNCHANGED acked /\ UNCHANGED serverVars
    \/ /\ op \in handoffs \ acked
       /\ RetryAck(op)
       /\ acked' = IF ok THEN acked \union {op} ELSE acked
    \/ ~ok /\ op \notin acked /\ UNCHANGED acked /\ UNCHANGED serverVars

Record(rep, delivered) ==
    [op |-> rep.op, status |-> rep.status, version |-> rep.version, delivered |-> delivered]

(* The key of a report lives as long as its journal record, one per content. *)
Sent(rep) == [key |-> <<rep.status, rep.version>>, status |-> rep.status, version |-> rep.version]

Deliver(rep) ==
    /\ \/ record_report(rep.op, Sent(rep))
       \/ ReportRepeated(rep.op, Sent(rep)) /\ UNCHANGED serverVars
    /\ journal' = (journal \ {Record(rep, FALSE)}) \union {Record(rep, TRUE)}

report_terminal(rep, ok) ==
    \/ ok /\ Record(rep, TRUE) \in journal /\ UNCHANGED journal /\ UNCHANGED serverVars
    \/ ok /\ Record(rep, TRUE) \notin journal /\ Deliver(rep)
    \/ /\ ~ok /\ Record(rep, TRUE) \notin journal
       /\ journal' = journal \union {Record(rep, FALSE)}
       /\ UNCHANGED serverVars \/ record_report(rep.op, Sent(rep))

(* What an administrator does meanwhile.                                    *)
Administer ==
    \/ Len(rollouts) + 1 \in Canaries /\ \E b \in Builds : create_rollout(b, "canary", {Host})
    \/ \E r \in DOMAIN rollouts, b \in Builds : create_rollback_rollout(r, b, {Host})
    \/ \E r \in Pausable \intersect DOMAIN rollouts : pause_rollout(r) \/ activate_rollout(r)
    \/ \E op \in Operations :
           cancel_paused_singleton_rollout(op, rollout_cancellation_context(op))

AdapterTypeOK ==
    /\ ServerTypeOK
    /\ acked \subseteq handoffs /\ handoffs \subseteq Operations
    /\ \A rec \in journal : rec.op \in Operations /\ rec.status \in Outcomes

NotWaiting(r) ==
    r \in DOMAIN rollouts /\ (rollouts[r].status # "active" \/ Target(<<r, Host>>) \in Terminal)
=============================================================================
