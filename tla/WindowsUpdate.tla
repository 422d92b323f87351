--------------------------- MODULE WindowsUpdate ---------------------------
(***************************************************************************)
(* The update of one Windows host: the recovery lane of the agent service    *)
(* (update_supervisor.py, online_update_runtime.py), the demand-start        *)
(* privileged updater (updater_service.py) and the files through which they  *)
(* agree.  A machine-wide mutex (update_transaction.py) covers every         *)
(* transaction on these files.  The updater holds it while it writes, and    *)
(* lets go while it extracts an archive and while it waits for the           *)
(* candidate's proof; the agent takes it without waiting, so its own         *)
(* transactions are single steps here, skipped while the updater holds it.   *)
(*                                                                         *)
(* Either process may die between two file replacements, and the host may    *)
(* lose power; the service manager restarts a process that died, and after a *)
(* power failure only the agent.                                            *)
(***************************************************************************)
EXTENDS UpdateAdapter

CONSTANT MaxFaults      \* bound on I/O errors, crashes and power failures

OperationId == Nat \X Devices
Attempt == [op : OperationId, id : Nat]
Transition == [status : {"prepared", "accepted"}, prev : Versions, op : OperationId, id : Nat]

ASSUME WindowsAssumption ==
    /\ MaxFaults \in Nat
    /\ None \notin OperationId \union Attempt \union Transition

VARIABLES
    agent,        \* the agent service: [pc, op, version, seen]
    updater,      \* the updater service: [pc, op, prev, seen, stopped, full]
    current,      \* current.json
    restore,      \* does current-restore.json exist?
    transition,   \* selector-transition.json: [status, prev, op, id], or None
    pending,      \* pending_update.json: an operation, or None
    attempt,      \* startup-attempt.json: [op, id], or None
    proof,        \* startup-confirmation.json: [op, id], or None
    outcome,      \* terminal-outcome.json: [op, status, version], or None
    attempts,     \* identifiers of startup attempts used so far
    faults,       \* faults so far
    accepted,     \* history variable: the operations accepted, in order
    aside         \* history variable: operations whose request the updater put aside

selectorFiles == <<current, restore, transition>>
updateFiles == <<pending, attempt, proof, outcome, attempts>>
fileVars == <<selectorFiles, updateFiles, accepted, aside>>
vars == <<builds, rollouts, reports, handoffs, acked, journal, agent, updater, current, restore,
          transition, pending, attempt, proof, outcome, attempts, faults, accepted, aside>>

Accepted(op) == \E i \in DOMAIN accepted : accepted[i] = op

Good == IF accepted = << >> THEN Installed ELSE Version(accepted[Len(accepted)])

(* The pcs of the updater at which the mutex is free.                       *)
Unlocked == {"off", "extract", "wait"}
Free == updater.pc \in Unlocked

Running == {"report", "ack", "send", "cleanup", "poll", "download", "handoff", "acknowledge",
            "publish", "trigger", "idle"}

AgentAt(pc, version) == [pc |-> pc, op |-> None, version |-> version, seen |-> None]

Off == [pc |-> "off", op |-> None, prev |-> None, seen |-> None, stopped |-> FALSE, full |-> FALSE]

Init ==
    /\ AdapterInit
    /\ agent = AgentAt("report", Installed) /\ updater = Off
    /\ current = Installed /\ restore = FALSE /\ transition = None
    /\ pending = None /\ attempt = None /\ proof = None /\ outcome = None /\ attempts = 0
    /\ faults = 0 /\ accepted = << >> /\ aside = {}

-----------------------------------------------------------------------------
(* The agent.                                                               *)

Goto(pc) == agent' = [AgentAt(pc, agent.version) EXCEPT !.op = IF pc \in {"acknowledge", "publish"} THEN agent.op ELSE None]

AgentFrame == UNCHANGED <<updater, faults, accepted, aside>>

(* Once connected, the agent confirms the attempt it finds; this is the one  *)
(* write outside the mutex.                                                 *)
record_after_server_handshake ==
    /\ agent.pc \in Running
    /\ pending # None /\ attempt # None
    /\ Version(pending) = current /\ agent.version = current /\ attempt.op = pending
    /\ proof' = attempt
    /\ UNCHANGED <<serverVars, journals, agent, selectorFiles, pending, attempt, outcome, attempts>>
    /\ AgentFrame

(* A recorded outcome is reported only with the release it names selected    *)
(* and with the request and the attempt it belongs to; without one, the      *)
(* proof of the selected release is.                                        *)
Reportable ==
    /\ outcome.version = current
    /\ pending \in {None, outcome.op}
    /\ attempt # None => pending = outcome.op /\ attempt.op = outcome.op

StartupOutcome ==
    IF transition # None THEN None
    ELSE IF outcome # None THEN IF Reportable THEN outcome ELSE None
    ELSE IF proof # None /\ Version(proof.op) = current
         THEN [op |-> proof.op, status |-> "applied", version |-> current]
    ELSE None

report_startup_outcome ==
    /\ agent.pc = "report"
    /\ IF Free /\ StartupOutcome # None
       THEN agent' = [agent EXCEPT !.pc = "ack",
                          !.seen = [rep |-> StartupOutcome, pending |-> pending, attempt |-> attempt]]
       ELSE Goto("poll")
    /\ UNCHANGED <<serverVars, journals, selectorFiles, updateFiles>> /\ AgentFrame

(* A failure is reported even if its handoff could not be acknowledged.      *)
AcknowledgeFirst ==
    /\ agent.pc = "ack"
    /\ \E ok \in BOOLEAN :
           /\ retry_scheduled_acknowledgement(agent.seen.rep.op, ok)
           /\ IF ok \/ agent.seen.rep.status = "failed"
              THEN agent' = [agent EXCEPT !.pc = "send"] ELSE Goto("poll")
    /\ UNCHANGED <<handoffs, journal, selectorFiles, updateFiles>> /\ AgentFrame

SendReport ==
    /\ agent.pc = "send"
    /\ \E ok \in BOOLEAN :
           /\ report_terminal(agent.seen.rep, ok)
           /\ IF ok /\ agent.seen.rep.status # "applied"
              THEN agent' = [agent EXCEPT !.pc = "cleanup"] ELSE Goto("poll")
    /\ UNCHANGED <<handoffs, acked, selectorFiles, updateFiles>> /\ AgentFrame

\* Mutant: the files may have changed since they were read.
CleansAnyway == Free

(* Nothing changed since the outcome was read.                              *)
Unchanged ==
    /\ Free
    /\ transition = None /\ current = agent.seen.rep.version /\ outcome = agent.seen.rep
    /\ pending = agent.seen.pending /\ attempt = agent.seen.attempt

CleanUp ==
    /\ agent.pc = "cleanup"
    /\ IF Unchanged
       THEN attempt' = None /\ pending' = None /\ outcome' = None
       ELSE UNCHANGED <<attempt, pending, outcome>>
    /\ Goto("poll")
    /\ UNCHANGED <<serverVars, journals, selectorFiles, proof, attempts>> /\ AgentFrame

(* The attempt, the request and the outcome are unlinked in this order.      *)
CleanUpInterrupted ==
    /\ agent.pc = "cleanup" /\ Unchanged
    /\ faults < MaxFaults /\ faults' = faults + 1
    /\ attempt' = None /\ pending' \in {pending, None}
    /\ agent' = AgentAt("report", current)
    /\ UNCHANGED <<serverVars, journals, selectorFiles, proof, outcome, attempts, updater, accepted, aside>>

\* Mutant: a prepared transition is not recovered.
RecoverableAccepted == transition.status = "accepted"

(* The transition is one the updater can finish.                            *)
Recoverable ==
    \/ transition.status = "accepted"
    \/ pending = None /\ current = transition.prev
    \/ pending = transition.op /\ attempt = [op |-> transition.op, id |-> transition.id]

Ineligible == pending # None /\ ~Eligible(pending, current)

(* run_once up to the download: an unfinished transition and a request left  *)
(* from before are the updater's work, an outcome must be reported first.    *)
run_once ==
    /\ agent.pc = "poll"
    /\ CASE ~Free -> Goto("idle") /\ UNCHANGED serverVars /\ UNCHANGED acked
         [] Free /\ transition # None ->
                /\ Goto(IF Recoverable THEN "trigger" ELSE "idle")
                /\ UNCHANGED serverVars /\ UNCHANGED acked
         [] Free /\ transition = None /\ (outcome # None \/ Ineligible) ->
                Goto("idle") /\ UNCHANGED serverVars /\ UNCHANGED acked
         [] Free /\ transition = None /\ outcome = None /\ pending # None /\ ~Ineligible ->
                \E ok \in BOOLEAN :
                    /\ retry_scheduled_acknowledgement(pending, ok)
                    /\ Goto(IF ok THEN "trigger" ELSE "idle")
         [] OTHER ->
                /\ UNCHANGED acked
                /\ \/ Goto("idle") /\ UNCHANGED serverVars
                   \/ \E op \in Operations :
                          /\ Requested(op, current)
                          /\ agent' = [agent EXCEPT !.pc = "download", !.op = op] \/ Goto("idle")
    /\ UNCHANGED <<handoffs, journal, selectorFiles, updateFiles>> /\ AgentFrame

Download ==
    /\ agent.pc = "download"
    /\ \/ download_update_artifact(agent.op) /\ agent' = [agent EXCEPT !.pc = "handoff"]
       \/ Goto("idle")
    /\ UNCHANGED <<serverVars, journals, selectorFiles, updateFiles>> /\ AgentFrame

record_scheduled_handoff ==
    /\ agent.pc = "handoff"
    /\ handoffs' = Journalled(agent.op)
    /\ Goto("acknowledge")
    /\ UNCHANGED <<serverVars, acked, journal, selectorFiles, updateFiles>> /\ AgentFrame

Acknowledge ==
    /\ agent.pc = "acknowledge"
    /\ \E ok \in BOOLEAN :
           retry_scheduled_acknowledgement(agent.op, ok) /\ Goto(IF ok THEN "publish" ELSE "idle")
    /\ UNCHANGED <<handoffs, journal, selectorFiles, updateFiles>> /\ AgentFrame

WritePending ==
    /\ agent.pc = "publish"
    /\ IF Free /\ pending = None /\ transition = None /\ outcome = None
       THEN pending' = agent.op /\ Goto("trigger")
       ELSE UNCHANGED pending /\ Goto("idle")
    /\ UNCHANGED <<serverVars, journals, selectorFiles, attempt, proof, outcome, attempts>> /\ AgentFrame

(* The service manager starts the updater unless it runs.                   *)
trigger_pending_updater ==
    /\ agent.pc = "trigger"
    /\ updater' = IF updater.pc = "off" THEN [Off EXCEPT !.pc = "load"] ELSE updater
    /\ Goto("idle")
    /\ UNCHANGED <<serverVars, journals, fileVars, faults>>

PollAgain ==
    /\ agent.pc = "idle"
    /\ Goto("report")
    /\ UNCHANGED <<serverVars, journals, selectorFiles, updateFiles>> /\ AgentFrame

-----------------------------------------------------------------------------
(* The updater.                                                             *)

At(from, to) == updater.pc = from /\ updater' = [updater EXCEPT !.pc = to]

Finish(from) == updater.pc = from /\ updater' = Off

UpdaterFrame == UNCHANGED <<serverVars, journals, faults>>

StopAgent == agent' = AgentAt("down", agent.version)

(* The service runs the selected release.                                   *)
StartAgent == agent' = IF agent.pc = "down" THEN AgentAt("report", current) ELSE agent

is_confirmed(op, id) == proof = [op |-> op, id |-> id]

(* What a run begins with: the cleanup of an accepted transition, the        *)
(* recovery of a prepared one, or the request.  A transition whose request   *)
(* is gone is only cleared.                                                 *)
Work ==
    IF transition = None THEN IF pending = None THEN "off" ELSE "check"
    ELSE IF transition.status = "accepted" THEN "forget_pending"
    ELSE IF pending = None THEN IF current = transition.prev THEN "drop_restore" ELSE "off"
    ELSE IF current = transition.prev THEN "revive"
    ELSE IF is_confirmed(transition.op, transition.id) THEN "accept"
    ELSE "stop_candidate"

(* _quarantine_invalid_pending: the request is moved aside, or stays where it *)
(* is when even that fails.                                                 *)
quarantine_invalid_pending ==
    \/ UNCHANGED <<pending, aside>>
    \/ pending' = None /\ aside' = aside \union ({pending} \ {None})

(* A request that cannot be loaded is quarantined, under a prepared          *)
(* transition too.                                                          *)
LoadFails ==
    /\ updater.pc = "load" /\ pending # None
    /\ transition # None => transition.status = "prepared"
    /\ faults < MaxFaults /\ faults' = faults + 1
    /\ quarantine_invalid_pending
    /\ updater' = Off
    /\ UNCHANGED <<serverVars, journals, agent, selectorFiles, attempt, proof, outcome, attempts,
                   accepted>>

LoadTransition ==
    /\ updater.pc = "load"
    /\ updater' = IF Work = "off" THEN Off ELSE [updater EXCEPT !.pc = Work, !.op = pending]
    /\ UNCHANGED <<agent, fileVars>> /\ UpdaterFrame

(* _reconcile_transition goes back to the known good release, starts it, and *)
(* lets the run continue with the request.                                  *)
StopCandidate ==
    /\ At("stop_candidate", "recover")
    /\ StopAgent
    /\ UNCHANGED fileVars /\ UpdaterFrame

(* The prepared file becomes current.json.                                   *)
RestorePrepared(from, to) ==
    /\ At(from, to)
    /\ IF current = transition.prev
       THEN UNCHANGED <<current, restore>>
       ELSE restore /\ current' = transition.prev /\ restore' = FALSE
    /\ UNCHANGED <<agent, transition, updateFiles, accepted, aside>> /\ UpdaterFrame

StartKnownGood ==
    /\ At("revive", "unlink_restore")
    /\ StartAgent
    /\ UNCHANGED fileVars /\ UpdaterFrame

UnlinkRestore(from, to) ==
    /\ At(from, to)
    /\ restore' = FALSE
    /\ UNCHANGED <<agent, current, transition, updateFiles, accepted, aside>> /\ UpdaterFrame

UnlinkTransition(from, to) ==
    /\ updater.pc = from
    /\ updater' = IF to = "off" THEN Off ELSE [updater EXCEPT !.pc = to]
    /\ transition' = None
    /\ UNCHANGED <<agent, current, restore, updateFiles, accepted, aside>> /\ UpdaterFrame

reconcile_transition ==
    \/ StopCandidate \/ RestorePrepared("recover", "revive") \/ StartKnownGood
    \/ UnlinkRestore("unlink_restore", "unlink_transition")
    \/ UnlinkTransition("unlink_transition", "check")
    \/ UnlinkRestore("drop_restore", "drop_transition")
    \/ UnlinkTransition("drop_transition", "off")

Snapshot == <<pending, current, transition, attempt>>

(* An eligible request is extracted without the mutex.                      *)
CheckRequest ==
    /\ updater.pc = "check"
    /\ updater' = [updater EXCEPT !.pc = IF Eligible(updater.op, current) THEN "extract" ELSE "fail",
                                  !.prev = current, !.seen = Snapshot]
    /\ UNCHANGED <<agent, fileVars>> /\ UpdaterFrame

(* Whatever came of the extraction, a request that changed is left alone.    *)
Extract ==
    /\ updater.pc = "extract"
    /\ \/ Snapshot # updater.seen /\ updater' = Off
       \/ Snapshot = updater.seen /\ \E pc \in {"publish", "fail"} : updater' = [updater EXCEPT !.pc = pc]
    /\ UNCHANGED <<agent, fileVars>> /\ UpdaterFrame

(* The release is published, and previous.json and a new attempt written.    *)
(* The directory the package installed is never taken over.                 *)
Publish ==
    /\ updater.pc = "publish"
    /\ IF Version(updater.op) = Installed
       THEN updater' = [updater EXCEPT !.pc = "fail"] /\ UNCHANGED <<attempt, attempts>>
       ELSE /\ updater' = [updater EXCEPT !.pc = "prepare"]
            /\ attempts' = attempts + 1 /\ attempt' = [op |-> updater.op, id |-> attempts + 1]
    /\ UNCHANGED <<agent, selectorFiles, pending, proof, outcome, accepted, aside>> /\ UpdaterFrame

\* Mutant: the file to restore is not written first.
RestoreLater ==
    /\ At("prepare", "journal")
    /\ UNCHANGED <<agent, fileVars>> /\ UpdaterFrame

PrepareRestore ==
    /\ At("prepare", "journal")
    /\ restore' = TRUE
    /\ UNCHANGED <<agent, current, transition, updateFiles, accepted, aside>> /\ UpdaterFrame

PrepareTransition ==
    /\ At("journal", "stop")
    /\ transition' = [status |-> "prepared", prev |-> current, op |-> updater.op, id |-> attempt.id]
    /\ UNCHANGED <<agent, current, restore, updateFiles, accepted, aside>> /\ UpdaterFrame

StopService ==
    /\ updater.pc = "stop"
    /\ updater' = [updater EXCEPT !.pc = "select", !.stopped = TRUE]
    /\ StopAgent
    /\ UNCHANGED fileVars /\ UpdaterFrame

SelectCandidate ==
    /\ At("select", "start")
    /\ current' = Version(updater.op)
    /\ UNCHANGED <<agent, restore, transition, updateFiles, accepted, aside>> /\ UpdaterFrame

StartCandidate ==
    /\ updater.pc = "start"
    /\ updater' = [updater EXCEPT !.pc = "wait", !.seen = Snapshot]
    /\ StartAgent
    /\ UNCHANGED fileVars /\ UpdaterFrame

(* The wait ends with the proof, or without it at its deadline or when the   *)
(* service has stopped; then the mutex is taken again.                      *)
AwaitProof ==
    /\ updater.pc = "wait"
    /\ \E pc \in {"accept", "stop_failed"} :
           /\ pc = "accept" => is_confirmed(updater.op, transition.id)
           /\ updater' = IF Snapshot = updater.seen THEN [updater EXCEPT !.pc = pc] ELSE Off
    /\ UNCHANGED <<agent, fileVars>> /\ UpdaterFrame

Marked == [transition EXCEPT !.status = "accepted"]

MarkAccepted ==
    /\ At("accept", "forget_pending")
    /\ transition' = Marked
    /\ accepted' = Append(accepted, transition.op)
    /\ UNCHANGED <<agent, current, restore, updateFiles, aside>> /\ UpdaterFrame

ForgetPending ==
    /\ At("forget_pending", "forget_attempt")
    /\ pending' = None
    /\ UNCHANGED <<agent, selectorFiles, attempt, proof, outcome, attempts, accepted, aside>> /\ UpdaterFrame

ClearAttempt(from, to) ==
    /\ At(from, to)
    /\ attempt' = None
    /\ UNCHANGED <<agent, selectorFiles, pending, proof, outcome, attempts, accepted, aside>> /\ UpdaterFrame

complete_accepted ==
    \/ ForgetPending \/ ClearAttempt("forget_attempt", "drop_restore")

WriteOutcome(from, to, status) ==
    /\ updater.pc = from
    /\ updater' = IF to = "off" THEN Off ELSE [updater EXCEPT !.pc = to]
    /\ outcome' = [op |-> updater.op, status |-> status, version |-> updater.prev]
    /\ UNCHANGED <<agent, selectorFiles, pending, attempt, proof, attempts, accepted, aside>> /\ UpdaterFrame

(* When the outcome cannot be written the request is quarantined instead.    *)
OutcomeFails(from, to) ==
    /\ At(from, to)
    /\ faults < MaxFaults /\ faults' = faults + 1
    /\ quarantine_invalid_pending
    /\ UNCHANGED <<serverVars, journals, agent, selectorFiles, attempt, proof, outcome, attempts,
                   accepted>>

StopFailed ==
    /\ At("stop_failed", "restore")
    /\ StopAgent
    /\ UNCHANGED fileVars /\ UpdaterFrame

RestartKnownGood ==
    /\ Finish("restart")
    /\ StartAgent
    /\ UNCHANGED fileVars /\ UpdaterFrame

(* _rollback: the outcome is on disk before the known good release starts.   *)
rollback ==
    \/ StopFailed \/ RestorePrepared("restore", "unprepare")
    \/ UnlinkRestore("unprepare", "untransition") \/ UnlinkTransition("untransition", "unattempt")
    \/ ClearAttempt("unattempt", "rolled_back")
    \/ WriteOutcome("rolled_back", "restart", "rolled_back")
    \/ RestartKnownGood

(* An I/O error sends a run into its handler, which records the failure,     *)
(* unless the disk is full, and puts back what the run had changed.  (The    *)
(* service manager's own errors are not caught: UpdaterCrash.)  After the    *)
(* start of the candidate the error is met with the agent running.          *)
Faulty == {"publish", "prepare", "journal", "select", "start", "restore", "unprepare",
           "untransition", "unattempt"}

IoError ==
    /\ updater.pc \in Faulty \union {"extract"}
    /\ updater.pc = "extract" => Snapshot = updater.seen
    /\ faults < MaxFaults /\ faults' = faults + 1
    /\ \E full \in BOOLEAN :
           updater' = [updater EXCEPT !.pc = IF full THEN "undo" ELSE "fail", !.full = full]
    /\ IF updater.pc = "start" THEN StartAgent ELSE UNCHANGED agent
    /\ UNCHANGED <<serverVars, journals, fileVars>>

Undo ==
    /\ updater.pc = "undo"
    /\ IF updater.stopped /\ transition # None
       THEN RestorePrepared("undo", "undo_start")
       ELSE /\ updater' = IF updater.stopped THEN [updater EXCEPT !.pc = "undo_start"]
                          ELSE IF updater.full \/ transition = None THEN Off
                          ELSE [updater EXCEPT !.pc = "drop_restore"]
            /\ UNCHANGED <<agent, fileVars>> /\ UpdaterFrame

(* The handler itself may fail to put the selector back; it then leaves the  *)
(* candidate selected and the agent stopped.                                *)
UndoFails ==
    /\ updater.pc = "undo" /\ updater.stopped /\ transition # None /\ current # transition.prev
    /\ faults < MaxFaults /\ faults' = faults + 1
    /\ updater' = Off
    /\ UNCHANGED <<serverVars, journals, agent, fileVars>>

UndoStart ==
    /\ updater.pc = "undo_start"
    /\ updater' = IF updater.full \/ transition = None THEN Off ELSE [updater EXCEPT !.pc = "drop_restore"]
    /\ StartAgent
    /\ UNCHANGED fileVars /\ UpdaterFrame

handle_failure == WriteOutcome("fail", "undo", "failed") \/ Undo \/ UndoStart

-----------------------------------------------------------------------------
(* Faults.                                                                  *)

AgentCrash ==
    /\ agent.pc \in Running
    /\ faults < MaxFaults /\ faults' = faults + 1
    /\ agent' = AgentAt("report", current)
    /\ UNCHANGED <<serverVars, journals, updater, fileVars>>

(* A cleanup or a recovery that fails, a candidate that does not stop and a  *)
(* mutex that is not obtained again end the run and leave the transition to  *)
(* another one; the known good release, if selected, is started.            *)
Ending == {"extract", "wait", "accept", "forget_pending", "forget_attempt", "drop_restore",
           "drop_transition", "stop_candidate", "recover", "revive", "unlink_restore",
           "unlink_transition", "stop_failed"}

GiveUp ==
    /\ updater.pc \in Ending
    /\ faults < MaxFaults /\ faults' = faults + 1
    /\ updater' = Off
    /\ IF updater.pc = "revive" THEN StartAgent ELSE UNCHANGED agent
    /\ UNCHANGED <<serverVars, journals, fileVars>>

(* The service manager starts the updater again.                            *)
UpdaterCrash ==
    /\ updater.pc # "off"
    /\ faults < MaxFaults /\ faults' = faults + 1
    /\ updater' = [Off EXCEPT !.pc = "load"]
    /\ UNCHANGED <<serverVars, journals, agent, fileVars>>

HostCrash ==
    /\ faults < MaxFaults /\ faults' = faults + 1
    /\ updater' = Off /\ agent' = AgentAt("report", current)
    /\ UNCHANGED <<serverVars, journals, fileVars>>

Agent ==
    \/ report_startup_outcome \/ AcknowledgeFirst \/ SendReport \/ CleanUp \/ run_once \/ Download
    \/ record_scheduled_handoff \/ Acknowledge \/ WritePending \/ trigger_pending_updater \/ PollAgain

Updater ==
    \/ LoadTransition \/ reconcile_transition \/ CheckRequest \/ Extract \/ Publish \/ PrepareRestore
    \/ PrepareTransition \/ StopService \/ SelectCandidate \/ StartCandidate \/ AwaitProof
    \/ MarkAccepted \/ complete_accepted \/ rollback \/ handle_failure

Admin == Administer /\ UNCHANGED <<journals, agent, updater, fileVars, faults>>

Next ==
    \/ Agent \/ record_after_server_handshake \/ Updater \/ Admin
    \/ LoadFails \/ IoError \/ UndoFails \/ GiveUp
    \/ OutcomeFails("rolled_back", "restart") \/ OutcomeFails("fail", "undo")
    \/ CleanUpInterrupted \/ AgentCrash \/ UpdaterCrash \/ HostCrash

Spec == Init /\ [][Next]_vars

(* The network answers in the end.                                          *)
AckAnswered      == AcknowledgeFirst /\ agent'.pc = "send"
ReportAnswered   == SendReport /\ Record(agent.seen.rep, TRUE) \in journal'
RequestAnswered  == run_once /\ agent'.pc = "download"
DownloadAnswered == Download /\ agent'.pc = "handoff"
HandoffAnswered  == Acknowledge /\ agent'.pc = "publish"

FairSpec ==
    /\ Spec
    /\ WF_vars(Agent) /\ WF_vars(Updater)
    /\ SF_vars(AckAnswered) /\ SF_vars(ReportAnswered)
    /\ SF_vars(RequestAnswered) /\ SF_vars(DownloadAnswered) /\ SF_vars(HandoffAnswered)

-----------------------------------------------------------------------------

TypeOK ==
    /\ AdapterTypeOK
    /\ agent.pc \in Running \union {"down"}
    /\ agent.op \in Operations \union {None} /\ agent.version \in Versions
    /\ updater.pc \in Unlocked \union Faulty \union Ending \union
           {"load", "check", "stop", "fail", "undo", "undo_start", "rolled_back", "restart"}
    /\ updater.op \in Operations \union {None} /\ updater.prev \in Versions \union {None}
    /\ current \in Versions /\ restore \in BOOLEAN
    /\ transition \in Transition \union {None} /\ pending \in handoffs \union {None}
    /\ attempt \in Attempt \union {None} /\ proof \in Attempt \union {None}
    /\ attempts \in Nat /\ faults \in 0..MaxFaults
    /\ \A i \in DOMAIN accepted : accepted[i] \in Operations
    /\ aside \subseteq OperationId

(* A release that nobody proved is selected only under a prepared transition *)
(* that leads back to the last accepted release, with the file to restore it *)
(* already on disk; a candidate is accepted on the proof of this very startup *)
(* attempt, and the server knows as applied only accepted operations         *)
(* (updater_service.py:602, is_confirmed; online_update_runtime.py:347).     *)
ProvenOrRestorable ==
    /\ TypeOK
    /\ current # Good =>
           /\ transition # None /\ transition.prev = Good
           /\ transition.status = "prepared" /\ restore
    /\ transition # None /\ transition.status = "accepted" =>
           proof = [op |-> transition.op, id |-> transition.id]
    /\ \A op \in Operations : Target(op) = "applied" => Accepted(op)

(* Whoever reports and cleans up, an unfinished transition keeps the attempt *)
(* and the request that recovery needs to identify it                       *)
(* (online_update_runtime.py:317, updater_service.py:661), unless the        *)
(* updater itself put this request aside (updater_service.py:424, :565).     *)
AuthorityKept ==
    transition # None /\ transition.status = "prepared" =>
        /\ attempt = [op |-> transition.op, id |-> transition.id]
        /\ pending = transition.op \/ (pending = None /\ transition.op \in aside)

(* Four ways to stay silent for good: an outcome left behind by a run after  *)
(* which the update was accepted all the same; an outcome next to an attempt *)
(* whose request was put aside, which the agent takes for another's          *)
(* (online_update_runtime.py:299); a candidate that stays selected under a   *)
(* transition without its request ("unconfirmed transition is missing        *)
(* pending identity", updater_service.py:415); and an agent service that no  *)
(* one starts before the next boot.                                         *)
Overtaken == outcome # None /\ Accepted(outcome.op)
Disowned == outcome # None /\ attempt # None /\ attempt.op \in aside /\ pending # attempt.op
Orphaned == transition # None /\ transition.op \in aside /\ pending = None /\ current # transition.prev
Stranded == agent.pc = "down" /\ updater.pc = "off"

(* An update whose handoff the agent journalled is reported in the end if    *)
(* its rollout stays active, whatever crashes in between                    *)
(* (online_update_runtime.py:211), also when its request was quarantined and *)
(* has to be offered again, with the four exceptions above.                 *)
RequestReported ==
    \A r \in 1..MaxRollouts :
        \/ []<>(<<r, Host>> \in handoffs => NotWaiting(r))
        \/ <>[]Overtaken \/ <>[]Disowned \/ <>[]Orphaned \/ <>[]Stranded
=============================================================================
