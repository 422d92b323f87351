----------------------------- MODULE AltUpdate -----------------------------
(***************************************************************************)
(* The update of one ALT Linux host, from the offer to the report: the agent *)
(* (gateway_update_runtime.py with the journals of update_adapter.py) runs   *)
(* under the launcher (launcher_main.py); a root worker, started by systemd  *)
(* as long as a pending update or a rollback request exists                  *)
(* (deploy/agent/alt), stops the service, installs or rolls back             *)
(* (alt_update_installer.py), gives the files it wrote to the agent's account *)
(* and starts the service again.  The three communicate through files only.  *)
(* Every file is replaced atomically, but for the launcher's own entry in    *)
(* the history, and the host may lose power between any two replacements.    *)
(*                                                                         *)
(* The server is the rollout service of UpdateRollout, with this host as one *)
(* of its devices; UpdateAdapter holds the agent's journals and calls.      *)
(***************************************************************************)
EXTENDS UpdateAdapter

CONSTANTS RetryLimit,    \* IMMEDIATE_CRASH_RETRY_LIMIT of the launcher
          MaxFaults      \* bound on crashes of agent and host and on I/O errors

ASSUME AltAssumption ==
    /\ RetryLimit \in Nat \ {0} /\ MaxFaults \in Nat
    /\ None \notin Nat \union (Nat \X Devices)

VARIABLES
    agent,      \* launcher and agent: [pc, op, version, crashes]
    worker,     \* pc of the root worker
    current,    \* current.json
    previous,   \* previous.json, or None
    releases,   \* complete trees under versions/
    pending,    \* pending_alt_update.json: an operation, or None
    request,    \* rollback-request.json: [crashed, rollback], or None
    marker,     \* last_failed_launch.json: [reason, crashed, rollback], or None
    rejected,   \* last_failed_alt_update.json: the operation of a refused replay, or None
    log,        \* update_history.json: entries with an operation, oldest first
    hidden,     \* of "log" and "marker", the files the agent's account cannot read or write
    faults,     \* faults so far
    selector,   \* history variable: the operation that selected the current release
    blamed,     \* history variable: operations given up in a replay, when already selected
    lost        \* history variable: operations whose outcome was not kept

processVars == <<agent, worker>>
rootVars == <<current, previous, releases, selector>>
updateFiles == <<pending, request, marker, rejected, log, hidden, blamed, lost>>
vars == <<builds, rollouts, reports, agent, worker, current, previous, releases, pending,
          request, marker, rejected, log, hidden, blamed, lost, handoffs, acked, journal, faults,
          selector>>

Running == {"report", "send", "poll", "download", "publish", "handoff", "acknowledge", "idle"}

Init ==
    /\ AdapterInit
    /\ agent = [pc |-> "start", op |-> None, version |-> Installed, crashes |-> 0]
    /\ worker = "idle"
    /\ current = Installed /\ previous = None /\ releases = {Installed}
    /\ pending = None /\ request = None /\ marker = None /\ rejected = None /\ log = << >>
    /\ hidden = {} /\ faults = 0 /\ selector = None /\ blamed = {} /\ lost = {}

-----------------------------------------------------------------------------
(* The agent.                                                               *)

Goto(pc) ==
    agent' = [agent EXCEPT !.pc = pc,
                           !.op = IF pc \in {"publish", "handoff", "acknowledge"} THEN @ ELSE None]

GotoWith(pc, op) == agent' = [agent EXCEPT !.pc = pc, !.op = op]

(* The launcher leaves a pending update to the worker; otherwise it runs the *)
(* selected release.                                                        *)
Launch ==
    /\ agent.pc = "start"
    /\ IF pending # None
       THEN Goto("off")
       ELSE agent' = [pc |-> "report", op |-> None, version |-> current, crashes |-> 0]
    /\ UNCHANGED <<serverVars, worker, rootVars, updateFiles, journals, faults>>

(* The newest entry that says something about the running release.  A file   *)
(* that cannot be read says nothing.                                        *)
Verdict(entry) ==
    CASE ~entry.success -> [op |-> entry.op, status |-> "failed", version |-> entry.version]
      [] "marker" \notin hidden /\ marker # None /\ marker.reason = "startup_crash_rollback"
             /\ marker.crashed = entry.version /\ marker.rollback = agent.version ->
             [op |-> entry.op, status |-> "rolled_back", version |-> agent.version]
      [] entry.version = agent.version ->
             [op |-> entry.op, status |-> "applied", version |-> agent.version]
      [] OTHER -> None

Telling == {i \in DOMAIN log : "log" \notin hidden /\ Verdict(log[i]) # None}

StartupOutcome ==
    IF Telling = {} THEN None
    ELSE Verdict(log[CHOOSE i \in Telling : \A j \in Telling : j <= i])

(* report_startup_outcome: first the scheduled acknowledgement again, then   *)
(* the report.                                                              *)
report_startup_outcome ==
    /\ agent.pc = "report"
    /\ IF StartupOutcome = None
       THEN Goto("poll") /\ UNCHANGED acked /\ UNCHANGED serverVars
       ELSE \E ok \in BOOLEAN :
                /\ retry_scheduled_acknowledgement(StartupOutcome.op, ok)
                /\ Goto(IF ok THEN "send" ELSE "poll")
    /\ UNCHANGED <<worker, rootVars, updateFiles, handoffs, journal, faults>>

SendReport ==
    /\ agent.pc = "send"
    /\ \E ok \in BOOLEAN : report_terminal(StartupOutcome, ok)
    /\ Goto("poll")
    /\ UNCHANGED <<worker, rootVars, updateFiles, handoffs, acked, faults>>

(* run_once: fetch, check, acknowledge "requested".                          *)
run_once ==
    /\ agent.pc = "poll"
    /\ \/ UNCHANGED serverVars /\ Goto("idle")
       \/ \E op \in Operations :
              Requested(op, agent.version) /\ (GotoWith("download", op) \/ Goto("idle"))
    /\ UNCHANGED <<worker, rootVars, updateFiles, journals, faults>>

Download ==
    /\ agent.pc = "download"
    /\ \/ download_update_artifact(agent.op) /\ Goto("publish")
       \/ Goto("idle")
    /\ UNCHANGED <<serverVars, worker, rootVars, updateFiles, journals, faults>>

(* The pending update appears, and the worker may start, before the handoff  *)
(* is journalled.                                                           *)
WritePending ==
    /\ agent.pc = "publish"
    /\ pending' = agent.op
    /\ Goto("handoff")
    /\ UNCHANGED <<serverVars, worker, rootVars, request, marker, rejected, log, hidden, blamed, lost,
                   journals, faults>>

record_scheduled_handoff ==
    /\ agent.pc = "handoff"
    /\ handoffs' = Journalled(agent.op)
    /\ Goto("acknowledge")
    /\ UNCHANGED <<serverVars, worker, rootVars, updateFiles, acked, journal, faults>>

(* Whatever comes of the acknowledgement, the agent ends with               *)
(* EXIT_UPDATE_PENDING and the launcher with it.                            *)
Acknowledge ==
    /\ agent.pc = "acknowledge"
    /\ \E ok \in BOOLEAN : retry_scheduled_acknowledgement(agent.op, ok)
    /\ Goto("off")
    /\ UNCHANGED <<worker, rootVars, updateFiles, handoffs, journal, faults>>

PollAgain ==
    /\ agent.pc = "idle"
    /\ Goto("report")
    /\ UNCHANGED <<serverVars, worker, rootVars, updateFiles, journals, faults>>

(* The agent dies.  A crash soon after its start counts; at the limit the    *)
(* launcher asks for the previous release, or gives up and is restarted by   *)
(* systemd.  With a pending update it leaves the restart to the worker.      *)
RollbackKnown == previous # None /\ previous # agent.version

Crash ==
    /\ agent.pc \in Running
    /\ faults < MaxFaults
    /\ faults' = faults + 1
    /\ \/ pending # None /\ Goto("off") /\ UNCHANGED request
       \/ /\ pending = None
          /\ \E n \in {0, agent.crashes + 1} :
                 /\ n < RetryLimit
                 /\ agent' = [agent EXCEPT !.pc = "report", !.op = None, !.crashes = n]
          /\ UNCHANGED request
       \/ /\ pending = None /\ agent.crashes + 1 = RetryLimit
          /\ request' = IF RollbackKnown THEN [crashed |-> agent.version, rollback |-> previous]
                        ELSE request
          /\ Goto("mark")
    /\ UNCHANGED <<serverVars, worker, rootVars, pending, marker, rejected, log, hidden, blamed, lost,
                   journals>>

(* The launcher adds an entry without an operation to the history and writes *)
(* the marker, each in place: a file of root ends it with an error, and      *)
(* systemd starts it again.                                                 *)
write_failed_launch_marker ==
    /\ agent.pc = "mark"
    /\ IF hidden = {}
       THEN marker' = [reason |-> IF RollbackKnown THEN "startup_crash_rollback_requested"
                                  ELSE "startup_crash",
                       crashed |-> agent.version,
                       rollback |-> IF RollbackKnown THEN previous ELSE None]
       ELSE UNCHANGED marker
    /\ Goto(IF RollbackKnown /\ hidden = {} THEN "off" ELSE "start")
    /\ UNCHANGED <<serverVars, worker, rootVars, pending, request, rejected, log, hidden, blamed, lost,
                   journals, faults>>

-----------------------------------------------------------------------------
(* The root worker.                                                         *)

Step(from, to) == worker = from /\ worker' = to

FileStep(from, to) ==
    Step(from, to) /\ UNCHANGED <<serverVars, agent, journals, faults>>

(* systemd starts the worker as long as one of the two files exists; it stops *)
(* the service before it looks which, and prefers the rollback.              *)
Trigger ==
    /\ pending # None \/ request # None
    /\ Step("idle", IF request # None THEN "rollback" ELSE "update")
    /\ Goto("off")
    /\ UNCHANGED <<serverVars, rootVars, updateFiles, journals, faults>>

Candidate == Version(pending)

(* The request, the artifact and the extracted release are verified and the  *)
(* release published.  An update that is already selected is a replay.       *)
apply_alt_update ==
    /\ FileStep("update", IF current # Candidate THEN "keep_previous"
                          ELSE IF previous \notin {None, Candidate} THEN "record"
                          ELSE "refuse")
    /\ releases' = releases \union {Candidate}
    /\ UNCHANGED <<current, previous, selector, updateFiles>>

(* A failure before the release is published is final, even when the update  *)
(* was selected in an earlier run: `committed` speaks of this run only.      *)
Blamed == IF current = Candidate THEN blamed \union {pending} ELSE blamed

ApplyFails ==
    /\ FileStep("update", "fail")
    /\ blamed' = Blamed
    /\ UNCHANGED <<rootVars, pending, request, marker, rejected, log, hidden, lost>>

(* A request that cannot be read is archived, and the history says nothing.  *)
LoadFails ==
    /\ faults < MaxFaults /\ faults' = faults + 1
    /\ Step("update", "drop")
    /\ blamed' = Blamed /\ lost' = lost \union {pending}
    /\ UNCHANGED <<serverVars, agent, rootVars, pending, request, marker, rejected, log, hidden,
                   journals>>

\* Mutant: an error after the commit point is recorded as a failure.
GivesUp == IF worker = "record" THEN "fail" ELSE "restore"

Resumes == "restore"

(* A failure of a later file operation leaves the request for another run.   *)
(* (When current.json cannot be written the code puts back the previous.json *)
(* it replaced; the next run replaces it again before anyone reads it.)      *)
Deferred ==
    /\ faults < MaxFaults /\ faults' = faults + 1
    /\ worker \notin {"idle", "update", "rollback", "restore", "start"}
    /\ worker' = Resumes
    /\ UNCHANGED <<serverVars, agent, rootVars, updateFiles, journals>>

\* Mutant: the selector is replaced without keeping the previous one.
PreviousUnwritten == previous

PreviousSelector == current

WritePrevious ==
    /\ FileStep("keep_previous", "select")
    /\ previous' = PreviousSelector
    /\ UNCHANGED <<current, releases, selector, updateFiles>>

WriteCurrent ==
    /\ FileStep("select", "record")
    /\ current' = Candidate /\ selector' = pending
    /\ UNCHANGED <<previous, releases, updateFiles>>

(* A history that belongs to root is an unsafe one: it is put aside and a     *)
(* new one started.                                                         *)
History == IF "log" \in hidden THEN << >> ELSE log

(* An operation has one entry at most (LogSafe of RolloutProofs): the new    *)
(* one replaces it and comes last.                                          *)
Earlier(op) == {i \in DOMAIN History : History[i].op = op}

Without(op) ==
    IF Earlier(op) = {} THEN History
    ELSE LET i == CHOOSE i \in Earlier(op) : TRUE IN
             SubSeq(History, 1, i - 1) \o SubSeq(History, i + 1, Len(History))

Entries == {log[i].op : i \in DOMAIN log}

Lost == (IF "log" \in hidden THEN lost \union Entries ELSE lost) \ {pending}

Logged(entry) == Append(Without(entry.op), entry)

AppendSuccess ==
    /\ FileStep("record", "unlink")
    /\ log' = Logged([op |-> pending, version |-> Candidate, success |-> TRUE])
    /\ hidden' = hidden \union {"log"}
    /\ blamed' = blamed \ {pending} /\ lost' = Lost
    /\ UNCHANGED <<rootVars, pending, request, marker, rejected>>

AppendFailure ==
    /\ FileStep("fail", "drop")
    /\ log' = Logged([op |-> pending, version |-> Candidate, success |-> FALSE])
    /\ hidden' = hidden \union {"log"} /\ lost' = Lost
    /\ UNCHANGED <<rootVars, pending, request, marker, rejected, blamed>>

(* The pending update is unlinked when recorded, and archived when it failed *)
(* or was refused: a replay without a distinct previous release.             *)
UnlinkPending ==
    /\ \/ FileStep("unlink", "restore") /\ UNCHANGED rejected
       \/ FileStep("drop", "restore") /\ rejected' = None
       \/ FileStep("refuse", "restore") /\ rejected' = pending
    /\ pending' = None
    /\ UNCHANGED <<rootVars, request, marker, log, hidden, blamed, lost>>

Authorized ==
    /\ previous # None /\ request.rollback = previous
    /\ current \in {request.crashed, request.rollback}

apply_alt_rollback ==
    /\ FileStep("rollback", IF Authorized THEN "mark" ELSE "unlink_request")
    /\ IF Authorized
       THEN current' = request.rollback /\ selector' = None
       ELSE UNCHANGED <<current, selector>>
    /\ UNCHANGED <<previous, releases, updateFiles>>

WriteMarker ==
    /\ FileStep("mark", "unlink_request")
    /\ marker' = [reason |-> "startup_crash_rollback",
                  crashed |-> request.crashed, rollback |-> request.rollback]
    /\ hidden' = hidden \union {"marker"}
    /\ UNCHANGED <<rootVars, pending, request, rejected, log, blamed, lost>>

UnlinkRequest ==
    /\ FileStep("unlink_request", IF Authorized THEN "forget_previous" ELSE "restore")
    /\ request' = None
    /\ UNCHANGED <<rootVars, pending, marker, rejected, log, hidden, blamed, lost>>

UnlinkPrevious ==
    /\ FileStep("forget_previous", "restore")
    /\ previous' = None
    /\ UNCHANGED <<current, releases, selector, updateFiles>>

(* The script gives the files back one by one, the history first.            *)
restore_update_state_owner ==
    /\ FileStep("restore", "start")
    /\ hidden' = hidden \ {"log"}
    /\ UNCHANGED <<rootVars, pending, request, marker, rejected, log, blamed, lost>>

StartService ==
    /\ Step("start", "idle")
    /\ hidden' = {}
    /\ Goto("start")
    /\ UNCHANGED <<serverVars, rootVars, pending, request, marker, rejected, log, blamed, lost,
                   journals, faults>>

(* Power fails; at boot the service starts and the path unit looks again.    *)
(* The history the launcher was writing may be lost.                        *)
HostCrash ==
    /\ faults < MaxFaults /\ faults' = faults + 1
    /\ worker' = "idle"
    /\ agent' = [agent EXCEPT !.pc = "start", !.op = None, !.crashes = 0]
    /\ \/ UNCHANGED <<log, lost>>
       \/ /\ agent.pc = "mark" /\ "log" \notin hidden
          /\ log' = << >> /\ lost' = lost \union Entries
    /\ UNCHANGED <<serverVars, rootVars, pending, request, marker, rejected, hidden, blamed,
                   journals>>

Worker ==
    \/ Trigger \/ apply_alt_update \/ ApplyFails \/ WritePrevious \/ WriteCurrent
    \/ AppendSuccess \/ AppendFailure \/ UnlinkPending
    \/ apply_alt_rollback \/ WriteMarker \/ UnlinkRequest \/ UnlinkPrevious
    \/ restore_update_state_owner \/ StartService

Agent ==
    \/ Launch \/ report_startup_outcome \/ SendReport \/ run_once \/ Download
    \/ WritePending \/ record_scheduled_handoff \/ Acknowledge
    \/ PollAgain \/ write_failed_launch_marker

Admin == Administer /\ UNCHANGED <<processVars, rootVars, updateFiles, journals, faults>>

Next == Agent \/ Worker \/ Admin \/ Crash \/ LoadFails \/ Deferred \/ HostCrash

Spec == Init /\ [][Next]_vars

(* The network answers in the end: a call made again and again gets through  *)
(* and its answer is received.                                              *)
AckAnswered      == report_startup_outcome /\ agent'.pc = "send"
ReportAnswered   == SendReport /\ Record(StartupOutcome, TRUE) \in journal'
RequestAnswered  == run_once /\ agent'.pc = "download"
DownloadAnswered == Download /\ agent'.pc = "publish"

FairSpec ==
    /\ Spec
    /\ WF_vars(Agent) /\ WF_vars(Worker)
    /\ SF_vars(AckAnswered) /\ SF_vars(ReportAnswered)
    /\ SF_vars(RequestAnswered) /\ SF_vars(DownloadAnswered)

-----------------------------------------------------------------------------

TypeOK ==
    /\ AdapterTypeOK
    /\ agent.pc \in Running \union {"off", "start", "mark"}
    /\ agent.op \in Operations \union {None}
    /\ agent.version \in Versions /\ agent.crashes \in 0..RetryLimit - 1
    /\ worker \in {"idle", "update", "fail", "drop", "refuse", "keep_previous", "select", "record", "unlink",
                   "rollback", "mark", "unlink_request", "forget_previous", "restore", "start"}
    /\ current \in Versions /\ previous \in Versions \union {None} /\ releases \subseteq Versions
    /\ pending \in Operations \union {None}
    /\ request # None => request.crashed \in Versions /\ request.rollback \in Versions
    /\ \A i \in DOMAIN log : log[i].op \in Operations /\ log[i].version \in Versions
    /\ hidden \subseteq {"log", "marker"} /\ blamed \union lost \subseteq Nat \X Devices
    /\ faults \in 0..MaxFaults

(* The launcher runs the selected release only, and until the outcome of the *)
(* update that selected it is known to the server there is an authorised,    *)
(* complete release to go back to, wherever the power failed (previous.json  *)
(* is written before current.json, alt_update_installer.py:115).            *)
WayBack ==
    /\ TypeOK
    /\ agent.pc \in Running \union {"mark"} =>
        /\ agent.version = current /\ current \in releases
        /\ (selector # None /\ Target(selector) \in Open) => previous \in releases \ {current}

(* An operation the server records as failed or rolled back is undone on the *)
(* host: what it installed is not selected and no request to install it is   *)
(* left, although a host that could not deliver its report installs the      *)
(* offered build again (on_connected, endpoint_gateway.py:232).  The one     *)
(* exception is an update that was selected, whose host then lost power      *)
(* before the request was removed, and whose replay failed before it found   *)
(* the release selected: the handler at alt_update_installer.py:142 records  *)
(* that failure although the build runs.                                    *)
UndoneIsUndone ==
    \A op \in Operations : Target(op) \in {"failed", "rolled_back"} =>
        pending # op /\ (selector = op => op \in blamed)

(* An update whose handoff the agent journalled is reported in the end, if   *)
(* its rollout stays active, whatever crashes in between                    *)
(* (report_startup_outcome, gateway_update_runtime.py:102); a handoff stays  *)
(* journalled, so []<> says it of each one.  There are three                 *)
(* exceptions: the worker refuses the update as an inconsistent replay, of   *)
(* which it keeps no outcome (alt_update_installer.py:827); the outcome is   *)
(* lost (the request could not be read, :150, or the history was put aside,  *)
(* :784, or half written, launcher_main.py:104) and the agent declines the   *)
(* offer as the build already runs; or the history stays in root's hands for *)
(* good, because the power failed between the removal of the request and the *)
(* change of its owner (apply-pending-alt-update.sh:163).                   *)
HandoffReported ==
    \A r \in 1..MaxRollouts :
        \/ []<>(<<r, Host>> \in handoffs => NotWaiting(r) \/ rejected = <<r, Host>>)
        \/ <>[](<<r, Host>> \in lost /\ Version(<<r, Host>>) = current)
        \/ <>[]("log" \in hidden)
=============================================================================
