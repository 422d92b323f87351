------------------------ MODULE WindowsUpdateProofs ------------------------
(***************************************************************************)
(* Theorems about the update of a Windows host, for any builds, bounds and  *)
(* any number of faults.                                                    *)
(***************************************************************************)
EXTENDS WindowsUpdate, SequenceTheorems, TLAPS

-----------------------------------------------------------------------------
(* Shapes *)

Modes    == {"canary", "bulk", "rollback"}
Statuses == {"active", "paused", "completed", "cancelled"}
States   == Open \union Terminal
Targets  == UNION {[ds -> States] : ds \in SUBSET Devices}
Rollout  == [build : Builds, mode : Modes, status : Statuses, pauses : 0..MaxPauses,
             targets : Targets]

Report == [op : OperationId, status : Outcomes, version : Versions \union {None}]
Seen   == [rep : Report, pending : OperationId \union {None}, attempt : Attempt \union {None}]

AgentShape == [pc : Running \union {"down"}, op : OperationId \union {None}, version : Versions,
               seen : Seen \union {None}]

UpdaterPcs == Unlocked \union Faulty \union
    {"load", "check", "stop", "fail", "undo", "undo_start", "accept", "forget_pending", "forget_attempt",
     "drop_restore", "drop_transition", "revive", "stop_candidate", "recover", "unlink_restore",
     "unlink_transition", "stop_failed", "rolled_back", "restart"}

Snapshots == (OperationId \union {None}) \X Versions \X (Transition \union {None}) \X (Attempt \union {None})

UpdaterShape == [pc : UpdaterPcs, op : OperationId \union {None}, prev : Versions \union {None},
                 seen : Snapshots \union {None}, stopped : BOOLEAN, full : BOOLEAN]

(* The service's rows.                                                      *)
ServerShape ==
    /\ builds \subseteq Builds
    /\ rollouts \in Seq(Rollout)
    /\ \A r \in DOMAIN rollouts : rollouts[r].build \in builds
    /\ \A row \in reports : row.op \in Operations /\ row.status \in Outcomes

Journals ==
    /\ acked \subseteq handoffs /\ handoffs \subseteq Operations
    /\ \A rec \in journal : rec.op \in Operations /\ rec.status \in Outcomes

(* The files: what they name are operations.                                *)
Files ==
    /\ current \in Versions /\ restore \in BOOLEAN
    /\ transition \in Transition \union {None} /\ pending \in OperationId \union {None}
    /\ attempt \in Attempt \union {None} /\ proof \in Attempt \union {None}
    /\ outcome \in Report \union {None} /\ attempts \in Nat
    /\ accepted \in Seq(OperationId) /\ aside \subseteq OperationId
    /\ \A i \in DOMAIN accepted : accepted[i] \in Operations
    /\ transition # None => transition.op \in Operations
    /\ attempt # None => attempt.op \in Operations
    /\ proof # None => proof.op \in Operations
    /\ outcome # None => outcome.op \in Operations /\ outcome.status # "applied"

Processes == agent \in AgentShape /\ updater \in UpdaterShape /\ faults \in 0..MaxFaults

Shapes == ServerShape /\ Journals /\ Files /\ Processes /\ pending \in handoffs \union {None}

-----------------------------------------------------------------------------
(* The inductive invariant *)

Prepared == transition # None /\ transition.status = "prepared"
Marking  == transition # None /\ transition.status = "accepted"
Own(t)   == [op |-> t.op, id |-> t.id]

(* Without a transition the last accepted release is selected.  A prepared  *)
(* one leads back to it from a candidate that differs from it, and has its  *)
(* attempt and its request, unless the updater put this aside; a marked one *)
(* has the proof of its attempt.  An attempt or a proof left over is not    *)
(* for the selected release, unless its operation was accepted.             *)
Selection ==
    /\ transition = None => current = Good
    /\ Prepared => /\ transition.prev = Good /\ Version(transition.op) # Good
                   /\ current # Good => restore /\ current = Version(transition.op)
                   /\ attempt = Own(transition)
                   /\ pending = transition.op \/ (pending = None /\ transition.op \in aside)
    /\ Marking => /\ current = Good /\ Version(transition.op) = Good /\ Accepted(transition.op)
                  /\ proof = Own(transition) /\ attempt \in {None, Own(transition)}
    /\ transition = None /\ attempt # None => Version(attempt.op) # Good
    /\ proof # None /\ Version(proof.op) = Good => Accepted(proof.op)

(* The server knows as applied only accepted operations.                    *)
AppliedAccepted == \A op \in Operations : Target(op) = "applied" => Accepted(op)

(* What the position of the updater says of the files.                      *)
PositionAt(u) ==
    /\ u.pc \in {"check", "extract", "publish", "prepare", "journal", "unattempt"} => transition = None
    /\ u.pc \in {"stop", "select", "start", "wait", "accept", "stop_failed", "restore", "unprepare",
                 "untransition", "stop_candidate", "recover", "revive", "unlink_restore",
                 "unlink_transition"} => Prepared
    /\ u.pc \in {"forget_pending", "forget_attempt"} => Marking
    /\ u.pc \in {"drop_restore", "drop_transition"} => transition # None /\ (Marking => attempt = None)
    /\ u.pc \in {"fail", "undo", "undo_start", "rolled_back"} => ~Marking
    /\ u.pc \in {"stop", "select", "revive", "unlink_restore", "unlink_transition", "unprepare",
                 "untransition", "drop_restore", "drop_transition", "undo_start"} => current = Good
    /\ u.pc \in {"journal", "stop", "select"} => restore
    /\ u.pc \in {"stop", "select", "start", "wait"} => transition.op = u.op
    /\ u.pc \in {"start", "wait", "accept"} => current = Version(transition.op)
    /\ u.pc = "accept" => proof = Own(transition)
    /\ u.pc \in {"stop_candidate", "recover", "revive", "unlink_restore", "unlink_transition",
                 "check", "publish", "prepare", "journal"} => pending = u.op
    /\ u.pc = "extract" => u.seen \in Snapshots /\ u.seen[1] = u.op
    /\ u.pc \in {"extract", "publish", "prepare", "journal"} => Version(u.op) # current
    /\ u.pc \in {"prepare", "journal"} => attempt # None /\ attempt.op = u.op
    /\ u.pc \in {"select", "start", "wait", "stop_failed", "restore"} => u.stopped
    /\ u.pc \in {"fail", "undo"} /\ ~u.stopped => current = Good
    /\ u.op # None => u.op \in Operations
    /\ u.pc \notin {"off", "load", "forget_pending", "forget_attempt", "drop_restore",
                 "drop_transition"} => u.op # None

Position == PositionAt(updater)

(* What the agent has in hand is an operation, journalled when it comes to  *)
(* its request, and accepted when it is reported as applied.                *)
AtHand ==
    /\ agent.op # None => agent.op \in Operations
    /\ agent.pc \in {"download", "handoff"} => agent.op # None
    /\ agent.pc \in {"acknowledge", "publish"} => agent.op \in handoffs
    /\ agent.pc \in {"ack", "send", "cleanup"} =>
           /\ agent.seen \in Seen /\ agent.seen.rep.op \in Operations
           /\ agent.seen.rep.status = "applied" => Accepted(agent.seen.rep.op)

Safe == Shapes /\ Selection /\ AppliedAccepted /\ Position /\ AtHand

-----------------------------------------------------------------------------
(* The service *)

LEMMA Fields ==
    ASSUME ServerShape
    PROVE  /\ \A r \in DOMAIN rollouts : rollouts[r] \in Rollout
           /\ DOMAIN rollouts = 1..Len(rollouts) /\ Len(rollouts) \in Nat
    BY DEF ServerShape

LEMMA OperationParts ==
    ASSUME ServerShape, NEW op \in Operations
    PROVE  /\ op[1] \in DOMAIN rollouts /\ op[2] \in Devices
           /\ op[2] \in DOMAIN rollouts[op[1]].targets
           /\ op = <<op[1], op[2]>> /\ op \in OperationId
           /\ Version(op) \in Versions
    <1>1. /\ op[1] \in DOMAIN rollouts /\ op[2] \in Devices
          /\ op[2] \in DOMAIN rollouts[op[1]].targets /\ op = <<op[1], op[2]>>
      BY DEF Operations
    <1>2. op[1] \in Nat
      BY <1>1, Fields
    <1>3. Version(op) \in Versions
      BY <1>1 DEF Version, Versions, ServerShape
    <1> QED BY <1>1, <1>2, <1>3 DEF OperationId

(* A step of the service in which operation o may move to s.  What exists   *)
(* stays, and what is added has not been answered.                          *)
ServerStep(o, s) ==
    /\ builds' = builds /\ rollouts' \in Seq(Rollout)
    /\ DOMAIN rollouts \subseteq DOMAIN rollouts'
    /\ \A r \in DOMAIN rollouts :
           /\ rollouts'[r].build = rollouts[r].build
           /\ DOMAIN rollouts'[r].targets = DOMAIN rollouts[r].targets
           /\ \A d \in DOMAIN rollouts[r].targets :
                  \/ rollouts'[r].targets[d] = rollouts[r].targets[d]
                  \/ r = o[1] /\ d = o[2] /\ rollouts'[r].targets[d] = s
    /\ \A r \in (DOMAIN rollouts') \ DOMAIN rollouts :
           /\ rollouts'[r].build \in builds
           /\ \A d \in DOMAIN rollouts'[r].targets : rollouts'[r].targets[d] = "assigned"

LEMMA StepFromExcept ==
    ASSUME ServerShape, NEW op \in Operations, NEW s \in States, NEW st \in Statuses, builds' = builds,
           rollouts' = [rollouts EXCEPT ![op[1]] =
                           [rollouts[op[1]] EXCEPT
                               !.targets = [rollouts[op[1]].targets EXCEPT ![op[2]] = s],
                               !.status = st]]
    PROVE  ServerStep(op, s)
    <1> DEFINE r == op[1]
    <1> DEFINE ts == [rollouts[r].targets EXCEPT ![op[2]] = s]
    <1> DEFINE new == [rollouts[r] EXCEPT !.targets = ts, !.status = st]
    <1>1. /\ r \in DOMAIN rollouts /\ op[2] \in Devices /\ op[2] \in DOMAIN rollouts[r].targets
          /\ rollouts[r] \in Rollout
      BY OperationParts, Fields
    <1>2. PICK ds \in SUBSET Devices : rollouts[r].targets \in [ds -> States]
      BY <1>1 DEF Rollout, Targets
    <1>3. ts \in [ds -> States]
      BY <1>2
    <1>4. ts \in Targets
      BY <1>3 DEF Targets
    <1>5. rollouts' = [rollouts EXCEPT ![r] = new]
      OBVIOUS
    <1>6. /\ DOMAIN ts = DOMAIN rollouts[r].targets
          /\ \A d \in DOMAIN rollouts[r].targets :
                 ts[d] = IF d = op[2] THEN s ELSE rollouts[r].targets[d]
      BY <1>1
    <1> HIDE DEF ts
    <1>7. new \in Rollout
      BY <1>1, <1>4 DEF Rollout
    <1>8. rollouts' \in Seq(Rollout)
      BY <1>1, <1>7, <1>5 DEF ServerShape
    <1>9. /\ DOMAIN rollouts' = DOMAIN rollouts /\ rollouts'[r] = new
          /\ \A q \in DOMAIN rollouts : q # r => rollouts'[q] = rollouts[q]
      BY <1>1, <1>5
    <1>10. new.build = rollouts[r].build /\ new.targets = ts
      BY <1>1 DEF Rollout
    <1> HIDE DEF new
    <1> QED BY <1>8, <1>9, <1>10, <1>6 DEF ServerStep, r

LEMMA StepFromStatus ==
    ASSUME ServerShape, NEW r \in DOMAIN rollouts, NEW st \in Statuses, NEW n \in 0..MaxPauses,
           builds' = builds,
           rollouts' = [rollouts EXCEPT ![r] = [rollouts[r] EXCEPT !.status = st, !.pauses = n]]
    PROVE  \A o, s : ServerStep(o, s)
    <1> DEFINE new == [rollouts[r] EXCEPT !.status = st, !.pauses = n]
    <1>1. rollouts[r] \in Rollout
      BY Fields
    <1>2. new \in Rollout /\ new.build = rollouts[r].build /\ new.targets = rollouts[r].targets
      BY <1>1 DEF Rollout
    <1>3. rollouts' = [rollouts EXCEPT ![r] = new]
      OBVIOUS
    <1>4. rollouts' \in Seq(Rollout)
      BY <1>2, <1>3 DEF ServerShape
    <1>5. DOMAIN rollouts' = DOMAIN rollouts /\ rollouts'[r] = new
          /\ \A q \in DOMAIN rollouts : q # r => rollouts'[q] = rollouts[q]
      BY <1>3
    <1> HIDE DEF new
    <1> QED BY <1>2, <1>4, <1>5 DEF ServerStep

LEMMA StepFromCreate ==
    ASSUME ServerShape, NEW b \in builds, NEW mode \in Modes, NEW ds \in SUBSET Devices,
           CreateActive(b, mode, ds)
    PROVE  \A o, s : ServerStep(o, s)
    <1> DEFINE new == [build |-> b, mode |-> mode, status |-> "active", pauses |-> 0,
                       targets |-> [d \in ds |-> "assigned"]]
    <1>1. [d \in ds |-> "assigned"] \in Targets
      BY DEF Targets, States, Open
    <1>2. new \in Rollout /\ new.build = b /\ new.targets = [d \in ds |-> "assigned"]
      BY <1>1, RolloutAssumption DEF ServerShape, Rollout, Statuses
    <1>3. rollouts' = Append(rollouts, new) /\ builds' = builds
      BY DEF CreateActive
    <1> HIDE DEF new
    <1>4. rollouts \in Seq(Rollout)
      BY DEF ServerShape
    <1>5. /\ rollouts' \in Seq(Rollout)
          /\ DOMAIN rollouts' = DOMAIN rollouts \union {Len(rollouts) + 1}
          /\ \A r \in DOMAIN rollouts : rollouts'[r] = rollouts[r]
          /\ rollouts'[Len(rollouts) + 1] = new
      BY <1>2, <1>3, <1>4
    <1> QED BY <1>2, <1>3, <1>5 DEF ServerStep

LEMMA Stays ==
    ASSUME ServerShape, UNCHANGED <<builds, rollouts>>
    PROVE  \A o, s : ServerStep(o, s)
    <1>1. rollouts' = rollouts /\ builds' = builds
      OBVIOUS
    <1> QED BY <1>1 DEF ServerShape, ServerStep

LEMMA AckStep ==
    ASSUME ServerShape, NEW op \in Operations, NEW s \in {"requested", "scheduled"}, record_ack(op, s)
    PROVE  ServerStep(op, s) /\ reports' = reports
    <1>1. /\ rollouts[op[1]].status = "active" /\ builds' = builds /\ reports' = reports
          /\ rollouts' = rollouts \/ rollouts' = WithTarget(op, s)
      BY DEF record_ack, AckAccepted
    <1>2. op[1] \in DOMAIN rollouts /\ rollouts[op[1]] \in Rollout
      BY OperationParts, Fields
    <1>3. WithTarget(op, s) = [rollouts EXCEPT ![op[1]] =
                                  [rollouts[op[1]] EXCEPT
                                      !.targets = [rollouts[op[1]].targets EXCEPT ![op[2]] = s],
                                      !.status = "active"]]
      BY <1>1, <1>2 DEF WithTarget, Rollout
    <1>4. s \in States /\ "active" \in Statuses
      BY DEF States, Open, Statuses
    <1> QED BY <1>1, <1>3, <1>4, StepFromExcept, Stays

LEMMA ReportStep ==
    ASSUME ServerShape, NEW op \in Operations, NEW rep, rep.status \in Outcomes,
           record_report(op, rep)
    PROVE  /\ ServerStep(op, rep.status)
           /\ reports' = reports \union
                  {[op |-> op, key |-> rep.key, status |-> rep.status, version |-> rep.version]}
    <1> DEFINE r == op[1]
    <1> DEFINE ts == [rollouts[r].targets EXCEPT ![op[2]] = rep.status]
    <1> DEFINE st == IF \A d \in DOMAIN ts : ts[d] \in Terminal THEN "completed" ELSE rollouts[r].status
    <1>1. r \in DOMAIN rollouts /\ rollouts[r] \in Rollout
      BY OperationParts, Fields
    <1>2. /\ DOMAIN WithTarget(op, rep.status) = DOMAIN rollouts
          /\ WithTarget(op, rep.status)[r] = [rollouts[r] EXCEPT !.targets = ts]
          /\ WithTarget(op, rep.status)[r].targets = ts
          /\ WithTarget(op, rep.status)[r].status = rollouts[r].status
      BY <1>1 DEF WithTarget, Rollout
    <1>3. rollouts' = [WithTarget(op, rep.status) EXCEPT ![r] =
                          [WithTarget(op, rep.status)[r] EXCEPT !.status = st]]
      BY <1>2 DEF record_report, Closed
    <1>4. [[rollouts[r] EXCEPT !.targets = ts] EXCEPT !.status = st]
              = [rollouts[r] EXCEPT !.targets = ts, !.status = st]
      BY <1>1 DEF Rollout
    <1>5. st \in Statuses
      BY <1>1 DEF Rollout, Statuses
    <1> HIDE DEF ts, st
    <1>6. rollouts' = [rollouts EXCEPT ![r] = [rollouts[r] EXCEPT !.targets = ts, !.status = st]]
      <2>1. rollouts' = [WithTarget(op, rep.status) EXCEPT ![r] =
                            [rollouts[r] EXCEPT !.targets = ts, !.status = st]]
        BY <1>2, <1>3, <1>4
      <2>2. WithTarget(op, rep.status) = [rollouts EXCEPT ![r] = [rollouts[r] EXCEPT !.targets = ts]]
        BY <1>1 DEF WithTarget, Rollout, ts
      <2> QED BY <1>1, <2>1, <2>2
    <1>7. rep.status \in States /\ builds' = builds
      BY DEF States, Terminal, record_report
    <1>8. ServerStep(op, rep.status)
      BY <1>5, <1>6, <1>7, StepFromExcept DEF ts
    <1> QED BY <1>8 DEF record_report

(* What administrators do reports nothing as applied.                       *)
LEMMA AdminStep ==
    ASSUME ServerShape, Administer
    PROVE  reports' = reports /\ \E o : ServerStep(o, "cancelled")
    <1>0. {Host} \in SUBSET Devices
      BY AdapterAssumption
    <1>1. CASE \E b \in Builds : create_rollout(b, "canary", {Host})
      BY <1>0, <1>1, StepFromCreate DEF create_rollout, CreateActive, Modes
    <1>2. CASE \E r \in DOMAIN rollouts, b \in Builds : create_rollback_rollout(r, b, {Host})
      BY <1>0, <1>2, StepFromCreate DEF create_rollback_rollout, OlderBuild, CreateActive, Modes
    <1>3. CASE \E r \in Pausable \intersect DOMAIN rollouts : pause_rollout(r) \/ activate_rollout(r)
      <2>1. PICK r \in DOMAIN rollouts : pause_rollout(r) \/ activate_rollout(r)
        BY <1>3
      <2>2. rollouts[r] \in Rollout
        BY Fields
      <2>3. CASE pause_rollout(r)
        <3>1. rollouts[r].pauses + 1 \in 0..MaxPauses /\ "paused" \in Statuses
          BY <2>2, <2>3, RolloutAssumption DEF pause_rollout, Rollout, Statuses
        <3>2. rollouts' = [rollouts EXCEPT ![r] =
                  [rollouts[r] EXCEPT !.status = "paused", !.pauses = rollouts[r].pauses + 1]]
          BY <2>2, <2>3 DEF pause_rollout, Rollout
        <3> QED BY <2>3, <3>1, <3>2, StepFromStatus DEF pause_rollout
      <2>4. CASE activate_rollout(r)
        <3>1. rollouts[r].pauses \in 0..MaxPauses /\ "active" \in Statuses
          BY <2>2 DEF Rollout, Statuses
        <3>2. rollouts' = [rollouts EXCEPT ![r] =
                  [rollouts[r] EXCEPT !.status = "active", !.pauses = rollouts[r].pauses]]
          BY <2>2, <2>4 DEF activate_rollout, Rollout
        <3> QED BY <2>4, <3>1, <3>2, StepFromStatus DEF activate_rollout
      <2> QED BY <2>1, <2>3, <2>4
    <1>4. CASE \E op \in Operations : cancel_paused_singleton_rollout(op, rollout_cancellation_context(op))
      <2>1. PICK op \in Operations : cancel_paused_singleton_rollout(op, rollout_cancellation_context(op))
        BY <1>4
      <2>2. rollouts' = [WithTarget(op, "cancelled") EXCEPT ![op[1]].status = "cancelled"]
            /\ builds' = builds /\ reports' = reports
        BY <2>1 DEF cancel_paused_singleton_rollout
      <2>3. op[1] \in DOMAIN rollouts /\ rollouts[op[1]] \in Rollout
        BY OperationParts, Fields
      <2>4. rollouts' = [rollouts EXCEPT ![op[1]] =
                            [rollouts[op[1]] EXCEPT
                                !.targets = [rollouts[op[1]].targets EXCEPT ![op[2]] = "cancelled"],
                                !.status = "cancelled"]]
        BY <2>2, <2>3 DEF WithTarget, Rollout
      <2>5. "cancelled" \in States /\ "cancelled" \in Statuses
        BY DEF States, Terminal, Statuses
      <2>6. ServerStep(op, "cancelled")
        BY <2>2, <2>4, <2>5, StepFromExcept
      <2> QED BY <2>2, <2>6
    <1> QED BY <1>1, <1>2, <1>3, <1>4 DEF Administer

(* What is known of operations stays known.                                 *)
LEMMA ServerKept ==
    ASSUME ServerShape, NEW o, NEW s, ServerStep(o, s),
           \A row \in reports' : row \in reports \/ (row.op \in Operations /\ row.status \in Outcomes)
    PROVE  /\ ServerShape' /\ Operations \subseteq Operations'
           /\ \A op \in Operations : rollouts'[op[1]].build = rollouts[op[1]].build
           /\ \A op \in Operations' : rollouts'[op[1]].targets[op[2]] = "applied" =>
                  op \in Operations /\ (Target(op) = "applied" \/ (op = <<o[1], o[2]>> /\ s = "applied"))
    <1>1. Operations \subseteq Operations'
      BY DEF Operations, ServerStep
    <1>2. ServerShape'
      BY <1>1 DEF ServerShape, ServerStep
    <1>3. \A op \in Operations : rollouts'[op[1]].build = rollouts[op[1]].build
      BY OperationParts DEF ServerStep
    <1>4. ASSUME NEW op \in Operations', rollouts'[op[1]].targets[op[2]] = "applied"
          PROVE  op \in Operations /\ (Target(op) = "applied" \/ (op = <<o[1], o[2]>> /\ s = "applied"))
      <2>1. /\ op = <<op[1], op[2]>> /\ op[1] \in DOMAIN rollouts' /\ op[2] \in Devices
            /\ op[2] \in DOMAIN rollouts'[op[1]].targets
        BY DEF Operations
      <2>2. op[1] \in DOMAIN rollouts
        BY <1>4, <2>1 DEF ServerStep
      <2>3. op[2] \in DOMAIN rollouts[op[1]].targets
        BY <2>1, <2>2 DEF ServerStep
      <2>4. <<op[1], op[2]>> \in Operations
        BY <2>1, <2>2, <2>3 DEF Operations
      <2>5. \/ rollouts'[op[1]].targets[op[2]] = rollouts[op[1]].targets[op[2]]
            \/ op[1] = o[1] /\ op[2] = o[2] /\ rollouts'[op[1]].targets[op[2]] = s
        BY <2>2, <2>3 DEF ServerStep
      <2> QED BY <1>4, <2>1, <2>4, <2>5 DEF Target
    <1> QED BY <1>1, <1>2, <1>3, <1>4

LEMMA LastAccepted ==
    ASSUME Files, accepted # << >>
    PROVE  /\ Len(accepted) \in DOMAIN accepted /\ accepted[Len(accepted)] \in Operations
           /\ Good = Version(accepted[Len(accepted)])
    BY DEF Files, Good

LEMMA GoodKept ==
    ASSUME Files, accepted' = accepted,
           \A op \in Operations : rollouts'[op[1]].build = rollouts[op[1]].build
    PROVE  Good' = Good /\ \A op : Accepted(op)' = Accepted(op)
    <1>1. \A op : Accepted(op)' = Accepted(op)
      BY DEF Accepted
    <1>2. CASE accepted = << >>
      BY <1>1, <1>2 DEF Good
    <1>3. CASE accepted # << >>
      BY <1>1, <1>3, LastAccepted DEF Good, Version
    <1> QED BY <1>2, <1>3

(* A step of the service leaves the files and the updater alone.            *)
LEMMA HostKept ==
    ASSUME Safe, UNCHANGED <<fileVars, updater>>, Operations \subseteq Operations',
           \A op \in Operations : rollouts'[op[1]].build = rollouts[op[1]].build
    PROVE  Files' /\ Selection' /\ Position'
    <1>1. /\ current' = current /\ restore' = restore /\ transition' = transition /\ pending' = pending
          /\ attempt' = attempt /\ proof' = proof /\ outcome' = outcome /\ attempts' = attempts
          /\ accepted' = accepted /\ aside' = aside /\ updater' = updater
      BY DEF fileVars, selectorFiles, updateFiles
    <1>2. Good' = Good /\ \A op : Accepted(op)' = Accepted(op)
      BY <1>1, GoodKept DEF Safe, Shapes
    <1>3. Files'
      BY <1>1 DEF Files, Safe, Shapes
    <1>4. Selection'
      BY <1>1, <1>2 DEF Selection, Prepared, Marking, Own, Version, Files, Safe, Shapes
    <1>5. Position'
      BY <1>1, <1>2 DEF Position, PositionAt, Prepared, Marking, Own, Version, Files, Safe, Shapes
    <1> QED BY <1>3, <1>4, <1>5
-----------------------------------------------------------------------------
(* The agent *)

LEMMA OperationIsNot ==
    ASSUME ServerShape, NEW op \in Operations
    PROVE  op # None
    BY OperationParts, WindowsAssumption

(* A step of agent or administrators that leaves the files and the updater  *)
(* alone.                                                                   *)
LEMMA AgentKeeps ==
    ASSUME Safe, NEW o, NEW s, ServerStep(o, s), s = "applied" => Accepted(<<o[1], o[2]>>),
           \A row \in reports' : row \in reports \/ (row.op \in Operations /\ row.status \in Outcomes),
           UNCHANGED <<fileVars, updater>>, faults' \in 0..MaxFaults, agent' \in AgentShape,
           handoffs \subseteq handoffs', handoffs' \subseteq Operations, acked' \subseteq handoffs',
           \A rec \in journal' : rec.op \in Operations /\ rec.status \in Outcomes,
           agent'.op # None => agent'.op \in Operations,
           agent'.pc \in {"download", "handoff"} => agent'.op # None,
           agent'.pc \in {"acknowledge", "publish"} => agent'.op \in handoffs',
           agent'.pc \in {"ack", "send", "cleanup"} =>
               /\ agent'.seen \in Seen /\ agent'.seen.rep.op \in Operations
               /\ agent'.seen.rep.status = "applied" => Accepted(agent'.seen.rep.op)
    PROVE  Safe'
    <1>1. /\ ServerShape' /\ Operations \subseteq Operations'
          /\ \A op \in Operations : rollouts'[op[1]].build = rollouts[op[1]].build
          /\ \A op \in Operations' : rollouts'[op[1]].targets[op[2]] = "applied" =>
                 op \in Operations /\ (Target(op) = "applied" \/ (op = <<o[1], o[2]>> /\ s = "applied"))
      BY ServerKept DEF Safe, Shapes
    <1>2. accepted' = accepted /\ updater' = updater /\ pending' = pending
      BY DEF fileVars, updateFiles
    <1>3. Files' /\ Selection' /\ Position'
      BY <1>1, HostKept
    <1>4. Shapes'
      BY <1>1, <1>2, <1>3 DEF Safe, Shapes, Journals, Processes
    <1>5. \A op : Accepted(op)' = Accepted(op)
      BY <1>2 DEF Accepted
    <1>6. AppliedAccepted'
      BY <1>1, <1>5 DEF AppliedAccepted, Target, Safe
    <1>7. AtHand'
      BY <1>1, <1>2 DEF AtHand, Accepted
    <1> QED BY <1>3, <1>4, <1>6, <1>7 DEF Safe

LEMMA GotoIs ==
    ASSUME agent \in AgentShape, NEW pc \in Running \union {"down"}, Goto(pc)
    PROVE  /\ agent' \in AgentShape /\ agent'.pc = pc
           /\ agent'.op = IF pc \in {"acknowledge", "publish"} THEN agent.op ELSE None
    BY DEF Goto, AgentAt, AgentShape

(* A step that only moves the agent on.                                     *)
Quiet == UNCHANGED <<serverVars, journals, fileVars, updater, faults>>

LEMMA AgentGoes ==
    ASSUME Safe, NEW pc \in {"poll", "idle", "trigger", "report"}, Goto(pc), Quiet
    PROVE  Safe'
    <1>1. agent \in AgentShape
      BY DEF Safe, Shapes, Processes
    <1>2. pc \in Running
      BY DEF Running
    <1>3. agent' \in AgentShape /\ agent'.pc = pc /\ agent'.op = None
      BY <1>1, <1>2, GotoIs
    <1>4. ServerStep(None, "failed") /\ reports' = reports
      BY Stays DEF Quiet, serverVars, Safe, Shapes
    <1>5. /\ handoffs' = handoffs /\ acked' = acked /\ journal' = journal /\ faults' = faults
          /\ UNCHANGED <<fileVars, updater>>
      BY DEF Quiet, journals
    <1>6. /\ handoffs \subseteq Operations /\ acked \subseteq handoffs /\ faults \in 0..MaxFaults
          /\ \A rec \in journal : rec.op \in Operations /\ rec.status \in Outcomes
      BY DEF Safe, Shapes, Journals, Processes
    <1> QED BY <1>3, <1>4, <1>5, <1>6, AgentKeeps

(* The acknowledgement again.                                               *)
LEMMA RetryIs ==
    ASSUME Safe, NEW op \in Operations, NEW ok \in BOOLEAN, retry_scheduled_acknowledgement(op, ok)
    PROVE  /\ ServerStep(op, "scheduled") /\ reports' = reports /\ acked' \subseteq handoffs
    <1>1. ServerShape /\ acked \subseteq handoffs
      BY DEF Safe, Shapes, Journals
    <1>2. CASE UNCHANGED acked /\ UNCHANGED serverVars
      BY <1>1, <1>2, Stays DEF serverVars
    <1>3. CASE op \in handoffs \ acked /\ RetryAck(op) /\ acked' = IF ok THEN acked \union {op} ELSE acked
      <2>1. ServerStep(op, "scheduled") /\ reports' = reports
        BY <1>1, <1>3, AckStep DEF RetryAck
      <2> QED BY <1>1, <1>3, <2>1
    <1> QED BY <1>2, <1>3 DEF retry_scheduled_acknowledgement

LEMMA ReportIs ==
    ASSUME Safe, NEW rep \in Report, rep.op \in Operations, NEW ok \in BOOLEAN, report_terminal(rep, ok)
    PROVE  /\ ServerStep(rep.op, rep.status)
           /\ \A row \in reports' : row \in reports \/ (row.op \in Operations /\ row.status \in Outcomes)
           /\ \A rec \in journal' : rec.op \in Operations /\ rec.status \in Outcomes
    <1>1. ServerShape /\ rep.status \in Outcomes
      BY DEF Safe, Shapes, Report
    <1>2. \A rec \in journal : rec.op \in Operations /\ rec.status \in Outcomes
      BY DEF Safe, Shapes, Journals
    <1>3. /\ Sent(rep).status = rep.status
          /\ \A b \in BOOLEAN : Record(rep, b).op = rep.op /\ Record(rep, b).status = rep.status
      BY DEF Sent, Record
    <1>4. ASSUME record_report(rep.op, Sent(rep))
          PROVE  /\ ServerStep(rep.op, rep.status)
                 /\ \A row \in reports' : row \in reports \/ (row.op \in Operations /\ row.status \in Outcomes)
      <2>1. /\ ServerStep(rep.op, Sent(rep).status)
            /\ reports' = reports \union {[op |-> rep.op, key |-> Sent(rep).key,
                                           status |-> Sent(rep).status, version |-> Sent(rep).version]}
        BY <1>1, <1>3, <1>4, ReportStep
      <2> QED BY <1>1, <1>3, <2>1
    <1>5. ASSUME UNCHANGED serverVars
          PROVE  ServerStep(rep.op, rep.status) /\ reports' = reports
      BY <1>1, <1>5, Stays DEF serverVars
    <1>6. journal' \subseteq journal \union {Record(rep, TRUE), Record(rep, FALSE)}
      BY DEF report_terminal, Deliver
    <1>7. UNCHANGED serverVars \/ record_report(rep.op, Sent(rep))
      BY DEF report_terminal, Deliver
    <1>8. \A rec \in journal' : rec.op \in Operations /\ rec.status \in Outcomes
      BY <1>1, <1>2, <1>3, <1>6
    <1> QED BY <1>4, <1>5, <1>7, <1>8

(* What a step of the agent leaves alone when it only talks to the service. *)
LEMMA AgentFacts ==
    ASSUME Safe
    PROVE  /\ agent \in AgentShape /\ ServerShape /\ faults \in 0..MaxFaults
           /\ handoffs \subseteq Operations /\ acked \subseteq handoffs
           /\ pending # None => pending \in handoffs
           /\ \A rec \in journal : rec.op \in Operations /\ rec.status \in Outcomes
    BY DEF Safe, Shapes, Journals, Processes

LEMMA SafeReportStartup ==
    ASSUME Safe, report_startup_outcome
    PROVE  Safe'
    <1> DEFINE seen == [rep |-> StartupOutcome, pending |-> pending, attempt |-> attempt]
    <1>1. UNCHANGED <<serverVars, journals, fileVars, updater, faults>>
      BY DEF report_startup_outcome, AgentFrame, fileVars
    <1>2. CASE Goto("poll")
      BY <1>1, <1>2, AgentGoes DEF Quiet
    <1>3. CASE Free /\ StartupOutcome # None
               /\ agent' = [agent EXCEPT !.pc = "ack", !.seen = seen]
      <2>1. Files /\ Selection /\ agent \in AgentShape
        BY DEF Safe, Shapes, Processes
      <2>2. /\ StartupOutcome \in Report /\ StartupOutcome.op \in Operations
            /\ StartupOutcome.status = "applied" => Accepted(StartupOutcome.op)
        <3>1. transition = None /\ current = Good
          BY <1>3, <2>1 DEF StartupOutcome, Selection
        <3>2. CASE outcome # None
          <4>1. StartupOutcome = outcome
            BY <1>3, <3>1, <3>2 DEF StartupOutcome
          <4> QED BY <2>1, <3>2, <4>1 DEF Files
        <3>3. CASE outcome = None
          <4>1. /\ proof # None /\ Version(proof.op) = current
                /\ StartupOutcome = [op |-> proof.op, status |-> "applied", version |-> current]
            BY <1>3, <3>1, <3>3 DEF StartupOutcome
          <4>2. /\ proof.op \in Operations /\ proof.op \in OperationId /\ current \in Versions
                /\ Accepted(proof.op)
            BY <2>1, <3>1, <4>1 DEF Files, Attempt, Selection
          <4> QED BY <4>1, <4>2 DEF Report, Outcomes
        <3> QED BY <3>2, <3>3
      <2>3. seen \in Seen /\ seen.rep = StartupOutcome
        BY <2>1, <2>2 DEF Files, Seen
      <2> HIDE DEF seen
      <2>4. agent' \in AgentShape /\ agent'.pc = "ack" /\ agent'.seen = seen /\ agent'.op = agent.op
        BY <1>3, <2>1, <2>3 DEF AgentShape, Running
      <2>5. agent.op # None => agent.op \in Operations
        BY DEF Safe, AtHand
      <2>6. ServerStep(None, "failed") /\ reports' = reports
        BY <1>1, AgentFacts, Stays DEF serverVars
      <2>7. /\ UNCHANGED <<fileVars, updater>> /\ faults' = faults
            /\ handoffs' = handoffs /\ acked' = acked /\ journal' = journal
        BY <1>1 DEF journals
      <2> QED BY <2>2, <2>3, <2>4, <2>5, <2>6, <2>7, AgentFacts, AgentKeeps
    <1> QED BY <1>2, <1>3 DEF report_startup_outcome

LEMMA SafeAcknowledgeFirst ==
    ASSUME Safe, AcknowledgeFirst
    PROVE  Safe'
    <1>1. /\ agent.seen \in Seen /\ agent.seen.rep.op \in Operations
          /\ agent.seen.rep.status = "applied" => Accepted(agent.seen.rep.op)
          /\ agent.op # None => agent.op \in Operations
      BY DEF Safe, AtHand, AcknowledgeFirst
    <1>2. PICK ok \in BOOLEAN :
              /\ retry_scheduled_acknowledgement(agent.seen.rep.op, ok)
              /\ agent' = [agent EXCEPT !.pc = "send"] \/ Goto("poll")
      BY DEF AcknowledgeFirst
    <1>3. ServerStep(agent.seen.rep.op, "scheduled") /\ reports' = reports /\ acked' \subseteq handoffs
      BY <1>1, <1>2, RetryIs
    <1>4. /\ agent' \in AgentShape
          /\ agent'.op # None => agent'.op \in Operations
          /\ agent'.pc = "poll" \/ (agent'.pc = "send" /\ agent'.seen = agent.seen)
      <2>1. CASE agent' = [agent EXCEPT !.pc = "send"]
        BY <1>1, <2>1, AgentFacts DEF AgentShape, Running
      <2>2. CASE Goto("poll")
        BY <2>2, AgentFacts, GotoIs DEF Running
      <2> QED BY <1>2, <2>1, <2>2
    <1>5. UNCHANGED <<fileVars, updater>> /\ faults' = faults /\ handoffs' = handoffs /\ journal' = journal
      BY DEF AcknowledgeFirst, AgentFrame, fileVars
    <1> QED BY <1>1, <1>3, <1>4, <1>5, AgentFacts, AgentKeeps

LEMMA SafeSendReport ==
    ASSUME Safe, SendReport
    PROVE  Safe'
    <1>1. /\ agent.seen \in Seen /\ agent.seen.rep.op \in Operations
          /\ agent.seen.rep.status = "applied" => Accepted(agent.seen.rep.op)
          /\ agent.op # None => agent.op \in Operations
      BY DEF Safe, AtHand, SendReport
    <1>2. PICK ok \in BOOLEAN :
              /\ report_terminal(agent.seen.rep, ok)
              /\ agent' = [agent EXCEPT !.pc = "cleanup"] \/ Goto("poll")
      BY DEF SendReport
    <1> DEFINE op == agent.seen.rep.op
    <1>3. agent.seen.rep \in Report /\ op = <<op[1], op[2]>>
      BY <1>1, AgentFacts, OperationParts DEF Seen
    <1>4. /\ ServerStep(op, agent.seen.rep.status)
          /\ \A row \in reports' : row \in reports \/ (row.op \in Operations /\ row.status \in Outcomes)
          /\ \A rec \in journal' : rec.op \in Operations /\ rec.status \in Outcomes
      BY <1>1, <1>2, <1>3, ReportIs
    <1>5. /\ agent' \in AgentShape
          /\ agent'.op # None => agent'.op \in Operations
          /\ agent'.pc = "poll" \/ (agent'.pc = "cleanup" /\ agent'.seen = agent.seen)
      <2>1. CASE agent' = [agent EXCEPT !.pc = "cleanup"]
        BY <1>1, <2>1, AgentFacts DEF AgentShape, Running
      <2>2. CASE Goto("poll")
        BY <2>2, AgentFacts, GotoIs DEF Running
      <2> QED BY <1>2, <2>1, <2>2
    <1>6. UNCHANGED <<fileVars, updater>> /\ faults' = faults /\ handoffs' = handoffs /\ acked' = acked
      BY DEF SendReport, AgentFrame, fileVars
    <1> QED BY <1>1, <1>3, <1>4, <1>5, <1>6, AgentFacts, AgentKeeps

LEMMA SafeRunOnce ==
    ASSUME Safe, run_once
    PROVE  Safe'
    <1>1. /\ UNCHANGED <<fileVars, updater>> /\ faults' = faults /\ handoffs' = handoffs
          /\ journal' = journal
      BY DEF run_once, AgentFrame, fileVars
    <1>2. ASSUME NEW pc \in {"idle", "trigger"}, Goto(pc), UNCHANGED serverVars, UNCHANGED acked
          PROVE  Safe'
      BY <1>1, <1>2, AgentGoes DEF Quiet, journals
    <1>3. ASSUME NEW ok \in BOOLEAN, NEW pc \in {"idle", "trigger"}, pending # None, Goto(pc),
                 retry_scheduled_acknowledgement(pending, ok)
          PROVE  Safe'
      <2>1. pending \in Operations
        BY <1>3, AgentFacts
      <2>2. ServerStep(pending, "scheduled") /\ reports' = reports /\ acked' \subseteq handoffs
        BY <1>3, <2>1, RetryIs
      <2>3. agent' \in AgentShape /\ agent'.pc = pc /\ agent'.op = None
        BY <1>3, AgentFacts, GotoIs DEF Running
      <2> QED BY <1>1, <2>2, <2>3, AgentFacts, AgentKeeps
    <1>4. ASSUME NEW op \in Operations, Requested(op, current), UNCHANGED acked,
                 agent' = [agent EXCEPT !.pc = "download", !.op = op] \/ Goto("idle")
          PROVE  Safe'
      <2>1. ServerStep(op, "requested") /\ reports' = reports
        BY <1>4, AgentFacts, AckStep DEF Requested
      <2>2. op # None /\ op \in OperationId
        BY AgentFacts, OperationIsNot, OperationParts
      <2>3. /\ agent' \in AgentShape
            /\ (agent'.pc = "download" /\ agent'.op = op) \/ (agent'.pc = "idle" /\ agent'.op = None)
        <3>1. CASE agent' = [agent EXCEPT !.pc = "download", !.op = op]
          BY <2>2, <3>1, AgentFacts DEF AgentShape, Running
        <3>2. CASE Goto("idle")
          BY <3>2, AgentFacts, GotoIs DEF Running
        <3> QED BY <1>4, <3>1, <3>2
      <2>4. acked' = acked
        BY <1>4
      <2> QED BY <1>1, <2>1, <2>2, <2>3, <2>4, AgentFacts, AgentKeeps
    <1>5. CASE ~Free
      BY <1>2, <1>5, Zenon DEF run_once
    <1>6. CASE Free /\ transition # None
      <2>1. PICK pc \in {"idle", "trigger"} : Goto(pc) /\ UNCHANGED serverVars /\ UNCHANGED acked
        BY <1>6, Zenon DEF run_once
      <2> QED BY <1>2, <2>1
    <1>7. CASE Free /\ transition = None /\ (outcome # None \/ Ineligible)
      BY <1>2, <1>7, Zenon DEF run_once
    <1>8. CASE Free /\ transition = None /\ outcome = None /\ pending # None /\ ~Ineligible
      <2>1. PICK ok \in BOOLEAN : /\ retry_scheduled_acknowledgement(pending, ok)
                                  /\ Goto(IF ok THEN "trigger" ELSE "idle")
        BY <1>8, Zenon DEF run_once
      <2> QED BY <1>3, <1>8, <2>1
    <1>9. CASE Free /\ transition = None /\ outcome = None /\ pending = None /\ ~Ineligible
      <2>1. /\ UNCHANGED acked
            /\ \/ Goto("idle") /\ UNCHANGED serverVars
               \/ \E op \in Operations :
                      /\ Requested(op, current)
                      /\ agent' = [agent EXCEPT !.pc = "download", !.op = op] \/ Goto("idle")
        BY <1>9, Zenon DEF run_once
      <2> QED BY <1>2, <1>4, <2>1
    <1> QED BY <1>5, <1>6, <1>7, <1>8, <1>9

LEMMA SafeDownload ==
    ASSUME Safe, Download
    PROVE  Safe'
    <1>1. UNCHANGED <<serverVars, journals, fileVars, updater, faults>>
      BY DEF Download, AgentFrame, fileVars
    <1>2. CASE Goto("idle")
      BY <1>1, <1>2, AgentGoes DEF Quiet
    <1>3. CASE agent' = [agent EXCEPT !.pc = "handoff"]
      <2>1. agent' \in AgentShape /\ agent'.pc = "handoff" /\ agent'.op = agent.op
        BY <1>3, AgentFacts DEF AgentShape, Running
      <2>2. agent.op # None /\ agent.op \in Operations
        BY DEF Safe, AtHand, Download
      <2>3. ServerStep(None, "failed") /\ reports' = reports
        BY <1>1, AgentFacts, Stays DEF serverVars
      <2>4. /\ UNCHANGED <<fileVars, updater>> /\ faults' = faults
            /\ handoffs' = handoffs /\ acked' = acked /\ journal' = journal
        BY <1>1 DEF journals
      <2> QED BY <2>1, <2>2, <2>3, <2>4, AgentFacts, AgentKeeps
    <1> QED BY <1>2, <1>3 DEF Download

LEMMA SafeHandoff ==
    ASSUME Safe, record_scheduled_handoff
    PROVE  Safe'
    <1>1. agent' \in AgentShape /\ agent'.pc = "acknowledge" /\ agent'.op = agent.op
      BY AgentFacts, GotoIs DEF record_scheduled_handoff, Running
    <1>2. agent.op # None /\ agent.op \in Operations
      BY DEF Safe, AtHand, record_scheduled_handoff
    <1>3. ServerStep(None, "failed") /\ reports' = reports
      BY AgentFacts, Stays DEF serverVars, record_scheduled_handoff
    <1>4. /\ UNCHANGED <<fileVars, updater>> /\ faults' = faults
          /\ handoffs' = handoffs \union {agent.op} /\ acked' = acked /\ journal' = journal
      BY DEF record_scheduled_handoff, Journalled, AgentFrame, fileVars
    <1> QED BY <1>1, <1>2, <1>3, <1>4, AgentFacts, AgentKeeps

LEMMA SafeAcknowledge ==
    ASSUME Safe, Acknowledge
    PROVE  Safe'
    <1>1. agent.op \in handoffs /\ agent.op \in Operations
      BY AgentFacts DEF Safe, AtHand, Acknowledge
    <1>2. PICK ok \in BOOLEAN : /\ retry_scheduled_acknowledgement(agent.op, ok)
                                /\ Goto(IF ok THEN "publish" ELSE "idle")
      BY DEF Acknowledge
    <1>3. ServerStep(agent.op, "scheduled") /\ reports' = reports /\ acked' \subseteq handoffs
      BY <1>1, <1>2, RetryIs
    <1>4. agent' \in AgentShape /\ agent'.pc \in {"publish", "idle"} /\ agent'.op \in {agent.op, None}
          /\ (agent'.pc = "publish" => agent'.op = agent.op)
      BY <1>2, AgentFacts, GotoIs DEF Running
    <1>5. UNCHANGED <<fileVars, updater>> /\ faults' = faults /\ handoffs' = handoffs /\ journal' = journal
      BY DEF Acknowledge, AgentFrame, fileVars
    <1> QED BY <1>1, <1>3, <1>4, <1>5, AgentFacts, AgentKeeps

LEMMA SafePollAgain ==
    ASSUME Safe, PollAgain
    PROVE  Safe'
    BY AgentGoes DEF PollAgain, Quiet, AgentFrame, fileVars

LEMMA AgentAtIs ==
    ASSUME NEW pc \in Running \union {"down"}, NEW v \in Versions
    PROVE  AgentAt(pc, v) \in AgentShape /\ AgentAt(pc, v).pc = pc /\ AgentAt(pc, v).op = None
    BY DEF AgentAt, AgentShape

LEMMA SafeAgentCrash ==
    ASSUME Safe, AgentCrash
    PROVE  Safe'
    <1>1. agent' \in AgentShape /\ agent'.pc = "report" /\ agent'.op = None
      BY AgentAtIs DEF AgentCrash, Running, Safe, Shapes, Files
    <1>2. ServerStep(None, "failed") /\ reports' = reports
      BY AgentFacts, Stays DEF serverVars, AgentCrash
    <1>3. /\ UNCHANGED <<fileVars, updater>> /\ faults' \in 0..MaxFaults
          /\ handoffs' = handoffs /\ acked' = acked /\ journal' = journal
      BY AgentFacts, WindowsAssumption DEF AgentCrash, journals
    <1> QED BY <1>1, <1>2, <1>3, AgentFacts, AgentKeeps

LEMMA SafeAdmin ==
    ASSUME Safe, Admin
    PROVE  Safe'
    <1>1. PICK o : ServerStep(o, "cancelled") /\ reports' = reports
      BY AgentFacts, AdminStep DEF Admin
    <1>2. /\ UNCHANGED <<fileVars, updater>> /\ faults' = faults /\ agent' = agent
          /\ handoffs' = handoffs /\ acked' = acked /\ journal' = journal
      BY DEF Admin, journals
    <1>3. AtHand
      BY DEF Safe
    <1> QED BY <1>1, <1>2, <1>3, AgentFacts, AgentKeeps DEF AtHand

-----------------------------------------------------------------------------
(* The updater *)

(* The agent goes on as it was, or begins anew with nothing in hand.        *)
Anew ==
    \/ agent' = agent
    \/ agent' \in AgentShape /\ agent'.op = None /\ agent'.pc \in {"down", "report", "poll", "idle", "trigger"}

LEMMA Restarts ==
    ASSUME Safe, StopAgent \/ StartAgent \/ agent' = agent \/ agent' = AgentAt("report", current)
    PROVE  Anew
    <1>1. agent \in AgentShape /\ agent.version \in Versions /\ current \in Versions
      BY DEF Safe, Shapes, Processes, Files, AgentShape
    <1>2. /\ AgentAt("down", agent.version) \in AgentShape /\ AgentAt("report", current) \in AgentShape
          /\ AgentAt("down", agent.version).pc = "down" /\ AgentAt("report", current).pc = "report"
          /\ AgentAt("down", agent.version).op = None /\ AgentAt("report", current).op = None
      BY <1>1, AgentAtIs DEF Running
    <1> QED BY <1>2 DEF StopAgent, StartAgent, Anew

(* A step of the host that the service does not see.                        *)
LEMMA HostSteps ==
    ASSUME Safe, UNCHANGED <<serverVars, journals>>, Files', pending' \in handoffs \union {None},
           updater' \in UpdaterShape, faults' \in 0..MaxFaults, Anew,
           \A op : Accepted(op) => Accepted(op)', Selection', Position'
    PROVE  Safe'
    <1>1. /\ builds' = builds /\ rollouts' = rollouts /\ reports' = reports
          /\ handoffs' = handoffs /\ acked' = acked /\ journal' = journal
      BY DEF serverVars, journals
    <1>2. Operations' = Operations
      BY <1>1 DEF Operations
    <1>3. agent' \in AgentShape
      BY DEF Anew, Safe, Shapes, Processes
    <1>4. Shapes'
      BY <1>1, <1>2, <1>3 DEF Shapes, ServerShape, Journals, Processes, Safe
    <1>5. AppliedAccepted'
      BY <1>1, <1>2 DEF AppliedAccepted, Target, Safe
    <1>6. AtHand'
      <2>1. CASE agent' = agent
        <3>1. AtHand
          BY DEF Safe
        <3> HIDE DEF Accepted
        <3> QED BY <1>1, <1>2, <2>1, <3>1 DEF AtHand
      <2>2. CASE agent'.op = None /\ agent'.pc \in {"down", "report", "poll", "idle", "trigger"}
        BY <2>2 DEF AtHand
      <2> QED BY <2>1, <2>2 DEF Anew
    <1> QED BY <1>4, <1>5, <1>6 DEF Safe

(* The files stay: only the position of the updater changes.                *)
LEMMA UpdaterMoves ==
    ASSUME Safe, UNCHANGED <<serverVars, journals, fileVars>>, updater' \in UpdaterShape,
           faults' \in 0..MaxFaults, Anew, PositionAt(updater')
    PROVE  Safe'
    <1>1. /\ current' = current /\ restore' = restore /\ transition' = transition /\ pending' = pending
          /\ attempt' = attempt /\ proof' = proof /\ outcome' = outcome /\ attempts' = attempts
          /\ accepted' = accepted /\ aside' = aside /\ rollouts' = rollouts
      BY DEF fileVars, selectorFiles, updateFiles, serverVars
    <1>2. Files /\ Selection /\ pending \in handoffs \union {None}
      BY DEF Safe, Shapes
    <1>3. Good' = Good /\ (\A op : Accepted(op)' = Accepted(op)) /\ Operations' = Operations
      BY <1>1, <1>2, GoodKept DEF Operations
    <1>4. Files'
      BY <1>1, <1>2, <1>3 DEF Files
    <1>5. Selection'
      BY <1>1, <1>2, <1>3 DEF Selection, Prepared, Marking, Own, Version
    <1>6. Position'
      BY <1>1, <1>3 DEF Position, PositionAt, Prepared, Marking, Own, Version
    <1> QED BY <1>1, <1>2, <1>3, <1>4, <1>5, <1>6, HostSteps

LEMMA OffIs ==
    /\ Off \in UpdaterShape /\ PositionAt(Off)
    /\ [Off EXCEPT !.pc = "load"] \in UpdaterShape /\ PositionAt([Off EXCEPT !.pc = "load"])
    <1> DEFINE load == [Off EXCEPT !.pc = "load"]
    <1>1. Off \in UpdaterShape /\ Off.pc = "off" /\ Off.op = None
      BY DEF Off, UpdaterShape, UpdaterPcs, Unlocked
    <1>2. load \in UpdaterShape /\ load.pc = "load" /\ load.op = None
      BY DEF Off, UpdaterShape, UpdaterPcs, Unlocked
    <1> HIDE DEF load
    <1>3. PositionAt(Off)
      BY <1>1 DEF PositionAt
    <1>4. PositionAt(load)
      BY <1>2 DEF PositionAt
    <1> QED BY <1>1, <1>2, <1>3, <1>4 DEF load

(* Another pc alone keeps the shape.                                        *)
LEMMA PcIs ==
    ASSUME Safe, NEW pc \in UpdaterPcs, updater' = [updater EXCEPT !.pc = pc]
    PROVE  /\ updater' \in UpdaterShape /\ updater'.pc = pc
           /\ updater'.op = updater.op /\ updater'.prev = updater.prev /\ updater'.seen = updater.seen
           /\ updater'.stopped = updater.stopped /\ updater'.full = updater.full
    BY DEF Safe, Shapes, Processes, UpdaterShape

LEMMA Frame ==
    ASSUME Safe, UpdaterFrame
    PROVE  UNCHANGED <<serverVars, journals>> /\ faults' = faults /\ faults' \in 0..MaxFaults
    BY DEF UpdaterFrame, Safe, Shapes, Processes

LEMMA OneFault ==
    ASSUME Safe, faults < MaxFaults, faults' = faults + 1
    PROVE  faults' \in 0..MaxFaults
    BY WindowsAssumption DEF Safe, Shapes, Processes

LEMMA SafeOff ==
    ASSUME Safe, UNCHANGED <<serverVars, journals, fileVars>>, faults' \in 0..MaxFaults, Anew,
           updater' \in {Off, [Off EXCEPT !.pc = "load"]}
    PROVE  Safe'
    BY OffIs, UpdaterMoves

LEMMA SafeFaults ==
    ASSUME Safe, GiveUp \/ UndoFails \/ UpdaterCrash \/ HostCrash
    PROVE  Safe'
    <1>1. UNCHANGED <<serverVars, journals, fileVars>> /\ faults' \in 0..MaxFaults
      BY OneFault DEF GiveUp, UndoFails, UpdaterCrash, HostCrash
    <1>2. Anew
      BY Restarts DEF GiveUp, UndoFails, UpdaterCrash, HostCrash
    <1>3. updater' \in {Off, [Off EXCEPT !.pc = "load"]}
      BY DEF GiveUp, UndoFails, UpdaterCrash, HostCrash
    <1> QED BY <1>1, <1>2, <1>3, SafeOff

LEMMA SafeTrigger ==
    ASSUME Safe, trigger_pending_updater
    PROVE  Safe'
    <1>1. agent' \in AgentShape /\ agent'.pc = "idle" /\ agent'.op = None
      BY AgentFacts, GotoIs DEF trigger_pending_updater, Running
    <1>2. Anew
      BY <1>1 DEF Anew
    <1>3. UNCHANGED <<serverVars, journals, fileVars>> /\ faults' \in 0..MaxFaults
      BY AgentFacts DEF trigger_pending_updater
    <1>4. updater' = updater \/ updater' = [Off EXCEPT !.pc = "load"]
      BY DEF trigger_pending_updater
    <1>5. updater \in UpdaterShape /\ PositionAt(updater)
      BY DEF Safe, Shapes, Processes, Position
    <1> QED BY <1>2, <1>3, <1>4, <1>5, OffIs, UpdaterMoves

(* Where the updater stands, for a step from pc.                            *)
LEMMA Stands ==
    ASSUME Safe
    PROVE  /\ PositionAt(updater) /\ updater \in UpdaterShape /\ updater.stopped \in BOOLEAN
           /\ Files /\ Selection
           /\ pending \in handoffs \union {None} /\ handoffs \subseteq Operations
    BY DEF Safe, Shapes, Processes, Position, Journals, UpdaterShape

LEMMA SafeLoadTransition ==
    ASSUME Safe, LoadTransition
    PROVE  Safe'
    <1>1. UNCHANGED <<serverVars, journals, fileVars>> /\ faults' \in 0..MaxFaults /\ Anew
      BY Frame DEF LoadTransition, Anew
    <1>2. CASE Work = "off"
      BY <1>1, <1>2, SafeOff DEF LoadTransition
    <1>3. CASE Work # "off"
      <2>1. updater' = [updater EXCEPT !.pc = Work, !.op = pending]
        BY <1>3 DEF LoadTransition
      <2>2. Work \in {"check", "forget_pending", "drop_restore", "revive", "accept", "stop_candidate"}
        BY <1>3 DEF Work
      <2>3. updater \in UpdaterShape /\ pending \in OperationId \union {None} /\ Work \in UpdaterPcs
        BY <2>2, Stands DEF Files, UpdaterPcs
      <2>4. updater' \in UpdaterShape /\ updater'.pc = Work /\ updater'.op = pending
        BY <2>1, <2>3 DEF UpdaterShape
      <2>5. pending # None => pending \in Operations
        BY Stands
      <2>6. transition # None => transition.status \in {"prepared", "accepted"}
        BY Stands DEF Files, Transition
      <2>7. CASE Work = "check"
        <3>1. transition = None /\ pending # None
          BY <2>7 DEF Work
        <3> QED BY <1>1, <2>4, <2>5, <2>7, <3>1, UpdaterMoves DEF PositionAt
      <2>8. CASE Work = "forget_pending"
        <3>1. Marking
          BY <2>8 DEF Work, Marking
        <3>2. PositionAt(updater')
          BY <2>4, <2>5, <2>8, <3>1 DEF PositionAt
        <3> QED BY <1>1, <2>4, <3>2, UpdaterMoves
      <2>9. CASE Work = "drop_restore"
        <3>1. Prepared /\ ~Marking /\ transition # None /\ pending = None /\ current = transition.prev
          BY <2>6, <2>9 DEF Work, Prepared, Marking
        <3>2. current = Good
          BY <3>1, Stands DEF Selection
        <3>3. PositionAt(updater')
          BY <2>4, <2>9, <3>1, <3>2 DEF PositionAt
        <3> QED BY <1>1, <2>4, <3>3, UpdaterMoves
      <2>10. CASE Work \in {"revive", "accept", "stop_candidate"}
        <3>1. Prepared /\ ~Marking /\ transition # None /\ pending # None
          BY <2>6, <2>10 DEF Work, Prepared, Marking
        <3>2. /\ Work = "revive" => current = transition.prev
              /\ Work = "accept" => proof = Own(transition) /\ current # transition.prev
          BY <2>10, <3>1 DEF Work, is_confirmed, Own
        <3>3. /\ transition.prev = Good /\ (current # Good => current = Version(transition.op))
          BY <3>1, Stands DEF Selection
        <3>4. PositionAt(updater')
          BY <2>4, <2>5, <2>10, <3>1, <3>2, <3>3 DEF PositionAt
        <3> QED BY <1>1, <2>4, <3>4, UpdaterMoves
      <2> QED BY <2>2, <2>7, <2>8, <2>9, <2>10
    <1> QED BY <1>2, <1>3

LEMMA SafeStops ==
    ASSUME Safe, StopCandidate \/ StopFailed
    PROVE  Safe'
    <1>1. UNCHANGED <<serverVars, journals, fileVars>> /\ faults' \in 0..MaxFaults /\ Anew
      BY Frame, Restarts DEF StopCandidate, StopFailed
    <1>2. CASE StopCandidate
      <2>1. updater.pc = "stop_candidate" /\ updater' \in UpdaterShape /\ updater'.pc = "recover"
            /\ updater'.op = updater.op
        BY <1>2, PcIs DEF StopCandidate, At, UpdaterPcs
      <2>2. PositionAt(updater')
        BY <2>1, Stands DEF PositionAt
      <2> QED BY <1>1, <2>1, <2>2, UpdaterMoves
    <1>3. CASE StopFailed
      <2>1. updater.pc = "stop_failed" /\ updater' \in UpdaterShape /\ updater'.pc = "restore"
            /\ updater'.op = updater.op /\ updater'.stopped = updater.stopped
        BY <1>3, PcIs DEF StopFailed, At, UpdaterPcs, Faulty
      <2>2. PositionAt(updater')
        BY <2>1, Stands DEF PositionAt
      <2> QED BY <1>1, <2>1, <2>2, UpdaterMoves
    <1> QED BY <1>2, <1>3

LEMMA SafeStartKnownGood ==
    ASSUME Safe, StartKnownGood
    PROVE  Safe'
    <1>1. UNCHANGED <<serverVars, journals, fileVars>> /\ faults' \in 0..MaxFaults /\ Anew
      BY Frame, Restarts DEF StartKnownGood
    <1>2. updater.pc = "revive" /\ updater' \in UpdaterShape /\ updater'.pc = "unlink_restore"
          /\ updater'.op = updater.op
      BY PcIs DEF StartKnownGood, At, UpdaterPcs
    <1>3. PositionAt(updater')
      BY <1>2, Stands DEF PositionAt
    <1> QED BY <1>1, <1>2, <1>3, UpdaterMoves

LEMMA SnapshotIs ==
    ASSUME Safe
    PROVE  Snapshot \in Snapshots /\ Snapshot[1] = pending
    BY Stands DEF Files, Snapshot, Snapshots

LEMMA SafeCheckRequest ==
    ASSUME Safe, CheckRequest
    PROVE  Safe'
    <1>1. UNCHANGED <<serverVars, journals, fileVars>> /\ faults' \in 0..MaxFaults /\ Anew
      BY Frame DEF CheckRequest, Anew
    <1>2. PICK pc \in {"extract", "fail"} :
              /\ updater' = [updater EXCEPT !.pc = pc, !.prev = current, !.seen = Snapshot]
              /\ pc = "extract" => Eligible(updater.op, current)
      BY DEF CheckRequest
    <1>3. /\ updater.pc = "check" /\ updater \in UpdaterShape /\ pc \in UpdaterPcs
          /\ current \in Versions /\ Snapshot \in Snapshots
      BY Stands, SnapshotIs DEF CheckRequest, Files, UpdaterPcs, Unlocked
    <1>4. /\ updater' \in UpdaterShape /\ updater'.pc = pc /\ updater'.op = updater.op
          /\ updater'.seen = Snapshot /\ updater'.stopped = updater.stopped
      BY <1>2, <1>3 DEF UpdaterShape
    <1>5. transition = None /\ current = Good /\ pending = updater.op /\ updater.op \in Operations
          /\ updater.op # None
      BY <1>3, Stands DEF PositionAt, Selection
    <1>6. Version(updater.op) \in Nat /\ current \in Nat
      BY <1>3, <1>5, AgentFacts, OperationParts, RolloutAssumption, AdapterAssumption DEF Versions
    <1>7. pc = "extract" => Version(updater.op) # current
      BY <1>2, <1>6 DEF Eligible
    <1>8. ~Marking
      BY <1>5 DEF Marking
    <1>9. PositionAt(updater')
      BY <1>4, <1>5, <1>7, <1>8, SnapshotIs DEF PositionAt
    <1> QED BY <1>1, <1>4, <1>9, UpdaterMoves

LEMMA SafeExtract ==
    ASSUME Safe, Extract
    PROVE  Safe'
    <1>1. UNCHANGED <<serverVars, journals, fileVars>> /\ faults' \in 0..MaxFaults /\ Anew
      BY Frame DEF Extract, Anew
    <1>2. CASE updater' = Off
      BY <1>1, <1>2, SafeOff
    <1>3. ASSUME NEW pc \in {"publish", "fail"}, Snapshot = updater.seen, updater' = [updater EXCEPT !.pc = pc]
          PROVE  Safe'
      <2>1. /\ updater' \in UpdaterShape /\ updater'.pc = pc /\ updater'.op = updater.op
            /\ updater'.stopped = updater.stopped /\ updater.pc = "extract"
        BY <1>3, PcIs DEF UpdaterPcs, Faulty, Extract
      <2>2. /\ transition = None /\ current = Good /\ updater.op \in Operations /\ updater.op # None
            /\ updater.seen[1] = updater.op /\ Version(updater.op) # current
        BY <2>1, Stands DEF PositionAt, Selection
      <2>3. pending = updater.op /\ ~Marking
        BY <1>3, <2>2, SnapshotIs DEF Marking
      <2>4. PositionAt(updater')
        BY <2>1, <2>2, <2>3 DEF PositionAt
      <2> QED BY <1>1, <2>1, <2>4, UpdaterMoves
    <1> QED BY <1>2, <1>3 DEF Extract

LEMMA SafeStopService ==
    ASSUME Safe, StopService
    PROVE  Safe'
    <1>1. UNCHANGED <<serverVars, journals, fileVars>> /\ faults' \in 0..MaxFaults /\ Anew
      BY Frame, Restarts DEF StopService
    <1>2. /\ updater' \in UpdaterShape /\ updater'.pc = "select" /\ updater'.op = updater.op
          /\ updater'.stopped /\ updater.pc = "stop"
      BY Stands DEF StopService, UpdaterShape, UpdaterPcs, Faulty
    <1>3. PositionAt(updater')
      BY <1>2, Stands DEF PositionAt
    <1> QED BY <1>1, <1>2, <1>3, UpdaterMoves

LEMMA SafeStartCandidate ==
    ASSUME Safe, StartCandidate
    PROVE  Safe'
    <1>1. UNCHANGED <<serverVars, journals, fileVars>> /\ faults' \in 0..MaxFaults /\ Anew
      BY Frame, Restarts DEF StartCandidate
    <1>2. /\ updater' \in UpdaterShape /\ updater'.pc = "wait" /\ updater'.op = updater.op
          /\ updater.pc = "start" /\ updater'.stopped = updater.stopped
      BY Stands, SnapshotIs DEF StartCandidate, UpdaterShape, UpdaterPcs, Unlocked
    <1>3. PositionAt(updater')
      BY <1>2, Stands DEF PositionAt
    <1> QED BY <1>1, <1>2, <1>3, UpdaterMoves

LEMMA SafeAwaitProof ==
    ASSUME Safe, AwaitProof
    PROVE  Safe'
    <1>1. UNCHANGED <<serverVars, journals, fileVars>> /\ faults' \in 0..MaxFaults /\ Anew
      BY Frame DEF AwaitProof, Anew
    <1>2. PICK pc \in {"accept", "stop_failed"} :
              /\ pc = "accept" => is_confirmed(updater.op, transition.id)
              /\ updater' = Off \/ updater' = [updater EXCEPT !.pc = pc]
      BY DEF AwaitProof
    <1>3. CASE updater' = Off
      BY <1>1, <1>3, SafeOff
    <1>4. CASE updater' = [updater EXCEPT !.pc = pc]
      <2>1. /\ updater' \in UpdaterShape /\ updater'.pc = pc /\ updater'.op = updater.op
            /\ updater.pc = "wait" /\ updater'.stopped = updater.stopped
        BY <1>4, PcIs DEF UpdaterPcs, AwaitProof
      <2>2. /\ Prepared /\ transition.op = updater.op /\ current = Version(transition.op)
            /\ updater.op # None /\ updater.op \in Operations /\ updater.stopped
        BY <2>1, Stands DEF PositionAt
      <2>3. pc = "accept" => proof = Own(transition)
        BY <1>2, <2>2 DEF is_confirmed, Own
      <2>4. PositionAt(updater')
        BY <2>1, <2>2, <2>3 DEF PositionAt
      <2> QED BY <1>1, <2>1, <2>4, UpdaterMoves
    <1> QED BY <1>2, <1>3, <1>4

LEMMA SafeRestartKnownGood ==
    ASSUME Safe, RestartKnownGood
    PROVE  Safe'
    BY Frame, Restarts, SafeOff DEF RestartKnownGood, Finish

LEMMA SafeUndoStart ==
    ASSUME Safe, UndoStart
    PROVE  Safe'
    <1>1. UNCHANGED <<serverVars, journals, fileVars>> /\ faults' \in 0..MaxFaults /\ Anew
      BY Frame, Restarts DEF UndoStart
    <1>2. CASE updater' = Off
      BY <1>1, <1>2, SafeOff
    <1>3. CASE transition # None /\ updater' = [updater EXCEPT !.pc = "drop_restore"]
      <2>1. /\ updater' \in UpdaterShape /\ updater'.pc = "drop_restore" /\ updater'.op = updater.op
            /\ updater.pc = "undo_start"
        BY <1>3, PcIs DEF UpdaterPcs, UndoStart
      <2>2. PositionAt(updater')
        BY <1>3, <2>1, Stands DEF PositionAt
      <2> QED BY <1>1, <2>1, <2>2, UpdaterMoves
    <1> QED BY <1>2, <1>3 DEF UndoStart

LEMMA SafeIoError ==
    ASSUME Safe, IoError
    PROVE  Safe'
    <1>1. UNCHANGED <<serverVars, journals, fileVars>> /\ faults' \in 0..MaxFaults /\ Anew
      BY OneFault, Restarts DEF IoError
    <1>2. PICK full \in BOOLEAN, pc \in {"undo", "fail"} : updater' = [updater EXCEPT !.pc = pc, !.full = full]
      BY DEF IoError
    <1>3. /\ updater' \in UpdaterShape /\ updater'.pc = pc /\ updater'.op = updater.op
          /\ updater'.stopped = updater.stopped /\ updater.pc \in Faulty \union {"extract"}
      BY <1>2, Stands DEF IoError, UpdaterShape, UpdaterPcs
    <1>4. ~Marking /\ updater.op # None /\ updater.op \in Operations
      BY <1>3, Stands DEF PositionAt, Faulty, Marking, Prepared
    <1>5. ~updater.stopped => current = Good
      BY <1>3, Stands DEF PositionAt, Faulty, Selection
    <1>6. PositionAt(updater')
      BY <1>3, <1>4, <1>5 DEF PositionAt
    <1> QED BY <1>1, <1>3, <1>6, UpdaterMoves

LEMMA SafeUndoElse ==
    ASSUME Safe, Undo, ~(updater.stopped /\ transition # None)
    PROVE  Safe'
    <1>1. UNCHANGED <<serverVars, journals, fileVars>> /\ faults' \in 0..MaxFaults /\ Anew
      BY Frame DEF Undo, Anew
    <1>2. updater.pc = "undo" /\ ~Marking /\ updater.op # None /\ updater.op \in Operations
          /\ (~updater.stopped => current = Good)
      BY Stands DEF PositionAt, Undo
    <1>3. CASE updater' = Off
      BY <1>1, <1>3, SafeOff
    <1>4. CASE updater.stopped /\ updater' = [updater EXCEPT !.pc = "undo_start"]
      <2>1. updater' \in UpdaterShape /\ updater'.pc = "undo_start" /\ updater'.op = updater.op
        BY <1>4, PcIs DEF UpdaterPcs
      <2>2. current = Good
        BY <1>4, Stands DEF Selection
      <2>3. PositionAt(updater')
        BY <1>2, <2>1, <2>2 DEF PositionAt
      <2> QED BY <1>1, <2>1, <2>3, UpdaterMoves
    <1>5. CASE ~updater.stopped /\ transition # None /\ updater' = [updater EXCEPT !.pc = "drop_restore"]
      <2>1. updater' \in UpdaterShape /\ updater'.pc = "drop_restore" /\ updater'.op = updater.op
        BY <1>5, PcIs DEF UpdaterPcs
      <2>2. PositionAt(updater')
        BY <1>2, <1>5, <2>1 DEF PositionAt
      <2> QED BY <1>1, <2>1, <2>2, UpdaterMoves
    <1> QED BY <1>3, <1>4, <1>5 DEF Undo

LEMMA Same ==
    ASSUME Safe, UNCHANGED serverVars, accepted' = accepted
    PROVE  /\ Good' = Good /\ (\A op : Accepted(op)' = Accepted(op)) /\ Operations' = Operations
           /\ rollouts' = rollouts
    BY Stands, GoodKept DEF serverVars, Operations

(* Only current.json and the file to restore it change.                     *)
LEMMA RestoreKeeps ==
    ASSUME Safe, Prepared, NEW from, NEW to \in {"revive", "unprepare", "undo_start"},
           RestorePrepared(from, to), updater.op # None, to = "revive" => pending = updater.op
    PROVE  Safe'
    <1>1. /\ transition' = transition /\ pending' = pending /\ attempt' = attempt /\ proof' = proof
          /\ outcome' = outcome /\ attempts' = attempts /\ accepted' = accepted /\ aside' = aside
          /\ UpdaterFrame /\ Anew /\ updater' = [updater EXCEPT !.pc = to]
      BY DEF RestorePrepared, At, updateFiles, Anew
    <1>2. UNCHANGED <<serverVars, journals>> /\ faults' \in 0..MaxFaults
      BY <1>1, Frame
    <1>3. /\ Good' = Good /\ (\A op : Accepted(op)' = Accepted(op)) /\ Operations' = Operations
          /\ rollouts' = rollouts
      BY <1>1, <1>2, Same
    <1>4. transition.prev = Good /\ restore \in BOOLEAN /\ current \in Versions
          /\ transition.prev \in Versions
      BY Stands DEF Selection, Files, Prepared, Transition
    <1>5. current' = Good /\ restore' \in BOOLEAN /\ current' \in Versions
      BY <1>4 DEF RestorePrepared
    <1>6. updater' \in UpdaterShape /\ updater'.pc = to /\ updater'.op = updater.op
      BY <1>1, PcIs DEF UpdaterPcs, Faulty
    <1>7. Files'
      BY <1>1, <1>3, <1>5, Stands DEF Files
    <1>8. Selection'
      BY <1>1, <1>3, <1>5, Stands DEF Selection, Prepared, Marking, Own, Version
    <1>9. Prepared' /\ ~Marking'
      BY <1>1 DEF Prepared, Marking
    <1>10. updater.op \in Operations
      BY Stands DEF PositionAt
    <1>11. Position'
      BY <1>1, <1>3, <1>5, <1>6, <1>9, <1>10 DEF Position, PositionAt
    <1> QED BY <1>1, <1>2, <1>3, <1>6, <1>7, <1>8, <1>11, Stands, HostSteps

LEMMA SafeRestores ==
    ASSUME Safe, RestorePrepared("recover", "revive") \/ RestorePrepared("restore", "unprepare")
    PROVE  Safe'
    <1>1. CASE RestorePrepared("recover", "revive")
      <2>1. updater.pc = "recover"
        BY <1>1 DEF RestorePrepared, At
      <2>2. Prepared /\ updater.op # None /\ pending = updater.op
        BY <2>1, Stands DEF PositionAt
      <2> QED BY <1>1, <2>2, RestoreKeeps
    <1>2. CASE RestorePrepared("restore", "unprepare")
      <2>1. updater.pc = "restore"
        BY <1>2 DEF RestorePrepared, At
      <2>2. Prepared /\ updater.op # None
        BY <2>1, Stands DEF PositionAt
      <2> QED BY <1>2, <2>2, RestoreKeeps
    <1> QED BY <1>1, <1>2

LEMMA SafeUndo ==
    ASSUME Safe, Undo
    PROVE  Safe'
    <1>1. CASE updater.stopped /\ transition # None
      <2>1. updater.pc = "undo" /\ RestorePrepared("undo", "undo_start")
        BY <1>1 DEF Undo
      <2>2. ~Marking /\ updater.op # None
        BY <2>1, Stands DEF PositionAt
      <2>3. Prepared
        BY <1>1, <2>2, Stands DEF Files, Transition, Prepared, Marking
      <2> QED BY <2>1, <2>2, <2>3, RestoreKeeps
    <1> QED BY <1>1, SafeUndoElse

(* The file to restore is unlinked with the known good release selected.    *)
LEMMA SafeUnlinkRestore ==
    ASSUME Safe, \/ UnlinkRestore("unlink_restore", "unlink_transition")
                 \/ UnlinkRestore("drop_restore", "drop_transition")
                 \/ UnlinkRestore("unprepare", "untransition")
    PROVE  Safe'
    <1>1. /\ current' = current /\ transition' = transition /\ pending' = pending /\ attempt' = attempt
          /\ proof' = proof /\ outcome' = outcome /\ attempts' = attempts /\ accepted' = accepted /\ aside' = aside
          /\ restore' = FALSE /\ UpdaterFrame /\ Anew
      BY DEF UnlinkRestore, updateFiles, Anew
    <1>2. UNCHANGED <<serverVars, journals>> /\ faults' \in 0..MaxFaults
      BY <1>1, Frame
    <1>3. /\ Good' = Good /\ (\A op : Accepted(op)' = Accepted(op)) /\ Operations' = Operations
          /\ rollouts' = rollouts
      BY <1>1, <1>2, Same
    <1>4. /\ updater' \in UpdaterShape /\ updater'.op = updater.op
          /\ \/ updater.pc = "unlink_restore" /\ updater'.pc = "unlink_transition"
             \/ updater.pc = "drop_restore" /\ updater'.pc = "drop_transition"
             \/ updater.pc = "unprepare" /\ updater'.pc = "untransition"
      BY PcIs DEF UnlinkRestore, At, UpdaterPcs, Faulty
    <1>5. current = Good
      BY <1>4, Stands DEF PositionAt
    <1>6. Files'
      BY <1>1, <1>3, Stands DEF Files
    <1>7. Selection'
      BY <1>1, <1>3, <1>5, Stands DEF Selection, Prepared, Marking, Own, Version
    <1>8. Prepared' = Prepared /\ Marking' = Marking
      BY <1>1 DEF Prepared, Marking
    <1>9. Position'
      BY <1>1, <1>3, <1>4, <1>5, <1>8, Stands DEF Position, PositionAt
    <1> QED BY <1>1, <1>2, <1>3, <1>4, <1>6, <1>7, <1>9, Stands, HostSteps

(* The transition is forgotten with the known good release selected.        *)
LEMMA SafeUnlinkTransition ==
    ASSUME Safe, \/ UnlinkTransition("unlink_transition", "check")
                 \/ UnlinkTransition("drop_transition", "off")
                 \/ UnlinkTransition("untransition", "unattempt")
    PROVE  Safe'
    <1>1. /\ current' = current /\ restore' = restore /\ pending' = pending /\ attempt' = attempt
          /\ proof' = proof /\ outcome' = outcome /\ attempts' = attempts /\ accepted' = accepted /\ aside' = aside
          /\ transition' = None /\ UpdaterFrame /\ Anew
      BY DEF UnlinkTransition, updateFiles, Anew
    <1>2. UNCHANGED <<serverVars, journals>> /\ faults' \in 0..MaxFaults
      BY <1>1, Frame
    <1>3. /\ Good' = Good /\ (\A op : Accepted(op)' = Accepted(op)) /\ Operations' = Operations
          /\ rollouts' = rollouts
      BY <1>1, <1>2, Same
    <1>4. /\ updater' \in UpdaterShape
          /\ \/ updater.pc = "drop_transition" /\ updater' = Off
             \/ updater'.op = updater.op /\ updater.pc = "unlink_transition" /\ updater'.pc = "check"
             \/ updater'.op = updater.op /\ updater.pc = "untransition" /\ updater'.pc = "unattempt"
      <2>1. CASE UnlinkTransition("drop_transition", "off")
        BY <2>1, OffIs DEF UnlinkTransition
      <2>2. CASE UnlinkTransition("unlink_transition", "check")
        <3>1. updater' = [updater EXCEPT !.pc = "check"]
          BY <2>2 DEF UnlinkTransition
        <3> QED BY <2>2, <3>1, PcIs DEF UnlinkTransition, UpdaterPcs
      <2>3. CASE UnlinkTransition("untransition", "unattempt")
        <3>1. updater' = [updater EXCEPT !.pc = "unattempt"]
          BY <2>3 DEF UnlinkTransition
        <3> QED BY <2>3, <3>1, PcIs DEF UnlinkTransition, UpdaterPcs, Faulty
      <2> QED BY <2>1, <2>2, <2>3
    <1>5. current = Good /\ (attempt # None => Version(attempt.op) # Good)
      <2>1. current = Good /\ transition # None /\ (Marking => attempt = None \/ Prepared)
        BY <1>4, Stands DEF PositionAt, Prepared, Marking
      <2>2. CASE Prepared
        BY <2>1, <2>2, Stands DEF Selection, Own
      <2>3. CASE ~Prepared
        BY <2>1, <2>3, Stands DEF Files, Transition, Prepared, Marking
      <2> QED BY <2>2, <2>3
    <1>6. Files'
      BY <1>1, <1>3, Stands DEF Files
    <1>7. Selection'
      BY <1>1, <1>3, <1>5, Stands DEF Selection, Prepared, Marking, Version
    <1>8. ~Prepared' /\ ~Marking'
      BY <1>1 DEF Prepared, Marking
    <1>9. Position'
      <2>1. CASE updater' = Off
        <3>1. updater'.pc = "off" /\ updater'.op = None
          BY <2>1 DEF Off
        <3> QED BY <3>1 DEF Position, PositionAt
      <2>2. CASE updater'.op = updater.op /\ updater.pc = "unlink_transition" /\ updater'.pc = "check"
        BY <1>1, <1>3, <1>8, <2>2, Stands DEF Position, PositionAt
      <2>3. CASE updater'.op = updater.op /\ updater.pc = "untransition" /\ updater'.pc = "unattempt"
        BY <1>1, <1>3, <1>8, <2>3, Stands DEF Position, PositionAt
      <2> QED BY <1>4, <2>1, <2>2, <2>3
    <1> QED BY <1>1, <1>2, <1>3, <1>4, <1>6, <1>7, <1>9, Stands, HostSteps

LEMMA SafePublish ==
    ASSUME Safe, Publish
    PROVE  Safe'
    <1>1. /\ current' = current /\ restore' = restore /\ transition' = transition /\ pending' = pending
          /\ proof' = proof /\ outcome' = outcome /\ accepted' = accepted /\ aside' = aside
          /\ UpdaterFrame /\ Anew /\ updater.pc = "publish"
      BY DEF Publish, selectorFiles, Anew
    <1>2. UNCHANGED <<serverVars, journals>> /\ faults' \in 0..MaxFaults
      BY <1>1, Frame
    <1>3. /\ Good' = Good /\ (\A op : Accepted(op)' = Accepted(op)) /\ Operations' = Operations
          /\ rollouts' = rollouts
      BY <1>1, <1>2, Same
    <1>4. /\ transition = None /\ current = Good /\ pending = updater.op /\ Version(updater.op) # current
          /\ updater.op # None /\ updater.op \in Operations
      BY <1>1, Stands DEF PositionAt, Selection
    <1>5. updater.op \in OperationId /\ attempts \in Nat
      BY <1>4, AgentFacts, OperationParts, Stands DEF Files
    <1>6. CASE Version(updater.op) = Installed
      <2>1. /\ updater' \in UpdaterShape /\ updater'.pc = "fail" /\ updater'.op = updater.op
            /\ updater'.stopped = updater.stopped
        BY <1>6, PcIs DEF Publish, UpdaterPcs
      <2>2. UNCHANGED fileVars
        BY <1>1, <1>6 DEF Publish, fileVars, selectorFiles, updateFiles
      <2>3. PositionAt(updater')
        BY <1>4, <2>1 DEF PositionAt, Marking
      <2> QED BY <1>1, <1>2, <2>1, <2>2, <2>3, UpdaterMoves
    <1>7. CASE Version(updater.op) # Installed
      <2>1. updater' \in UpdaterShape /\ updater'.pc = "prepare" /\ updater'.op = updater.op
        BY <1>7, PcIs DEF Publish, UpdaterPcs, Faulty
      <2>2. attempts' = attempts + 1 /\ attempt' = [op |-> updater.op, id |-> attempts + 1]
        BY <1>7 DEF Publish
      <2>3. attempt' \in Attempt /\ attempt'.op = updater.op /\ attempt' # None
        BY <1>5, <2>2, WindowsAssumption DEF Attempt
      <2>4. Files'
        BY <1>1, <1>3, <1>4, <1>5, <2>2, <2>3, Stands DEF Files
      <2>5. Selection'
        BY <1>1, <1>3, <1>4, <2>3, Stands DEF Selection, Prepared, Marking, Version
      <2>6. Position'
        BY <1>1, <1>3, <1>4, <2>1, <2>3 DEF Position, PositionAt, Version
      <2> QED BY <1>1, <1>2, <1>3, <2>1, <2>4, <2>5, <2>6, Stands, HostSteps
    <1> QED BY <1>6, <1>7

LEMMA SafePrepareRestore ==
    ASSUME Safe, PrepareRestore
    PROVE  Safe'
    <1>1. /\ current' = current /\ transition' = transition /\ pending' = pending /\ attempt' = attempt
          /\ proof' = proof /\ outcome' = outcome /\ attempts' = attempts /\ accepted' = accepted /\ aside' = aside
          /\ restore' = TRUE /\ UpdaterFrame /\ Anew
          /\ updater.pc = "prepare" /\ updater' = [updater EXCEPT !.pc = "journal"]
      BY DEF PrepareRestore, At, updateFiles, Anew
    <1>2. UNCHANGED <<serverVars, journals>> /\ faults' \in 0..MaxFaults
      BY <1>1, Frame
    <1>3. /\ Good' = Good /\ (\A op : Accepted(op)' = Accepted(op)) /\ Operations' = Operations
          /\ rollouts' = rollouts
      BY <1>1, <1>2, Same
    <1>4. updater' \in UpdaterShape /\ updater'.pc = "journal" /\ updater'.op = updater.op
      BY <1>1, PcIs DEF UpdaterPcs, Faulty
    <1>5. Files'
      BY <1>1, <1>3, Stands DEF Files
    <1>6. Selection'
      BY <1>1, <1>3, Stands DEF Selection, Prepared, Marking, Own, Version
    <1>7. Position'
      BY <1>1, <1>3, <1>4, Stands DEF Position, PositionAt, Version
    <1> QED BY <1>1, <1>2, <1>3, <1>4, <1>5, <1>6, <1>7, Stands, HostSteps

LEMMA SafePrepareTransition ==
    ASSUME Safe, PrepareTransition
    PROVE  Safe'
    <1>1. /\ current' = current /\ restore' = restore /\ pending' = pending /\ attempt' = attempt
          /\ proof' = proof /\ outcome' = outcome /\ attempts' = attempts /\ accepted' = accepted /\ aside' = aside
          /\ transition' = [status |-> "prepared", prev |-> current, op |-> updater.op, id |-> attempt.id]
          /\ UpdaterFrame /\ Anew
          /\ updater.pc = "journal" /\ updater' = [updater EXCEPT !.pc = "stop"]
      BY DEF PrepareTransition, At, updateFiles, Anew
    <1>2. UNCHANGED <<serverVars, journals>> /\ faults' \in 0..MaxFaults
      BY <1>1, Frame
    <1>3. /\ Good' = Good /\ (\A op : Accepted(op)' = Accepted(op)) /\ Operations' = Operations
          /\ rollouts' = rollouts
      BY <1>1, <1>2, Same
    <1>4. updater' \in UpdaterShape /\ updater'.pc = "stop" /\ updater'.op = updater.op
      BY <1>1, PcIs DEF UpdaterPcs, Faulty
    <1>5. /\ transition = None /\ current = Good /\ restore /\ pending = updater.op
          /\ Version(updater.op) # current /\ updater.op # None /\ updater.op \in Operations
          /\ attempt # None /\ attempt.op = updater.op
      BY <1>1, Stands DEF PositionAt, Selection
    <1>6. attempt \in Attempt /\ current \in Versions /\ updater.op \in OperationId
      BY <1>5, Stands, AgentFacts, OperationParts DEF Files
    <1>7. attempt.id \in Nat /\ attempt = [op |-> updater.op, id |-> attempt.id]
      BY <1>5, <1>6 DEF Attempt
    <1>8. /\ transition' \in Transition /\ transition' # None /\ transition'.status = "prepared"
          /\ transition'.prev = current /\ transition'.op = updater.op /\ transition'.id = attempt.id
      BY <1>1, <1>6, <1>7, WindowsAssumption DEF Transition
    <1>9. Files'
      BY <1>1, <1>3, <1>5, <1>8, Stands DEF Files
    <1>10. Prepared' /\ ~Marking' /\ Own(transition)' = attempt
      BY <1>7, <1>8 DEF Prepared, Marking, Own
    <1>11. Selection'
      BY <1>1, <1>3, <1>5, <1>8, <1>10, Stands DEF Selection, Version
    <1>12. Position'
      BY <1>1, <1>3, <1>4, <1>5, <1>8, <1>10 DEF Position, PositionAt
    <1> QED BY <1>1, <1>2, <1>3, <1>4, <1>9, <1>11, <1>12, Stands, HostSteps

LEMMA SafeSelectCandidate ==
    ASSUME Safe, SelectCandidate
    PROVE  Safe'
    <1>1. /\ restore' = restore /\ transition' = transition /\ pending' = pending /\ attempt' = attempt
          /\ proof' = proof /\ outcome' = outcome /\ attempts' = attempts /\ accepted' = accepted /\ aside' = aside
          /\ current' = Version(updater.op) /\ UpdaterFrame /\ Anew
          /\ updater.pc = "select" /\ updater' = [updater EXCEPT !.pc = "start"]
      BY DEF SelectCandidate, At, updateFiles, Anew
    <1>2. UNCHANGED <<serverVars, journals>> /\ faults' \in 0..MaxFaults
      BY <1>1, Frame
    <1>3. /\ Good' = Good /\ (\A op : Accepted(op)' = Accepted(op)) /\ Operations' = Operations
          /\ rollouts' = rollouts
      BY <1>1, <1>2, Same
    <1>4. /\ updater' \in UpdaterShape /\ updater'.pc = "start" /\ updater'.op = updater.op
          /\ updater'.stopped = updater.stopped
      BY <1>1, PcIs DEF UpdaterPcs, Faulty
    <1>5. /\ Prepared /\ restore /\ transition.op = updater.op /\ updater.stopped
          /\ updater.op # None /\ updater.op \in Operations
      BY <1>1, Stands DEF PositionAt
    <1>6. current' \in Versions
      BY <1>1, <1>5, AgentFacts, OperationParts
    <1>7. Files'
      BY <1>1, <1>3, <1>6, Stands DEF Files
    <1>8. Prepared' /\ ~Marking' /\ transition # None
      BY <1>1, <1>5 DEF Prepared, Marking
    <1>9. Selection'
      BY <1>1, <1>3, <1>5, <1>8, Stands DEF Selection, Own, Version
    <1>10. Position'
      BY <1>1, <1>3, <1>4, <1>5, <1>8 DEF Position, PositionAt, Version
    <1> QED BY <1>1, <1>2, <1>3, <1>4, <1>7, <1>9, <1>10, Stands, HostSteps

(* The candidate becomes the known good release.                            *)
LEMMA SafeMarkAccepted ==
    ASSUME Safe, MarkAccepted
    PROVE  Safe'
    <1>1. /\ current' = current /\ restore' = restore /\ pending' = pending /\ attempt' = attempt
          /\ proof' = proof /\ outcome' = outcome /\ attempts' = attempts
          /\ transition' = Marked /\ accepted' = Append(accepted, transition.op) /\ aside' = aside
          /\ UpdaterFrame /\ Anew
          /\ updater.pc = "accept" /\ updater' = [updater EXCEPT !.pc = "forget_pending"]
      BY DEF MarkAccepted, At, updateFiles, Anew
    <1>2. UNCHANGED <<serverVars, journals>> /\ faults' \in 0..MaxFaults /\ rollouts' = rollouts
      BY <1>1, Frame DEF serverVars
    <1>3. updater' \in UpdaterShape /\ updater'.pc = "forget_pending" /\ updater'.op = updater.op
      BY <1>1, PcIs DEF UpdaterPcs
    <1>4. /\ Prepared /\ current = Version(transition.op) /\ proof = Own(transition)
          /\ attempt = Own(transition) /\ (updater.op # None => updater.op \in Operations)
      BY <1>1, Stands DEF PositionAt, Selection
    <1>5. /\ transition \in Transition /\ transition.op \in Operations /\ transition.op \in OperationId
          /\ accepted \in Seq(OperationId)
      BY <1>4, Stands, AgentFacts, OperationParts DEF Files, Prepared
    <1>6. /\ transition' \in Transition /\ transition' # None /\ transition'.status = "accepted"
          /\ transition'.op = transition.op /\ transition'.id = transition.id
      BY <1>1, <1>5, WindowsAssumption DEF Marked, Transition
    <1>7. /\ accepted' \in Seq(OperationId) /\ Len(accepted') = Len(accepted) + 1
          /\ DOMAIN accepted' = DOMAIN accepted \union {Len(accepted')} /\ accepted' # << >>
          /\ \A i \in DOMAIN accepted : accepted'[i] = accepted[i]
          /\ accepted'[Len(accepted')] = transition.op
      BY <1>1, <1>5
    <1>8. /\ Good' = Version(transition.op) /\ Operations' = Operations
      BY <1>2, <1>7 DEF Good, Version, Operations
    <1>9. (\A op : Accepted(op) => Accepted(op)') /\ Accepted(transition.op)'
      <2>1. \A op : Accepted(op) => Accepted(op)'
        BY <1>7 DEF Accepted
      <2>2. \E i \in DOMAIN accepted' : accepted'[i] = transition'.op
        BY <1>6, <1>7
      <2> QED BY <2>1, <2>2 DEF Accepted
    <1>10. Files'
      BY <1>1, <1>5, <1>6, <1>7, <1>8, Stands DEF Files
    <1>11. Marking' /\ ~Prepared' /\ Own(transition)' = Own(transition) /\ proof'.op = transition'.op
      BY <1>1, <1>4, <1>6 DEF Prepared, Marking, Own
    <1>12. Selection'
      BY <1>1, <1>2, <1>4, <1>6, <1>8, <1>9, <1>11 DEF Selection, Version
    <1>13. Position'
      BY <1>1, <1>3, <1>4, <1>8, <1>11 DEF Position, PositionAt
    <1> QED BY <1>1, <1>2, <1>3, <1>9, <1>10, <1>12, <1>13, Stands, HostSteps

LEMMA SafeForgetPending ==
    ASSUME Safe, ForgetPending
    PROVE  Safe'
    <1>1. /\ current' = current /\ restore' = restore /\ transition' = transition /\ attempt' = attempt
          /\ proof' = proof /\ outcome' = outcome /\ attempts' = attempts /\ accepted' = accepted /\ aside' = aside
          /\ pending' = None /\ UpdaterFrame /\ Anew
          /\ updater.pc = "forget_pending" /\ updater' = [updater EXCEPT !.pc = "forget_attempt"]
      BY DEF ForgetPending, At, selectorFiles, Anew
    <1>2. UNCHANGED <<serverVars, journals>> /\ faults' \in 0..MaxFaults
      BY <1>1, Frame
    <1>3. /\ Good' = Good /\ (\A op : Accepted(op)' = Accepted(op)) /\ Operations' = Operations
          /\ rollouts' = rollouts
      BY <1>1, <1>2, Same
    <1>4. updater' \in UpdaterShape /\ updater'.pc = "forget_attempt" /\ updater'.op = updater.op
      BY <1>1, PcIs DEF UpdaterPcs
    <1>5. Marking /\ ~Prepared
      BY <1>1, Stands DEF PositionAt, Marking, Prepared
    <1>6. Marking' /\ ~Prepared'
      BY <1>1, <1>5 DEF Marking, Prepared
    <1>7. Files'
      BY <1>1, <1>3, Stands DEF Files
    <1>8. Selection'
      BY <1>1, <1>3, <1>5, <1>6, Stands DEF Selection, Own, Version
    <1>9. Position'
      BY <1>1, <1>3, <1>4, <1>6, Stands DEF Position, PositionAt
    <1> QED BY <1>1, <1>2, <1>3, <1>4, <1>7, <1>8, <1>9, HostSteps

LEMMA SafeClearAttempt ==
    ASSUME Safe, ClearAttempt("forget_attempt", "drop_restore") \/ ClearAttempt("unattempt", "rolled_back")
    PROVE  Safe'
    <1>1. /\ current' = current /\ restore' = restore /\ transition' = transition /\ pending' = pending
          /\ proof' = proof /\ outcome' = outcome /\ attempts' = attempts /\ accepted' = accepted /\ aside' = aside
          /\ attempt' = None /\ UpdaterFrame /\ Anew
      BY DEF ClearAttempt, selectorFiles, Anew
    <1>2. UNCHANGED <<serverVars, journals>> /\ faults' \in 0..MaxFaults
      BY <1>1, Frame
    <1>3. /\ Good' = Good /\ (\A op : Accepted(op)' = Accepted(op)) /\ Operations' = Operations
          /\ rollouts' = rollouts
      BY <1>1, <1>2, Same
    <1>4. /\ updater' \in UpdaterShape /\ updater'.op = updater.op
          /\ \/ updater.pc = "forget_attempt" /\ updater'.pc = "drop_restore"
             \/ updater.pc = "unattempt" /\ updater'.pc = "rolled_back"
      BY PcIs DEF ClearAttempt, At, UpdaterPcs
    <1>5. /\ ~Prepared /\ current = Good
          /\ updater.pc = "forget_attempt" => transition # None
          /\ updater.pc = "unattempt" => ~Marking
      BY <1>4, Stands DEF PositionAt, Marking, Prepared, Selection
    <1>6. Prepared' = Prepared /\ Marking' = Marking
      BY <1>1 DEF Marking, Prepared
    <1>7. Files'
      BY <1>1, <1>3, Stands DEF Files
    <1>8. Selection'
      BY <1>1, <1>3, <1>5, <1>6, Stands DEF Selection, Own, Version
    <1>9. Position'
      BY <1>1, <1>3, <1>4, <1>5, <1>6, Stands DEF Position, PositionAt
    <1> QED BY <1>1, <1>2, <1>3, <1>4, <1>7, <1>8, <1>9, Stands, HostSteps

LEMMA SafeWriteOutcome ==
    ASSUME Safe, \/ WriteOutcome("rolled_back", "restart", "rolled_back")
                 \/ WriteOutcome("fail", "undo", "failed")
    PROVE  Safe'
    <1>1. /\ current' = current /\ restore' = restore /\ transition' = transition /\ pending' = pending
          /\ proof' = proof /\ attempt' = attempt /\ attempts' = attempts /\ accepted' = accepted /\ aside' = aside
          /\ UpdaterFrame /\ Anew
      BY DEF WriteOutcome, selectorFiles, Anew
    <1>2. UNCHANGED <<serverVars, journals>> /\ faults' \in 0..MaxFaults
      BY <1>1, Frame
    <1>3. /\ Good' = Good /\ (\A op : Accepted(op)' = Accepted(op)) /\ Operations' = Operations
          /\ rollouts' = rollouts
      BY <1>1, <1>2, Same
    <1>4. PICK pc \in {"restart", "undo"}, st \in {"rolled_back", "failed"} :
              /\ updater' = [updater EXCEPT !.pc = pc]
              /\ outcome' = [op |-> updater.op, status |-> st, version |-> updater.prev]
              /\ updater.pc \in {"rolled_back", "fail"} /\ (pc = "undo" => updater.pc = "fail")
      BY DEF WriteOutcome
    <1>5. /\ updater' \in UpdaterShape /\ updater'.pc = pc /\ updater'.op = updater.op
          /\ updater'.stopped = updater.stopped
      BY <1>4, PcIs DEF UpdaterPcs
    <1>6. updater.op # None /\ updater.op \in Operations
      BY <1>4, Stands DEF PositionAt
    <1>7. updater.op \in OperationId /\ updater.prev \in Versions \union {None}
      BY <1>6, AgentFacts, OperationParts, Stands DEF UpdaterShape
    <1>8. outcome' \in Report /\ outcome'.op \in Operations /\ outcome'.status # "applied"
      BY <1>4, <1>6, <1>7 DEF Report, Outcomes
    <1>9. Files'
      BY <1>1, <1>3, <1>8, Stands DEF Files
    <1>10. Selection'
      BY <1>1, <1>3, Stands DEF Selection, Prepared, Marking, Own, Version
    <1>11. Marking' = Marking
      BY <1>1 DEF Marking
    <1>12. Position'
      BY <1>1, <1>3, <1>4, <1>5, <1>6, <1>11, Stands DEF Position, PositionAt
    <1> QED BY <1>1, <1>2, <1>3, <1>5, <1>9, <1>10, <1>12, Stands, HostSteps

(* The request is put aside, with the updater off or in a handler that no   *)
(* longer needs it.                                                         *)
LEMMA QuarantineKeeps ==
    ASSUME Safe, UNCHANGED <<serverVars, journals, agent, selectorFiles>>,
           UNCHANGED <<attempt, proof, outcome, attempts, accepted>>, ~Marking,
           quarantine_invalid_pending, faults' \in 0..MaxFaults, updater' \in UpdaterShape,
           updater'.pc \in {"off", "restart", "undo"}, updater'.op # None => updater'.op \in Operations,
           updater'.pc # "off" => updater'.op # None,
           updater'.pc = "undo" /\ ~updater'.stopped => current = Good
    PROVE  Safe'
    <1>1. /\ current' = current /\ restore' = restore /\ transition' = transition /\ proof' = proof
          /\ attempt' = attempt /\ outcome' = outcome /\ attempts' = attempts /\ accepted' = accepted
          /\ Anew
      BY DEF selectorFiles, Anew
    <1>2. /\ Good' = Good /\ (\A op : Accepted(op)' = Accepted(op)) /\ Operations' = Operations
          /\ rollouts' = rollouts
      BY <1>1, Same
    <1>3. /\ pending' \in {pending, None} /\ aside' \subseteq OperationId /\ aside \subseteq aside'
          /\ pending' # pending => pending \in aside'
      BY Stands DEF quarantine_invalid_pending, Files
    <1>4. Files'
      BY <1>1, <1>2, <1>3, Stands DEF Files
    <1>5. Prepared' = Prepared /\ ~Marking'
      BY <1>1 DEF Prepared, Marking
    <1>6. Selection'
      <2>1. ASSUME Prepared
            PROVE  pending' = transition.op \/ (pending' = None /\ transition.op \in aside')
        BY <1>3, <2>1, Stands DEF Selection
      <2> QED BY <1>1, <1>2, <1>5, <2>1, Stands DEF Selection, Own, Version
    <1>7. Position'
      BY <1>1, <1>2, <1>5 DEF Position, PositionAt
    <1> QED BY <1>1, <1>2, <1>3, <1>4, <1>6, <1>7, Stands, HostSteps

LEMMA SafeLoadFails ==
    ASSUME Safe, LoadFails
    PROVE  Safe'
    <1>1. ~Marking /\ faults' \in 0..MaxFaults
      BY OneFault DEF LoadFails, Marking
    <1>2. updater' \in UpdaterShape /\ updater'.pc = "off" /\ updater'.op = None
      BY OffIs DEF LoadFails, Off
    <1> QED BY <1>1, <1>2, QuarantineKeeps DEF LoadFails

LEMMA SafeOutcomeFails ==
    ASSUME Safe, OutcomeFails("rolled_back", "restart") \/ OutcomeFails("fail", "undo")
    PROVE  Safe'
    <1>1. /\ UNCHANGED <<serverVars, journals, agent, selectorFiles>>
          /\ UNCHANGED <<attempt, proof, outcome, attempts, accepted>>
          /\ quarantine_invalid_pending /\ faults' \in 0..MaxFaults
      BY OneFault DEF OutcomeFails
    <1>2. PICK pc \in {"restart", "undo"} :
              /\ updater' = [updater EXCEPT !.pc = pc]
              /\ updater.pc = IF pc = "undo" THEN "fail" ELSE "rolled_back"
      BY DEF OutcomeFails, At
    <1>3. /\ updater' \in UpdaterShape /\ updater'.pc = pc /\ updater'.op = updater.op
          /\ updater'.stopped = updater.stopped
      BY <1>2, PcIs DEF UpdaterPcs
    <1>4. /\ ~Marking /\ updater.op # None /\ updater.op \in Operations
          /\ pc = "undo" /\ ~updater.stopped => current = Good
      BY <1>2, Stands DEF PositionAt
    <1> QED BY <1>1, <1>3, <1>4, QuarantineKeeps

-----------------------------------------------------------------------------
(* The agent's own writes *)

(* The proof of an attempt is for the selected candidate.                   *)
LEMMA SafeHandshake ==
    ASSUME Safe, record_after_server_handshake
    PROVE  Safe'
    <1>1. /\ current' = current /\ restore' = restore /\ transition' = transition /\ pending' = pending
          /\ attempt' = attempt /\ outcome' = outcome /\ attempts' = attempts /\ accepted' = accepted /\ aside' = aside
          /\ proof' = attempt /\ attempt # None /\ updater' = updater /\ agent' = agent
          /\ faults' = faults /\ UNCHANGED <<serverVars, journals>>
      BY DEF record_after_server_handshake, selectorFiles, AgentFrame
    <1>2. /\ Good' = Good /\ (\A op : Accepted(op)' = Accepted(op)) /\ Operations' = Operations
          /\ rollouts' = rollouts
      BY <1>1, Same
    <1>3. Files'
      BY <1>1, <1>2, Stands DEF Files
    <1>4. /\ Prepared => attempt = Own(transition) /\ Version(transition.op) # Good
          /\ Marking => attempt = Own(transition) /\ Accepted(transition.op)
          /\ transition = None => Version(attempt.op) # Good
          /\ transition = None \/ Prepared \/ Marking
      BY <1>1, Stands DEF Selection, Files, Transition, Prepared, Marking
    <1>5. Version(attempt.op) = Good => Accepted(attempt.op)
      BY <1>4 DEF Own
    <1>6. Prepared' = Prepared /\ Marking' = Marking /\ Own(transition)' = Own(transition)
      BY <1>1 DEF Prepared, Marking, Own
    <1>7. Selection'
      BY <1>1, <1>2, <1>4, <1>5, <1>6, Stands DEF Selection, Version
    <1>8. Position'
      BY <1>1, <1>2, <1>4, <1>6, Stands DEF Position, PositionAt, Version
    <1>9. Anew /\ faults' \in 0..MaxFaults /\ updater' \in UpdaterShape
      BY <1>1, AgentFacts, Stands DEF Anew
    <1> QED BY <1>1, <1>2, <1>3, <1>7, <1>8, <1>9, Stands, HostSteps

(* What the agent writes into the requests while the mutex is free and no   *)
(* transition is unfinished.                                                *)
LEMMA RequestWrites ==
    ASSUME Safe, Free, transition = None, UNCHANGED <<serverVars, journals, selectorFiles>>,
           UNCHANGED <<proof, attempts, updater, accepted, aside>>, faults' \in 0..MaxFaults, Anew,
           pending' \in handoffs \union {None}, attempt' \in {attempt, None}, outcome' \in {outcome, None}
    PROVE  Safe'
    <1>1. /\ current' = current /\ restore' = restore /\ transition' = transition /\ proof' = proof
          /\ attempts' = attempts /\ accepted' = accepted /\ aside' = aside /\ updater' = updater
      BY DEF selectorFiles
    <1>2. /\ Good' = Good /\ (\A op : Accepted(op)' = Accepted(op)) /\ Operations' = Operations
          /\ rollouts' = rollouts
      BY <1>1, Same
    <1>3. pending' \in OperationId \union {None}
      BY Stands, AgentFacts, OperationParts
    <1>4. Files'
      BY <1>1, <1>2, <1>3, Stands DEF Files
    <1>5. ~Prepared' /\ ~Marking' /\ ~Prepared
      BY <1>1 DEF Prepared, Marking
    <1>6. Selection'
      BY <1>1, <1>2, <1>5, Stands DEF Selection, Version
    <1>7. updater.pc \in {"off", "extract"}
      BY <1>5, Stands DEF Free, Unlocked, PositionAt
    <1>8. Position'
      BY <1>1, <1>2, <1>5, <1>7, Stands DEF Position, PositionAt, Version
    <1> QED BY <1>1, <1>2, <1>4, <1>6, <1>8, Stands, HostSteps

LEMMA GoesAnew ==
    ASSUME Safe, NEW pc \in {"poll", "idle", "trigger"}, Goto(pc)
    PROVE  Anew
    BY AgentFacts, GotoIs DEF Anew, Running

LEMMA SafeCleanUp ==
    ASSUME Safe, CleanUp
    PROVE  Safe'
    <1>1. Goto("poll") /\ UNCHANGED <<serverVars, journals, selectorFiles>>
          /\ UNCHANGED <<proof, attempts, updater, accepted, aside>> /\ faults' \in 0..MaxFaults
      BY AgentFacts DEF CleanUp, AgentFrame
    <1>2. CASE Unchanged
      <2>1. Free /\ transition = None /\ pending' = None /\ attempt' = None /\ outcome' = None
        BY <1>2 DEF Unchanged, CleanUp
      <2> QED BY <1>1, <2>1, GoesAnew, RequestWrites
    <1>3. CASE ~Unchanged
      <2>1. Quiet
        BY <1>3 DEF CleanUp, Quiet, AgentFrame, fileVars, updateFiles
      <2> QED BY <1>1, <2>1, AgentGoes
    <1> QED BY <1>2, <1>3

LEMMA SafeCleanUpInterrupted ==
    ASSUME Safe, CleanUpInterrupted
    PROVE  Safe'
    <1>1. /\ UNCHANGED <<serverVars, journals, selectorFiles>>
          /\ UNCHANGED <<proof, attempts, updater, accepted, aside>> /\ faults' \in 0..MaxFaults
          /\ attempt' = None /\ pending' \in {pending, None} /\ outcome' = outcome
      BY OneFault DEF CleanUpInterrupted
    <1>2. Free /\ transition = None /\ Anew
      BY Restarts DEF CleanUpInterrupted, Unchanged
    <1> QED BY <1>1, <1>2, Stands, RequestWrites

LEMMA SafeWritePending ==
    ASSUME Safe, WritePending
    PROVE  Safe'
    <1>1. /\ UNCHANGED <<serverVars, journals, selectorFiles>> /\ UNCHANGED <<attempt, outcome>>
          /\ UNCHANGED <<proof, attempts, updater, accepted, aside>> /\ faults' \in 0..MaxFaults
      BY AgentFacts DEF WritePending, AgentFrame
    <1>2. CASE Free /\ pending = None /\ transition = None /\ outcome = None
      <2>1. pending' = agent.op /\ Goto("trigger") /\ agent.op \in handoffs
        BY <1>2 DEF WritePending, Safe, AtHand
      <2> QED BY <1>1, <1>2, <2>1, GoesAnew, RequestWrites
    <1>3. CASE ~(Free /\ pending = None /\ transition = None /\ outcome = None)
      <2>1. Goto("idle") /\ Quiet
        BY <1>3 DEF WritePending, Quiet, AgentFrame, fileVars, updateFiles
      <2> QED BY <2>1, AgentGoes
    <1> QED BY <1>2, <1>3

-----------------------------------------------------------------------------
(* The theorems *)

LEMMA InitSafe ==
    ASSUME Init
    PROVE  Safe
    <1>1. /\ builds = Builds /\ rollouts = << >> /\ reports = {} /\ handoffs = {} /\ acked = {}
          /\ journal = {} /\ agent = AgentAt("report", Installed) /\ updater = Off
          /\ current = Installed /\ restore = FALSE /\ transition = None /\ pending = None
          /\ attempt = None /\ proof = None /\ outcome = None /\ attempts = 0 /\ faults = 0
          /\ accepted = << >> /\ aside = {}
      BY DEF Init, AdapterInit
    <1>2. Operations = {} /\ Good = current /\ Installed \in Versions
      BY <1>1 DEF Operations, Good, Versions
    <1>3. ServerShape /\ Journals
      BY <1>1 DEF ServerShape, Journals
    <1>4. Files
      <2>1. accepted \in Seq(OperationId) /\ \A i \in DOMAIN accepted : accepted[i] \in Operations
        BY <1>1
      <2>2. current \in Versions /\ restore \in BOOLEAN /\ attempts \in Nat
        BY <1>1, <1>2
      <2> QED BY <1>1, <2>1, <2>2, Zenon DEF Files
    <1>5. agent \in AgentShape /\ agent.pc = "report" /\ agent.op = None
      BY <1>1, <1>2, AgentAtIs DEF Running
    <1>6. Processes
      BY <1>1, <1>5, OffIs, WindowsAssumption DEF Processes
    <1>7. Position /\ Selection /\ AppliedAccepted /\ AtHand
      BY <1>1, <1>2, <1>5, OffIs DEF Position, Selection, Prepared, Marking, AppliedAccepted, AtHand
    <1> QED BY <1>1, <1>3, <1>4, <1>6, <1>7 DEF Safe, Shapes

LEMMA NextSafe ==
    ASSUME Safe, [Next]_vars
    PROVE  Safe'
    <1>1. CASE Agent
      BY <1>1, SafeReportStartup, SafeAcknowledgeFirst, SafeSendReport, SafeCleanUp, SafeRunOnce,
         SafeDownload, SafeHandoff, SafeAcknowledge, SafeWritePending, SafeTrigger, SafePollAgain DEF Agent
    <1>2. CASE Updater
      <2>1. CASE reconcile_transition
        BY <2>1, SafeStops, SafeRestores, SafeStartKnownGood, SafeUnlinkRestore, SafeUnlinkTransition
           DEF reconcile_transition
      <2>2. CASE complete_accepted
        BY <2>2, SafeForgetPending, SafeClearAttempt DEF complete_accepted
      <2>3. CASE rollback
        BY <2>3, SafeStops, SafeRestores, SafeUnlinkRestore, SafeUnlinkTransition, SafeClearAttempt,
           SafeWriteOutcome, SafeRestartKnownGood DEF rollback
      <2>4. CASE handle_failure
        BY <2>4, SafeWriteOutcome, SafeUndo, SafeUndoStart DEF handle_failure
      <2> QED BY <1>2, <2>1, <2>2, <2>3, <2>4, SafeLoadTransition, SafeCheckRequest, SafeExtract,
                 SafePublish, SafePrepareRestore, SafePrepareTransition, SafeStopService,
                 SafeSelectCandidate, SafeStartCandidate, SafeAwaitProof, SafeMarkAccepted DEF Updater
    <1>3. CASE UNCHANGED vars
      <2>1. /\ UNCHANGED <<serverVars, journals, fileVars>> /\ updater' = updater
            /\ agent' = agent /\ faults' = faults
        BY <1>3 DEF vars, serverVars, journals, fileVars, selectorFiles, updateFiles
      <2>2. Anew /\ PositionAt(updater') /\ updater' \in UpdaterShape /\ faults' \in 0..MaxFaults
        BY <2>1, Stands, AgentFacts DEF Anew
      <2> QED BY <2>1, <2>2, UpdaterMoves
    <1> QED BY <1>1, <1>2, <1>3, SafeHandshake, SafeAdmin, SafeIoError, SafeFaults, SafeLoadFails,
               SafeOutcomeFails, SafeCleanUpInterrupted, SafeAgentCrash DEF Next

(* Theorem: the inductive invariant holds in every reachable state: what    *)
(* the updater's position, the agent's and the service's rows say of the    *)
(* files of updater_service.py and online_update_runtime.py.                *)
THEOREM WindowsSafe == Spec => []Safe
    <1>1. Init => Safe
      BY InitSafe
    <1>2. Safe /\ [Next]_vars => Safe'
      BY NextSafe
    <1> QED BY <1>1, <1>2, PTL DEF Spec

LEMMA Typed ==
    ASSUME Safe
    PROVE  TypeOK
    <1>1. ServerTypeOK
      <2>1. ASSUME NEW r \in DOMAIN rollouts
            PROVE  /\ rollouts[r].mode \in Modes /\ rollouts[r].status \in Statuses
                   /\ rollouts[r].pauses \in 0..MaxPauses
                   /\ DOMAIN rollouts[r].targets \subseteq Devices
                   /\ \A d \in DOMAIN rollouts[r].targets : rollouts[r].targets[d] \in States
        <3>1. rollouts[r] \in Rollout
          BY AgentFacts, Fields
        <3>2. PICK ds \in SUBSET Devices : rollouts[r].targets \in [ds -> States]
          BY <3>1 DEF Rollout, Targets
        <3> QED BY <3>1, <3>2 DEF Rollout
      <2> QED BY <2>1, AgentFacts DEF ServerTypeOK, ServerShape, Modes, Statuses, States
    <1>2. AdapterTypeOK
      BY <1>1 DEF AdapterTypeOK, Safe, Shapes, Journals
    <1>3. /\ agent.pc \in Running \union {"down"} /\ agent.version \in Versions
          /\ agent.op \in Operations \union {None}
      BY DEF Safe, Shapes, Processes, AgentShape, AtHand
    <1>4. updater.pc \in UpdaterPcs /\ updater.op \in Operations \union {None}
          /\ updater.prev \in Versions \union {None}
      BY Stands DEF PositionAt, UpdaterShape
    <1> QED BY <1>2, <1>3, <1>4, Stands, AgentFacts DEF TypeOK, Files, UpdaterPcs, Ending

(* Theorem: always, a release that nobody proved is selected only under a   *)
(* prepared transition that leads back to the last accepted one with the    *)
(* file to restore it on disk, a candidate is accepted on the proof of this *)
(* very startup attempt, and the server knows as applied only accepted      *)
(* operations (updater_service.py:602, is_confirmed,                        *)
(* online_update_runtime.py:347), whatever dies in between.                 *)
THEOREM ProvenOrRestorableAlways == Spec => []ProvenOrRestorable
    <1>1. Safe => ProvenOrRestorable
      <2> SUFFICES ASSUME Safe
                   PROVE  ProvenOrRestorable
        OBVIOUS
      <2>1. TypeOK
        BY Typed
      <2>2. transition = None \/ Prepared \/ Marking
        BY Stands DEF Files, Transition, Prepared, Marking
      <2> QED BY <2>1, <2>2, Stands DEF ProvenOrRestorable, Selection, Prepared, Marking, Own, Safe,
                 AppliedAccepted
    <1> QED BY <1>1, WindowsSafe, PTL

(* Theorem: an unfinished transition always keeps the attempt and the       *)
(* request that recovery needs to identify it                               *)
(* (online_update_runtime.py:317, updater_service.py:661), unless the       *)
(* updater itself put that request aside (updater_service.py:424, :565).    *)
THEOREM AuthorityKeptAlways == Spec => []AuthorityKept
    <1>1. Safe => AuthorityKept
      BY Stands DEF AuthorityKept, Selection, Prepared, Own
    <1> QED BY <1>1, WindowsSafe, PTL
=============================================================================
