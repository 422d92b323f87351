--------------------------- MODULE RolloutProofs ---------------------------
(***************************************************************************)
(* Theorems about the rollout service, for any devices, builds, report     *)
(* keys and bounds, and about an ALT Linux host updated through it, for any *)
(* number of rollouts and faults.                                          *)
(***************************************************************************)
EXTENDS RolloutService, AltUpdate, SequenceTheorems, WellFoundedInduction, TLAPS

Modes    == {"canary", "bulk", "rollback"}
Statuses == {"active", "paused", "completed", "cancelled"}
States   == Open \union Terminal

Targets == UNION {[ds -> States] : ds \in SUBSET Devices}

Rollout == [build : Builds, mode : Modes, status : Statuses, pauses : 0..MaxPauses,
            targets : Targets]

Row == [op : Nat \X Devices, key : Keys, status : Outcomes, version : Builds]

(* The types, as the provers need them: ServerTypeOK does not say that the  *)
(* rollouts are a sequence of records.                                     *)
RolloutShape ==
    /\ builds \subseteq Builds
    /\ rollouts \in Seq(Rollout)
    /\ \A r \in DOMAIN rollouts : rollouts[r].build \in builds
    /\ \A r \in DOMAIN rollouts : DOMAIN rollouts[r].targets # {}

Shape ==
    /\ RolloutShape
    /\ reports \subseteq Row
    /\ \A row \in reports : row.op \in Operations
    /\ touched \in BOOLEAN

(* What makes a context stale for good: its rollout was paused again, is    *)
(* not paused any more, or its one target is over.                         *)
Stale ==
    expected # None =>
        /\ expected.op \in Operations
        /\ DOMAIN rollouts[expected.op[1]].targets = {expected.op[2]}
        /\ expected.paused_at \in Nat
        /\ rollouts[expected.op[1]].pauses >= expected.paused_at
        /\ touched => \/ rollouts[expected.op[1]].pauses > expected.paused_at
                      \/ rollouts[expected.op[1]].status # "paused"
                      \/ Target(expected.op) \notin Open

SoleOwner ==
    \A o1, o2 \in Operations : o1[2] = o2[2] /\ Target(o1) \in Open /\ Target(o2) \in Open => o1 = o2

IInv == Shape /\ SoleOwner /\ ReportsMatch /\ OverTogether /\ Stale

-----------------------------------------------------------------------------
(* The rollouts as a function: what the cases below use of Shape.           *)

LEMMA Fields ==
    ASSUME RolloutShape
    PROVE  /\ \A r \in DOMAIN rollouts : rollouts[r] \in Rollout
           /\ DOMAIN rollouts = 1..Len(rollouts)
           /\ Len(rollouts) \in Nat
  BY DEF RolloutShape

(* An operation is a rollout and a device of its targets.                   *)
LEMMA OperationParts ==
    ASSUME NEW op \in Operations
    PROVE  /\ op[1] \in DOMAIN rollouts /\ op[2] \in Devices
           /\ op[2] \in DOMAIN rollouts[op[1]].targets
           /\ op = <<op[1], op[2]>>
  BY DEF Operations

LEMMA OperationIntro ==
    ASSUME NEW r \in DOMAIN rollouts, NEW d \in Devices, d \in DOMAIN rollouts[r].targets
    PROVE  <<r, d>> \in Operations
  BY DEF Operations

-----------------------------------------------------------------------------
(* Three kinds of step: one target moves, one rollout changes its status,   *)
(* or a rollout is added.                                                  *)

Moves(op, s, st) ==
    /\ rollouts' \in Seq(Rollout)
    /\ DOMAIN rollouts' = DOMAIN rollouts
    /\ \A r \in DOMAIN rollouts :
           /\ rollouts'[r].build = rollouts[r].build
           /\ rollouts'[r].mode = rollouts[r].mode
           /\ rollouts'[r].pauses = rollouts[r].pauses
           /\ rollouts'[r].status = IF r = op[1] THEN st ELSE rollouts[r].status
           /\ DOMAIN rollouts'[r].targets = DOMAIN rollouts[r].targets
           /\ \A d \in DOMAIN rollouts[r].targets :
                  rollouts'[r].targets[d] = IF r = op[1] /\ d = op[2] THEN s ELSE rollouts[r].targets[d]

Turns(r, st, n) ==
    /\ rollouts' \in Seq(Rollout)
    /\ DOMAIN rollouts' = DOMAIN rollouts
    /\ \A q \in DOMAIN rollouts :
           /\ rollouts'[q].build = rollouts[q].build
           /\ rollouts'[q].mode = rollouts[q].mode
           /\ rollouts'[q].pauses = IF q = r THEN n ELSE rollouts[q].pauses
           /\ rollouts'[q].status = IF q = r THEN st ELSE rollouts[q].status
           /\ rollouts'[q].targets = rollouts[q].targets

Adds(b, mode, ds) ==
    /\ rollouts' \in Seq(Rollout)
    /\ DOMAIN rollouts' = DOMAIN rollouts \union {Len(rollouts) + 1}
    /\ \A r \in DOMAIN rollouts : rollouts'[r] = rollouts[r]
    /\ rollouts'[Len(rollouts) + 1] =
           [build |-> b, mode |-> mode, status |-> "active", pauses |-> 0,
            targets |-> [d \in ds |-> "assigned"]]

LEMMA MovesFromExcept ==
    ASSUME RolloutShape, NEW op \in Operations, NEW s \in States, NEW st \in Statuses,
           rollouts' = [rollouts EXCEPT ![op[1]] =
                           [rollouts[op[1]] EXCEPT
                               !.targets = [rollouts[op[1]].targets EXCEPT ![op[2]] = s],
                               !.status = st]]
    PROVE  Moves(op, s, st)
  <1> DEFINE r == op[1]
             ts == [rollouts[r].targets EXCEPT ![op[2]] = s]
             new == [rollouts[r] EXCEPT !.targets = ts, !.status = st]
  <1>1. /\ r \in DOMAIN rollouts /\ op[2] \in Devices /\ op[2] \in DOMAIN rollouts[r].targets
        /\ rollouts[r] \in Rollout
    BY OperationParts, Fields
  <1>2. PICK ds \in SUBSET Devices : rollouts[r].targets \in [ds -> States]
    BY <1>1 DEF Rollout, Targets
  <1>3. ts \in [ds -> States]
    BY <1>2
  <1>4. ts \in Targets
    BY <1>3 DEF Targets
  <1>5. rollouts' = [rollouts EXCEPT ![r] = new]
    OBVIOUS
  <1>6. /\ DOMAIN ts = DOMAIN rollouts[r].targets
        /\ \A d \in DOMAIN rollouts[r].targets :
               ts[d] = IF d = op[2] THEN s ELSE rollouts[r].targets[d]
    BY <1>1
  <1> HIDE DEF ts
  <1>7. new \in Rollout
    BY <1>1, <1>4 DEF Rollout
  <1>8. rollouts' \in Seq(Rollout)
    BY <1>1, <1>7, <1>5 DEF RolloutShape
  <1>9. DOMAIN rollouts' = DOMAIN rollouts /\ rollouts'[r] = new
        /\ \A q \in DOMAIN rollouts : q # r => rollouts'[q] = rollouts[q]
    BY <1>1, <1>5
  <1>10. /\ new.build = rollouts[r].build /\ new.mode = rollouts[r].mode
        /\ new.pauses = rollouts[r].pauses /\ new.status = st /\ new.targets = ts
    BY <1>1 DEF Rollout
  <1> HIDE DEF new
  <1> QED
    BY <1>8, <1>9, <1>10, <1>6 DEF Moves, r

LEMMA MovesOperations ==
    ASSUME RolloutShape, NEW op \in Operations, NEW s, NEW st, Moves(op, s, st)
    PROVE  /\ Operations' = Operations
           /\ \A o \in Operations : Target(o)' = IF o = op THEN s ELSE Target(o)
  <1>1. Operations' = Operations
    BY DEF Moves, Operations
  <1>2. ASSUME NEW o \in Operations
        PROVE  Target(o)' = IF o = op THEN s ELSE Target(o)
    BY OperationParts DEF Moves, Target
  <1> QED
    BY <1>1, <1>2

LEMMA TurnsFromExcept ==
    ASSUME RolloutShape, NEW r \in DOMAIN rollouts, NEW st \in Statuses, NEW n \in 0..MaxPauses,
           rollouts' = [rollouts EXCEPT ![r] = [@ EXCEPT !.status = st, !.pauses = n]]
    PROVE  Turns(r, st, n)
  <1> DEFINE new == [rollouts[r] EXCEPT !.status = st, !.pauses = n]
  <1>1. rollouts[r] \in Rollout
    BY Fields
  <1>2. new \in Rollout
    BY <1>1 DEF Rollout
  <1>3. rollouts' = [rollouts EXCEPT ![r] = new]
    OBVIOUS
  <1>4. rollouts' \in Seq(Rollout)
    BY <1>2, <1>3 DEF RolloutShape
  <1>5. DOMAIN rollouts' = DOMAIN rollouts /\ rollouts'[r] = new
        /\ \A q \in DOMAIN rollouts : q # r => rollouts'[q] = rollouts[q]
    BY <1>3
  <1>6. /\ new.build = rollouts[r].build /\ new.mode = rollouts[r].mode
        /\ new.pauses = n /\ new.status = st /\ new.targets = rollouts[r].targets
    BY <1>1 DEF Rollout
  <1> HIDE DEF new
  <1> QED
    BY <1>4, <1>5, <1>6 DEF Turns

LEMMA TurnsOperations ==
    ASSUME RolloutShape, NEW r \in DOMAIN rollouts, NEW st, NEW n, Turns(r, st, n)
    PROVE  /\ Operations' = Operations
           /\ \A o \in Operations : Target(o)' = Target(o)
  <1>1. Operations' = Operations
    BY DEF Turns, Operations
  <1>2. ASSUME NEW o \in Operations
        PROVE  Target(o)' = Target(o)
    BY OperationParts DEF Turns, Target
  <1> QED
    BY <1>1, <1>2

LEMMA AddsFromAppend ==
    ASSUME RolloutShape, NEW b \in builds, NEW mode \in Modes, NEW ds \in SUBSET Devices,
           CreateActive(b, mode, ds)
    PROVE  Adds(b, mode, ds)
  <1> DEFINE new == [build |-> b, mode |-> mode, status |-> "active", pauses |-> 0,
                     targets |-> [d \in ds |-> "assigned"]]
  <1>1. [d \in ds |-> "assigned"] \in Targets
    BY DEF Targets, States, Open
  <1>2. new \in Rollout
    BY <1>1, RolloutAssumption DEF RolloutShape, Rollout, Statuses
  <1>3. rollouts' = Append(rollouts, new)
    BY DEF CreateActive
  <1> HIDE DEF new
  <1>4. rollouts \in Seq(Rollout)
    BY DEF RolloutShape
  <1>5. /\ rollouts' \in Seq(Rollout)
        /\ DOMAIN rollouts' = DOMAIN rollouts \union {Len(rollouts) + 1}
        /\ \A r \in DOMAIN rollouts : rollouts'[r] = rollouts[r]
        /\ rollouts'[Len(rollouts) + 1] = new
    BY <1>2, <1>3, <1>4
  <1> QED
    BY <1>5 DEF Adds, new

-----------------------------------------------------------------------------
(* The calls of the service as steps of these kinds.                        *)

LEMMA AckMoves ==
    ASSUME RolloutShape, NEW op \in Operations, NEW s \in {"requested", "scheduled"}, record_ack(op, s)
    PROVE  /\ rollouts[op[1]].status = "active" /\ Target(op) \in Open
           /\ rollouts' = rollouts \/ Moves(op, s, "active")
  <1>1. /\ rollouts[op[1]].status = "active" /\ Target(op) \in Open
        /\ rollouts' = rollouts \/ rollouts' = WithTarget(op, s)
    BY DEF record_ack, AckAccepted, Open
  <1>2. op[1] \in DOMAIN rollouts /\ rollouts[op[1]] \in Rollout
    BY OperationParts, Fields
  <1>3. WithTarget(op, s) = [rollouts EXCEPT ![op[1]] =
                                [rollouts[op[1]] EXCEPT
                                    !.targets = [rollouts[op[1]].targets EXCEPT ![op[2]] = s],
                                    !.status = "active"]]
    BY <1>1, <1>2 DEF WithTarget, Rollout
  <1>4. s \in States /\ "active" \in Statuses
    BY DEF States, Open, Statuses
  <1> QED
    BY <1>1, <1>3, <1>4, MovesFromExcept

LEMMA ReportMoves ==
    ASSUME RolloutShape, NEW op \in Operations, NEW rep, rep.status \in Outcomes, record_report(op, rep)
    PROVE  \E st \in Statuses :
              /\ Moves(op, rep.status, st)
              /\ \/ /\ st = "completed"
                    /\ \A d \in DOMAIN rollouts[op[1]].targets :
                          rollouts'[op[1]].targets[d] \in Terminal
                 \/ /\ st = rollouts[op[1]].status
                    /\ \E d \in DOMAIN rollouts[op[1]].targets :
                          rollouts'[op[1]].targets[d] \notin Terminal
  <1> DEFINE r == op[1]
             ts == [rollouts[r].targets EXCEPT ![op[2]] = rep.status]
             over == \A d \in DOMAIN ts : ts[d] \in Terminal
             st == IF over THEN "completed" ELSE rollouts[r].status
  <1>1. r \in DOMAIN rollouts /\ rollouts[r] \in Rollout
    BY OperationParts, Fields
  <1>2. /\ DOMAIN WithTarget(op, rep.status) = DOMAIN rollouts
        /\ WithTarget(op, rep.status)[r] = [rollouts[r] EXCEPT !.targets = ts]
        /\ WithTarget(op, rep.status)[r].targets = ts
        /\ WithTarget(op, rep.status)[r].status = rollouts[r].status
        /\ \A q \in DOMAIN rollouts : q # r => WithTarget(op, rep.status)[q] = rollouts[q]
    BY <1>1 DEF WithTarget, Rollout
  <1>3. rollouts' = [WithTarget(op, rep.status) EXCEPT ![r] =
                        [WithTarget(op, rep.status)[r] EXCEPT !.status = st]]
    BY <1>2 DEF record_report, Closed
  <1>4. [[rollouts[r] EXCEPT !.targets = ts] EXCEPT !.status = st]
            = [rollouts[r] EXCEPT !.targets = ts, !.status = st]
    BY <1>1 DEF Rollout
  <1> HIDE DEF ts, st
  <1>5. rollouts' = [rollouts EXCEPT ![r] = [rollouts[r] EXCEPT !.targets = ts, !.status = st]]
    <2>1. rollouts' = [WithTarget(op, rep.status) EXCEPT ![r] =
                          [rollouts[r] EXCEPT !.targets = ts, !.status = st]]
      BY <1>2, <1>3, <1>4
    <2>2. WithTarget(op, rep.status) = [rollouts EXCEPT ![r] = [rollouts[r] EXCEPT !.targets = ts]]
      BY <1>1 DEF WithTarget, Rollout, ts
    <2> QED
      BY <1>1, <2>1, <2>2
  <1>6. rep.status \in States /\ st \in Statuses
    BY <1>1 DEF States, Terminal, Rollout, Statuses, st
  <1>7. Moves(op, rep.status, st)
    BY <1>5, <1>6, MovesFromExcept DEF ts
  <1>8. \A d \in DOMAIN rollouts[r].targets : rollouts'[r].targets[d] = ts[d]
    BY <1>1, <1>7, OperationParts DEF Moves, ts
  <1>9. DOMAIN ts = DOMAIN rollouts[r].targets
    BY DEF ts
  <1> QED
    BY <1>6, <1>7, <1>8, <1>9 DEF st

LEMMA CancelMoves ==
    ASSUME RolloutShape, NEW op \in Operations, NEW e, cancel_paused_singleton_rollout(op, e)
    PROVE  /\ Moves(op, "cancelled", "cancelled")
           /\ Cancellable(op)
           /\ e = rollout_cancellation_context(op)
  <1>1. /\ Cancellable(op) /\ e = rollout_cancellation_context(op)
        /\ rollouts' = [WithTarget(op, "cancelled") EXCEPT ![op[1]].status = "cancelled"]
    BY DEF cancel_paused_singleton_rollout, CancelsExpected
  <1>2. op[1] \in DOMAIN rollouts /\ rollouts[op[1]] \in Rollout
    BY OperationParts, Fields
  <1>3. rollouts' = [rollouts EXCEPT ![op[1]] =
                        [rollouts[op[1]] EXCEPT
                            !.targets = [rollouts[op[1]].targets EXCEPT ![op[2]] = "cancelled"],
                            !.status = "cancelled"]]
    BY <1>1, <1>2 DEF WithTarget, Rollout
  <1>4. "cancelled" \in States /\ "cancelled" \in Statuses
    BY DEF States, Terminal, Statuses
  <1> QED
    BY <1>1, <1>3, <1>4, MovesFromExcept

LEMMA PauseTurns ==
    ASSUME RolloutShape, NEW r \in DOMAIN rollouts, pause_rollout(r)
    PROVE  /\ rollouts[r].status = "active"
           /\ Turns(r, "paused", rollouts[r].pauses + 1)
  <1>1. rollouts[r] \in Rollout /\ rollouts[r].pauses < MaxPauses
    BY Fields DEF pause_rollout
  <1>2. rollouts[r].pauses + 1 \in 0..MaxPauses /\ "paused" \in Statuses
    BY <1>1, RolloutAssumption DEF Rollout, Statuses
  <1>3. rollouts' = [rollouts EXCEPT ![r] =
                        [@ EXCEPT !.status = "paused", !.pauses = rollouts[r].pauses + 1]]
    BY <1>1 DEF pause_rollout, Rollout
  <1> QED
    BY <1>2, <1>3, TurnsFromExcept DEF pause_rollout

LEMMA ActivateTurns ==
    ASSUME RolloutShape, NEW r \in DOMAIN rollouts, activate_rollout(r)
    PROVE  /\ rollouts[r].status = "paused"
           /\ Turns(r, "active", rollouts[r].pauses)
  <1>1. rollouts[r] \in Rollout
    BY Fields
  <1>2. rollouts[r].pauses \in 0..MaxPauses /\ "active" \in Statuses
    BY <1>1 DEF Rollout, Statuses
  <1>3. rollouts' = [rollouts EXCEPT ![r] =
                        [@ EXCEPT !.status = "active", !.pauses = rollouts[r].pauses]]
    BY <1>1 DEF activate_rollout, Rollout
  <1> QED
    BY <1>2, <1>3, TurnsFromExcept DEF activate_rollout

-----------------------------------------------------------------------------
(* Every call preserves the inductive invariant.                            *)

LEMMA StutterStep ==
    ASSUME IInv, UNCHANGED <<rollouts, reports, expected, touched>>, builds \subseteq builds',
           builds' \subseteq Builds
    PROVE  IInv'
  <1>1. Operations' = Operations /\ \A o \in Operations : Target(o)' = Target(o)
    BY DEF Operations, Target
  <1>2. Shape'
    BY <1>1 DEF IInv, Shape, RolloutShape
  <1>3. SoleOwner' /\ ReportsMatch' /\ OverTogether' /\ Stale'
    BY <1>1 DEF IInv, SoleOwner, ReportsMatch, OverTogether, Stale
  <1> QED
    BY <1>2, <1>3 DEF IInv

LEMMA TouchBoolean ==
    ASSUME Shape, NEW r, Touch(r)
    PROVE  /\ touched' \in BOOLEAN
           /\ touched' => touched \/ (expected # None /\ expected.op[1] = r)
  BY DEF Shape, RolloutShape, Touch

LEMMA MovesShape ==
    ASSUME Shape, RolloutShape, NEW op \in Operations, NEW s, NEW st, Moves(op, s, st),
           builds' = builds, reports' \subseteq Row, \A row \in reports' : row.op \in Operations,
           touched' \in BOOLEAN
    PROVE  Shape'
  <1>1. Operations' = Operations
    BY MovesOperations
  <1>2. /\ rollouts' \in Seq(Rollout)
        /\ \A r \in DOMAIN rollouts' : rollouts'[r].build \in builds'
        /\ \A r \in DOMAIN rollouts' : DOMAIN rollouts'[r].targets # {}
    BY DEF Shape, RolloutShape, Moves
  <1> QED
    BY <1>1, <1>2 DEF Shape, RolloutShape

(* The rollout of the operation that moves decides whether OverTogether     *)
(* still holds: the others have not changed.                               *)
LEMMA MovesOver ==
    ASSUME IInv, NEW op \in Operations, NEW s, NEW st, Moves(op, s, st),
           LET states == {rollouts'[op[1]].targets[d] : d \in DOMAIN rollouts[op[1]].targets} IN
              CASE st = "completed" -> states \subseteq Outcomes
                [] st = "cancelled" -> states = {"cancelled"}
                [] OTHER -> states \intersect Open # {} /\ "cancelled" \notin states
    PROVE  OverTogether'
  <1> SUFFICES ASSUME NEW r \in DOMAIN rollouts'
               PROVE  LET states == {rollouts'[r].targets[d] : d \in DOMAIN rollouts'[r].targets} IN
                         CASE rollouts'[r].status = "completed" -> states \subseteq Outcomes
                           [] rollouts'[r].status = "cancelled" -> states = {"cancelled"}
                           [] OTHER -> states \intersect Open # {} /\ "cancelled" \notin states
    BY DEF OverTogether
  <1>1. CASE r = op[1]
    <2>1. rollouts'[r].status = st /\ DOMAIN rollouts'[r].targets = DOMAIN rollouts[op[1]].targets
      BY <1>1, OperationParts DEF Moves
    <2> HIDE DEF Moves
    <2> QED
      BY <1>1, <2>1
  <1>2. CASE r # op[1]
    <2>1. /\ r \in DOMAIN rollouts /\ rollouts'[r].status = rollouts[r].status
          /\ {rollouts'[r].targets[d] : d \in DOMAIN rollouts'[r].targets}
               = {rollouts[r].targets[d] : d \in DOMAIN rollouts[r].targets}
      BY <1>2 DEF Moves
    <2> QED
      BY <2>1 DEF IInv, OverTogether
  <1> QED
    BY <1>1, <1>2

(* A context stays stale when another rollout moves; when its own does, the *)
(* rollout is not paused or its target is over.                            *)
LEMMA MovesStale ==
    ASSUME IInv, NEW op \in Operations, NEW s, NEW st, Moves(op, s, st), Touch(op[1]),
           expected' = expected, st # "paused" \/ s \notin Open
    PROVE  Stale'
  <1> SUFFICES ASSUME expected # None
               PROVE  Stale'
    BY DEF Stale
  <1>1. /\ expected.op \in Operations /\ expected.op[1] \in DOMAIN rollouts
        /\ DOMAIN rollouts[expected.op[1]].targets = {expected.op[2]}
        /\ expected.op = <<expected.op[1], expected.op[2]>>
    BY OperationParts DEF IInv, Stale
  <1>2. /\ Operations' = Operations
        /\ \A o \in Operations : Target(o)' = IF o = op THEN s ELSE Target(o)
    BY MovesOperations DEF IInv, Shape
  <1>3. CASE expected.op[1] = op[1]
    <2>1. expected.op = op
      BY <1>1, <1>3, OperationParts
    <2>2. Target(expected.op)' = s
      BY <1>2, <2>1
    <2> QED
      BY <1>1, <1>2, <1>3, <2>1, <2>2 DEF IInv, Stale, Moves
  <1>4. CASE expected.op[1] # op[1]
    <2>1. touched' => touched
      BY <1>4, TouchBoolean DEF IInv
    <2>2. Target(expected.op)' = Target(expected.op)
      BY <1>1, <1>2, <1>4
    <2> QED
      BY <1>1, <1>2, <1>4, <2>1, <2>2 DEF IInv, Stale, Moves
  <1> QED
    BY <1>3, <1>4

LEMMA AcknowledgePreserves ==
    ASSUME IInv, NEW op \in Operations, NEW s \in {"requested", "scheduled"}, Ack(op, s)
    PROVE  IInv'
  <1>1. Shape /\ RolloutShape /\ record_ack(op, s)
    BY DEF IInv, Shape, Ack
  <1>2. /\ rollouts[op[1]].status = "active" /\ Target(op) \in Open
        /\ rollouts' = rollouts \/ Moves(op, s, "active")
        /\ builds' = builds /\ reports' = reports /\ expected' = expected
    BY <1>1, AckMoves DEF record_ack, Ack
  <1>3. CASE rollouts' = rollouts
    BY <1>1, <1>2, <1>3, StutterStep DEF Ack, Shape, RolloutShape
  <1>4. CASE rollouts' # rollouts
    <2>1. Moves(op, s, "active") /\ Touch(op[1])
      BY <1>2, <1>4 DEF Ack
    <2>2. /\ Operations' = Operations
          /\ \A o \in Operations : Target(o)' = IF o = op THEN s ELSE Target(o)
      BY <1>1, <2>1, MovesOperations
    <2>3. touched' \in BOOLEAN
      BY <1>1, <2>1, TouchBoolean
    <2>4. Shape'
      BY <1>1, <1>2, <2>1, <2>3, MovesShape DEF Shape, RolloutShape
    <2>5. s \in Open /\ s \notin Outcomes
      BY DEF Open, Outcomes
    <2>6. SoleOwner'
      BY <1>2, <2>2 DEF IInv, SoleOwner
    <2>7. ReportsMatch'
      <3> SUFFICES ASSUME NEW o \in Operations
                   PROVE  LET rows == {row \in reports : row.op = o} IN
                             IF Target(o)' \in Outcomes
                             THEN \E row \in rows : rows = {row} /\ row.status = Target(o)'
                             ELSE rows = {}
        BY <1>2, <2>2 DEF ReportsMatch
      <3>1. CASE o = op
        <4>1. Target(o) \notin Outcomes /\ Target(o)' \notin Outcomes
          BY <1>2, <2>2, <2>5, <3>1 DEF Open, Outcomes
        <4> QED
          BY <4>1 DEF IInv, ReportsMatch
      <3>2. CASE o # op
        BY <2>2, <3>2 DEF IInv, ReportsMatch
      <3> QED
        BY <3>1, <3>2
    <2>8. OverTogether'
      <3>1. "cancelled" \notin {rollouts[op[1]].targets[d] : d \in DOMAIN rollouts[op[1]].targets}
        BY <1>2, OperationParts DEF IInv, OverTogether
      <3>2. "cancelled" \notin {rollouts'[op[1]].targets[d] : d \in DOMAIN rollouts[op[1]].targets}
        BY <2>1, <2>5, <3>1, OperationParts DEF Moves, Open
      <3>3. op[2] \in DOMAIN rollouts[op[1]].targets /\ rollouts'[op[1]].targets[op[2]] = s
        BY <2>1, OperationParts DEF Moves
      <3> QED
        BY <2>1, <2>5, <3>2, <3>3, MovesOver
    <2>9. Stale'
      BY <1>2, <2>1, MovesStale
    <2> QED
      BY <2>4, <2>6, <2>7, <2>8, <2>9 DEF IInv
  <1> QED
    BY <1>3, <1>4

LEMMA ReportPreserves ==
    ASSUME IInv, NEW op \in Operations, NEW rep \in [key : Keys, status : Outcomes, version : Builds],
           Report(op, rep)
    PROVE  IInv'
  <1> DEFINE row == [op |-> op, key |-> rep.key, status |-> rep.status, version |-> rep.version]
             states == {rollouts[op[1]].targets[d] : d \in DOMAIN rollouts[op[1]].targets}
             states1 == {rollouts'[op[1]].targets[d] : d \in DOMAIN rollouts[op[1]].targets}
  <1>1. /\ Shape /\ RolloutShape /\ record_report(op, rep) /\ ReportTaken(op, rep) /\ Touch(op[1])
        /\ builds' = builds /\ expected' = expected /\ reports' = reports \union {row}
    BY DEF IInv, Shape, Report, record_report
  <1>2. /\ Target(op) \in Open /\ rollouts[op[1]].status \in {"active", "paused"}
        /\ rep.status \in Outcomes /\ rep.status \notin Open
    BY <1>1 DEF ReportTaken, Outcomes, Open
  <1>3. PICK st \in Statuses :
           /\ Moves(op, rep.status, st)
           /\ \/ /\ st = "completed"
                 /\ \A d \in DOMAIN rollouts[op[1]].targets : rollouts'[op[1]].targets[d] \in Terminal
              \/ /\ st = rollouts[op[1]].status
                 /\ \E d \in DOMAIN rollouts[op[1]].targets : rollouts'[op[1]].targets[d] \notin Terminal
    BY <1>1, ReportMoves
  <1>4. /\ Operations' = Operations
        /\ \A o \in Operations : Target(o)' = IF o = op THEN rep.status ELSE Target(o)
    BY <1>1, <1>3, MovesOperations
  <1>5. Shape'
    <2>1. touched' \in BOOLEAN
      BY <1>1, TouchBoolean
    <2>2. row \in Row /\ row.op = op
      BY <1>1, OperationParts, Fields DEF Row
    <2> QED
      BY <1>1, <1>3, <2>1, <2>2, MovesShape DEF Shape, RolloutShape
  <1>6. SoleOwner'
    BY <1>2, <1>4 DEF IInv, SoleOwner
  <1>7. ReportsMatch'
    <2> SUFFICES ASSUME NEW o \in Operations
                 PROVE  LET rows == {w \in reports' : w.op = o} IN
                           IF Target(o)' \in Outcomes
                           THEN \E w \in rows : rows = {w} /\ w.status = Target(o)'
                           ELSE rows = {}
      BY <1>4 DEF ReportsMatch
    <2>1. CASE o = op
      <3>1. {w \in reports : w.op = o} = {}
        BY <1>2, <2>1 DEF IInv, ReportsMatch, Open, Outcomes
      <3>2. {w \in reports' : w.op = o} = {row} /\ row.status = rep.status
        BY <1>1, <2>1, <3>1
      <3>3. Target(o)' = rep.status
        BY <1>4, <2>1
      <3> HIDE DEF row
      <3> QED
        BY <1>2, <3>2, <3>3
    <2>2. CASE o # op
      <3>1. {w \in reports' : w.op = o} = {w \in reports : w.op = o}
        BY <1>1, <2>2
      <3>2. Target(o)' = Target(o)
        BY <1>4, <2>2
      <3> QED
        BY <3>1, <3>2 DEF IInv, ReportsMatch
    <2> QED
      BY <2>1, <2>2
  <1>8. OverTogether'
    <2>1. "cancelled" \notin states
      BY <1>2, OperationParts DEF IInv, OverTogether
    <2>2. \A d \in DOMAIN rollouts[op[1]].targets :
             rollouts'[op[1]].targets[d] = IF d = op[2] THEN rep.status ELSE rollouts[op[1]].targets[d]
      BY <1>3, OperationParts DEF Moves
    <2>3. "cancelled" \notin states1
      BY <1>2, <2>1, <2>2 DEF Outcomes
    <2>4. states1 \subseteq States
      BY <1>1, <1>2, <2>2, OperationParts, Fields DEF Rollout, Targets, States, Terminal
    <2>5. CASE st = "completed"
      <3>1. states1 \subseteq Outcomes
        BY <1>2, <1>3, <2>3, <2>5 DEF Terminal
      <3> QED
        BY <1>3, <2>5, <3>1, MovesOver
    <2>6. CASE st # "completed"
      <3>1. st \in {"active", "paused"} /\ states1 \intersect Open # {}
        BY <1>2, <1>3, <2>4, <2>6 DEF States
      <3> QED
        BY <1>3, <2>3, <3>1, MovesOver
    <2> QED
      BY <2>5, <2>6
  <1>9. Stale'
    BY <1>1, <1>2, <1>3, MovesStale
  <1> QED
    BY <1>5, <1>6, <1>7, <1>8, <1>9 DEF IInv

LEMMA CancelPreserves ==
    ASSUME IInv, NEW op \in Operations, Cancel(op)
    PROVE  IInv'
  <1>1. /\ Shape /\ RolloutShape /\ Touch(op[1]) /\ builds' = builds /\ reports' = reports /\ expected' = expected
        /\ Moves(op, "cancelled", "cancelled") /\ Cancellable(op)
    BY CancelMoves DEF IInv, Shape, Cancel, cancel_paused_singleton_rollout
  <1>2. /\ Operations' = Operations
        /\ \A o \in Operations : Target(o)' = IF o = op THEN "cancelled" ELSE Target(o)
    BY <1>1, MovesOperations
  <1>3. Target(op) \in Open /\ DOMAIN rollouts[op[1]].targets = {op[2]}
    BY <1>1 DEF Cancellable
  <1>4. "cancelled" \notin Open /\ "cancelled" \notin Outcomes
    BY DEF Open, Outcomes
  <1>5. Shape'
    BY <1>1, TouchBoolean, MovesShape DEF Shape, RolloutShape
  <1>6. SoleOwner'
    BY <1>2, <1>4 DEF IInv, SoleOwner
  <1>7. ReportsMatch'
    <2> SUFFICES ASSUME NEW o \in Operations
                 PROVE  LET rows == {w \in reports : w.op = o} IN
                           IF Target(o)' \in Outcomes
                           THEN \E w \in rows : rows = {w} /\ w.status = Target(o)'
                           ELSE rows = {}
      BY <1>1, <1>2 DEF ReportsMatch
    <2>1. CASE o = op
      <3>1. Target(o) \notin Outcomes /\ Target(o)' \notin Outcomes
        BY <1>2, <1>3, <1>4, <2>1 DEF Open, Outcomes
      <3> QED
        BY <3>1 DEF IInv, ReportsMatch
    <2>2. CASE o # op
      BY <1>2, <2>2 DEF IInv, ReportsMatch
    <2> QED
      BY <2>1, <2>2
  <1>8. OverTogether'
    <2>1. {rollouts'[op[1]].targets[d] : d \in DOMAIN rollouts[op[1]].targets} = {"cancelled"}
      BY <1>1, <1>3, OperationParts DEF Moves
    <2> QED
      BY <1>1, <2>1, MovesOver
  <1>9. Stale'
    BY <1>1, <1>4, MovesStale
  <1> QED
    BY <1>5, <1>6, <1>7, <1>8, <1>9 DEF IInv

(* Pausing and activating: both are between the two states of a rollout     *)
(* that is not over, and a pause is counted.                               *)
LEMMA TurnsPreserves ==
    ASSUME IInv, NEW r \in DOMAIN rollouts, NEW st \in {"active", "paused"}, NEW n \in Nat,
           Turns(r, st, n), rollouts[r].status \in {"active", "paused"}, Touch(r),
           n >= rollouts[r].pauses, st = "active" \/ n > rollouts[r].pauses,
           builds' = builds, reports' = reports, expected' = expected
    PROVE  IInv'
  <1>1. Shape /\ RolloutShape /\ touched' \in BOOLEAN
    BY TouchBoolean DEF IInv, Shape
  <1>2. Operations' = Operations /\ \A o \in Operations : Target(o)' = Target(o)
    BY <1>1, TurnsOperations
  <1>3. Shape'
    <2>1. /\ rollouts' \in Seq(Rollout)
          /\ \A q \in DOMAIN rollouts' : rollouts'[q].build \in builds'
          /\ \A q \in DOMAIN rollouts' : DOMAIN rollouts'[q].targets # {}
      BY <1>1 DEF Shape, RolloutShape, Turns
    <2> QED
      BY <1>1, <1>2, <2>1 DEF Shape, RolloutShape
  <1>4. SoleOwner' /\ ReportsMatch'
    BY <1>2 DEF IInv, SoleOwner, ReportsMatch
  <1>5. OverTogether'
    <2> SUFFICES ASSUME NEW q \in DOMAIN rollouts'
                 PROVE  LET states == {rollouts'[q].targets[d] : d \in DOMAIN rollouts'[q].targets} IN
                           CASE rollouts'[q].status = "completed" -> states \subseteq Outcomes
                             [] rollouts'[q].status = "cancelled" -> states = {"cancelled"}
                             [] OTHER -> states \intersect Open # {} /\ "cancelled" \notin states
      BY DEF OverTogether
    <2>1. q \in DOMAIN rollouts /\ rollouts'[q].targets = rollouts[q].targets
          /\ rollouts'[q].status = IF q = r THEN st ELSE rollouts[q].status
      BY DEF Turns
    <2>2. CASE q = r
      BY <2>1, <2>2 DEF IInv, OverTogether
    <2>3. CASE q # r
      BY <2>1, <2>3 DEF IInv, OverTogether
    <2> QED
      BY <2>2, <2>3
  <1>6. Stale'
    <2> SUFFICES ASSUME expected # None
                 PROVE  Stale'
      BY DEF Stale
    <2>1. expected.op \in Operations /\ expected.op[1] \in DOMAIN rollouts
      BY OperationParts DEF IInv, Stale
    <2>2. rollouts[expected.op[1]].pauses \in Nat /\ expected.paused_at \in Nat
      BY <1>1, <2>1, Fields, RolloutAssumption DEF Rollout, IInv, Stale
    <2>3. CASE expected.op[1] = r
      BY <1>2, <2>1, <2>2, <2>3 DEF IInv, Stale, Turns
    <2>4. CASE expected.op[1] # r
      <3>1. touched' => touched
        BY <1>1, <2>4, TouchBoolean
      <3> QED
        BY <1>2, <2>1, <2>2, <2>4, <3>1 DEF IInv, Stale, Turns
    <2> QED
      BY <2>3, <2>4
  <1> QED
    BY <1>3, <1>4, <1>5, <1>6 DEF IInv

LEMMA PausePreserves ==
    ASSUME IInv, NEW r \in DOMAIN rollouts, Pause(r)
    PROVE  IInv'
  <1>1. Shape /\ RolloutShape /\ pause_rollout(r) /\ Touch(r) /\ expected' = expected /\ builds' = builds /\ reports' = reports
    BY DEF IInv, Shape, Pause, pause_rollout
  <1>2. rollouts[r].status = "active" /\ Turns(r, "paused", rollouts[r].pauses + 1)
    BY <1>1, PauseTurns
  <1>3. rollouts[r].pauses \in Nat
    BY <1>1, Fields, RolloutAssumption DEF Rollout
  <1> QED
    BY <1>1, <1>2, <1>3, TurnsPreserves

LEMMA ActivatePreserves ==
    ASSUME IInv, NEW r \in DOMAIN rollouts, Activate(r)
    PROVE  IInv'
  <1>1. Shape /\ RolloutShape /\ activate_rollout(r) /\ Touch(r) /\ expected' = expected /\ builds' = builds /\ reports' = reports
    BY DEF IInv, Shape, Activate, activate_rollout
  <1>2. rollouts[r].status = "paused" /\ Turns(r, "active", rollouts[r].pauses)
    BY <1>1, ActivateTurns
  <1>3. rollouts[r].pauses \in Nat
    BY <1>1, Fields, RolloutAssumption DEF Rollout
  <1> QED
    BY <1>1, <1>2, <1>3, TurnsPreserves

(* A new rollout takes devices that no open target has.                     *)
LEMMA CreatePreserves ==
    ASSUME IInv, NEW b \in builds, NEW mode \in Modes, NEW ds \in SUBSET Devices, ds # {},
           CreateActive(b, mode, ds), expected' = expected, touched' = touched
    PROVE  IInv'
  <1> DEFINE n == Len(rollouts) + 1
  <1>1. /\ Shape /\ RolloutShape /\ Adds(b, mode, ds) /\ builds' = builds /\ reports' = reports
        /\ \A d \in ds : ~Owned(d)
    BY AddsFromAppend DEF IInv, Shape, CreateActive
  <1>2. n \notin DOMAIN rollouts /\ n \in DOMAIN rollouts'
    BY <1>1, Fields DEF Adds
  <1>3. /\ DOMAIN rollouts' = DOMAIN rollouts \union {n}
        /\ \A r \in DOMAIN rollouts : rollouts'[r] = rollouts[r]
        /\ rollouts'[n].build = b /\ rollouts'[n].status = "active"
        /\ rollouts'[n].targets = [d \in ds |-> "assigned"]
    BY <1>1 DEF Adds
  <1> HIDE DEF n
  <1>4. DOMAIN rollouts'[n].targets = ds /\ \A d \in ds : rollouts'[n].targets[d] = "assigned"
    BY <1>3
  <1>5. \A o \in Operations : o \in Operations' /\ Target(o)' = Target(o)
    BY <1>3, OperationParts DEF Operations, Target
  <1>6. \A o \in Operations' : o \in Operations \/ (o[1] = n /\ o[2] \in ds /\ Target(o)' = "assigned"
                                                    /\ o = <<n, o[2]>>)
    BY <1>3, <1>4 DEF Operations, Target
  <1>7. Shape'
    <2>1. /\ rollouts' \in Seq(Rollout)
          /\ \A q \in DOMAIN rollouts' : rollouts'[q].build \in builds'
      BY <1>1, <1>3 DEF Shape, RolloutShape, Adds
    <2>2. \A q \in DOMAIN rollouts' : DOMAIN rollouts'[q].targets # {}
      BY <1>1, <1>3, <1>4 DEF Shape, RolloutShape
    <2> QED
      BY <1>1, <1>5, <2>1, <2>2 DEF Shape, RolloutShape
  <1>8. SoleOwner'
    <2> SUFFICES ASSUME NEW o1 \in Operations', NEW o2 \in Operations', o1[2] = o2[2],
                        Target(o1)' \in Open, Target(o2)' \in Open
                 PROVE  o1 = o2
      BY DEF SoleOwner
    <2>1. CASE o1 \in Operations /\ o2 \in Operations
      BY <1>5, <2>1 DEF IInv, SoleOwner
    <2>2. CASE o1 \notin Operations /\ o2 \notin Operations
      BY <1>6, <2>2
    <2>3. CASE o1 \in Operations /\ o2 \notin Operations
      BY <1>1, <1>5, <1>6, <2>3 DEF Owned
    <2>4. CASE o1 \notin Operations /\ o2 \in Operations
      BY <1>1, <1>5, <1>6, <2>4 DEF Owned
    <2> QED
      BY <2>1, <2>2, <2>3, <2>4
  <1>9. ReportsMatch'
    <2> SUFFICES ASSUME NEW o \in Operations'
                 PROVE  LET rows == {w \in reports : w.op = o} IN
                           IF Target(o)' \in Outcomes
                           THEN \E w \in rows : rows = {w} /\ w.status = Target(o)'
                           ELSE rows = {}
      BY <1>1 DEF ReportsMatch
    <2>1. CASE o \in Operations
      BY <1>5, <2>1 DEF IInv, ReportsMatch
    <2>2. CASE o \notin Operations
      <3>1. {w \in reports : w.op = o} = {}
        BY <1>1, <2>2 DEF Shape, RolloutShape
      <3>2. Target(o)' \notin Outcomes
        BY <1>6, <2>2 DEF Outcomes
      <3> QED
        BY <3>1, <3>2
    <2> QED
      BY <2>1, <2>2
  <1>10. OverTogether'
    <2> SUFFICES ASSUME NEW q \in DOMAIN rollouts'
                 PROVE  LET states == {rollouts'[q].targets[d] : d \in DOMAIN rollouts'[q].targets} IN
                           CASE rollouts'[q].status = "completed" -> states \subseteq Outcomes
                             [] rollouts'[q].status = "cancelled" -> states = {"cancelled"}
                             [] OTHER -> states \intersect Open # {} /\ "cancelled" \notin states
      BY DEF OverTogether
    <2>1. CASE q = n
      <3>1. {rollouts'[q].targets[d] : d \in DOMAIN rollouts'[q].targets} = {"assigned"}
        BY <1>4, <2>1
      <3> QED
        BY <1>3, <2>1, <3>1 DEF Open
    <2>2. CASE q # n
      BY <1>3, <2>2 DEF IInv, OverTogether
    <2> QED
      BY <2>1, <2>2
  <1>11. Stale'
    <2> SUFFICES ASSUME expected # None
                 PROVE  Stale'
      BY DEF Stale
    <2>1. expected.op \in Operations /\ expected.op[1] \in DOMAIN rollouts
      BY OperationParts DEF IInv, Stale
    <2> QED
      BY <1>3, <1>5, <2>1 DEF IInv, Stale
  <1> QED
    BY <1>7, <1>8, <1>9, <1>10, <1>11 DEF IInv

LEMMA ReadPreserves ==
    ASSUME IInv, NEW op \in Operations, ReadContext(op)
    PROVE  IInv'
  <1>1. Operations' = Operations /\ \A o \in Operations : Target(o)' = Target(o)
    BY DEF ReadContext, serverVars, Operations, Target
  <1>2. /\ rollouts' = rollouts /\ reports' = reports /\ builds' = builds
        /\ touched' = FALSE /\ expected' = rollout_cancellation_context(op) /\ Cancellable(op)
    BY DEF ReadContext, serverVars
  <1>3. Shape' /\ SoleOwner' /\ ReportsMatch' /\ OverTogether'
    <2>1. Shape'
      BY <1>1, <1>2 DEF IInv, Shape, RolloutShape
    <2>2. SoleOwner' /\ ReportsMatch'
      BY <1>1, <1>2 DEF IInv, SoleOwner, ReportsMatch
    <2>3. OverTogether'
      BY <1>2 DEF IInv, OverTogether
    <2> QED
      BY <2>1, <2>2, <2>3
  <1>4. op[1] \in DOMAIN rollouts /\ rollouts[op[1]].pauses \in Nat
    BY OperationParts, Fields, RolloutAssumption DEF IInv, Shape, Rollout
  <1>5. Stale'
    BY <1>1, <1>2, <1>4 DEF Stale, rollout_cancellation_context, Cancellable
  <1> QED
    BY <1>3, <1>5 DEF IInv

-----------------------------------------------------------------------------

LEMMA InvInit ==
    ASSUME ServiceInit
    PROVE  IInv
  <1>1. builds = {} /\ rollouts = << >> /\ reports = {} /\ expected = None /\ touched = FALSE
    BY DEF ServiceInit, ServerInit
  <1>2. DOMAIN rollouts = {} /\ Operations = {}
    BY <1>1 DEF Operations
  <1>3. Shape
    <2>1. rollouts \in Seq(Rollout)
      BY <1>1
    <2> QED
      BY <1>1, <1>2, <2>1 DEF Shape, RolloutShape
  <1>4. SoleOwner /\ ReportsMatch /\ OverTogether /\ Stale
    BY <1>1, <1>2 DEF SoleOwner, ReportsMatch, OverTogether, Stale
  <1> QED
    BY <1>3, <1>4 DEF IInv

LEMMA InvNext ==
    ASSUME IInv, [ServiceNext]_serviceVars
    PROVE  IInv'
  <1>1. ASSUME NEW b \in Builds, Register(b) PROVE IInv'
    BY <1>1, StutterStep DEF Register, register_build, IInv, Shape, RolloutShape
  <1>2. ASSUME NEW b \in Builds, NEW mode \in {"canary", "bulk"}, NEW ds \in (SUBSET Devices) \ {{}},
               Create(b, mode, ds)
        PROVE  IInv'
    <2>1. b \in builds /\ CreateActive(b, mode, ds)
      BY <1>2 DEF Create, create_rollout
    <2>2. expected' = expected /\ touched' = touched
      BY <1>2 DEF Create
    <2>3. mode \in Modes /\ ds \in SUBSET Devices /\ ds # {}
      BY DEF Modes
    <2> QED
      BY <2>1, <2>2, <2>3, CreatePreserves
  <1>3. ASSUME NEW r \in DOMAIN rollouts, NEW b \in Builds, NEW ds \in (SUBSET Devices) \ {{}},
               Rollback(r, b, ds)
        PROVE  IInv'
    <2>1. b \in builds /\ CreateActive(b, "rollback", ds)
      BY <1>3 DEF Rollback, create_rollback_rollout, OlderBuild
    <2>2. expected' = expected /\ touched' = touched
      BY <1>3 DEF Rollback
    <2>3. "rollback" \in Modes /\ ds \in SUBSET Devices /\ ds # {}
      BY DEF Modes
    <2> QED
      BY <2>1, <2>2, <2>3, CreatePreserves
  <1>4. CASE UNCHANGED serviceVars
    BY <1>4, StutterStep DEF serviceVars, IInv, Shape, RolloutShape
  <1> QED
    BY <1>1, <1>2, <1>3, <1>4, PausePreserves, ActivatePreserves, ReadPreserves, CancelPreserves,
       AcknowledgePreserves, ReportPreserves DEF ServiceNext

LEMMA InvAlways == ServiceSpec => []IInv
  <1>1. ServiceInit => IInv
    BY InvInit
  <1>2. IInv /\ [ServiceNext]_serviceVars => IInv'
    BY InvNext
  <1> QED
    BY <1>1, <1>2, PTL DEF ServiceSpec

(* Types, and: a device is the open target of at most one rollout, whatever *)
(* was paused, resumed, cancelled or rolled back                           *)
(* (_lock_assignable_devices, service.py:506).                             *)
THEOREM OwnersUnique == ServiceSpec => []OneOwner
  <1>1. IInv => OneOwner
    <2> SUFFICES ASSUME IInv PROVE OneOwner
      OBVIOUS
    <2>1. \A r \in DOMAIN rollouts :
             /\ rollouts[r] \in Rollout
             /\ DOMAIN rollouts[r].targets \subseteq Devices
             /\ \A d \in DOMAIN rollouts[r].targets : rollouts[r].targets[d] \in Open \union Terminal
      BY Fields DEF IInv, Shape, Rollout, Targets, States
    <2>2. ServerTypeOK
      BY <2>1 DEF IInv, Shape, RolloutShape, ServerTypeOK, Rollout, Modes, Statuses, Row
    <2>3. ServiceTypeOK
      BY <2>2 DEF ServiceTypeOK, IInv, Shape, RolloutShape, Stale
    <2> QED
      BY <2>3 DEF OneOwner, IInv, SoleOwner
  <1> QED
    BY <1>1, InvAlways, PTL

(* An operation with an outcome has exactly one report row and it says the  *)
(* same; an open or cancelled one has none (record_report, service.py:1094). *)
THEOREM ReportsAgree == ServiceSpec => []ReportsMatch
  <1>1. IInv => ReportsMatch
    BY DEF IInv
  <1> QED
    BY <1>1, InvAlways, PTL

(* A rollout is completed or cancelled exactly when all its targets are     *)
(* over (record_report closes it with the last outcome, service.py:1171).   *)
THEOREM EndTogether == ServiceSpec => []OverTogether
  <1>1. IInv => OverTogether
    BY DEF IInv
  <1> QED
    BY <1>1, InvAlways, PTL

(* A cancellation takes effect only if nothing happened to the rollout since *)
(* its context was read (cancel_paused_singleton_rollout, service.py:119).   *)
THEOREM CancelsAsRead == ServiceSpec => CancelsWhatWasRead
  <1> DEFINE Safe == \A op \in Operations :
                        Target(op) # "cancelled" /\ rollouts'[op[1]].targets[op[2]] = "cancelled"
                            => expected # None /\ expected.op = op /\ ~touched
  <1>1. IInv /\ [ServiceNext]_serviceVars => [Safe]_serviceVars
    <2> SUFFICES ASSUME IInv, ServiceNext, NEW op \in Operations, Target(op) # "cancelled",
                        rollouts'[op[1]].targets[op[2]] = "cancelled"
                 PROVE  expected # None /\ expected.op = op /\ ~touched
      OBVIOUS
    <2>0. /\ Shape /\ RolloutShape /\ op[1] \in DOMAIN rollouts /\ op[2] \in DOMAIN rollouts[op[1]].targets
          /\ Target(op) = rollouts[op[1]].targets[op[2]]
      BY OperationParts DEF IInv, Shape, Target
    <2>1. ASSUME rollouts' = rollouts PROVE FALSE
      BY <2>0, <2>1
    <2>2. ASSUME NEW b \in builds, NEW mode \in Modes, NEW ds \in SUBSET Devices, CreateActive(b, mode, ds)
          PROVE  FALSE
      BY <2>0, <2>2, AddsFromAppend DEF Adds
    <2>3. ASSUME NEW r \in DOMAIN rollouts, Pause(r) \/ Activate(r)
          PROVE  FALSE
      <3>1. \E st, n : Turns(r, st, n)
        BY <2>0, <2>3, PauseTurns, ActivateTurns DEF Pause, Activate
      <3> QED
        BY <2>0, <3>1 DEF Turns
    <2>4. ASSUME NEW o \in Operations, NEW s \in {"requested", "scheduled"}, Ack(o, s)
          PROVE  FALSE
      <3>1. Moves(o, s, "active")
        BY <2>0, <2>1, <2>4, AckMoves DEF Ack
      <3> QED
        BY <2>0, <3>1 DEF Moves
    <2>5. ASSUME NEW o \in Operations, NEW rep \in [key : Keys, status : Outcomes, version : Builds],
                 Report(o, rep)
          PROVE  FALSE
      <3>1. \E st : Moves(o, rep.status, st)
        BY <2>0, <2>5, ReportMoves DEF Report
      <3>2. rep.status # "cancelled"
        BY DEF Outcomes
      <3> QED
        BY <2>0, <3>1, <3>2 DEF Moves
    <2>6. ASSUME NEW o \in Operations, Cancel(o)
          PROVE  expected # None /\ expected.op = op /\ ~touched
      <3>1. /\ Moves(o, "cancelled", "cancelled") /\ Cancellable(o)
            /\ expected # None /\ expected = rollout_cancellation_context(o)
        BY <2>0, <2>6, CancelMoves DEF Cancel
      <3>2. o[1] = op[1] /\ o[2] = op[2]
        BY <2>0, <3>1 DEF Moves
      <3>3. o = op
        BY <3>2, OperationParts
      <3>4. /\ expected.op = op /\ expected.paused_at = rollouts[op[1]].pauses
            /\ rollouts[op[1]].status = "paused" /\ Target(op) \in Open
        BY <3>1, <3>3 DEF Cancellable, rollout_cancellation_context
      <3>5. rollouts[op[1]].pauses \in Nat
        BY <2>0, Fields, RolloutAssumption DEF Rollout
      <3>6. ~touched
        BY <3>1, <3>4, <3>5 DEF IInv, Stale
      <3> QED
        BY <3>1, <3>4, <3>6
    <2>7. ASSUME NEW b \in Builds, Register(b) PROVE FALSE
      BY <2>1, <2>7 DEF Register, register_build
    <2>8. ASSUME NEW o \in Operations, ReadContext(o) PROVE FALSE
      BY <2>1, <2>8 DEF ReadContext, serverVars
    <2>9. ASSUME NEW b \in Builds, NEW mode \in {"canary", "bulk"}, NEW ds \in (SUBSET Devices) \ {{}},
                 Create(b, mode, ds)
          PROVE  FALSE
      BY <2>2, <2>9 DEF Create, create_rollout, Modes
    <2>10. ASSUME NEW r \in DOMAIN rollouts, NEW b \in Builds, NEW ds \in (SUBSET Devices) \ {{}},
                  Rollback(r, b, ds)
           PROVE  FALSE
      BY <2>2, <2>10 DEF Rollback, create_rollback_rollout, OlderBuild, Modes
    <2> QED
      BY <2>3, <2>4, <2>5, <2>6, <2>7, <2>8, <2>9, <2>10 DEF ServiceNext
  <1> QED
    BY <1>1, InvAlways, PTL DEF ServiceSpec, CancelsWhatWasRead

-----------------------------------------------------------------------------
(* The update of an ALT Linux host: its inductive invariant.                *)

Ids    == Nat \X Devices
Entry  == [op : Ids, version : Versions, success : BOOLEAN]
Undone == {"failed", "rolled_back"}

WorkerPcs == {"idle", "update", "fail", "drop", "refuse", "keep_previous", "select", "record", "unlink",
              "rollback", "mark", "unlink_request", "forget_previous", "restore", "start"}

AgentShape == [pc : Running \union {"off", "start", "mark"}, op : Ids \union {None},
               version : Versions, crashes : 0..RetryLimit - 1]

HostOp(op) == op \in Operations /\ op[2] = Host

(* What the service keeps.                                                  *)
ServerSafe ==
    /\ RolloutShape /\ SoleOwner
    /\ \A row \in reports : row.op \in Operations /\ row.status \in Outcomes

(* What the agent keeps of its calls.                                       *)
JournalSafe ==
    /\ acked \subseteq handoffs /\ handoffs \subseteq Operations
    /\ \A rec \in journal : rec.op \in Operations /\ rec.status \in Outcomes

(* The history has one entry per operation, with the version it installs.   *)
LogSafe ==
    /\ log \in Seq(Entry)
    /\ \A i \in DOMAIN log : log[i].op \in Operations /\ log[i].version = Version(log[i].op)
    /\ \A i, j \in DOMAIN log : log[i].op = log[j].op => i = j

FileSafe ==
    /\ current \in Versions /\ previous \in Versions \union {None} /\ releases \subseteq Versions
    /\ pending # None => HostOp(pending)
    /\ request # None => /\ request.crashed \in Versions /\ request.rollback \in Versions
                         /\ request.crashed # request.rollback
    /\ marker # None /\ marker.reason = "startup_crash_rollback" => marker.crashed # marker.rollback
    /\ faults \in 0..MaxFaults

(* As long as the operation that selected the current release is open, or   *)
(* its request is still there, the previous release is a complete one and   *)
(* another.  A request of another operation is there only when that         *)
(* operation is over.                                                       *)
SelectionSafe ==
    /\ current \in releases /\ previous \in releases \union {None}
    /\ selector # None => HostOp(selector) /\ Version(selector) = current
    /\ selector # None /\ (Target(selector) \in Open \/ pending = selector) =>
           previous \in releases \ {current}
    /\ pending # None /\ selector # None /\ selector # pending => Target(selector) \notin Open

(* What the position of the worker says of the files.                       *)
WorkerSafe ==
    /\ worker \in WorkerPcs
    /\ worker \in {"update", "fail", "drop", "refuse", "keep_previous", "select", "record", "unlink"} =>
           pending # None
    /\ worker \in {"rollback", "mark", "unlink_request"} => request # None
    /\ worker \in {"keep_previous", "select"} => Candidate \in releases /\ current # Candidate
    /\ worker = "select" => previous = current
    /\ worker \in {"record", "unlink"} => current = Candidate /\ previous \notin {None, Candidate}
    /\ worker = "refuse" => current = Candidate /\ previous \in {None, Candidate}
    /\ worker \in {"mark", "forget_previous"} => selector = None
    /\ worker = "unlink_request" /\ Authorized => selector = None
    /\ worker = "unlink" => \A i \in DOMAIN log : log[i].op = pending => log[i].success

(* A recorded failure is of an operation that is not selected, unless its   *)
(* request is still there and the next run records the success, or it       *)
(* failed in a replay.                                                      *)
FailureSafe ==
    /\ worker \in {"fail", "drop"} /\ current = Candidate => pending \in blamed
    /\ \A i \in DOMAIN log :
           ~log[i].success /\ selector = log[i].op => pending = selector \/ selector \in blamed
    /\ UndoneIsUndone

HostSafe == FileSafe /\ LogSafe /\ SelectionSafe /\ WorkerSafe /\ FailureSafe

(* The agent runs the selected release, and not beside the worker.  What it *)
(* has in hand would change the release, and leaves no other one open.      *)
AgentSafe ==
    /\ agent \in AgentShape
    /\ worker # "idle" => agent.pc = "off"
    /\ agent.pc \in Running \union {"mark"} => agent.version = current
    /\ agent.op # None <=> agent.pc \in {"download", "publish", "handoff", "acknowledge"}
    /\ agent.op # None =>
           /\ HostOp(agent.op) /\ Version(agent.op) # current /\ Target(agent.op) \notin Undone
           /\ selector # None => Target(selector) \notin Open
    /\ agent.pc \in {"report", "send", "poll", "download", "publish", "idle", "mark"} => pending = None
    /\ agent.pc = "send" => StartupOutcome # None

AltSafe == ServerSafe /\ JournalSafe /\ HostSafe /\ AgentSafe

(* What the files lose.                                                     *)
KeptSafe == hidden \subseteq {"log", "marker"} /\ blamed \subseteq Ids /\ lost \subseteq Ids

-----------------------------------------------------------------------------
(* The service, as far as the host depends on it: an open operation o may   *)
(* move to s, and new operations start as assigned.                         *)

Serves(o, s) ==
    /\ RolloutShape' /\ SoleOwner'
    /\ Operations \subseteq Operations'
    /\ \A op \in Operations :
           /\ rollouts'[op[1]].build = rollouts[op[1]].build
           /\ \/ rollouts'[op[1]].targets[op[2]] = Target(op)
              \/ /\ op = o /\ Target(op) \in Open
                 /\ rollouts'[op[1]].targets[op[2]] = s
    /\ \A op \in Operations' : op \notin Operations => rollouts'[op[1]].targets[op[2]] = "assigned"

LEMMA MovesServes ==
    ASSUME RolloutShape, SoleOwner, NEW op \in Operations, NEW s, NEW st, Target(op) \in Open,
           Moves(op, s, st), builds' = builds
    PROVE  Serves(op, s)
  <1>1. /\ Operations' = Operations
        /\ \A o \in Operations : Target(o)' = IF o = op THEN s ELSE Target(o)
    BY MovesOperations
  <1>2. RolloutShape'
    BY DEF RolloutShape, Moves
  <1>3. SoleOwner'
    BY <1>1 DEF SoleOwner
  <1>4. \A o \in Operations : rollouts'[o[1]].build = rollouts[o[1]].build
    BY OperationParts DEF Moves
  <1>5. \A o \in Operations : rollouts'[o[1]].targets[o[2]] = IF o = op THEN s ELSE Target(o)
    BY <1>1 DEF Target
  <1> QED BY <1>1, <1>2, <1>3, <1>4, <1>5 DEF Serves

LEMMA TurnsServes ==
    ASSUME RolloutShape, SoleOwner, NEW r \in DOMAIN rollouts, NEW st, NEW n, Turns(r, st, n),
           builds' = builds
    PROVE  \A o, s : Serves(o, s)
  <1>1. Operations' = Operations /\ \A o \in Operations : Target(o)' = Target(o)
    BY TurnsOperations
  <1>2. RolloutShape'
    BY DEF RolloutShape, Turns
  <1>3. SoleOwner'
    BY <1>1 DEF SoleOwner
  <1>4. \A o \in Operations : rollouts'[o[1]].build = rollouts[o[1]].build
    BY OperationParts DEF Turns
  <1>5. \A o \in Operations : rollouts'[o[1]].targets[o[2]] = Target(o)
    BY <1>1 DEF Target
  <1> QED BY <1>1, <1>2, <1>3, <1>4, <1>5 DEF Serves

LEMMA StaysServes ==
    ASSUME RolloutShape, SoleOwner, UNCHANGED <<builds, rollouts>>
    PROVE  \A o, s : Serves(o, s)
  <1>1. Operations' = Operations /\ \A o \in Operations : Target(o)' = Target(o)
    BY DEF Operations, Target
  <1>2. RolloutShape' /\ SoleOwner'
    BY <1>1 DEF RolloutShape, SoleOwner
  <1> QED BY <1>1, <1>2 DEF Serves, Target

LEMMA AddsServes ==
    ASSUME RolloutShape, SoleOwner, NEW b \in builds, NEW mode \in Modes, NEW ds \in SUBSET Devices,
           ds # {}, CreateActive(b, mode, ds)
    PROVE  \A o, s : Serves(o, s)
  <1> DEFINE n == Len(rollouts) + 1
  <1>1. Adds(b, mode, ds) /\ builds' = builds /\ \A d \in ds : ~Owned(d)
    BY AddsFromAppend DEF CreateActive
  <1>2. n \notin DOMAIN rollouts /\ n \in DOMAIN rollouts'
    BY <1>1, Fields DEF Adds
  <1>3. /\ DOMAIN rollouts' = DOMAIN rollouts \union {n}
        /\ \A r \in DOMAIN rollouts : rollouts'[r] = rollouts[r]
        /\ rollouts'[n].build = b
        /\ rollouts'[n].targets = [d \in ds |-> "assigned"]
    BY <1>1 DEF Adds
  <1> HIDE DEF n
  <1>4. DOMAIN rollouts'[n].targets = ds /\ \A d \in ds : rollouts'[n].targets[d] = "assigned"
    BY <1>3
  <1>5. \A o \in Operations : o \in Operations' /\ Target(o)' = Target(o)
    BY <1>3, OperationParts DEF Operations, Target
  <1>6. \A o \in Operations' : o \in Operations \/ (o[1] = n /\ o[2] \in ds /\ Target(o)' = "assigned"
                                                    /\ o = <<n, o[2]>>)
    BY <1>3, <1>4 DEF Operations, Target
  <1>7. RolloutShape'
    BY <1>1, <1>3, <1>4 DEF RolloutShape, Adds
  <1>8. SoleOwner'
    <2> SUFFICES ASSUME NEW o1 \in Operations', NEW o2 \in Operations', o1[2] = o2[2],
                        Target(o1)' \in Open, Target(o2)' \in Open
                 PROVE  o1 = o2
      BY DEF SoleOwner
    <2>1. CASE o1 \in Operations /\ o2 \in Operations
      BY <1>5, <2>1 DEF SoleOwner
    <2>2. CASE o1 \notin Operations /\ o2 \notin Operations
      BY <1>6, <2>2
    <2>3. CASE o1 \in Operations /\ o2 \notin Operations
      BY <1>1, <1>5, <1>6, <2>3 DEF Owned
    <2>4. CASE o1 \notin Operations /\ o2 \in Operations
      BY <1>1, <1>5, <1>6, <2>4 DEF Owned
    <2> QED BY <2>1, <2>2, <2>3, <2>4
  <1>9. \A o \in Operations : /\ rollouts'[o[1]].build = rollouts[o[1]].build
                              /\ rollouts'[o[1]].targets[o[2]] = Target(o)
    BY <1>3, OperationParts DEF Target
  <1>10. \A o \in Operations' : o \notin Operations => rollouts'[o[1]].targets[o[2]] = "assigned"
    BY <1>6 DEF Target
  <1> QED BY <1>5, <1>7, <1>8, <1>9, <1>10 DEF Serves

LEMMA AckServes ==
    ASSUME RolloutShape, SoleOwner, NEW op \in Operations, NEW s \in {"requested", "scheduled"},
           record_ack(op, s)
    PROVE  Serves(op, s) /\ reports' = reports /\ Target(op) \in Open
  <1>1. Target(op) \in Open /\ (rollouts' = rollouts \/ Moves(op, s, "active"))
    BY AckMoves
  <1>2. builds' = builds /\ reports' = reports
    BY DEF record_ack
  <1> QED BY <1>1, <1>2, MovesServes, StaysServes

LEMMA ReportServes ==
    ASSUME RolloutShape, SoleOwner, NEW op \in Operations, NEW rep, rep.status \in Outcomes,
           record_report(op, rep)
    PROVE  /\ Serves(op, rep.status)
           /\ reports' = reports \union
                  {[op |-> op, key |-> rep.key, status |-> rep.status, version |-> rep.version]}
  <1>1. PICK st \in Statuses : Moves(op, rep.status, st)
    BY ReportMoves
  <1>2. Target(op) \in Open /\ builds' = builds
    BY DEF record_report, ReportTaken
  <1>3. Serves(op, rep.status)
    BY <1>1, <1>2, MovesServes
  <1> QED BY <1>3 DEF record_report

LEMMA AdminServes ==
    ASSUME RolloutShape, SoleOwner, Administer
    PROVE  reports' = reports /\ \E o : Serves(o, "cancelled")
  <1>0. {Host} \in SUBSET Devices /\ {Host} # {}
    BY AdapterAssumption
  <1>1. CASE \E b \in Builds : create_rollout(b, "canary", {Host})
    BY <1>0, <1>1, AddsServes DEF create_rollout, CreateActive, Modes
  <1>2. CASE \E r \in DOMAIN rollouts, b \in Builds : create_rollback_rollout(r, b, {Host})
    BY <1>0, <1>2, AddsServes DEF create_rollback_rollout, OlderBuild, CreateActive, Modes
  <1>3. CASE \E r \in Pausable \intersect DOMAIN rollouts : pause_rollout(r) \/ activate_rollout(r)
    BY <1>3, PauseTurns, ActivateTurns, TurnsServes DEF pause_rollout, activate_rollout
  <1>4. CASE \E op \in Operations : cancel_paused_singleton_rollout(op, rollout_cancellation_context(op))
    <2>1. PICK op \in Operations : cancel_paused_singleton_rollout(op, rollout_cancellation_context(op))
      BY <1>4
    <2>2. Moves(op, "cancelled", "cancelled") /\ Cancellable(op)
      BY <2>1, CancelMoves
    <2>3. Target(op) \in Open /\ builds' = builds /\ reports' = reports
      BY <2>1, <2>2 DEF Cancellable, cancel_paused_singleton_rollout
    <2>4. Serves(op, "cancelled")
      BY <2>2, <2>3, MovesServes
    <2> QED BY <2>3, <2>4
  <1> QED BY <1>1, <1>2, <1>3, <1>4 DEF Administer

-----------------------------------------------------------------------------
(* What a step of the service means to the host.                            *)

LEMMA ServedFacts ==
    ASSUME NEW o, NEW s, Serves(o, s), NEW op \in Operations
    PROVE  /\ op \in Operations'
           /\ rollouts'[op[1]].build = Version(op)
           /\ rollouts'[op[1]].targets[op[2]] \in Open => Target(op) \in Open
           /\ rollouts'[op[1]].targets[op[2]] \in Undone =>
                  Target(op) \in Undone \/ (op = o /\ s \in Undone)
  BY DEF Serves, Version

LEMMA OperationNotNone ==
    ASSUME RolloutShape, NEW op \in Operations
    PROVE  /\ op # None /\ op \in Ids /\ Version(op) \in Versions /\ Version(op) # None
           /\ Version(op) \in Nat
  <1>1. op[1] \in DOMAIN rollouts /\ op[2] \in Devices /\ op = <<op[1], op[2]>>
    BY OperationParts
  <1>2. op[1] \in Nat
    BY <1>1, Fields
  <1>3. op \in Nat \X Devices
    BY <1>1, <1>2
  <1>4. Version(op) \in Builds
    BY <1>1 DEF RolloutShape, Version
  <1> QED BY <1>3, <1>4, AltAssumption, RolloutAssumption DEF Ids, Versions

(* The files and the worker stand.                                          *)
LEMMA HostServed ==
    ASSUME RolloutShape, HostSafe, NEW o, NEW s, Serves(o, s),
           UNCHANGED <<worker, rootVars, updateFiles, faults>>,
           s \in Undone => pending # o /\ (selector = o => o \in blamed)
    PROVE  HostSafe'
  <1>1. /\ worker' = worker /\ current' = current /\ previous' = previous /\ releases' = releases
        /\ selector' = selector /\ pending' = pending /\ request' = request /\ marker' = marker
        /\ log' = log /\ faults' = faults /\ blamed' = blamed
    BY DEF rootVars, updateFiles
  <1>2. /\ pending # None => HostOp(pending) /\ HostOp(pending)' /\ Candidate' = Candidate
        /\ selector # None => /\ HostOp(selector) /\ HostOp(selector)' /\ Version(selector)' = Version(selector)
                              /\ Target(selector)' \in Open => Target(selector) \in Open
    BY <1>1, ServedFacts DEF HostSafe, FileSafe, SelectionSafe, HostOp, Candidate, Version, Target
  <1>3. FileSafe'
    BY <1>1, <1>2 DEF HostSafe, FileSafe
  <1>4. LogSafe'
    BY <1>1, ServedFacts DEF HostSafe, LogSafe, Version
  <1>5. SelectionSafe'
    BY <1>1, <1>2 DEF HostSafe, SelectionSafe
  <1>6. WorkerSafe'
    BY <1>1, <1>2 DEF HostSafe, WorkerSafe, Authorized
  <1>7. FailureSafe'
    <2>1. worker \in {"fail", "drop"} => pending # None /\ (current = Candidate => pending \in blamed)
      BY DEF HostSafe, WorkerSafe, FailureSafe
    <2>2. ASSUME NEW op \in Operations', rollouts'[op[1]].targets[op[2]] \in Undone
          PROVE  pending # op /\ (selector = op => op \in blamed)
      <3>1. op \in Operations
        BY <2>2 DEF Serves, Undone
      <3>2. Target(op) \in Undone \/ (op = o /\ s \in Undone)
        BY <2>2, <3>1, ServedFacts
      <3> QED BY <3>1, <3>2 DEF HostSafe, FailureSafe, UndoneIsUndone, Undone
    <2>3. UndoneIsUndone'
      BY <1>1, <2>2 DEF UndoneIsUndone, Target, Undone
    <2> QED BY <1>1, <1>2, <2>1, <2>3 DEF HostSafe, FailureSafe
  <1> QED BY <1>3, <1>4, <1>5, <1>6, <1>7 DEF HostSafe

LEMMA JournalServed ==
    ASSUME JournalSafe, NEW o, NEW s, Serves(o, s), UNCHANGED journals
    PROVE  JournalSafe'
  BY DEF JournalSafe, Serves, journals

LEMMA ServerServed ==
    ASSUME ServerSafe, NEW o, NEW s, Serves(o, s),
           \A row \in reports' : row \in reports \/ (row.op \in Operations /\ row.status \in Outcomes)
    PROVE  ServerSafe'
  BY DEF ServerSafe, Serves

-----------------------------------------------------------------------------
(* The history.                                                             *)

LEMMA RestOf ==
    ASSUME NEW S, NEW s \in Seq(S), NEW i \in 1..Len(s)
    PROVE  /\ SubSeq(s, i + 1, Len(s)) \in Seq(S)
           /\ Len(SubSeq(s, i + 1, Len(s))) = Len(s) - i
           /\ \A k \in 1..(Len(s) - i) : SubSeq(s, i + 1, Len(s))[k] = s[k + i]
  <1> DEFINE m == i + 1
             n == Len(s)
  <1>1. m \in Int /\ n \in Int /\ n \in Nat /\ i \in Int /\ i <= n /\ m = i + 1 /\ i >= 1
        /\ \A j \in m..n : s[j] \in S
    OBVIOUS
  <1> HIDE DEF m, n
  <1>2. /\ SubSeq(s, m, n) \in Seq(S)
        /\ Len(SubSeq(s, m, n)) = IF m <= n THEN n - m + 1 ELSE 0
        /\ \A j \in 1..(n - m + 1) : SubSeq(s, m, n)[j] = s[m + j - 1]
    BY <1>1, SubSeqProperties
  <1>3. Len(SubSeq(s, m, n)) = n - i
    BY <1>1, <1>2
  <1>4. ASSUME NEW k \in 1..(n - i) PROVE SubSeq(s, m, n)[k] = s[k + i]
    <2>1. k \in 1..(n - m + 1) /\ m + k - 1 = k + i
      BY <1>1
    <2> QED BY <1>2, <2>1
  <1> QED BY <1>2, <1>3, <1>4 DEF m, n

LEMMA WithoutIs ==
    ASSUME LogSafe, NEW op
    PROVE  /\ Without(op) \in Seq(Entry)
           /\ \A k \in DOMAIN Without(op) :
                  \E j \in DOMAIN log : Without(op)[k] = log[j] /\ log[j].op # op
           /\ \A k, m \in DOMAIN Without(op) : Without(op)[k].op = Without(op)[m].op => k = m
  <1>0. PICK h : h = History
    OBVIOUS
  <1>1. h \in Seq(Entry) /\ DOMAIN h = 1..Len(h) /\ Len(h) \in Nat
    BY <1>0 DEF LogSafe, History
  <1>a. /\ \A k \in DOMAIN h : \E j \in DOMAIN log : h[k] = log[j]
        /\ \A k, m \in DOMAIN h : h[k].op = h[m].op => k = m
    BY <1>0 DEF LogSafe, History
  <1>2. CASE Earlier(op) = {}
    BY <1>0, <1>1, <1>a, <1>2 DEF Without, Earlier
  <1>3. CASE Earlier(op) # {}
    <2> DEFINE i == CHOOSE i \in Earlier(op) : TRUE
               a == SubSeq(h, 1, i - 1)
               b == SubSeq(h, i + 1, Len(h))
    <2>1. i \in Earlier(op)
      BY <1>3
    <2>2. i \in 1..Len(h) /\ h[i].op = op
      BY <1>0, <1>1, <2>1 DEF Earlier
    <2>3. Without(op) = a \o b
      BY <1>0, <1>3 DEF Without
    <2> HIDE DEF i
    <2>4. a \in Seq(Entry) /\ Len(a) = i - 1 /\ \A k \in 1..(i - 1) : a[k] = h[k]
      BY <1>1, <2>2
    <2>5. b \in Seq(Entry) /\ Len(b) = Len(h) - i /\ \A k \in 1..(Len(h) - i) : b[k] = h[k + i]
      BY <1>1, <2>2, RestOf DEF b
    <2> HIDE DEF a, b
    <2>6. /\ a \o b \in Seq(Entry) /\ Len(a \o b) = Len(h) - 1
          /\ \A k \in 1..(Len(h) - 1) : (a \o b)[k] = IF k < i THEN h[k] ELSE h[k + 1]
      <3>1. a \o b \in Seq(Entry) /\ Len(a \o b) = Len(a) + Len(b)
        BY <2>4, <2>5
      <3>2. ASSUME NEW k \in 1..(Len(h) - 1)
            PROVE  (a \o b)[k] = IF k < i THEN h[k] ELSE h[k + 1]
        <4>1. CASE k < i
          BY <1>1, <2>2, <2>4, <2>5, <4>1
        <4>2. CASE ~(k < i)
          <5>1. (a \o b)[k] = b[k - Len(a)]
            BY <1>1, <2>2, <2>4, <2>5, <4>2
          <5>2. k - Len(a) \in 1..(Len(h) - i) /\ (k - Len(a)) + i = k + 1
            BY <1>1, <2>2, <2>4, <4>2
          <5> QED BY <2>5, <4>2, <5>1, <5>2
        <4> QED BY <4>1, <4>2
      <3> QED BY <1>1, <2>2, <2>4, <2>5, <3>1, <3>2
    <2> DEFINE c == a \o b
    <2> HIDE DEF c
    <2>7. /\ Without(op) = c /\ c \in Seq(Entry) /\ DOMAIN c = 1..(Len(h) - 1)
          /\ \A k \in 1..(Len(h) - 1) : c[k] = IF k < i THEN h[k] ELSE h[k + 1]
      <3>1. Without(op) = c /\ c \in Seq(Entry) /\ Len(c) = Len(h) - 1
        BY <2>3, <2>6 DEF c
      <3>2. DOMAIN c = 1..(Len(h) - 1)
        BY <3>1
      <3> QED BY <2>6, <3>1, <3>2 DEF c
    <2>8. \A j \in DOMAIN h : h[j].op = op => j = i
      BY <1>1, <1>a, <2>2
    <2>9. ASSUME NEW k \in 1..(Len(h) - 1)
          PROVE  \E j \in DOMAIN h : j = (IF k < i THEN k ELSE k + 1) /\ c[k] = h[j] /\ h[j].op # op
      BY <1>1, <2>2, <2>7, <2>8
    <2>10. \A k, m \in 1..(Len(h) - 1) : c[k].op = c[m].op => k = m
      <3> SUFFICES ASSUME NEW k \in 1..(Len(h) - 1), NEW m \in 1..(Len(h) - 1),
                          c[k].op = c[m].op
                   PROVE  k = m
        OBVIOUS
      <3>1. (IF k < i THEN k ELSE k + 1) = (IF m < i THEN m ELSE m + 1)
        BY <1>a, <2>9
      <3> QED BY <1>1, <2>2, <3>1
    <2>11. ASSUME NEW k \in 1..(Len(h) - 1)
           PROVE  \E j \in DOMAIN log : c[k] = log[j] /\ log[j].op # op
      BY <1>a, <2>9
    <2> QED BY <2>7, <2>10, <2>11
  <1> QED BY <1>2, <1>3

LEMMA LoggedIs ==
    ASSUME LogSafe, NEW entry \in Entry
    PROVE  /\ Logged(entry) \in Seq(Entry)
           /\ \A k \in DOMAIN Logged(entry) :
                  \/ Logged(entry)[k] = entry
                  \/ \E j \in DOMAIN log : Logged(entry)[k] = log[j] /\ log[j].op # entry.op
           /\ \A k, m \in DOMAIN Logged(entry) : Logged(entry)[k].op = Logged(entry)[m].op => k = m
  <1> DEFINE w == Without(entry.op)
  <1>1. /\ w \in Seq(Entry)
        /\ \A k \in DOMAIN w : \E j \in DOMAIN log : w[k] = log[j] /\ log[j].op # entry.op
        /\ \A k, m \in DOMAIN w : w[k].op = w[m].op => k = m
    BY WithoutIs
  <1>2. Logged(entry) = Append(w, entry)
    BY DEF Logged
  <1> HIDE DEF w
  <1>3. /\ Append(w, entry) \in Seq(Entry) /\ Len(w) \in Nat /\ DOMAIN w = 1..Len(w)
        /\ DOMAIN Append(w, entry) = 1..(Len(w) + 1)
        /\ \A k \in 1..Len(w) : Append(w, entry)[k] = w[k]
        /\ Append(w, entry)[Len(w) + 1] = entry
    BY <1>1
  <1>4. \A k \in 1..(Len(w) + 1) : k = Len(w) + 1 \/ k \in 1..Len(w)
    BY <1>3
  <1>5. \A k \in 1..Len(w) : w[k].op # entry.op
    BY <1>1, <1>3
  <1> QED BY <1>1, <1>2, <1>3, <1>4, <1>5

(* An entry for the request of the host keeps the history in order.         *)
LEMMA LoggedSafe ==
    ASSUME RolloutShape, LogSafe, pending # None, HostOp(pending), NEW b \in BOOLEAN,
           log' = Logged([op |-> pending, version |-> Candidate, success |-> b]),
           UNCHANGED <<rollouts>>
    PROVE  /\ LogSafe'
           /\ \A k \in DOMAIN log' : \/ log'[k].op = pending /\ log'[k].success = b
                                     \/ \E j \in DOMAIN log : log'[k] = log[j] /\ log[j].op # pending
  <1> DEFINE entry == [op |-> pending, version |-> Candidate, success |-> b]
  <1>1. entry \in Entry /\ pending \in Operations
    BY OperationNotNone DEF HostOp, Entry, Candidate
  <1>2. entry.op = pending /\ entry.version = Candidate /\ entry.success = b
    OBVIOUS
  <1>3. log' = Logged(entry)
    OBVIOUS
  <1> HIDE DEF entry
  <1>4. /\ log' \in Seq(Entry)
        /\ \A k \in DOMAIN log' : log'[k] = entry
               \/ \E j \in DOMAIN log : log'[k] = log[j] /\ log[j].op # pending
        /\ \A k, m \in DOMAIN log' : log'[k].op = log'[m].op => k = m
    <2> DEFINE new == Logged(entry)
    <2>1. /\ new \in Seq(Entry)
          /\ \A k \in DOMAIN new : new[k] = entry
                 \/ \E j \in DOMAIN log : new[k] = log[j] /\ log[j].op # entry.op
          /\ \A k, m \in DOMAIN new : new[k].op = new[m].op => k = m
      BY <1>1, LoggedIs, Zenon
    <2> HIDE DEF new
    <2>2. log' = new
      BY <1>3 DEF new
    <2> QED BY <1>2, <2>1, <2>2
  <1>5. \A k \in DOMAIN log' : log'[k].op \in Operations /\ log'[k].version = Version(log'[k].op)
    BY <1>1, <1>2, <1>4 DEF LogSafe, Candidate
  <1>6. Operations' = Operations /\ \A k \in DOMAIN log' : Version(log[k])' = Version(log'[k])
    BY DEF Operations, Version
  <1>7. LogSafe'
    BY <1>4, <1>5, <1>6 DEF LogSafe, Version
  <1> QED BY <1>2, <1>4, <1>7

-----------------------------------------------------------------------------
(* The agent.                                                               *)

AgentPcs == Running \union {"off", "start", "mark"}

LEMMA GotoIs ==
    ASSUME agent \in AgentShape, NEW pc \in AgentPcs, Goto(pc)
    PROVE  /\ agent' \in AgentShape /\ agent'.pc = pc
           /\ agent'.version = agent.version /\ agent'.crashes = agent.crashes
           /\ agent'.op = IF pc \in {"publish", "handoff", "acknowledge"} THEN agent.op ELSE None
  <1> DEFINE op == IF pc \in {"publish", "handoff", "acknowledge"} THEN agent.op ELSE None
  <1>1. agent' = [agent EXCEPT !.pc = pc, !.op = op]
    BY DEF Goto
  <1>2. op \in Ids \union {None}
    BY DEF AgentShape
  <1> HIDE DEF op
  <1>3. /\ agent' \in AgentShape /\ agent'.pc = pc /\ agent'.op = op
        /\ agent'.version = agent.version /\ agent'.crashes = agent.crashes
    BY <1>1, <1>2 DEF AgentShape, AgentPcs
  <1> QED BY <1>3 DEF op

(* An agent with nothing in hand.                                           *)
LEMMA AgentFree ==
    ASSUME agent' \in AgentShape, agent'.op = None,
           agent'.pc \notin {"download", "publish", "handoff", "acknowledge"},
           worker' # "idle" => agent'.pc = "off",
           agent'.pc \in Running \union {"mark"} => agent'.version = current' /\ pending' = None,
           agent'.pc = "send" => StartupOutcome' # None
    PROVE  AgentSafe'
  BY DEF AgentSafe, Running

LEMMA LeastNumber ==
    ASSUME NEW T, T \subseteq Nat, T # {}
    PROVE  \E x \in T : \A y \in T : x <= y
  <1> DEFINE R == {z \in Nat \X Nat : z[1] < z[2]}
  <1>1. R = OpToRel(<, Nat)
    BY DEF OpToRel
  <1>2. IsWellFoundedOn(R, Nat)
    BY <1>1, NatLessThanWellFounded
  <1>3. \A a, b \in Nat : a < b => <<a, b>> \in R
    OBVIOUS
  <1> HIDE DEF R
  <1>4. PICK x \in T : \A y \in T : ~(<<y, x>> \in R)
    BY <1>2, WFMin
  <1>5. \A y \in T : ~(y < x)
    BY <1>3, <1>4
  <1> QED BY <1>4, <1>5

LEMMA GreatestNumber ==
    ASSUME NEW T, T \subseteq Nat, T # {}, NEW top \in Nat, \A n \in T : n <= top
    PROVE  \E x \in T : \A y \in T : y <= x
  <1> DEFINE D == {top - n : n \in T}
  <1>1. D \subseteq Nat /\ D # {}
    <2>1. \A n \in T : n \in Nat /\ top - n \in Nat
      OBVIOUS
    <2> QED BY <2>1
  <1>2. PICK d \in D : \A e \in D : d <= e
    BY <1>1, LeastNumber
  <1>3. PICK x \in T : d = top - x
    BY <1>2
  <1>4. ASSUME NEW y \in T PROVE y <= x
    <2>1. top - y \in D
      OBVIOUS
    <2>2. top - x <= top - y
      BY <1>2, <1>3, <2>1
    <2> QED BY <2>2
  <1> QED BY <1>4

(* The outcome reported is the verdict on an entry.                         *)
LEMMA OutcomeIs ==
    ASSUME LogSafe, StartupOutcome # None
    PROVE  \E i \in DOMAIN log :
              /\ StartupOutcome.op = log[i].op /\ StartupOutcome.status \in Outcomes
              /\ StartupOutcome.status = "failed" => ~log[i].success
              /\ StartupOutcome.status = "rolled_back" =>
                     /\ marker # None /\ marker.reason = "startup_crash_rollback"
                     /\ marker.crashed = log[i].version /\ marker.rollback = agent.version
  <1>1. Telling # {}
    BY DEF StartupOutcome
  <1>2. DOMAIN log = 1..Len(log) /\ Len(log) \in Nat
    BY DEF LogSafe
  <1>3. Telling \subseteq Nat /\ \A n \in Telling : n <= Len(log)
    BY <1>2 DEF Telling
  <1>4. \E i \in Telling : \A j \in Telling : j <= i
    BY <1>1, <1>2, <1>3, GreatestNumber
  <1> DEFINE i == CHOOSE i \in Telling : \A j \in Telling : j <= i
  <1>5. i \in Telling
    BY <1>4
  <1>6. StartupOutcome = Verdict(log[i])
    BY <1>1 DEF StartupOutcome
  <1> HIDE DEF i
  <1>7. i \in DOMAIN log /\ Verdict(log[i]) # None
    BY <1>5 DEF Telling
  <1>8. log[i].success \in BOOLEAN
    <2>1. log[i] \in Entry
      BY <1>2, <1>7 DEF LogSafe
    <2> QED BY <2>1 DEF Entry
  <1>9. /\ Verdict(log[i]).op = log[i].op /\ Verdict(log[i]).status \in Outcomes
        /\ Verdict(log[i]).status = "failed" => ~log[i].success
        /\ Verdict(log[i]).status = "rolled_back" =>
               /\ marker # None /\ marker.reason = "startup_crash_rollback"
               /\ marker.crashed = log[i].version /\ marker.rollback = agent.version
    BY <1>7, <1>8 DEF Verdict, Outcomes
  <1> QED BY <1>6, <1>7, <1>9

LEMMA OutcomeKept ==
    ASSUME UNCHANGED <<log, marker, hidden>>, agent'.version = agent.version
    PROVE  StartupOutcome' = StartupOutcome
  <1>1. \A i : Verdict(log[i])' = Verdict(log[i])
    BY DEF Verdict
  <1>2. Telling' = Telling
    BY <1>1 DEF Telling
  <1> QED BY <1>1, <1>2 DEF StartupOutcome

(* The repeated acknowledgement as a step of the service.                   *)
LEMMA RetryServes ==
    ASSUME ServerSafe, JournalSafe, NEW op, NEW ok \in BOOLEAN,
           retry_scheduled_acknowledgement(op, ok), UNCHANGED <<handoffs, journal>>
    PROVE  ServerSafe' /\ JournalSafe' /\ Serves(op, "scheduled")
  <1>1. CASE UNCHANGED acked /\ UNCHANGED serverVars
    <2>1. rollouts' = rollouts /\ builds' = builds /\ reports' = reports /\ acked' = acked
      BY <1>1 DEF serverVars
    <2>2. Serves(op, "scheduled")
      BY <2>1, StaysServes DEF ServerSafe
    <2> QED BY <2>1, <2>2, ServerServed, JournalServed DEF journals
  <1>2. CASE /\ op \in handoffs \ acked /\ record_ack(op, "scheduled")
             /\ acked' = IF ok THEN acked \union {op} ELSE acked
    <2>1. op \in Operations
      BY <1>2 DEF JournalSafe
    <2>2. Serves(op, "scheduled") /\ reports' = reports
      BY <1>2, <2>1, AckServes DEF ServerSafe
    <2>3. JournalSafe'
      BY <1>2, <2>2 DEF JournalSafe, Serves
    <2> QED BY <2>2, <2>3, ServerServed
  <1> QED BY <1>1, <1>2 DEF retry_scheduled_acknowledgement, RetryAck

LEMMA TerminalServes ==
    ASSUME ServerSafe, JournalSafe, NEW rep, rep.op \in Operations, rep.status \in Outcomes,
           NEW ok \in BOOLEAN, report_terminal(rep, ok), UNCHANGED <<handoffs, acked>>
    PROVE  ServerSafe' /\ JournalSafe' /\ Serves(rep.op, rep.status)
  <1>1. \/ UNCHANGED serverVars
        \/ record_report(rep.op, Sent(rep))
    BY DEF report_terminal, Deliver
  <1>2. /\ Sent(rep).status = rep.status
        /\ \A d : Record(rep, d).op = rep.op /\ Record(rep, d).status = rep.status
    BY DEF Sent, Record
  <1>3. \A rec \in journal' : rec \in journal \/ \E d \in BOOLEAN : rec = Record(rep, d)
    BY DEF report_terminal, Deliver
  <1>4. Serves(rep.op, rep.status) /\ ServerSafe'
    <2>1. CASE UNCHANGED serverVars
      <3>1. rollouts' = rollouts /\ builds' = builds /\ reports' = reports
        BY <2>1 DEF serverVars
      <3>2. Serves(rep.op, rep.status)
        BY <3>1, StaysServes DEF ServerSafe
      <3> QED BY <3>1, <3>2, ServerServed
    <2>2. CASE record_report(rep.op, Sent(rep))
      <3> DEFINE row == [op |-> rep.op, key |-> Sent(rep).key, status |-> Sent(rep).status,
                         version |-> Sent(rep).version]
      <3>1. Serves(rep.op, rep.status) /\ reports' = reports \union {row}
        BY <1>2, <2>2, ReportServes DEF ServerSafe
      <3>2. row.op = rep.op /\ row.status = rep.status
        BY <1>2
      <3> HIDE DEF row
      <3>3. \A w \in reports' : w \in reports \/ (w.op \in Operations /\ w.status \in Outcomes)
        BY <3>1, <3>2
      <3> QED BY <3>1, <3>3, ServerServed
    <2> QED BY <1>1, <2>1, <2>2
  <1>5. JournalSafe'
    BY <1>2, <1>3, <1>4 DEF JournalSafe, Serves
  <1> QED BY <1>4, <1>5

LEMMA ServiceStands ==
    ASSUME AltSafe, UNCHANGED serverVars
    PROVE  /\ ServerSafe' /\ \A o, s : Serves(o, s)
           /\ UNCHANGED journals => JournalSafe'
  <1>1. rollouts' = rollouts /\ builds' = builds /\ reports' = reports
    BY DEF serverVars
  <1>2. \A o, s : Serves(o, s)
    BY <1>1, StaysServes DEF AltSafe, ServerSafe
  <1> QED BY <1>1, <1>2, ServerServed, JournalServed DEF AltSafe

LEMMA HostStands ==
    ASSUME AltSafe, UNCHANGED <<serverVars, worker, rootVars, updateFiles, faults>>
    PROVE  HostSafe'
  <1>1. Serves(None, "assigned") /\ "assigned" \notin Undone
    BY ServiceStands DEF Undone
  <1> QED BY <1>1, HostServed DEF AltSafe, ServerSafe

LEMMA LaunchSafe ==
    ASSUME AltSafe, Launch
    PROVE  AltSafe'
  <1>1. ServerSafe' /\ JournalSafe' /\ HostSafe'
    BY ServiceStands, HostStands DEF Launch
  <1>2. /\ agent \in AgentShape /\ worker' = worker /\ worker = "idle" /\ current' = current
        /\ pending' = pending /\ current \in Versions
    BY DEF Launch, rootVars, updateFiles, AltSafe, AgentSafe, HostSafe, FileSafe
  <1>3. CASE pending # None
    <2>1. Goto("off") /\ "off" \in AgentPcs
      BY <1>3 DEF Launch, AgentPcs
    <2>2. agent' \in AgentShape /\ agent'.pc = "off" /\ agent'.op = None
      BY <1>2, <2>1, GotoIs
    <2>3. AgentSafe'
      BY <2>2, AgentFree DEF Running
    <2> QED BY <1>1, <2>3 DEF AltSafe
  <1>4. CASE pending = None
    <2>1. agent' = [pc |-> "report", op |-> None, version |-> current, crashes |-> 0]
      BY <1>4 DEF Launch
    <2>2. 0 \in 0..RetryLimit - 1
      BY AltAssumption
    <2>3. agent' \in AgentShape
      BY <1>2, <2>1, <2>2 DEF AgentShape, Running
    <2>4. AgentSafe'
      BY <1>2, <1>4, <2>1, <2>3, AgentFree
    <2> QED BY <1>1, <2>4 DEF AltSafe
  <1> QED BY <1>3, <1>4

(* A running agent goes on with nothing in hand.                            *)
LEMMA GoesOn ==
    ASSUME AltSafe, agent.pc \in {"report", "send", "poll", "download", "idle"},
           NEW pc \in {"report", "send", "poll", "idle"}, Goto(pc),
           UNCHANGED <<worker, rootVars, updateFiles>>, pc = "send" => StartupOutcome # None
    PROVE  AgentSafe'
  <1>1. /\ agent \in AgentShape /\ worker' = worker /\ worker = "idle" /\ current' = current
        /\ pending' = pending /\ pending = None /\ agent.version = current
        /\ UNCHANGED <<log, marker, hidden>>
    BY DEF rootVars, updateFiles, AltSafe, AgentSafe, Running
  <1>2. agent' \in AgentShape /\ agent'.pc = pc /\ agent'.op = None /\ agent'.version = agent.version
    BY <1>1, GotoIs DEF AgentPcs, Running
  <1>3. StartupOutcome' = StartupOutcome
    BY <1>1, <1>2, OutcomeKept
  <1> QED BY <1>1, <1>2, <1>3, AgentFree

LEMMA ReportStartupSafe ==
    ASSUME AltSafe, report_startup_outcome
    PROVE  AltSafe'
  <1>1. /\ agent.pc = "report" /\ UNCHANGED <<worker, rootVars, updateFiles, handoffs, journal, faults>>
        /\ RolloutShape /\ HostSafe
    BY DEF report_startup_outcome, AltSafe, ServerSafe
  <1>2. CASE StartupOutcome = None
    <2>1. Goto("poll") /\ UNCHANGED acked /\ UNCHANGED serverVars
      BY <1>2 DEF report_startup_outcome
    <2>2. AgentSafe'
      BY <1>1, <2>1, GoesOn
    <2>3. ServerSafe' /\ JournalSafe' /\ HostSafe'
      BY <1>1, <2>1, ServiceStands, HostStands DEF journals
    <2> QED BY <2>2, <2>3 DEF AltSafe
  <1>3. CASE StartupOutcome # None
    <2>1. PICK ok \in BOOLEAN : /\ retry_scheduled_acknowledgement(StartupOutcome.op, ok)
                                /\ Goto(IF ok THEN "send" ELSE "poll")
      BY <1>3 DEF report_startup_outcome
    <2>2. AgentSafe'
      <3>1. CASE ok
        BY <1>1, <1>3, <2>1, <3>1, GoesOn
      <3>2. CASE ~ok
        BY <1>1, <2>1, <3>2, GoesOn
      <3> QED BY <3>1, <3>2
    <2>3. ServerSafe' /\ JournalSafe' /\ Serves(StartupOutcome.op, "scheduled")
      BY <1>1, <2>1, RetryServes DEF AltSafe
    <2>4. HostSafe'
      BY <1>1, <2>3, HostServed DEF Undone
    <2> QED BY <2>2, <2>3, <2>4 DEF AltSafe
  <1> QED BY <1>2, <1>3

(* A failure is reported when its operation has no request and is not       *)
(* selected; a rollback when another release runs.                          *)
LEMMA SendReportSafe ==
    ASSUME AltSafe, SendReport
    PROVE  AltSafe'
  <1>1. /\ agent.pc = "send" /\ UNCHANGED <<worker, rootVars, updateFiles, handoffs, acked, faults>>
        /\ RolloutShape /\ HostSafe /\ Goto("poll") /\ StartupOutcome # None /\ pending = None
        /\ agent.version = current /\ LogSafe
    BY DEF SendReport, AltSafe, ServerSafe, AgentSafe, HostSafe, Running
  <1> DEFINE rep == StartupOutcome
  <1>2. PICK i \in DOMAIN log :
              /\ rep.op = log[i].op /\ rep.status \in Outcomes
              /\ rep.status = "failed" => ~log[i].success
              /\ rep.status = "rolled_back" =>
                     /\ marker # None /\ marker.reason = "startup_crash_rollback"
                     /\ marker.crashed = log[i].version /\ marker.rollback = agent.version
    BY <1>1, OutcomeIs
  <1>3. PICK ok \in BOOLEAN : report_terminal(rep, ok)
    BY DEF SendReport
  <1> HIDE DEF rep
  <1>4. /\ rep.op \in Operations /\ log[i].version = Version(rep.op)
    BY <1>1, <1>2 DEF LogSafe
  <1>5. ServerSafe' /\ JournalSafe' /\ Serves(rep.op, rep.status)
    BY <1>1, <1>2, <1>3, <1>4, TerminalServes DEF AltSafe
  <1>6. ASSUME rep.status \in Undone
        PROVE  pending # rep.op /\ (selector = rep.op => rep.op \in blamed)
    <2>1. rep.op # None
      BY <1>1, <1>4, OperationNotNone
    <2>2. CASE rep.status = "failed"
      BY <1>1, <1>2, <1>6, <2>1, <2>2 DEF HostSafe, FailureSafe
    <2>3. CASE rep.status = "rolled_back"
      <3>1. Version(rep.op) # current
        BY <1>1, <1>2, <1>4, <2>3 DEF HostSafe, FileSafe
      <3> QED BY <1>1, <2>1, <3>1 DEF HostSafe, SelectionSafe
    <2> QED BY <1>6, <2>2, <2>3 DEF Undone
  <1>7. HostSafe'
    BY <1>1, <1>5, <1>6, HostServed
  <1>8. AgentSafe'
    BY <1>1, GoesOn
  <1> QED BY <1>5, <1>7, <1>8 DEF AltSafe

(* An offer is taken only when it changes the release, so the operation     *)
(* that selected the release is over: a device has one open operation.      *)
LEMMA RunOnceSafe ==
    ASSUME AltSafe, run_once
    PROVE  AltSafe'
  <1>1. /\ agent.pc = "poll" /\ UNCHANGED <<worker, rootVars, updateFiles, journals, faults>>
        /\ RolloutShape /\ SoleOwner /\ HostSafe /\ agent \in AgentShape /\ worker = "idle"
        /\ pending = None /\ agent.version = current
    BY DEF run_once, AltSafe, ServerSafe, AgentSafe, Running
  <1>2. CASE UNCHANGED serverVars /\ Goto("idle")
    <2>1. AgentSafe'
      BY <1>1, <1>2, GoesOn
    <2>2. ServerSafe' /\ JournalSafe' /\ HostSafe'
      BY <1>1, <1>2, ServiceStands, HostStands
    <2> QED BY <2>1, <2>2 DEF AltSafe
  <1>3. CASE \E op \in Operations :
                 Requested(op, agent.version) /\ (GotoWith("download", op) \/ Goto("idle"))
    <2>1. PICK op \in Operations :
                 Requested(op, agent.version) /\ (GotoWith("download", op) \/ Goto("idle"))
      BY <1>3
    <2>2. /\ op[2] = Host /\ Target(op) \in Open /\ Eligible(op, current) /\ record_ack(op, "requested")
      BY <1>1, <2>1 DEF Requested, recommendation_for_device, Offered
    <2>3. Serves(op, "requested") /\ reports' = reports
      BY <1>1, <2>2, AckServes
    <2>4. ServerSafe' /\ JournalSafe' /\ HostSafe'
      <3>1. ServerSafe'
        BY <2>3, ServerServed DEF AltSafe
      <3>2. JournalSafe'
        BY <1>1, <2>3, JournalServed DEF AltSafe
      <3>3. HostSafe'
        BY <1>1, <2>3, HostServed DEF Undone
      <3> QED BY <3>1, <3>2, <3>3
    <2>5. CASE Goto("idle")
      BY <1>1, <2>4, <2>5, GoesOn DEF AltSafe
    <2>6. CASE GotoWith("download", op)
      <3>1. op \in Ids /\ op # None /\ Version(op) \in Nat /\ current \in Nat
        BY <1>1, OperationNotNone, AdapterAssumption, RolloutAssumption
           DEF HostSafe, FileSafe, Versions
      <3>2. Version(op) # current
        BY <2>2, <3>1 DEF Eligible
      <3>3. selector # None => Target(selector) \notin Open
        <4> SUFFICES ASSUME selector # None, Target(selector) \in Open PROVE FALSE
          OBVIOUS
        <4>1. selector \in Operations /\ selector[2] = Host /\ Version(selector) = current
          BY <1>1 DEF HostSafe, SelectionSafe, HostOp
        <4>2. selector = op
          BY <1>1, <2>2, <4>1 DEF SoleOwner
        <4> QED BY <3>2, <4>1, <4>2
      <3>4. agent' \in AgentShape /\ agent'.pc = "download" /\ agent'.op = op /\ agent'.version = agent.version
        BY <1>1, <2>6, <3>1 DEF GotoWith, AgentShape, Running
      <3>5. /\ op \in Operations' /\ rollouts'[op[1]].build = Version(op)
            /\ rollouts'[op[1]].targets[op[2]] \notin Undone
            /\ selector # None => rollouts'[selector[1]].targets[selector[2]] \notin Open
        <4>1. Target(op) \notin Undone /\ "requested" \notin Undone
          BY <2>2 DEF Open, Undone
        <4>2. selector # None => selector \in Operations
          BY <1>1 DEF HostSafe, SelectionSafe, HostOp
        <4> QED BY <2>3, <3>3, <4>1, <4>2, ServedFacts
      <3>6. worker' = worker /\ current' = current /\ pending' = pending /\ selector' = selector
        BY <1>1 DEF rootVars, updateFiles
      <3>7. AgentSafe'
        BY <1>1, <2>2, <3>1, <3>2, <3>4, <3>5, <3>6 DEF AgentSafe, HostOp, Version, Target, Running
      <3> QED BY <2>4, <3>7 DEF AltSafe
    <2> QED BY <2>1, <2>5, <2>6
  <1> QED BY <1>2, <1>3 DEF run_once

(* The agent goes on with what it has in hand.                              *)
LEMMA CarriesOn ==
    ASSUME AltSafe, agent.pc \in {"download", "publish", "handoff"},
           NEW pc \in {"publish", "handoff", "acknowledge"}, Goto(pc),
           UNCHANGED <<rollouts, worker, rootVars>>, pc = "publish" => pending' = None
    PROVE  AgentSafe'
  <1>1. /\ agent \in AgentShape /\ worker' = worker /\ worker = "idle" /\ current' = current
        /\ agent.version = current /\ selector' = selector /\ rollouts' = rollouts
        /\ agent.op # None /\ HostOp(agent.op) /\ Version(agent.op) # current
        /\ Target(agent.op) \notin Undone /\ (selector # None => Target(selector) \notin Open)
    BY DEF rootVars, AltSafe, AgentSafe, Running
  <1>2. agent' \in AgentShape /\ agent'.pc = pc /\ agent'.op = agent.op /\ agent'.version = agent.version
    BY <1>1, GotoIs DEF AgentPcs, Running
  <1>3. HostOp(agent.op)' /\ Version(agent.op)' = Version(agent.op) /\ Target(agent.op)' = Target(agent.op)
        /\ Target(selector)' = Target(selector)
    BY <1>1, <1>2 DEF HostOp, Operations, Version, Target
  <1> QED BY <1>1, <1>2, <1>3 DEF AgentSafe

LEMMA DownloadSafe ==
    ASSUME AltSafe, Download
    PROVE  AltSafe'
  <1>1. /\ agent.pc = "download" /\ UNCHANGED <<serverVars, worker, rootVars, updateFiles, journals, faults>>
        /\ rollouts' = rollouts /\ pending' = pending /\ pending = None
    BY DEF Download, AltSafe, AgentSafe, serverVars, updateFiles
  <1>2. ServerSafe' /\ JournalSafe' /\ HostSafe'
    BY <1>1, ServiceStands, HostStands
  <1>3. AgentSafe'
    BY <1>1, GoesOn, CarriesOn DEF Download
  <1> QED BY <1>2, <1>3 DEF AltSafe

LEMMA WritePendingSafe ==
    ASSUME AltSafe, WritePending
    PROVE  AltSafe'
  <1>1. /\ agent.pc = "publish" /\ UNCHANGED <<serverVars, worker, rootVars, journals, faults>>
        /\ rollouts' = rollouts /\ pending' = agent.op /\ pending = None /\ worker = "idle"
        /\ UNCHANGED <<request, marker, log, blamed>> /\ Goto("handoff")
    BY DEF WritePending, AltSafe, AgentSafe, serverVars
  <1>2. /\ agent.op # None /\ HostOp(agent.op) /\ Version(agent.op) # current
        /\ Target(agent.op) \notin Undone /\ (selector # None => Target(selector) \notin Open)
    BY <1>1 DEF AltSafe, AgentSafe
  <1>3. ServerSafe' /\ JournalSafe'
    BY <1>1, ServiceStands
  <1>4. AgentSafe'
    BY <1>1, CarriesOn
  <1>5. /\ current' = current /\ previous' = previous /\ releases' = releases /\ selector' = selector
        /\ worker' = worker /\ Operations' = Operations /\ faults' = faults
    BY <1>1 DEF rootVars, Operations
  <1>6. FileSafe' /\ LogSafe'
    BY <1>1, <1>2, <1>5 DEF AltSafe, HostSafe, FileSafe, LogSafe, HostOp, Version
  <1>7. SelectionSafe'
    BY <1>1, <1>2, <1>5 DEF AltSafe, HostSafe, SelectionSafe, HostOp, Version, Target
  <1>8. WorkerSafe'
    BY <1>1, <1>5 DEF AltSafe, HostSafe, WorkerSafe
  <1>9. FailureSafe'
    <2>1. \A i \in DOMAIN log : ~log[i].success /\ selector = log[i].op => selector \in blamed
      <3>1. \A i \in DOMAIN log : log[i].op # None
        BY OperationNotNone DEF AltSafe, ServerSafe, HostSafe, LogSafe
      <3> QED BY <1>1, <3>1 DEF AltSafe, HostSafe, FailureSafe
    <2>2. UndoneIsUndone'
      BY <1>1, <1>2, <1>5 DEF AltSafe, HostSafe, FailureSafe, UndoneIsUndone, Target, Undone
    <2> QED BY <1>1, <1>5, <2>1, <2>2 DEF FailureSafe
  <1> QED BY <1>3, <1>4, <1>6, <1>7, <1>8, <1>9 DEF AltSafe, HostSafe

LEMMA HandoffSafe ==
    ASSUME AltSafe, record_scheduled_handoff
    PROVE  AltSafe'
  <1>1. /\ agent.pc = "handoff" /\ UNCHANGED <<serverVars, worker, rootVars, updateFiles, acked, journal, faults>>
        /\ rollouts' = rollouts /\ handoffs' = handoffs \union {agent.op} /\ Goto("acknowledge")
    BY DEF record_scheduled_handoff, Journalled, serverVars
  <1>2. agent.op \in Operations
    BY <1>1 DEF AltSafe, AgentSafe, HostOp
  <1>3. ServerSafe' /\ HostSafe'
    BY <1>1, ServiceStands, HostStands
  <1>4. JournalSafe'
    BY <1>1, <1>2 DEF AltSafe, JournalSafe, Operations
  <1>5. AgentSafe'
    BY <1>1, CarriesOn
  <1> QED BY <1>3, <1>4, <1>5 DEF AltSafe

(* The agent ends.                                                          *)
LEMMA Ends ==
    ASSUME AltSafe, NEW pc \in {"off", "start"}, Goto(pc), pc = "start" => worker' = "idle"
    PROVE  AgentSafe'
  <1>1. agent' \in AgentShape /\ agent'.pc = pc /\ agent'.op = None
    BY GotoIs DEF AltSafe, AgentSafe, AgentPcs
  <1> QED BY <1>1, AgentFree DEF Running

LEMMA AcknowledgeSafe ==
    ASSUME AltSafe, Acknowledge
    PROVE  AltSafe'
  <1>1. UNCHANGED <<worker, rootVars, updateFiles, handoffs, journal, faults>> /\ Goto("off")
    BY DEF Acknowledge
  <1>2. PICK ok \in BOOLEAN : retry_scheduled_acknowledgement(agent.op, ok)
    BY DEF Acknowledge
  <1>3. ServerSafe' /\ JournalSafe' /\ Serves(agent.op, "scheduled")
    BY <1>1, <1>2, RetryServes DEF AltSafe
  <1>4. HostSafe'
    BY <1>1, <1>3, HostServed DEF Undone, AltSafe, ServerSafe
  <1>5. AgentSafe'
    BY <1>1, Ends
  <1> QED BY <1>3, <1>4, <1>5 DEF AltSafe

LEMMA PollAgainSafe ==
    ASSUME AltSafe, PollAgain
    PROVE  AltSafe'
  BY ServiceStands, HostStands, GoesOn DEF AltSafe, PollAgain

(* The launcher writes its request or its marker.                           *)
LEMMA HostMarks ==
    ASSUME AltSafe, worker = "idle", UNCHANGED <<serverVars, worker, rootVars, pending, log, blamed>>,
           request' # None => /\ request'.crashed \in Versions /\ request'.rollback \in Versions
                              /\ request'.crashed # request'.rollback,
           marker' = marker \/ marker'.reason # "startup_crash_rollback",
           faults' \in 0..MaxFaults
    PROVE  HostSafe'
  <1>1. /\ current' = current /\ previous' = previous /\ releases' = releases /\ selector' = selector
        /\ worker' = worker /\ Operations' = Operations /\ pending' = pending /\ log' = log
        /\ rollouts' = rollouts
    BY DEF rootVars, Operations, serverVars
  <1>2. FileSafe' /\ LogSafe'
    BY <1>1 DEF AltSafe, HostSafe, FileSafe, LogSafe, HostOp, Version
  <1>3. SelectionSafe'
    BY <1>1 DEF AltSafe, HostSafe, SelectionSafe, HostOp, Version, Target
  <1>4. WorkerSafe'
    BY <1>1 DEF AltSafe, HostSafe, WorkerSafe
  <1>5. FailureSafe'
    BY <1>1 DEF AltSafe, HostSafe, FailureSafe, UndoneIsUndone, Target
  <1> QED BY <1>2, <1>3, <1>4, <1>5 DEF HostSafe

LEMMA MarkSafe ==
    ASSUME AltSafe, write_failed_launch_marker
    PROVE  AltSafe'
  <1> DEFINE reason == IF RollbackKnown THEN "startup_crash_rollback_requested" ELSE "startup_crash"
             to == IF RollbackKnown /\ hidden = {} THEN "off" ELSE "start"
  <1>1. /\ agent.pc = "mark"
        /\ UNCHANGED <<serverVars, worker, rootVars, pending, request, log, blamed, journals, faults>>
        /\ marker' = marker \/ marker'.reason = reason
        /\ Goto(to)
    BY DEF write_failed_launch_marker
  <1>2. worker = "idle" /\ reason # "startup_crash_rollback" /\ to \in {"off", "start"}
    BY <1>1 DEF AltSafe, AgentSafe
  <1> HIDE DEF reason, to
  <1>3. HostSafe'
    BY <1>1, <1>2, HostMarks DEF AltSafe, HostSafe, FileSafe
  <1>4. ServerSafe' /\ JournalSafe' /\ AgentSafe'
    BY <1>1, <1>2, ServiceStands, Ends
  <1> QED BY <1>3, <1>4 DEF AltSafe

LEMMA CrashSafe ==
    ASSUME AltSafe, Crash
    PROVE  AltSafe'
  <1>1. /\ agent.pc \in Running /\ UNCHANGED <<serverVars, worker, rootVars, pending, marker, log, blamed, journals>>
        /\ agent \in AgentShape /\ worker = "idle" /\ agent.version = current /\ pending' = pending
        /\ current' = current /\ worker' = worker
    BY DEF Crash, AltSafe, AgentSafe, Running, rootVars
  <1>2. faults' \in 0..MaxFaults
    BY AltAssumption DEF Crash, AltSafe, HostSafe, FileSafe
  <1>3. ServerSafe' /\ JournalSafe'
    BY <1>1, ServiceStands
  <1>4. CASE pending # None /\ Goto("off") /\ UNCHANGED request
    <2>1. HostSafe'
      BY <1>1, <1>2, <1>4, HostMarks DEF AltSafe, HostSafe, FileSafe
    <2> QED BY <1>3, <1>4, <2>1, Ends DEF AltSafe
  <1>5. CASE /\ pending = None
             /\ \E n \in {0, agent.crashes + 1} :
                    /\ n < RetryLimit
                    /\ agent' = [agent EXCEPT !.pc = "report", !.op = None, !.crashes = n]
             /\ UNCHANGED request
    <2>1. HostSafe'
      BY <1>1, <1>2, <1>5, HostMarks DEF AltSafe, HostSafe, FileSafe
    <2>2. PICK n \in {0, agent.crashes + 1} :
                    /\ n < RetryLimit
                    /\ agent' = [agent EXCEPT !.pc = "report", !.op = None, !.crashes = n]
      BY <1>5
    <2>3. agent.crashes \in 0..RetryLimit - 1
      BY <1>1 DEF AgentShape
    <2>4. n \in 0..RetryLimit - 1
      BY <2>2, <2>3, AltAssumption
    <2>5. agent' \in AgentShape /\ agent'.pc = "report" /\ agent'.op = None /\ agent'.version = agent.version
      BY <1>1, <2>2, <2>4 DEF AgentShape, Running
    <2>6. AgentSafe'
      BY <1>1, <1>5, <2>5, AgentFree
    <2> QED BY <1>3, <2>1, <2>6 DEF AltSafe
  <1>6. CASE /\ pending = None
             /\ request' = IF RollbackKnown THEN [crashed |-> agent.version, rollback |-> previous]
                           ELSE request
             /\ Goto("mark")
    <2>1. agent.version \in Versions
      BY <1>1 DEF AgentShape
    <2>2. request' # None => /\ request'.crashed \in Versions /\ request'.rollback \in Versions
                             /\ request'.crashed # request'.rollback
      BY <1>1, <1>6, <2>1 DEF RollbackKnown, AltSafe, HostSafe, FileSafe
    <2>3. HostSafe'
      BY <1>1, <1>2, <2>2, HostMarks
    <2>4. agent' \in AgentShape /\ agent'.pc = "mark" /\ agent'.op = None /\ agent'.version = agent.version
      BY <1>1, <1>6, GotoIs DEF AgentPcs
    <2>5. AgentSafe'
      BY <1>1, <1>6, <2>4, AgentFree
    <2> QED BY <1>3, <2>3, <2>5 DEF AltSafe
  <1> QED BY <1>4, <1>5, <1>6 DEF Crash

LEMMA AdminSafe ==
    ASSUME AltSafe, Admin
    PROVE  AltSafe'
  <1>1. /\ UNCHANGED <<processVars, rootVars, updateFiles, journals, faults>> /\ Administer
        /\ agent' = agent /\ worker' = worker /\ RolloutShape /\ SoleOwner
    BY DEF Admin, processVars, AltSafe, ServerSafe
  <1>2. PICK o : Serves(o, "cancelled") /\ reports' = reports
    BY <1>1, AdminServes
  <1>3. ServerSafe' /\ JournalSafe'
    BY <1>1, <1>2, ServerServed, JournalServed DEF AltSafe
  <1>4. HostSafe'
    BY <1>1, <1>2, HostServed DEF AltSafe, Undone
  <1>5. current' = current /\ pending' = pending /\ selector' = selector /\ UNCHANGED <<log, marker, hidden>>
    BY <1>1 DEF rootVars, updateFiles
  <1>6. StartupOutcome' = StartupOutcome
    BY <1>1, <1>5, OutcomeKept
  <1>7. agent.op # None =>
           /\ HostOp(agent.op)' /\ Version(agent.op)' = Version(agent.op) /\ Target(agent.op)' \notin Undone
           /\ selector # None => Target(selector)' \notin Open
    <2> SUFFICES ASSUME agent.op # None
                 PROVE  /\ HostOp(agent.op)' /\ Version(agent.op)' = Version(agent.op)
                        /\ Target(agent.op)' \notin Undone
                        /\ selector # None => Target(selector)' \notin Open
      OBVIOUS
    <2>1. /\ HostOp(agent.op) /\ Target(agent.op) \notin Undone /\ "cancelled" \notin Undone
          /\ selector # None => selector \in Operations /\ Target(selector) \notin Open
      BY DEF AltSafe, AgentSafe, HostSafe, SelectionSafe, HostOp, Undone
    <2> QED BY <1>1, <1>2, <1>5, <2>1, ServedFacts DEF HostOp, Version, Target
  <1>8. AgentSafe'
    BY <1>1, <1>5, <1>6, <1>7 DEF AltSafe, AgentSafe
  <1> QED BY <1>3, <1>4, <1>8 DEF AltSafe

-----------------------------------------------------------------------------
(* The root worker: the agent is down while it writes.                      *)

LEMMA WorkerFrame ==
    ASSUME AltSafe, NEW from, NEW to, FileStep(from, to), from # "idle"
    PROVE  /\ ServerSafe' /\ JournalSafe' /\ AgentSafe'
           /\ worker = from /\ worker' = to /\ rollouts' = rollouts /\ faults' = faults
           /\ Operations' = Operations /\ \A op : Version(op)' = Version(op)
  <1>1. /\ UNCHANGED <<serverVars, agent, journals, faults>> /\ worker = from /\ worker' = to
        /\ rollouts' = rollouts /\ agent' = agent
    BY DEF FileStep, Step, serverVars
  <1>2. agent \in AgentShape /\ agent.pc = "off" /\ agent.op = None
    BY <1>1 DEF AltSafe, AgentSafe
  <1>3. AgentSafe'
    BY <1>1, <1>2, AgentFree DEF Running
  <1>4. ServerSafe' /\ JournalSafe'
    BY <1>1, ServiceStands
  <1>5. Operations' = Operations
    BY <1>1 DEF Operations
  <1> QED BY <1>1, <1>3, <1>4, <1>5 DEF Version

(* The history stands.                                                      *)
LEMMA LogStands ==
    ASSUME LogSafe, rollouts' = rollouts, log' = log
    PROVE  LogSafe'
  <1>1. Operations' = Operations
    BY DEF Operations
  <1> QED BY <1>1 DEF LogSafe, Version

(* What the request of the host stands for.                                 *)
LEMMA PendingIs ==
    ASSUME AltSafe, pending # None
    PROVE  /\ HostOp(pending) /\ pending \in Operations /\ RolloutShape
           /\ Candidate \in Versions /\ Candidate # None /\ Candidate = Version(pending)
  BY OperationNotNone DEF AltSafe, ServerSafe, HostSafe, FileSafe, HostOp, Candidate

LEMMA NoneNoVersion == None \notin Versions
  BY AltAssumption, RolloutAssumption, AdapterAssumption DEF Versions

(* The files stand and the worker starts, stops or is done.                 *)
LEMMA FilesStand ==
    ASSUME AltSafe, UNCHANGED <<serverVars, rootVars, pending, request, marker>>,
           LogSafe' /\ (log' = log \/ DOMAIN log' = {}),
           faults' \in 0..MaxFaults, blamed \subseteq blamed',
           \/ worker' \in {"idle", "restore", "start"}
           \/ worker' = "update" /\ pending # None
           \/ worker' = "rollback" /\ request # None
           \/ worker' \in {"fail", "drop"} /\ pending # None /\ (current = Candidate => pending \in blamed')
    PROVE  HostSafe'
  <1>1. /\ current' = current /\ previous' = previous /\ releases' = releases /\ selector' = selector
        /\ pending' = pending /\ request' = request /\ marker' = marker
        /\ rollouts' = rollouts /\ Operations' = Operations
    BY DEF rootVars, serverVars, Operations
  <1>2. FileSafe' /\ LogSafe'
    BY <1>1 DEF AltSafe, HostSafe, FileSafe, HostOp
  <1>3. SelectionSafe'
    BY <1>1 DEF AltSafe, HostSafe, SelectionSafe, HostOp, Version, Target
  <1>4. WorkerSafe'
    BY <1>1 DEF WorkerSafe, WorkerPcs
  <1>5. FailureSafe'
    BY <1>1 DEF AltSafe, HostSafe, FailureSafe, UndoneIsUndone, Target, Candidate, Version
  <1> QED BY <1>2, <1>3, <1>4, <1>5 DEF HostSafe

(* The history stands, and with it what the lemma above asks of it.         *)
LEMMA SameLog ==
    ASSUME AltSafe, UNCHANGED serverVars, log' = log
    PROVE  LogSafe'
  <1>1. rollouts' = rollouts
    BY DEF serverVars
  <1> QED BY <1>1, LogStands DEF AltSafe, HostSafe

LEMMA TriggerSafe ==
    ASSUME AltSafe, Trigger
    PROVE  AltSafe'
  <1>1. /\ UNCHANGED <<serverVars, rootVars, pending, request, marker, log, blamed, journals, faults>>
        /\ Goto("off") /\ (pending # None \/ request # None)
        /\ worker' = IF request # None THEN "rollback" ELSE "update"
    BY DEF Trigger, Step, updateFiles
  <1>2. faults' \in 0..MaxFaults /\ LogSafe'
    BY <1>1, SameLog DEF AltSafe, HostSafe, FileSafe
  <1>3. HostSafe'
    BY <1>1, <1>2, FilesStand
  <1> QED BY <1>1, <1>3, ServiceStands, Ends DEF AltSafe

LEMMA StartServiceSafe ==
    ASSUME AltSafe, StartService
    PROVE  AltSafe'
  <1>1. /\ UNCHANGED <<serverVars, rootVars, pending, request, marker, log, blamed, journals, faults>>
        /\ Goto("start") /\ worker' = "idle"
    BY DEF StartService, Step
  <1>2. faults' \in 0..MaxFaults /\ LogSafe'
    BY <1>1, SameLog DEF AltSafe, HostSafe, FileSafe
  <1>3. HostSafe'
    BY <1>1, <1>2, FilesStand
  <1> QED BY <1>1, <1>3, ServiceStands, Ends DEF AltSafe

LEMMA RestoreOwnerSafe ==
    ASSUME AltSafe, restore_update_state_owner
    PROVE  AltSafe'
  <1>1. /\ FileStep("restore", "start")
        /\ UNCHANGED <<serverVars, rootVars, pending, request, marker, log, blamed, faults>>
    BY DEF restore_update_state_owner, FileStep
  <1>2. ServerSafe' /\ JournalSafe' /\ AgentSafe' /\ worker' = "start"
    BY <1>1, WorkerFrame
  <1>3. faults' \in 0..MaxFaults /\ LogSafe'
    BY <1>1, SameLog DEF AltSafe, HostSafe, FileSafe
  <1>4. HostSafe'
    BY <1>1, <1>2, <1>3, FilesStand
  <1> QED BY <1>2, <1>4 DEF AltSafe

(* An error ends the worker's run, or the request.                          *)
LEMMA ErrorSafe ==
    ASSUME AltSafe, UNCHANGED <<serverVars, agent, rootVars, pending, request, marker, log, journals>>,
           worker # "idle", blamed \subseteq blamed', faults < MaxFaults, faults' = faults + 1,
           \/ worker' = "restore"
           \/ worker' = "drop" /\ pending # None /\ (current = Candidate => pending \in blamed')
    PROVE  AltSafe'
  <1>1. faults' \in 0..MaxFaults /\ LogSafe' /\ agent' = agent /\ worker' # "idle"
    BY AltAssumption, SameLog DEF AltSafe, HostSafe, FileSafe
  <1>2. HostSafe'
    BY <1>1, FilesStand
  <1>3. agent \in AgentShape /\ agent.pc = "off" /\ agent.op = None
    BY DEF AltSafe, AgentSafe
  <1>4. AgentSafe'
    BY <1>1, <1>3, AgentFree DEF Running
  <1> QED BY <1>2, <1>4, ServiceStands DEF AltSafe

LEMMA DeferredSafe ==
    ASSUME AltSafe, Deferred
    PROVE  AltSafe'
  BY ErrorSafe DEF Deferred, Resumes, updateFiles

LEMMA LoadFailsSafe ==
    ASSUME AltSafe, LoadFails
    PROVE  AltSafe'
  <1>1. pending # None
    BY DEF LoadFails, Step, AltSafe, HostSafe, WorkerSafe
  <1> QED BY <1>1, ErrorSafe DEF LoadFails, Step, Blamed

LEMMA HostCrashSafe ==
    ASSUME AltSafe, HostCrash
    PROVE  AltSafe'
  <1>1. /\ UNCHANGED <<serverVars, rootVars, pending, request, marker, blamed, journals>>
        /\ worker' = "idle" /\ (log' = log \/ log' = << >>)
        /\ agent' = [agent EXCEPT !.pc = "start", !.op = None, !.crashes = 0]
        /\ agent \in AgentShape
    BY DEF HostCrash, AltSafe, AgentSafe
  <1>2. faults' \in 0..MaxFaults
    BY AltAssumption DEF HostCrash, AltSafe, HostSafe, FileSafe
  <1>3. LogSafe' /\ (log' = log \/ DOMAIN log' = {})
    <2>1. CASE log' = log
      BY <1>1, <2>1, SameLog
    <2>2. CASE log' = << >>
      BY <2>2 DEF LogSafe
    <2> QED BY <1>1, <2>1, <2>2
  <1>4. HostSafe'
    BY <1>1, <1>2, <1>3, FilesStand
  <1>5. 0 \in 0..RetryLimit - 1
    BY AltAssumption
  <1>6. agent' \in AgentShape /\ agent'.pc = "start" /\ agent'.op = None
    BY <1>1, <1>5 DEF AgentShape
  <1>7. AgentSafe'
    BY <1>1, <1>6, AgentFree DEF Running
  <1> QED BY <1>1, <1>4, <1>7, ServiceStands DEF AltSafe

(* A failure of a selected release puts the blame on its operation.         *)
LEMMA ApplyFailsSafe ==
    ASSUME AltSafe, ApplyFails
    PROVE  AltSafe'
  <1>1. /\ FileStep("update", "fail")
        /\ UNCHANGED <<serverVars, rootVars, pending, request, marker, log, faults>>
        /\ blamed \subseteq blamed' /\ (current = Candidate => pending \in blamed')
    BY DEF ApplyFails, Blamed, FileStep
  <1>2. ServerSafe' /\ JournalSafe' /\ AgentSafe' /\ worker = "update" /\ worker' = "fail"
    BY <1>1, WorkerFrame
  <1>3. faults' \in 0..MaxFaults /\ pending # None /\ LogSafe'
    BY <1>1, <1>2, SameLog DEF AltSafe, HostSafe, FileSafe, WorkerSafe
  <1>4. HostSafe'
    BY <1>1, <1>2, <1>3, FilesStand
  <1> QED BY <1>2, <1>4 DEF AltSafe

(* The worker publishes the release.                                        *)
LEMMA ApplySafe ==
    ASSUME AltSafe, apply_alt_update
    PROVE  AltSafe'
  <1> DEFINE to == IF current # Candidate THEN "keep_previous"
                   ELSE IF previous \notin {None, Candidate} THEN "record" ELSE "refuse"
  <1>1. /\ FileStep("update", to) /\ releases' = releases \union {Candidate}
        /\ current' = current /\ previous' = previous /\ selector' = selector
        /\ pending' = pending /\ request' = request /\ marker' = marker /\ log' = log /\ blamed' = blamed
    BY DEF apply_alt_update, updateFiles
  <1>2. /\ ServerSafe' /\ JournalSafe' /\ AgentSafe' /\ worker = "update" /\ worker' = to
        /\ rollouts' = rollouts /\ faults' = faults /\ Operations' = Operations
    BY <1>1, WorkerFrame
  <1>3. pending # None
    BY <1>2 DEF AltSafe, HostSafe, WorkerSafe
  <1>4. Candidate \in Versions /\ Candidate # None /\ Candidate' = Candidate
    BY <1>1, <1>2, <1>3, PendingIs DEF Candidate, Version
  <1>5. FileSafe' /\ LogSafe'
    BY <1>1, <1>2, <1>4, LogStands DEF AltSafe, HostSafe, FileSafe, HostOp
  <1>6. SelectionSafe'
    BY <1>1, <1>2 DEF AltSafe, HostSafe, SelectionSafe, HostOp, Version, Target
  <1>7. WorkerSafe'
    BY <1>1, <1>2, <1>3, <1>4 DEF WorkerSafe, WorkerPcs
  <1>8. FailureSafe'
    BY <1>1, <1>2 DEF AltSafe, HostSafe, FailureSafe, UndoneIsUndone, Target
  <1> QED BY <1>2, <1>5, <1>6, <1>7, <1>8 DEF AltSafe, HostSafe

(* It keeps the way back, ...                                               *)
LEMMA WritePreviousSafe ==
    ASSUME AltSafe, WritePrevious
    PROVE  AltSafe'
  <1>1. /\ FileStep("keep_previous", "select") /\ previous' = current
        /\ current' = current /\ releases' = releases /\ selector' = selector
        /\ pending' = pending /\ request' = request /\ marker' = marker /\ log' = log /\ blamed' = blamed
    BY DEF WritePrevious, PreviousSelector, updateFiles
  <1>2. /\ ServerSafe' /\ JournalSafe' /\ AgentSafe' /\ worker = "keep_previous" /\ worker' = "select"
        /\ rollouts' = rollouts /\ faults' = faults /\ Operations' = Operations
    BY <1>1, WorkerFrame
  <1>3. pending # None /\ Candidate \in releases /\ current # Candidate
    BY <1>2 DEF AltSafe, HostSafe, WorkerSafe
  <1>4. Candidate' = Candidate
    BY <1>1, <1>2 DEF Candidate, Version
  <1>5. FileSafe' /\ LogSafe'
    BY <1>1, <1>2, LogStands DEF AltSafe, HostSafe, FileSafe, HostOp
  <1>6. selector # None => selector # pending /\ Target(selector) \notin Open
    BY <1>3 DEF AltSafe, HostSafe, SelectionSafe, Candidate
  <1>7. SelectionSafe'
    BY <1>1, <1>2, <1>6 DEF AltSafe, HostSafe, SelectionSafe, HostOp, Version, Target
  <1>8. WorkerSafe'
    BY <1>1, <1>2, <1>3, <1>4 DEF WorkerSafe, WorkerPcs
  <1>9. FailureSafe'
    BY <1>1, <1>2 DEF AltSafe, HostSafe, FailureSafe, UndoneIsUndone, Target
  <1> QED BY <1>2, <1>5, <1>7, <1>8, <1>9 DEF AltSafe, HostSafe

(* ... and only then selects the release.                                   *)
LEMMA WriteCurrentSafe ==
    ASSUME AltSafe, WriteCurrent
    PROVE  AltSafe'
  <1>1. /\ FileStep("select", "record") /\ current' = Candidate /\ selector' = pending
        /\ previous' = previous /\ releases' = releases
        /\ pending' = pending /\ request' = request /\ marker' = marker /\ log' = log /\ blamed' = blamed
    BY DEF WriteCurrent, updateFiles
  <1>2. /\ ServerSafe' /\ JournalSafe' /\ AgentSafe' /\ worker = "select" /\ worker' = "record"
        /\ rollouts' = rollouts /\ faults' = faults /\ Operations' = Operations
    BY <1>1, WorkerFrame
  <1>3. pending # None /\ Candidate \in releases /\ current # Candidate /\ previous = current
    BY <1>2 DEF AltSafe, HostSafe, WorkerSafe
  <1>4. Candidate' = Candidate /\ Candidate \in Versions /\ HostOp(pending) /\ Candidate = Version(pending)
    BY <1>1, <1>2, <1>3, PendingIs DEF Candidate, Version
  <1>5. FileSafe' /\ LogSafe'
    BY <1>1, <1>2, <1>4, LogStands DEF AltSafe, HostSafe, FileSafe, HostOp
  <1>6. previous \in releases \ {Candidate} /\ previous # None
    BY <1>3, NoneNoVersion DEF AltSafe, HostSafe, FileSafe, SelectionSafe
  <1>7. SelectionSafe'
    BY <1>1, <1>2, <1>3, <1>4, <1>6 DEF SelectionSafe, HostOp, Version
  <1>8. WorkerSafe'
    BY <1>1, <1>2, <1>3, <1>4, <1>6 DEF WorkerSafe, WorkerPcs
  <1>9. FailureSafe'
    BY <1>1, <1>2 DEF AltSafe, HostSafe, FailureSafe, UndoneIsUndone, Target
  <1> QED BY <1>2, <1>5, <1>7, <1>8, <1>9 DEF AltSafe, HostSafe

LEMMA AppendSuccessSafe ==
    ASSUME AltSafe, AppendSuccess
    PROVE  AltSafe'
  <1>1. /\ FileStep("record", "unlink")
        /\ log' = Logged([op |-> pending, version |-> Candidate, success |-> TRUE])
        /\ current' = current /\ selector' = selector /\ previous' = previous /\ releases' = releases
        /\ pending' = pending /\ request' = request /\ marker' = marker /\ blamed' = blamed \ {pending}
    BY DEF AppendSuccess, rootVars
  <1>2. /\ ServerSafe' /\ JournalSafe' /\ AgentSafe' /\ worker = "record" /\ worker' = "unlink"
        /\ rollouts' = rollouts /\ faults' = faults /\ Operations' = Operations
    BY <1>1, WorkerFrame
  <1>3. pending # None /\ current = Candidate /\ previous \notin {None, Candidate}
    BY <1>2 DEF AltSafe, HostSafe, WorkerSafe
  <1>4. Candidate' = Candidate /\ HostOp(pending) /\ RolloutShape
    BY <1>1, <1>2, <1>3, PendingIs DEF Candidate, Version
  <1>5. /\ LogSafe'
        /\ \A k \in DOMAIN log' : \/ log'[k].op = pending /\ log'[k].success = TRUE
                                  \/ \E j \in DOMAIN log : log'[k] = log[j] /\ log[j].op # pending
    BY <1>1, <1>2, <1>3, <1>4, LoggedSafe DEF AltSafe, HostSafe
  <1>6. FileSafe'
    BY <1>1, <1>2 DEF AltSafe, HostSafe, FileSafe, HostOp
  <1>7. SelectionSafe'
    BY <1>1, <1>2 DEF AltSafe, HostSafe, SelectionSafe, HostOp, Version, Target
  <1>8. WorkerSafe'
    BY <1>1, <1>2, <1>3, <1>4, <1>5 DEF WorkerSafe, WorkerPcs
  <1>9. FailureSafe'
    BY <1>1, <1>2, <1>5 DEF AltSafe, HostSafe, FailureSafe, UndoneIsUndone, Target
  <1> QED BY <1>2, <1>5, <1>6, <1>7, <1>8, <1>9 DEF AltSafe, HostSafe

LEMMA AppendFailureSafe ==
    ASSUME AltSafe, AppendFailure
    PROVE  AltSafe'
  <1>1. /\ FileStep("fail", "drop")
        /\ log' = Logged([op |-> pending, version |-> Candidate, success |-> FALSE])
        /\ current' = current /\ selector' = selector /\ previous' = previous /\ releases' = releases
        /\ pending' = pending /\ request' = request /\ marker' = marker /\ blamed' = blamed
    BY DEF AppendFailure, rootVars
  <1>2. /\ ServerSafe' /\ JournalSafe' /\ AgentSafe' /\ worker = "fail" /\ worker' = "drop"
        /\ rollouts' = rollouts /\ faults' = faults /\ Operations' = Operations
    BY <1>1, WorkerFrame
  <1>3. pending # None /\ (current = Candidate => pending \in blamed)
    BY <1>2 DEF AltSafe, HostSafe, WorkerSafe, FailureSafe
  <1>4. Candidate' = Candidate /\ HostOp(pending) /\ RolloutShape
    BY <1>1, <1>2, <1>3, PendingIs DEF Candidate, Version
  <1>5. /\ LogSafe'
        /\ \A k \in DOMAIN log' : \/ log'[k].op = pending /\ log'[k].success = FALSE
                                  \/ \E j \in DOMAIN log : log'[k] = log[j] /\ log[j].op # pending
    BY <1>1, <1>2, <1>3, <1>4, LoggedSafe DEF AltSafe, HostSafe
  <1>6. FileSafe'
    BY <1>1, <1>2 DEF AltSafe, HostSafe, FileSafe, HostOp
  <1>7. SelectionSafe'
    BY <1>1, <1>2 DEF AltSafe, HostSafe, SelectionSafe, HostOp, Version, Target
  <1>8. WorkerSafe'
    BY <1>1, <1>2, <1>3 DEF WorkerSafe, WorkerPcs
  <1>9. FailureSafe'
    BY <1>1, <1>2, <1>3, <1>4, <1>5 DEF AltSafe, HostSafe, FailureSafe, UndoneIsUndone, Target
  <1> QED BY <1>2, <1>5, <1>6, <1>7, <1>8, <1>9 DEF AltSafe, HostSafe

(* The request goes: its operation is recorded as a success, or is not the  *)
(* one that selected the release.                                           *)
LEMMA UnlinkPendingSafe ==
    ASSUME AltSafe, UnlinkPending
    PROVE  AltSafe'
  <1>1. PICK from \in {"unlink", "drop", "refuse"} : FileStep(from, "restore")
    BY DEF UnlinkPending
  <1>2. /\ current' = current /\ selector' = selector /\ previous' = previous /\ releases' = releases
        /\ pending' = None /\ request' = request /\ marker' = marker /\ log' = log /\ blamed' = blamed
    BY DEF UnlinkPending, rootVars
  <1>3. /\ ServerSafe' /\ JournalSafe' /\ AgentSafe' /\ worker = from /\ worker' = "restore"
        /\ rollouts' = rollouts /\ faults' = faults /\ Operations' = Operations
    BY <1>1, WorkerFrame
  <1>4. pending # None
    BY <1>3 DEF AltSafe, HostSafe, WorkerSafe
  <1>5. FileSafe' /\ LogSafe'
    BY <1>2, <1>3, LogStands DEF AltSafe, HostSafe, FileSafe
  <1>6. SelectionSafe'
    BY <1>2, <1>3, <1>4 DEF AltSafe, HostSafe, SelectionSafe, HostOp, Version, Target
  <1>7. WorkerSafe'
    BY <1>3 DEF WorkerSafe, WorkerPcs
  <1>8. ASSUME NEW i \in DOMAIN log, ~log[i].success, selector = log[i].op
        PROVE  selector \in blamed
    <2> SUFFICES ASSUME pending = selector PROVE selector \in blamed
      BY <1>8 DEF AltSafe, HostSafe, FailureSafe
    <2>1. CASE worker = "unlink"
      BY <1>8, <2>1 DEF AltSafe, HostSafe, WorkerSafe
    <2>2. CASE worker = "drop"
      BY <1>4, <2>2 DEF AltSafe, HostSafe, FailureSafe, SelectionSafe, Candidate
    <2>3. CASE worker = "refuse"
      <3>1. current = Candidate /\ previous \in {None, Candidate}
        BY <2>3 DEF AltSafe, HostSafe, WorkerSafe
      <3>2. previous \in releases \ {current} /\ releases \subseteq Versions
        BY <1>4 DEF AltSafe, HostSafe, SelectionSafe, FileSafe
      <3> QED BY <3>1, <3>2, NoneNoVersion
    <2> QED BY <1>3, <2>1, <2>2, <2>3
  <1>9. UndoneIsUndone => UndoneIsUndone'
    <2>1. \A op \in Operations : op # None
      BY OperationNotNone DEF AltSafe, ServerSafe
    <2> QED BY <1>2, <1>3, <2>1 DEF UndoneIsUndone, Target
  <1>10. FailureSafe'
    BY <1>2, <1>3, <1>8, <1>9 DEF AltSafe, HostSafe, FailureSafe
  <1> QED BY <1>3, <1>5, <1>6, <1>7, <1>10 DEF AltSafe, HostSafe

LEMMA RollbackSafe ==
    ASSUME AltSafe, apply_alt_rollback
    PROVE  AltSafe'
  <1> DEFINE to == IF Authorized THEN "mark" ELSE "unlink_request"
  <1>1. /\ FileStep("rollback", to) /\ previous' = previous /\ releases' = releases
        /\ pending' = pending /\ request' = request /\ marker' = marker /\ log' = log /\ blamed' = blamed
    BY DEF apply_alt_rollback, updateFiles
  <1>2. /\ ServerSafe' /\ JournalSafe' /\ AgentSafe' /\ worker = "rollback" /\ worker' = to
        /\ rollouts' = rollouts /\ faults' = faults /\ Operations' = Operations
    BY <1>1, WorkerFrame
  <1>3. request # None
    BY <1>2 DEF AltSafe, HostSafe, WorkerSafe
  <1>4. CASE Authorized
    <2>1. current' = previous /\ selector' = None /\ previous # None /\ worker' = "mark"
      BY <1>2, <1>4 DEF apply_alt_rollback, Authorized
    <2>2. FileSafe' /\ LogSafe'
      BY <1>1, <1>2, <2>1, LogStands DEF AltSafe, HostSafe, FileSafe, HostOp
    <2>3. SelectionSafe'
      BY <1>1, <1>2, <2>1 DEF AltSafe, HostSafe, SelectionSafe
    <2>4. WorkerSafe'
      BY <1>1, <1>2, <1>3, <2>1 DEF WorkerSafe, WorkerPcs
    <2>5. \A op \in Operations : op # None
      BY OperationNotNone DEF AltSafe, ServerSafe
    <2>6. \A i \in DOMAIN log : log[i].op # None
      BY <2>5 DEF AltSafe, HostSafe, LogSafe
    <2>7. FailureSafe'
      BY <1>1, <1>2, <2>1, <2>5, <2>6 DEF AltSafe, HostSafe, FailureSafe, UndoneIsUndone, Target
    <2> QED BY <1>2, <2>2, <2>3, <2>4, <2>7 DEF AltSafe, HostSafe
  <1>5. CASE ~Authorized
    <2>1. current' = current /\ selector' = selector /\ worker' = "unlink_request" /\ ~Authorized'
      BY <1>1, <1>2, <1>5 DEF apply_alt_rollback, Authorized
    <2>2. FileSafe' /\ LogSafe'
      BY <1>1, <1>2, <2>1, LogStands DEF AltSafe, HostSafe, FileSafe, HostOp
    <2>3. SelectionSafe'
      BY <1>1, <1>2, <2>1 DEF AltSafe, HostSafe, SelectionSafe, HostOp, Version, Target
    <2>4. WorkerSafe'
      BY <1>1, <1>2, <1>3, <2>1 DEF WorkerSafe, WorkerPcs
    <2>5. FailureSafe'
      BY <1>1, <1>2, <2>1 DEF AltSafe, HostSafe, FailureSafe, UndoneIsUndone, Target
    <2> QED BY <1>2, <2>2, <2>3, <2>4, <2>5 DEF AltSafe, HostSafe
  <1> QED BY <1>4, <1>5

(* What is left of a rollback touches the way back only when no operation   *)
(* selected the release.                                                    *)
LEMMA RollbackEnds ==
    ASSUME AltSafe, NEW from \in {"mark", "unlink_request", "forget_previous"},
           NEW to \in {"unlink_request", "forget_previous", "restore"}, FileStep(from, to),
           UNCHANGED <<current, releases, selector, pending, log, blamed>>,
           \/ UNCHANGED <<previous, request>> /\ marker'.crashed # marker'.rollback
           \/ UNCHANGED <<previous, marker>> /\ request' = None
           \/ UNCHANGED <<request, marker>> /\ previous' = None /\ selector = None,
           to = "unlink_request" => request' # None,
           to # "restore" => selector = None
    PROVE  AltSafe'
  <1>1. /\ ServerSafe' /\ JournalSafe' /\ AgentSafe' /\ worker' = to
        /\ rollouts' = rollouts /\ faults' = faults /\ Operations' = Operations
    BY WorkerFrame
  <1>2. FileSafe' /\ LogSafe'
    BY <1>1, LogStands DEF AltSafe, HostSafe, FileSafe, HostOp
  <1>3. SelectionSafe'
    BY <1>1 DEF AltSafe, HostSafe, SelectionSafe, HostOp, Version, Target
  <1>4. WorkerSafe'
    BY <1>1 DEF WorkerSafe, WorkerPcs
  <1>5. FailureSafe'
    BY <1>1 DEF AltSafe, HostSafe, FailureSafe, UndoneIsUndone, Target
  <1> QED BY <1>1, <1>2, <1>3, <1>4, <1>5 DEF AltSafe, HostSafe

LEMMA WriteMarkerSafe ==
    ASSUME AltSafe, WriteMarker
    PROVE  AltSafe'
  <1>1. /\ FileStep("mark", "unlink_request")
        /\ UNCHANGED <<current, releases, selector, pending, log, blamed, previous, request>>
        /\ marker' = [reason |-> "startup_crash_rollback",
                      crashed |-> request.crashed, rollback |-> request.rollback]
    BY DEF WriteMarker, rootVars
  <1>2. worker = "mark" /\ request # None /\ selector = None
    BY <1>1, WorkerFrame DEF AltSafe, HostSafe, WorkerSafe
  <1> QED BY <1>1, <1>2, RollbackEnds DEF AltSafe, HostSafe, FileSafe

LEMMA UnlinkRequestSafe ==
    ASSUME AltSafe, UnlinkRequest
    PROVE  AltSafe'
  <1> DEFINE to == IF Authorized THEN "forget_previous" ELSE "restore"
  <1>1. /\ FileStep("unlink_request", to) /\ request' = None
        /\ UNCHANGED <<current, releases, selector, pending, log, blamed, previous, marker>>
    BY DEF UnlinkRequest, rootVars
  <1>2. worker = "unlink_request" /\ (Authorized => selector = None)
    BY <1>1, WorkerFrame DEF AltSafe, HostSafe, WorkerSafe
  <1>3. to \in {"forget_previous", "restore"} /\ (to # "restore" => selector = None)
    BY <1>2
  <1> HIDE DEF to
  <1> QED BY <1>1, <1>3, RollbackEnds

LEMMA UnlinkPreviousSafe ==
    ASSUME AltSafe, UnlinkPrevious
    PROVE  AltSafe'
  <1>1. /\ FileStep("forget_previous", "restore") /\ previous' = None
        /\ UNCHANGED <<current, releases, selector, pending, log, blamed, request, marker>>
    BY DEF UnlinkPrevious, updateFiles
  <1>2. selector = None
    BY <1>1, WorkerFrame DEF AltSafe, HostSafe, WorkerSafe
  <1> QED BY <1>1, <1>2, RollbackEnds

-----------------------------------------------------------------------------

LEMMA AltInitSafe ==
    ASSUME Init
    PROVE  AltSafe /\ KeptSafe
  <1>1. /\ builds = Builds /\ rollouts = << >> /\ reports = {}
        /\ handoffs = {} /\ acked = {} /\ journal = {}
    BY DEF Init, AdapterInit
  <1>2. DOMAIN rollouts = {} /\ rollouts \in Seq(Rollout)
    BY <1>1
  <1>3. Operations = {}
    BY <1>2 DEF Operations
  <1>4. ServerSafe /\ JournalSafe
    BY <1>1, <1>2, <1>3 DEF ServerSafe, JournalSafe, RolloutShape, SoleOwner
  <1>5. /\ agent = [pc |-> "start", op |-> None, version |-> Installed, crashes |-> 0]
        /\ worker = "idle" /\ current = Installed /\ previous = None /\ releases = {Installed}
        /\ pending = None /\ request = None /\ marker = None /\ log = << >>
        /\ faults = 0 /\ selector = None
    BY DEF Init
  <1>6. FileSafe
    BY <1>5, AltAssumption DEF FileSafe, Versions
  <1>7. LogSafe
    BY <1>5 DEF LogSafe
  <1>8. SelectionSafe /\ WorkerSafe
    BY <1>5 DEF SelectionSafe, WorkerSafe, WorkerPcs
  <1>9. FailureSafe
    BY <1>3, <1>5 DEF FailureSafe, UndoneIsUndone
  <1>10. 0 \in 0..RetryLimit - 1
    BY AltAssumption
  <1>11. agent \in AgentShape
    BY <1>5, <1>10 DEF AgentShape, Versions
  <1>12. AgentSafe
    BY <1>5, <1>11 DEF AgentSafe, Running
  <1> QED
    BY <1>4, <1>6, <1>7, <1>8, <1>9, <1>12 DEF AltSafe, HostSafe, KeptSafe, Init

LEMMA AltStutterSafe ==
    ASSUME AltSafe, UNCHANGED vars
    PROVE  AltSafe'
  <1>1. /\ UNCHANGED <<serverVars, worker, rootVars, updateFiles, faults>> /\ UNCHANGED journals
        /\ UNCHANGED <<agent, worker, current, pending, selector, rollouts, log, marker, hidden>>
    BY DEF vars, serverVars, rootVars, updateFiles, journals
  <1>2. ServerSafe' /\ JournalSafe' /\ HostSafe'
    BY <1>1, ServiceStands, HostStands
  <1>3. StartupOutcome' = StartupOutcome
    BY <1>1, OutcomeKept
  <1>4. AgentSafe'
    BY <1>1, <1>3 DEF AltSafe, AgentSafe, HostOp, Operations, Version, Target
  <1> QED BY <1>2, <1>4 DEF AltSafe

LEMMA AltNextSafe ==
    ASSUME AltSafe, [Next]_vars
    PROVE  AltSafe'
  <1>1. CASE Agent
    BY <1>1, LaunchSafe, ReportStartupSafe, SendReportSafe, RunOnceSafe, DownloadSafe,
       WritePendingSafe, HandoffSafe, AcknowledgeSafe, PollAgainSafe, MarkSafe DEF Agent
  <1>2. CASE Worker
    BY <1>2, TriggerSafe, ApplySafe, ApplyFailsSafe, WritePreviousSafe, WriteCurrentSafe,
       AppendSuccessSafe, AppendFailureSafe, UnlinkPendingSafe, RollbackSafe, WriteMarkerSafe,
       UnlinkRequestSafe, UnlinkPreviousSafe, RestoreOwnerSafe, StartServiceSafe DEF Worker
  <1> QED
    BY <1>1, <1>2, AdminSafe, CrashSafe, LoadFailsSafe, DeferredSafe, HostCrashSafe, AltStutterSafe DEF Next

LEMMA KeptNext ==
    ASSUME AltSafe, KeptSafe, [Next]_vars
    PROVE  KeptSafe'
  <1>1. pending # None => pending \in Ids
    BY OperationParts DEF AltSafe, ServerSafe, HostSafe, FileSafe, HostOp, Ids, RolloutShape
  <1>2. Entries \subseteq Ids
    BY OperationParts DEF Entries, AltSafe, ServerSafe, HostSafe, LogSafe, Ids, RolloutShape
  <1>3. CASE UNCHANGED <<hidden, blamed, lost>>
    BY <1>3 DEF KeptSafe
  <1>4. CASE ApplyFails \/ LoadFails
    <2>1. worker = "update"
      BY <1>4 DEF ApplyFails, LoadFails, FileStep, Step
    <2>2. pending \in Ids
      BY <1>1, <2>1 DEF AltSafe, HostSafe, WorkerSafe
    <2> QED BY <1>4, <2>2 DEF ApplyFails, LoadFails, Blamed, KeptSafe
  <1>5. CASE AppendSuccess \/ AppendFailure
    BY <1>2, <1>5 DEF AppendSuccess, AppendFailure, Lost, KeptSafe
  <1>6. CASE WriteMarker \/ restore_update_state_owner \/ StartService
    BY <1>6 DEF WriteMarker, restore_update_state_owner, StartService, KeptSafe
  <1>7. CASE HostCrash
    BY <1>2, <1>7 DEF HostCrash, KeptSafe
  <1>8. CASE Agent
    BY <1>3, <1>8 DEF Agent, Launch, report_startup_outcome, SendReport, run_once, Download,
       WritePending, record_scheduled_handoff, Acknowledge, PollAgain, write_failed_launch_marker,
       updateFiles
  <1>9. CASE Trigger \/ apply_alt_update \/ WritePrevious \/ WriteCurrent \/ UnlinkPending
    BY <1>3, <1>9 DEF Trigger, apply_alt_update, WritePrevious, WriteCurrent, UnlinkPending, updateFiles
  <1>10. CASE apply_alt_rollback \/ UnlinkRequest \/ UnlinkPrevious
    BY <1>3, <1>10 DEF apply_alt_rollback, UnlinkRequest, UnlinkPrevious, updateFiles
  <1>11. CASE Admin \/ Crash \/ Deferred
    BY <1>3, <1>11 DEF Admin, Crash, Deferred, updateFiles
  <1>12. CASE UNCHANGED vars
    BY <1>3, <1>12 DEF vars
  <1> QED
    BY <1>4, <1>5, <1>6, <1>7, <1>8, <1>9, <1>10, <1>11, <1>12 DEF Next, Worker

LEMMA AltAlways == Spec => [](AltSafe /\ KeptSafe)
  <1>1. Init => AltSafe /\ KeptSafe
    BY AltInitSafe
  <1>2. AltSafe /\ KeptSafe /\ [Next]_vars => (AltSafe /\ KeptSafe)'
    BY AltNextSafe, KeptNext
  <1> QED
    BY <1>1, <1>2, PTL DEF Spec

LEMMA AltTypes ==
    ASSUME AltSafe, KeptSafe
    PROVE  TypeOK
  <1>1. \A r \in DOMAIN rollouts :
           /\ rollouts[r] \in Rollout
           /\ DOMAIN rollouts[r].targets \subseteq Devices
           /\ \A d \in DOMAIN rollouts[r].targets : rollouts[r].targets[d] \in Open \union Terminal
    BY Fields DEF AltSafe, ServerSafe, Rollout, Targets, States
  <1>2. ServerTypeOK
    BY <1>1 DEF AltSafe, ServerSafe, RolloutShape, ServerTypeOK, Rollout, Modes, Statuses
  <1>3. AdapterTypeOK
    BY <1>2 DEF AdapterTypeOK, AltSafe, JournalSafe
  <1>4. /\ agent.pc \in Running \union {"off", "start", "mark"}
        /\ agent.version \in Versions /\ agent.crashes \in 0..RetryLimit - 1
        /\ agent.op \in Operations \union {None}
    BY DEF AltSafe, AgentSafe, AgentShape, HostOp
  <1>5. \A i \in DOMAIN log : log[i].op \in Operations /\ log[i].version \in Versions
    BY OperationNotNone DEF AltSafe, ServerSafe, HostSafe, LogSafe
  <1>6. /\ current \in Versions /\ previous \in Versions \union {None} /\ releases \subseteq Versions
        /\ pending \in Operations \union {None}
        /\ request # None => request.crashed \in Versions /\ request.rollback \in Versions
        /\ faults \in 0..MaxFaults /\ worker \in WorkerPcs
    BY DEF AltSafe, HostSafe, FileSafe, WorkerSafe, HostOp
  <1>7. hidden \subseteq {"log", "marker"} /\ blamed \union lost \subseteq Nat \X Devices
    BY DEF KeptSafe, Ids
  <1> QED BY <1>3, <1>4, <1>5, <1>6, <1>7 DEF TypeOK, WorkerPcs

(* Types, and: the agent that runs on an ALT host is the selected, complete *)
(* release, and until the server knows the outcome of the update that       *)
(* selected it another complete release is kept to go back to, wherever the *)
(* agent died or the power failed (previous.json before current.json,       *)
(* alt_update_installer.py:115), for any number of rollouts and faults.     *)
THEOREM WayBackAlways == Spec => []WayBack
  <1>1. AltSafe /\ KeptSafe => WayBack
    <2> SUFFICES ASSUME AltSafe, KeptSafe PROVE WayBack
      OBVIOUS
    <2>1. agent.pc \in Running \union {"mark"} => agent.version = current
      BY DEF AltSafe, AgentSafe
    <2>2. /\ current \in releases
          /\ (selector # None /\ Target(selector) \in Open) => previous \in releases \ {current}
      BY DEF AltSafe, HostSafe, SelectionSafe
    <2> QED
      BY <2>1, <2>2, AltTypes DEF WayBack
  <1> QED
    BY <1>1, AltAlways, PTL

(* An operation the server records as failed or rolled back has no request  *)
(* left on the host and is not the one that selected the release, unless it *)
(* was given up in a replay when it was already selected (record_report,    *)
(* updates/service.py, against the files and the error handler of           *)
(* alt_update_installer.py:142), for any number of rollouts and faults.     *)
THEOREM UndoneAlways == Spec => []UndoneIsUndone
  <1>1. AltSafe => UndoneIsUndone
    BY DEF AltSafe, HostSafe, FailureSafe
  <1> QED
    BY <1>1, AltAlways, PTL
=============================================================================
