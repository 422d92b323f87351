---------------------------- MODULE EndpointPolicy ----------------------------
(***************************************************************************)
(* Delivery of the Endpoint Policy to one device: immutable versions and   *)
(* assignments (endpoint_server/policy/service.py), what the server        *)
(* believes of the device (policy/delivery.py), the connection that        *)
(* carries deliveries and acknowledgements (gateway/ws_routes.py,          *)
(* pc_agent/runtime/lifecycle.py) and the agent that applies, caches and   *)
(* restores a policy (pc_agent/policy).                                    *)
(*                                                                         *)
(* A connection is two FIFO queues.  When the agent loses it, the frames   *)
(* it had sent may still be read by the handler of that connection, also   *)
(* after the next one is up ("late").  Times are logical: every            *)
(* application of a policy has a time of its own, and how long anything    *)
(* took is a choice.                                                       *)
(***************************************************************************)
EXTENDS Integers, Sequences, FiniteSets, Functions

CONSTANTS
    MaxVersion,   \* bound: versions of the policy definition
    MaxChanges,   \* bound: assignments made by administrators
    MaxFaults,    \* bound: lost connections and stopped agents
    MaxQueue,     \* bound: a timer of the agent sends when fewer frames are on their way
    MaxTime,      \* bound of the logical clock
    Feature,      \* whether hellos announce the policy feature
    AckError,     \* how applying fails: sensors not ready, or sensor or cache failure
    None

Version == 1 .. MaxVersion
Time == 0 .. MaxTime
Application == [v : Version, at : Time]

ASSUME PolicyConstants ==
    /\ MaxVersion \in Nat \ {0} /\ MaxChanges \in Nat /\ MaxFaults \in Nat
    /\ MaxQueue \in Nat \ {0} /\ MaxTime \in Nat
    /\ None \notin Nat /\ None \notin Application
    /\ Feature \subseteq BOOLEAN
    /\ AckError \subseteq {"SENSOR_NOT_READY", "APPLY_FAILED"}

RowStatus == {"PENDING", "APPLIED", "ERROR", "STALE", "UNSUPPORTED"}

VARIABLES
    latest,        \* newest version of the definition
    assigned,      \* version assigned by default and to the device
    row,           \* PolicyDeviceState; "by" records whose frame answered last
    applications,  \* PolicyApplication rows of the device
    up,            \* the agent has a connection
    supports,      \* its hello announced the policy feature
    toAgent, toServer,
    late,          \* frames of an earlier connection the server may still read
    running,       \* the agent process runs
    current,       \* _current_policy, with the time it was applied
    cache,         \* AppliedPolicyCache
    ready,         \* _policy_ready of the gated runtimes
    now,
    changes, faults

policyVars == <<latest, assigned, row, applications, up, supports, toAgent, toServer, late,
                running, current, cache, ready, now, changes, faults>>
serverVars == <<latest, assigned, applications>>
agentVars == <<running, current, cache, ready>>

\* Device assignment first, then the default.
resolve_effective_policy ==
    IF assigned.device # None THEN assigned.device ELSE assigned.default

Room == Len(toServer) + Len(toAgent) < MaxQueue
Tick == now < MaxTime /\ now' = now + 1

PolicyInit ==
    /\ latest = 0
    /\ assigned = [default |-> None, device |-> None]
    /\ row = None
    /\ applications = {}
    /\ up = FALSE /\ supports = FALSE
    /\ toAgent = <<>> /\ toServer = <<>> /\ late = <<>>
    /\ running = FALSE
    /\ current = None /\ cache = None
    /\ ready = FALSE
    /\ now = 0 /\ changes = 0 /\ faults = 0

-----------------------------------------------------------------------------
\* Administrators

\* The next version, under the lock of the definition row; any other number is refused.
create_policy_version ==
    /\ latest < MaxVersion
    /\ latest' = latest + 1
    /\ UNCHANGED <<assigned, row, applications, up, supports, toAgent, toServer, late,
                   agentVars, now, changes, faults>>

assign_policy(scope) ==
    /\ changes < MaxChanges
    /\ \E v \in 1 .. latest : assigned' = [assigned EXCEPT ![scope] = v]
    /\ changes' = changes + 1
    /\ UNCHANGED <<latest, row, applications, up, supports, toAgent, toServer, late,
                   agentVars, now, faults>>

-----------------------------------------------------------------------------
\* Server

\* A delivery is due: always on connect, on a heartbeat when the device has not
\* answered for the effective version, or its sensors deserve another attempt.
\* Mutant: an answer for any version will do.
DueForAnyAnswer(changed_only, retry) ==
    /\ resolve_effective_policy # None
    /\ ~(/\ changed_only /\ row # None
         /\ row.status \in {"APPLIED", "ERROR", "UNSUPPORTED"}
         /\ ~retry)
Due(changed_only, retry) ==
    /\ resolve_effective_policy # None
    /\ ~(/\ changed_only /\ row # None
         /\ row.v = resolve_effective_policy
         /\ row.status \in {"APPLIED", "ERROR", "UNSUPPORTED"}
         /\ ~retry)

RetryReadiness == row # None /\ row.status = "ERROR" /\ row.error = "SENSOR_NOT_READY"

\* prepare_policy_delivery: the frames to send, and the row they leave.  An agent
\* without the feature is recorded as such and gets nothing.
prepare_policy_delivery(changed_only, feature, frames) ==
    \E retry \in {FALSE} \cup {RetryReadiness} :
        IF Due(changed_only, retry)
        THEN /\ row' = [v |-> resolve_effective_policy, error |-> None, by |-> "none",
                        status |-> IF feature THEN "PENDING" ELSE "UNSUPPORTED"]
             /\ frames = IF feature
                         THEN <<[kind |-> "delivery", v |-> resolve_effective_policy]>>
                         ELSE <<>>
        ELSE UNCHANGED row /\ frames = <<>>

\* record_policy_ack refuses an answer for another version than the one on the row.
AckMatches(ack) ==
    row # None /\ ack.v = row.v /\ row.status \in {"PENDING", "APPLIED", "ERROR", "STALE"}

record_policy_ack(ack, by) ==
    /\ row' = IF resolve_effective_policy # row.v
              THEN [row EXCEPT !.status = "STALE", !.error = "SUPERSEDED", !.by = by]
              ELSE [row EXCEPT !.status = IF ack.error = None THEN "APPLIED" ELSE "ERROR",
                               !.error = ack.error, !.by = by]
    /\ applications' = IF ack.error = None
                       THEN applications \cup {[v |-> ack.v, at |-> ack.at]}
                       ELSE applications

\* connect_agent: a new handler closes the old connection, greets the agent and
\* delivers the policy.  Of the old handler only the frame in its hands is left.  The
\* gated runtimes of the agent wait for its acknowledgement.
Connect ==
    /\ running /\ ~up
    /\ \E feature \in Feature, frames \in {<<>>} \cup {<<[kind |-> "delivery", v |-> v]>> : v \in Version} :
         /\ prepare_policy_delivery(FALSE, feature, frames)
         /\ supports' = feature
         /\ toAgent' = frames
    /\ up' = TRUE /\ toServer' = <<>>
    /\ late' = SubSeq(late, 1, IF late = <<>> THEN 0 ELSE 1)
    /\ ready' = FALSE
    /\ UNCHANGED <<serverVars, running, current, cache, now, changes, faults>>

\* The process ends: its memory and its side of the connection are gone, and what it
\* had sent is left to the handler of that connection.
StopAgent ==
    /\ running' = FALSE /\ current' = None /\ ready' = FALSE
    /\ up' = FALSE /\ toAgent' = <<>> /\ toServer' = <<>>
    /\ UNCHANGED cache

\* A heartbeat is answered by a delivery when one is due.
ServerHeartbeat ==
    /\ up /\ toServer # <<>> /\ Head(toServer).kind = "heartbeat"
    /\ \E frames \in {<<>>} \cup {<<[kind |-> "delivery", v |-> v]>> : v \in Version} :
         /\ prepare_policy_delivery(TRUE, supports, frames)
         /\ toAgent' = toAgent \o frames
    /\ toServer' = Tail(toServer)
    /\ UNCHANGED <<serverVars, up, supports, late, agentVars, now, changes, faults>>

ServerAck ==
    /\ up /\ toServer # <<>> /\ Head(toServer).kind = "ack"
    /\ AckMatches(Head(toServer))
    /\ record_policy_ack(Head(toServer), "live")
    /\ toServer' = Tail(toServer)
    /\ UNCHANGED <<latest, assigned, up, supports, toAgent, late, agentVars, now, changes, faults>>

\* The handler closes the connection as "state_rejected"; the error is not retryable,
\* and the agent process ends with it.
ServerAckRejected ==
    /\ up /\ toServer # <<>> /\ Head(toServer).kind = "ack"
    /\ ~AckMatches(Head(toServer))
    /\ StopAgent
    /\ UNCHANGED <<serverVars, row, supports, late, now, changes, faults>>

\* The handler of an earlier connection reads on: an acknowledgement is recorded like
\* any other, a heartbeat prepares a delivery that cannot be sent, unless a new
\* connection has closed its session.  Or it notices that the connection is gone.
LateFrame ==
    /\ late # <<>>
    /\ LET frame == Head(late)
       IN  \/ /\ frame.kind = "ack" /\ AckMatches(frame)
              /\ record_policy_ack(frame, "late")
              /\ late' = Tail(late)
           \/ /\ frame.kind = "heartbeat" /\ ~up
              /\ \E frames \in {<<>>} \cup {<<[kind |-> "delivery", v |-> v]>> : v \in Version} :
                   /\ prepare_policy_delivery(TRUE, supports, frames)
                   /\ late' = IF frames = <<>> THEN Tail(late) ELSE <<>>
              /\ UNCHANGED applications
           \/ /\ late' = <<>>
              /\ UNCHANGED <<row, applications>>
    /\ UNCHANGED <<latest, assigned, up, supports, toAgent, toServer, agentVars, now, changes, faults>>

-----------------------------------------------------------------------------
\* Agent

\* run and restore_offline: the cached policy is applied again, with no
\* acknowledgement, if its sensors are ready.
StartAgent ==
    /\ ~running
    /\ running' = TRUE
    /\ current' \in {None, cache}
    /\ UNCHANGED <<serverVars, row, up, supports, toAgent, toServer, late, cache, ready, now,
                   changes, faults>>

Heartbeat ==
    /\ up /\ Room
    /\ toServer' = Append(toServer, [kind |-> "heartbeat"])
    /\ UNCHANGED <<serverVars, row, up, supports, toAgent, late, agentVars, now, changes, faults>>

\* apply_delivery: sensors, then the cache, then the current policy.
\* A sensor that reads the old policy after the time was taken is one that had read it
\* before this step.
\* Mutant: the acknowledgement does not wait for the cache.
apply_delivery_early(v, error) ==
    /\ IF error = None
       THEN /\ cache' = [v |-> v, at |-> now']
            /\ current' = cache'
       ELSE UNCHANGED <<cache, current>>
    /\ toServer' = Append(toServer, [kind |-> "ack", v |-> v, at |-> now',
                                     error |-> IF error = "APPLY_FAILED" THEN None ELSE error])
apply_delivery(v, error) ==
    /\ IF error = None
       THEN /\ cache' = [v |-> v, at |-> now']
            /\ current' = cache'
       ELSE UNCHANGED <<cache, current>>
    /\ toServer' = Append(toServer, [kind |-> "ack", v |-> v, at |-> now', error |-> error])

\* The receive loop applies a delivery, answers it and opens the gated runtimes.
AgentDelivery ==
    /\ up /\ toAgent # <<>> /\ Head(toAgent).kind = "delivery"
    /\ \E error \in {None} \cup AckError :
         /\ IF error = None THEN Tick ELSE UNCHANGED now
         /\ apply_delivery(Head(toAgent).v, error)
    /\ toAgent' = Tail(toAgent)
    /\ ready' = TRUE
    /\ UNCHANGED <<serverVars, row, up, supports, late, running, changes, faults>>

\* The agent loses the connection; it stays up and connects again.
Disconnect ==
    /\ up /\ faults < MaxFaults
    /\ faults' = faults + 1
    /\ up' = FALSE /\ toAgent' = <<>> /\ toServer' = <<>> /\ late' = toServer
    /\ UNCHANGED <<serverVars, row, supports, agentVars, now, changes>>

AgentStops ==
    /\ running /\ faults < MaxFaults
    /\ faults' = faults + 1
    /\ StopAgent
    /\ late' = IF up THEN toServer ELSE late
    /\ UNCHANGED <<serverVars, row, supports, now, changes>>

AdminNext == create_policy_version \/ \E scope \in {"default", "device"} : assign_policy(scope)
ServerNext == ServerHeartbeat \/ ServerAck \/ LateFrame

-----------------------------------------------------------------------------
\* Properties

Frames == UNION {Range(toAgent), Range(toServer)}

\* Server and agent agree when nothing is on its way: a device whose connection has
\* reported APPLIED (delivery.py) runs exactly that version (runtime.py
\* current_policy), whatever was reassigned, delivered twice or refused by a sensor.
QuietMeansCurrent ==
    /\ up /\ supports /\ row # None /\ row.status = "APPLIED" /\ row.by = "live"
    /\ \A f \in Frames : f.kind \notin {"delivery", "ack"}
    => current # None /\ current.v = row.v

\* The server keeps learning the answer for the version in force: again and again the
\* device state is for the effective policy and answered (prepare_policy_delivery on
\* connect and on heartbeats, record_policy_ack).
Answered ==
    resolve_effective_policy # None
    => row # None /\ row.v = resolve_effective_policy
       /\ row.status \in {"APPLIED", "ERROR", "UNSUPPORTED"}
PolicyAnswered == []<>Answered
=============================================================================
