--------------------------- MODULE SecurityTelemetry ---------------------------
(***************************************************************************)
(* Security events of one device, on the connection of EndpointPolicy: the *)
(* sensors stamp an event with the current policy, the spool keeps it      *)
(* (pc_agent/security/spool.py), the runtime sends one batch at a time and *)
(* repeats it until it is answered (security/runtime.py), and the server   *)
(* checks it against the policy applied when it occurred and stores it     *)
(* (endpoint_server/security/ingestion.py, retention.py).                  *)
(*                                                                         *)
(* An event is its number, which is also the sequence of its row in the    *)
(* spool: the oldest row is the smallest number, and batches and answers,  *)
(* which keep the order of the spool, are sets.  The fields of an event    *)
(* are in "events".  "horizon" is the time 24 hours ago, at the agent and  *)
(* at the server.  The clock of the agent may be more than five minutes    *)
(* ahead of the server's when it dates an event.                           *)
(***************************************************************************)
EXTENDS EndpointPolicy

CONSTANTS
    Audited,           \* versions of the policy with the channel in audit mode
    TelemetryResults,  \* whether hellos announce the telemetry-results feature
    MaxEvents,         \* bound: events the sensors report
    MayBeDelayed,      \* bound: events that may have happened before they are recorded
    MayBeAhead,        \* bound: events the clock of the agent may date ahead
    MayBeLarge,        \* bound: events that may exceed _max_payload_bytes
    MaxSpool,          \* _max_events
    BatchSize,         \* events of one batch
    MaxSends           \* bound: sends on one connection

ASSUME TelemetryConstants ==
    /\ Audited \subseteq Version /\ TelemetryResults \subseteq BOOLEAN
    /\ MayBeDelayed \subseteq Nat /\ MayBeAhead \subseteq Nat /\ MayBeLarge \subseteq Nat
    /\ MaxEvents \in Nat /\ MaxSpool \in Nat \ {0}
    /\ BatchSize \in Nat \ {0} /\ MaxSends \in Nat

VARIABLES
    seen,       \* the policy a sensor thread has read for the event in its hands
    events,     \* all events reported: version, time, application they were seen under,
                \* whether it was in force at that time, and the state of the clock
    spool,      \* rows of security_event_spool
    stats,      \* dropped_overflow, dropped_expired, rejected_permanent
    inflight,   \* the batch waiting for its answer, its sends and what is left of it
    batches,    \* batch identifiers used
    sends,      \* frames of events sent on this connection
    results,    \* TELEMETRY_RESULTS_FEATURE of this connection
    stored,     \* SecurityEvent rows
    forgotten,  \* events whose rows expired
    horizon

telemetryVars == <<seen, events, spool, stats, inflight, batches, sends, results, stored, forgotten, horizon>>
agentSpool == <<events, spool, stats, batches, horizon>>
connection == <<sends, results>>
vars == <<policyVars, telemetryVars>>

Event == 1 .. Len(events)
Old(e) == events[e].at < horizon

TypeOK ==
    /\ latest \in 0 .. MaxVersion
    /\ assigned \in [default : Version \cup {None}, device : Version \cup {None}]
    /\ row = None \/ row \in [v : Version, status : RowStatus, by : {"none", "live", "late"},
                              error : {None, "SUPERSEDED"} \cup AckError]
    /\ applications \subseteq Application
    /\ current \in {None} \cup Application /\ cache \in {None} \cup Application
    /\ {up, supports, running, ready, results} \subseteq BOOLEAN
    /\ seen \in {None} \cup Application
    /\ events \in Seq([v : Version, at : Time, under : Application, steady : BOOLEAN, ahead : BOOLEAN])
    /\ spool \subseteq Event /\ Cardinality(spool) <= MaxSpool
    /\ stats \in [overflow : Nat, expired : Nat, rejected : Nat]
    /\ inflight = None \/ /\ inflight.left \subseteq inflight.events
                          /\ inflight.sent \subseteq 1 .. MaxSends
    /\ stored \subseteq Event /\ forgotten \subseteq Event
    /\ horizon \in Time

Init ==
    /\ PolicyInit
    /\ seen = None /\ events = <<>> /\ spool = {}
    /\ stats = [overflow |-> 0, expired |-> 0, rejected |-> 0]
    /\ inflight = None
    /\ batches = 0 /\ sends = 0 /\ results = FALSE
    /\ stored = {} /\ forgotten = {}
    /\ horizon = 0

-----------------------------------------------------------------------------
\* Spool

\* _expire leaves the rows of the last 24 hours.
Fresh == {e \in spool : ~Old(e)}

\* _trim drops the oldest rows, a batch begins with them.
Trimmed(rows) == {e \in rows : Cardinality({f \in rows : f >= e}) <= MaxSpool}
Oldest(rows) == {e \in rows : Cardinality({f \in rows : f <= e}) <= BatchSize}

\* A sensor thread, or the ingress of the browser, reads current_policy.
ReadPolicy ==
    /\ running /\ seen = None
    /\ Len(events) < MaxEvents /\ now < MaxTime
    /\ current # None /\ current.v \in Audited
    /\ seen' = current
    /\ UNCHANGED <<policyVars, events, spool, stats, inflight, batches, connection, stored, forgotten, horizon>>

\* Only then a sensor reads the clock, and the browser dated the event before: either
\* time may belong to another policy than the one that was read.
Stamped(at, ahead) ==
    [v |-> seen.v, at |-> at, under |-> seen, ahead |-> ahead,
     steady |-> seen = current /\ seen.at <= at]

\* record and enqueue: the transaction expires, inserts and trims; an event that is too
\* old already, or too large, is only counted.
record ==
    /\ running /\ seen # None
    /\ Len(events) < MaxEvents
    /\ Tick
    /\ \E at \in 0 .. now', ahead, large \in BOOLEAN :
         LET e == Len(events) + 1
             expired == at < horizon
             kept == Fresh \cup (IF expired \/ large THEN {} ELSE {e})
         IN  /\ at < now' => e \in MayBeDelayed
             /\ ahead => e \in MayBeAhead
             /\ large => e \in MayBeLarge
             /\ events' = Append(events, Stamped(at, ahead))
             /\ spool' = Trimmed(kept)
             /\ stats' = [stats EXCEPT
                            !.expired = @ + (Cardinality(spool \ Fresh) + IF expired THEN 1 ELSE 0),
                            !.overflow = @ + (Cardinality(kept \ Trimmed(kept))
                                              + IF ~expired /\ large THEN 1 ELSE 0)]
    /\ seen' = None
    /\ UNCHANGED <<latest, assigned, row, applications, up, supports, toAgent, toServer, late,
                   agentVars, changes, faults, inflight, batches, connection, stored, forgotten, horizon>>

\* Time passes: events get older than a day.
Age ==
    /\ \E t \in horizon + 1 .. now : horizon' = t
    /\ UNCHANGED <<policyVars, seen, events, spool, stats, inflight, batches, connection, stored, forgotten>>

Frame(batch, seq) ==
    [kind |-> "batch", id |-> batch.id, events |-> batch.events, seq |-> seq, results |-> results]

\* next_batch and the first send, once the policy of this connection is acknowledged.
SendNext ==
    /\ up /\ ready /\ inflight = None
    /\ Fresh # {}
    /\ sends < MaxSends /\ Room
    /\ spool' = Fresh
    /\ stats' = [stats EXCEPT !.expired = @ + Cardinality(spool \ Fresh)]
    /\ inflight' = [id |-> batches + 1, events |-> Oldest(Fresh), left |-> Oldest(Fresh), sent |-> {sends + 1}]
    /\ toServer' = Append(toServer, Frame(inflight', sends + 1))
    /\ batches' = batches + 1 /\ sends' = sends + 1
    /\ UNCHANGED <<serverVars, row, up, supports, toAgent, late, agentVars, now, changes, faults,
                   seen, events, results, stored, forgotten, horizon>>

\* The answer is overdue: the same batch again.
Resend ==
    /\ up /\ inflight # None
    /\ sends < MaxSends /\ Room
    /\ sends' = sends + 1
    /\ inflight' = [inflight EXCEPT !.sent = @ \cup {sends + 1}]
    /\ toServer' = Append(toServer, Frame(inflight, sends + 1))
    /\ UNCHANGED <<serverVars, row, up, supports, toAgent, late, agentVars, now, changes, faults,
                   seen, agentSpool, results, stored, forgotten>>

\* acknowledge: exactly the batch, and only if all of it is still in the spool.
Acknowledges(ack) ==
    ack.id = inflight.id /\ ack.events = inflight.events /\ ack.events \subseteq spool
receive_ack(ack) ==
    IF inflight # None /\ Acknowledges(ack)
    THEN /\ spool' = spool \ ack.events
         /\ inflight' = None
         /\ UNCHANGED stats
    ELSE UNCHANGED <<spool, inflight, stats>>

\* The answer must name events of the batch, for a send of this connection.
Pending(result) == result.events \cap inflight.left
Applies(result) ==
    /\ inflight # None /\ result.id = inflight.id /\ result.seq \in inflight.sent
    /\ result.events \subseteq inflight.events
    /\ Pending(result) # {} /\ Pending(result) \subseteq spool

\* What is left of the batch is left in flight.
Remaining(result) ==
    IF inflight.left = Pending(result) THEN None
    ELSE [inflight EXCEPT !.left = inflight.left \ Pending(result)]

\* Mutant: rejected events are not counted.
Uncounted(result) == 0

Rejections(result) == IF result.disposition = "rejected" THEN Cardinality(Pending(result)) ELSE 0

\* apply_result on what is left of the batch.
receive_result(result) ==
    IF Applies(result)
    THEN /\ spool' = spool \ Pending(result)
         /\ stats' = [stats EXCEPT !.rejected = @ + Rejections(result)]
         /\ inflight' = Remaining(result)
    ELSE UNCHANGED <<spool, inflight, stats>>

AgentAnswer ==
    /\ up /\ toAgent # <<>>
    /\ \/ Head(toAgent).kind = "security_ack" /\ receive_ack(Head(toAgent))
       \/ Head(toAgent).kind = "result" /\ receive_result(Head(toAgent))
    /\ toAgent' = Tail(toAgent)
    /\ UNCHANGED <<serverVars, row, up, supports, toServer, late, agentVars, now, changes, faults,
                   seen, events, batches, connection, stored, forgotten, horizon>>

-----------------------------------------------------------------------------
\* Server

\* The policy applied when the event occurred, as far as the server knows.
\* Mutant: the policy the device has now.
AppliedNow(at) == applications
AppliedAt(at) == {a \in applications : a.at <= at}

Newest(S) == CHOOSE a \in S : \A b \in S : b.at <= a.at

\* ingest_gateway_security_events on one event; "future" are the events later than the
\* server's clock and five minutes.  Mutant: whatever its age.
ValidAnyAge(e, future) ==
    /\ AppliedAt(events[e].at) # {}
    /\ Newest(AppliedAt(events[e].at)).v = events[e].v
    /\ events[e].v \in Audited
    /\ e \notin future
Valid(e, future) ==
    /\ AppliedAt(events[e].at) # {}
    /\ Newest(AppliedAt(events[e].at)).v = events[e].v
    /\ events[e].v \in Audited
    /\ ~Old(e) /\ e \notin future

Answer(batch, disposition, rows) ==
    IF rows = {} THEN <<>>
    ELSE <<[kind |-> "result", id |-> batch.id, seq |-> batch.seq, disposition |-> disposition,
            events |-> rows]>>

\* commit_and_ack_security_events: with the feature every event on its own, and an
\* answer for the stored and one for the rejected; without it all of the batch and an
\* acknowledgement, or nothing at all.
ValidEvents(batch, future) == {e \in batch.events : Valid(e, future)}
Stores(batch, future) ==
    IF batch.results \/ ValidEvents(batch, future) = batch.events THEN ValidEvents(batch, future) ELSE {}
Answers(batch, future) ==
    IF batch.results
    THEN Answer(batch, "accepted", ValidEvents(batch, future))
         \o Answer(batch, "rejected", batch.events \ ValidEvents(batch, future))
    ELSE IF ValidEvents(batch, future) = batch.events
         THEN <<[kind |-> "security_ack", id |-> batch.id, events |-> batch.events]>> ELSE <<>>

\* Events the clock of the agent dated ahead may still be in the server's future.
Ahead(batch) == {e \in batch.events : events[e].ahead}

ServerBatch ==
    /\ up /\ toServer # <<>> /\ Head(toServer).kind = "batch"
    /\ \E future \in SUBSET Ahead(Head(toServer)) :
         /\ stored' = stored \cup Stores(Head(toServer), future)
         /\ toAgent' = toAgent \o Answers(Head(toServer), future)
    /\ toServer' = Tail(toServer)
    /\ UNCHANGED <<serverVars, row, up, supports, late, agentVars, now, changes, faults,
                   seen, agentSpool, inflight, connection, forgotten>>

\* The handler of a lost connection stores a batch it can no longer answer.
LateBatch ==
    /\ late # <<>> /\ Head(late).kind = "batch"
    /\ \E future \in SUBSET Ahead(Head(late)) :
         /\ stored' = stored \cup Stores(Head(late), future)
         /\ late' = IF Answers(Head(late), future) = <<>> THEN Tail(late) ELSE <<>>
    /\ UNCHANGED <<serverVars, row, up, supports, toAgent, toServer, agentVars, now, changes,
                   faults, seen, agentSpool, inflight, connection, forgotten>>

\* retain_security_events: at least seven days after the event was received.
retain_security_events ==
    /\ \E e \in stored : Old(e) /\ stored' = stored \ {e} /\ forgotten' = forgotten \cup {e}
    /\ UNCHANGED <<policyVars, seen, agentSpool, inflight, connection>>

-----------------------------------------------------------------------------

\* A session that ends clears what is in flight; the spool is on disk.
SessionEnds ==
    /\ Disconnect \/ AgentStops \/ ServerAckRejected
    /\ inflight' = None
    /\ seen' = IF running' THEN seen ELSE None
    /\ UNCHANGED <<agentSpool, connection, stored, forgotten>>

SessionBegins ==
    /\ Connect
    /\ sends' = 0 /\ results' \in TelemetryResults
    /\ UNCHANGED <<seen, agentSpool, inflight, stored, forgotten>>

PolicyStep ==
    /\ \/ AdminNext \/ ServerNext \/ StartAgent \/ Heartbeat
       \/ AgentDelivery
    /\ UNCHANGED telemetryVars

Next ==
    \/ PolicyStep \/ SessionBegins \/ SessionEnds
    \/ ReadPolicy \/ record \/ Age
    \/ SendNext \/ Resend \/ AgentAnswer
    \/ ServerBatch \/ LateBatch \/ retain_security_events

Spec == Init /\ [][Next]_vars

\* Handlers, the receive loop and the timers of the agent keep going, a stopped agent
\* is started again and connects again.
FairSpec ==
    /\ Spec
    /\ WF_vars((ServerHeartbeat \/ ServerAck) /\ UNCHANGED telemetryVars)
    /\ WF_vars(ServerBatch)
    /\ WF_vars(ServerAckRejected /\ SessionEnds)
    /\ WF_vars((StartAgent \/ AgentDelivery) /\ UNCHANGED telemetryVars)
    /\ WF_vars(AgentAnswer)
    /\ SF_vars(Heartbeat /\ UNCHANGED telemetryVars)
    /\ WF_vars(SessionBegins)

-----------------------------------------------------------------------------
\* Properties

Left == Event \ spool

\* No event disappears: one that has left the spool was stored by the server or is
\* counted as dropped or rejected (spool.py stats), whatever answers were lost,
\* repeated or overtaken by a drop of the spool.
Accounted ==
    /\ TypeOK
    /\ Cardinality(Left \ (stored \cup forgotten)) <= stats.overflow + stats.expired + stats.rejected

\* A rotation rejects nothing that belongs to the policy it names: if that policy was in
\* force at the time of the event and the server knows of its application, the event is
\* rejected only when it is older than 24 hours or was dated by a clock ahead of the
\* server's (ingestion.py, the application at or before occurred_at).  An event that
\* meets a rotation between the reading of the policy and of the time has no such claim.
RotationKeepsEvents ==
    [][\A f \in Range(toAgent') \ Range(toAgent) :
          f.kind = "result" /\ f.disposition = "rejected"
          => \A e \in f.events :
                events[e].steady /\ events[e].under \in applications => Old(e) \/ events[e].ahead]_vars

\* An event whose row has expired is never stored again, however often its batch is
\* repeated (ingestion.py, the bound of 24 hours; retention.py).
NotStoredAgain == [][forgotten \cap stored' = {}]_vars
=============================================================================
