------------------------ MODULE SecurityTelemetryProofs ------------------------
(***************************************************************************)
(* Proofs about SecurityTelemetry, and through it about EndpointPolicy.    *)
(***************************************************************************)
EXTENDS SecurityTelemetry, FiniteSetTheorems, WellFoundedInduction, TLAPS

-----------------------------------------------------------------------------
\* Queues

\* What stays in a queue when its first frame is read.
LEMMA RangeTail ==
    ASSUME NEW S, NEW q \in Seq(S), q # <<>>
    PROVE  /\ Head(q) \in S /\ Head(q) \in Range(q)
           /\ Tail(q) \in Seq(S) /\ Range(Tail(q)) \subseteq Range(q)
    <1>1. Head(q) = q[1] /\ 1 \in 1 .. Len(q) /\ DOMAIN q = 1 .. Len(q)
      OBVIOUS
    <1>2. Tail(q) \in Seq(S) /\ DOMAIN Tail(q) = 1 .. (Len(q) - 1)
          /\ \A i \in 1 .. (Len(q) - 1) : Tail(q)[i] = q[i + 1] /\ i + 1 \in 1 .. Len(q)
      OBVIOUS
    <1> QED BY <1>1, <1>2 DEF Range

\* What is in a queue after a frame was added.
LEMMA RangeAppend ==
    ASSUME NEW S, NEW q \in Seq(S), NEW f \in S
    PROVE  Append(q, f) \in Seq(S) /\ Range(Append(q, f)) = Range(q) \cup {f}
    <1>1. Append(q, f) \in Seq(S) /\ DOMAIN Append(q, f) = 1 .. (Len(q) + 1)
          /\ DOMAIN q = 1 .. Len(q) /\ Len(q) \in Nat
      OBVIOUS
    <1>2. \A i \in 1 .. (Len(q) + 1) : Append(q, f)[i] = IF i <= Len(q) THEN q[i] ELSE f
      OBVIOUS
    <1>3. \A i \in DOMAIN q : i \in DOMAIN Append(q, f) /\ Append(q, f)[i] = q[i]
      BY <1>1, <1>2
    <1>4. Len(q) + 1 \in DOMAIN Append(q, f) /\ Append(q, f)[Len(q) + 1] = f
      BY <1>1, <1>2
    <1>5. \A i \in DOMAIN Append(q, f) :
             (i \in DOMAIN q /\ Append(q, f)[i] = q[i]) \/ Append(q, f)[i] = f
      BY <1>1, <1>2
    <1> QED BY <1>1, <1>3, <1>4, <1>5 DEF Range

\* What is in a queue after frames were added.
LEMMA RangeConcat ==
    ASSUME NEW S, NEW q \in Seq(S), NEW r \in Seq(S)
    PROVE  q \o r \in Seq(S) /\ Range(q \o r) = Range(q) \cup Range(r)
    <1>1. q \o r \in Seq(S) /\ DOMAIN (q \o r) = 1 .. (Len(q) + Len(r))
          /\ DOMAIN q = 1 .. Len(q) /\ DOMAIN r = 1 .. Len(r)
          /\ Len(q) \in Nat /\ Len(r) \in Nat
      OBVIOUS
    <1>2. \A i \in 1 .. (Len(q) + Len(r)) :
             (q \o r)[i] = IF i <= Len(q) THEN q[i] ELSE r[i - Len(q)]
      OBVIOUS
    <1>3. \A i \in DOMAIN q : i \in DOMAIN (q \o r) /\ (q \o r)[i] = q[i]
      BY <1>1, <1>2
    <1>4. \A i \in DOMAIN r : Len(q) + i \in DOMAIN (q \o r) /\ (q \o r)[Len(q) + i] = r[i]
      BY <1>1, <1>2
    <1>5. \A i \in DOMAIN (q \o r) :
             (i \in DOMAIN q /\ (q \o r)[i] = q[i])
             \/ (i - Len(q) \in DOMAIN r /\ (q \o r)[i] = r[i - Len(q)])
      BY <1>1, <1>2
    <1>6. Range(q) \subseteq Range(q \o r)
      BY <1>3 DEF Range
    <1>7. Range(r) \subseteq Range(q \o r)
      BY <1>4 DEF Range
    <1>8. Range(q \o r) \subseteq Range(q) \cup Range(r)
      BY <1>5, Zenon DEF Range
    <1> QED BY <1>1, <1>6, <1>7, <1>8

\* A handler keeps at most the frame in its hands.
LEMMA RangeFirst ==
    ASSUME NEW S, NEW q \in Seq(S)
    PROVE  LET kept == SubSeq(q, 1, IF q = <<>> THEN 0 ELSE 1)
           IN  kept \in Seq(S) /\ Range(kept) \subseteq Range(q)
    <1>1. CASE q = <<>>
      <2>1. SubSeq(q, 1, 0) = <<>>
        BY <1>1
      <2> QED BY <1>1, <2>1 DEF Range
    <1>2. CASE q # <<>>
      <2>1. 1 \in 1 .. Len(q) /\ DOMAIN q = 1 .. Len(q) /\ q[1] \in S
        BY <1>2
      <2> DEFINE kept == SubSeq(q, 1, 1)
      <2>2. kept \in Seq(S) /\ DOMAIN kept = 1 .. 1 /\ \A i \in 1 .. 1 : kept[i] = q[i]
        BY <2>1
      <2>3. \A i \in DOMAIN kept : i \in DOMAIN q /\ kept[i] = q[i]
        BY <2>1, <2>2
      <2> HIDE DEF kept
      <2>4. Range(kept) \subseteq Range(q)
        BY <2>3 DEF Range
      <2> QED BY <1>2, <2>2, <2>4 DEF kept
    <1> QED BY <1>1, <1>2

-----------------------------------------------------------------------------
\* Numbers

\* A set of numbers has a smallest one.
LEMMA LeastNumber ==
    ASSUME NEW T, T \subseteq Nat, T # {}
    PROVE  \E x \in T : \A y \in T : x <= y
    <1> DEFINE R == {z \in Nat \X Nat : z[1] < z[2]}
    <1>1. R = OpToRel(<, Nat)
      BY DEF OpToRel
    <1>2. IsWellFoundedOn(R, Nat)
      BY <1>1, NatLessThanWellFounded
    <1>3. \A a, b \in Nat : a < b => <<a, b>> \in R
      OBVIOUS
    <1> HIDE DEF R
    <1>4. PICK x \in T : \A y \in T : ~(<<y, x>> \in R)
      BY <1>2, WFMin
    <1>5. \A y \in T : ~(y < x)
      BY <1>3, <1>4
    <1> QED BY <1>4, <1>5

\* A trimmed spool is within its limit.
LEMMA TrimmedBound ==
    ASSUME NEW rows, rows \subseteq Nat, IsFiniteSet(rows)
    PROVE  Cardinality(Trimmed(rows)) <= MaxSpool
    <1>1. Trimmed(rows) \subseteq rows
      BY DEF Trimmed
    <1>2. CASE Trimmed(rows) = {}
      BY <1>2, FS_EmptySet, TelemetryConstants
    <1>3. CASE Trimmed(rows) # {}
      <2>1. PICK x \in Trimmed(rows) : \A y \in Trimmed(rows) : x <= y
        BY <1>1, <1>3, LeastNumber
      <2> DEFINE Above == {f \in rows : f >= x}
      <2>2. Cardinality(Above) <= MaxSpool
        BY <2>1 DEF Trimmed
      <2>3. Trimmed(rows) \subseteq Above
        BY <1>1, <2>1
      <2>4. IsFiniteSet(Above)
        BY FS_Subset
      <2> HIDE DEF Above
      <2>5. Cardinality(Trimmed(rows)) <= Cardinality(Above)
        BY <2>3, <2>4, FS_Subset
      <2>6. Cardinality(Trimmed(rows)) \in Nat /\ Cardinality(Above) \in Nat
        BY <2>3, <2>4, FS_Subset, FS_CardinalityType
      <2> QED BY <2>2, <2>5, <2>6, TelemetryConstants
    <1> QED BY <1>2, <1>3

-----------------------------------------------------------------------------
\* Shapes

AckFrame   == [kind : {"ack"}, v : Version, at : Time, error : {None} \cup AckError]
BatchFrame == [kind : {"batch"}, id : Nat, events : SUBSET Nat, seq : Nat, results : BOOLEAN]
ServerFrame == [kind : {"heartbeat"}] \cup AckFrame \cup BatchFrame

DeliveryFrame == [kind : {"delivery"}, v : Version]
ReceiptFrame  == [kind : {"security_ack"}, id : Nat, events : SUBSET Nat]
ResultFrame   == [kind : {"result"}, id : Nat, seq : Nat, disposition : {"accepted", "rejected"},
                  events : SUBSET Nat]
AgentFrame == DeliveryFrame \cup ReceiptFrame \cup ResultFrame

DeviceRow == [v : Version, status : RowStatus, by : {"none", "live", "late"},
              error : {None, "SUPERSEDED"} \cup AckError]
EventRow == [v : Version, at : Time, under : Application, steady : BOOLEAN, ahead : BOOLEAN]
Read == {a \in Application : a.v \in Audited}
Flight == [id : Nat, events : SUBSET Nat, left : SUBSET Nat, sent : SUBSET Nat]
Stats == [overflow : Nat, expired : Nat, rejected : Nat]

PolicyShape ==
    /\ latest \in 0 .. MaxVersion
    /\ assigned \in [default : Version \cup {None}, device : Version \cup {None}]
    /\ row \in {None} \cup DeviceRow
    /\ applications \subseteq Application
    /\ current \in {None} \cup Application /\ cache \in {None} \cup Application
    /\ up \in BOOLEAN /\ supports \in BOOLEAN /\ running \in BOOLEAN /\ ready \in BOOLEAN
    /\ now \in Time

QueueShape ==
    /\ toServer \in Seq(ServerFrame) /\ late \in Seq(ServerFrame)
    /\ toAgent \in Seq(AgentFrame)

TelemetryShape ==
    /\ seen \in {None} \cup Read
    /\ events \in Seq(EventRow)
    /\ spool \subseteq Event
    /\ stats \in Stats
    /\ inflight \in {None} \cup Flight
    /\ batches \in Nat /\ sends \in 0 .. MaxSends
    /\ results \in BOOLEAN
    /\ stored \subseteq Event /\ forgotten \subseteq Event
    /\ horizon \in Time

Shape == PolicyShape /\ QueueShape /\ TelemetryShape

\* Frames the server may still read.
Incoming == Range(toServer) \cup Range(late)

\* Only frames of some kinds are added for the server, and only deliveries for the agent.
QueueMove(kinds) ==
    /\ \A f \in Incoming' : f \in Incoming \/ f.kind \in kinds
    /\ \A f \in Range(toAgent') : f \in Range(toAgent) \/ f.kind = "delivery"

\* A step of the policy: no batch and no answer is sent, what is in flight may be dropped.
PolicyMove ==
    /\ UNCHANGED agentSpool /\ UNCHANGED <<stored, forgotten>>
    /\ inflight' \in {inflight, None}
    /\ sends' \in {sends, 0} /\ results' \in BOOLEAN
    /\ QueueMove({"heartbeat", "ack"})

\* The fields of a frame say what it is.
LEMMA FrameKinds ==
    /\ \A f \in ServerFrame : /\ f.kind \in {"heartbeat", "ack", "batch"}
                              /\ f.kind = "ack" => f \in AckFrame
                              /\ f.kind = "batch" => f \in BatchFrame
    /\ \A f \in AgentFrame : /\ f.kind \in {"delivery", "security_ack", "result"}
                             /\ f.kind = "delivery" => f \in DeliveryFrame
                             /\ f.kind = "security_ack" => f \in ReceiptFrame
                             /\ f.kind = "result" => f \in ResultFrame
    BY DEF ServerFrame, AckFrame, BatchFrame, AgentFrame, DeliveryFrame, ReceiptFrame, ResultFrame

\* An empty queue is a queue.
LEMMA EmptyQueue ==
    Range(<<>>) = {} /\ <<>> \in Seq(ServerFrame) /\ <<>> \in Seq(AgentFrame)
    BY DEF Range

\* The effective policy is a version, or there is none.
LEMMA EffectiveType ==
    ASSUME PolicyShape
    PROVE  resolve_effective_policy \in Version \cup {None}
    BY DEF PolicyShape, resolve_effective_policy

\* Frames of prepare_policy_delivery.
Prepared == {<<>>} \cup {<<[kind |-> "delivery", v |-> v]>> : v \in Version}

LEMMA PreparedFrames ==
    ASSUME NEW frames \in Prepared
    PROVE  frames \in Seq(AgentFrame) /\ \A f \in Range(frames) : f.kind = "delivery"
    <1>1. CASE frames = <<>>
      BY <1>1, EmptyQueue
    <1>2. ASSUME NEW v \in Version, frames = <<[kind |-> "delivery", v |-> v]>>
          PROVE  frames \in Seq(AgentFrame) /\ \A f \in Range(frames) : f.kind = "delivery"
      <2> DEFINE d == [kind |-> "delivery", v |-> v]
      <2>1. d \in AgentFrame /\ d.kind = "delivery"
        BY DEF AgentFrame, DeliveryFrame
      <2> HIDE DEF d
      <2>2. frames = <<d>>
        BY <1>2 DEF d
      <2>3. frames \in Seq(AgentFrame) /\ Range(frames) = {d}
        BY <2>1, <2>2 DEF Range
      <2> QED BY <2>1, <2>3
    <1> QED BY <1>1, <1>2 DEF Prepared

\* The row prepare_policy_delivery leaves.
LEMMA PreparedRow ==
    ASSUME PolicyShape, NEW changed_only \in BOOLEAN, NEW feature \in BOOLEAN, NEW frames,
           prepare_policy_delivery(changed_only, feature, frames)
    PROVE  row' \in {None} \cup DeviceRow
    <1>1. PICK retry \in {FALSE} \cup {RetryReadiness} :
            IF Due(changed_only, retry)
            THEN row' = [v |-> resolve_effective_policy, error |-> None, by |-> "none",
                         status |-> IF feature THEN "PENDING" ELSE "UNSUPPORTED"]
            ELSE UNCHANGED row
      BY DEF prepare_policy_delivery
    <1>2. CASE Due(changed_only, retry)
      <2>1. resolve_effective_policy \in Version
        BY <1>2, EffectiveType DEF Due
      <2> QED BY <1>1, <1>2, <2>1 DEF DeviceRow, RowStatus
    <1>3. CASE ~Due(changed_only, retry)
      BY <1>1, <1>3 DEF PolicyShape
    <1> QED BY <1>2, <1>3

\* What record_policy_ack leaves.
LEMMA RecordedRow ==
    ASSUME PolicyShape, NEW ack \in AckFrame, NEW by \in {"live", "late"},
           AckMatches(ack), record_policy_ack(ack, by)
    PROVE  /\ row' \in {None} \cup DeviceRow
           /\ applications' \subseteq Application
    <1>1. row \in DeviceRow /\ ack.error \in {None} \cup AckError
          /\ ack.v \in Version /\ ack.at \in Time
      BY DEF AckMatches, PolicyShape, AckFrame
    <1>2. row' \in DeviceRow
      BY <1>1 DEF record_policy_ack, DeviceRow, RowStatus
    <1>3. [v |-> ack.v, at |-> ack.at] \in Application
      BY <1>1 DEF Application
    <1>4. applications' \subseteq Application
      BY <1>3 DEF record_policy_ack, PolicyShape
    <1> QED BY <1>2, <1>4

\* Steps of the policy, one by one.
LEMMA AdminMoves ==
    ASSUME Shape, AdminNext
    PROVE  PolicyShape' /\ QueueShape' /\ QueueMove({"heartbeat"})
    <1>1. CASE create_policy_version
      <2>1. latest' \in 0 .. MaxVersion
        BY <1>1, PolicyConstants DEF create_policy_version, Shape, PolicyShape
      <2>2. UNCHANGED <<assigned, row, applications, up, supports, toAgent, toServer, late, running,
                        current, cache, ready, now>>
        BY <1>1 DEF create_policy_version, agentVars
      <2> QED BY <2>1, <2>2 DEF Shape, PolicyShape, QueueShape, QueueMove, Incoming
    <1>2. ASSUME NEW scope \in {"default", "device"}, assign_policy(scope)
          PROVE  PolicyShape' /\ QueueShape' /\ QueueMove({"heartbeat"})
      <2>1. PICK v \in 1 .. latest : assigned' = [assigned EXCEPT ![scope] = v]
        BY <1>2 DEF assign_policy
      <2>2. v \in Version
        BY <2>1, PolicyConstants DEF Shape, PolicyShape, Version
      <2>3. assigned' \in [default : Version \cup {None}, device : Version \cup {None}]
        BY <2>1, <2>2 DEF Shape, PolicyShape
      <2>4. UNCHANGED <<latest, row, applications, up, supports, toAgent, toServer, late, running,
                        current, cache, ready, now>>
        BY <1>2 DEF assign_policy, agentVars
      <2> QED BY <2>3, <2>4 DEF Shape, PolicyShape, QueueShape, QueueMove, Incoming
    <1> QED BY <1>1, <1>2 DEF AdminNext

LEMMA HeartbeatMoves ==
    ASSUME Shape, Heartbeat
    PROVE  PolicyShape' /\ QueueShape' /\ QueueMove({"heartbeat"})
    <1> DEFINE h == [kind |-> "heartbeat"]
    <1>1. h \in ServerFrame /\ h.kind = "heartbeat"
      BY DEF ServerFrame
    <1>2. toServer' = Append(toServer, h)
          /\ UNCHANGED <<latest, assigned, applications, row, up, supports, toAgent, late, running,
                         current, cache, ready, now>>
      BY DEF Heartbeat, serverVars, agentVars
    <1> HIDE DEF h
    <1>3. toServer' \in Seq(ServerFrame) /\ Range(toServer') = Range(toServer) \cup {h}
      BY <1>1, <1>2, RangeAppend DEF Shape, QueueShape
    <1> QED BY <1>1, <1>2, <1>3 DEF Shape, PolicyShape, QueueShape, QueueMove, Incoming

LEMMA ServerHeartbeatMoves ==
    ASSUME Shape, ServerHeartbeat
    PROVE  PolicyShape' /\ QueueShape' /\ QueueMove({"heartbeat"})
    <1>1. PICK frames \in Prepared :
            /\ prepare_policy_delivery(TRUE, supports, frames)
            /\ toAgent' = toAgent \o frames
      BY DEF ServerHeartbeat, Prepared
    <1>2. toServer # <<>> /\ toServer' = Tail(toServer)
          /\ UNCHANGED <<latest, assigned, applications, up, supports, late, running, current, cache,
                         ready, now>>
      BY DEF ServerHeartbeat, serverVars, agentVars
    <1>3. row' \in {None} \cup DeviceRow
      BY <1>1, PreparedRow DEF Shape, PolicyShape
    <1>4. frames \in Seq(AgentFrame) /\ \A f \in Range(frames) : f.kind = "delivery"
      BY PreparedFrames
    <1>5. toAgent' \in Seq(AgentFrame) /\ Range(toAgent') = Range(toAgent) \cup Range(frames)
      BY <1>1, <1>4, RangeConcat DEF Shape, QueueShape
    <1>6. toServer' \in Seq(ServerFrame) /\ Range(toServer') \subseteq Range(toServer)
      BY <1>2, RangeTail DEF Shape, QueueShape
    <1> QED BY <1>2, <1>3, <1>4, <1>5, <1>6 DEF Shape, PolicyShape, QueueShape, QueueMove, Incoming

LEMMA ServerAckMoves ==
    ASSUME Shape, ServerAck
    PROVE  PolicyShape' /\ QueueShape' /\ QueueMove({"heartbeat"})
    <1>1. toServer # <<>> /\ toServer' = Tail(toServer)
          /\ UNCHANGED <<latest, assigned, up, supports, toAgent, late, running, current, cache,
                         ready, now>>
          /\ Head(toServer).kind = "ack" /\ AckMatches(Head(toServer))
          /\ record_policy_ack(Head(toServer), "live")
      BY DEF ServerAck, agentVars
    <1>2. toServer' \in Seq(ServerFrame) /\ Range(toServer') \subseteq Range(toServer)
          /\ Head(toServer) \in ServerFrame
      BY <1>1, RangeTail DEF Shape, QueueShape
    <1>3. Head(toServer) \in AckFrame
      BY <1>1, <1>2, FrameKinds
    <1>4. row' \in {None} \cup DeviceRow /\ applications' \subseteq Application
      BY <1>1, <1>3, RecordedRow DEF Shape
    <1> QED BY <1>1, <1>2, <1>4 DEF Shape, PolicyShape, QueueShape, QueueMove, Incoming

LEMMA LateFrameMoves ==
    ASSUME Shape, LateFrame
    PROVE  PolicyShape' /\ QueueShape' /\ QueueMove({"heartbeat"})
    <1>1. late # <<>>
          /\ UNCHANGED <<latest, assigned, up, supports, toAgent, toServer, running, current, cache,
                         ready, now>>
      BY DEF LateFrame, agentVars
    <1>2. Tail(late) \in Seq(ServerFrame) /\ Range(Tail(late)) \subseteq Range(late)
          /\ Head(late) \in ServerFrame
      BY <1>1, RangeTail DEF Shape, QueueShape
    <1> SUFFICES /\ late' \in {<<>>, Tail(late)}
                 /\ row' \in {None} \cup DeviceRow /\ applications' \subseteq Application
      <2>1. late' \in Seq(ServerFrame) /\ Range(late') \subseteq Range(late)
        BY <1>2, EmptyQueue
      <2> QED BY <1>1, <2>1 DEF Shape, PolicyShape, QueueShape, QueueMove, Incoming
    <1>3. CASE /\ Head(late).kind = "ack" /\ AckMatches(Head(late))
               /\ record_policy_ack(Head(late), "late")
               /\ late' = Tail(late)
      <2>1. Head(late) \in AckFrame
        BY <1>2, <1>3, FrameKinds
      <2> QED BY <1>3, <2>1, RecordedRow DEF Shape
    <1>4. CASE \E frames \in Prepared :
                  /\ prepare_policy_delivery(TRUE, supports, frames)
                  /\ late' = IF frames = <<>> THEN Tail(late) ELSE <<>>
                  /\ UNCHANGED applications
      BY <1>4, PreparedRow DEF Shape, PolicyShape
    <1>5. CASE late' = <<>> /\ UNCHANGED <<row, applications>>
      BY <1>5 DEF Shape, PolicyShape
    <1> QED BY <1>3, <1>4, <1>5 DEF LateFrame, Prepared

LEMMA AgentDeliveryMoves ==
    ASSUME Shape, AgentDelivery
    PROVE  PolicyShape' /\ QueueShape' /\ QueueMove({"ack"})
    <1>1. toAgent # <<>> /\ Head(toAgent).kind = "delivery" /\ toAgent' = Tail(toAgent) /\ ready' = TRUE
          /\ UNCHANGED <<latest, assigned, applications, row, up, supports, late, running>>
      BY DEF AgentDelivery, serverVars
    <1>2. toAgent' \in Seq(AgentFrame) /\ Range(toAgent') \subseteq Range(toAgent)
          /\ Head(toAgent) \in AgentFrame
      BY <1>1, RangeTail DEF Shape, QueueShape
    <1>3. Head(toAgent).v \in Version
      BY <1>1, <1>2, FrameKinds DEF DeliveryFrame
    <1>4. PICK error \in {None} \cup AckError :
            /\ IF error = None THEN Tick ELSE UNCHANGED now
            /\ apply_delivery(Head(toAgent).v, error)
      BY DEF AgentDelivery
    <1>5. now' \in Time
      BY <1>4, PolicyConstants DEF Tick, Shape, PolicyShape, Time
    <1> DEFINE a == [kind |-> "ack", v |-> Head(toAgent).v, at |-> now', error |-> error]
    <1>6. a \in ServerFrame /\ a.kind = "ack"
      BY <1>3, <1>4, <1>5 DEF ServerFrame, AckFrame
    <1>7. toServer' = Append(toServer, a)
      BY <1>4 DEF apply_delivery
    <1> HIDE DEF a
    <1>8. toServer' \in Seq(ServerFrame) /\ Range(toServer') = Range(toServer) \cup {a}
      BY <1>6, <1>7, RangeAppend DEF Shape, QueueShape
    <1>9. [v |-> Head(toAgent).v, at |-> now'] \in Application
      BY <1>3, <1>5 DEF Application
    <1>10. current' \in {None} \cup Application /\ cache' \in {None} \cup Application
      BY <1>4, <1>9 DEF apply_delivery, Shape, PolicyShape
    <1> QED BY <1>1, <1>2, <1>5, <1>6, <1>8, <1>10
            DEF Shape, PolicyShape, QueueShape, QueueMove, Incoming

LEMMA StartMoves ==
    ASSUME Shape, StartAgent
    PROVE  PolicyShape' /\ QueueShape' /\ QueueMove({"heartbeat"})
    BY DEF StartAgent, serverVars, Shape, PolicyShape, QueueShape, QueueMove, Incoming

LEMMA ConnectMoves ==
    ASSUME Shape, Connect
    PROVE  PolicyShape' /\ QueueShape' /\ QueueMove({"heartbeat"})
    <1>1. PICK feature \in Feature, frames \in Prepared :
            /\ prepare_policy_delivery(FALSE, feature, frames)
            /\ supports' = feature
            /\ toAgent' = frames
      BY DEF Connect, Prepared
    <1>2. up' = TRUE /\ toServer' = <<>> /\ ready' = FALSE
          /\ late' = SubSeq(late, 1, IF late = <<>> THEN 0 ELSE 1)
          /\ UNCHANGED <<latest, assigned, applications, running, current, cache, now>>
      BY DEF Connect, serverVars
    <1>3. feature \in BOOLEAN
      BY PolicyConstants
    <1>4. row' \in {None} \cup DeviceRow
      BY <1>1, <1>3, PreparedRow DEF Shape
    <1>5. toAgent' \in Seq(AgentFrame) /\ \A f \in Range(toAgent') : f.kind = "delivery"
      BY <1>1, PreparedFrames
    <1>6. late' \in Seq(ServerFrame) /\ Range(late') \subseteq Range(late)
      BY <1>2, RangeFirst DEF Shape, QueueShape
    <1>7. toServer' \in Seq(ServerFrame) /\ Range(toServer') = {}
      BY <1>2, EmptyQueue
    <1> QED BY <1>1, <1>2, <1>3, <1>4, <1>5, <1>6, <1>7
            DEF Shape, PolicyShape, QueueShape, QueueMove, Incoming

LEMMA EndMoves ==
    ASSUME Shape, Disconnect \/ AgentStops \/ ServerAckRejected
    PROVE  PolicyShape' /\ QueueShape' /\ QueueMove({"heartbeat"})
    <1>1. /\ toAgent' = <<>> /\ toServer' = <<>> /\ late' \in {toServer, late}
          /\ UNCHANGED <<latest, assigned, applications, row, supports, cache, now>>
          /\ up' = FALSE /\ running' \in {running, FALSE} /\ current' \in {current, None}
          /\ ready' \in {ready, FALSE}
      BY DEF Disconnect, AgentStops, ServerAckRejected, StopAgent, serverVars, agentVars
    <1>2. PolicyShape'
      BY <1>1 DEF Shape, PolicyShape
    <1>3. QueueShape' /\ QueueMove({"heartbeat"})
      BY <1>1, EmptyQueue DEF Shape, QueueShape, QueueMove, Incoming
    <1> QED BY <1>2, <1>3

\* Every step of the policy keeps the shape of the state and moves no event.
LEMMA PolicyMoves ==
    ASSUME Shape, PolicyStep \/ SessionBegins \/ SessionEnds
    PROVE  Shape' /\ PolicyMove
    <1>1. PolicyShape' /\ QueueShape' /\ (QueueMove({"heartbeat"}) \/ QueueMove({"ack"}))
      BY AdminMoves, HeartbeatMoves, ServerHeartbeatMoves, ServerAckMoves, LateFrameMoves,
         AgentDeliveryMoves, StartMoves, ConnectMoves, EndMoves
         DEF PolicyStep, SessionBegins, SessionEnds, ServerNext
    <1>2. /\ UNCHANGED <<events, spool, stats, batches, horizon, stored, forgotten>> /\ seen' \in {seen, None}
          /\ inflight' \in {inflight, None} /\ sends' \in {sends, 0} /\ results' \in BOOLEAN
      BY TelemetryConstants DEF PolicyStep, SessionBegins, SessionEnds, telemetryVars, agentSpool, connection,
         Shape, TelemetryShape
    <1>3. TelemetryShape'
      BY <1>2, TelemetryConstants DEF Shape, TelemetryShape, Event
    <1>4. QueueMove({"heartbeat", "ack"})
      BY <1>1 DEF QueueMove
    <1> QED BY <1>1, <1>2, <1>3, <1>4 DEF Shape, PolicyMove, agentSpool

-----------------------------------------------------------------------------
\* Events

\* Answers that let the agent forget events without counting them.
Settles(f) == f.kind = "security_ack" \/ (f.kind = "result" /\ f.disposition = "accepted")

\* A step of the telemetry: the policy is left alone, and only batches are sent.
TelemetryMove ==
    /\ UNCHANGED <<latest, assigned, applications, row, up, supports, running, current, cache, ready>>
    /\ \A f \in Incoming' : f \in Incoming \/ f.kind = "batch"

\* Numbers of events are natural numbers, and there are finitely many.
LEMMA EventNumbers ==
    ASSUME events \in Seq(EventRow)
    PROVE  Event \subseteq Nat /\ IsFiniteSet(Event) /\ \A e \in Event : events[e] \in EventRow
    <1>1. Len(events) \in Nat
      OBVIOUS
    <1>2. IsFiniteSet(1 .. Len(events))
      BY <1>1, FS_Interval
    <1> QED BY <1>1, <1>2 DEF Event

\* Rows that stay, and rows of a batch, are rows of the spool.
LEMMA RowsOfSpool ==
    /\ Fresh \subseteq spool
    /\ \A rows : Trimmed(rows) \subseteq rows /\ Oldest(rows) \subseteq rows
    BY DEF Fresh, Trimmed, Oldest

\* Counters of the spool only grow by numbers of rows.
LEMMA StatsGrow ==
    ASSUME stats \in Stats, NEW a \in Nat, NEW b \in Nat, NEW c \in Nat,
           NEW s, s = [overflow |-> stats.overflow + a, expired |-> stats.expired + b,
                       rejected |-> stats.rejected + c]
    PROVE  s \in Stats /\ s.overflow + s.expired + s.rejected
                          = stats.overflow + stats.expired + stats.rejected + (a + b + c)
    BY DEF Stats

\* Reading the policy leaves all but the sensor alone.
LEMMA ReadMoves ==
    ASSUME Shape, ReadPolicy
    PROVE  Shape' /\ TelemetryMove
           /\ UNCHANGED <<policyVars, events, spool, stats, inflight, stored, forgotten, horizon>>
    <1>1. /\ current # None /\ current.v \in Audited /\ seen' = current
          /\ UNCHANGED <<policyVars, events, spool, stats, inflight, batches, sends, results, stored,
                         forgotten, horizon>>
      BY DEF ReadPolicy, connection
    <1>2. seen' \in Read
      BY <1>1 DEF Read, Shape, PolicyShape
    <1>3. PolicyShape' /\ QueueShape' /\ TelemetryMove
      BY <1>1 DEF Shape, PolicyShape, QueueShape, policyVars, TelemetryMove, Incoming
    <1>4. TelemetryShape'
      BY <1>1, <1>2 DEF Shape, TelemetryShape, Event
    <1> QED BY <1>1, <1>3, <1>4 DEF Shape

\* Rows of the spool and a new one, if it is inserted.
KeptRows(row_) == Fresh \cup row_

\* What a record does: the event it stamps, the row it inserts or counts.
LEMMA Records ==
    ASSUME Shape, record
    PROVE  /\ now' = now + 1 /\ now' \in Time /\ seen \in Application /\ seen.v \in Audited
           /\ \E at \in Time, ahead \in BOOLEAN :
                 at <= now' /\ events' = Append(events, Stamped(at, ahead))
           /\ \E new \in SUBSET {Len(events) + 1}, x, y \in {0, 1} :
                 /\ x + y = IF new = {} THEN 1 ELSE 0
                 /\ spool' = Trimmed(KeptRows(new))
                 /\ stats' = [stats EXCEPT !.expired = @ + (Cardinality(spool \ Fresh) + x),
                                           !.overflow = @ + (Cardinality(KeptRows(new) \ Trimmed(KeptRows(new))) + y)]
    <1>1. now < MaxTime /\ now' = now + 1 /\ seen # None
      BY DEF record, Tick
    <1>2. now' \in Time
      BY <1>1, PolicyConstants DEF Shape, PolicyShape, Time
    <1>3. seen \in Application /\ seen.v \in Audited
      BY <1>1 DEF Shape, TelemetryShape, Read
    <1>4. PICK at \in 0 .. now', ahead \in BOOLEAN, large \in BOOLEAN :
            LET e == Len(events) + 1
                expired == at < horizon
                kept == Fresh \cup (IF expired \/ large THEN {} ELSE {e})
            IN  /\ events' = Append(events, Stamped(at, ahead))
                /\ spool' = Trimmed(kept)
                /\ stats' = [stats EXCEPT
                               !.expired = @ + (Cardinality(spool \ Fresh) + IF expired THEN 1 ELSE 0),
                               !.overflow = @ + (Cardinality(kept \ Trimmed(kept))
                                                 + IF ~expired /\ large THEN 1 ELSE 0)]
      BY Zenon DEF record
    <1>5. at \in Time /\ at <= now'
      BY <1>2, PolicyConstants DEF Time
    <1>6. \E new \in SUBSET {Len(events) + 1}, x, y \in {0, 1} :
                 /\ x + y = IF new = {} THEN 1 ELSE 0
                 /\ spool' = Trimmed(KeptRows(new))
                 /\ stats' = [stats EXCEPT !.expired = @ + (Cardinality(spool \ Fresh) + x),
                                           !.overflow = @ + (Cardinality(KeptRows(new) \ Trimmed(KeptRows(new))) + y)]
      <2> DEFINE e == Len(events) + 1
                 expired == at < horizon
                 new == IF expired \/ large THEN {} ELSE {e}
                 x == IF expired THEN 1 ELSE 0
                 y == IF ~expired /\ large THEN 1 ELSE 0
      <2>1. /\ spool' = Trimmed(KeptRows(new))
            /\ stats' = [stats EXCEPT !.expired = @ + (Cardinality(spool \ Fresh) + x),
                                      !.overflow = @ + (Cardinality(KeptRows(new) \ Trimmed(KeptRows(new))) + y)]
        BY <1>4, Zenon DEF KeptRows
      <2>2. new \in SUBSET {Len(events) + 1} /\ x \in {0, 1} /\ y \in {0, 1}
            /\ x + y = IF new = {} THEN 1 ELSE 0
        <3>1. {e} # {}
          OBVIOUS
        <3> QED BY <3>1
      <2> HIDE DEF new, x, y
      <2> QED BY <2>1, <2>2
    <1> QED BY <1>1, <1>2, <1>3, <1>4, <1>5, <1>6

\* A new event has the next number, and the earlier ones stay as they are.
LEMMA NewEvent ==
    ASSUME Shape, record
    PROVE  /\ Event' = Event \cup {Len(events) + 1} /\ Len(events) + 1 \notin Event
           /\ Len(events) + 1 \in Nat
           /\ events' \in Seq(EventRow)
           /\ \A e \in Event : events'[e] = events[e]
           /\ \E at \in Time, ahead \in BOOLEAN :
                 at <= now' /\ events'[Len(events) + 1] = Stamped(at, ahead)
           /\ now' = now + 1 /\ now' \in Time
           /\ seen \in Application /\ seen.v \in Audited
    <1>1. now' = now + 1 /\ now' \in Time /\ seen \in Application /\ seen.v \in Audited
      BY Records
    <1>2. PICK at \in Time, ahead \in BOOLEAN :
            at <= now' /\ events' = Append(events, Stamped(at, ahead))
      BY Records
    <1> DEFINE r == Stamped(at, ahead)
    <1>3. seen.v \in Version /\ (seen = current /\ seen.at <= at) \in BOOLEAN
      BY <1>1 DEF Application
    <1>4. r \in EventRow
      BY <1>1, <1>3 DEF EventRow, Stamped
    <1>5. events \in Seq(EventRow) /\ events' = Append(events, r)
      BY <1>2 DEF Shape, TelemetryShape
    <1> HIDE DEF r
    <1>6. /\ events' \in Seq(EventRow) /\ Len(events') = Len(events) + 1 /\ Len(events) \in Nat
          /\ \A e \in 1 .. Len(events) : events'[e] = events[e]
          /\ events'[Len(events) + 1] = r
      BY <1>4, <1>5
    <1>7. Event' = 1 .. (Len(events) + 1) /\ Event = 1 .. Len(events)
      BY <1>6 DEF Event
    <1>8. events'[Len(events) + 1] = Stamped(at, ahead)
      BY <1>6 DEF r
    <1> QED BY <1>1, <1>2, <1>6, <1>7, <1>8

\* The rows a record drops are counted.
LEMMA RecordCounts ==
    ASSUME Shape, record
    PROVE  \E new \in SUBSET {Len(events) + 1}, d \in {0, 1} :
               /\ d = IF new = {} THEN 1 ELSE 0
               /\ spool' = Trimmed(KeptRows(new))
               /\ spool' \subseteq Event'
               /\ Cardinality(spool \ Fresh) \in Nat /\ IsFiniteSet(spool \ Fresh)
               /\ Cardinality(KeptRows(new) \ Trimmed(KeptRows(new))) \in Nat
               /\ IsFiniteSet(KeptRows(new) \ Trimmed(KeptRows(new)))
               /\ Cardinality(spool') <= MaxSpool
               /\ stats' \in Stats
               /\ stats'.overflow + stats'.expired + stats'.rejected
                  = stats.overflow + stats.expired + stats.rejected
                    + (Cardinality(KeptRows(new) \ Trimmed(KeptRows(new))) + Cardinality(spool \ Fresh) + d)
    <1>1. PICK new \in SUBSET {Len(events) + 1}, x \in {0, 1}, y \in {0, 1} :
                 /\ x + y = IF new = {} THEN 1 ELSE 0
                 /\ spool' = Trimmed(KeptRows(new))
                 /\ stats' = [stats EXCEPT !.expired = @ + (Cardinality(spool \ Fresh) + x),
                                           !.overflow = @ + (Cardinality(KeptRows(new) \ Trimmed(KeptRows(new))) + y)]
      BY Records
    <1> DEFINE kept == KeptRows(new)
               a == Cardinality(kept \ Trimmed(kept)) + y
               b == Cardinality(spool \ Fresh) + x
    <1>2. Event \subseteq Nat /\ IsFiniteSet(Event) /\ spool \subseteq Event /\ stats \in Stats
      BY EventNumbers DEF Shape, TelemetryShape
    <1>3. kept \subseteq Event' /\ kept \subseteq Nat
      BY <1>2, NewEvent, RowsOfSpool DEF KeptRows
    <1>4. IsFiniteSet(spool) /\ IsFiniteSet(Fresh)
      BY <1>2, RowsOfSpool, FS_Subset
    <1>5. IsFiniteSet(kept)
      <2>1. IsFiniteSet(Fresh \cup {Len(events) + 1})
        BY <1>4, FS_AddElement
      <2>2. KeptRows(new) \subseteq Fresh \cup {Len(events) + 1}
        BY DEF KeptRows
      <2> QED BY <2>1, <2>2, FS_Subset
    <1>6. IsFiniteSet(spool \ Fresh) /\ IsFiniteSet(kept \ Trimmed(kept))
      BY <1>4, <1>5, FS_Subset
    <1>7. Cardinality(spool \ Fresh) \in Nat /\ Cardinality(kept \ Trimmed(kept)) \in Nat
      BY <1>6, FS_CardinalityType
    <1>8. a \in Nat /\ b \in Nat /\ 0 \in Nat
      BY <1>7
    <1>9. stats' = [overflow |-> stats.overflow + a, expired |-> stats.expired + b,
                    rejected |-> stats.rejected + 0]
      <2>1. stats.rejected + 0 = stats.rejected
            /\ stats = [overflow |-> stats.overflow, expired |-> stats.expired,
                        rejected |-> stats.rejected]
        BY <1>2 DEF Stats
      <2> QED BY <1>1, <2>1, Zenon
    <1> DEFINE c == Cardinality(kept \ Trimmed(kept))
               g == Cardinality(spool \ Fresh)
    <1>10. a + b + 0 = c + g + (x + y)
      <2>1. a = c + y /\ b = g + x /\ c \in Nat /\ g \in Nat
        BY <1>7
      <2> HIDE DEF a, b, c, g
      <2> QED BY <2>1
    <1> HIDE DEF a, b
    <1>11. /\ stats' \in Stats
           /\ stats'.overflow + stats'.expired + stats'.rejected
              = stats.overflow + stats.expired + stats.rejected + (a + b + 0)
      BY <1>2, <1>8, <1>9, StatsGrow
    <1>12. stats'.overflow + stats'.expired + stats'.rejected
           = stats.overflow + stats.expired + stats.rejected
             + (Cardinality(kept \ Trimmed(kept)) + Cardinality(spool \ Fresh) + (x + y))
      BY <1>10, <1>11, Zenon
    <1>13. Cardinality(spool') <= MaxSpool
      BY <1>1, <1>3, <1>5, TrimmedBound
    <1>14. spool' \subseteq Event' /\ x + y \in {0, 1}
      BY <1>1, <1>3, RowsOfSpool
    <1> QED BY <1>1, <1>6, <1>7, <1>11, <1>12, <1>13, <1>14

LEMMA RecordMoves ==
    ASSUME Shape, record
    PROVE  Shape' /\ TelemetryMove /\ UNCHANGED <<toAgent, inflight, stored, forgotten, horizon>>
           /\ Incoming' = Incoming
    <1>1. /\ seen' = None
          /\ UNCHANGED <<latest, assigned, row, applications, up, supports, toAgent, toServer, late,
                         running, current, cache, ready, inflight, batches, sends, results, stored,
                         forgotten, horizon>>
      BY DEF record, agentVars, connection
    <1>2. now' \in Time /\ events' \in Seq(EventRow) /\ Event \subseteq Event'
      BY NewEvent
    <1>3. spool' \subseteq Event' /\ stats' \in Stats
      BY RecordCounts
    <1>4. PolicyShape' /\ QueueShape'
      BY <1>1, <1>2 DEF Shape, PolicyShape, QueueShape
    <1>5. TelemetryShape'
      BY <1>1, <1>2, <1>3 DEF Shape, TelemetryShape
    <1>6. Incoming' = Incoming
      BY <1>1 DEF Incoming
    <1> QED BY <1>1, <1>4, <1>5, <1>6 DEF Shape, TelemetryMove

LEMMA AgeMoves ==
    ASSUME Shape, Age
    PROVE  Shape' /\ TelemetryMove /\ UNCHANGED <<policyVars, events, spool, stats, inflight, stored, forgotten>>
           /\ horizon' >= horizon
    <1>1. UNCHANGED <<policyVars, seen, events, spool, stats, inflight, batches, sends, results, stored, forgotten>>
      BY DEF Age, connection
    <1>2. horizon' \in Time /\ horizon' >= horizon
      BY PolicyConstants DEF Age, Shape, PolicyShape, TelemetryShape, Time
    <1>3. PolicyShape' /\ QueueShape' /\ TelemetryMove
      BY <1>1 DEF Shape, PolicyShape, QueueShape, policyVars, TelemetryMove, Incoming
    <1>4. TelemetryShape'
      BY <1>1, <1>2 DEF Shape, TelemetryShape, Event
    <1> QED BY <1>1, <1>2, <1>3, <1>4 DEF Shape

\* What a send leaves: a batch at the end of the queue, and what the spool expired is counted.
LEMMA SendNextMoves ==
    ASSUME Shape, SendNext
    PROVE  /\ Shape' /\ TelemetryMove
           /\ UNCHANGED <<toAgent, late, events, stored, forgotten, horizon, now>>
           /\ spool' = Fresh
           /\ Cardinality(spool \ Fresh) \in Nat
           /\ stats'.overflow + stats'.expired + stats'.rejected
              = stats.overflow + stats.expired + stats.rejected + (0 + Cardinality(spool \ Fresh) + 0)
           /\ inflight'.events \subseteq Event /\ inflight'.left \subseteq inflight'.events
           /\ inflight'.sent \subseteq 1 .. MaxSends
           /\ \A f \in Incoming' : f \in Incoming \/ f.events \subseteq Event
           /\ \E f \in BatchFrame : toServer' = Append(toServer, f)
    <1> DEFINE b == [id |-> batches + 1, events |-> Oldest(Fresh), left |-> Oldest(Fresh),
                     sent |-> {sends + 1}]
    <1>1. /\ sends < MaxSends /\ spool' = Fresh
          /\ stats' = [stats EXCEPT !.expired = @ + Cardinality(spool \ Fresh)]
          /\ inflight' = b
          /\ toServer' = Append(toServer, Frame(inflight', sends + 1))
          /\ batches' = batches + 1 /\ sends' = sends + 1
          /\ UNCHANGED <<latest, assigned, applications, row, up, supports, toAgent, late, running,
                         current, cache, ready, now, seen, events, results, stored, forgotten, horizon>>
      BY DEF SendNext, serverVars, agentVars
    <1>2. Event \subseteq Nat /\ IsFiniteSet(Event) /\ spool \subseteq Event /\ stats \in Stats
          /\ batches \in Nat /\ sends \in 0 .. MaxSends /\ results \in BOOLEAN
          /\ toServer \in Seq(ServerFrame) /\ MaxSends \in Nat
      BY EventNumbers, TelemetryConstants DEF Shape, TelemetryShape, QueueShape
    <1>3. Oldest(Fresh) \subseteq Event /\ Fresh \subseteq spool
      BY <1>2, RowsOfSpool
    <1>4. sends + 1 \in 1 .. MaxSends /\ batches + 1 \in Nat /\ sends + 1 \in Nat
      BY <1>1, <1>2
    <1>5. b \in Flight /\ b.events = Oldest(Fresh) /\ b.left = Oldest(Fresh) /\ b.sent = {sends + 1}
          /\ b.id = batches + 1
      BY <1>2, <1>3, <1>4 DEF Flight
    <1> DEFINE f == Frame(b, sends + 1)
    <1>6. f \in BatchFrame /\ f.kind = "batch" /\ f.events = Oldest(Fresh)
      BY <1>2, <1>3, <1>4, <1>5 DEF Frame, BatchFrame
    <1>7. f \in ServerFrame
      BY <1>6 DEF ServerFrame
    <1>8. toServer' = Append(toServer, f)
      BY <1>1
    <1> HIDE DEF b, f
    <1>9. toServer' \in Seq(ServerFrame) /\ Range(toServer') = Range(toServer) \cup {f}
      BY <1>2, <1>7, <1>8, RangeAppend
    <1>10. IsFiniteSet(spool \ Fresh)
      BY <1>2, FS_Subset
    <1>11. Cardinality(spool \ Fresh) \in Nat
      BY <1>10, FS_CardinalityType
    <1>12. stats' = [overflow |-> stats.overflow + 0, expired |-> stats.expired + Cardinality(spool \ Fresh),
                     rejected |-> stats.rejected + 0]
      <2>1. stats.rejected + 0 = stats.rejected /\ stats.overflow + 0 = stats.overflow
            /\ stats = [overflow |-> stats.overflow, expired |-> stats.expired,
                        rejected |-> stats.rejected]
        BY <1>2 DEF Stats
      <2> QED BY <1>1, <2>1, Zenon
    <1>13. stats' \in Stats
           /\ stats'.overflow + stats'.expired + stats'.rejected
              = stats.overflow + stats.expired + stats.rejected + (0 + Cardinality(spool \ Fresh) + 0)
      BY <1>2, <1>11, <1>12, StatsGrow
    <1>14. PolicyShape' /\ QueueShape'
      BY <1>1, <1>9 DEF Shape, PolicyShape, QueueShape
    <1>15. TelemetryShape'
      BY <1>1, <1>2, <1>3, <1>4, <1>5, <1>13 DEF Shape, TelemetryShape, Event
    <1>16. \A g \in Incoming' : g \in Incoming \/ g = f
      BY <1>1, <1>9 DEF Incoming
    <1>17. TelemetryMove
      BY <1>1, <1>6, <1>16 DEF TelemetryMove
    <1> QED BY <1>1, <1>3, <1>4, <1>5, <1>6, <1>8, <1>11, <1>13, <1>14, <1>15, <1>16, <1>17 DEF Shape

\* The same batch again.
LEMMA ResendMoves ==
    ASSUME Shape, Resend
    PROVE  /\ Shape' /\ TelemetryMove
           /\ UNCHANGED <<toAgent, late, events, spool, stats, stored, forgotten, horizon, now>>
           /\ inflight # None
           /\ inflight'.events = inflight.events /\ inflight'.left = inflight.left
           /\ inflight.sent \subseteq 1 .. MaxSends => inflight'.sent \subseteq 1 .. MaxSends
           /\ \A f \in Incoming' : f \in Incoming \/ f.events = inflight.events
           /\ \E f \in BatchFrame : toServer' = Append(toServer, f)
    <1>1. /\ sends < MaxSends /\ inflight # None
          /\ inflight' = [inflight EXCEPT !.sent = @ \cup {sends + 1}]
          /\ toServer' = Append(toServer, Frame(inflight, sends + 1))
          /\ sends' = sends + 1
          /\ UNCHANGED <<latest, assigned, applications, row, up, supports, toAgent, late, running,
                         current, cache, ready, now, seen, events, spool, stats, batches, horizon, results,
                         stored, forgotten>>
      BY DEF Resend, serverVars, agentVars, agentSpool
    <1>2. inflight \in Flight /\ sends \in 0 .. MaxSends /\ results \in BOOLEAN
          /\ toServer \in Seq(ServerFrame) /\ MaxSends \in Nat
      BY <1>1, TelemetryConstants DEF Shape, TelemetryShape, QueueShape
    <1>3. sends + 1 \in 1 .. MaxSends /\ sends + 1 \in Nat
      BY <1>1, <1>2
    <1>4. inflight' \in Flight /\ inflight'.events = inflight.events /\ inflight'.left = inflight.left
          /\ inflight'.sent = inflight.sent \cup {sends + 1}
      BY <1>1, <1>2, <1>3 DEF Flight
    <1> DEFINE f == Frame(inflight, sends + 1)
    <1>5. f \in BatchFrame /\ f.kind = "batch" /\ f.events = inflight.events
      BY <1>2, <1>3 DEF Frame, BatchFrame, Flight
    <1>6. f \in ServerFrame /\ toServer' = Append(toServer, f)
      BY <1>1, <1>5 DEF ServerFrame
    <1> HIDE DEF f
    <1>7. toServer' \in Seq(ServerFrame) /\ Range(toServer') = Range(toServer) \cup {f}
      BY <1>2, <1>6, RangeAppend
    <1>8. PolicyShape' /\ QueueShape'
      BY <1>1, <1>7 DEF Shape, PolicyShape, QueueShape
    <1>9. TelemetryShape'
      BY <1>1, <1>3, <1>4, <1>2 DEF Shape, TelemetryShape, Event
    <1>10. \A g \in Incoming' : g \in Incoming \/ g = f
      BY <1>1, <1>7 DEF Incoming
    <1>11. TelemetryMove
      BY <1>1, <1>5, <1>10 DEF TelemetryMove
    <1> QED BY <1>1, <1>3, <1>4, <1>5, <1>6, <1>8, <1>9, <1>10, <1>11 DEF Shape

\* What an answer leaves: rows it settled or counted are gone from the spool.
LEMMA AgentAnswerMoves ==
    ASSUME Shape, AgentAnswer
    PROVE  /\ Shape' /\ TelemetryMove
           /\ UNCHANGED <<toServer, late, events, stored, forgotten, horizon, now>>
           /\ Range(toAgent') \subseteq Range(toAgent)
           /\ spool' \subseteq spool
           /\ inflight' = None
              \/ /\ inflight # None
                 /\ inflight'.events = inflight.events /\ inflight'.left \subseteq inflight.left
                 /\ inflight'.sent = inflight.sent
           /\ \/ UNCHANGED <<spool, stats>>
              \/ \E f \in Range(toAgent) : Settles(f) /\ spool \ spool' \subseteq f.events /\ UNCHANGED stats
              \/ \E counted \in SUBSET spool :
                    /\ spool \ spool' \subseteq counted
                    /\ stats'.overflow + stats'.expired + stats'.rejected
                       = stats.overflow + stats.expired + stats.rejected + (0 + 0 + Cardinality(counted))
    <1> DEFINE h == Head(toAgent)
    <1>1. /\ toAgent # <<>> /\ toAgent' = Tail(toAgent)
          /\ \/ h.kind = "security_ack" /\ receive_ack(h)
             \/ h.kind = "result" /\ receive_result(h)
          /\ UNCHANGED <<latest, assigned, applications, row, up, supports, toServer, late, running,
                         current, cache, ready, now, seen, events, batches, sends, results, stored, forgotten,
                         horizon>>
      BY DEF AgentAnswer, serverVars, agentVars, connection
    <1>2. toAgent \in Seq(AgentFrame) /\ inflight \in {None} \cup Flight /\ stats \in Stats
          /\ spool \subseteq Event /\ IsFiniteSet(spool)
      BY EventNumbers, FS_Subset DEF Shape, QueueShape, TelemetryShape
    <1>3. h \in AgentFrame /\ h \in Range(toAgent) /\ toAgent' \in Seq(AgentFrame)
          /\ Range(toAgent') \subseteq Range(toAgent)
      BY <1>1, <1>2, RangeTail
    <1> HIDE DEF h
    <1>4. PolicyShape' /\ QueueShape' /\ TelemetryMove
      BY <1>1, <1>3 DEF Shape, PolicyShape, QueueShape, TelemetryMove, Incoming
    <1> DEFINE Kept == /\ spool' \subseteq spool /\ stats' \in Stats /\ inflight' \in {None} \cup Flight
                       /\ inflight' = None
                          \/ /\ inflight # None
                             /\ inflight'.events = inflight.events /\ inflight'.left \subseteq inflight.left
                             /\ inflight'.sent = inflight.sent
               Counted == \/ UNCHANGED <<spool, stats>>
                          \/ \E f \in Range(toAgent) :
                                Settles(f) /\ spool \ spool' \subseteq f.events /\ UNCHANGED stats
                          \/ \E counted \in SUBSET spool :
                                /\ spool \ spool' \subseteq counted
                                /\ stats'.overflow + stats'.expired + stats'.rejected
                                   = stats.overflow + stats.expired + stats.rejected
                                     + (0 + 0 + Cardinality(counted))
    <1>5. Kept /\ Counted => TelemetryShape'
      BY <1>1 DEF Shape, TelemetryShape, Event
    <1> SUFFICES Kept /\ Counted
      BY <1>1, <1>3, <1>4, <1>5 DEF Shape
    <1>6. CASE UNCHANGED <<spool, inflight, stats>>
      BY <1>2, <1>6
    <1>7. CASE h.kind = "security_ack" /\ receive_ack(h) /\ ~UNCHANGED <<spool, inflight, stats>>
      <2>1. spool' = spool \ h.events /\ inflight' = None /\ UNCHANGED stats
        BY <1>7 DEF receive_ack
      <2>2. Settles(h) /\ spool \ spool' \subseteq h.events
        BY <1>7, <2>1 DEF Settles
      <2> QED BY <1>2, <1>3, <2>1, <2>2
    <1>8. CASE h.kind = "result" /\ receive_result(h) /\ ~UNCHANGED <<spool, inflight, stats>>
      <2>1. /\ Applies(h)
            /\ spool' = spool \ Pending(h)
            /\ stats' = [stats EXCEPT !.rejected = @ + Rejections(h)]
            /\ inflight' = Remaining(h)
        BY <1>8 DEF receive_result
      <2>2. inflight \in Flight /\ Pending(h) \subseteq spool /\ Pending(h) \subseteq h.events
        BY <1>2, <2>1 DEF Applies, Pending
      <2>3. h.disposition \in {"accepted", "rejected"}
        BY <1>3, <1>8, FrameKinds DEF ResultFrame
      <2>4. IsFiniteSet(Pending(h))
        BY <1>2, <2>2, FS_Subset
      <2>5. Cardinality(Pending(h)) \in Nat
        BY <2>4, FS_CardinalityType
      <2>6. Rejections(h) \in Nat
        BY <2>5 DEF Rejections
      <2>7. stats' = [overflow |-> stats.overflow + 0, expired |-> stats.expired + 0,
                      rejected |-> stats.rejected + Rejections(h)]
        <3>1. stats.expired + 0 = stats.expired /\ stats.overflow + 0 = stats.overflow
              /\ stats = [overflow |-> stats.overflow, expired |-> stats.expired,
                          rejected |-> stats.rejected]
          BY <1>2 DEF Stats
        <3> QED BY <2>1, <3>1, Zenon
      <2>8. stats' \in Stats
            /\ stats'.overflow + stats'.expired + stats'.rejected
               = stats.overflow + stats.expired + stats.rejected + (0 + 0 + Rejections(h))
        BY <1>2, <2>6, <2>7, StatsGrow
      <2>9. Kept
        <3>1. CASE inflight' = None
          BY <1>2, <2>1, <2>8, <3>1
        <3>2. CASE inflight' = [inflight EXCEPT !.left = inflight.left \ Pending(h)]
          BY <1>2, <2>1, <2>2, <2>8, <3>2 DEF Flight, Applies
        <3> QED BY <2>1, <3>1, <3>2 DEF Remaining
      <2>10. CASE h.disposition = "accepted"
        <3>1. Rejections(h) = 0
          BY <2>10 DEF Rejections
        <3>2. stats' = stats
          BY <1>2, <2>1, <3>1 DEF Stats
        <3>3. Settles(h) /\ spool \ spool' \subseteq h.events
          BY <1>8, <2>1, <2>2, <2>10 DEF Settles
        <3> QED BY <1>3, <2>9, <3>2, <3>3
      <2>11. CASE h.disposition = "rejected"
        <3>1. Rejections(h) = Cardinality(Pending(h))
          BY <2>11 DEF Rejections
        <3>2. Pending(h) \in SUBSET spool /\ spool \ spool' \subseteq Pending(h)
          BY <2>1, <2>2
        <3> QED BY <2>8, <2>9, <3>1, <3>2
      <2> QED BY <2>3, <2>10, <2>11
    <1> QED BY <1>1, <1>6, <1>7, <1>8

\* What the server answers: one receipt for a batch it stored, or a result for the events
\* it stored and one for those it rejected.
LEMMA AnswersShape ==
    ASSUME NEW b \in BatchFrame, NEW future
    PROVE  /\ Answers(b, future) \in Seq(AgentFrame)
           /\ Stores(b, future) \subseteq ValidEvents(b, future) /\ ValidEvents(b, future) \subseteq b.events
           /\ \A f \in Range(Answers(b, future)) :
                 /\ f.kind # "delivery"
                 /\ Settles(f) => f.events \subseteq Stores(b, future)
                 /\ (f.kind = "result" /\ f.disposition = "rejected") => f.events = b.events \ ValidEvents(b, future)
    <1>1. b.id \in Nat /\ b.seq \in Nat /\ b.events \subseteq Nat
      BY DEF BatchFrame
    <1>2. ValidEvents(b, future) \subseteq b.events
      BY DEF ValidEvents
    <1>3. Stores(b, future) \subseteq ValidEvents(b, future)
      BY DEF Stores
    <1>4. ASSUME NEW d \in {"accepted", "rejected"}, NEW rows \in SUBSET Nat
          PROVE  /\ Answer(b, d, rows) \in Seq(AgentFrame)
                 /\ \A f \in Range(Answer(b, d, rows)) :
                       f.kind = "result" /\ f.disposition = d /\ f.events = rows
      <2> DEFINE g == [kind |-> "result", id |-> b.id, seq |-> b.seq, disposition |-> d, events |-> rows]
      <2>1. g \in AgentFrame /\ g.kind = "result" /\ g.disposition = d /\ g.events = rows
        BY <1>1 DEF AgentFrame, ResultFrame
      <2>2. Answer(b, d, rows) \in {<<>>, <<g>>}
        BY DEF Answer
      <2> HIDE DEF g
      <2>3. <<g>> \in Seq(AgentFrame) /\ Range(<<g>>) = {g}
        BY <2>1 DEF Range
      <2> QED BY <2>1, <2>2, <2>3, EmptyQueue
    <1>5. CASE b.results
      <2> DEFINE acc == Answer(b, "accepted", ValidEvents(b, future))
                 rej == Answer(b, "rejected", b.events \ ValidEvents(b, future))
      <2>1. acc \in Seq(AgentFrame)
            /\ \A f \in Range(acc) : f.kind = "result" /\ f.disposition = "accepted" /\ f.events = ValidEvents(b, future)
        BY <1>1, <1>2, <1>4
      <2>2. rej \in Seq(AgentFrame)
            /\ \A f \in Range(rej) : f.kind = "result" /\ f.disposition = "rejected"
                                     /\ f.events = b.events \ ValidEvents(b, future)
        BY <1>1, <1>2, <1>4
      <2>3. Answers(b, future) = acc \o rej /\ Stores(b, future) = ValidEvents(b, future)
        BY <1>5 DEF Answers, Stores
      <2> HIDE DEF acc, rej
      <2>4. Answers(b, future) \in Seq(AgentFrame) /\ Range(Answers(b, future)) = Range(acc) \cup Range(rej)
        BY <2>1, <2>2, <2>3, RangeConcat
      <2> QED BY <1>2, <1>3, <2>1, <2>2, <2>3, <2>4 DEF Settles
    <1>6. CASE ~b.results /\ ValidEvents(b, future) = b.events
      <2> DEFINE g == [kind |-> "security_ack", id |-> b.id, events |-> b.events]
      <2>1. g \in AgentFrame /\ g.kind = "security_ack" /\ g.events = b.events
        BY <1>1 DEF AgentFrame, ReceiptFrame
      <2>2. Answers(b, future) = <<g>> /\ Stores(b, future) = b.events
        BY <1>6 DEF Answers, Stores
      <2> HIDE DEF g
      <2>3. Answers(b, future) \in Seq(AgentFrame) /\ Range(Answers(b, future)) = {g}
        BY <2>1, <2>2 DEF Range
      <2> QED BY <1>2, <1>3, <2>1, <2>2, <2>3
    <1>7. CASE ~b.results /\ ValidEvents(b, future) # b.events
      <2>1. Answers(b, future) = <<>>
        BY <1>7 DEF Answers
      <2> QED BY <1>2, <1>3, <2>1, EmptyQueue
    <1> QED BY <1>5, <1>6, <1>7

\* A batch names events of the device.
Sent ==
    /\ \A f \in Incoming : f.kind = "batch" => f.events \subseteq Event
    /\ inflight # None => /\ inflight.left \subseteq inflight.events
                          /\ inflight.events \subseteq Event
                          /\ inflight.sent \subseteq 1 .. MaxSends

\* What a batch leaves at the server: valid events are stored, before they are answered.
LEMMA BatchMoves ==
    ASSUME Shape, Sent, ServerBatch \/ LateBatch
    PROVE  /\ Shape' /\ TelemetryMove
           /\ UNCHANGED <<events, spool, stats, inflight, forgotten, horizon, now>>
           /\ Incoming' \subseteq Incoming
           /\ \E b \in BatchFrame : \E future \in SUBSET Ahead(b) :
                 /\ b \in Incoming
                 /\ stored' = stored \cup Stores(b, future)
                 /\ \A f \in Range(toAgent') : f \in Range(toAgent) \/ f \in Range(Answers(b, future))
    <1>1. CASE ServerBatch
      <2> DEFINE b == Head(toServer)
      <2> PICK future \in SUBSET Ahead(b) :
            stored' = stored \cup Stores(b, future) /\ toAgent' = toAgent \o Answers(b, future)
        BY <1>1 DEF ServerBatch
      <2>1. /\ toServer # <<>> /\ b.kind = "batch"
            /\ stored' = stored \cup Stores(b, future)
            /\ toAgent' = toAgent \o Answers(b, future)
            /\ toServer' = Tail(toServer)
            /\ UNCHANGED <<latest, assigned, applications, row, up, supports, late, running, current,
                           cache, ready, now, seen, events, spool, stats, batches, horizon, inflight, sends,
                           results, forgotten>>
        BY <1>1 DEF ServerBatch, serverVars, agentVars, agentSpool, connection
      <2>2. toServer' \in Seq(ServerFrame) /\ Range(toServer') \subseteq Range(toServer)
            /\ b \in ServerFrame /\ b \in Range(toServer)
        BY <2>1, RangeTail DEF Shape, QueueShape
      <2> HIDE DEF b
      <2>3. b \in BatchFrame /\ b \in Incoming
        BY <2>1, <2>2, FrameKinds DEF Incoming
      <2>4. Stores(b, future) \subseteq Event /\ Answers(b, future) \in Seq(AgentFrame)
        BY <2>1, <2>3, AnswersShape DEF Sent
      <2>5. toAgent' \in Seq(AgentFrame) /\ Range(toAgent') = Range(toAgent) \cup Range(Answers(b, future))
        BY <2>1, <2>4, RangeConcat DEF Shape, QueueShape
      <2>6. Incoming' \subseteq Incoming
        BY <2>1, <2>2 DEF Incoming
      <2>7. PolicyShape' /\ QueueShape' /\ TelemetryMove
        BY <2>1, <2>2, <2>5, <2>6 DEF Shape, PolicyShape, QueueShape, TelemetryMove
      <2>8. TelemetryShape'
        BY <2>1, <2>4 DEF Shape, TelemetryShape, Event
      <2> QED BY <2>1, <2>3, <2>5, <2>6, <2>7, <2>8 DEF Shape
    <1>2. CASE LateBatch
      <2> DEFINE b == Head(late)
      <2> PICK future \in SUBSET Ahead(b) :
            /\ stored' = stored \cup Stores(b, future)
            /\ late' = IF Answers(b, future) = <<>> THEN Tail(late) ELSE <<>>
        BY <1>2 DEF LateBatch
      <2>1. /\ late # <<>> /\ b.kind = "batch"
            /\ stored' = stored \cup Stores(b, future)
            /\ late' \in {<<>>, Tail(late)}
            /\ UNCHANGED <<latest, assigned, applications, row, up, supports, toServer, toAgent,
                           running, current, cache, ready, now, seen, events, spool, stats, batches, horizon,
                           inflight, sends, results, forgotten>>
        BY <1>2 DEF LateBatch, serverVars, agentVars, agentSpool, connection
      <2>2. late' \in Seq(ServerFrame) /\ Range(late') \subseteq Range(late)
            /\ b \in ServerFrame /\ b \in Range(late)
        BY <2>1, RangeTail, EmptyQueue DEF Shape, QueueShape
      <2> HIDE DEF b
      <2>3. b \in BatchFrame /\ b \in Incoming
        BY <2>1, <2>2, FrameKinds DEF Incoming
      <2>4. Stores(b, future) \subseteq Event
        BY <2>1, <2>3, AnswersShape DEF Sent
      <2>5. Incoming' \subseteq Incoming
        BY <2>1, <2>2 DEF Incoming
      <2>6. PolicyShape' /\ QueueShape' /\ TelemetryMove
        BY <2>1, <2>2, <2>5 DEF Shape, PolicyShape, QueueShape, TelemetryMove
      <2>7. TelemetryShape'
        BY <2>1, <2>4 DEF Shape, TelemetryShape, Event
      <2> QED BY <2>1, <2>3, <2>5, <2>6, <2>7 DEF Shape
    <1> QED BY <1>1, <1>2

\* A row that expires was stored.
LEMMA RetainMoves ==
    ASSUME Shape, retain_security_events
    PROVE  /\ Shape' /\ TelemetryMove
           /\ UNCHANGED <<policyVars, events, spool, stats, inflight, horizon>>
           /\ \E e \in stored : Old(e) /\ stored' = stored \ {e} /\ forgotten' = forgotten \cup {e}
    <1>1. PICK e \in stored : Old(e) /\ stored' = stored \ {e} /\ forgotten' = forgotten \cup {e}
      BY DEF retain_security_events
    <1>2. UNCHANGED <<policyVars, seen, events, spool, stats, batches, horizon, inflight, sends, results>>
      BY DEF retain_security_events, agentSpool, connection
    <1>3. PolicyShape' /\ QueueShape' /\ TelemetryMove
      BY <1>2 DEF Shape, PolicyShape, QueueShape, policyVars, TelemetryMove, Incoming
    <1>4. TelemetryShape'
      BY <1>1, <1>2 DEF Shape, TelemetryShape, Event
    <1> QED BY <1>1, <1>2, <1>3, <1>4 DEF Shape

-----------------------------------------------------------------------------
\* Accounts

Total == stats.overflow + stats.expired + stats.rejected

\* Events that left the spool without being stored.
Unstored == Left \ (stored \cup forgotten)

Accounts ==
    /\ Cardinality(spool) <= MaxSpool
    /\ \A f \in Range(toAgent) : Settles(f) => f.events \subseteq stored \cup forgotten
    /\ Cardinality(Unstored) <= Total

\* The losses of any counters add up to a number.
LEMMA CountsAddUp ==
    ASSUME NEW r \in Stats
    PROVE  r.overflow + r.expired + r.rejected \in Nat
    <1>1. r.overflow \in Nat /\ r.expired \in Nat /\ r.rejected \in Nat
      BY DEF Stats
    <1> QED BY <1>1

\* A step may lose as many events as it counts.
LEMMA LossesCounted ==
    ASSUME Shape, Shape', Accounts, NEW counted, NEW c \in Nat,
           IsFiniteSet(counted), Cardinality(counted) <= c,
           Unstored' \subseteq Unstored \cup counted, Total' = Total + c
    PROVE  Cardinality(Unstored') <= Total'
    <1>1. IsFiniteSet(Unstored)
      BY EventNumbers, FS_Subset DEF Shape, TelemetryShape, Unstored, Left
    <1>2. IsFiniteSet(Unstored \cup counted)
          /\ Cardinality(Unstored \cup counted)
             = Cardinality(Unstored) + Cardinality(counted) - Cardinality(Unstored \cap counted)
      BY <1>1, FS_Union
    <1>3. IsFiniteSet(Unstored \cap counted) /\ IsFiniteSet(Unstored')
      BY <1>1, <1>2, FS_Subset
    <1>4. Cardinality(Unstored') <= Cardinality(Unstored \cup counted)
      BY <1>2, FS_Subset
    <1>5. /\ Cardinality(Unstored) \in Nat /\ Cardinality(counted) \in Nat
          /\ Cardinality(Unstored \cap counted) \in Nat /\ Cardinality(Unstored') \in Nat
          /\ Cardinality(Unstored \cup counted) \in Nat
      BY <1>1, <1>2, <1>3, FS_CardinalityType
    <1>6. Total \in Nat /\ Total' \in Nat
      <2>1. stats \in Stats
        BY DEF Shape, TelemetryShape
      <2>2. Total \in Nat
        BY <2>1, CountsAddUp DEF Total
      <2> HIDE DEF Total
      <2> QED BY <2>2
    <1>7. Cardinality(Unstored) <= Total
      BY DEF Accounts
    <1> QED BY <1>2, <1>4, <1>5, <1>6, <1>7

\* A smaller spool is within its limit.
LEMMA SpoolBound ==
    ASSUME Shape, Accounts, spool' \subseteq spool
    PROVE  Cardinality(spool') <= MaxSpool
    <1>1. IsFiniteSet(spool)
      BY EventNumbers, FS_Subset DEF Shape, TelemetryShape
    <1>2. IsFiniteSet(spool') /\ Cardinality(spool') <= Cardinality(spool)
      BY <1>1, FS_Subset
    <1>3. Cardinality(spool) \in Nat /\ Cardinality(spool') \in Nat
      BY <1>1, <1>2, FS_CardinalityType
    <1> QED BY <1>2, <1>3, TelemetryConstants DEF Accounts

Books == Shape /\ Sent /\ Accounts

LEMMA BooksInit ==
    ASSUME Init
    PROVE  Books
    <1>1. PolicyShape
      <2>1. latest \in 0 .. MaxVersion /\ now \in Time
        BY PolicyConstants DEF Init, PolicyInit, Time
      <2>2. up \in BOOLEAN /\ supports \in BOOLEAN /\ running \in BOOLEAN /\ ready \in BOOLEAN
        BY Zenon DEF Init, PolicyInit
      <2>3. row = None /\ applications = {} /\ current = None /\ cache = None
            /\ assigned \in [default : Version \cup {None}, device : Version \cup {None}]
        BY DEF Init, PolicyInit
      <2> QED BY <2>1, <2>2, <2>3 DEF PolicyShape
    <1>2. QueueShape /\ Incoming = {} /\ Range(toAgent) = {}
      BY EmptyQueue DEF Init, PolicyInit, QueueShape, Incoming
    <1>3. seen = None /\ events = <<>> /\ spool = {} /\ stored = {} /\ forgotten = {} /\ inflight = None
          /\ stats = [overflow |-> 0, expired |-> 0, rejected |-> 0]
      BY DEF Init
    <1>4. Event = {}
      BY <1>3 DEF Event
    <1>5. stats \in Stats /\ Total = 0
      BY <1>3 DEF Stats, Total
    <1>6. TelemetryShape
      <2>1. batches \in Nat /\ sends \in 0 .. MaxSends /\ horizon \in Time
        BY PolicyConstants, TelemetryConstants DEF Init, Time
      <2>2. results \in BOOLEAN
        BY Zenon DEF Init
      <2>3. events \in Seq(EventRow)
        BY <1>3
      <2> QED BY <1>3, <1>4, <1>5, <2>1, <2>2, <2>3 DEF TelemetryShape
    <1>7. Sent
      BY <1>2, <1>3 DEF Sent
    <1>8. Unstored = {} /\ Cardinality({}) = 0
      BY <1>4, FS_EmptySet DEF Unstored, Left
    <1>9. Accounts
      BY <1>2, <1>3, <1>5, <1>8, TelemetryConstants DEF Accounts
    <1> QED BY <1>1, <1>2, <1>6, <1>7, <1>9 DEF Books, Shape

\* Steps that leave events, spool, counters and rows alone.
LEMMA BooksUnmoved ==
    ASSUME Accounts, UNCHANGED <<events, spool, stats>>,
           (stored \cup forgotten)' = stored \cup forgotten,
           \A f \in Range(toAgent') : f \in Range(toAgent) \/ ~Settles(f)
    PROVE  Accounts'
    <1>1. Unstored' = Unstored /\ Total' = Total
      BY DEF Unstored, Left, Event, Total
    <1>2. \A f \in Range(toAgent') : Settles(f) => f.events \subseteq (stored \cup forgotten)'
      BY DEF Accounts
    <1> QED BY <1>1, <1>2 DEF Accounts

LEMMA PolicyBooks ==
    ASSUME Books, PolicyStep \/ SessionBegins \/ SessionEnds
    PROVE  Books'
    <1>1. Shape' /\ PolicyMove
      BY PolicyMoves DEF Books
    <1>2. UNCHANGED <<events, spool, stats, stored, forgotten>> /\ Event' = Event
      BY <1>1 DEF PolicyMove, agentSpool, Event
    <1>3. Sent'
      BY <1>1, <1>2 DEF Books, Sent, PolicyMove, QueueMove
    <1>4. \A f \in Range(toAgent') : f \in Range(toAgent) \/ ~Settles(f)
      BY <1>1 DEF PolicyMove, QueueMove, Settles
    <1>5. Accounts'
      BY <1>2, <1>4, BooksUnmoved DEF Books
    <1> QED BY <1>1, <1>3, <1>5 DEF Books

LEMMA RecordBooks ==
    ASSUME Books, record
    PROVE  Books'
    <1>1. Shape /\ Sent /\ Accounts
      BY DEF Books
    <1>2. Shape' /\ UNCHANGED <<toAgent, inflight, stored, forgotten>> /\ Incoming' = Incoming
      BY <1>1, RecordMoves
    <1> DEFINE n == Len(events) + 1
    <1>3. Event' = Event \cup {n}
      BY <1>1, NewEvent
    <1>4. PICK new \in SUBSET {n}, d \in {0, 1} :
          /\ d = IF new = {} THEN 1 ELSE 0
          /\ spool' = Trimmed(KeptRows(new))
          /\ Cardinality(spool \ Fresh) \in Nat /\ IsFiniteSet(spool \ Fresh)
          /\ Cardinality(KeptRows(new) \ Trimmed(KeptRows(new))) \in Nat
          /\ IsFiniteSet(KeptRows(new) \ Trimmed(KeptRows(new)))
          /\ Cardinality(spool') <= MaxSpool
          /\ Total' = Total + (Cardinality(KeptRows(new) \ Trimmed(KeptRows(new))) + Cardinality(spool \ Fresh) + d)
      BY <1>1, RecordCounts DEF Total
    <1> DEFINE kept == KeptRows(new)
               lost == {n} \ new
               counted == (spool \ Fresh) \cup (kept \ Trimmed(kept)) \cup lost
               c == Cardinality(kept \ Trimmed(kept)) + Cardinality(spool \ Fresh) + d
    <1>5. Sent'
      BY <1>1, <1>2, <1>3 DEF Sent
    <1>6. IsFiniteSet(counted) /\ Cardinality(counted) <= c /\ c \in Nat
      <2> DEFINE A == spool \ Fresh
                 B == kept \ Trimmed(kept)
      <2>1. IsFiniteSet(A) /\ IsFiniteSet(B) /\ Cardinality(A) \in Nat /\ Cardinality(B) \in Nat
        BY <1>4
      <2>2. IsFiniteSet(lost) /\ Cardinality(lost) = d
        <3>1. CASE new = {}
          <4>1. lost = {n} /\ d = 1
            BY <1>4, <3>1
          <4> QED BY <4>1, FS_Singleton
        <3>2. CASE new # {}
          <4>1. lost = {} /\ d = 0
            BY <1>4, <3>2
          <4> QED BY <4>1, FS_EmptySet
        <3> QED BY <3>1, <3>2
      <2> HIDE DEF A, B, lost
      <2>3. IsFiniteSet(A \cup B)
            /\ Cardinality(A \cup B) = Cardinality(A) + Cardinality(B) - Cardinality(A \cap B)
        BY <2>1, FS_Union
      <2>4. Cardinality(A \cap B) \in Nat
        BY <2>1, FS_Subset, FS_CardinalityType
      <2>5. IsFiniteSet(A \cup B \cup lost)
            /\ Cardinality(A \cup B \cup lost)
               = Cardinality(A \cup B) + Cardinality(lost) - Cardinality((A \cup B) \cap lost)
        BY <2>2, <2>3, FS_Union
      <2>6. Cardinality((A \cup B) \cap lost) \in Nat
        BY <2>2, FS_Subset, FS_CardinalityType
      <2>7. Cardinality(A \cup B \cup lost) <= Cardinality(B) + Cardinality(A) + d
            /\ Cardinality(B) + Cardinality(A) + d \in Nat
        BY <2>1, <2>2, <2>3, <2>4, <2>5, <2>6
      <2> QED BY <2>5, <2>7 DEF A, B
    <1>7. Unstored' \subseteq Unstored \cup counted
      BY <1>2, <1>3, <1>4 DEF Unstored, Left, KeptRows
    <1>8. Total' = Total + c
      BY <1>4
    <1> HIDE DEF c, counted
    <1>9. Cardinality(Unstored') <= Total'
      BY <1>1, <1>2, <1>6, <1>7, <1>8, LossesCounted
    <1>10. Accounts'
      BY <1>1, <1>2, <1>4, <1>9 DEF Accounts
    <1> QED BY <1>2, <1>5, <1>10 DEF Books

LEMMA ReadBooks ==
    ASSUME Books, ReadPolicy
    PROVE  Books'
    <1>1. Shape' /\ UNCHANGED <<toAgent, toServer, late, events, spool, stats, inflight, stored, forgotten>>
      BY ReadMoves DEF Books, policyVars
    <1>2. Sent'
      BY <1>1 DEF Books, Sent, Incoming, Event
    <1>3. Accounts'
      BY <1>1, BooksUnmoved DEF Books
    <1> QED BY <1>1, <1>2, <1>3 DEF Books

LEMMA AgeBooks ==
    ASSUME Books, Age
    PROVE  Books'
    <1>1. Shape' /\ UNCHANGED <<toAgent, toServer, late, events, spool, stats, inflight, stored, forgotten>>
      BY AgeMoves DEF Books, policyVars
    <1>2. Sent'
      BY <1>1 DEF Books, Sent, Incoming, Event
    <1>3. Accounts'
      BY <1>1, BooksUnmoved DEF Books
    <1> QED BY <1>1, <1>2, <1>3 DEF Books

LEMMA SendBooks ==
    ASSUME Books, SendNext \/ Resend
    PROVE  Books'
    <1>1. Shape /\ Sent /\ Accounts
      BY DEF Books
    <1>2. CASE SendNext
      <2>1. /\ Shape' /\ UNCHANGED <<toAgent, events, stored, forgotten>>
            /\ spool' = Fresh /\ Cardinality(spool \ Fresh) \in Nat
            /\ Total' = Total + (0 + Cardinality(spool \ Fresh) + 0)
            /\ inflight'.events \subseteq Event /\ inflight'.left \subseteq inflight'.events
            /\ inflight'.sent \subseteq 1 .. MaxSends
            /\ \A f \in Incoming' : f \in Incoming \/ f.events \subseteq Event
        BY <1>1, <1>2, SendNextMoves DEF Total
      <2>2. Event' = Event
        BY <2>1 DEF Event
      <2>3. Sent'
        BY <1>1, <2>1, <2>2 DEF Sent
      <2>4. Fresh \subseteq spool /\ IsFiniteSet(spool \ Fresh)
        BY <1>1, RowsOfSpool, EventNumbers, FS_Subset DEF Shape, TelemetryShape
      <2>5. Unstored' \subseteq Unstored \cup (spool \ Fresh)
        BY <2>1, <2>2 DEF Unstored, Left
      <2>6. 0 + Cardinality(spool \ Fresh) + 0 \in Nat
            /\ Cardinality(spool \ Fresh) <= 0 + Cardinality(spool \ Fresh) + 0
        BY <2>1
      <2>7. Cardinality(Unstored') <= Total'
        BY <1>1, <2>1, <2>4, <2>5, <2>6, LossesCounted
      <2>8. Cardinality(spool') <= MaxSpool
        BY <1>1, <2>1, <2>4, SpoolBound
      <2>9. Accounts'
        BY <1>1, <2>1, <2>7, <2>8 DEF Accounts
      <2> QED BY <2>1, <2>3, <2>9 DEF Books
    <1>3. CASE Resend
      <2>1. /\ Shape' /\ UNCHANGED <<toAgent, events, spool, stats, stored, forgotten>>
            /\ inflight # None
            /\ inflight'.events = inflight.events /\ inflight'.left = inflight.left
            /\ inflight.sent \subseteq 1 .. MaxSends => inflight'.sent \subseteq 1 .. MaxSends
            /\ \A f \in Incoming' : f \in Incoming \/ f.events = inflight.events
        BY <1>1, <1>3, ResendMoves
      <2>2. Event' = Event
        BY <2>1 DEF Event
      <2>3. Sent'
        BY <1>1, <2>1, <2>2 DEF Sent
      <2>4. Accounts'
        BY <1>1, <2>1, BooksUnmoved
      <2> QED BY <2>1, <2>3, <2>4 DEF Books
    <1> QED BY <1>2, <1>3

LEMMA AnswerBooks ==
    ASSUME Books, AgentAnswer
    PROVE  Books'
    <1>1. Shape /\ Sent /\ Accounts
      BY DEF Books
    <1>2. /\ Shape' /\ UNCHANGED <<toServer, late, events, stored, forgotten>>
          /\ Range(toAgent') \subseteq Range(toAgent) /\ spool' \subseteq spool
          /\ inflight' = None
             \/ /\ inflight # None
                /\ inflight'.events = inflight.events /\ inflight'.left \subseteq inflight.left
                /\ inflight'.sent = inflight.sent
      BY <1>1, AgentAnswerMoves
    <1>3. Event' = Event /\ Incoming' = Incoming
      BY <1>2 DEF Event, Incoming
    <1>4. Sent'
      BY <1>1, <1>2, <1>3 DEF Sent
    <1>5. Cardinality(spool') <= MaxSpool
      BY <1>1, <1>2, SpoolBound
    <1>6. Cardinality(Unstored') <= Total'
      <2>1. CASE UNCHANGED <<spool, stats>>
        <3>1. Unstored' = Unstored /\ Total' = Total
          BY <1>2, <2>1 DEF Unstored, Left, Event, Total
        <3> QED BY <1>1, <3>1 DEF Accounts
      <2>2. ASSUME NEW f \in Range(toAgent), Settles(f), spool \ spool' \subseteq f.events, UNCHANGED stats
            PROVE  Cardinality(Unstored') <= Total'
        <3>1. f.events \subseteq stored \cup forgotten
          BY <1>1, <2>2 DEF Accounts
        <3>2. Unstored' \subseteq Unstored \cup {}
          BY <1>2, <1>3, <2>2, <3>1 DEF Unstored, Left
        <3>3. Total \in Nat
          BY <1>1, CountsAddUp DEF Shape, TelemetryShape, Total
        <3>4. Total' = Total + 0
          BY <2>2, <3>3 DEF Total
        <3>5. IsFiniteSet({}) /\ Cardinality({}) <= 0
          BY FS_EmptySet
        <3> QED BY <1>1, <1>2, <3>2, <3>4, <3>5, LossesCounted
      <2>3. ASSUME NEW counted \in SUBSET spool, spool \ spool' \subseteq counted,
                   Total' = Total + (0 + 0 + Cardinality(counted))
            PROVE  Cardinality(Unstored') <= Total'
        <3>1. IsFiniteSet(counted)
          BY <1>1, EventNumbers, FS_Subset DEF Shape, TelemetryShape
        <3>2. Cardinality(counted) \in Nat
          BY <3>1, FS_CardinalityType
        <3>3. 0 + 0 + Cardinality(counted) \in Nat
              /\ Cardinality(counted) <= 0 + 0 + Cardinality(counted)
          BY <3>2
        <3>4. Unstored' \subseteq Unstored \cup counted
          BY <1>2, <1>3, <2>3 DEF Unstored, Left
        <3> QED BY <1>1, <1>2, <2>3, <3>1, <3>3, <3>4, LossesCounted
      <2> QED BY <1>1, <2>1, <2>2, <2>3, AgentAnswerMoves DEF Total
    <1>7. Accounts'
      BY <1>1, <1>2, <1>5, <1>6 DEF Accounts
    <1> QED BY <1>2, <1>4, <1>7 DEF Books

LEMMA BatchBooks ==
    ASSUME Books, ServerBatch \/ LateBatch
    PROVE  Books'
    <1>1. Shape /\ Sent /\ Accounts
      BY DEF Books
    <1>2. PICK b \in BatchFrame : \E future \in SUBSET Ahead(b) :
            /\ b \in Incoming
            /\ stored' = stored \cup Stores(b, future)
            /\ \A f \in Range(toAgent') : f \in Range(toAgent) \/ f \in Range(Answers(b, future))
      BY <1>1, BatchMoves
    <1> PICK future \in SUBSET Ahead(b) :
            /\ stored' = stored \cup Stores(b, future)
            /\ \A f \in Range(toAgent') : f \in Range(toAgent) \/ f \in Range(Answers(b, future))
      BY <1>2
    <1>3. /\ Shape' /\ UNCHANGED <<events, spool, stats, inflight, forgotten>>
          /\ Incoming' \subseteq Incoming
      BY <1>1, BatchMoves
    <1>4. Event' = Event
      BY <1>3 DEF Event
    <1>5. Sent'
      BY <1>1, <1>3, <1>4 DEF Sent
    <1>6. \A f \in Range(toAgent') : Settles(f) => f.events \subseteq stored' \cup forgotten'
      BY <1>1, <1>2, <1>3, AnswersShape DEF Accounts
    <1>7. Unstored' \subseteq Unstored \cup {}
      BY <1>2, <1>3, <1>4 DEF Unstored, Left
    <1>8. Total \in Nat
      BY <1>1, CountsAddUp DEF Shape, TelemetryShape, Total
    <1>9. Total' = Total + 0
      BY <1>3, <1>8 DEF Total
    <1>10. IsFiniteSet({}) /\ Cardinality({}) <= 0
      BY FS_EmptySet
    <1>11. Cardinality(Unstored') <= Total'
      BY <1>1, <1>3, <1>7, <1>9, <1>10, LossesCounted
    <1>12. Accounts'
      BY <1>1, <1>3, <1>6, <1>11 DEF Accounts
    <1> QED BY <1>3, <1>5, <1>12 DEF Books

LEMMA RetainBooks ==
    ASSUME Books, retain_security_events
    PROVE  Books'
    <1>1. Shape' /\ UNCHANGED <<toAgent, toServer, late, events, spool, stats, inflight>>
      BY RetainMoves DEF Books, policyVars
    <1>2. (stored \cup forgotten)' = stored \cup forgotten
      BY RetainMoves DEF Books
    <1>3. Sent'
      BY <1>1 DEF Books, Sent, Incoming, Event
    <1>4. Accounts'
      BY <1>1, <1>2, BooksUnmoved DEF Books
    <1> QED BY <1>1, <1>3, <1>4 DEF Books

LEMMA BooksStep ==
    ASSUME Books, [Next]_vars
    PROVE  Books'
    <1>1. CASE UNCHANGED vars
      <2>1. UNCHANGED <<policyVars, telemetryVars>>
        BY <1>1 DEF vars
      <2>2. Shape'
        BY <2>1 DEF Books, Shape, PolicyShape, QueueShape, TelemetryShape, Event, policyVars, telemetryVars
      <2>3. Sent' /\ Accounts'
        BY <2>1 DEF Books, Sent, Accounts, Incoming, Event, Unstored, Left, Total, policyVars, telemetryVars
      <2> QED BY <2>2, <2>3 DEF Books
    <1>2. CASE Next
      BY <1>2, PolicyBooks, ReadBooks, RecordBooks, AgeBooks, SendBooks, AnswerBooks, BatchBooks, RetainBooks DEF Next
    <1> QED BY <1>1, <1>2

\* The shape and the books give what the run checks.
LEMMA BooksAccounted ==
    ASSUME Books
    PROVE  Accounted
    <1>1. TypeOK
      BY DEF Books, Shape, PolicyShape, TelemetryShape, Sent, Accounts, TypeOK, DeviceRow, EventRow, Read, Stats
    <1> QED BY <1>1 DEF Books, Accounts, Accounted, Unstored, Total

\* No event disappears: whatever answers are lost, repeated or overtaken by the spool
\* dropping rows, an event that left the spool (spool.py _expire, _trim, acknowledge,
\* apply_result) is stored by the server or counted, for any number of events, versions,
\* faults and any size of spool and batch.
THEOREM AccountedAlways == Spec => []Accounted
    <1>1. Init => Books
      BY BooksInit
    <1>2. Books /\ [Next]_vars => Books'
      BY BooksStep
    <1>3. Books => Accounted
      BY BooksAccounted
    <1> QED BY <1>1, <1>2, <1>3, PTL DEF Spec

-----------------------------------------------------------------------------
\* Retention

\* Expired rows are of events too old to be stored, and gone.
Gone == \A e \in forgotten : Old(e) /\ e \notin stored

LEMMA GoneStep ==
    ASSUME Books, Gone, Next
    PROVE  Gone' /\ forgotten \cap stored' = {}
    <1>1. Shape /\ Sent /\ forgotten \subseteq Event /\ horizon \in Time
      BY DEF Books, Shape, TelemetryShape
    <1>2. ASSUME UNCHANGED <<stored, forgotten, horizon>>, \A e \in Event : events'[e] = events[e]
          PROVE  Gone' /\ forgotten \cap stored' = {}
      BY <1>1, <1>2 DEF Gone, Old
    <1>3. CASE PolicyStep \/ SessionBegins \/ SessionEnds
      BY <1>1, <1>2, <1>3, PolicyMoves DEF PolicyMove, agentSpool
    <1>4. CASE record \/ ReadPolicy
      BY <1>1, <1>2, <1>4, RecordMoves, NewEvent, ReadMoves
    <1>5. CASE Age
      <2>1. UNCHANGED <<events, stored, forgotten>> /\ horizon' >= horizon /\ horizon' \in Time
        BY <1>1, <1>5, AgeMoves DEF Shape, TelemetryShape
      <2>2. \A e \in forgotten : events[e].at \in Time
        BY <1>1, EventNumbers DEF Shape, TelemetryShape, EventRow
      <2>3. \A e \in forgotten : events[e].at < horizon'
        BY <1>1, <2>1, <2>2, PolicyConstants DEF Gone, Old, Time
      <2> QED BY <2>1, <2>3 DEF Gone, Old
    <1>6. CASE SendNext
      BY <1>1, <1>2, <1>6, SendNextMoves
    <1>7. CASE Resend
      BY <1>1, <1>2, <1>7, ResendMoves
    <1>8. CASE AgentAnswer
      BY <1>1, <1>2, <1>8, AgentAnswerMoves
    <1>9. CASE ServerBatch \/ LateBatch
      <2>1. PICK b \in BatchFrame : \E future \in SUBSET Ahead(b) : stored' = stored \cup Stores(b, future)
        BY <1>1, <1>9, BatchMoves
      <2> PICK future \in SUBSET Ahead(b) : stored' = stored \cup Stores(b, future)
        BY <2>1
      <2>2. UNCHANGED <<events, forgotten, horizon>>
        BY <1>1, <1>9, BatchMoves
      <2>3. \A e \in Stores(b, future) : ~Old(e)
        BY AnswersShape DEF ValidEvents, Valid
      <2>4. forgotten \cap stored' = {}
        BY <2>1, <2>3 DEF Gone
      <2> QED BY <2>2, <2>4 DEF Gone, Old
    <1>10. CASE retain_security_events
      <2>1. PICK e \in stored : Old(e) /\ stored' = stored \ {e} /\ forgotten' = forgotten \cup {e}
        BY <1>1, <1>10, RetainMoves
      <2>2. UNCHANGED <<events, horizon>>
        BY <1>1, <1>10, RetainMoves
      <2> QED BY <2>1, <2>2 DEF Gone, Old
    <1> QED BY <1>3, <1>4, <1>5, <1>6, <1>7, <1>8, <1>9, <1>10 DEF Next

\* An event whose row has expired (retention.py) is never stored again, however often its
\* batch is sent: the server takes no event older than its bound (ingestion.py).
THEOREM NotStoredAgainAlways == Spec => NotStoredAgain
    <1>1. Init => Books /\ Gone
      BY BooksInit DEF Init, Gone
    <1>2. Books /\ Gone /\ [Next]_vars => (Books /\ Gone)' /\ [forgotten \cap stored' = {}]_vars
      <2> SUFFICES ASSUME Books, Gone, [Next]_vars
                   PROVE  (Books /\ Gone)' /\ [forgotten \cap stored' = {}]_vars
        OBVIOUS
      <2>1. Books'
        BY BooksStep
      <2>2. CASE Next
        BY <2>1, <2>2, GoneStep
      <2>3. CASE UNCHANGED vars
        BY <2>1, <2>3 DEF Gone, Old, vars, telemetryVars
      <2> QED BY <2>2, <2>3
    <1> QED BY <1>1, <1>2, PTL DEF Spec, NotStoredAgain

-----------------------------------------------------------------------------
\* Periods of a policy

\* Applications of a policy the agent reports in a queue, and all the server knows or
\* may still learn.
Success(f) == f.kind = "ack" /\ f.error = None
Reports == {f \in Incoming : Success(f)}
Reported(v, at) == [v |-> v, at |-> at] \in applications \/ \E f \in Reports : f.v = v /\ f.at = at

\* Nothing is reported later than the policy in the cache was applied.
Newer ==
    /\ current \in {None, cache}
    /\ cache # None => cache.at <= now
    /\ \A v \in Version, at \in Time :
          Reported(v, at) => cache # None /\ at <= cache.at /\ (at = cache.at => v = cache.v)

\* No other application was reported between a policy in force and the event.
InForce(e) ==
    /\ events[e].under.at <= events[e].at
    /\ \A v \in Version, at \in Time :
          Reported(v, at) => /\ at <= events[e].under.at \/ at > events[e].at
                             /\ at = events[e].under.at => v = events[e].under.v
Periods ==
    \A e \in Event :
       /\ events[e].v = events[e].under.v /\ events[e].v \in Audited /\ events[e].at <= now
       /\ events[e].steady => InForce(e)

\* The server learns what was reported, and the agent keeps or loses its policy.
Learns ==
    /\ UNCHANGED cache /\ now' >= now
    /\ current' \in {current, None, cache}
    /\ \A f \in Reports' : f \in Reports
    /\ \A a \in applications' : a \in applications
                                \/ \E f \in Reports : a = [v |-> f.v, at |-> f.at]

LEMMA LearnsPolicy ==
    ASSUME Shape, \/ AdminNext \/ ServerNext \/ StartAgent \/ Heartbeat
                  \/ Connect \/ Disconnect \/ AgentStops \/ ServerAckRejected
    PROVE  Learns
    <1>1. UNCHANGED <<cache, now>> /\ current' \in {current, None, cache}
      BY DEF AdminNext, create_policy_version, assign_policy, ServerNext, ServerHeartbeat, ServerAck,
             LateFrame, StartAgent, Heartbeat, Connect, Disconnect, AgentStops, ServerAckRejected,
             StopAgent, agentVars
    <1>2. QueueMove({"heartbeat"})
      BY AdminMoves, HeartbeatMoves, ServerHeartbeatMoves, ServerAckMoves, LateFrameMoves,
         StartMoves, ConnectMoves, EndMoves DEF ServerNext
    <1>3. \A f \in Reports' : f \in Reports
      BY <1>2 DEF QueueMove, Reports, Success
    <1>4. ASSUME NEW ack \in Incoming, ack.kind = "ack", NEW by, record_policy_ack(ack, by)
          PROVE  \A a \in applications' : a \in applications
                                          \/ \E f \in Reports : a = [v |-> f.v, at |-> f.at]
      BY <1>4 DEF record_policy_ack, Reports, Success
    <1>5. \A a \in applications' : a \in applications \/ \E f \in Reports : a = [v |-> f.v, at |-> f.at]
      <2>1. CASE UNCHANGED applications
        BY <2>1
      <2>2. CASE ServerAck
        <3>1. Head(toServer) \in Incoming
          BY <2>2, RangeTail DEF ServerAck, Shape, QueueShape, Incoming
        <3> QED BY <1>4, <2>2, <3>1 DEF ServerAck
      <2>3. CASE LateFrame
        <3>1. Head(late) \in Incoming
          BY <2>3, RangeTail DEF LateFrame, Shape, QueueShape, Incoming
        <3> QED BY <1>4, <2>1, <2>3, <3>1 DEF LateFrame
      <2>4. CASE AdminNext \/ ServerHeartbeat \/ StartAgent \/ Heartbeat
                 \/ Connect \/ Disconnect \/ AgentStops \/ ServerAckRejected
        <3>1. UNCHANGED applications
          BY <2>4 DEF AdminNext, create_policy_version, assign_policy, ServerHeartbeat, StartAgent,
             Heartbeat, Connect, Disconnect, AgentStops, ServerAckRejected, serverVars
        <3> QED BY <2>1, <3>1
      <2> QED BY <2>2, <2>3, <2>4 DEF ServerNext
    <1>6. now' >= now
      BY <1>1 DEF Shape, PolicyShape, Time
    <1> QED BY <1>1, <1>3, <1>5, <1>6 DEF Learns

LEMMA LearnsTelemetry ==
    ASSUME Shape, TelemetryMove, now' \in {now, now + 1}
    PROVE  Learns
    <1>1. \A f \in Reports' : f \in Reports
      BY DEF TelemetryMove, Reports, Success
    <1>2. now' >= now
      BY DEF Shape, PolicyShape, Time
    <1> QED BY <1>1, <1>2 DEF Learns, TelemetryMove

\* What was not reported before is not reported by learning.
LEMMA LearnsNothingNew ==
    ASSUME Learns, NEW v, NEW at, Reported(v, at)'
    PROVE  Reported(v, at)
    <1> DEFINE a == [v |-> v, at |-> at]
    <1>1. a \in applications' \/ \E f \in Reports' : f.v = v /\ f.at = at
      BY DEF Reported
    <1>2. CASE \E f \in Reports' : f.v = v /\ f.at = at
      BY <1>2 DEF Learns, Reported
    <1>3. CASE a \in applications'
      <2>1. CASE a \in applications
        BY <2>1 DEF Reported
      <2>2. ASSUME NEW f \in Reports, a = [v |-> f.v, at |-> f.at]
            PROVE  Reported(v, at)
        <3>1. a.v = f.v /\ a.at = f.at /\ a.v = v /\ a.at = at
          BY <2>2
        <3> QED BY <3>1 DEF Reported
      <2> QED BY <1>3, <2>1, <2>2 DEF Learns
    <1> QED BY <1>1, <1>2, <1>3

LEMMA NewerLearns ==
    ASSUME Shape, Shape', Newer, Learns
    PROVE  Newer'
    <1>1. current' \in {None, cache'}
      BY DEF Newer, Learns
    <1>2. cache' # None => cache'.at <= now'
      BY PolicyConstants DEF Newer, Learns, Shape, PolicyShape, Application, Time
    <1>3. ASSUME NEW v \in Version, NEW at \in Time, Reported(v, at)'
          PROVE  cache' # None /\ at <= cache'.at /\ (at = cache'.at => v = cache'.v)
      <2>1. Reported(v, at)
        BY <1>3, LearnsNothingNew
      <2> QED BY <2>1 DEF Newer, Learns
    <1> QED BY <1>1, <1>2, <1>3 DEF Newer

LEMMA PeriodsLearn ==
    ASSUME Shape, Shape', Periods, Learns, UNCHANGED events
    PROVE  Periods'
    <1>1. Event' = Event
      BY DEF Event
    <1> SUFFICES ASSUME NEW e \in Event
                 PROVE /\ events[e].v = events[e].under.v /\ events[e].v \in Audited /\ events[e].at <= now'
                       /\ events[e].steady => InForce(e)'
      BY <1>1 DEF Periods
    <1>2. events[e].at \in Time
      BY EventNumbers DEF Shape, TelemetryShape, EventRow
    <1>3. events[e].at <= now'
      BY <1>2, PolicyConstants DEF Periods, Learns, Shape, PolicyShape, Time
    <1>4. InForce(e) => InForce(e)'
      BY LearnsNothingNew DEF InForce
    <1> QED BY <1>3, <1>4 DEF Periods

\* A delivery is applied and reported at a new time, or fails and is not reported.
LEMMA Delivers ==
    ASSUME Shape, AgentDelivery
    PROVE  \/ Learns
           \/ \E w \in Version :
                 /\ now' = now + 1 /\ now' \in Time
                 /\ cache' = [v |-> w, at |-> now'] /\ current' = cache'
                 /\ \A v, at : Reported(v, at)' => Reported(v, at) \/ (v = w /\ at = now')
    <1> DEFINE w == Head(toAgent).v
    <1>1. toAgent # <<>> /\ Head(toAgent).kind = "delivery"
          /\ UNCHANGED <<applications, late>>
      BY DEF AgentDelivery, serverVars
    <1>2. w \in Version
      BY <1>1, RangeTail, FrameKinds DEF Shape, QueueShape, DeliveryFrame
    <1>3. PICK error \in {None} \cup AckError :
            /\ IF error = None THEN Tick ELSE UNCHANGED now
            /\ apply_delivery(w, error)
      BY DEF AgentDelivery
    <1>4. now' \in Time
      BY <1>3, PolicyConstants DEF Tick, Shape, PolicyShape, Time
    <1> DEFINE a == [kind |-> "ack", v |-> w, at |-> now', error |-> error]
    <1>5. a \in ServerFrame /\ a.error = error /\ a.v = w /\ a.at = now'
      BY <1>2, <1>3, <1>4 DEF ServerFrame, AckFrame
    <1>6. toServer' = Append(toServer, a)
      BY <1>3 DEF apply_delivery
    <1> HIDE DEF a, w
    <1>7. Range(toServer') = Range(toServer) \cup {a}
      BY <1>5, <1>6, RangeAppend DEF Shape, QueueShape
    <1>8. \A f \in Incoming' : f \in Incoming \/ f = a
      BY <1>1, <1>7 DEF Incoming
    <1>9. \A f \in Reports' : f \in Reports \/ (f = a /\ a.error = None)
      BY <1>8 DEF Reports, Success
    <1>10. CASE error = None
      <2>1. now' = now + 1 /\ cache' = [v |-> w, at |-> now'] /\ current' = cache'
        BY <1>3, <1>10 DEF Tick, apply_delivery
      <2>2. \A v, at : Reported(v, at)' => Reported(v, at) \/ (v = w /\ at = now')
        BY <1>1, <1>5, <1>9 DEF Reported
      <2> QED BY <1>2, <1>4, <2>1, <2>2
    <1>11. CASE error # None
      <2>1. UNCHANGED <<now, cache, current>>
        BY <1>3, <1>11 DEF apply_delivery
      <2>2. now' >= now
        BY <2>1 DEF Shape, PolicyShape, Time
      <2> QED BY <1>1, <1>5, <1>9, <1>11, <2>1, <2>2 DEF Learns
    <1> QED BY <1>10, <1>11

LEMMA DeliveryPeriods ==
    ASSUME Shape, Shape', Newer, Periods, AgentDelivery, UNCHANGED events
    PROVE  Newer' /\ Periods'
    <1>1. CASE Learns
      BY <1>1, NewerLearns, PeriodsLearn
    <1>2. ASSUME NEW w \in Version,
                 now' = now + 1, now' \in Time,
                 cache' = [v |-> w, at |-> now'], current' = cache',
                 \A v, at : Reported(v, at)' => Reported(v, at) \/ (v = w /\ at = now')
          PROVE  Newer' /\ Periods'
      <2>1. cache'.v = w /\ cache'.at = now' /\ now \in Nat /\ cache' \in Application
        BY <1>2, PolicyConstants DEF Shape, PolicyShape, Time, Application
      <2>2. cache' # None
        BY <2>1, PolicyConstants
      <2>3. \A v \in Version, at \in Time : Reported(v, at) => at <= now
        BY PolicyConstants DEF Newer, Shape, PolicyShape, Application, Time
      <2>4. ASSUME NEW v \in Version, NEW at \in Time, Reported(v, at)'
            PROVE  at <= cache'.at /\ (at = cache'.at => v = cache'.v)
        <3>1. CASE v = w /\ at = now'
          BY <2>1, <3>1 DEF Time
        <3>2. CASE Reported(v, at)
          <4>1. at <= now
            BY <2>3, <3>2
          <4> QED BY <1>2, <2>1, <4>1 DEF Time
        <3> QED BY <1>2, <2>4, <3>1, <3>2
      <2>5. Newer'
        BY <1>2, <2>1, <2>2, <2>4, PolicyConstants DEF Newer, Time
      <2>6. Event' = Event
        BY DEF Event
      <2>7. ASSUME NEW e \in Event
            PROVE /\ events[e].v = events[e].under.v /\ events[e].v \in Audited /\ events[e].at <= now'
                  /\ events[e].steady => InForce(e)'
        <3>1. events[e].at \in Nat /\ events[e].under.at \in Nat
          BY EventNumbers, PolicyConstants DEF Shape, TelemetryShape, EventRow, Application, Time
        <3>2. events[e].at <= now
          BY DEF Periods
        <3>3. events[e].at < now' /\ events[e].at <= now'
          BY <1>2, <2>1, <3>1, <3>2
        <3>4. ASSUME InForce(e) PROVE InForce(e)'
          <4>1. events[e].under.at < now' /\ events[e].under.at <= events[e].at
            BY <1>2, <2>1, <3>1, <3>3, <3>4 DEF InForce
          <4>2. ASSUME NEW v \in Version, NEW at \in Time, Reported(v, at)'
                PROVE  /\ at <= events[e].under.at \/ at > events[e].at
                       /\ at = events[e].under.at => v = events[e].under.v
            <5>1. CASE v = w /\ at = now'
              BY <2>1, <3>1, <3>3, <4>1, <5>1, <1>2
            <5>2. CASE Reported(v, at)
              BY <3>4, <5>2 DEF InForce
            <5> QED BY <1>2, <4>2, <5>1, <5>2
          <4> QED BY <4>1, <4>2 DEF InForce
        <3> QED BY <3>3, <3>4 DEF Periods
      <2>8. Periods'
        BY <2>6, <2>7 DEF Periods
      <2> QED BY <2>5, <2>8
    <1> QED BY <1>1, <1>2, Delivers

LEMMA RecordPeriods ==
    ASSUME Shape, Newer, Periods, record
    PROVE  Newer' /\ Periods'
    <1>1. Shape' /\ TelemetryMove /\ now' = now + 1
      BY RecordMoves, NewEvent
    <1>2. Learns
      BY <1>1, LearnsTelemetry
    <1>3. Newer'
      BY <1>1, <1>2, NewerLearns
    <1> PICK n : n = Len(events) + 1
      OBVIOUS
    <1>4. /\ Event' = Event \cup {n} /\ n \notin Event
          /\ \A e \in Event : events'[e] = events[e]
          /\ seen \in Application /\ seen.v \in Audited
      BY NewEvent
    <1>5. ASSUME NEW e \in Event
          PROVE /\ events'[e].v = events'[e].under.v /\ events'[e].v \in Audited /\ events'[e].at <= now'
                /\ events'[e].steady => InForce(e)'
      <2>1. events'[e] = events[e] /\ events[e].at \in Time
        BY <1>4, EventNumbers DEF Shape, TelemetryShape, EventRow
      <2>2. events[e].at <= now'
        <3>1. events[e].at <= now /\ now \in Nat /\ events[e].at \in Nat
          BY <2>1, PolicyConstants DEF Periods, Shape, PolicyShape, Time
        <3> QED BY <1>1, <3>1
      <2>3. InForce(e) => InForce(e)'
        BY <1>2, <2>1, LearnsNothingNew DEF InForce
      <2> QED BY <2>1, <2>2, <2>3 DEF Periods
    <1>6. /\ events'[n].v = events'[n].under.v /\ events'[n].v \in Audited /\ events'[n].at <= now'
          /\ events'[n].steady => InForce(n)'
      <2>1. PICK at_ \in Time, ahead_ \in BOOLEAN : at_ <= now' /\ events'[n] = Stamped(at_, ahead_)
        BY NewEvent
      <2>2. /\ events'[n].v = seen.v /\ events'[n].under = seen /\ events'[n].at = at_
            /\ events'[n].steady = (seen = current /\ seen.at <= at_)
        <3> DEFINE claim == seen = current /\ seen.at <= at_
                   r == [v |-> seen.v, at |-> at_, under |-> seen, ahead |-> ahead_, steady |-> claim]
        <3>1. events'[n] = r
          BY <2>1 DEF Stamped
        <3> HIDE DEF claim
        <3>2. r.v = seen.v /\ r.under = seen /\ r.at = at_ /\ r.steady = claim
          OBVIOUS
        <3> QED BY <3>1, <3>2 DEF claim
      <2>3. ASSUME seen = current, seen.at <= at_
            PROVE  InForce(n)'
        <3>1. current = cache /\ current # None
          BY <1>4, <2>3, PolicyConstants DEF Newer
        <3>2. \A v \in Version, at \in Time :
                Reported(v, at)' => at <= current.at /\ (at = current.at => v = current.v)
          BY <1>2, <3>1, LearnsNothingNew DEF Newer
        <3> QED BY <2>2, <2>3, <3>2 DEF InForce
      <2> QED BY <1>4, <2>1, <2>2, <2>3
    <1>7. Periods'
      BY <1>4, <1>5, <1>6 DEF Periods
    <1> QED BY <1>3, <1>7

Timeline == Books /\ Newer /\ Periods

LEMMA TimelineInit ==
    ASSUME Init
    PROVE  Timeline
    <1>1. Books
      BY BooksInit
    <1>2. applications = {} /\ toServer = <<>> /\ late = <<>> /\ events = <<>> /\ current = None /\ cache = None
      BY DEF Init, PolicyInit
    <1>3. Reports = {}
      BY <1>2, EmptyQueue DEF Reports, Incoming
    <1>4. Newer
      BY <1>2, <1>3 DEF Newer, Reported
    <1>5. Periods
      BY <1>2 DEF Periods, Event
    <1> QED BY <1>1, <1>4, <1>5 DEF Timeline

LEMMA TimelineStep ==
    ASSUME Timeline, [Next]_vars
    PROVE  Timeline'
    <1>1. Shape /\ Sent /\ Newer /\ Periods /\ Books' /\ Shape'
      BY BooksStep DEF Timeline, Books
    <1> SUFFICES Newer' /\ Periods'
      BY <1>1 DEF Timeline
    <1>2. ASSUME Learns, UNCHANGED events
          PROVE  Newer' /\ Periods'
      BY <1>1, <1>2, NewerLearns, PeriodsLearn
    <1>3. CASE UNCHANGED vars
      <2>1. UNCHANGED <<cache, now, current, applications, toServer, late, events>>
        BY <1>3 DEF vars, policyVars, telemetryVars
      <2>2. now' >= now
        BY <1>1, <2>1 DEF Shape, PolicyShape, Time
      <2>3. Learns
        BY <2>1, <2>2 DEF Learns, Reports, Incoming
      <2> QED BY <1>2, <2>1, <2>3
    <1>4. CASE PolicyStep \/ SessionBegins \/ SessionEnds
      <2>1. UNCHANGED events
        BY <1>1, <1>4, PolicyMoves DEF PolicyMove, agentSpool
      <2>2. CASE AgentDelivery
        BY <1>1, <2>1, <2>2, DeliveryPeriods
      <2>3. CASE Learns
        BY <1>2, <2>1, <2>3
      <2> QED BY <1>1, <1>4, <2>2, <2>3, LearnsPolicy DEF PolicyStep, SessionBegins, SessionEnds
    <1>5. CASE record
      BY <1>1, <1>5, RecordPeriods
    <1>6. CASE ReadPolicy \/ Age \/ SendNext \/ Resend \/ AgentAnswer \/ ServerBatch \/ LateBatch \/ retain_security_events
      <2>1. TelemetryMove /\ UNCHANGED <<events, now>>
        BY <1>1, <1>6, ReadMoves, AgeMoves, SendNextMoves, ResendMoves, AgentAnswerMoves, BatchMoves, RetainMoves
           DEF policyVars
      <2>2. Learns
        BY <1>1, <2>1, LearnsTelemetry
      <2> QED BY <1>2, <2>1, <2>2
    <1> QED BY <1>3, <1>4, <1>5, <1>6 DEF Next

\* The server finds the policy an event was seen under, once it knows its application.
LEMMA Recognised ==
    ASSUME Shape, Periods, NEW e \in Event, events[e].steady, events[e].under \in applications, ~Old(e),
           NEW future, e \notin future
    PROVE  Valid(e, future)
    <1> DEFINE u == events[e].under
               S == AppliedAt(events[e].at)
    <1>1. u \in Application /\ events[e].at \in Nat /\ u.at \in Nat
      BY EventNumbers, PolicyConstants DEF Shape, TelemetryShape, EventRow, Application, Time
    <1>2. InForce(e)
      BY DEF Periods
    <1>9. u.at <= events[e].at /\ events[e].v = u.v /\ events[e].v \in Audited
      BY <1>2 DEF Periods, InForce
    <1>3. u \in S
      BY <1>9 DEF AppliedAt
    <1>4. ASSUME NEW a \in S
          PROVE  a.at \in Nat /\ a.at <= u.at /\ (a.at = u.at => a.v = u.v)
      <2>1. a \in applications /\ a \in Application /\ a.at <= events[e].at
        BY <1>4 DEF AppliedAt, Shape, PolicyShape
      <2>2. a = [v |-> a.v, at |-> a.at] /\ a.v \in Version /\ a.at \in Time
        BY <2>1 DEF Application
      <2>3. Reported(a.v, a.at)
        BY <2>1, <2>2 DEF Reported
      <2>4. (a.at <= u.at \/ a.at > events[e].at) /\ (a.at = u.at => a.v = u.v)
        BY <1>2, <2>2, <2>3 DEF InForce
      <2> QED BY <1>1, <2>1, <2>2, <2>4, PolicyConstants DEF Time
    <1> HIDE DEF u, S
    <1>5. \E a \in S : \A b \in S : b.at <= a.at
      BY <1>3, <1>4
    <1>6. Newest(S) \in S /\ \A b \in S : b.at <= Newest(S).at
      BY <1>5 DEF Newest
    <1>7. Newest(S).at = u.at
      BY <1>1, <1>3, <1>4, <1>6
    <1>8. Newest(S).v = u.v
      BY <1>4, <1>6, <1>7
    <1> QED BY <1>9, <1>3, <1>8 DEF Valid, S

LEMMA RotationStep ==
    ASSUME Timeline, Next, NEW f \in Range(toAgent') \ Range(toAgent),
           f.kind = "result", f.disposition = "rejected", NEW e \in f.events,
           events[e].steady, events[e].under \in applications
    PROVE  Old(e) \/ events[e].ahead
    <1>1. Shape /\ Sent /\ Periods
      BY DEF Timeline, Books
    <1>2. CASE ServerBatch \/ LateBatch
      <2>1. PICK b \in BatchFrame : \E future \in SUBSET Ahead(b) :
              /\ b \in Incoming
              /\ \A g \in Range(toAgent') : g \in Range(toAgent) \/ g \in Range(Answers(b, future))
        BY <1>1, <1>2, BatchMoves
      <2> PICK future \in SUBSET Ahead(b) :
              \A g \in Range(toAgent') : g \in Range(toAgent) \/ g \in Range(Answers(b, future))
        BY <2>1
      <2>2. f \in Range(Answers(b, future))
        OBVIOUS
      <2>3. e \in b.events /\ e \notin ValidEvents(b, future)
        BY <2>2, AnswersShape
      <2>4. b.kind = "batch"
        BY DEF BatchFrame
      <2>5. e \in Event /\ ~Valid(e, future)
        BY <1>1, <2>1, <2>3, <2>4 DEF Sent, ValidEvents
      <2>6. e \in future => events[e].ahead
        BY DEF Ahead
      <2> QED BY <1>1, <2>5, <2>6, Recognised
    <1>3. CASE PolicyStep \/ SessionBegins \/ SessionEnds
      BY <1>1, <1>3, PolicyMoves DEF PolicyMove, QueueMove
    <1>4. CASE ReadPolicy \/ record \/ Age \/ SendNext \/ Resend \/ AgentAnswer \/ retain_security_events
      <2>1. Range(toAgent') \subseteq Range(toAgent)
        BY <1>1, <1>4, ReadMoves, RecordMoves, AgeMoves, SendNextMoves, ResendMoves, AgentAnswerMoves, RetainMoves
           DEF policyVars
      <2> QED BY <2>1
    <1> QED BY <1>2, <1>3, <1>4 DEF Next

\* A rotation of the policy rejects nothing that belongs to the policy it names: whatever
\* is rotated while an event waits in the spool, is on its way or is sent again, the
\* server that knows the application does not reject an event of its time as outside the
\* policy (ingestion.py).
THEOREM RotationKeepsEventsAlways == Spec => RotationKeepsEvents
    <1>1. Init => Timeline
      BY TimelineInit
    <1>2. Timeline /\ [Next]_vars => Timeline'
      BY TimelineStep
    <1>3. Timeline /\ [Next]_vars
          => [\A f \in Range(toAgent') \ Range(toAgent) :
                 f.kind = "result" /\ f.disposition = "rejected"
                 => \A e \in f.events :
                       events[e].steady /\ events[e].under \in applications => Old(e) \/ events[e].ahead]_vars
      BY RotationStep
    <1> QED BY <1>1, <1>2, <1>3, PTL DEF Spec, RotationKeepsEvents

-----------------------------------------------------------------------------
\* Agreement on the policy

\* The last successful acknowledgement in a queue is for this policy, or there is none.
LastSays(q, policy) ==
    \A i \in 1 .. Len(q) :
       Success(q[i]) /\ (\A j \in 1 .. Len(q) : j > i => ~Success(q[j]))
       => policy # None /\ policy.v = q[i].v
Silent(q) == \A i \in 1 .. Len(q) : ~Success(q[i])

AppliedLive == row # None /\ row.status = "APPLIED" /\ row.by = "live"

Agrees ==
    /\ row # None => resolve_effective_policy # None
    /\ up => running
    /\ up => LastSays(toServer, current)
    /\ up /\ Silent(toServer) /\ AppliedLive => current # None /\ current.v = row.v

LEMMA TailSays ==
    ASSUME NEW S, NEW q \in Seq(S), q # <<>>, NEW policy, LastSays(q, policy)
    PROVE  /\ LastSays(Tail(q), policy)
           /\ ~Success(Head(q)) /\ Silent(Tail(q)) => Silent(q)
           /\ Success(Head(q)) /\ Silent(Tail(q)) => policy # None /\ policy.v = Head(q).v
    <1> DEFINE r == Tail(q)
    <1>1. /\ Head(q) = q[1] /\ Len(q) \in Nat /\ Len(q) >= 1 /\ Len(r) = Len(q) - 1
          /\ \A i \in 1 .. Len(r) : r[i] = q[i + 1]
      OBVIOUS
    <1> HIDE DEF r
    <1>2. \A i \in 1 .. Len(q) : i = 1 \/ (i - 1 \in 1 .. Len(r) /\ q[i] = r[i - 1])
      BY <1>1
    <1>3. ASSUME NEW i \in 1 .. Len(r), Success(r[i]), \A j \in 1 .. Len(r) : j > i => ~Success(r[j])
          PROVE  policy # None /\ policy.v = r[i].v
      <2>1. i + 1 \in 1 .. Len(q) /\ r[i] = q[i + 1]
        BY <1>1
      <2>2. ASSUME NEW j \in 1 .. Len(q), j > i + 1
            PROVE  ~Success(q[j])
        <3>1. j - 1 \in 1 .. Len(r) /\ j - 1 > i /\ q[j] = r[j - 1]
          BY <1>1, <1>2, <2>2
        <3> QED BY <1>3, <3>1
      <2> QED BY <1>3, <2>1, <2>2 DEF LastSays
    <1>4. ASSUME ~Success(Head(q)), Silent(r)
          PROVE  Silent(q)
      BY <1>1, <1>2, <1>4 DEF Silent
    <1>5. ASSUME Success(Head(q)), Silent(r)
          PROVE  policy # None /\ policy.v = Head(q).v
      <2>1. 1 \in 1 .. Len(q) /\ Success(q[1])
        BY <1>1, <1>5
      <2>2. ASSUME NEW j \in 1 .. Len(q), j > 1
            PROVE  ~Success(q[j])
        <3>1. j - 1 \in 1 .. Len(r) /\ q[j] = r[j - 1]
          BY <1>2, <2>2
        <3> QED BY <1>5, <3>1 DEF Silent
      <2> QED BY <1>1, <2>1, <2>2 DEF LastSays
    <1> QED BY <1>3, <1>4, <1>5 DEF r, LastSays

LEMMA AppendSays ==
    ASSUME NEW S, NEW q \in Seq(S), NEW f \in S, NEW policy
    PROVE  /\ ~Success(f) /\ LastSays(q, policy) => LastSays(Append(q, f), policy)
           /\ Silent(Append(q, f)) => Silent(q) /\ ~Success(f)
           /\ policy # None /\ policy.v = f.v /\ Success(f) => LastSays(Append(q, f), policy)
    <1> DEFINE r == Append(q, f)
    <1>1. /\ Len(q) \in Nat /\ Len(r) = Len(q) + 1 /\ r[Len(q) + 1] = f
          /\ \A i \in 1 .. Len(q) : r[i] = q[i]
      OBVIOUS
    <1> HIDE DEF r
    <1>2. \A i \in 1 .. Len(r) : i = Len(q) + 1 \/ i \in 1 .. Len(q)
      BY <1>1
    <1>3. \A i \in 1 .. Len(q) : i \in 1 .. Len(r) /\ Len(q) + 1 > i
      BY <1>1
    <1>4. Len(q) + 1 \in 1 .. Len(r)
      BY <1>1
    <1>5. ASSUME ~Success(f), LastSays(q, policy)
          PROVE  LastSays(r, policy)
      <2> SUFFICES ASSUME NEW i \in 1 .. Len(r), Success(r[i]),
                          \A j \in 1 .. Len(r) : j > i => ~Success(r[j])
                   PROVE  policy # None /\ policy.v = r[i].v
        BY DEF LastSays
      <2>1. i \in 1 .. Len(q) /\ r[i] = q[i]
        BY <1>1, <1>2, <1>5
      <2>2. \A j \in 1 .. Len(q) : j > i => ~Success(q[j])
        BY <1>1, <1>3
      <2> QED BY <1>5, <2>1, <2>2 DEF LastSays
    <1>6. ASSUME Silent(r)
          PROVE  Silent(q) /\ ~Success(f)
      BY <1>1, <1>3, <1>4, <1>6 DEF Silent
    <1>7. ASSUME policy # None, policy.v = f.v, Success(f)
          PROVE  LastSays(r, policy)
      <2> SUFFICES ASSUME NEW i \in 1 .. Len(r), Success(r[i]),
                          \A j \in 1 .. Len(r) : j > i => ~Success(r[j])
                   PROVE  policy # None /\ policy.v = r[i].v
        BY DEF LastSays
      <2>1. CASE i = Len(q) + 1
        BY <1>1, <1>7, <2>1
      <2>2. CASE i \in 1 .. Len(q)
        BY <1>1, <1>3, <1>4, <1>7, <2>2
      <2> QED BY <1>2, <2>1, <2>2
    <1> QED BY <1>5, <1>6, <1>7 DEF r

\* The effective policy is never taken back.
LEMMA EffectiveStays ==
    ASSUME Shape, AdminNext, resolve_effective_policy # None
    PROVE  (resolve_effective_policy # None)'
    <1>1. CASE create_policy_version
      BY <1>1 DEF create_policy_version, resolve_effective_policy
    <1>2. ASSUME NEW scope \in {"default", "device"}, assign_policy(scope)
          PROVE  (resolve_effective_policy # None)'
      <2>1. PICK v \in 1 .. latest : assigned' = [assigned EXCEPT ![scope] = v]
        BY <1>2 DEF assign_policy
      <2>2. v # None
        BY <2>1, PolicyConstants DEF Shape, PolicyShape
      <2>3. assigned \in [default : Version \cup {None}, device : Version \cup {None}]
        BY DEF Shape, PolicyShape
      <2>4. CASE scope = "default"
        <3>1. assigned'.default = v /\ assigned'.device = assigned.device
          BY <2>1, <2>3, <2>4
        <3> QED BY <2>2, <3>1 DEF resolve_effective_policy
      <2>5. CASE scope = "device"
        <3>1. assigned'.device = v
          BY <2>1, <2>3, <2>5
        <3> QED BY <2>2, <3>1 DEF resolve_effective_policy
      <2> QED BY <2>4, <2>5
    <1> QED BY <1>1, <1>2 DEF AdminNext

\* After preparing a delivery the row waits for its answer, or nothing was due.
LEMMA PreparedAgrees ==
    ASSUME NEW changed_only \in BOOLEAN, NEW feature \in BOOLEAN, NEW frames,
           prepare_policy_delivery(changed_only, feature, frames)
    PROVE  \/ AppliedLive' = FALSE /\ resolve_effective_policy # None
           \/ row' = row /\ (resolve_effective_policy = None \/ changed_only)
    <1>1. PICK retry \in {FALSE} \cup {RetryReadiness} :
            IF Due(changed_only, retry)
            THEN row' = [v |-> resolve_effective_policy, error |-> None, by |-> "none",
                         status |-> IF feature THEN "PENDING" ELSE "UNSUPPORTED"]
            ELSE UNCHANGED row
      BY DEF prepare_policy_delivery
    <1>2. CASE Due(changed_only, retry)
      <2>1. row'.by = "none"
        BY <1>1, <1>2
      <2> QED BY <1>2, <2>1 DEF Due, AppliedLive
    <1>3. CASE ~Due(changed_only, retry)
      BY <1>1, <1>3 DEF Due
    <1> QED BY <1>2, <1>3

\* Steps that take a frame other than a success from the queue, or add one.
LEMMA QueueAgrees ==
    ASSUME Shape, Agrees, UNCHANGED <<up, running, current>>,
           AppliedLive' => AppliedLive /\ row' = row,
           row' # None => resolve_effective_policy' # None,
           \/ toServer' = toServer
           \/ toServer # <<>> /\ toServer' = Tail(toServer) /\ ~Success(Head(toServer))
           \/ \E f \in ServerFrame : toServer' = Append(toServer, f) /\ ~Success(f)
    PROVE  Agrees'
    <1>1. toServer \in Seq(ServerFrame)
      BY DEF Shape, QueueShape
    <1>2. up => LastSays(toServer', current) /\ (Silent(toServer') => Silent(toServer))
      BY <1>1, TailSays, AppendSays DEF Agrees
    <1>3. up' => LastSays(toServer', current')
      BY <1>2
    <1>4. up' /\ Silent(toServer') /\ AppliedLive' => current' # None /\ current'.v = row'.v
      BY <1>2 DEF Agrees
    <1>5. (up => LastSays(toServer, current))'
      BY <1>3 DEF LastSays, Success
    <1>6. (up /\ Silent(toServer) /\ AppliedLive => current # None /\ current.v = row.v)'
      BY <1>4 DEF Silent, Success
    <1> QED BY <1>5, <1>6 DEF Agrees

LEMMA AdminAgrees ==
    ASSUME Shape, Agrees, AdminNext \/ StartAgent \/ Heartbeat
    PROVE  Agrees'
    <1>1. CASE AdminNext
      <2>1. UNCHANGED <<row, up, running, current, toServer>>
        BY <1>1 DEF AdminNext, create_policy_version, assign_policy, agentVars
      <2>2. row' # None => resolve_effective_policy' # None
        BY <1>1, <2>1, EffectiveStays DEF Agrees
      <2>3. AppliedLive' = AppliedLive
        BY <2>1 DEF AppliedLive
      <2> QED BY <2>1, <2>2, <2>3, QueueAgrees
    <1>2. CASE StartAgent
      <2>1. ~up' /\ UNCHANGED <<row, assigned>>
        BY <1>2 DEF StartAgent, serverVars, Agrees, Shape, PolicyShape
      <2> QED BY <2>1 DEF Agrees, resolve_effective_policy
    <1>3. CASE Heartbeat
      <2> DEFINE h == [kind |-> "heartbeat"]
      <2>1. h \in ServerFrame /\ ~Success(h)
        BY DEF ServerFrame, Success
      <2>2. toServer' = Append(toServer, h) /\ UNCHANGED <<assigned, row, up, running, current>>
        BY <1>3 DEF Heartbeat, serverVars, agentVars
      <2> HIDE DEF h
      <2>3. AppliedLive' = AppliedLive /\ resolve_effective_policy' = resolve_effective_policy
        BY <2>2 DEF AppliedLive, resolve_effective_policy
      <2>4. row' # None => resolve_effective_policy' # None
        BY <2>2, <2>3 DEF Agrees
      <2> QED BY <2>1, <2>2, <2>3, <2>4, QueueAgrees
    <1> QED BY <1>1, <1>2, <1>3

LEMMA ServerHeartbeatAgrees ==
    ASSUME Shape, Agrees, ServerHeartbeat
    PROVE  Agrees'
    <1>1. PICK frames \in Prepared : prepare_policy_delivery(TRUE, supports, frames)
      BY DEF ServerHeartbeat, Prepared
    <1>2. toServer # <<>> /\ toServer' = Tail(toServer) /\ ~Success(Head(toServer))
          /\ UNCHANGED <<assigned, up, running, current>>
      BY DEF ServerHeartbeat, serverVars, agentVars, Success
    <1>3. resolve_effective_policy' = resolve_effective_policy /\ supports \in BOOLEAN
      BY <1>2 DEF resolve_effective_policy, Shape, PolicyShape
    <1>4. \/ AppliedLive' = FALSE /\ resolve_effective_policy # None
          \/ row' = row
      BY <1>1, <1>3, PreparedAgrees
    <1>5. AppliedLive' => AppliedLive /\ row' = row
      BY <1>4 DEF AppliedLive
    <1>6. row' # None => resolve_effective_policy' # None
      BY <1>3, <1>4 DEF Agrees
    <1> QED BY <1>2, <1>5, <1>6, QueueAgrees

LEMMA ServerAckAgrees ==
    ASSUME Shape, Agrees, ServerAck
    PROVE  Agrees'
    <1> DEFINE h == Head(toServer)
    <1>1. up /\ toServer # <<>> /\ toServer' = Tail(toServer) /\ h.kind = "ack"
          /\ AckMatches(h) /\ record_policy_ack(h, "live")
          /\ UNCHANGED <<assigned, up, running, current>>
      BY DEF ServerAck, agentVars
    <1>2. resolve_effective_policy' = resolve_effective_policy
          /\ row \in DeviceRow /\ h.v = row.v /\ row # None
      BY <1>1 DEF resolve_effective_policy, AckMatches, Shape, PolicyShape
    <1>3. toServer \in Seq(ServerFrame)
      BY DEF Shape, QueueShape
    <1>4. LastSays(toServer, current)
      BY <1>1 DEF Agrees
    <1>5. /\ LastSays(Tail(toServer), current)
          /\ Success(h) /\ Silent(Tail(toServer)) => current # None /\ current.v = h.v
      BY <1>1, <1>3, <1>4, TailSays
    <1>6. row'.v = row.v /\ (row'.status = "APPLIED" => h.error = None)
      BY <1>1, <1>2 DEF record_policy_ack, DeviceRow
    <1> HIDE DEF h
    <1>7. LastSays(toServer', current')
      BY <1>1, <1>5
    <1>8. Silent(toServer') /\ AppliedLive' => current' # None /\ current'.v = row'.v
      BY <1>1, <1>2, <1>5, <1>6 DEF AppliedLive, Success
    <1>9. (LastSays(toServer, current))'
      BY <1>7 DEF LastSays, Success
    <1>10. (Silent(toServer) /\ AppliedLive => current # None /\ current.v = row.v)'
      BY <1>8 DEF Silent, Success
    <1> QED BY <1>1, <1>2, <1>9, <1>10 DEF Agrees

LEMMA LateFrameAgrees ==
    ASSUME Shape, Agrees, LateFrame
    PROVE  Agrees'
    <1>1. UNCHANGED <<assigned, up, running, current, toServer>>
      BY DEF LateFrame, agentVars
    <1>2. resolve_effective_policy' = resolve_effective_policy /\ supports \in BOOLEAN
      BY <1>1 DEF resolve_effective_policy, Shape, PolicyShape
    <1> SUFFICES /\ AppliedLive' => AppliedLive /\ row' = row
                 /\ row' # None => resolve_effective_policy # None
      BY <1>1, <1>2, QueueAgrees
    <1>3. CASE AckMatches(Head(late)) /\ record_policy_ack(Head(late), "late")
      <2>1. row \in DeviceRow /\ row # None
        BY <1>3 DEF AckMatches, Shape, PolicyShape
      <2>2. row'.by = "late"
        BY <1>3, <2>1 DEF record_policy_ack, DeviceRow
      <2> QED BY <2>1, <2>2 DEF AppliedLive, Agrees
    <1>4. CASE \E frames \in Prepared : prepare_policy_delivery(TRUE, supports, frames)
      <2>1. \/ AppliedLive' = FALSE /\ resolve_effective_policy # None
            \/ row' = row
        BY <1>2, <1>4, PreparedAgrees
      <2> QED BY <2>1 DEF AppliedLive, Agrees
    <1>5. CASE UNCHANGED row
      BY <1>5 DEF AppliedLive, Agrees
    <1> QED BY <1>3, <1>4, <1>5 DEF LateFrame, Prepared

LEMMA ConnectAgrees ==
    ASSUME Shape, Agrees, Connect
    PROVE  Agrees'
    <1>1. PICK feature \in Feature, frames \in Prepared : prepare_policy_delivery(FALSE, feature, frames)
      BY DEF Connect, Prepared
    <1>2. running /\ toServer' = <<>> /\ UNCHANGED <<assigned, running, current>>
      BY DEF Connect, serverVars
    <1>3. resolve_effective_policy' = resolve_effective_policy /\ feature \in BOOLEAN
      BY <1>2, PolicyConstants DEF resolve_effective_policy
    <1>4. \/ AppliedLive' = FALSE /\ resolve_effective_policy # None
          \/ row' = row /\ resolve_effective_policy = None
      BY <1>1, <1>3, PreparedAgrees
    <1>5. ~AppliedLive' /\ (row' # None => resolve_effective_policy # None)
      BY <1>4 DEF Agrees, AppliedLive
    <1>6. Len(toServer') = 0
      BY <1>2
    <1>7. (LastSays(toServer, current))'
      BY <1>6 DEF LastSays
    <1> QED BY <1>2, <1>3, <1>5, <1>7 DEF Agrees

LEMMA EndAgrees ==
    ASSUME Agrees, Disconnect \/ AgentStops \/ ServerAckRejected
    PROVE  Agrees'
    <1>1. ~up' /\ UNCHANGED <<row, assigned>>
      BY DEF Disconnect, AgentStops, ServerAckRejected, StopAgent, serverVars
    <1> QED BY <1>1 DEF Agrees, resolve_effective_policy

LEMMA AgentDeliveryAgrees ==
    ASSUME Shape, Agrees, AgentDelivery
    PROVE  Agrees'
    <1> DEFINE w == Head(toAgent).v
    <1>1. up /\ toAgent # <<>> /\ Head(toAgent).kind = "delivery"
          /\ UNCHANGED <<assigned, row, up, running>>
      BY DEF AgentDelivery, serverVars
    <1>2. w \in Version /\ toServer \in Seq(ServerFrame)
      BY <1>1, RangeTail, FrameKinds DEF Shape, QueueShape, DeliveryFrame
    <1>3. PICK error \in {None} \cup AckError :
            /\ IF error = None THEN Tick ELSE UNCHANGED now
            /\ apply_delivery(w, error)
      BY DEF AgentDelivery
    <1>4. now' \in Time
      BY <1>3, PolicyConstants DEF Tick, Shape, PolicyShape, Time
    <1> DEFINE a == [kind |-> "ack", v |-> w, at |-> now', error |-> error]
    <1>5. a \in ServerFrame /\ a.kind = "ack" /\ a.error = error /\ a.v = w
      BY <1>2, <1>3, <1>4 DEF ServerFrame, AckFrame
    <1>6. toServer' = Append(toServer, a)
      BY <1>3 DEF apply_delivery
    <1> HIDE DEF a, w
    <1>7. AppliedLive' = AppliedLive /\ resolve_effective_policy' = resolve_effective_policy
      BY <1>1 DEF AppliedLive, resolve_effective_policy
    <1>8. CASE error = None
      <2>1. current' = [v |-> w, at |-> now']
        BY <1>3, <1>8 DEF apply_delivery
      <2>2. current' \in Application /\ current'.v = a.v
        BY <1>2, <1>4, <1>5, <2>1 DEF Application
      <2>3. current' # None /\ Success(a)
        BY <1>5, <1>8, <2>2, PolicyConstants DEF Success
      <2>4. LastSays(toServer', current') /\ ~Silent(toServer')
        BY <1>2, <1>5, <1>6, <2>2, <2>3, AppendSays
      <2>5. (LastSays(toServer, current))'
        BY <2>4 DEF LastSays, Success
      <2>6. (~Silent(toServer))'
        BY <2>4 DEF Silent, Success
      <2> QED BY <1>1, <1>7, <2>5, <2>6 DEF Agrees
    <1>9. CASE error # None
      <2>1. UNCHANGED current /\ ~Success(a)
        BY <1>3, <1>5, <1>9 DEF apply_delivery, Success
      <2>2. row' # None => resolve_effective_policy' # None
        BY <1>1, <1>7 DEF Agrees
      <2> QED BY <1>1, <1>5, <1>6, <1>7, <2>1, <2>2, QueueAgrees
    <1> QED BY <1>8, <1>9

LEMMA TelemetryAgrees ==
    ASSUME Shape, Sent, Agrees,
           \/ ReadPolicy \/ record \/ Age \/ SendNext \/ Resend \/ AgentAnswer
           \/ ServerBatch \/ LateBatch \/ retain_security_events
    PROVE  Agrees'
    <1>1. TelemetryMove
      BY ReadMoves, RecordMoves, AgeMoves, SendNextMoves, ResendMoves, AgentAnswerMoves, BatchMoves, RetainMoves
    <1>2. UNCHANGED <<assigned, row, up, running, current>>
      BY <1>1 DEF TelemetryMove
    <1>3. AppliedLive' = AppliedLive /\ resolve_effective_policy' = resolve_effective_policy
      BY <1>2 DEF AppliedLive, resolve_effective_policy
    <1>4. row' # None => resolve_effective_policy' # None
      BY <1>2, <1>3 DEF Agrees
    <1>5. \A f \in BatchFrame : f \in ServerFrame /\ ~Success(f)
      BY DEF BatchFrame, ServerFrame, Success
    <1>6. CASE SendNext \/ Resend
      <2>1. \E f \in BatchFrame : toServer' = Append(toServer, f)
        BY <1>6, SendNextMoves, ResendMoves
      <2> QED BY <1>2, <1>3, <1>4, <1>5, <2>1, QueueAgrees
    <1>7. CASE ServerBatch
      <2>1. toServer # <<>> /\ toServer' = Tail(toServer) /\ ~Success(Head(toServer))
        BY <1>7 DEF ServerBatch, Success
      <2> QED BY <1>2, <1>3, <1>4, <2>1, QueueAgrees
    <1>8. CASE ReadPolicy \/ record \/ Age \/ AgentAnswer \/ LateBatch \/ retain_security_events
      <2>1. UNCHANGED toServer
        BY <1>8 DEF ReadPolicy, record, Age, AgentAnswer, LateBatch, retain_security_events, policyVars
      <2> QED BY <1>2, <1>3, <1>4, <2>1, QueueAgrees
    <1> QED BY <1>6, <1>7, <1>8

LEMMA AgreesStep ==
    ASSUME Books, Agrees, [Next]_vars
    PROVE  Agrees'
    <1>1. Shape /\ Sent
      BY DEF Books
    <1>2. CASE UNCHANGED vars
      <2>1. UNCHANGED <<assigned, row, up, running, current, toServer>>
        BY <1>2 DEF vars, policyVars
      <2>2. AppliedLive' = AppliedLive /\ resolve_effective_policy' = resolve_effective_policy
        BY <2>1 DEF AppliedLive, resolve_effective_policy
      <2>3. row' # None => resolve_effective_policy' # None
        BY <2>1, <2>2 DEF Agrees
      <2> QED BY <1>1, <2>1, <2>2, <2>3, QueueAgrees
    <1>3. CASE PolicyStep \/ SessionBegins \/ SessionEnds
      BY <1>1, <1>3, AdminAgrees, ServerHeartbeatAgrees, ServerAckAgrees, LateFrameAgrees, ConnectAgrees,
         EndAgrees, AgentDeliveryAgrees DEF PolicyStep, SessionBegins, SessionEnds, ServerNext
    <1> QED BY <1>1, <1>2, <1>3, TelemetryAgrees DEF Next

\* Server and agent agree when nothing is on its way (delivery.py record_policy_ack,
\* runtime.py apply_delivery): for any number of versions, assignments, refused or repeated
\* deliveries, lost connections and late frames.
THEOREM QuietMeansCurrentAlways == Spec => []QuietMeansCurrent
    <1>1. Init => Books /\ Agrees
      BY BooksInit DEF Init, PolicyInit, Agrees
    <1>2. Books /\ Agrees /\ [Next]_vars => (Books /\ Agrees)'
      BY BooksStep, AgreesStep
    <1>3. Books /\ Agrees => QuietMeansCurrent
      <2> SUFFICES ASSUME Books, Agrees, up, AppliedLive,
                          \A f \in Frames : f.kind \notin {"delivery", "ack"}
                   PROVE  current # None /\ current.v = row.v
        BY DEF QuietMeansCurrent, AppliedLive
      <2>1. toServer \in Seq(ServerFrame)
        BY DEF Books, Shape, QueueShape
      <2>2. \A i \in 1 .. Len(toServer) : toServer[i] \in Range(toServer)
        BY <2>1 DEF Range
      <2>3. Silent(toServer)
        BY <2>2 DEF Frames, Silent, Success
      <2> QED BY <2>3 DEF Agrees
    <1> QED BY <1>1, <1>2, <1>3, PTL DEF Spec

=============================================================================
