---------------------------- MODULE PowerTelemetry ----------------------------
(***************************************************************************)
(* Power events of one device: the native log (platform/windows/           *)
(* power_events.py), the collector that reads pages of it from a           *)
(* checkpoint, and the sender with one batch in flight                     *)
(* (pc_agent/power/runtime.py), the queue that stores both on disk         *)
(* (power/spool.py), and the server's ingestion and retention              *)
(* (endpoint_server/power).                                                *)
(*                                                                         *)
(* An event is a number, which is also its time: a record of the native    *)
(* log, or a callback, which has an identity of its own and is never in    *)
(* the log.  The log numbers its records from where it was created         *)
(* ("base").  "horizon" is the time 30 days ago.                           *)
(***************************************************************************)
EXTENDS Integers, Sequences, FiniteSets, Functions, FiniteSetsExt

CONSTANTS
    MaxRecords,  \* bound: native records and callbacks
    MaxLogs,     \* bound: times the log is created again
    MaxExpired,  \* bound: events that pass the retention
    PageSize,    \* records of a native page
    MaxQueue,    \* _max_events
    BatchSize,
    MaxFaults,   \* bound: lost connections, stopped agents, failed collections, late answers
    MaxFrames,   \* bound: frames on their way when the sender sends the next batch
    MaxReports,  \* bound: collections
    MayBeMisdated,  \* bound: reports whose time the server may find wrong
    None

ASSUME PowerConstants ==
    /\ MaxRecords \in Nat /\ MaxLogs \in Nat /\ MaxExpired \in Nat
    /\ PageSize \in Nat \ {0} /\ MaxQueue \in Nat \ {0}
    /\ BatchSize \in Nat \ {0} /\ MaxFaults \in Nat /\ MaxFrames \in Nat \ {0}
    /\ MaxReports \in Nat /\ MayBeMisdated \subseteq Nat /\ None \notin Nat

Record == 1 .. MaxRecords

VARIABLES
    newest, oldest,  \* the native log holds what is left of oldest .. newest
    base, logs,      \* where the log was created, and how often
    horizon,
    checkpoint,      \* durable: record_id and record_anchor of the last record taken
    queue,           \* durable: power_queue, in its order
    stats,           \* durable: overflow, expired, rejected, loss, resets
    status,          \* durable: when the source status was reported, None without one
    taken,           \* records whose pages were committed
    called,          \* callbacks, all of them recorded
    reading,         \* page of the retained native read, None without one
    up, toServer, toAgent, late,
    inflight,        \* the batch waiting for its acknowledgement
    stored,          \* power rows of device_events
    source,          \* PowerSourceState of the device
    reports,         \* collections so far: the time of a status
    faults

logVars == <<newest, oldest, base, logs, horizon>>
diskVars == <<checkpoint, queue, stats, status, taken, called>>
wireVars == <<up, toServer, toAgent, late>>
serverVars == <<stored, source>>
vars == <<logVars, diskVars, reading, wireVars, inflight, serverVars, reports, faults>>

Old(r) == r < horizon

\* The System log, and a checkpoint before its first record.
Log == (oldest .. newest) \ called
Start == [id |-> 0, anchor |-> 0]

\* The numbers of a set, the smallest first, and the rows at some positions of the queue.
Rank(S, n) == Cardinality({m \in S : m <= n})
InOrder(S) == [k \in 1 .. Cardinality(S) |-> CHOOSE n \in S : Rank(S, n) = k]
RowsAt(positions) == [k \in 1 .. Cardinality(positions) |-> queue[InOrder(positions)[k]]]

\* _expire leaves the rows of the last 30 days.
Fresh == RowsAt({i \in DOMAIN queue : ~Old(queue[i])})
\* _trim drops the oldest rows.  Mutant: without counting them.
OverflowUncounted(rows) == 0
Overflow(rows) == IF Len(rows) > MaxQueue THEN Len(rows) - MaxQueue ELSE 0
Trimmed(rows) == IF Len(rows) > MaxQueue
                 THEN SubSeq(rows, Len(rows) - MaxQueue + 1, Len(rows)) ELSE rows
Lost == stats.overflow + stats.expired + stats.rejected + stats.loss

TypeOK ==
    /\ newest \in 0 .. MaxRecords /\ oldest \in 1 .. MaxRecords + 1
    /\ horizon \in 1 .. MaxRecords + 1
    /\ base \in 0 .. newest /\ logs \in 0 .. MaxLogs
    /\ checkpoint \in [id : 0 .. newest, anchor : 0 .. newest]
    /\ Range(queue) \subseteq Record /\ IsInjective(queue) /\ Len(queue) <= MaxQueue
    /\ stats \in [overflow : Nat, expired : Nat, rejected : Nat, loss : Nat, resets : Nat]
    /\ status \in {None} \cup 0 .. MaxReports
    /\ source = None \/ source \in [at : 0 .. MaxReports, loss : Nat]
    /\ taken \subseteq Record /\ called \subseteq 1 .. newest /\ stored \subseteq Record

Init ==
    /\ newest = 0 /\ oldest = 1 /\ base = 0 /\ logs = 0 /\ horizon = 1
    /\ checkpoint = Start /\ queue = <<>> /\ status = None /\ taken = {} /\ called = {}
    /\ stats = [overflow |-> 0, expired |-> 0, rejected |-> 0, loss |-> 0, resets |-> 0]
    /\ reading = None
    /\ up = FALSE /\ toServer = <<>> /\ toAgent = <<>> /\ late = <<>>
    /\ inflight = None
    /\ stored = {} /\ source = None
    /\ reports = 0 /\ faults = 0

-----------------------------------------------------------------------------
\* The native log and time

Happens ==
    /\ newest < MaxRecords
    /\ newest' = newest + 1
    /\ UNCHANGED <<oldest, base, logs, horizon, diskVars, reading, wireVars, inflight, serverVars, reports, faults>>

Rotates ==
    /\ oldest < newest
    /\ oldest' = oldest + 1
    /\ UNCHANGED <<newest, base, logs, horizon, diskVars, reading, wireVars, inflight, serverVars, reports, faults>>

\* The log is created again: its records are gone and its numbers start over.
Recreates ==
    /\ logs < MaxLogs
    /\ logs' = logs + 1
    /\ base' = newest /\ oldest' = newest + 1
    /\ UNCHANGED <<newest, horizon, diskVars, reading, wireVars, inflight, serverVars, reports, faults>>

Age ==
    /\ horizon <= newest /\ horizon <= MaxExpired
    /\ horizon' = horizon + 1
    /\ UNCHANGED <<newest, oldest, base, logs, diskVars, reading, wireVars, inflight, serverVars, reports, faults>>

-----------------------------------------------------------------------------
\* Collector

\* _read_system: the checkpoint does not count when its number is not in the log (no
\* log, beyond the newest, below the oldest) or is that of another record.
\* Mutant: any record with its number will do.
ResetByRange ==
    /\ checkpoint.id # 0
    /\ checkpoint.id \notin {r - base : r \in Log}
Reset ==
    /\ checkpoint.id # 0
    /\ \/ checkpoint.id \notin {r - base : r \in Log}
       \/ base + checkpoint.id # checkpoint.anchor

\* What follows the checkpoint, or the whole log again; the oldest of it are a page.
From == IF Reset THEN Start ELSE checkpoint
Readable == {r \in Log : r - base > From.id /\ ~Old(r)}
Page == {r \in Readable : Rank(Readable, r) <= PageSize}

\* project_windows_page: some records may be unreadable, or of an unknown boot.
ReadPage ==
    /\ reading = None /\ reports < MaxReports
    /\ reports' = reports + 1
    /\ \E bad \in SUBSET Page :
         reading' = [rows |-> Page \ bad, loss |-> Cardinality(bad), bad |-> bad, reset |-> Reset,
                     at |-> reports + 1,
                     to |-> IF Page = {} THEN From ELSE [id |-> Max(Page) - base, anchor |-> Max(Page)]]
    /\ UNCHANGED <<logVars, diskVars, wireVars, inflight, serverVars, faults>>

\* Rows of a page become rows of the queue, except the queued and the expired.
Queued(page) ==
    Fresh \o InOrder({r \in page : r \notin Range(Fresh) /\ ~Old(r)})

\* commit_page: events, counters, status and checkpoint in one transaction.
commit_page ==
    /\ reading # None
    /\ queue' = Trimmed(Queued(reading.rows))
    /\ stats' = [stats EXCEPT
         !.expired = @ + Len(queue) - Len(Fresh) + Cardinality({r \in reading.rows : Old(r)}),
         !.overflow = @ + Overflow(Queued(reading.rows)),
         !.loss = @ + reading.loss,
         !.resets = @ + IF reading.reset THEN 1 ELSE 0]
    /\ status' = reading.at
    /\ checkpoint' = reading.to
    /\ taken' = taken \cup reading.rows \cup reading.bad
    /\ reading' = None
    /\ UNCHANGED <<logVars, called, wireVars, inflight, serverVars, reports, faults>>

\* The read fails, or its page cannot be stored: the source is reported unavailable.
\* A read that only timed out is retained.
set_unavailable ==
    /\ reading # None /\ faults < MaxFaults
    /\ faults' = faults + 1
    /\ status' = reports
    /\ reading' \in {None, reading}
    /\ UNCHANGED <<logVars, checkpoint, queue, stats, taken, called, wireVars, inflight, serverVars, reports>>

\* notification_event: an OS callback is an event of its own, whatever the log says of
\* the same transition.  It is recorded at once; checkpoint and status stay.
record ==
    /\ newest < MaxRecords
    /\ newest' = newest + 1
    /\ called' = called \cup {newest + 1}
    /\ queue' = Trimmed(Append(Fresh, newest + 1))
    /\ stats' = [stats EXCEPT !.expired = @ + Len(queue) - Len(Fresh),
                              !.overflow = @ + Overflow(Append(Fresh, newest + 1))]
    /\ UNCHANGED <<oldest, base, logs, horizon, checkpoint, taken, status, reading, wireVars, inflight,
                   serverVars, reports, faults>>

-----------------------------------------------------------------------------
\* Sender

\* A batch identifier no frame on its way has.
NewId == Min({n \in 0 .. Len(toServer) + Len(toAgent) :
                \A f \in Range(toServer) \cup Range(toAgent) : f.id # n})

\* next_batch, with the state of the source.  An empty batch is sent for its status;
\* before the first status there is no batch at all.
SendNext ==
    /\ up /\ inflight = None
    /\ Len(toServer) + Len(toAgent) < MaxFrames
    /\ queue' = Fresh
    /\ stats' = [stats EXCEPT !.expired = @ + Len(queue) - Len(Fresh)]
    /\ IF status = None THEN UNCHANGED <<inflight, toServer>>
       ELSE /\ inflight' = [id |-> NewId, status |-> status,
                            rows |-> SubSeq(Fresh, 1, Min({BatchSize, Len(Fresh)})),
                            loss |-> Lost + Len(queue) - Len(Fresh)]
            /\ toServer' = Append(toServer, inflight')
    /\ UNCHANGED <<logVars, checkpoint, status, taken, called, reading, up, toAgent, late, serverVars, reports, faults>>

\* An answer that takes longer than the timeout: the batch is sent again, unchanged.
Resend ==
    /\ up /\ inflight # None /\ faults < MaxFaults
    /\ faults' = faults + 1
    /\ toServer' = Append(toServer, inflight)
    /\ UNCHANGED <<logVars, diskVars, reading, up, toAgent, late, inflight, serverVars, reports>>

\* acknowledge: rows that have left the queue meanwhile are passed over.
\* Mutant: they void the whole answer.
acknowledge_all(ack) ==
    IF {r \in Range(ack.rows) : r \in Range(queue)} = Range(ack.rows)
    THEN /\ queue' = RowsAt({i \in DOMAIN queue : queue[i] \notin Range(ack.rows)})
         /\ stats' = [stats EXCEPT !.rejected = @ + Cardinality(ack.rejected \cap Range(queue))]
         /\ inflight' = None
    ELSE UNCHANGED <<queue, stats, inflight>>
acknowledge(ack) ==
    /\ queue' = RowsAt({i \in DOMAIN queue : queue[i] \notin Range(ack.rows)})
    /\ stats' = [stats EXCEPT !.rejected = @ + Cardinality(ack.rejected \cap Range(queue))]
    /\ inflight' = None

receive_ack ==
    /\ up /\ toAgent # <<>>
    /\ IF inflight # None /\ Head(toAgent).id = inflight.id
       THEN acknowledge(Head(toAgent))
       ELSE UNCHANGED <<queue, stats, inflight>>
    /\ toAgent' = Tail(toAgent)
    /\ UNCHANGED <<logVars, checkpoint, status, taken, called, reading, up, toServer, late, serverVars,
                   reports, faults>>

-----------------------------------------------------------------------------
\* Server

\* The source row takes a newer report, and the greater loss of two of the same time.
Reported(f) ==
    IF source = None \/ f.status > source.at THEN [at |-> f.status, loss |-> f.loss]
    ELSE IF f.status = source.at THEN [source EXCEPT !.loss = Max({@, f.loss})]
    ELSE source

\* _ingest_event refuses an expired event, one from the future of the server's clock, one
\* that is too large or whose identity another event has; an event that is stored is
\* accepted again.
Expired(f) == {r \in Range(f.rows) : Old(r)}
Refusable(f) == Range(f.rows) \ stored

\* ingest_gateway_power_events: each event on its own; a status from the future or from
\* before the retention is left aside.
Ingest(f, rejected) ==
    /\ stored' = stored \cup (Range(f.rows) \ rejected)
    /\ source' = Reported(f) \/ (f.status \in MayBeMisdated /\ source' = source)

ServerBatch ==
    /\ up /\ toServer # <<>>
    /\ \E refused \in SUBSET Refusable(Head(toServer)) :
         LET f == Head(toServer)
             rejected == Expired(f) \cup refused
         IN  /\ Ingest(f, rejected)
             /\ toAgent' = Append(toAgent, [id |-> f.id, rows |-> f.rows, rejected |-> rejected])
    /\ toServer' = Tail(toServer)
    /\ UNCHANGED <<logVars, diskVars, reading, up, late, inflight, reports, faults>>

\* The handler of a lost connection ingests the frame in its hands.
LateBatch ==
    /\ late # <<>>
    /\ \/ \E refused \in SUBSET Refusable(Head(late)) : Ingest(Head(late), Expired(Head(late)) \cup refused)
       \/ UNCHANGED <<stored, source>>
    /\ late' = <<>>
    /\ UNCHANGED <<logVars, diskVars, reading, up, toServer, toAgent, inflight, reports, faults>>

retain_power_events ==
    /\ \E r \in stored : Old(r) /\ stored' = stored \ {r}
    /\ UNCHANGED <<logVars, diskVars, reading, wireVars, inflight, source, reports, faults>>

-----------------------------------------------------------------------------

Connect ==
    /\ ~up
    /\ up' = TRUE
    /\ UNCHANGED <<logVars, diskVars, reading, toServer, toAgent, late, inflight, serverVars, reports, faults>>

\* The connection is lost, or the whole agent with its read; the queue is on disk.
Disconnect ==
    /\ up /\ faults < MaxFaults
    /\ faults' = faults + 1
    /\ up' = FALSE /\ toServer' = <<>> /\ toAgent' = <<>>
    /\ late' = SubSeq(toServer, 1, Min({1, Len(toServer)}))
    /\ inflight' = None
    /\ reading' \in {None, reading}
    /\ UNCHANGED <<logVars, diskVars, serverVars, reports>>

Next ==
    \/ Happens \/ Rotates \/ Recreates \/ Age
    \/ ReadPage \/ commit_page \/ set_unavailable \/ record
    \/ SendNext \/ Resend \/ receive_ack
    \/ ServerBatch \/ LateBatch \/ retain_power_events
    \/ Connect \/ Disconnect

Spec == Init /\ [][Next]_vars

\* The collector finishes its reads, the sender and the server keep going and a lost
\* connection is opened again.
FairSpec ==
    /\ Spec
    /\ WF_vars(Connect) /\ WF_vars(commit_page) /\ WF_vars(SendNext)
    /\ WF_vars(ServerBatch) /\ WF_vars(receive_ack)

-----------------------------------------------------------------------------
\* Properties

\* The checkpoint skips nothing: a record of the log that the next read leaves out was
\* taken over by a committed page or has passed the retention of 30 days, whatever page
\* was read, lost or failed to be stored before, and whatever became of the log
\* (_read_system, commit_page, collect_once).
NothingSkipped == \A r \in Log : r \in taken \cup Readable \/ Old(r)

\* An event of the last 30 days that a page or a callback brought is in the queue or
\* stored by the server, or it is counted in the loss the device reports, also when the
\* server refuses it (spool.py source_status, acknowledge).
PowerAccounted ==
    /\ TypeOK
    /\ Cardinality({r \in (taken \cup called) \ (Range(queue) \cup stored) : ~Old(r)}) <= Lost

\* Nothing stays in the queue once the source has a status: what is queued leaves it,
\* delivered or counted, also when bounds evict a part of the batch in flight
\* (spool.py acknowledge).
QueueDrains ==
    \A r \in Record : (status # None /\ r \in Range(queue)) ~> r \notin Range(queue)
=============================================================================
