--------------------------- MODULE ContextSnapshots ---------------------------
(***************************************************************************)
(* Device Context storage: immutable snapshots, the current pointer of     *)
(* every device/profile pair, pins, and the two clean-up jobs of the       *)
(* worker (context/ingestion.py, context/retention.py and                  *)
(* activity/ingestion.py).                                                 *)
(*                                                                         *)
(* A key is a device/profile pair.  A result is a command result, or an    *)
(* activity observation, with the collection row and the snapshot it may   *)
(* leave behind.  Results are numbers: their order is the order of the     *)
(* random row identifiers, not of arrival.                                 *)
(*                                                                         *)
(* An ingestion reads and writes under the advisory lock of its key and is *)
(* one action.  Retention reads its candidates without a lock, takes the   *)
(* lock of one key after the other and commits at the end.                 *)
(*                                                                         *)
(* Left out: raw payloads and their scrub, diffs, findings and device      *)
(* events, which are written here and read by nothing here.                *)
(***************************************************************************)
EXTENDS Integers, FiniteSets

CONSTANTS
    Key,         \* device/profile pairs
    Result,      \* results, numbered by their row identifiers
    Body,        \* contents, as far as the semantic hash tells them apart
    ProfileOf,   \* the profile of a key
    KeyOf,       \* the key a result belongs to
    Carries,     \* the <<time, body>> pairs the agent may report in a result
    Scheduled,   \* the results the scheduler asked for
    MayEnd,      \* bound: the requests that may end without a snapshot
    MayPin,      \* bound: the snapshots an administrator may pin
    Limit,       \* rows a clean-up job deletes at most
    Window,      \* candidates of a class retention looks at, 4 * Limit in the code
    TTL,         \* age at which hot history is due
    Skew,        \* how far an activity observation may lie in the future
    MaxTime,     \* bound of the clock
    None

Profiles == {"baseline_v1", "inventory_v1", "health_v1", "network_v1", "session_v1",
             "activity_v1", "diagnostic_v1"}
Time == 0 .. MaxTime

ASSUME SnapshotConstants ==
    /\ Result \subseteq Nat /\ None \notin Result
    /\ ProfileOf \in [Key -> Profiles] /\ KeyOf \in [Result -> Key]
    /\ Carries \in [Result -> SUBSET (Nat \X Body)]
    /\ Scheduled \subseteq Result /\ MayEnd \subseteq Result /\ MayPin \subseteq Result
    /\ Limit \in Nat \ {0} /\ Window \in Nat \ {0} /\ TTL \in Nat /\ Skew \in Nat /\ MaxTime \in Nat

VARIABLES
    stored,    \* results whose snapshot row exists
    at,        \* collected_at of a snapshot
    body,      \* semantic content of a snapshot
    pinned,    \* snapshots with pinned_at
    cur,       \* snapshot a ContextCurrent row points at, None without a row
    newest,    \* time of the newest observation taken in; ContextCurrent
               \* stores it for activity_v1 only (last_projection)
    seen,      \* ContextCurrent.last_observed_at
    col,       \* collection rows
    requested, \* requested_at of a collection
    clock,
    job,       \* transaction of retain_context_snapshots
    pinning    \* pins that have looked up their snapshot

vars == <<stored, at, body, pinned, cur, newest, seen, col, requested, clock, job, pinning>>

Activity(k) == ProfileOf[k] = "activity_v1"
Diagnostic(k) == ProfileOf[k] = "diagnostic_v1"
Stable(k) == ProfileOf[k] \in {"baseline_v1", "inventory_v1"}
Hot(k) == ~Stable(k) /\ ~Diagnostic(k)
Hashed(k) == ProfileOf[k] \in {"baseline_v1", "inventory_v1", "session_v1", "network_v1"}

NoJob == [phase |-> "idle", when |-> 0, cand |-> {}, locked |-> {}, doomed |-> {}]

Of(k) == {r \in stored : KeyOf[r] = k}
Unlocked(k) == k \notin job.locked

\* Order of snapshots: collected_at, then id.
Before(q, s) == at[q] < at[s] \/ (at[q] = at[s] /\ q < s)
\* Order of collection rows: requested_at, then id.
Sooner(q, s) == requested[q] < requested[s] \/ (requested[q] = requested[s] /\ q < s)

\* ORDER BY ... LIMIT n
Oldest(S, n, Less(_, _)) == {s \in S : Cardinality({q \in S : Less(q, s)}) < n}

Latest(k, p) == p \in Of(k) /\ \A q \in Of(k) \ {p} : Before(q, p)

Init ==
    /\ stored = {} /\ pinned = {} /\ pinning = {}
    /\ at = [r \in Result |-> 0]
    /\ body = [r \in Result |-> None]
    /\ cur = [k \in Key |-> None]
    /\ newest = [k \in Key |-> 0]
    /\ seen = [k \in Key |-> 0]
    /\ col = [r \in Result |-> IF Activity(KeyOf[r]) THEN "none" ELSE "active"]
    /\ requested = [r \in Result |-> 0]
    /\ clock = 0
    /\ job = NoJob

-----------------------------------------------------------------------------
\* Ingestion

\* _advance_current_pointer: the snapshot a pointer stands at after r, collected
\* at t, was offered to it.  Mutant: the last result wins.
AdvancedAlways(k, r, t) == r
Advanced(k, r, t) == IF cur[k] = None \/ t > at[cur[k]] THEN r ELSE cur[k]
\* ... and its last_observed_at.
Observed(k) == IF cur[k] = None \/ clock > seen[k] THEN clock ELSE seen[k]

Newer(k, t) == IF t > newest[k] THEN t ELSE newest[k]

StoreSnapshot(r, t, b) ==
    /\ stored' = stored \cup {r}
    /\ at' = [at EXCEPT ![r] = t]
    /\ body' = [body EXCEPT ![r] = b]

\* The newest snapshot of the key has the content b.
Unchanged(k, b) == Hashed(k) /\ \E p \in stored : Latest(k, p) /\ body[p] = b

\* A request is answered once, even after it expired.
Unanswered(r) == col[r] \in {"active", "expired"}

\* A successful result of a context command.
Ingest(r, t, b) ==
    LET k == KeyOf[r] IN
    /\ ~Activity(k) /\ Unlocked(k)
    /\ Unanswered(r)
    /\ col' = [col EXCEPT ![r] = "completed"]
    /\ newest' = [newest EXCEPT ![k] = Newer(k, t)]
    /\ seen' = [seen EXCEPT ![k] = Observed(k)]
    /\ \/ /\ \E p \in stored : Latest(k, p) /\ Hashed(k) /\ body[p] = b
                 /\ cur' = [cur EXCEPT ![k] = Advanced(k, p, at[p])]
          /\ UNCHANGED <<stored, at, body>>
       \/ /\ ~Unchanged(k, b)
          /\ StoreSnapshot(r, t, b)
          /\ cur' = [cur EXCEPT ![k] = Advanced(k, r, t)]
    /\ UNCHANGED <<pinned, requested, clock, job, pinning>>

\* A failed, canceled or expired result, or a request that expires without one.
EndCollection(r, status) ==
    /\ r \in MayEnd /\ ~Activity(KeyOf[r])
    /\ \/ status = "failed" /\ Unanswered(r)
       \/ status = "expired" /\ col[r] = "active"
    /\ col' = [col EXCEPT ![r] = status]
    /\ UNCHANGED <<stored, at, body, pinned, cur, newest, seen, requested, clock, job, pinning>>

\* An activity observation within the live bounds.
Live(t) == clock - TTL <= t /\ t <= clock + Skew

\* Newer than the projection the current row carries.  Mutant: no comparison.
FreshAny(k, t) == TRUE
Fresh(k, t) == cur[k] = None \/ t > newest[k]

IngestActivity(r, t, b) ==
    LET k == KeyOf[r] IN
    /\ Activity(k) /\ Unlocked(k)
    /\ Live(t) /\ Fresh(k, t)
    /\ col[r] = "none"
    /\ newest' = [newest EXCEPT ![k] = t]
    /\ seen' = [seen EXCEPT ![k] = Observed(k)]
    /\ \/ /\ cur[k] # None /\ body[cur[k]] = b
          /\ UNCHANGED <<stored, at, body, cur, col, requested>>
       \/ /\ cur[k] # None => body[cur[k]] # b
          /\ col' = [col EXCEPT ![r] = "completed"]
          /\ requested' = [requested EXCEPT ![r] = clock]
          /\ StoreSnapshot(r, t, b)
          /\ cur' = [cur EXCEPT ![k] = Advanced(k, r, t)]
    /\ UNCHANGED <<pinned, clock, job, pinning>>

\* A repeat of the newest activity observation only shows that the device lives.
RepeatActivity(k) ==
    /\ Activity(k) /\ Unlocked(k)
    /\ cur[k] # None /\ Live(newest[k])
    /\ clock > seen[k]
    /\ seen' = [seen EXCEPT ![k] = clock]
    /\ UNCHANGED <<stored, at, body, pinned, cur, newest, col, requested, clock, job, pinning>>

-----------------------------------------------------------------------------
\* Pins

\* pin_context_snapshot reads the row to learn its key ... (A second pin only
\* changes the time of the first.)
PinBegin(r) ==
    /\ r \in stored /\ r \notin pinned /\ r \in MayPin
    /\ pinning' = pinning \cup {r}
    /\ UNCHANGED <<stored, at, body, pinned, cur, newest, seen, col, requested, clock, job>>

\* ... and reads it again under the lock.  Mutant: it does not.
PinnableStale(r) == TRUE
Pinnable(r) == r \in stored

PinCommit(r) ==
    /\ r \in pinning /\ Unlocked(KeyOf[r])
    /\ pinning' = pinning \ {r}
    /\ pinned' = IF Pinnable(r) THEN pinned \cup {r} ELSE pinned
    /\ UNCHANGED <<stored, at, body, cur, newest, seen, col, requested, clock, job>>

-----------------------------------------------------------------------------
\* Clean-up

\* Mutant: a cutoff one too early.
HotRowsLate == {s \in stored \ pinned : Hot(KeyOf[s]) /\ at[s] < clock - TTL - 1}
HotRows == {s \in stored \ pinned : Hot(KeyOf[s]) /\ at[s] < clock - TTL}
DiagnosticRows == {s \in stored \ pinned : Diagnostic(KeyOf[s]) /\ at[s] < clock - TTL}
StableRows == {s \in stored \ pinned :
                  /\ Stable(KeyOf[s])
                  /\ Cardinality({q \in Of(KeyOf[s]) : Before(s, q)}) >= 2}

\* retain_context_snapshots: the candidates, read without a lock.
RetainRead ==
    /\ job.phase = "idle"
    /\ job' = [NoJob EXCEPT
                 !.phase = "deciding",
                 !.when = clock,
                 !.cand = Oldest(HotRows, Window, Before)
                            \cup Oldest(StableRows, Window, Before)
                            \cup Oldest(DiagnosticRows, Window, Before)]
    /\ UNCHANGED <<stored, at, body, pinned, cur, newest, seen, col, requested, clock, pinning>>

\* s comes immediately before the current snapshot of k, among S.
Previous(k, s, S) ==
    /\ cur[k] # None /\ s \in S /\ KeyOf[s] = k /\ Before(s, cur[k])
    /\ \A q \in S : KeyOf[q] = k /\ Before(q, cur[k]) => q = s \/ Before(q, s)

\* The decision about a candidate, under the lock of its key.  Mutant: the snapshot
\* before the current one is not protected.
DeletableRanked(s) ==
    LET k == KeyOf[s] IN
    /\ s \in stored \ pinned
    /\ cur[k] = s => Diagnostic(k)
    /\ ~Stable(k) => at[s] < job.when - TTL
Deletable(s) ==
    LET k == KeyOf[s] IN
    /\ s \in stored \ pinned
    /\ cur[k] = s => Diagnostic(k)
    /\ IF Stable(k) THEN ~Previous(k, s, stored \ job.doomed) ELSE at[s] < job.when - TTL

\* Hot candidates come first, then stable ones, then diagnostics.
Class(s) == IF Hot(KeyOf[s]) THEN 0 ELSE IF Stable(KeyOf[s]) THEN 1 ELSE 2
Ahead(s, q) == Class(s) < Class(q) \/ (Class(s) = Class(q) /\ Before(s, q))

Full == Cardinality(job.doomed) >= Limit

RetainStep(s) ==
    /\ job.phase = "deciding" /\ ~Full
    /\ s \in job.cand
    /\ \A q \in job.cand \ {s} : Ahead(s, q)
    /\ job' = [job EXCEPT
                 !.cand = @ \ {s},
                 !.locked = @ \cup {KeyOf[s]},
                 !.doomed = IF Deletable(s) THEN @ \cup {s} ELSE @]
    /\ UNCHANGED <<stored, at, body, pinned, cur, newest, seen, col, requested, clock, pinning>>

\* A pointer goes with its snapshot: ON DELETE CASCADE, and for diagnostics
\* the explicit delete.
Cascaded(D) == [k \in Key |-> IF cur[k] \in D THEN None ELSE cur[k]]

RetainCommit ==
    /\ job.phase = "deciding"
    /\ Full \/ job.cand = {}
    /\ stored' = stored \ job.doomed
    /\ cur' = Cascaded(job.doomed)
    /\ job' = NoJob
    /\ UNCHANGED <<at, body, pinned, newest, seen, col, requested, clock, pinning>>

\* cleanup_context_collections: bookkeeping rows nothing refers to.
Bookkeeping ==
    {r \in Result :
        /\ r \in Scheduled \/ Activity(KeyOf[r])
        /\ col[r] \in {"completed", "failed", "expired"}
        /\ requested[r] < clock - TTL
        /\ r \notin stored}

\* A snapshot would go with its collection: ON DELETE CASCADE.
CleanupCollections ==
    LET D == Oldest(Bookkeeping, Limit, Sooner) IN
    /\ D # {}
    /\ col' = [r \in Result |-> IF r \in D THEN "removed" ELSE col[r]]
    /\ stored' = stored \ D
    /\ cur' = Cascaded(D)
    /\ UNCHANGED <<at, body, pinned, newest, seen, requested, clock, job, pinning>>

Tick ==
    /\ clock < MaxTime
    /\ clock' = clock + 1
    /\ UNCHANGED <<stored, at, body, pinned, cur, newest, seen, col, requested, job, pinning>>

-----------------------------------------------------------------------------
Next ==
    \/ Tick
    \/ RetainRead \/ RetainCommit \/ CleanupCollections
    \/ \E k \in Key : RepeatActivity(k)
    \/ \E r \in Result :
         \/ EndCollection(r, "failed") \/ EndCollection(r, "expired")
         \/ PinBegin(r) \/ PinCommit(r)
         \/ RetainStep(r)
         \/ \E o \in Carries[r] :
              \/ Ingest(r, o[1], o[2])
              \/ IngestActivity(r, o[1], o[2])

Spec == Init /\ [][Next]_vars

\* The worker runs the retention job again and again.
FairRetention ==
    /\ Spec
    /\ WF_vars(RetainRead) /\ WF_vars(RetainCommit)
    /\ WF_vars(\E s \in Result : RetainStep(s))

-----------------------------------------------------------------------------
TypeOK ==
    /\ stored \subseteq Result /\ pinned \subseteq Result /\ pinning \subseteq Result
    /\ at \in [Result -> Nat]
    /\ body \in [Result -> Body \cup {None}]
    /\ cur \in [Key -> Result \cup {None}]
    /\ newest \in [Key -> Nat]
    /\ seen \in [Key -> Time]
    /\ col \in [Result -> {"none", "active", "completed", "failed", "expired", "removed"}]
    /\ requested \in [Result -> Time]
    /\ clock \in Time
    /\ job \in [phase : {"idle", "deciding"}, when : Time, cand : SUBSET Result,
                locked : SUBSET Key, doomed : SUBSET Result]

\* A pointer leads to a stored snapshot of its own key, whatever clean-up did in
\* between; except for diagnostics, a key with snapshots has a pointer and it
\* leads to one that none was collected after (ingest_context_result,
\* retain_context_snapshots).
CurrentNewest ==
    \A k \in Key :
        /\ cur[k] # None => cur[k] \in Of(k)
        /\ ~Diagnostic(k) => \A r \in Of(k) : cur[k] # None /\ at[r] <= at[cur[k]]

\* Pinned history survives: a pin that was confirmed is on a snapshot that is
\* still stored, although the pin and the retention job both start from reads
\* without a lock (pin_context_snapshot, retain_context_snapshots).
PinnedStored == pinned \subseteq stored

\* No step takes a pointer away or moves it to an observation that is not newer,
\* except that an old diagnostic goes with its pointer (_advance_current_pointer,
\* retain_context_snapshots, cleanup_context_collections).
ForwardStep ==
    \A k \in Key :
        /\ cur'[k] = None => cur[k] = None \/ Diagnostic(k)
        /\ cur[k] # None /\ cur'[k] \notin {cur[k], None} => at'[cur'[k]] > at[cur[k]]
CurrentForward == [][ForwardStep]_vars

\* Retention never deletes the snapshot a stable profile's current one is compared
\* with, even when equal collection times rank the current one low
\* (retain_context_snapshots).
PreviousStep ==
    \A k \in Key : \A s \in stored :
        Stable(k) /\ Previous(k, s, stored) => s \in stored'
PreviousKept == [][PreviousStep]_vars

\* The pointer of an activity key moves only for an observation newer than every one
\* taken in before, the ones that changed nothing included
\* (ingest_activity_observation).
NewerStep ==
    \A k \in Key :
        Activity(k) /\ cur[k] # None /\ cur'[k] \notin {cur[k], None} => at'[cur'[k]] > newest[k]
PointerOnlyForNewer == [][NewerStep]_vars

\* Hot history that is due, superseded and held by nothing is deleted in the end,
\* unless current snapshots that are due themselves, and that retention only passes
\* over, fill its window before it (retain_context_snapshots, retention.py:79).
Superseded(r) == Hot(KeyOf[r]) /\ \E q \in Result \ {r} : KeyOf[q] = KeyOf[r]
DueHot(s) ==
    /\ s \in stored \ pinned /\ Hot(KeyOf[s])
    /\ at[s] < clock - TTL
Passed(s) == {q \in Result : DueHot(q) /\ cur[KeyOf[q]] = q /\ Before(q, s)}
HotHistoryDrains ==
    \A s \in {r \in Result : Superseded(r)} :
        (DueHot(s) /\ cur[KeyOf[s]] # s) ~> (s \notin stored \ pinned \/ Cardinality(Passed(s)) >= Window)
=============================================================================
