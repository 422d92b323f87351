------------------------ MODULE ContextSnapshotsProofs ------------------------
(***************************************************************************)
(* Theorems about ContextSnapshots for any fleet, any profiles and any     *)
(* times the agents report.                                                *)
(***************************************************************************)
EXTENDS ContextSnapshots, TLAPS

\* A batch of a clean-up job comes from the rows it selects.
LEMMA OldestRows ==
    /\ Oldest(HotRows, Window, Before) \subseteq stored
    /\ Oldest(StableRows, Window, Before) \subseteq stored
    /\ Oldest(DiagnosticRows, Window, Before) \subseteq stored
    /\ Oldest(Bookkeeping, Limit, Sooner) \subseteq Bookkeeping
  BY Zenon DEF Oldest, HotRows, StableRows, DiagnosticRows

-----------------------------------------------------------------------------
\* Every step keeps the types.
LEMMA NextType == TypeOK /\ [Next]_vars => TypeOK'
  <1> SUFFICES ASSUME TypeOK, [Next]_vars PROVE TypeOK'
    OBVIOUS
  <1> USE SnapshotConstants DEF TypeOK, Time
  <1>1. ASSUME NEW r \in Result, NEW o \in Carries[r], Ingest(r, o[1], o[2]) PROVE TypeOK'
    <2> DEFINE k == KeyOf[r]
    <2>1. k \in Key /\ o[1] \in Nat /\ o[2] \in Body
      BY <1>1
    <2>2. Observed(k) \in Time /\ Newer(k, o[1]) \in Nat
      BY <2>1 DEF Observed, Newer
    <2>3. \A q \in Result, t \in Nat : Advanced(k, q, t) \in Result \cup {None}
      BY <2>1 DEF Advanced
    <2>4. stored' \subseteq Result /\ at' \in [Result -> Nat] /\ body' \in [Result -> Body \cup {None}]
      BY <1>1, <2>1 DEF Ingest, StoreSnapshot
    <2>5. cur' \in [Key -> Result \cup {None}]
      <3>1. CASE \E p \in stored : cur' = [cur EXCEPT ![k] = Advanced(k, p, at[p])]
        <4>1. PICK p \in stored : cur' = [cur EXCEPT ![k] = Advanced(k, p, at[p])]
          BY <3>1
        <4>2. Advanced(k, p, at[p]) \in Result \cup {None}
          BY <2>3, <4>1
        <4> QED BY <4>1, <4>2, <2>1
      <3>2. CASE cur' = [cur EXCEPT ![k] = Advanced(k, r, o[1])]
        BY <2>1, <2>3, <3>2
      <3> QED BY <1>1, <3>1, <3>2 DEF Ingest
    <2>6. newest' \in [Key -> Nat] /\ seen' \in [Key -> Time]
      BY <1>1, <2>1, <2>2 DEF Ingest
    <2> QED BY <1>1, <2>4, <2>5, <2>6 DEF Ingest
  <1>2. ASSUME NEW r \in Result, NEW o \in Carries[r], IngestActivity(r, o[1], o[2]) PROVE TypeOK'
    <2> DEFINE k == KeyOf[r]
    <2>1. k \in Key /\ o[1] \in Nat /\ o[2] \in Body
      BY <1>2
    <2>2. Observed(k) \in Time /\ Advanced(k, r, o[1]) \in Result \cup {None}
      BY <2>1 DEF Observed, Advanced
    <2>4. stored' \subseteq Result /\ at' \in [Result -> Nat] /\ body' \in [Result -> Body \cup {None}]
      BY <1>2, <2>1 DEF IngestActivity, StoreSnapshot
    <2>5. cur' \in [Key -> Result \cup {None}]
      BY <1>2, <2>1, <2>2 DEF IngestActivity
    <2>6. newest' \in [Key -> Nat] /\ seen' \in [Key -> Time]
      BY <1>2, <2>1, <2>2 DEF IngestActivity
    <2> QED BY <1>2, <2>4, <2>5, <2>6 DEF IngestActivity
  <1>3. ASSUME NEW r \in Result,
               \/ EndCollection(r, "failed") \/ EndCollection(r, "expired")
               \/ PinBegin(r) \/ PinCommit(r)
        PROVE  TypeOK'
    BY <1>3 DEF EndCollection, PinBegin, PinCommit
  <1>4. ASSUME NEW s \in Result, RetainStep(s) PROVE TypeOK'
    <2>1. KeyOf[s] \in Key
      OBVIOUS
    <2> QED BY <1>4, <2>1 DEF RetainStep
  <1>5. ASSUME RetainRead PROVE TypeOK'
    BY <1>5, OldestRows DEF RetainRead, NoJob
  <1>6. ASSUME RetainCommit PROVE TypeOK'
    <2>1. /\ NoJob \in [phase : {"idle", "deciding"}, when : Time, cand : SUBSET Result,
                           locked : SUBSET Key, doomed : SUBSET Result]
          /\ Cascaded(job.doomed) \in [Key -> Result \cup {None}]
      BY DEF NoJob, Cascaded
    <2> QED BY <1>6, <2>1 DEF RetainCommit
  <1>7. ASSUME CleanupCollections PROVE TypeOK'
    BY <1>7 DEF CleanupCollections, Cascaded
  <1>8. ASSUME NEW k \in Key, RepeatActivity(k) PROVE TypeOK'
    BY <1>8 DEF RepeatActivity
  <1>9. ASSUME Tick PROVE TypeOK'
    BY <1>9 DEF Tick
  <1>10. ASSUME UNCHANGED vars PROVE TypeOK'
    BY <1>10 DEF vars
  <1> QED BY <1>1, <1>2, <1>3, <1>4, <1>5, <1>6, <1>7, <1>8, <1>9, <1>10 DEF Next

\* The rows of snapshots, pointers, collections and the retention job keep their
\* types for every fleet.
THEOREM TypeCorrect == Spec => []TypeOK
  <1>1. Init => TypeOK
    BY SnapshotConstants DEF Init, TypeOK, NoJob, Time
  <1> QED BY <1>1, NextType, PTL DEF Spec

-----------------------------------------------------------------------------
\* A snapshot belongs to a completed collection, so no later result and no
\* clean-up of bookkeeping rows touches it.
Backed == \A r \in stored : col[r] = "completed"

\* What the retention job is about to delete is still deletable when it commits:
\* the lock of its key keeps ingestion and pins away.
DoomedSafe ==
    \A s \in job.doomed :
        /\ s \in stored \ pinned
        /\ KeyOf[s] \in job.locked
        /\ cur[KeyOf[s]] = s => Diagnostic(KeyOf[s])
        /\ Stable(KeyOf[s]) => ~Previous(KeyOf[s], s, stored)

Safe == CurrentNewest /\ PinnedStored /\ Backed /\ DoomedSafe

\* Bookkeeping rows have no snapshot.
LEMMA CleanupKeeps ==
    ASSUME TypeOK, Safe, CleanupCollections
    PROVE  stored' = stored /\ cur' = cur /\ \A r \in stored : col'[r] = col[r]
  <1> DEFINE D == Oldest(Bookkeeping, Limit, Sooner)
  <1>1. D \cap stored = {}
    BY OldestRows DEF Bookkeeping
  <1>2. \A k \in Key : cur[k] \notin D
    <2> SUFFICES ASSUME NEW k \in Key, cur[k] \in D PROVE FALSE
      OBVIOUS
    <2>1. cur[k] \in Result
      BY OldestRows DEF Bookkeeping
    <2>2. cur[k] # None
      BY <2>1, SnapshotConstants
    <2> QED BY <1>1, <2>2 DEF Safe, CurrentNewest, Of
  <1> QED BY <1>1, <1>2 DEF CleanupCollections, Cascaded, TypeOK

\* A new snapshot and the pointer that was offered to it.
Adds(r, t) ==
    /\ r \in Result /\ t \in Nat /\ r \notin stored
    /\ Unlocked(KeyOf[r])
    /\ stored' = stored \cup {r}
    /\ at' = [at EXCEPT ![r] = t]
    /\ col' = [col EXCEPT ![r] = "completed"]
    /\ cur' = [cur EXCEPT ![KeyOf[r]] = Advanced(KeyOf[r], r, t)]
    /\ pinned' = pinned /\ job' = job

\* An observation that leaves no snapshot leaves the pointer where it is, or
\* offers it one that is stored already.
Folds(k) ==
    /\ stored' = stored /\ at' = at /\ pinned' = pinned /\ job' = job
    /\ \A r \in stored : col'[r] = col[r]
    /\ \/ cur' = cur
       \/ /\ Unlocked(k) /\ k \in Key
          /\ \E p \in Of(k) : cur' = [cur EXCEPT ![k] = Advanced(k, p, at[p])]

\* Every step adds a snapshot, folds an observation into what is stored, or is
\* one of pins and retention.
LEMMA NextEffect ==
    ASSUME TypeOK, Safe, [Next]_vars
    PROVE  \/ \E r \in Result, t \in Nat : Adds(r, t)
           \/ \E k \in Key : Folds(k)
           \/ UNCHANGED <<stored, at, cur, col, pinned, job>>
           \/ \E r \in Result : PinCommit(r) \/ RetainStep(r)
           \/ RetainRead \/ RetainCommit
  <1> USE SnapshotConstants DEF TypeOK
  <1>1. ASSUME NEW r \in Result, NEW o \in Carries[r], Ingest(r, o[1], o[2])
        PROVE  (\E t \in Nat : Adds(r, t)) \/ \E k \in Key : Folds(k)
    <2>1. KeyOf[r] \in Key /\ o[1] \in Nat
      OBVIOUS
    <2>2. r \notin stored
      BY <1>1 DEF Ingest, Unanswered, Safe, Backed
    <2>3. CASE ~Unchanged(KeyOf[r], o[2]) /\ StoreSnapshot(r, o[1], o[2])
                 /\ cur' = [cur EXCEPT ![KeyOf[r]] = Advanced(KeyOf[r], r, o[1])]
      <3>1. Adds(r, o[1])
        BY <1>1, <2>1, <2>2, <2>3 DEF Ingest, Adds, StoreSnapshot
      <3> QED BY <2>1, <3>1
    <2>4. CASE /\ \E p \in stored : /\ Latest(KeyOf[r], p) /\ Hashed(KeyOf[r]) /\ body[p] = o[2]
                                    /\ cur' = [cur EXCEPT ![KeyOf[r]] = Advanced(KeyOf[r], p, at[p])]
               /\ UNCHANGED <<stored, at, body>>
      <3>1. Folds(KeyOf[r])
        BY <1>1, <2>1, <2>2, <2>4 DEF Ingest, Folds, Latest
      <3> QED BY <2>1, <3>1
    <2> QED BY <1>1, <2>3, <2>4 DEF Ingest
  <1>2. ASSUME NEW r \in Result, NEW o \in Carries[r], IngestActivity(r, o[1], o[2])
        PROVE  (\E t \in Nat : Adds(r, t)) \/ \E k \in Key : Folds(k)
    <2>1. KeyOf[r] \in Key /\ o[1] \in Nat
      OBVIOUS
    <2>2. r \notin stored
      BY <1>2 DEF IngestActivity, Safe, Backed
    <2>3. CASE StoreSnapshot(r, o[1], o[2])
                 /\ cur' = [cur EXCEPT ![KeyOf[r]] = Advanced(KeyOf[r], r, o[1])]
                 /\ col' = [col EXCEPT ![r] = "completed"]
      <3>1. Adds(r, o[1])
        BY <1>2, <2>1, <2>2, <2>3 DEF IngestActivity, Adds, StoreSnapshot
      <3> QED BY <2>1, <3>1
    <2>4. CASE UNCHANGED <<stored, at, body, cur, col, requested>>
      <3>1. Folds(KeyOf[r])
        BY <1>2, <2>4 DEF IngestActivity, Folds
      <3> QED BY <2>1, <3>1
    <2> QED BY <1>2, <2>3, <2>4 DEF IngestActivity
  <1>3. ASSUME NEW r \in Result, NEW status \in {"failed", "expired"}, EndCollection(r, status)
        PROVE  \E k \in Key : Folds(k)
    <2>1. r \notin stored
      BY <1>3 DEF EndCollection, Unanswered, Safe, Backed
    <2>2. Folds(KeyOf[r])
      BY <1>3, <2>1 DEF EndCollection, Folds
    <2> QED BY <2>2
  <1>4. ASSUME CleanupCollections, NEW k \in Key PROVE Folds(k)
    BY <1>4, CleanupKeeps DEF CleanupCollections, Folds
  <1>5. ASSUME CleanupCollections PROVE \E k \in Key : Folds(k)
    <2>1. PICK r \in Result : r \in Bookkeeping
      BY <1>5, OldestRows DEF CleanupCollections, Bookkeeping
    <2> QED BY <1>4, <1>5, <2>1
  <1>6. ASSUME \/ Tick \/ UNCHANGED vars \/ \E k \in Key : RepeatActivity(k)
               \/ \E r \in Result : PinBegin(r)
        PROVE  UNCHANGED <<stored, at, cur, col, pinned, job>>
    BY <1>6 DEF Tick, vars, RepeatActivity, PinBegin
  <1> QED BY <1>1, <1>2, <1>3, <1>5, <1>6 DEF Next

-----------------------------------------------------------------------------
\* A pointer never moves backwards, whatever happens to it.
LEMMA AddsForward ==
    ASSUME TypeOK, Safe, NEW r \in Result, NEW t \in Nat, Adds(r, t)
    PROVE  ForwardStep /\ CurrentNewest'
  <1> USE SnapshotConstants DEF TypeOK
  <1> DEFINE k == KeyOf[r]
  <1>1. k \in Key /\ None \notin stored
    OBVIOUS
  <1>2. /\ \A j \in Key : cur'[j] = IF j = k THEN Advanced(k, r, t) ELSE cur[j]
        /\ \A q \in stored : at'[q] = at[q]
        /\ at'[r] = t
    BY <1>1 DEF Adds
  <1>3. \A j \in Key : cur[j] # None => cur[j] \in stored /\ KeyOf[cur[j]] = j
    BY DEF Safe, CurrentNewest, Of
  <1>4. ForwardStep
    BY <1>1, <1>2, <1>3 DEF ForwardStep, Advanced
  <1>5. ASSUME NEW j \in Key PROVE cur'[j] # None => cur'[j] \in stored' /\ KeyOf[cur'[j]] = j
    BY <1>1, <1>2, <1>3 DEF Advanced, Adds
  <1>6. ASSUME NEW j \in Key, ~Diagnostic(j), NEW q \in stored', KeyOf[q] = j
        PROVE  cur'[j] # None /\ at'[q] <= at'[cur'[j]]
    <2>1. CASE j # k
      <3>1. q \in stored /\ cur'[j] = cur[j]
        BY <1>2, <1>6, <2>1 DEF Adds
      <3>2. cur[j] # None /\ at[q] <= at[cur[j]]
        BY <3>1, <1>6 DEF Safe, CurrentNewest, Of
      <3> QED BY <3>1, <3>2, <1>2, <1>3
    <2>2. CASE j = k
      <3>1. q # r => cur[k] # None /\ at[q] <= at[cur[k]] /\ q \in stored
        BY <1>6, <2>2 DEF Adds, Safe, CurrentNewest, Of
      <3>2. CASE cur[k] = None \/ t > at[cur[k]]
        <4>1. cur'[k] = r
          BY <1>1, <1>2, <3>2 DEF Advanced
        <4>2. CASE q = r
          BY <4>1, <4>2, <1>2, <2>2
        <4>3. CASE q # r
          <5>1. cur[k] \in stored /\ at[q] \in Nat /\ at[cur[k]] \in Nat
            BY <3>1, <4>3, <1>1, <1>3
          <5>2. at'[q] = at[q] /\ at'[r] = t /\ at[q] <= at[cur[k]] /\ t > at[cur[k]]
            BY <3>1, <3>2, <4>3, <1>2
          <5>3. at'[q] <= at'[r] /\ r # None
            BY <5>1, <5>2
          <5> QED BY <5>3, <4>1, <2>2
        <4> QED BY <4>2, <4>3
      <3>3. CASE cur[k] # None /\ ~(t > at[cur[k]])
        <4>1. cur'[k] = cur[k] /\ cur[k] \in stored
          BY <1>1, <1>2, <1>3, <3>3 DEF Advanced
        <4>2. at[cur[k]] \in Nat
          BY <4>1
        <4>3. at'[cur[k]] = at[cur[k]]
          BY <4>1, <1>2
        <4>4. at'[q] <= at[cur[k]]
          <5>1. CASE q = r
            BY <5>1, <4>2, <3>3, <1>2
          <5>2. CASE q # r
            BY <5>2, <3>1, <1>2
          <5> QED BY <5>1, <5>2
        <4> QED BY <4>1, <4>3, <4>4, <3>3, <2>2
      <3> QED BY <3>2, <3>3
    <2> QED BY <2>1, <2>2
  <1>7. CurrentNewest'
    BY <1>5, <1>6 DEF CurrentNewest, Of, Diagnostic
  <1> QED BY <1>4, <1>7

\* Folding moves no pointer of a key without diagnostics, and never back.
LEMMA FoldsForward ==
    ASSUME TypeOK, Safe, NEW k \in Key, Folds(k)
    PROVE  ForwardStep /\ CurrentNewest'
  <1> USE SnapshotConstants DEF TypeOK
  <1>1. \A j \in Key : cur[j] # None => cur[j] \in stored /\ KeyOf[cur[j]] = j
    BY DEF Safe, CurrentNewest, Of
  <1>2. CASE cur' = cur
    BY <1>2 DEF Folds, ForwardStep, Safe, CurrentNewest, Of
  <1>3. CASE \E p \in Of(k) : cur' = [cur EXCEPT ![k] = Advanced(k, p, at[p])]
    <2>1. PICK p \in stored : KeyOf[p] = k /\ cur' = [cur EXCEPT ![k] = Advanced(k, p, at[p])]
      BY <1>3 DEF Of
    <2>2. \A j \in Key : cur'[j] = IF j = k THEN Advanced(k, p, at[p]) ELSE cur[j]
      BY <2>1
    <2>3. ForwardStep
      BY <1>1, <2>1, <2>2 DEF ForwardStep, Advanced, Folds
    <2>4. ASSUME NEW j \in Key PROVE cur'[j] # None => cur'[j] \in stored' /\ KeyOf[cur'[j]] = j
      BY <1>1, <2>1, <2>2 DEF Advanced, Folds
    <2>5. ASSUME NEW j \in Key, ~Diagnostic(j), NEW q \in stored, KeyOf[q] = j
          PROVE  cur'[j] # None /\ at[q] <= at[cur'[j]]
      <3>1. cur[j] # None /\ at[q] <= at[cur[j]] /\ cur[j] \in stored
        BY <1>1, <2>5 DEF Safe, CurrentNewest, Of
      <3>2. at[q] \in Nat /\ at[cur[j]] \in Nat /\ at[p] \in Nat
        BY <3>1, <2>1
      <3>3. cur'[j] = cur[j] \/ (cur'[j] = p /\ at[p] > at[cur[j]])
        BY <2>2, <3>1 DEF Advanced
      <3>4. p # None
        BY <2>1
      <3> QED BY <3>1, <3>2, <3>3, <3>4
    <2>6. CurrentNewest'
      BY <2>4, <2>5 DEF CurrentNewest, Of, Diagnostic, Folds
    <2> QED BY <2>3, <2>6
  <1> QED BY <1>2, <1>3 DEF Folds

\* What retention deletes is no pointer's snapshot, diagnostics apart.
LEMMA CommitForward ==
    ASSUME TypeOK, Safe, RetainCommit
    PROVE  ForwardStep /\ CurrentNewest'
  <1> USE SnapshotConstants DEF TypeOK
  <1>1. \A j \in Key : cur'[j] = IF cur[j] \in job.doomed THEN None ELSE cur[j]
    BY DEF RetainCommit, Cascaded
  <1>2. \A j \in Key : cur[j] # None => cur[j] \in stored /\ KeyOf[cur[j]] = j
    BY DEF Safe, CurrentNewest, Of
  <1>3. \A j \in Key : cur[j] \in job.doomed => Diagnostic(j)
    <2> SUFFICES ASSUME NEW j \in Key, cur[j] \in job.doomed PROVE Diagnostic(j)
      OBVIOUS
    <2>1. cur[j] \in Result /\ cur[j] # None
      OBVIOUS
    <2>2. KeyOf[cur[j]] = j
      BY <1>2, <2>1
    <2>3. \A s \in job.doomed : cur[KeyOf[s]] = s => Diagnostic(KeyOf[s])
      BY DEF Safe, DoomedSafe
    <2>4. cur[KeyOf[cur[j]]] = cur[j] => Diagnostic(KeyOf[cur[j]])
      BY <2>3, Zenon
    <2> QED BY <2>2, <2>4
  <1>4. ForwardStep
    BY <1>1, <1>3 DEF ForwardStep
  <1>5. CurrentNewest'
    BY <1>1, <1>2, <1>3 DEF CurrentNewest, Of, Safe, RetainCommit, Diagnostic
  <1> QED BY <1>4, <1>5

LEMMA NextForward ==
    ASSUME TypeOK, Safe, [Next]_vars
    PROVE  ForwardStep /\ CurrentNewest'
  <1>1. CASE UNCHANGED <<stored, at, cur>>
    BY <1>1 DEF ForwardStep, Safe, CurrentNewest, Of
  <1>2. ASSUME NEW r \in Result, PinCommit(r) \/ RetainStep(r) PROVE UNCHANGED <<stored, at, cur>>
    BY <1>2 DEF PinCommit, RetainStep
  <1>3. ASSUME RetainRead PROVE UNCHANGED <<stored, at, cur>>
    BY <1>3 DEF RetainRead
  <1> QED BY <1>1, <1>2, <1>3, NextEffect, AddsForward, FoldsForward, CommitForward

-----------------------------------------------------------------------------
\* Pins, collections and the retention job.
LEMMA NextHeld ==
    ASSUME TypeOK, Safe, [Next]_vars
    PROVE  PinnedStored' /\ Backed' /\ DoomedSafe'
  <1> USE SnapshotConstants DEF TypeOK
  <1>1. ASSUME NEW r \in Result, NEW t \in Nat, Adds(r, t)
        PROVE  PinnedStored' /\ Backed' /\ DoomedSafe'
    <2>1. PinnedStored' /\ Backed'
      BY <1>1 DEF Safe, PinnedStored, Backed, Adds
    <2>2. ASSUME NEW s \in job.doomed
          PROVE  /\ s \in stored' \ pinned' /\ KeyOf[s] \in job.locked /\ KeyOf[s] # KeyOf[r]
                 /\ cur'[KeyOf[s]] = cur[KeyOf[s]] /\ at'[s] = at[s] /\ s \in stored
      BY <1>1 DEF Safe, DoomedSafe, Adds, Unlocked
    <2>3. ASSUME NEW s \in job.doomed, Stable(KeyOf[s]), Previous(KeyOf[s], s, stored)'
          PROVE  Previous(KeyOf[s], s, stored)
      <3> DEFINE k == KeyOf[s]
      <3>1. cur[k] # None /\ cur[k] \in stored /\ cur'[k] = cur[k] /\ at'[cur[k]] = at[cur[k]]
        BY <1>1, <2>2, <2>3 DEF Safe, CurrentNewest, Of, Previous, Adds
      <3>2. \A q \in stored : at'[q] = at[q] /\ q \in stored'
        BY <1>1 DEF Adds
      <3> QED BY <2>2, <2>3, <3>1, <3>2 DEF Previous, Before
    <2>4. DoomedSafe'
      BY <1>1, <2>2, <2>3 DEF Safe, DoomedSafe, Adds, Diagnostic, Stable
    <2> QED BY <2>1, <2>4
  <1>2. ASSUME NEW k \in Key, Folds(k)
        PROVE  PinnedStored' /\ Backed' /\ DoomedSafe'
    <2>1. PinnedStored' /\ Backed'
      BY <1>2 DEF Safe, PinnedStored, Backed, Folds
    <2>2. ASSUME NEW s \in job.doomed PROVE cur'[KeyOf[s]] = cur[KeyOf[s]]
      BY <1>2 DEF Safe, DoomedSafe, Folds, Unlocked
    <2>3. DoomedSafe'
      BY <1>2, <2>2 DEF Safe, DoomedSafe, Folds, Previous, Before, Diagnostic, Stable
    <2> QED BY <2>1, <2>3
  <1>3. ASSUME NEW r \in Result, PinCommit(r)
        PROVE  PinnedStored' /\ Backed' /\ DoomedSafe'
    BY <1>3 DEF Safe, PinnedStored, Backed, DoomedSafe, PinCommit, Pinnable, Unlocked,
                Previous, Before, Diagnostic, Stable
  <1>4. ASSUME NEW s \in Result, RetainStep(s)
        PROVE  PinnedStored' /\ Backed' /\ DoomedSafe'
    <2>1. PinnedStored' /\ Backed'
      BY <1>4 DEF Safe, PinnedStored, Backed, RetainStep
    <2>2. /\ UNCHANGED <<stored, at, pinned, cur>>
          /\ job'.locked = job.locked \cup {KeyOf[s]}
          /\ job'.doomed = IF Deletable(s) THEN job.doomed \cup {s} ELSE job.doomed
      BY <1>4 DEF RetainStep
    <2>3. ASSUME Deletable(s), Stable(KeyOf[s]) PROVE ~Previous(KeyOf[s], s, stored)
      <3>1. s \notin job.doomed \/ ~Previous(KeyOf[s], s, stored)
        BY <2>3 DEF Safe, DoomedSafe
      <3>2. s \notin job.doomed /\ Previous(KeyOf[s], s, stored)
              => Previous(KeyOf[s], s, stored \ job.doomed)
        BY DEF Previous
      <3> QED BY <2>3, <3>1, <3>2 DEF Deletable
    <2>4. DoomedSafe'
      <3> SUFFICES ASSUME NEW q \in job'.doomed
                   PROVE  /\ q \in stored \ pinned /\ KeyOf[q] \in job'.locked
                          /\ cur[KeyOf[q]] = q => Diagnostic(KeyOf[q])
                          /\ Stable(KeyOf[q]) => ~Previous(KeyOf[q], q, stored)
        BY <2>2 DEF DoomedSafe, Previous, Before, Diagnostic, Stable
      <3>1. CASE q \in job.doomed
        BY <2>2, <3>1 DEF Safe, DoomedSafe
      <3>2. CASE q \notin job.doomed
        <4>1. q = s /\ Deletable(s)
          BY <2>2, <3>2
        <4> QED BY <2>2, <2>3, <4>1 DEF Deletable
      <3> QED BY <3>1, <3>2
    <2> QED BY <2>1, <2>4
  <1>5. ASSUME RetainRead
        PROVE  PinnedStored' /\ Backed' /\ DoomedSafe'
    BY <1>5 DEF Safe, PinnedStored, Backed, DoomedSafe, RetainRead, NoJob
  <1>6. ASSUME RetainCommit
        PROVE  PinnedStored' /\ Backed' /\ DoomedSafe'
    BY <1>6 DEF Safe, PinnedStored, Backed, DoomedSafe, RetainCommit, NoJob
  <1>7. ASSUME UNCHANGED <<stored, at, cur, col, pinned, job>>
        PROVE  PinnedStored' /\ Backed' /\ DoomedSafe'
    BY <1>7 DEF Safe, PinnedStored, Backed, DoomedSafe, Previous, Before, Diagnostic, Stable
  <1> QED BY <1>1, <1>2, <1>3, <1>4, <1>5, <1>6, <1>7, NextEffect

LEMMA SafeAlways == Spec => [](TypeOK /\ Safe)
  <1>1. Init => Safe
    BY DEF Init, Safe, CurrentNewest, Of, PinnedStored, Backed, DoomedSafe, NoJob
  <1>2. TypeOK /\ Safe /\ [Next]_vars => Safe'
    BY NextForward, NextHeld DEF Safe
  <1> QED BY <1>1, <1>2, TypeCorrect, NextType, PTL DEF Spec

\* Every pointer leads to the newest stored snapshot of its key, for any fleet and
\* any order in which results arrive (ingest_context_result).
THEOREM CurrentIsNewest == Spec => []CurrentNewest
  BY SafeAlways, PTL DEF Safe

\* No interleaving of pins and retention loses a pinned snapshot
\* (pin_context_snapshot, retain_context_snapshots).
THEOREM PinsHold == Spec => []PinnedStored
  BY SafeAlways, PTL DEF Safe

\* No step moves a pointer back or drops it, diagnostics apart
\* (_advance_current_pointer).
THEOREM PointersForward == Spec => CurrentForward
  <1>1. TypeOK /\ Safe /\ [Next]_vars => [ForwardStep]_vars
    BY NextForward
  <1> QED BY <1>1, SafeAlways, PTL DEF Spec, CurrentForward

\* Retention never deletes the predecessor of a stable profile's current snapshot
\* (retain_context_snapshots).
THEOREM PreviousStays == Spec => PreviousKept
  <1>1. TypeOK /\ Safe /\ [Next]_vars => [PreviousStep]_vars
    <2> SUFFICES ASSUME TypeOK, Safe, [Next]_vars, NEW k \in Key, NEW s \in stored,
                        Stable(k), Previous(k, s, stored)
                 PROVE  s \in stored'
      BY DEF PreviousStep
    <2>1. CASE RetainCommit
      BY <2>1 DEF RetainCommit, Safe, DoomedSafe, Previous
    <2>2. CASE stored \subseteq stored'
      BY <2>2
    <2> QED BY <2>1, <2>2, NextEffect DEF Adds, Folds, PinCommit, RetainStep, RetainRead
  <1> QED BY <1>1, SafeAlways, PTL DEF Spec, PreviousKept

\* An activity pointer follows only an observation newer than all before, whatever is
\* delayed, repeated, unchanged or cleaned up (ingest_activity_observation).
THEOREM ActivityFollowsNewest == Spec => PointerOnlyForNewer
  <1>1. TypeOK /\ Safe /\ [Next]_vars => [NewerStep]_vars
    <2> SUFFICES ASSUME TypeOK, Safe, [Next]_vars, NEW j \in Key, Activity(j),
                        cur[j] # None, cur'[j] \notin {cur[j], None}
                 PROVE  at'[cur'[j]] > newest[j]
      BY DEF NewerStep
    <2> USE SnapshotConstants DEF TypeOK
    <2>1. ASSUME NEW r \in Result, NEW o \in Carries[r], IngestActivity(r, o[1], o[2])
          PROVE  at'[cur'[j]] > newest[j]
      <3>1. /\ cur' = [cur EXCEPT ![KeyOf[r]] = Advanced(KeyOf[r], r, o[1])]
            /\ at' = [at EXCEPT ![r] = o[1]]
        BY <2>1 DEF IngestActivity, StoreSnapshot
      <3>2. KeyOf[r] \in Key
        OBVIOUS
      <3>3. KeyOf[r] = j /\ cur'[j] = r
        BY <3>1, <3>2 DEF Advanced
      <3>4. o[1] > newest[j]
        BY <2>1, <3>3 DEF IngestActivity, Fresh
      <3> QED BY <3>1, <3>3, <3>4
    <2>2. ASSUME NEW r \in Result, NEW o \in Carries[r], Ingest(r, o[1], o[2])
          PROVE  cur'[j] = cur[j]
      <3>1. KeyOf[r] \in Key /\ KeyOf[r] # j
        BY <2>2 DEF Ingest
      <3> QED BY <2>2, <3>1 DEF Ingest
    <2>3. ASSUME RetainCommit PROVE cur'[j] \in {cur[j], None}
      BY <2>3 DEF RetainCommit, Cascaded
    <2>4. ASSUME CleanupCollections PROVE cur'[j] \in {cur[j], None}
      BY <2>4 DEF CleanupCollections, Cascaded
    <2>5. ASSUME \/ Tick \/ RetainRead \/ UNCHANGED vars
                 \/ \E k \in Key : RepeatActivity(k)
                 \/ \E r \in Result : \/ EndCollection(r, "failed") \/ EndCollection(r, "expired")
                                       \/ PinBegin(r) \/ PinCommit(r) \/ RetainStep(r)
          PROVE  cur' = cur
      BY <2>5 DEF Tick, RetainRead, vars, RepeatActivity, EndCollection, PinBegin, PinCommit,
                  RetainStep
    <2> QED BY <2>1, <2>2, <2>3, <2>4, <2>5 DEF Next
  <1> QED BY <1>1, SafeAlways, PTL DEF Spec, PointerOnlyForNewer
=============================================================================
