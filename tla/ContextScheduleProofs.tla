------------------------ MODULE ContextScheduleProofs ------------------------
(***************************************************************************)
(* Theorems about ContextSchedule for any profiles, rules, handlers, keys  *)
(* and bounds.                                                             *)
(***************************************************************************)
EXTENDS ContextSchedule, FiniteSetTheorems, TLAPS

-----------------------------------------------------------------------------
(* The inductive invariant *)

\* Who looks an identity up, or has a row to insert, holds the device row.
DeviceHeld ==
    \A a \in Actor : tx[a].phase = "lookup" \/ tx[a].inserts # {} => device = a

\* A locked row exists, has one owner, and everything a transaction will change
\* at its commit it has locked.
RowsHeld ==
    /\ \A a \in Actor : /\ \A id \in tx[a].locks : row[id] # "absent"
                        /\ tx[a].expired \subseteq tx[a].locks
                        /\ tx[a].sends \subseteq tx[a].locks
    /\ \A a, b \in Actor : a # b => tx[a].locks \cap tx[b].locks = {}

\* What is being inserted does not exist yet.
InsertsNew == \A a \in Actor : \A id \in tx[a].inserts : row[id] = "absent"

\* Each transaction does its own work only.
Roles ==
    /\ "worker" \in Server =>
         /\ tx["worker"].found = {}
         /\ \A id \in tx["worker"].expired \cup tx["worker"].inserts : id[1] = "scheduler"
    /\ "gateway" \in Server =>
         /\ tx["gateway"].inserts = {} /\ tx["gateway"].phase # "lookup"
         /\ tx["gateway"].sends \cap tx["gateway"].expired = {}
         /\ tx["gateway"].sends # {} => tx["gateway"].phase # "expire"
    /\ \A a \in Actor : a # "gateway" => tx[a].sends = {}
    /\ \A a \in Actor : \A id \in tx[a].sends : row[id] = "requested"
    /\ \A id \in Row : id[1] = "refresh" => row[id] # "released"

\* The refresh requests of a profile that are active, and a handler that will end
\* all of them.
Refreshes(p) == {id \in Row : id[1] = "refresh" /\ id[2] = p /\ Active(id)}
Settled(h, p) == Refreshes(p) \subseteq tx[h].expired

\* A handler at work on a rule, or with a request to insert, holds the lock of
\* the profile; by the time it inserts it has settled the profile.
Turns ==
    \A h \in Handler :
      /\ tx[h].phase \in {"expire", "active", "insert", "lookup"} =>
           tx[h].todo # <<>> /\ advisory[Rule(h)] = h
      /\ tx[h].phase = "active" =>
           Refreshes(Rule(h)) \subseteq tx[h].expired \cup tx[h].found \cup tx[h].locks
      /\ tx[h].phase \in {"insert", "lookup"} => Settled(h, Rule(h))
      /\ \A id \in tx[h].inserts : /\ id = Identity(h, id[2])
                                   /\ advisory[id[2]] = h /\ Settled(h, id[2])

\* At most one refresh request of a profile is active.
Single == \A p \in Profile : \A i, j \in Refreshes(p) : i = j

Safe == DeviceHeld /\ RowsHeld /\ InsertsNew /\ Roles /\ Turns /\ Single

-----------------------------------------------------------------------------
(* Transactions, field by field *)

\* Transaction t has these fields.
Txn(t, phase, now, todo, found, locks, expired, inserts, sends) ==
    /\ t \in Transaction
    /\ t.phase = phase /\ t.now = now /\ t.todo = todo /\ t.found = found
    /\ t.locks = locks /\ t.expired = expired /\ t.inserts = inserts /\ t.sends = sends

LEMMA Names ==
    /\ "worker" \notin Handler /\ "gateway" \notin Handler /\ None \notin Actor
    /\ \A a \in Actor : a \in Handler \/ a \in {"worker", "gateway"}
    /\ "worker" # None /\ "gateway" # None
    BY ScheduleConstants DEF Actor

LEMMA TxnFields ==
    ASSUME NEW t \in Transaction
    PROVE  /\ t.phase \in Phases /\ t.now \in Time /\ t.todo \in Seq(Profile)
           /\ t.found \subseteq Row /\ t.locks \subseteq Row /\ t.expired \subseteq Row
           /\ t.inserts \subseteq Row /\ t.sends \subseteq Row
    BY DEF Transaction

\* The updates the actions make, as records.
LEMMA Updates ==
    ASSUME NEW t \in Transaction, NEW phase \in Phases, NEW todo \in Seq(Profile),
           NEW found \in SUBSET Row, NEW locks \in SUBSET Row, NEW expired \in SUBSET Row,
           NEW inserts \in SUBSET Row, NEW sends \in SUBSET Row
    PROVE  /\ Txn([t EXCEPT !.phase = phase],
                  phase, t.now, t.todo, t.found, t.locks, t.expired, t.inserts, t.sends)
           /\ Txn([t EXCEPT !.phase = phase, !.todo = todo, !.locks = locks],
                  phase, t.now, todo, t.found, locks, t.expired, t.inserts, t.sends)
           /\ Txn([t EXCEPT !.phase = phase, !.locks = locks],
                  phase, t.now, t.todo, t.found, locks, t.expired, t.inserts, t.sends)
           /\ Txn([t EXCEPT !.found = found, !.locks = locks, !.expired = expired],
                  t.phase, t.now, t.todo, found, locks, expired, t.inserts, t.sends)
           /\ Txn([t EXCEPT !.phase = phase, !.found = found],
                  phase, t.now, t.todo, found, t.locks, t.expired, t.inserts, t.sends)
           /\ Txn([t EXCEPT !.phase = phase, !.todo = todo, !.inserts = inserts],
                  phase, t.now, todo, t.found, t.locks, t.expired, inserts, t.sends)
           /\ Txn([t EXCEPT !.phase = phase, !.locks = locks, !.sends = sends],
                  phase, t.now, t.todo, t.found, locks, t.expired, t.inserts, sends)
    <1>1. Txn([t EXCEPT !.phase = phase],
               phase, t.now, t.todo, t.found, t.locks, t.expired, t.inserts, t.sends)
      BY DEF Transaction, Txn
    <1>2. Txn([t EXCEPT !.phase = phase, !.todo = todo, !.locks = locks],
               phase, t.now, todo, t.found, locks, t.expired, t.inserts, t.sends)
      BY DEF Transaction, Txn
    <1>3. Txn([t EXCEPT !.phase = phase, !.locks = locks],
               phase, t.now, t.todo, t.found, locks, t.expired, t.inserts, t.sends)
      BY DEF Transaction, Txn
    <1>4. Txn([t EXCEPT !.found = found, !.locks = locks, !.expired = expired],
               t.phase, t.now, t.todo, found, locks, expired, t.inserts, t.sends)
      BY DEF Transaction, Txn
    <1>5. Txn([t EXCEPT !.phase = phase, !.found = found],
               phase, t.now, t.todo, found, t.locks, t.expired, t.inserts, t.sends)
      BY DEF Transaction, Txn
    <1>6. Txn([t EXCEPT !.phase = phase, !.todo = todo, !.inserts = inserts],
               phase, t.now, todo, t.found, t.locks, t.expired, inserts, t.sends)
      BY DEF Transaction, Txn
    <1>7. Txn([t EXCEPT !.phase = phase, !.locks = locks, !.sends = sends],
               phase, t.now, t.todo, t.found, locks, t.expired, t.inserts, sends)
      BY DEF Transaction, Txn
    <1> QED BY <1>1, <1>2, <1>3, <1>4, <1>5, <1>6, <1>7, Zenon

LEMMA IdleType == Txn(Idle, "idle", 0, <<>>, {}, {}, {}, {}, {})
    <1>1. 0 \in Time /\ <<>> \in Seq(Profile) /\ "idle" \in Phases
      BY ScheduleConstants DEF Time, Phases
    <1> QED BY <1>1 DEF Idle, Transaction, Txn

\* The records a transaction begins with.
LEMMA Begins ==
    ASSUME NEW phase \in Phases, NEW now \in Time, NEW todo \in Seq(Profile),
           NEW found \in SUBSET Row, NEW locks \in SUBSET Row, NEW t \in Transaction, t = Idle
    PROVE  /\ Txn([t EXCEPT !.phase = phase, !.now = now, !.todo = todo, !.locks = locks, !.expired = locks],
                  phase, now, todo, {}, locks, locks, {}, {})
           /\ Txn([t EXCEPT !.phase = phase, !.now = now, !.todo = todo],
                  phase, now, todo, {}, {}, {}, {}, {})
           /\ Txn([t EXCEPT !.phase = phase, !.now = now, !.found = found],
                  phase, now, <<>>, found, {}, {}, {}, {})
    <1>0. /\ t.now = 0 /\ t.todo = <<>> /\ t.found = {} /\ t.locks = {} /\ t.expired = {}
          /\ t.inserts = {} /\ t.sends = {}
      BY IdleType DEF Txn
    <1>1. Txn([t EXCEPT !.phase = phase, !.now = now, !.todo = todo, !.locks = locks, !.expired = locks],
               phase, now, todo, {}, locks, locks, {}, {})
      BY <1>0 DEF Transaction, Txn
    <1>2. Txn([t EXCEPT !.phase = phase, !.now = now, !.todo = todo],
               phase, now, todo, {}, {}, {}, {}, {})
      BY <1>0 DEF Transaction, Txn
    <1>3. Txn([t EXCEPT !.phase = phase, !.now = now, !.found = found],
               phase, now, <<>>, found, {}, {}, {}, {})
      BY <1>0 DEF Transaction, Txn
    <1> QED BY <1>1, <1>2, <1>3, Zenon

\* Transaction a becomes t, the others stay.
Becomes(a, t) == tx'[a] = t /\ \A b \in Actor : b # a => tx'[b] = tx[b]

LEMMA TxnSet ==
    ASSUME tx \in [Actor -> Transaction], NEW a \in Actor, NEW t \in Transaction,
           tx' = [tx EXCEPT ![a] = t]
    PROVE  Becomes(a, t) /\ tx' \in [Actor -> Transaction]
    BY DEF Becomes

LEMMA Buckets ==
    ASSUME NEW t \in Time, NEW w \in Nat \ {0}
    PROVE  t \div w \in Time
    BY ScheduleConstants DEF Time

LEMMA IdentityRow ==
    ASSUME NEW a \in Actor, NEW p \in Profile, tx[a].now \in Time
    PROVE  /\ Identity(a, p) \in Row /\ Identity(a, p)[2] = p
           /\ a = "worker" => Identity(a, p)[1] = "scheduler"
           /\ a # "worker" => Identity(a, p)[1] = "refresh"
    <1>1. tx[a].now \div Interval \in Time /\ tx[a].now \div Window \in Time
      BY Buckets, ScheduleConstants
    <1> QED BY <1>1 DEF Identity, Row

-----------------------------------------------------------------------------
(* A statement of transaction a *)

\* What the transaction holds after the statement.
Holding(a, t, u) ==
    /\ u \in Transaction
    /\ \A id \in u.locks : id \in t.locks \/ (row[id] # "absent" /\ ~Locked(id, a))
    /\ u.expired \subseteq u.locks /\ u.sends \subseteq u.locks
    /\ \A id \in u.sends : row[id] = "requested"
    /\ \A id \in u.inserts : row[id] = "absent"
    /\ u.phase = "lookup" \/ u.inserts # {} => device' = a
    /\ a = "worker" => u.found = {} /\ \A id \in u.expired \cup u.inserts : id[1] = "scheduler"
    /\ a = "gateway" => /\ u.inserts = {} /\ u.phase # "lookup" /\ u.sends \cap u.expired = {}
                        /\ u.sends # {} => u.phase # "expire"
    /\ a # "gateway" => u.sends = {}

\* Turns, of a handler's record u after the statement.
InTurn(h, u) ==
    /\ u.phase \in {"expire", "active", "insert", "lookup"} =>
         u.todo # <<>> /\ advisory'[Head(u.todo)] = h
    /\ u.phase = "active" => Refreshes(Head(u.todo)) \subseteq u.expired \cup u.found \cup u.locks
    /\ u.phase \in {"insert", "lookup"} => Refreshes(Head(u.todo)) \subseteq u.expired
    /\ \A id \in u.inserts : /\ id = <<"refresh", id[2], u.now \div Window>>
                             /\ advisory'[id[2]] = h /\ Refreshes(id[2]) \subseteq u.expired

\* The device row and the advisory locks of the others stay theirs.
OthersLocks(a) ==
    /\ \A b \in Actor : b # a /\ device = b => device' = b
    /\ \A h \in Handler, p \in Profile : h # a /\ advisory[p] = h => advisory'[p] = h

Statement(a) ==
    /\ UNCHANGED <<clock, row, made, latest>>
    /\ device' \in Actor \cup {None} /\ advisory' \in [Profile -> Handler \cup {None}]
    /\ OthersLocks(a)
    /\ tx' \in [Actor -> Transaction] /\ \A b \in Actor : b # a => tx'[b] = tx[b]
    /\ Holding(a, tx[a], tx'[a])
    /\ a \in Handler => InTurn(a, tx'[a])

\* The bounds of its time and its profile are those of a handler's turn.
LEMMA TurnsAre ==
    ASSUME TypeOK, NEW h \in Handler
    PROVE  /\ h \in Actor /\ h # "worker" /\ h # "gateway"
           /\ \A p : Identity(h, p) = <<"refresh", p, tx[h].now \div Window>>
    BY Names DEF Identity, Actor

\* The active refresh requests of a profile after the step.
RefreshesNext(p) ==
    {id \in Row : id[1] = "refresh" /\ id[2] = p /\ row'[id] \in {"requested", "delivered"}}

LEMMA TurnsFromNext ==
    ASSUME \A h \in Handler :
             /\ tx'[h].phase \in {"expire", "active", "insert", "lookup"} =>
                  tx'[h].todo # <<>> /\ advisory'[Head(tx'[h].todo)] = h
             /\ tx'[h].phase = "active" => RefreshesNext(Head(tx'[h].todo))
                   \subseteq tx'[h].expired \cup tx'[h].found \cup tx'[h].locks
             /\ tx'[h].phase \in {"insert", "lookup"} =>
                  RefreshesNext(Head(tx'[h].todo)) \subseteq tx'[h].expired
             /\ \A id \in tx'[h].inserts :
                  /\ id = <<"refresh", id[2], tx'[h].now \div Window>>
                  /\ advisory'[id[2]] = h /\ RefreshesNext(id[2]) \subseteq tx'[h].expired
    PROVE  Turns'
    BY Names DEF Turns, Rule, Settled, Refreshes, RefreshesNext, Active, Identity

LEMMA SingleFromNext ==
    ASSUME \A p \in Profile : \A i, j \in RefreshesNext(p) : i = j
    PROVE  Single'
    BY DEF Single, Refreshes, RefreshesNext, Active

LEMMA StatementKeeps ==
    ASSUME TypeOK, Safe, NEW a \in Actor, Statement(a)
    PROVE  TypeOK' /\ Safe'
    <1>0. /\ row' = row /\ \A b \in Actor : b # a => tx'[b] = tx[b]
          /\ tx' \in [Actor -> Transaction]
      BY DEF Statement
    <1>1. TypeOK'
      BY DEF Statement, TypeOK
    <1>2. DeviceHeld'
      BY <1>0 DEF Statement, Holding, OthersLocks, Safe, DeviceHeld
    <1>3. RowsHeld'
      <2>1. ASSUME NEW b \in Actor
            PROVE  /\ \A id \in tx'[b].locks : row'[id] # "absent"
                   /\ tx'[b].expired \subseteq tx'[b].locks /\ tx'[b].sends \subseteq tx'[b].locks
        <3>1. CASE b = a
          BY <1>0, <3>1 DEF Statement, Holding, Safe, RowsHeld
        <3>2. CASE b # a
          BY <1>0, <3>2 DEF Safe, RowsHeld
        <3> QED BY <3>1, <3>2
      <2>2. ASSUME NEW b \in Actor, b # a, NEW id \in tx'[a].locks PROVE id \notin tx[b].locks
        BY <2>2 DEF Statement, Holding, Locked, Safe, RowsHeld
      <2>3. ASSUME NEW b \in Actor, NEW c \in Actor, b # c
            PROVE  tx'[b].locks \cap tx'[c].locks = {}
        <3>1. CASE b = a
          BY <1>0, <2>2, <2>3, <3>1
        <3>2. CASE c = a
          BY <1>0, <2>2, <2>3, <3>2
        <3>3. CASE b # a /\ c # a
          BY <1>0, <2>3, <3>3 DEF Safe, RowsHeld
        <3> QED BY <3>1, <3>2, <3>3
      <2> QED BY <2>1, <2>3 DEF RowsHeld
    <1>4. InsertsNew'
      BY <1>0 DEF Statement, Holding, Safe, InsertsNew
    <1>5. Roles'
      <2>1. "worker" \in Server =>
              /\ tx'["worker"].found = {}
              /\ \A id \in tx'["worker"].expired \cup tx'["worker"].inserts : id[1] = "scheduler"
        BY <1>0 DEF Statement, Holding, Safe, Roles, Actor
      <2>2. /\ "gateway" \in Server =>
                 /\ tx'["gateway"].inserts = {} /\ tx'["gateway"].phase # "lookup"
                 /\ tx'["gateway"].sends \cap tx'["gateway"].expired = {}
                 /\ tx'["gateway"].sends # {} => tx'["gateway"].phase # "expire"
            /\ \A b \in Actor : b # "gateway" => tx'[b].sends = {}
        BY <1>0 DEF Statement, Holding, Safe, Roles, Actor
      <2>3. \A b \in Actor : \A id \in tx'[b].sends : row[id] = "requested"
        BY <1>0 DEF Statement, Holding, Safe, Roles
      <2> QED BY <1>0, <2>1, <2>2, <2>3 DEF Safe, Roles
    <1>6. \A p : RefreshesNext(p) = Refreshes(p)
      BY <1>0 DEF Refreshes, RefreshesNext, Active
    <1>7. ASSUME NEW h \in Handler PROVE InTurn(h, tx'[h])
      <2>1. CASE h = a
        BY <2>1 DEF Statement
      <2>2. CASE h # a
        <3>1. tx'[h] = tx[h] /\ h \in Actor
          BY <1>0, <2>2, TurnsAre
        <3>2. \A p \in Profile : advisory[p] = h => advisory'[p] = h
          BY <2>2 DEF Statement, OthersLocks
        <3>3. tx[h] \in Transaction
          BY <3>1 DEF TypeOK
        <3>4. /\ tx[h].todo # <<>> => Head(tx[h].todo) \in Profile
              /\ \A id \in tx[h].inserts : Identity(h, id[2]) = <<"refresh", id[2], tx[h].now \div Window>>
              /\ tx[h].inserts \subseteq Row
          BY <3>3, TurnsAre, TxnFields
        <3>5. \A id \in Row : id[2] \in Profile
          BY DEF Row
        <3> QED BY <3>1, <3>2, <3>4, <3>5 DEF InTurn, Safe, Turns, Rule, Settled
      <2> QED BY <2>1, <2>2
    <1>8. Turns'
      <2>1. ASSUME NEW h \in Handler
            PROVE  /\ tx'[h].phase \in {"expire", "active", "insert", "lookup"} =>
                        tx'[h].todo # <<>> /\ advisory'[Head(tx'[h].todo)] = h
                   /\ tx'[h].phase = "active" => RefreshesNext(Head(tx'[h].todo))
                         \subseteq tx'[h].expired \cup tx'[h].found \cup tx'[h].locks
                   /\ tx'[h].phase \in {"insert", "lookup"} =>
                        RefreshesNext(Head(tx'[h].todo)) \subseteq tx'[h].expired
                   /\ \A id \in tx'[h].inserts :
                        /\ id = <<"refresh", id[2], tx'[h].now \div Window>>
                        /\ advisory'[id[2]] = h /\ RefreshesNext(id[2]) \subseteq tx'[h].expired
        BY <1>6, <1>7, <2>1 DEF InTurn
      <2> QED BY <2>1, TurnsFromNext
    <1>9. Single'
      BY <1>6, SingleFromNext DEF Safe, Single
    <1> QED BY <1>1, <1>2, <1>3, <1>4, <1>5, <1>8, <1>9 DEF Safe

-----------------------------------------------------------------------------
(* The statements *)

\* What a transaction holds before a statement.
LEMMA Before ==
    ASSUME TypeOK, Safe, NEW a \in Actor
    PROVE  /\ tx[a] \in Transaction
           /\ \A id \in tx[a].locks : row[id] # "absent"
           /\ tx[a].expired \subseteq tx[a].locks /\ tx[a].sends \subseteq tx[a].locks
           /\ \A id \in tx[a].sends : row[id] = "requested"
           /\ \A id \in tx[a].inserts : row[id] = "absent"
           /\ tx[a].phase = "lookup" \/ tx[a].inserts # {} => device = a
           /\ a = "worker" => /\ tx[a].found = {}
                              /\ \A id \in tx[a].expired \cup tx[a].inserts : id[1] = "scheduler"
           /\ a = "gateway" => /\ tx[a].inserts = {} /\ tx[a].phase # "lookup"
                               /\ tx[a].sends \cap tx[a].expired = {}
                               /\ tx[a].sends # {} => tx[a].phase # "expire"
           /\ a # "gateway" => tx[a].sends = {}
           /\ tx[a].sends \cap tx[a].expired = {}
    <1>1. tx[a] \in Transaction
      BY DEF TypeOK
    <1>2. a \in Handler \/ a \in Server
      BY DEF Actor
    <1>3. "worker" \notin Handler /\ "gateway" \notin Handler
      BY Names
    <1> QED BY <1>1, <1>2, <1>3 DEF Safe, DeviceHeld, RowsHeld, InsertsNew, Roles

\* The turn of a handler before a statement.
LEMMA BeforeTurn ==
    ASSUME TypeOK, Safe, NEW h \in Handler
    PROVE  /\ h \in Actor /\ h # "worker" /\ h # "gateway"
           /\ tx[h].phase \in {"expire", "active", "insert", "lookup"} =>
                tx[h].todo # <<>> /\ advisory[Rule(h)] = h
           /\ tx[h].phase = "active" =>
                Refreshes(Rule(h)) \subseteq tx[h].expired \cup tx[h].found \cup tx[h].locks
           /\ tx[h].phase \in {"insert", "lookup"} => Refreshes(Rule(h)) \subseteq tx[h].expired
           /\ \A id \in tx[h].inserts :
                /\ id = <<"refresh", id[2], tx[h].now \div Window>>
                /\ advisory[id[2]] = h /\ Refreshes(id[2]) \subseteq tx[h].expired
    BY TurnsAre DEF Safe, Turns, Settled

LEMMA SeqParts ==
    ASSUME NEW s \in Seq(Profile), s # <<>>
    PROVE  Head(s) \in Profile /\ Tail(s) \in Seq(Profile)
    OBVIOUS

\* A statement that moves no lock of the device row or of a profile.
LEMMA StatementIs ==
    ASSUME TypeOK, Safe, NEW a \in Actor, NEW u,
           UNCHANGED <<clock, row, made, latest, device, advisory>>,
           tx' = [tx EXCEPT ![a] = u], Holding(a, tx[a], u), a \in Handler => InTurn(a, u)
    PROVE  Statement(a)
    <1>1. u \in Transaction /\ tx \in [Actor -> Transaction]
      BY DEF Holding, TypeOK
    <1>2. Becomes(a, u) /\ tx' \in [Actor -> Transaction]
      BY <1>1, TxnSet
    <1> QED BY <1>2 DEF Becomes, Statement, OthersLocks, TypeOK

LEMMA NextRuleStatement ==
    ASSUME TypeOK, Safe, NEW a \in Actor, NEW S \in SUBSET Row,
           \A id \in S : row[id] # "absent" /\ ~Locked(id, a), tx[a].todo # <<>>,
           UNCHANGED <<clock, row, made, latest, device, advisory>>, NextRule(a, S)
    PROVE  Statement(a)
    <1> DEFINE u == [tx[a] EXCEPT !.phase = "rule", !.todo = Tail(tx[a].todo),
                                  !.locks = tx[a].locks \cup S]
    <1>1. tx' = [tx EXCEPT ![a] = u]
      BY Zenon DEF NextRule
    <1>2. tx[a] \in Transaction
      BY Before
    <1>3. /\ "rule" \in Phases /\ Tail(tx[a].todo) \in Seq(Profile)
          /\ tx[a].locks \cup S \in SUBSET Row
      BY <1>2, TxnFields, SeqParts DEF Phases
    <1>4. Txn(u, "rule", tx[a].now, Tail(tx[a].todo), tx[a].found, tx[a].locks \cup S,
              tx[a].expired, tx[a].inserts, tx[a].sends)
      BY <1>2, <1>3, Updates, Zenon
    <1> HIDE DEF u
    <1>5. Holding(a, tx[a], u)
      BY <1>4, Before DEF Txn, Holding
    <1>6. a \in Handler => InTurn(a, u)
      BY <1>4, BeforeTurn DEF Txn, InTurn
    <1> QED BY <1>1, <1>5, <1>6, StatementIs

\* A statement that only moves on to another phase.
LEMMA PhaseStatement ==
    ASSUME TypeOK, Safe, NEW a \in Actor, NEW phase \in Phases \ {"lookup", "expire"},
           UNCHANGED <<clock, row, made, latest, device, advisory>>,
           tx' = [tx EXCEPT ![a].phase = phase],
           a \in Handler => InTurn(a, [tx[a] EXCEPT !.phase = phase])
    PROVE  Statement(a)
    <1> DEFINE u == [tx[a] EXCEPT !.phase = phase]
    <1>1. tx' = [tx EXCEPT ![a] = u]
      OBVIOUS
    <1>2. tx[a] \in Transaction
      BY Before
    <1>3. Txn(u, phase, tx[a].now, tx[a].todo, tx[a].found, tx[a].locks,
              tx[a].expired, tx[a].inserts, tx[a].sends)
      BY <1>2, TxnFields, Updates, Zenon
    <1>4. a \in Handler => InTurn(a, u)
      OBVIOUS
    <1> HIDE DEF u
    <1>5. Holding(a, tx[a], u)
      BY <1>3, Before DEF Txn, Holding
    <1> QED BY <1>1, <1>4, <1>5, StatementIs

LEMMA ScheduleBeginStatement ==
    ASSUME TypeOK, Safe, ScheduleBegin
    PROVE  "worker" \in Actor /\ Statement("worker")
    <1> DEFINE due == {id \in Row : /\ Releasable(id)
                                    /\ Overdue(id, clock) /\ ~Locked(id, "worker")}
    <1> DEFINE u == [Idle EXCEPT !.phase = "rule", !.now = clock, !.todo = WorkerRules,
                                 !.locks = due, !.expired = due]
    <1>1. "worker" \in Actor
      BY DEF ScheduleBegin, Actor
    <1>2. tx' = [tx EXCEPT !["worker"] = u]
      BY Zenon DEF ScheduleBegin
    <1>3. UNCHANGED <<clock, row, made, latest, device, advisory>>
      BY Zenon DEF ScheduleBegin
    <1>4. /\ Idle \in Transaction /\ "rule" \in Phases /\ clock \in Time
          /\ WorkerRules \in Seq(Profile) /\ due \in SUBSET Row
      BY IdleType, ScheduleConstants DEF Txn, Phases, TypeOK
    <1>5. \A id \in due : id[1] = "scheduler" /\ row[id] # "absent" /\ ~Locked(id, "worker")
      BY SMTT(30) DEF Releasable, Active
    <1> HIDE DEF due
    <1>6. Txn(u, "rule", clock, WorkerRules, {}, due, due, {}, {})
      BY <1>4, Begins
    <1> HIDE DEF u
    <1>7. Holding("worker", tx["worker"], u)
      BY <1>5, <1>6 DEF Txn, Holding
    <1> QED BY <1>1, <1>2, <1>3, <1>7, Names, StatementIs

LEMMA ScheduleActiveStatement ==
    ASSUME TypeOK, Safe, ScheduleActive
    PROVE  "worker" \in Actor /\ Statement("worker")
    <1> DEFINE active == {id \in ActiveRows("worker") :
                             id[2] = Rule("worker") /\ ~Locked(id, "worker")}
    <1>1. "worker" \in Actor /\ tx["worker"].todo # <<>>
      BY DEF ScheduleActive, InRule
    <1>2. UNCHANGED <<clock, row, made, latest, device, advisory>>
      BY Zenon DEF ScheduleActive
    <1>3. \/ NextRule("worker", active)
          \/ tx' = [tx EXCEPT !["worker"].phase = "latest"]
      BY Zenon DEF ScheduleActive
    <1>4. active \in SUBSET Row /\ \A id \in active : row[id] # "absent" /\ ~Locked(id, "worker")
      BY DEF ActiveRows, Active
    <1>5. "latest" \in Phases \ {"lookup", "expire"}
      BY DEF Phases
    <1> HIDE DEF active
    <1>6. CASE NextRule("worker", active)
      BY <1>1, <1>2, <1>4, <1>6, NextRuleStatement
    <1>7. CASE tx' = [tx EXCEPT !["worker"].phase = "latest"]
      BY <1>1, <1>2, <1>5, <1>7, Names, PhaseStatement
    <1> QED BY <1>3, <1>6, <1>7

LEMMA ScheduleLatestStatement ==
    ASSUME TypeOK, Safe, ScheduleLatest
    PROVE  "worker" \in Actor /\ Statement("worker")
    <1> DEFINE u(id) == [tx["worker"] EXCEPT !.phase = "insert", !.locks = tx["worker"].locks \cup {id}]
    <1>1. "worker" \in Actor /\ tx["worker"].todo # <<>>
      BY DEF ScheduleLatest, InRule
    <1>2. UNCHANGED <<clock, row, made, latest, device, advisory>>
      BY Zenon DEF ScheduleLatest
    <1>3. \/ tx' = [tx EXCEPT !["worker"].phase = "insert"]
          \/ \E id \in Row : /\ row[id] # "absent" /\ ~Locked(id, "worker")
                             /\ \/ NextRule("worker", {id})
                                \/ tx' = [tx EXCEPT !["worker"] = u(id)]
      BY Zenon DEF ScheduleLatest
    <1>5. "insert" \in Phases \ {"lookup", "expire"}
      BY DEF Phases
    <1>6. CASE tx' = [tx EXCEPT !["worker"].phase = "insert"]
      BY <1>1, <1>2, <1>5, <1>6, Names, PhaseStatement
    <1>7. CASE \E id \in Row : /\ row[id] # "absent" /\ ~Locked(id, "worker")
                               /\ \/ NextRule("worker", {id})
                                  \/ tx' = [tx EXCEPT !["worker"] = u(id)]
      <2>1. PICK id \in Row : /\ row[id] # "absent" /\ ~Locked(id, "worker")
                              /\ \/ NextRule("worker", {id})
                                 \/ tx' = [tx EXCEPT !["worker"] = u(id)]
        BY <1>7
      <2>2. CASE NextRule("worker", {id})
        BY <1>1, <1>2, <2>1, <2>2, NextRuleStatement
      <2>3. CASE tx' = [tx EXCEPT !["worker"] = u(id)]
        <3>1. tx["worker"] \in Transaction /\ tx["worker"].locks \cup {id} \in SUBSET Row
          BY <1>1, Before, TxnFields
        <3>2. Txn(u(id), "insert", tx["worker"].now, tx["worker"].todo, tx["worker"].found,
                  tx["worker"].locks \cup {id}, tx["worker"].expired, tx["worker"].inserts,
                  tx["worker"].sends)
          BY <1>5, <3>1, TxnFields, Updates, ZenonT(30)
        <3> HIDE DEF u
        <3>3. Holding("worker", tx["worker"], u(id))
          BY <1>1, <1>2, <2>1, <3>2, Before DEF Txn, Holding
        <3> QED BY <1>1, <1>2, <2>3, <3>3, Names, StatementIs
      <2> QED BY <2>1, <2>2, <2>3
    <1> QED BY <1>3, <1>6, <1>7

LEMMA RefreshBeginStatement ==
    ASSUME TypeOK, Safe, NEW h \in Handler, RefreshBegin(h)
    PROVE  h \in Actor /\ Statement(h)
    <1> DEFINE u == [Idle EXCEPT !.phase = "rule", !.now = clock, !.todo = RefreshRules]
    <1>1. h \in Actor /\ h # "worker" /\ h # "gateway"
      BY BeforeTurn
    <1>2. tx' = [tx EXCEPT ![h] = u] /\ UNCHANGED <<clock, row, made, latest, device, advisory>>
      BY Zenon DEF RefreshBegin
    <1>3. /\ Idle \in Transaction /\ "rule" \in Phases /\ clock \in Time
          /\ RefreshRules \in Seq(Profile)
      BY IdleType, ScheduleConstants DEF Txn, Phases, TypeOK
    <1>4. Txn(u, "rule", clock, RefreshRules, {}, {}, {}, {}, {})
      BY <1>3, Begins
    <1> HIDE DEF u
    <1>5. Holding(h, tx[h], u) /\ InTurn(h, u)
      BY <1>1, <1>4 DEF Txn, Holding, InTurn
    <1> QED BY <1>1, <1>2, <1>5, StatementIs

\* The handler takes the lock of the profile.
LEMMA RefreshExpireStatement ==
    ASSUME TypeOK, Safe, NEW h \in Handler, RefreshExpire(h)
    PROVE  h \in Actor /\ Statement(h)
    <1> DEFINE S == {id \in ActiveRows(h) : id[2] = Rule(h) /\ Overdue(id, tx[h].now)}
    <1> DEFINE u == [tx[h] EXCEPT !.phase = "expire", !.found = S]
    <1>1. h \in Actor /\ h # "worker" /\ h # "gateway"
      BY BeforeTurn
    <1>2. /\ tx' = [tx EXCEPT ![h] = u] /\ advisory' = [advisory EXCEPT ![Rule(h)] = h]
          /\ UNCHANGED <<clock, row, made, latest, device>>
      BY Zenon DEF RefreshExpire
    <1>3. tx[h].todo # <<>> /\ advisory[Rule(h)] \in {None, h}
      BY Zenon DEF RefreshExpire, InRule, OwnTurn
    <1>4. tx[h] \in Transaction /\ S \in SUBSET Row /\ "expire" \in Phases
      BY <1>1, Before DEF ActiveRows, Phases
    <1> HIDE DEF S
    <1>5. Txn(u, "expire", tx[h].now, tx[h].todo, S, tx[h].locks, tx[h].expired,
              tx[h].inserts, tx[h].sends)
      BY <1>4, TxnFields, Updates, Zenon
    <1>6. Rule(h) \in Profile
      BY <1>3, <1>4, TxnFields, SeqParts DEF Rule
    <1> HIDE DEF u
    <1>7. /\ advisory' \in [Profile -> Handler \cup {None}] /\ advisory'[Rule(h)] = h
          /\ \A p \in Profile : p # Rule(h) => advisory'[p] = advisory[p]
      BY <1>2, <1>6 DEF TypeOK
    <1>8. OthersLocks(h)
      BY <1>2, <1>3, <1>7, ScheduleConstants DEF OthersLocks
    <1>9. Holding(h, tx[h], u)
      BY <1>1, <1>2, <1>5, Before DEF Txn, Holding
    <1>10. \A id \in tx[h].inserts : id[2] \in Profile
      BY <1>4, TxnFields DEF Row
    <1>11. InTurn(h, u)
      BY <1>5, <1>7, <1>10, <1>3, BeforeTurn DEF Txn, InTurn, Rule
    <1>12. Becomes(h, u) /\ tx' \in [Actor -> Transaction]
      BY <1>1, <1>2, <1>5, TxnSet DEF Txn, TypeOK
    <1> QED BY <1>1, <1>2, <1>7, <1>8, <1>9, <1>11, <1>12 DEF Becomes, Statement, TypeOK

LEMMA RefreshActiveStatement ==
    ASSUME TypeOK, Safe, NEW h \in Handler, RefreshActive(h)
    PROVE  h \in Actor /\ Statement(h)
    <1> DEFINE S == {id \in ActiveRows(h) : id[2] = Rule(h)}
    <1> DEFINE u == [tx[h] EXCEPT !.phase = "active", !.found = S]
    <1>1. h \in Actor /\ h # "worker" /\ h # "gateway"
      BY BeforeTurn
    <1>2. /\ tx' = [tx EXCEPT ![h] = u] /\ UNCHANGED <<clock, row, made, latest, device, advisory>>
      BY Zenon DEF RefreshActive
    <1>3. tx[h].phase = "expire"
      BY Zenon DEF RefreshActive, InRule
    <1>4. tx[h] \in Transaction /\ S \in SUBSET Row /\ "active" \in Phases
      BY <1>1, Before DEF ActiveRows, Phases
    <1>5. Refreshes(Rule(h)) \subseteq tx[h].expired \cup S
      BY DEF Refreshes, ActiveRows
    <1> HIDE DEF S
    <1>6. Txn(u, "active", tx[h].now, tx[h].todo, S, tx[h].locks, tx[h].expired,
              tx[h].inserts, tx[h].sends)
      BY <1>4, TxnFields, Updates, Zenon
    <1> HIDE DEF u
    <1>7. Holding(h, tx[h], u)
      BY <1>1, <1>2, <1>6, Before DEF Txn, Holding
    <1>8. InTurn(h, u)
      BY <1>2, <1>3, <1>5, <1>6, BeforeTurn DEF Txn, InTurn, Rule
    <1> QED BY <1>1, <1>2, <1>7, <1>8, StatementIs

\* Without an active row among those it has locked, every active request of the
\* profile is one it expires.
LEMMA RefreshDecideStatement ==
    ASSUME TypeOK, Safe, NEW h \in Handler, RefreshDecide(h)
    PROVE  h \in Actor /\ Statement(h)
    <1> DEFINE active == {id \in tx[h].locks : id[2] = Rule(h) /\ id \in ActiveRows(h)}
    <1> DEFINE u == [tx[h] EXCEPT !.phase = "insert"]
    <1>1. h \in Actor /\ h # "worker" /\ h # "gateway"
      BY BeforeTurn
    <1>2. UNCHANGED <<clock, row, made, latest, device, advisory>>
      BY Zenon DEF RefreshDecide
    <1>3. tx[h].phase = "active" /\ tx[h].todo # <<>> /\ tx[h].found = {}
      BY Zenon DEF RefreshDecide, InRule
    <1>4. NextRule(h, {}) \/ (active = {} /\ tx' = [tx EXCEPT ![h].phase = "insert"])
      BY Zenon DEF RefreshDecide
    <1>5. CASE NextRule(h, {})
      BY <1>1, <1>2, <1>3, <1>5, NextRuleStatement
    <1>6. CASE active = {} /\ tx' = [tx EXCEPT ![h].phase = "insert"]
      <2>1. Refreshes(Rule(h)) \subseteq tx[h].expired
        BY <1>3, <1>6, BeforeTurn DEF Refreshes, ActiveRows
      <2>2. "insert" \in Phases \ {"lookup", "expire"}
        BY DEF Phases
      <2>3. Txn(u, "insert", tx[h].now, tx[h].todo, tx[h].found, tx[h].locks,
                tx[h].expired, tx[h].inserts, tx[h].sends)
        <3>1. tx[h] \in Transaction
          BY <1>1, Before
        <3> QED BY <2>2, <3>1, TxnFields, Updates, Zenon
      <2> HIDE DEF u
      <2>4. InTurn(h, u)
        BY <1>2, <1>3, <2>1, <2>3, BeforeTurn DEF Txn, InTurn, Rule
      <2>5. InTurn(h, [tx[h] EXCEPT !.phase = "insert"])
        BY <2>4 DEF u
      <2> QED BY <1>1, <1>2, <1>6, <2>2, <2>5, PhaseStatement
    <1> QED BY <1>4, <1>5, <1>6

LEMMA LockRowStatement ==
    ASSUME TypeOK, Safe, NEW a \in Actor, NEW id \in Row, LockRow(a, id)
    PROVE  Statement(a)
    <1> DEFINE S == {i \in {id} : Active(i)}
    <1> DEFINE found == tx[a].found \ {id}
    <1> DEFINE locks == tx[a].locks \cup S
    <1> DEFINE expired == IF tx[a].phase = "expire" THEN tx[a].expired \cup S ELSE tx[a].expired
    <1> DEFINE u == [tx[a] EXCEPT !.found = found, !.locks = locks, !.expired = expired]
    <1>1. /\ tx' = [tx EXCEPT ![a] = u] /\ UNCHANGED <<clock, row, made, latest, device, advisory>>
      BY Zenon DEF LockRow
    <1>2. id \in tx[a].found /\ ~Locked(id, a) /\ a # "worker"
      BY Before DEF LockRow
    <1>3. tx[a] \in Transaction
      BY Before
    <1>4. found \in SUBSET Row /\ locks \in SUBSET Row /\ expired \in SUBSET Row
      BY <1>3, TxnFields
    <1>5. /\ \A i \in S : i = id /\ row[i] # "absent"
          /\ tx[a].phase # "expire" => expired = tx[a].expired
          /\ tx[a].expired \subseteq expired /\ expired \subseteq tx[a].expired \cup S
          /\ tx[a].locks \cup S = locks
          /\ \A p : id \in Refreshes(p) => id \in S
          /\ tx[a].found \subseteq found \cup {id}
      BY DEF Active, Refreshes
    <1> HIDE DEF found, locks, expired, S
    <1>6. Txn(u, tx[a].phase, tx[a].now, tx[a].todo, found, locks, expired,
              tx[a].inserts, tx[a].sends)
      BY <1>3, <1>4, TxnFields, Updates, Zenon
    <1> HIDE DEF u
    <1>7. Holding(a, tx[a], u)
      BY <1>1, <1>2, <1>5, <1>6, Before DEF Txn, Holding
    <1>8. a \in Handler => InTurn(a, u)
      <2> SUFFICES ASSUME a \in Handler PROVE InTurn(a, u)
        OBVIOUS
      <2>1. tx[a].phase = "active" =>
              Refreshes(Rule(a)) \subseteq expired \cup found \cup locks
        BY <1>5, BeforeTurn
      <2> QED BY <1>1, <1>5, <1>6, <2>1, BeforeTurn DEF Txn, InTurn, Rule
    <1> QED BY <1>1, <1>7, <1>8, StatementIs

\* The transaction takes the device row.
LEMMA LockDeviceStatement ==
    ASSUME TypeOK, Safe, NEW a \in Actor, LockDevice(a)
    PROVE  Statement(a)
    <1> DEFINE phase == IF a = "gateway" THEN "rule" ELSE "lookup"
    <1> DEFINE u == [tx[a] EXCEPT !.phase = phase]
    <1>1. tx' = [tx EXCEPT ![a] = u]
      BY DEF LockDevice
    <1>2. /\ tx[a].phase = "insert" /\ device \in {None, a} /\ device' = a
          /\ UNCHANGED <<clock, row, made, latest, advisory>>
      BY Zenon DEF LockDevice
    <1>3. tx[a] \in Transaction
      BY Before
    <1>4. phase \in Phases /\ (a = "gateway" => phase # "lookup") /\ phase \in {"rule", "lookup"}
      BY DEF Phases
    <1> HIDE DEF phase
    <1>5. Txn(u, phase, tx[a].now, tx[a].todo, tx[a].found, tx[a].locks, tx[a].expired,
              tx[a].inserts, tx[a].sends)
      BY <1>3, <1>4, TxnFields, Updates, Zenon
    <1> HIDE DEF u
    <1>6. Holding(a, tx[a], u)
      BY <1>2, <1>4, <1>5, Before DEF Txn, Holding
    <1>7. a \in Handler => InTurn(a, u)
      BY <1>2, <1>4, <1>5, BeforeTurn DEF Txn, InTurn, Rule
    <1>8. Becomes(a, u) /\ tx' \in [Actor -> Transaction]
      BY <1>1, <1>5, TxnSet DEF Txn, TypeOK
    <1>9. OthersLocks(a)
      BY <1>2, Names DEF OthersLocks
    <1> QED BY <1>2, <1>6, <1>7, <1>8, <1>9 DEF Becomes, Statement, TypeOK

LEMMA InsertStatement ==
    ASSUME TypeOK, Safe, NEW a \in Actor, Insert(a)
    PROVE  Statement(a)
    <1> DEFINE id == Identity(a, Rule(a))
    <1> DEFINE u == [tx[a] EXCEPT !.phase = "rule", !.todo = Tail(tx[a].todo),
                                  !.inserts = tx[a].inserts \cup {id}]
    <1>1. tx[a].phase = "lookup" /\ tx[a].todo # <<>>
      BY Zenon DEF Insert, InRule
    <1>2. UNCHANGED <<clock, row, made, latest, device, advisory>>
      BY Zenon DEF Insert
    <1>3. \/ row[id] # "absent" /\ ~Locked(id, a) /\ NextRule(a, {id})
          \/ row[id] = "absent" /\ tx' = [tx EXCEPT ![a] = u]
      BY Zenon DEF Insert, Exists
    <1>4. tx[a] \in Transaction /\ a # "gateway"
      BY <1>1, Before
    <1>5. Rule(a) \in Profile /\ Tail(tx[a].todo) \in Seq(Profile) /\ tx[a].now \in Time
      BY <1>1, <1>4, TxnFields, SeqParts DEF Rule
    <1>6. /\ id \in Row /\ id[2] = Rule(a)
          /\ a = "worker" => id[1] = "scheduler"
          /\ a \in Handler => id = <<"refresh", Rule(a), tx[a].now \div Window>>
      BY <1>5, IdentityRow, TurnsAre
    <1> HIDE DEF id
    <1>7. CASE row[id] # "absent" /\ ~Locked(id, a) /\ NextRule(a, {id})
      BY <1>1, <1>2, <1>6, <1>7, NextRuleStatement
    <1>8. CASE row[id] = "absent" /\ tx' = [tx EXCEPT ![a] = u]
      <2>1. tx[a].inserts \cup {id} \in SUBSET Row /\ "rule" \in Phases
        BY <1>4, <1>6, TxnFields DEF Phases
      <2>2. Txn(u, "rule", tx[a].now, Tail(tx[a].todo), tx[a].found, tx[a].locks, tx[a].expired,
                tx[a].inserts \cup {id}, tx[a].sends)
        BY <1>4, <1>5, <2>1, TxnFields, Updates, Zenon
      <2> HIDE DEF u
      <2>3. Holding(a, tx[a], u)
        BY <1>1, <1>2, <1>4, <1>6, <1>8, <2>2, Before DEF Txn, Holding
      <2>4. a \in Handler => InTurn(a, u)
        BY <1>1, <1>2, <1>6, <2>2, BeforeTurn DEF Txn, InTurn
      <2> QED BY <1>2, <1>8, <2>3, <2>4, StatementIs
    <1> QED BY <1>3, <1>7, <1>8

LEMMA DeliverBeginStatement ==
    ASSUME TypeOK, Safe, DeliverBegin
    PROVE  "gateway" \in Actor /\ Statement("gateway")
    <1> DEFINE S == {id \in Row : Active(id) /\ Overdue(id, clock)}
    <1> DEFINE u == [Idle EXCEPT !.phase = "expire", !.now = clock, !.found = S]
    <1>1. "gateway" \in Actor
      BY DEF DeliverBegin, Actor
    <1>2. /\ tx' = [tx EXCEPT !["gateway"] = u]
          /\ UNCHANGED <<clock, row, made, latest, device, advisory>>
      BY Zenon DEF DeliverBegin
    <1>3. /\ Idle \in Transaction /\ "expire" \in Phases /\ clock \in Time /\ S \in SUBSET Row
      BY IdleType DEF Txn, Phases, TypeOK
    <1> HIDE DEF S
    <1>4. Txn(u, "expire", clock, <<>>, S, {}, {}, {}, {})
      <2>1. <<>> \in Seq(Profile) /\ {} \in SUBSET Row
        OBVIOUS
      <2> QED BY <1>3, <2>1, Begins, Zenon
    <1> HIDE DEF u
    <1>5. Holding("gateway", tx["gateway"], u)
      BY <1>4 DEF Txn, Holding
    <1> QED BY <1>1, <1>2, <1>5, Names, StatementIs

LEMMA DeliverPickStatement ==
    ASSUME TypeOK, Safe, NEW S \in SUBSET Row, DeliverPick(S)
    PROVE  "gateway" \in Actor /\ Statement("gateway")
    <1> DEFINE rows == {id \in ActiveRows("gateway") : ~Locked(id, "gateway")}
    <1> DEFINE phase == IF S # {} THEN "insert" ELSE "rule"
    <1> DEFINE locks == tx["gateway"].locks \cup rows
    <1> DEFINE u == [tx["gateway"] EXCEPT !.phase = phase, !.locks = locks, !.sends = S]
    <1>1. "gateway" \in Actor
      BY DEF DeliverPick, Actor
    <1>2. /\ tx' = [tx EXCEPT !["gateway"] = u] /\ \A id \in S : id \in rows /\ row[id] = "requested"
          /\ UNCHANGED <<clock, row, made, latest, device, advisory>>
      BY Zenon DEF DeliverPick
    <1>3. tx["gateway"] \in Transaction
      BY <1>1, Before
    <1>4. phase \in Phases \ {"lookup", "expire"} /\ locks \in SUBSET Row
      BY <1>3, TxnFields DEF Phases, ActiveRows
    <1>5. \A id \in rows : row[id] # "absent" /\ ~Locked(id, "gateway") /\ id \notin tx["gateway"].expired
      BY DEF ActiveRows, Active
    <1>6. locks = tx["gateway"].locks \cup rows
      OBVIOUS
    <1> HIDE DEF phase, locks, rows
    <1>7. Txn(u, phase, tx["gateway"].now, tx["gateway"].todo, tx["gateway"].found, locks,
              tx["gateway"].expired, tx["gateway"].inserts, S)
      BY <1>3, <1>4, TxnFields, Updates
    <1> HIDE DEF u
    <1>8. Holding("gateway", tx["gateway"], u)
      BY <1>1, <1>2, <1>4, <1>5, <1>6, <1>7, Before DEF Txn, Holding
    <1> QED BY <1>1, <1>2, <1>8, Names, StatementIs

LEMMA DeadlockAbortStatement ==
    ASSUME TypeOK, Safe, NEW a \in Actor, DeadlockAbort(a)
    PROVE  Statement(a)
    <1>1. /\ tx' = [tx EXCEPT ![a] = Idle] /\ device' = IF device = a THEN None ELSE device
          /\ advisory' = [p \in Profile |-> IF advisory[p] = a THEN None ELSE advisory[p]]
          /\ UNCHANGED <<clock, row, made, latest>>
      BY DEF DeadlockAbort, Release
    <1>2. Holding(a, tx[a], Idle) /\ InTurn(a, Idle)
      BY IdleType DEF Txn, Holding, InTurn
    <1>3. Becomes(a, Idle) /\ tx' \in [Actor -> Transaction]
      BY <1>1, IdleType, TxnSet DEF Txn, TypeOK
    <1>4. OthersLocks(a)
      BY <1>1, ScheduleConstants DEF OthersLocks
    <1>5. device' \in Actor \cup {None} /\ advisory' \in [Profile -> Handler \cup {None}]
      BY <1>1 DEF TypeOK
    <1> QED BY <1>1, <1>2, <1>3, <1>4, <1>5 DEF Becomes, Statement
-----------------------------------------------------------------------------
(* Steps outside the transactions *)

\* A step of one row only, that leaves the transactions and their locks alone.
LEMMA RowStep ==
    ASSUME TypeOK, Safe, NEW id \in Row, NEW status \in Status \ {"absent"},
           row' = [row EXCEPT ![id] = status],
           UNCHANGED <<tx, device, advisory>>,
           \A a \in Actor : id \notin tx[a].locks /\ id \notin tx[a].inserts,
           id[1] = "refresh" => status \notin {"requested", "delivered", "released"} \/ (Active(id) /\ status # "released")
    PROVE  Safe'
    <1>1. row'[id] = status /\ \A i \in Row : i # id => row'[i] = row[i]
      BY DEF TypeOK
    <1>2. tx' = tx /\ device' = device /\ advisory' = advisory
      OBVIOUS
    <1>3. ASSUME NEW a \in Actor
          PROVE  /\ tx[a].locks \subseteq Row /\ tx[a].inserts \subseteq Row
                 /\ tx[a].sends \subseteq tx[a].locks
      BY Before, TxnFields
    <1>4. DeviceHeld'
      BY <1>2 DEF Safe, DeviceHeld
    <1>5. RowsHeld'
      BY <1>1, <1>2, <1>3 DEF Safe, RowsHeld
    <1>6. InsertsNew'
      BY <1>1, <1>2, <1>3 DEF Safe, InsertsNew
    <1>7. Roles'
      BY <1>1, <1>2, <1>3 DEF Safe, Roles
    <1>8. \A p : RefreshesNext(p) \subseteq Refreshes(p)
      BY <1>1 DEF Refreshes, RefreshesNext, Active
    <1>9. Turns'
      <2>1. ASSUME NEW h \in Handler
            PROVE  /\ tx'[h].phase \in {"expire", "active", "insert", "lookup"} =>
                        tx'[h].todo # <<>> /\ advisory'[Head(tx'[h].todo)] = h
                   /\ tx'[h].phase = "active" => RefreshesNext(Head(tx'[h].todo))
                         \subseteq tx'[h].expired \cup tx'[h].found \cup tx'[h].locks
                   /\ tx'[h].phase \in {"insert", "lookup"} =>
                        RefreshesNext(Head(tx'[h].todo)) \subseteq tx'[h].expired
                   /\ \A i \in tx'[h].inserts :
                        /\ i = <<"refresh", i[2], tx'[h].now \div Window>>
                        /\ advisory'[i[2]] = h /\ RefreshesNext(i[2]) \subseteq tx'[h].expired
        BY <1>2, <1>8, BeforeTurn DEF Rule
      <2> QED BY <2>1, TurnsFromNext
    <1>10. Single'
      BY <1>8, SingleFromNext DEF Safe, Single
    <1> QED BY <1>4, <1>5, <1>6, <1>7, <1>9, <1>10 DEF Safe

\* An administrator's request takes the device row, so nobody is inserting.
LEMMA RequestCollectionSafe ==
    ASSUME TypeOK, Safe, NEW p \in Profile, NEW key \in ManualKey, RequestCollection(p, key)
    PROVE  TypeOK' /\ Safe'
    <1> DEFINE id == <<"manual", p, key>>
    <1>1. id \in Row /\ id[1] = "manual"
      BY DEF Row
    <1>2. /\ device = None /\ row[id] = "absent" /\ row' = [row EXCEPT ![id] = "requested"]
          /\ made' = [made EXCEPT ![id] = clock] /\ UNCHANGED <<clock, latest, tx, device, advisory>>
      BY DEF RequestCollection
    <1> HIDE DEF id
    <1>3. \A a \in Actor : id \notin tx[a].locks /\ id \notin tx[a].inserts
      BY <1>2, Before, Names
    <1>4. "requested" \in Status \ {"absent"}
      BY DEF Status
    <1>5. Safe'
      BY <1>1, <1>2, <1>3, <1>4, RowStep
    <1> QED BY <1>1, <1>2, <1>4, <1>5 DEF TypeOK

LEMMA RecordResultSafe ==
    ASSUME TypeOK, Safe, NEW id \in Row, NEW stored \in BOOLEAN, RecordResult(id, stored)
    PROVE  TypeOK' /\ Safe'
    <1>1. /\ row[id] # "absent" /\ row' = [row EXCEPT ![id] = "done"]
          /\ \A a \in Actor : id \notin tx[a].locks
          /\ UNCHANGED <<clock, made, tx, device, advisory>>
      BY DEF RecordResult, ResultWaits
    <1>2. \A a \in Actor : id \notin tx[a].inserts
      BY <1>1, Before
    <1>3. "done" \in Status \ {"absent"}
      BY DEF Status
    <1>4. Safe'
      BY <1>1, <1>2, <1>3, RowStep
    <1>5. id[2] \in Profile
      BY DEF Row
    <1>6. latest' \in [Profile -> Time \cup {-1}]
      BY <1>5 DEF RecordResult, TypeOK
    <1> QED BY <1>1, <1>3, <1>4, <1>6 DEF TypeOK

\* Only the worker leaves a request with its command open, and it has its own.
LEMMA RecordAckSafe ==
    ASSUME TypeOK, Safe, NEW id \in Row, RecordAck(id)
    PROVE  TypeOK' /\ Safe'
    <1>1. /\ row[id] = "released" /\ row' = [row EXCEPT ![id] = "delivered"]
          /\ \A a \in Actor : id \notin tx[a].locks
          /\ UNCHANGED <<clock, made, latest, tx, device, advisory>>
      BY DEF RecordAck, Ackable, ResultWaits
    <1>2. \A a \in Actor : id \notin tx[a].inserts
      BY <1>1, Before
    <1>3. "delivered" \in Status \ {"absent"} /\ id[1] # "refresh"
      BY <1>1 DEF Status, Safe, Roles
    <1>4. Safe'
      BY <1>1, <1>2, <1>3, RowStep
    <1> QED BY <1>1, <1>3, <1>4 DEF TypeOK

\* What the invariant speaks of.
held == <<row, tx, device, advisory>>

LEMMA SafeStutters ==
    ASSUME Safe, UNCHANGED held
    PROVE  Safe'
    <1>1. row' = row /\ tx' = tx /\ device' = device /\ advisory' = advisory
      BY DEF held
    <1> QED BY <1>1 DEF Safe, DeviceHeld, RowsHeld, InsertsNew, Roles, Turns, Single, Settled,
                        Refreshes, Active, Identity, Rule

LEMMA TickSafe ==
    ASSUME TypeOK, Safe, Tick
    PROVE  TypeOK' /\ Safe'
    <1>1. /\ clock < MaxTime /\ clock' = clock + 1 /\ UNCHANGED <<row, made, latest, tx, device, advisory>>
      BY DEF Tick
    <1>2. Safe'
      BY <1>1, SafeStutters DEF held
    <1>3. clock' \in Time
      BY <1>1, ScheduleConstants DEF TypeOK, Time
    <1> QED BY <1>1, <1>2, <1>3 DEF TypeOK
-----------------------------------------------------------------------------
(* The commit *)

LEMMA EndedIs ==
    ASSUME NEW a, NEW status
    PROVE  /\ Ended(a, status) \in {"expired", "released", "closed"}
           /\ Ended(a, status) = "released" => a = "worker"
    BY Zenon DEF Ended

\* What a commit makes of a row.
LEMMA CommitRow ==
    ASSUME TypeOK, Safe, NEW a \in Actor, Commit(a), NEW id \in Row
    PROVE  /\ id \in tx[a].inserts => row'[id] = "requested"
           /\ id \notin tx[a].inserts /\ id \in tx[a].expired => row'[id] = Ended(a, row[id])
           /\ id \notin tx[a].inserts /\ id \notin tx[a].expired /\ id \in tx[a].sends =>
                row'[id] = "delivered"
           /\ id \notin tx[a].inserts /\ id \notin tx[a].expired /\ id \notin tx[a].sends =>
                row'[id] = row[id]
    <1> DEFINE status(i) == CASE i \in tx[a].inserts -> "requested"
                               [] i \in tx[a].expired -> Ended(a, row[i])
                               [] i \in tx[a].sends   -> "delivered"
                               [] OTHER -> row[i]
    <1>1. row' = [i \in Row |-> status(i)]
      BY Zenon DEF Commit
    <1>2. row'[id] = status(id)
      <2> HIDE DEF status
      <2> QED BY <1>1
    <1>3. /\ id \in tx[a].inserts => id \notin tx[a].expired /\ id \notin tx[a].sends
          /\ id \in tx[a].expired => id \notin tx[a].sends
      BY Before
    <1> QED BY <1>2, <1>3, Zenon

LEMMA CommitSafe ==
    ASSUME TypeOK, Safe, NEW a \in Actor, Commit(a)
    PROVE  TypeOK' /\ Safe'
    <1>1. /\ tx' = [tx EXCEPT ![a] = Idle] /\ device' = IF device = a THEN None ELSE device
          /\ advisory' = [p \in Profile |-> IF advisory[p] = a THEN None ELSE advisory[p]]
          /\ UNCHANGED <<clock, latest>>
      BY DEF Commit, Release
    <1>2. /\ tx'[a] = Idle /\ \A b \in Actor : b # a => tx'[b] = tx[b]
          /\ tx' \in [Actor -> Transaction]
      BY <1>1, IdleType, TxnSet DEF Txn, TypeOK, Becomes
    <1>3. /\ Idle.phase = "idle" /\ Idle.found = {} /\ Idle.locks = {} /\ Idle.expired = {}
          /\ Idle.inserts = {} /\ Idle.sends = {}
      BY IdleType DEF Txn
    <1>4. ASSUME NEW id \in Row
          PROVE  /\ row'[id] \in Status
                 /\ row[id] # "absent" => row'[id] # "absent"
                 /\ id \notin tx[a].locks /\ id \notin tx[a].inserts => row'[id] = row[id]
                 /\ row'[id] \in {"requested", "delivered"} =>
                      id \in tx[a].inserts \/ (Active(id) /\ id \notin tx[a].expired)
                 /\ row'[id] = "released" => row[id] = "released" \/ id[1] = "scheduler"
      <2>1. row[id] \in Status
        BY DEF TypeOK
      <2> USE CommitRow, Before
      <2>2. CASE id \in tx[a].inserts
        BY <2>2 DEF Status
      <2>3. CASE id \notin tx[a].inserts /\ id \in tx[a].expired
        BY <2>3, EndedIs DEF Status
      <2>4. CASE id \notin tx[a].inserts /\ id \notin tx[a].expired /\ id \in tx[a].sends
        BY <2>4 DEF Status, Active
      <2>5. CASE id \notin tx[a].inserts /\ id \notin tx[a].expired /\ id \notin tx[a].sends
        BY <2>1, <2>5 DEF Active
      <2> QED BY <2>2, <2>3, <2>4, <2>5
    <1>5. TypeOK'
      <2>1. row' \in [Row -> Status]
        <3> DEFINE status(id) == CASE id \in tx[a].inserts -> "requested"
                                    [] id \in tx[a].expired -> Ended(a, row[id])
                                    [] id \in tx[a].sends   -> "delivered"
                                    [] OTHER -> row[id]
        <3>1. row' = [id \in Row |-> status(id)]
          BY Zenon DEF Commit
        <3> HIDE DEF status
        <3> QED BY <1>4, <3>1
      <2>2. made' \in [Row -> Time]
        <3>1. tx[a].now \in Time
          BY Before, TxnFields
        <3> QED BY <3>1 DEF Commit, Requested, TypeOK
      <2>3. device' \in Actor \cup {None} /\ advisory' \in [Profile -> Handler \cup {None}]
        BY <1>1 DEF TypeOK
      <2> QED BY <1>1, <1>2, <2>1, <2>2, <2>3 DEF TypeOK
    <1>6. /\ \A b \in Actor : b # a /\ device = b => device' = b
          /\ \A h \in Handler, p \in Profile : h # a /\ advisory[p] = h => advisory'[p] = h
      BY <1>1
    <1>7. DeviceHeld'
      BY <1>2, <1>3, <1>6 DEF Safe, DeviceHeld
    <1>8. ASSUME NEW b \in Actor
          PROVE  /\ tx[b].locks \subseteq Row /\ tx[b].inserts \subseteq Row
                 /\ tx[b].sends \subseteq tx[b].locks
      BY Before, TxnFields
    <1>9. RowsHeld'
      <2>1. ASSUME NEW b \in Actor
            PROVE  /\ \A id \in tx'[b].locks : row'[id] # "absent"
                   /\ tx'[b].expired \subseteq tx'[b].locks /\ tx'[b].sends \subseteq tx'[b].locks
        <3>1. CASE b = a
          BY <1>2, <1>3, <3>1
        <3>2. CASE b # a
          BY <1>2, <1>4, <1>8, <3>2 DEF Safe, RowsHeld
        <3> QED BY <3>1, <3>2
      <2>2. ASSUME NEW b \in Actor, NEW c \in Actor, b # c
            PROVE  tx'[b].locks \cap tx'[c].locks = {}
        BY <1>2, <1>3, <2>2 DEF Safe, RowsHeld
      <2> QED BY <2>1, <2>2 DEF RowsHeld
    <1>10. InsertsNew'
      <2> SUFFICES ASSUME NEW b \in Actor, NEW id \in tx'[b].inserts PROVE row'[id] = "absent"
        BY DEF InsertsNew
      <2>1. b # a /\ id \in tx[b].inserts
        BY <1>2, <1>3
      <2>2. row[id] = "absent" /\ device = b /\ id \in Row
        BY <1>8, <2>1, Before
      <2>3. id \notin tx[a].locks /\ id \notin tx[a].inserts
        BY <2>1, <2>2, Before
      <2> QED BY <1>4, <2>2, <2>3
    <1>11. Roles'
      <2>1. "worker" \in Server =>
              /\ tx'["worker"].found = {}
              /\ \A id \in tx'["worker"].expired \cup tx'["worker"].inserts : id[1] = "scheduler"
        BY <1>2, <1>3 DEF Safe, Roles, Actor
      <2>2. /\ "gateway" \in Server =>
                 /\ tx'["gateway"].inserts = {} /\ tx'["gateway"].phase # "lookup"
                 /\ tx'["gateway"].sends \cap tx'["gateway"].expired = {}
                 /\ tx'["gateway"].sends # {} => tx'["gateway"].phase # "expire"
            /\ \A b \in Actor : b # "gateway" => tx'[b].sends = {}
        BY <1>2, <1>3 DEF Safe, Roles, Actor
      <2>3. ASSUME NEW b \in Actor, NEW id \in tx'[b].sends PROVE row'[id] = "requested"
        <3>1. b # a /\ id \in tx[b].sends
          BY <1>2, <1>3
        <3>2. row[id] = "requested" /\ id \in Row /\ id \in tx[b].locks
          BY <1>8, <3>1, Before
        <3>3. id \notin tx[a].locks
          BY <3>1, <3>2 DEF Safe, RowsHeld
        <3>4. id \notin tx[a].inserts
          BY <3>2, Before
        <3> QED BY <1>4, <3>2, <3>3, <3>4
      <2>4. \A id \in Row : id[1] = "refresh" => row'[id] # "released"
        BY <1>4 DEF Safe, Roles
      <2> QED BY <2>1, <2>2, <2>3, <2>4 DEF Roles
    <1>12. ASSUME NEW p \in Profile, NEW id \in tx[a].inserts, id[1] = "refresh", id[2] = p
           PROVE  /\ a \in Handler /\ advisory[p] = a /\ Refreshes(p) \subseteq tx[a].expired
                  /\ id = <<"refresh", p, tx[a].now \div Window>>
      <2>1. a # "worker" /\ a # "gateway"
        BY <1>12, Before
      <2>2. a \in Handler
        BY <2>1, Names
      <2> QED BY <1>12, <2>2, BeforeTurn
    <1>13. \A p : RefreshesNext(p) \subseteq
                    Refreshes(p) \cup {id \in tx[a].inserts : id[1] = "refresh" /\ id[2] = p}
      BY <1>4 DEF Refreshes, RefreshesNext
    <1>14. ASSUME NEW h \in Handler, NEW p \in Profile, h # a, advisory[p] = h
           PROVE  RefreshesNext(p) \subseteq Refreshes(p)
      BY <1>12, <1>13, <1>14
    <1>15. Turns'
      <2>1. ASSUME NEW h \in Handler
            PROVE  /\ tx'[h].phase \in {"expire", "active", "insert", "lookup"} =>
                        tx'[h].todo # <<>> /\ advisory'[Head(tx'[h].todo)] = h
                   /\ tx'[h].phase = "active" => RefreshesNext(Head(tx'[h].todo))
                         \subseteq tx'[h].expired \cup tx'[h].found \cup tx'[h].locks
                   /\ tx'[h].phase \in {"insert", "lookup"} =>
                        RefreshesNext(Head(tx'[h].todo)) \subseteq tx'[h].expired
                   /\ \A i \in tx'[h].inserts :
                        /\ i = <<"refresh", i[2], tx'[h].now \div Window>>
                        /\ advisory'[i[2]] = h /\ RefreshesNext(i[2]) \subseteq tx'[h].expired
        <3>1. CASE h = a
          BY <1>2, <1>3, <3>1
        <3>2. CASE h # a
          <4>1. h \in Actor /\ tx'[h] = tx[h] /\ tx[h] \in Transaction
            BY <1>2, <3>2, BeforeTurn, Before
          <4>2. tx[h].todo # <<>> => Head(tx[h].todo) \in Profile
            BY <4>1, TxnFields, SeqParts
          <4>3. \A i \in tx[h].inserts : i[2] \in Profile
            BY <4>1, TxnFields DEF Row
          <4>4. \A p \in Profile : advisory[p] = h =>
                   advisory'[p] = h /\ RefreshesNext(p) \subseteq Refreshes(p)
            BY <1>6, <1>14, <3>2
          <4> QED BY <4>1, <4>2, <4>3, <4>4, BeforeTurn DEF Rule
        <3> QED BY <3>1, <3>2
      <2> QED BY <2>1, TurnsFromNext
    <1>16. Single'
      <2> SUFFICES ASSUME NEW p \in Profile, NEW i \in RefreshesNext(p), NEW j \in RefreshesNext(p)
                   PROVE  i = j
        BY SingleFromNext
      <2>1. \A k \in RefreshesNext(p) :
              k \in Row /\ k[1] = "refresh" /\ k[2] = p /\ row'[k] \in {"requested", "delivered"}
        BY DEF RefreshesNext
      <2>2. CASE \E id \in tx[a].inserts : id[1] = "refresh" /\ id[2] = p
        <3>1. Refreshes(p) \subseteq tx[a].expired
          BY <1>12, <2>2
        <3>2. \A k \in RefreshesNext(p) : k \in tx[a].inserts
          BY <1>4, <2>1, <3>1 DEF Refreshes
        <3> QED BY <1>12, <2>1, <3>2
      <2>3. CASE ~\E id \in tx[a].inserts : id[1] = "refresh" /\ id[2] = p
        BY <1>13, <2>3 DEF Safe, Single
      <2> QED BY <2>2, <2>3
    <1> QED BY <1>5, <1>7, <1>9, <1>10, <1>11, <1>15, <1>16 DEF Safe

-----------------------------------------------------------------------------
(* The theorems *)

LEMMA InitSafe ==
    ASSUME Init
    PROVE  TypeOK /\ Safe
    <1>1. Idle \in Transaction /\ \A a \in Actor : tx[a] = Idle
      BY IdleType DEF Init, Txn
    <1>2. /\ Idle.phase = "idle" /\ Idle.found = {} /\ Idle.locks = {} /\ Idle.expired = {}
          /\ Idle.inserts = {} /\ Idle.sends = {}
      BY IdleType DEF Txn
    <1>3. \A id \in Row : row[id] = "absent"
      BY DEF Init
    <1>4. TypeOK
      BY <1>1, ScheduleConstants DEF Init, TypeOK, Status, Time
    <1>5. \A h \in Handler : h \in Actor
      BY DEF Actor
    <1>6. \A p : Refreshes(p) = {}
      BY <1>3 DEF Refreshes, Active
    <1>7. DeviceHeld /\ RowsHeld /\ InsertsNew
      BY <1>1, <1>2 DEF DeviceHeld, RowsHeld, InsertsNew
    <1>8. Roles
      BY <1>1, <1>2, <1>3 DEF Roles, Actor
    <1>9. Turns
      BY <1>1, <1>2, <1>5 DEF Turns
    <1>10. Single
      BY <1>6 DEF Single
    <1> QED BY <1>4, <1>7, <1>8, <1>9, <1>10 DEF Safe

LEMMA NextSafe ==
    ASSUME TypeOK, Safe, [Next]_vars
    PROVE  TypeOK' /\ Safe'
    <1>1. CASE Tick
      BY <1>1, TickSafe
    <1>2. CASE ScheduleBegin \/ ScheduleActive \/ ScheduleLatest
      BY <1>2, ScheduleBeginStatement, ScheduleActiveStatement, ScheduleLatestStatement, StatementKeeps
    <1>3. CASE \E h \in Handler :
                 RefreshBegin(h) \/ RefreshExpire(h) \/ RefreshActive(h) \/ RefreshDecide(h)
      BY <1>3, RefreshBeginStatement, RefreshExpireStatement, RefreshActiveStatement,
         RefreshDecideStatement, StatementKeeps
    <1>4. CASE DeliverBegin
      BY <1>4, DeliverBeginStatement, StatementKeeps
    <1>5. CASE DeliverPick({}) \/ \E id \in Row : DeliverPick({id})
      <2>1. PICK S \in SUBSET Row : DeliverPick(S)
        BY <1>5
      <2> QED BY <2>1, DeliverPickStatement, StatementKeeps
    <1>6. CASE \E id \in Row : RecordAck(id)
      BY <1>6, RecordAckSafe
    <1>7. CASE \E a \in Actor : (\E id \in Row : LockRow(a, id)) \/ LockDevice(a) \/ Insert(a) \/ DeadlockAbort(a)
      BY <1>7, LockRowStatement, LockDeviceStatement, InsertStatement, DeadlockAbortStatement, StatementKeeps
    <1>8. CASE \E a \in Actor : Commit(a)
      BY <1>8, CommitSafe
    <1>9. CASE \E p \in Profile, key \in ManualKey : RequestCollection(p, key)
      BY <1>9, RequestCollectionSafe
    <1>10. CASE \E id \in Row, stored \in BOOLEAN : RecordResult(id, stored)
      BY <1>10, RecordResultSafe
    <1>11. CASE UNCHANGED vars
      <2>1. UNCHANGED held
        BY <1>11 DEF vars, held
      <2> QED BY <1>11, <2>1, SafeStutters DEF TypeOK, vars
    <1> QED BY <1>1, <1>2, <1>3, <1>4, <1>5, <1>6, <1>7, <1>8, <1>9, <1>10, <1>11 DEF Next

\* The variables keep their types and the inductive invariant holds, whatever the
\* transactions of worker, gateway and handlers do in between each other.
THEOREM ScheduleSafe == Spec => [](TypeOK /\ Safe)
    <1>1. Init => TypeOK /\ Safe
      BY InitSafe
    <1>2. TypeOK /\ Safe /\ [Next]_vars => (TypeOK /\ Safe)'
      BY NextSafe
    <1> QED BY <1>1, <1>2, PTL DEF Spec

\* No commit fails on the unique request identity (request_collection_outcome): who
\* has a row to insert has the device row, so it is alone, and the row is absent.
THEOREM InsertsUniqueAlways == Spec => []InsertsUnique
    <1>1. TypeOK /\ Safe => InsertsUnique
      <2> SUFFICES ASSUME TypeOK, Safe PROVE InsertsUnique
        OBVIOUS
      <2>1. ASSUME NEW a \in Actor, NEW id \in tx[a].inserts, NEW b \in Actor \ {a}
            PROVE  id \notin tx[b].inserts
        BY DEF Safe, DeviceHeld
      <2>2. \A a \in Actor : \A id \in tx[a].inserts : row[id] = "absent"
        BY DEF Safe, InsertsNew
      <2> QED BY <2>1, <2>2 DEF InsertsUnique
    <1> QED BY <1>1, ScheduleSafe, PTL

\* The handlers of a device never have two refresh requests of a profile active
\* (queue_connect_refreshes): a handler inserts under the profile's advisory lock,
\* and by then every active refresh request of the profile is one it ends itself.
THEOREM OneRefreshAlways == Spec => []OneRefresh
    <1>1. TypeOK /\ Safe => OneRefresh
      <2> SUFFICES ASSUME TypeOK, Safe, NEW p \in Profile
                   PROVE  Cardinality(Refreshes(p)) <= 1
        BY DEF OneRefresh, Refreshes
      <2>1. CASE Refreshes(p) = {}
        BY <2>1, FS_EmptySet
      <2>2. CASE Refreshes(p) # {}
        <3>1. PICK i \in Refreshes(p) : TRUE
          BY <2>2
        <3>2. Refreshes(p) = {i}
          BY <3>1 DEF Safe, Single
        <3>3. IsFiniteSet(Refreshes(p)) /\ Cardinality(Refreshes(p)) = 1
          BY <3>2, FS_Singleton
        <3> QED BY <3>3
      <2> QED BY <2>1, <2>2
    <1> QED BY <1>1, ScheduleSafe, PTL
=============================================================================
