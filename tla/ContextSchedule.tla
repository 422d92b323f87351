---------------------------- MODULE ContextSchedule ----------------------------
(***************************************************************************)
(* Who asks one device for Device Context, and when: the periodic          *)
(* scheduler of the worker, the refresh of every connection handler, and   *)
(* requests of administrators and services (context/scheduler.py,          *)
(* context/connect_refresh.py, context/repository.py).                     *)
(*                                                                         *)
(* A collection row is named by its idempotency identity: requester,       *)
(* profile, and time bucket or key.  Transactions run statement by         *)
(* statement in READ COMMITTED: a statement sees what is committed and     *)
(* what its own transaction wrote, waits for locked rows (FOR UPDATE) or   *)
(* passes over them (SKIP LOCKED), and keeps its locks until the commit.   *)
(* The delivery transaction of GatewayCommands appears as the locks it     *)
(* takes, the overdue rows it expires and the collection it delivers;      *)
(* acknowledgements and results of the agent are one step each.            *)
(*                                                                         *)
(* The advisory locks of the request identity and of the worker's rule are *)
(* not modelled: every request takes the lock of the device row right      *)
(* after the first, and there is one worker to take the second.            *)
(***************************************************************************)
EXTENDS Integers, Sequences, FiniteSets

CONSTANTS
    Profile,
    WorkerRules,   \* SCHEDULE_RULES, in their order
    RefreshRules,  \* CONNECT_REFRESH_RULES with a negotiated capability
    Server,        \* bound: the transactions besides the handlers, of
                   \* "worker" and "gateway"
    Handler,       \* connection handlers of the device
    ManualKey,     \* idempotency keys of administrators and services
    Interval,      \* schedule interval and life of a scheduled request
    Window,        \* delivery window and life of a refresh request
    Freshness,     \* age up to which a snapshot needs no refresh
    MaxTime,       \* bound of the clock
    None

ASSUME ScheduleConstants ==
    /\ WorkerRules \in Seq(Profile) /\ RefreshRules \in Seq(Profile)
    /\ Interval \in Nat \ {0} /\ Window \in Nat \ {0}
    /\ Freshness \in Nat /\ MaxTime \in Nat
    /\ Server \subseteq {"worker", "gateway"}
    /\ {"worker", "gateway"} \cap (Handler \cup {None}) = {} /\ None \notin Handler

Time == 0 .. MaxTime
Actor == Server \cup Handler
Row == ({"scheduler", "refresh"} \X Profile \X Time) \cup ({"manual"} \X Profile \X ManualKey)

VARIABLES
    clock,
    row,       \* status of a collection row, see Status
    made,      \* requested_at
    latest,    \* collected_at of the newest snapshot, -1 without one
    tx,        \* open transactions
    device,    \* the transaction that has locked the device row
    advisory   \* the handler that has the connect-refresh lock of a profile

vars == <<clock, row, made, latest, tx, device, advisory>>

Idle == [phase |-> "idle", now |-> 0, todo |-> <<>>, found |-> {}, locks |-> {},
         expired |-> {}, inserts |-> {}, sends |-> {}]

\* "delivered" stands for delivered and collecting, "done" for completed and
\* failed.  A collection that expired had no command ("expired"), one that expired
\* with it ("closed"), or one that is still open ("released").
Status == {"absent", "requested", "delivered", "done", "expired", "closed", "released"}
Active(id) == row[id] \in {"requested", "delivered"}

\* expires_at; an administrator's request has none.
Life(id) == IF id[1] = "scheduler" THEN Interval ELSE Window
Overdue(id, t) == id[1] # "manual" /\ made[id] + Life(id) <= t

Locked(id, a) == \E b \in Actor \ {a} : id \in tx[b].locks
Rule(a) == Head(tx[a].todo)
InRule(a, phase) == a \in Actor /\ tx[a].phase = phase /\ tx[a].todo # <<>>

\* The active rows in the eyes of a transaction.
ActiveRows(a) == {id \in Row : Active(id) /\ id \notin tx[a].expired}

Init ==
    /\ clock = 0
    /\ row = [id \in Row |-> "absent"]
    /\ made = [id \in Row |-> 0]
    /\ latest = [p \in Profile |-> -1]
    /\ tx = [a \in Actor |-> Idle]
    /\ device = None
    /\ advisory = [p \in Profile |-> None]

\* The transaction locks S and turns to its next rule.
NextRule(a, S) ==
    tx' = [tx EXCEPT ![a] = [tx[a] EXCEPT !.phase = "rule", !.todo = Tail(@), !.locks = @ \cup S]]

\* SELECT ... FOR UPDATE waits for one row after the other, and passes over a row
\* whose request has ended in the meantime.
LockRow(a, id) ==
    /\ id \in tx[a].found /\ ~Locked(id, a)
    /\ LET S == {i \in {id} : Active(i)}
       IN  tx' = [tx EXCEPT ![a] =
                    [tx[a] EXCEPT !.found = @ \ {id}, !.locks = @ \cup S,
                                  !.expired = IF tx[a].phase = "expire" THEN @ \cup S ELSE @]]
    /\ UNCHANGED <<clock, row, made, latest, device, advisory>>

-----------------------------------------------------------------------------
\* schedule_due_collections

\* Work that is released when it is overdue.  Mutant: only what was never delivered.
ReleasableUnsent(id) == id[1] = "scheduler" /\ row[id] = "requested"
Releasable(id) == id[1] = "scheduler" /\ Active(id)

\* _expire_overdue_scheduled_collections passes over locked rows.
ScheduleBegin ==
    LET due == {id \in Row : /\ Releasable(id)
                             /\ Overdue(id, clock) /\ ~Locked(id, "worker")}
    IN  /\ "worker" \in Server /\ tx["worker"].phase = "idle"
        /\ tx' = [tx EXCEPT !["worker"] =
                    [Idle EXCEPT !.phase = "rule", !.now = clock, !.todo = WorkerRules,
                                 !.locks = due, !.expired = due]]
        /\ UNCHANGED <<clock, row, made, latest, device, advisory>>

\* The check for active work passes over locked rows.
ScheduleActive ==
    LET active == {id \in ActiveRows("worker") : id[2] = Rule("worker") /\ ~Locked(id, "worker")}
    IN  /\ InRule("worker", "rule")
        /\ IF active # {} THEN NextRule("worker", active)
                          ELSE tx' = [tx EXCEPT !["worker"].phase = "latest"]
        /\ UNCHANGED <<clock, row, made, latest, device, advisory>>

\* So does the look at the last request.
ScheduleLatest ==
    LET known == {id \in Row : /\ id[2] = Rule("worker") /\ row[id] # "absent"
                               /\ ~Locked(id, "worker")}
        Recent(id) == tx["worker"].now - made[id] < Interval
    IN  /\ InRule("worker", "latest")
        /\ \/ /\ known = {}
              /\ tx' = [tx EXCEPT !["worker"].phase = "insert"]
           \/ \E id \in known :
                /\ \A q \in known : made[q] <= made[id]
                /\ IF Recent(id)
                     THEN NextRule("worker", {id})
                     ELSE tx' = [tx EXCEPT !["worker"] =
                                   [tx["worker"] EXCEPT !.phase = "insert", !.locks = @ \cup {id}]]
        /\ UNCHANGED <<clock, row, made, latest, device, advisory>>

-----------------------------------------------------------------------------
\* queue_connect_refreshes

RefreshBegin(h) ==
    /\ tx[h].phase = "idle"
    /\ tx' = [tx EXCEPT ![h] = [Idle EXCEPT !.phase = "rule", !.now = clock, !.todo = RefreshRules]]
    /\ UNCHANGED <<clock, row, made, latest, device, advisory>>

\* The lock that keeps the handlers of a device apart.  Mutant: no lock.
OwnTurnAny(h, p) == TRUE
OwnTurn(h, p) == advisory[p] \in {None, h}

\* expire_overdue_collections begins.
RefreshExpire(h) ==
    LET p == Rule(h)
    IN  /\ InRule(h, "rule")
        /\ OwnTurn(h, p)
        /\ advisory' = [advisory EXCEPT ![p] = h]
        /\ tx' = [tx EXCEPT ![h] =
                    [tx[h] EXCEPT !.phase = "expire",
                                  !.found = {id \in ActiveRows(h) : id[2] = p /\ Overdue(id, tx[h].now)}]]
        /\ UNCHANGED <<clock, row, made, latest, device>>

\* The check for active work begins.
RefreshActive(h) ==
    /\ InRule(h, "expire") /\ tx[h].found = {}
    /\ tx' = [tx EXCEPT ![h] =
                [tx[h] EXCEPT !.phase = "active", !.found = {id \in ActiveRows(h) : id[2] = Rule(h)}]]
    /\ UNCHANGED <<clock, row, made, latest, device, advisory>>

\* It has its rows; without one the newest snapshot decides.
RefreshDecide(h) ==
    LET p == Rule(h)
        active == {id \in tx[h].locks : id[2] = p /\ id \in ActiveRows(h)}
        fresh == latest[p] # -1 /\ tx[h].now - latest[p] < Freshness
    IN  /\ InRule(h, "active") /\ tx[h].found = {}
        /\ IF active # {} \/ fresh THEN NextRule(h, {})
                                   ELSE tx' = [tx EXCEPT ![h].phase = "insert"]
        /\ UNCHANGED <<clock, row, made, latest, device, advisory>>

-----------------------------------------------------------------------------
\* request_collection_outcome

\* The device row is locked first; the gateway's new command refers to it too.
LockDevice(a) ==
    /\ tx[a].phase = "insert"
    /\ device \in {None, a}
    /\ device' = a
    /\ tx' = [tx EXCEPT ![a].phase = IF a = "gateway" THEN "rule" ELSE "lookup"]
    /\ UNCHANGED <<clock, row, made, latest, advisory>>

\* The idempotency identity: requester, profile and time bucket.
Identity(a, p) ==
    IF a = "worker" THEN <<"scheduler", p, tx[a].now \div Interval>>
                    ELSE <<"refresh", p, tx[a].now \div Window>>

\* A row of this identity exists already.  Mutant: it is not looked up.
ExistsNot(id) == FALSE
Exists(id) == row[id] # "absent"

\* The identity is looked up, waiting for its row, and inserted.
Insert(a) ==
    LET id == Identity(a, Rule(a))
    IN  /\ InRule(a, "lookup")
        /\ \/ /\ Exists(id) /\ ~Locked(id, a)
              /\ NextRule(a, {id})
           \/ /\ ~Exists(id)
              /\ tx' = [tx EXCEPT ![a] =
                          [tx[a] EXCEPT !.phase = "rule", !.todo = Tail(@), !.inserts = @ \cup {id}]]
        /\ UNCHANGED <<clock, row, made, latest, device, advisory>>

\* A request of an administrator or a service, in a transaction of its own.
RequestCollection(p, key) ==
    /\ device = None
    /\ row[<<"manual", p, key>>] = "absent"
    /\ row' = [row EXCEPT ![<<"manual", p, key>>] = "requested"]
    /\ made' = [made EXCEPT ![<<"manual", p, key>>] = clock]
    /\ UNCHANGED <<clock, latest, tx, device, advisory>>

-----------------------------------------------------------------------------
\* next_pending_command: expires what is overdue ...
DeliverBegin ==
    /\ "gateway" \in Server /\ tx["gateway"].phase = "idle"
    /\ \E id \in Row : Active(id)
    /\ tx' = [tx EXCEPT !["gateway"] =
                [Idle EXCEPT !.phase = "expire", !.now = clock,
                             !.found = {id \in Row : Active(id) /\ Overdue(id, clock)}]]
    /\ UNCHANGED <<clock, row, made, latest, device, advisory>>

\* ... locks the rows it may deliver, passing over locked ones, and inserts a
\* command for one of them or repeats a command (S empty).
DeliverPick(S) ==
    LET rows == {id \in ActiveRows("gateway") : ~Locked(id, "gateway")}
    IN  /\ "gateway" \in Server /\ tx["gateway"].phase = "expire" /\ tx["gateway"].found = {}
        /\ \A id \in S : id \in rows /\ row[id] = "requested"
        /\ tx' = [tx EXCEPT !["gateway"] =
                    [tx["gateway"] EXCEPT !.phase = IF S # {} THEN "insert" ELSE "rule",
                                          !.locks = @ \cup rows, !.sends = S]]
        /\ UNCHANGED <<clock, row, made, latest, device, advisory>>

-----------------------------------------------------------------------------
\* The locks end with the transaction.  Mutant: only row locks do.
ReleaseRows(a) ==
    /\ tx' = [tx EXCEPT ![a] = Idle]
    /\ UNCHANGED <<clock, latest, device, advisory>>
Release(a) ==
    /\ tx' = [tx EXCEPT ![a] = Idle]
    /\ device' = IF device = a THEN None ELSE device
    /\ advisory' = [p \in Profile |-> IF advisory[p] = a THEN None ELSE advisory[p]]
    /\ UNCHANGED <<clock, latest>>

\* requested_at of what the transaction inserts.
Requested(a) == tx[a].now

\* The worker expires the collection only, expire_overdue_collections its command
\* with it.
Ended(a, status) ==
    IF status = "requested" THEN "expired" ELSE IF a = "worker" THEN "released" ELSE "closed"

Commit(a) ==
    /\ tx[a].phase = "rule" /\ tx[a].todo = <<>>
    /\ row' = [id \in Row |-> CASE id \in tx[a].inserts -> "requested"
                                [] id \in tx[a].expired -> Ended(a, row[id])
                                [] id \in tx[a].sends   -> "delivered"
                                [] OTHER -> row[id]]
    /\ made' = [id \in Row |-> IF id \in tx[a].inserts THEN Requested(a) ELSE made[id]]
    /\ Release(a)

\* record_ack and record_result wait for the row.
ResultWaits(id) == \A a \in Actor : id \notin tx[a].locks

\* A result ends a request, even one that has expired, and may leave a snapshot.
RecordResult(id, stored) ==
    /\ row[id] \in {"delivered", "released", "closed"} /\ ResultWaits(id)
    /\ row' = [row EXCEPT ![id] = "done"]
    /\ latest' = IF stored THEN [latest EXCEPT ![id[2]] = clock] ELSE latest
    /\ UNCHANGED <<clock, made, tx, device, advisory>>

\* An acknowledgement of an open command makes its collection active again.
Ackable(id) == row[id] = "released"

RecordAck(id) ==
    /\ Ackable(id) /\ ResultWaits(id)
    /\ row' = [row EXCEPT ![id] = "delivered"]
    /\ UNCHANGED <<clock, made, latest, tx, device, advisory>>

-----------------------------------------------------------------------------
\* PostgreSQL ends a cycle of waiting transactions by aborting one of them.
WaitsFor(a, b) ==
    /\ a # b
    /\ \/ tx[a].found \cap tx[b].locks # {}
       \/ tx[a].phase = "insert" /\ device = b
       \/ /\ InRule(a, "lookup")
          /\ Exists(Identity(a, Rule(a))) /\ Identity(a, Rule(a)) \in tx[b].locks
       \/ InRule(a, "rule") /\ a \in Handler /\ advisory[Rule(a)] = b

DeadlockAbort(a) ==
    /\ \E b \in Actor : /\ WaitsFor(a, b)
                        /\ \/ WaitsFor(b, a)
                           \/ \E c \in Actor : WaitsFor(b, c) /\ WaitsFor(c, a)
    /\ Release(a)
    /\ UNCHANGED <<row, made>>

Tick ==
    /\ clock < MaxTime
    /\ clock' = clock + 1
    /\ UNCHANGED <<row, made, latest, tx, device, advisory>>

-----------------------------------------------------------------------------
Next ==
    \/ Tick
    \/ ScheduleBegin \/ ScheduleActive \/ ScheduleLatest
    \/ \E h \in Handler :
         RefreshBegin(h) \/ RefreshExpire(h) \/ RefreshActive(h) \/ RefreshDecide(h)
    \/ DeliverBegin
    \/ DeliverPick({}) \/ \E id \in Row : DeliverPick({id}) \/ RecordAck(id)
    \/ \E a \in Actor :
         \/ \E id \in Row : LockRow(a, id)
         \/ LockDevice(a) \/ Insert(a) \/ Commit(a) \/ DeadlockAbort(a)
    \/ \E p \in Profile, key \in ManualKey : RequestCollection(p, key)
    \/ \E id \in Row, stored \in BOOLEAN : RecordResult(id, stored)

Spec == Init /\ [][Next]_vars

\* Statements that can run do run, a statement that waits for a lock gets it in its
\* turn, and PostgreSQL looks for deadlocks.
FairTransactions ==
    /\ Spec
    /\ WF_vars(ScheduleActive) /\ WF_vars(ScheduleLatest)
    /\ WF_vars(DeliverPick({}))
    /\ \A h \in Handler :
         SF_vars(RefreshExpire(h)) /\ WF_vars(RefreshActive(h)) /\ WF_vars(RefreshDecide(h))
    /\ \A a \in Actor :
         /\ SF_vars(\E id \in Row : LockRow(a, id))
         /\ SF_vars(LockDevice(a)) /\ SF_vars(Insert(a))
         /\ WF_vars(Commit(a)) /\ WF_vars(DeadlockAbort(a))

\* ... time passes, and the worker runs its job again and again.
FairWorker == FairTransactions /\ WF_vars(Tick) /\ WF_vars(ScheduleBegin)

-----------------------------------------------------------------------------
Phases == {"idle", "rule", "latest", "expire", "active", "insert", "lookup"}
Transaction == [phase : Phases, now : Time, todo : Seq(Profile), found : SUBSET Row,
                locks : SUBSET Row, expired : SUBSET Row, inserts : SUBSET Row,
                sends : SUBSET Row]

TypeOK ==
    /\ clock \in Time
    /\ row \in [Row -> Status]
    /\ made \in [Row -> Time]
    /\ latest \in [Profile -> Time \cup {-1}]
    /\ tx \in [Actor -> Transaction]
    /\ device \in Actor \cup {None}
    /\ advisory \in [Profile -> Handler \cup {None}]

\* The handlers of a device never have two refresh requests of a profile active,
\* although each decides on its own clock reading and the row it must not repeat
\* may be invisible to it (queue_connect_refreshes).
OneRefresh ==
    \A p \in Profile : Cardinality({id \in Row : id[1] = "refresh" /\ id[2] = p /\ Active(id)}) <= 1

\* No commit fails on the unique request identity: a row that is being inserted does
\* not exist and nobody else inserts it (request_collection_outcome).
InsertsUnique ==
    /\ TypeOK
    /\ \A a \in Actor : \A id \in tx[a].inserts :
        /\ row[id] = "absent"
        /\ \A b \in Actor \ {a} : id \notin tx[b].inserts

\* Every transaction comes to its end: the device row, the advisory locks and the
\* collection rows are taken in an order that may deadlock, and the victim's
\* locks let the others go on (request_collection_outcome).
TransactionsEnd == \A a \in Actor : tx[a].phase # "idle" ~> tx[a].phase = "idle"

\* A scheduled request does not outlive its interval, even when the device never
\* answers (_expire_overdue_scheduled_collections).
ScheduledExpire ==
    \A id \in Row : id[1] = "scheduler" =>
        ((Active(id) /\ Overdue(id, clock)) ~> ~Active(id))
=============================================================================
