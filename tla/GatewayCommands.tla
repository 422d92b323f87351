---------------------------- MODULE GatewayCommands ----------------------------
(***************************************************************************)
(* Delivery of commands to one device over the agent Gateway (WSS), as     *)
(* endpoint_server/gateway/command_service.py and ws_routes.py do it, with *)
(* everything that shares its rows: operation creation and cancellation,   *)
(* the deadline worker, the scheduler's expiry, and the agent runtime that *)
(* acknowledges, executes and answers.                                     *)
(*                                                                         *)
(* Rows are identified by what they belong to: a diagnostic operation with *)
(* its private collection and its command by the operation, a plain        *)
(* context collection with its command by the collection, and the command  *)
(* of a module step by the step <<operation, sequence>>.  A database       *)
(* transaction that locks all it touches is one action; deliver_next reads *)
(* the device session without a lock and sends after its commit, so it is  *)
(* three (DeliverBegin, DeliverCommit, Send).                              *)
(***************************************************************************)
EXTENDS Naturals, Sequences, FiniteSets

CONSTANTS
    Session,      \* gateway sessions; each serves one WSS connection
    Diag,         \* diagnostic Endpoint Operations
    Mod,          \* module (recipe) Endpoint Operations
    Coll,         \* plain context collections, owned by no operation
    Sched,        \* the collections requested by the scheduler
    Manual,       \* the collections requested through the API: no expires_at
    StepCount,    \* expected_step_count of a module operation
    Supports,     \* the commands whose capability a session negotiated
    AckStatus,    \* acknowledgement statuses the agent uses
    ResultStatus, \* terminal statuses the agent reports
    MayResend,    \* whether the agent repeats a result it has no ack for
    None

Op   == Diag \cup Mod
Work == Op \cup Coll
Step == Mod \X (0 .. (StepCount - 1))
Cmd  == Diag \cup Coll \cup Step

InFlight == {"delivered", "acknowledged", "running"}
Active   == {"queued"} \cup InFlight
Terminal == {"succeeded", "failed", "canceled", "expired"}

ASSUME KindsAssumption ==
    /\ Diag \cap Mod = {} /\ Diag \cap Coll = {} /\ Mod \cap Coll = {}
    /\ Diag \cap Step = {} /\ Coll \cap Step = {}
    /\ Sched \subseteq Coll /\ Manual \subseteq Coll /\ Sched \cap Manual = {}
    /\ None \notin Cmd /\ None \notin Session
    /\ None \notin [status : Terminal, run : Session]

ASSUME StepCountAssumption == StepCount \in 1 .. 8

ASSUME ProtocolAssumption ==
    /\ Supports \in [Session -> SUBSET Cmd]
    /\ AckStatus \subseteq {"acknowledged", "running"}
    /\ ResultStatus \subseteq Terminal
    /\ MayResend \in BOOLEAN

WorkOf(u)  == IF u \in Step THEN u[1] ELSE u
StepsOf(m) == {m} \X (0 .. (StepCount - 1))

VARIABLES
    op,       \* endpoint_operations.status; "none" before creation
    step,     \* module_operation_steps.status
    col,      \* context_collections.status, a diagnostic's private one too
    cmd,      \* commands.status; "none" before materialisation
    dlv,      \* command_deliveries.status
    own,      \* command_deliveries.device_session_id
    stored,   \* command_results: status and payload digest, or None
    evid,     \* operations with an operation_evidence row
    audit,    \* number of terminal audit events appended per operation
    due,      \* work whose deadline_at (expires_at) has passed
    older,    \* pairs <<v, w>>: v was created before w
    revoked,  \* module operations whose version is no longer executable
    sess,     \* device_sessions: "unused", "open" or "closed"
    handler,  \* program counter of connect_agent for each session
    tx,       \* open delivery transaction of each session
    up, down, \* frames in flight, agent to server and server to agent
    link,     \* the session the agent is connected to
    busy,     \* the command the agent executes
    kept,     \* the last result frame the agent sent
    sent      \* history: commands sent on each session

rows  == <<op, step, col, cmd, dlv, own, stored, evid, audit>>
world == <<due, older, revoked>>
gate  == <<sess, handler, tx>>
agent == <<link, busy, kept>>
vars  == <<rows, world, gate, agent, up, down, sent>>

-----------------------------------------------------------------------------
NoTx == [pick |-> None, expire |-> {}, lock |-> {}]

Frames == [kind : {"ack"}, cmd : Cmd, status : AckStatus]
          \cup [kind : {"result"}, cmd : Cmd, status : ResultStatus, run : Session]

\* Every row, session, transaction and frame has one of the values the schema and
\* the contracts allow.
TypeOK ==
    /\ op \in [Op -> {"none"} \cup Active \cup Terminal]
    /\ step \in [Step -> {"none"} \cup Active \cup Terminal]
    /\ col \in [Diag \cup Coll -> {"none", "requested", "delivered", "collecting",
                                   "completed", "failed", "expired"}]
    /\ cmd \in [Cmd -> {"none"} \cup InFlight \cup Terminal]
    /\ dlv \in [Cmd -> {"none"} \cup InFlight \cup Terminal]
    /\ own \in [Cmd -> Session \cup {None}]
    /\ stored \in [Cmd -> [status : Terminal, run : Session] \cup {None}]
    /\ evid \subseteq Op
    /\ audit \in [Op -> Nat]
    /\ due \subseteq Work
    /\ older \subseteq Work \X Work
    /\ revoked \subseteq Mod
    /\ sess \in [Session -> {"unused", "open", "closed"}]
    /\ handler \in [Session -> {"none", "refreshing", "delivering", "binding",
                                "sending", "receiving", "closing", "done"}]
    /\ tx \in [Session -> [pick : Cmd \cup {None}, expire : SUBSET Work,
                           lock : SUBSET Work]]
    /\ up \in [Session -> Seq(Frames)]
    /\ down \in [Session -> Seq(Cmd)]
    /\ link \in Session \cup {None}
    /\ busy \in Cmd \cup {None}
    /\ kept \in Frames \cup {None}
    /\ sent \in [Session -> SUBSET Cmd]

Init ==
    /\ op = [o \in Op |-> "none"]
    /\ step = [u \in Step |-> "none"]
    /\ col = [x \in Diag \cup Coll |-> "none"]
    /\ cmd = [u \in Cmd |-> "none"]
    /\ dlv = [u \in Cmd |-> "none"]
    /\ own = [u \in Cmd |-> None]
    /\ stored = [u \in Cmd |-> None]
    /\ evid = {}
    /\ audit = [o \in Op |-> 0]
    /\ due = {} /\ older = {} /\ revoked = {}
    /\ sess = [s \in Session |-> "unused"]
    /\ handler = [s \in Session |-> "none"]
    /\ tx = [s \in Session |-> NoTx]
    /\ up = [s \in Session |-> << >>]
    /\ down = [s \in Session |-> << >>]
    /\ link = None /\ busy = None /\ kept = None
    /\ sent = [s \in Session |-> {}]

(***************************************************************************)
(* Row locks.  A delivery transaction holds the rows it selected from      *)
(* DeliverBegin to DeliverCommit: FOR UPDATE waits for them and            *)
(* FOR UPDATE SKIP LOCKED passes them over.                                *)
(***************************************************************************)
\* Mutant: rows selected by an open delivery transaction are not locked.
FreeUnlocked(w) == TRUE

Free(w) == \A s \in Session : w \notin tx[s].lock

\* Bound: failures happen only while a session is left to reconnect with.
Spare == \E s \in Session : sess[s] = "unused"

Created(w) == IF w \in Op THEN op[w] # "none" ELSE col[w] # "none"

Age(new) == older' = older \cup {<<v, w>> : v \in {v \in Work : Created(v)}, w \in new}

-----------------------------------------------------------------------------
(***************************************************************************)
(* Requests: operations/service.py, modules/operation_service.py,          *)
(* context/repository.py.                                                  *)
(***************************************************************************)
CreateOperation(d) ==
    /\ op[d] = "none"
    /\ op' = [op EXCEPT ![d] = "queued"]
    /\ col' = [col EXCEPT ![d] = "requested"]
    /\ Age({d})
    /\ UNCHANGED <<step, cmd, dlv, own, stored, evid, audit, due, revoked,
                   gate, agent, up, down, sent>>

CreateModuleOperation(m) ==
    /\ op[m] = "none"
    /\ m \notin revoked
    /\ op' = [op EXCEPT ![m] = "queued"]
    /\ step' = [u \in Step |-> IF u[1] = m THEN "queued" ELSE step[u]]
    /\ Age({m})
    /\ UNCHANGED <<col, cmd, dlv, own, stored, evid, audit, due, revoked,
                   gate, agent, up, down, sent>>

RequestCollection(c) ==
    /\ c \in Sched \cup Manual
    /\ col[c] = "none"
    /\ col' = [col EXCEPT ![c] = "requested"]
    /\ Age({c})
    /\ UNCHANGED <<op, step, cmd, dlv, own, stored, evid, audit, due, revoked,
                   gate, agent, up, down, sent>>

\* Mutant: cancellation reads the operation but not whether it was delivered.
CancelableAnyActive(d) == op[d] \in {"queued", "delivered"}

\* Only a queued operation without a command can be canceled.
Cancelable(d) == op[d] = "queued" /\ cmd[d] = "none" /\ col[d] = "requested"

CancelOperation(d) ==
    /\ Cancelable(d)
    /\ Free(d)
    /\ op' = [op EXCEPT ![d] = "canceled"]
    /\ col' = [col EXCEPT ![d] = "expired"]
    /\ audit' = [audit EXCEPT ![d] = @ + 1]
    /\ UNCHANGED <<step, cmd, dlv, own, stored, evid, world, gate, agent,
                   up, down, sent>>

\* A published version is deprecated (or a validated one revoked) while an
\* operation of it is active.
RevokeVersion(m) ==
    /\ m \notin revoked /\ op[m] \in Active
    /\ revoked' = revoked \cup {m}
    /\ UNCHANGED <<rows, due, older, gate, agent, up, down, sent>>

\* Time.  A deadline that passes on finished work changes nothing.
DeadlinePasses(w) ==
    /\ w \notin due \cup Manual
    /\ IF w \in Op THEN op[w] \in Active
                    ELSE col[w] \in {"requested", "delivered", "collecting"}
    /\ due' = due \cup {w}
    /\ UNCHANGED <<rows, older, revoked, gate, agent, up, down, sent>>

-----------------------------------------------------------------------------
(***************************************************************************)
(* Expiry.  What the rows become when the work in E is expired:            *)
(* expire_operation_if_due and expire_overdue_collections.                 *)
(***************************************************************************)
ExpiredOp(E)   == [o \in Op |-> IF o \in E THEN "expired" ELSE op[o]]
ExpiredStep(E) == [u \in Step |-> IF u[1] \in E /\ step[u] \notin Terminal
                                    THEN "expired" ELSE step[u]]
ExpiredCol(E)  == [x \in Diag \cup Coll |->
                     IF x \in E /\ col[x] \notin {"completed", "failed", "expired"}
                       THEN "expired" ELSE col[x]]
ExpiredCmd(E)  == [u \in Cmd |-> IF WorkOf(u) \in E /\ cmd[u] \in InFlight
                                   THEN "expired" ELSE cmd[u]]
ExpiredDlv(E)  == [u \in Cmd |-> IF WorkOf(u) \in E /\ dlv[u] \in InFlight
                                   THEN "expired" ELSE dlv[u]]
ExpiryAudit(E) == [o \in Op |-> IF o \in E THEN audit[o] + 1 ELSE audit[o]]

ExpireRows(E) ==
    /\ op' = ExpiredOp(E)
    /\ step' = ExpiredStep(E)
    /\ col' = ExpiredCol(E)
    /\ cmd' = ExpiredCmd(E)
    /\ dlv' = ExpiredDlv(E)
    /\ audit' = ExpiryAudit(E)

\* Mutant: every overdue operation is expired, ended ones too.
OverdueOpsAny == {o \in Op : op[o] # "none" /\ o \in due}
\* Mutant: the worker looks for operations no agent has seen.
OverdueOpsQueued == {o \in Op : op[o] = "queued" /\ o \in due}

OverdueOps   == {o \in Op : op[o] \in Active /\ o \in due}
OverdueColls == {c \in Coll : c \in due /\ col[c] \in {"requested", "delivered", "collecting"}}

\* The worker's expire_operations, in one transaction over unlocked rows.
ExpireOperations ==
    LET E == {o \in OverdueOps : Free(o)} IN
    /\ E # {}
    /\ ExpireRows(E)
    /\ UNCHANGED <<own, stored, evid, world, gate, agent, up, down, sent>>

\* The scheduler expires its collection and leaves the command alone.
ExpireScheduled ==
    LET E == {c \in OverdueColls : c \in Sched /\ Free(c)} IN
    /\ E # {}
    /\ col' = ExpiredCol(E)
    /\ UNCHANGED <<op, step, cmd, dlv, own, stored, evid, audit, world, gate,
                   agent, up, down, sent>>

-----------------------------------------------------------------------------
(***************************************************************************)
(* Sessions and the connect_agent coroutine.                               *)
(***************************************************************************)

\* open_session: the new session closes every open one of the device.
Connect(s) ==
    /\ link = None
    /\ sess[s] = "unused"
    /\ sess' = [t \in Session |-> IF t = s THEN "open"
                                  ELSE IF sess[t] = "open" THEN "closed" ELSE sess[t]]
    /\ handler' = [handler EXCEPT ![s] = "refreshing"]
    /\ link' = s
    /\ UNCHANGED <<rows, world, tx, busy, kept, up, down, sent>>

\* queue_connect_refreshes, for the profiles that have a refresh rule and whose
\* capability the session negotiated: overdue collections expire (E) and some of
\* the stale profiles are requested anew.
ConnectRefresh(s) ==
    /\ handler[s] = "refreshing"
    /\ \E E \in SUBSET (OverdueColls \cap Supports[s]),
          new \in SUBSET {c \in (Supports[s] \cap Coll) \ (Sched \cup Manual) : col[c] = "none"} :
         /\ \A c \in E : Free(c)
         /\ col' = [c \in Diag \cup Coll |-> IF c \in new THEN "requested" ELSE ExpiredCol(E)[c]]
         /\ Age(new)
         /\ cmd' = ExpiredCmd(E)
         /\ dlv' = ExpiredDlv(E)
    /\ handler' = [handler EXCEPT ![s] = "delivering"]
    /\ UNCHANGED <<op, step, own, stored, evid, audit, due, revoked, sess, tx,
                   agent, up, down, sent>>

\* _next_pending_module_command.  A module operation is passed over, stops the
\* selection with an offer, or stops it with CommandStateRejected.
SelectedMods == {m \in Mod : op[m] \in Active /\ Free(m)}

ActiveSteps(m) == {u \in StepsOf(m) : step[u] \in InFlight}

\* Mutant: any queued step may be next.
NextStepsAnyOrder(m) ==
    {u \in StepsOf(m) : \/ ActiveSteps(m) = {u} /\ step[u] = "delivered"
                        \/ ActiveSteps(m) = {} /\ step[u] = "queued"}

NextSteps(m) ==
    {u \in StepsOf(m) :
       \/ ActiveSteps(m) = {u} /\ step[u] = "delivered"
       \/ /\ ActiveSteps(m) = {} /\ step[u] = "queued"
          /\ \A v \in StepsOf(m) : v[2] < u[2] => step[v] = "succeeded"}

ModuleOffers(s, m) == IF m \in due THEN {} ELSE NextSteps(m) \cap Supports[s]

ModuleRejects(m) ==
    \/ m \in revoked
    \/ m \notin due /\ \E u \in NextSteps(m) : step[u] = "delivered" /\ cmd[u] # "delivered"

\* next_pending_command over collections.  A due operation met on the way is
\* expired and passed over.
SelectedCols == {x \in Diag \cup Coll : /\ col[x] \in {"requested", "delivered"}
                                        /\ x \notin OverdueColls
                                        /\ Free(x)}

Considered(s) == {x \in SelectedCols \cap Supports[s] : cmd[x] \in {"none", "delivered"}}

Lapsed(x) == x \in OverdueOps

CollectionRejects(x) ==
    /\ x \in Diag /\ ~Lapsed(x)
    /\ op[x] # (IF cmd[x] = "none" THEN "queued" ELSE "delivered")

\* The first candidate of S in creation order (one of them on equal times).
FirstOf(S) == {x \in S : \A y \in S : <<y, x>> \notin older}

\* The module operations and the collections the selection can stop at.
StoppingMods(s) == {m \in SelectedMods : ModuleRejects(m) \/ ModuleOffers(s, m) # {}}
StoppingCols(s) == {x \in Considered(s) : ~Lapsed(x)}

\* The transaction up to the session check: u is selected (None when there is
\* nothing to do), the operations L met on the way have lapsed, R is locked.
Selects(s, u, L, R) ==
    /\ u # None => sess[s] = "open"
    /\ tx' = [tx EXCEPT ![s] = [pick |-> u, expire |-> OverdueColls \cup L,
                                lock |-> OverdueColls \cup SelectedMods \cup R]]

DeliverBegin(s) ==
    /\ handler[s] = "delivering"
    /\ \A c \in OverdueColls : Free(c)
    /\ \/ \E m \in FirstOf(StoppingMods(s)) :
            /\ ~ModuleRejects(m)
            /\ \E u \in ModuleOffers(s, m) : Selects(s, u, {}, {})
       \/ /\ StoppingMods(s) = {}
          /\ \E x \in FirstOf(StoppingCols(s)) :
               /\ ~CollectionRejects(x)
               /\ Selects(s, x, {y \in Considered(s) : Lapsed(y) /\ <<y, x>> \in older},
                          SelectedCols)
       \/ /\ StoppingMods(s) = {} /\ StoppingCols(s) = {}
          /\ Selects(s, None, {y \in Considered(s) : Lapsed(y)}, SelectedCols)
    /\ handler' = [handler EXCEPT ![s] = "binding"]
    /\ UNCHANGED <<rows, world, sess, agent, up, down, sent>>

\* CommandStateRejected out of deliver_next: rollback and close the connection.
DeliverRejected(s) ==
    /\ handler[s] = "delivering"
    /\ \A c \in OverdueColls : Free(c)
    /\ \/ \E m \in FirstOf(StoppingMods(s)) : ModuleRejects(m)
       \/ StoppingMods(s) = {} /\ \E x \in FirstOf(StoppingCols(s)) : CollectionRejects(x)
       \/ sess[s] # "open" /\ StoppingMods(s) \cup StoppingCols(s) # {}
    /\ handler' = [handler EXCEPT ![s] = "closing"]
    /\ UNCHANGED <<rows, world, sess, tx, agent, up, down, sent>>

\* Mutant: every selection sends.
TakesOverAlways(s, u) == TRUE
\* Mutant: only a delivery that was never bound is sent.
TakesOverUnowned(s, u) == own[u] = None

\* A delivery is taken over by a session that does not own it yet; a heartbeat
\* or an unrelated result of the owner does not send the command again.
TakesOver(s, u) == own[u] # s

\* The commit: expiries take effect, a new command is materialised, and the
\* delivery is bound to this session.
DeliverCommit(s) ==
    LET u    == tx[s].pick
        E    == tx[s].expire
        new  == u # None /\ cmd[u] = "none"
        bind == u # None /\ TakesOver(s, u)
    IN
    /\ handler[s] = "binding"
    /\ op' = [o \in Op |-> IF new /\ o = WorkOf(u) THEN "delivered" ELSE ExpiredOp(E)[o]]
    /\ step' = [v \in Step |-> IF new /\ v = u THEN "delivered" ELSE ExpiredStep(E)[v]]
    /\ col' = [x \in Diag \cup Coll |-> IF new /\ x = u THEN "delivered" ELSE ExpiredCol(E)[x]]
    /\ cmd' = [v \in Cmd |-> IF new /\ v = u THEN "delivered" ELSE ExpiredCmd(E)[v]]
    /\ dlv' = [v \in Cmd |-> IF new /\ v = u THEN "delivered" ELSE ExpiredDlv(E)[v]]
    /\ audit' = ExpiryAudit(E)
    /\ own' = IF bind THEN [own EXCEPT ![u] = s] ELSE own
    /\ handler' = [handler EXCEPT ![s] = IF bind THEN "sending" ELSE "receiving"]
    /\ tx' = [tx EXCEPT ![s] = IF bind THEN [NoTx EXCEPT !.pick = u] ELSE NoTx]
    /\ UNCHANGED <<stored, evid, world, sess, agent, up, down, sent>>

\* The frame leaves after the commit; the socket may already be dead.
Send(s) ==
    /\ handler[s] = "sending"
    /\ down' = IF link = s THEN [down EXCEPT ![s] = Append(@, tx[s].pick)] ELSE down
    /\ sent' = [sent EXCEPT ![s] = @ \cup {tx[s].pick}]
    /\ handler' = [handler EXCEPT ![s] = IF link = s THEN "receiving" ELSE "closing"]
    /\ tx' = [tx EXCEPT ![s] = NoTx]
    /\ UNCHANGED <<rows, world, sess, agent, up>>

-----------------------------------------------------------------------------
(***************************************************************************)
(* Incoming frames: record_heartbeat, record_ack and record_result.  After *)
(* each accepted frame the handler asks for more work; a rejected one      *)
(* closes the connection.                                                  *)
(***************************************************************************)
Receives(s, kind) ==
    /\ handler[s] = "receiving"
    /\ up[s] # << >>
    /\ Head(up[s]).kind = kind
    /\ up' = [up EXCEPT ![s] = Tail(@)]

Then(s, pc) == handler' = [handler EXCEPT ![s] = pc]

\* A heartbeat is read once the frames sent before it are.
Heartbeat(s) ==
    /\ link = s
    /\ handler[s] = "receiving" /\ up[s] = << >>
    /\ Then(s, IF sess[s] = "open" THEN "delivering" ELSE "closing")
    /\ UNCHANGED <<rows, world, sess, tx, agent, up, down, sent>>

\* The command, its step and its operation all still expect an answer.
Live(u) ==
    /\ cmd[u] \in InFlight
    /\ u \in Step => step[u] \in InFlight
    /\ u \notin Coll => op[WorkOf(u)] \in InFlight

\* The command is terminal and its step or operation agrees.
Settled(u) ==
    /\ cmd[u] \in Terminal
    /\ u \in Step => step[u] = cmd[u]
    /\ u \in Diag => op[u] = cmd[u]

\* An acknowledgement never takes a running row back to acknowledged.
Advance(current, status) ==
    IF current = "running" THEN "running" ELSE status

RecordAck(s) ==
    LET f  == Head(up[s])
        u  == f.cmd
        w  == WorkOf(u)
        moves == cmd[u] # "running" \/ f.status = "running"
    IN
    /\ Receives(s, "ack")
    /\ Free(w)
    /\ sess[s] = "open" /\ own[u] = s
    /\ \/ /\ Live(u)
          /\ cmd' = IF moves THEN [cmd EXCEPT ![u] = f.status] ELSE cmd
          /\ dlv' = IF moves THEN [dlv EXCEPT ![u] = f.status] ELSE dlv
          /\ step' = IF moves /\ u \in Step THEN [step EXCEPT ![u] = f.status] ELSE step
          /\ op' = IF w \in Op THEN [op EXCEPT ![w] = Advance(@, f.status)] ELSE op
          /\ col' = IF u \in Step THEN col ELSE [col EXCEPT ![u] = "collecting"]
       \/ /\ Settled(u)
          /\ UNCHANGED <<cmd, dlv, step, op, col>>
    /\ Then(s, "delivering")
    /\ UNCHANGED <<own, stored, evid, audit, world, sess, tx, agent, down, sent>>

RejectAck(s) ==
    LET u == Head(up[s]).cmd IN
    /\ Receives(s, "ack")
    /\ Free(WorkOf(u))
    /\ \/ sess[s] # "open"
       \/ own[u] # s
       \/ ~Live(u) /\ ~Settled(u)
    /\ Then(s, "closing")
    /\ UNCHANGED <<rows, world, sess, tx, agent, down, sent>>

\* Mutant: the result is not compared with the state of its command.
AcceptableLate(s, u) == u \in Coll \/ own[u] = s

\* What record_result asks before it stores the first result of a command.
\* A plain collection's result is asked for nothing but an open session.
Acceptable(s, u) ==
    u \in Coll \/ (own[u] = s /\ Live(u) /\ WorkOf(u) \notin due)

\* ingest_context_result: how a terminal result ends its collection.
CollectionOutcome(status) == IF status = "succeeded" THEN "completed" ELSE "failed"

\* Mutant: the chain is taken to end one step early.
LastStepEarly(u) == u[2] + 2 >= StepCount

LastStep(u) == u[2] = StepCount - 1

\* The operation's status after a result of its command.
Outcome(u, status) ==
    IF u \in Step /\ status = "succeeded" /\ ~LastStep(u) THEN "running" ELSE status

RecordResult(s) ==
    LET f   == Head(up[s])
        u   == f.cmd
        w   == WorkOf(u)
        out == Outcome(u, f.status)
    IN
    /\ Receives(s, "result")
    /\ Free(w)
    /\ sess[s] = "open"
    /\ stored[u] = None /\ Acceptable(s, u)
    /\ stored' = [stored EXCEPT ![u] = [status |-> f.status, run |-> f.run]]
    /\ cmd' = [cmd EXCEPT ![u] = f.status]
    /\ dlv' = [dlv EXCEPT ![u] = f.status]
    /\ step' = IF u \in Step THEN [step EXCEPT ![u] = f.status] ELSE step
    /\ op' = IF w \in Op THEN [op EXCEPT ![w] = out] ELSE op
    /\ col' = IF u \in Step THEN col
              ELSE [col EXCEPT ![u] = CollectionOutcome(f.status)]
    /\ evid' = IF w \in Op /\ out = "succeeded" THEN evid \cup {w} ELSE evid
    /\ audit' = IF w \in Op /\ out # "running" THEN [audit EXCEPT ![w] = @ + 1] ELSE audit
    /\ Then(s, "delivering")
    /\ UNCHANGED <<own, world, sess, tx, agent, down, sent>>

\* A repeated result is acknowledged again and changes nothing.  A module step
\* recognises it on the delivering session only; a plain collection does not
\* compare it at all.
Repeats(s, f) ==
    LET u == f.cmd IN
    /\ stored[u] # None
    /\ u \notin Coll =>
         /\ stored[u] = [status |-> f.status, run |-> f.run]
         /\ cmd[u] = f.status /\ dlv[u] = f.status
    /\ u \in Step => own[u] = s /\ step[u] = f.status
    /\ u \in Diag => /\ own[u] # None
                     /\ op[u] = f.status
                     /\ col[u] = CollectionOutcome(f.status)

ReplayResult(s) ==
    LET f == Head(up[s]) IN
    /\ Receives(s, "result")
    /\ Free(WorkOf(f.cmd))
    /\ sess[s] = "open" /\ Repeats(s, f)
    /\ Then(s, "delivering")
    /\ UNCHANGED <<rows, world, sess, tx, agent, down, sent>>

\* No longer wanted, in conflict with the stored result, or not a valid result
\* (completion time, result DTO): nothing is written.
RejectResult(s) ==
    LET f == Head(up[s]) IN
    /\ Receives(s, "result")
    /\ Free(WorkOf(f.cmd))
    /\ \/ sess[s] # "open"
       \/ stored[f.cmd] = None /\ (~Acceptable(s, f.cmd) \/ Spare)
       \/ stored[f.cmd] # None /\ ~Repeats(s, f)
    /\ Then(s, "closing")
    /\ UNCHANGED <<rows, world, sess, tx, agent, down, sent>>

-----------------------------------------------------------------------------
(***************************************************************************)
(* Failures and the end of a connection.                                   *)
(***************************************************************************)
Running(s) == handler[s] \in {"refreshing", "delivering", "binding", "sending", "receiving"}

\* Any exception in the handler, a database deadlock or a receive timeout
\* included: the open transaction is rolled back.
HandlerFails(s) ==
    /\ Running(s) /\ Spare
    /\ Then(s, "closing")
    /\ tx' = [tx EXCEPT ![s] = NoTx]
    /\ UNCHANGED <<rows, world, sess, agent, up, down, sent>>

\* WebSocketDisconnect or heartbeat timeout on a connection the agent left.
Disconnected(s) ==
    /\ handler[s] = "receiving" /\ link # s
    /\ Then(s, "closing")
    /\ UNCHANGED <<rows, world, sess, tx, agent, up, down, sent>>

\* The finally block: close_session is a no-op on a replaced session.
CloseSession(s) ==
    /\ handler[s] = "closing"
    /\ Then(s, "done")
    /\ sess' = [sess EXCEPT ![s] = IF @ = "open" THEN "closed" ELSE @]
    /\ up' = [up EXCEPT ![s] = << >>]
    /\ UNCHANGED <<rows, world, tx, agent, down, sent>>

\* The server process stops: handlers vanish and session rows stay open.
ServerRestart ==
    /\ Spare
    /\ \E s \in Session : Running(s) \/ handler[s] = "closing"
    /\ handler' = [s \in Session |-> IF handler[s] = "none" THEN "none" ELSE "done"]
    /\ tx' = [s \in Session |-> NoTx]
    /\ up' = [s \in Session |-> << >>]
    /\ UNCHANGED <<rows, world, sess, agent, down, sent>>

-----------------------------------------------------------------------------
(***************************************************************************)
(* The agent: pc_agent/runtime/lifecycle.py.                               *)
(***************************************************************************)
ToServer(s, f) ==
    up' = IF handler[s] \in {"closing", "done"} THEN up ELSE [up EXCEPT ![s] = Append(@, f)]

\* _handle_inbound acknowledges before it executes.
AgentReceives(status) ==
    /\ link # None /\ busy = None
    /\ down[link] # << >>
    /\ busy' = Head(down[link])
    /\ down' = [down EXCEPT ![link] = Tail(@)]
    /\ ToServer(link, [kind |-> "ack", cmd |-> Head(down[link]), status |-> status])
    /\ UNCHANGED <<rows, world, gate, link, kept, sent>>

AgentAnswers(status) ==
    LET f == [kind |-> "result", cmd |-> busy, status |-> status, run |-> link] IN
    /\ busy # None
    /\ busy' = None
    /\ kept' = IF MayResend THEN f ELSE None
    /\ ToServer(link, f)
    /\ UNCHANGED <<rows, world, gate, link, down, sent>>

\* An agent without the result_ack may send the same result again, on the same
\* or on a later connection.
AgentResends ==
    /\ link # None /\ busy = None /\ kept # None
    /\ kept' = None
    /\ ToServer(link, kept)
    /\ UNCHANGED <<rows, world, gate, link, busy, down, sent>>

\* Connection loss, agent crash or terminal exit: the command in execution and
\* its result are gone.
AgentLosesLink ==
    /\ link # None
    /\ Spare \/ handler[link] \in {"closing", "done"}
    /\ link' = None /\ busy' = None
    /\ down' = [down EXCEPT ![link] = << >>]
    /\ UNCHANGED <<rows, world, gate, kept, up, sent>>

-----------------------------------------------------------------------------
Handler(s) ==
    \/ ConnectRefresh(s)
    \/ DeliverBegin(s) \/ DeliverRejected(s) \/ DeliverCommit(s) \/ Send(s)
    \/ Heartbeat(s)
    \/ RecordAck(s) \/ RejectAck(s)
    \/ RecordResult(s) \/ ReplayResult(s) \/ RejectResult(s)
    \/ Disconnected(s) \/ CloseSession(s)

Next ==
    \/ \E d \in Diag : CreateOperation(d) \/ CancelOperation(d)
    \/ \E m \in Mod : CreateModuleOperation(m) \/ RevokeVersion(m)
    \/ \E c \in Coll : RequestCollection(c)
    \/ \E w \in Work : DeadlinePasses(w)
    \/ ExpireOperations \/ ExpireScheduled
    \/ \E s \in Session : Connect(s) \/ Handler(s) \/ HandlerFails(s)
    \/ ServerRestart
    \/ \E st \in AckStatus : AgentReceives(st)
    \/ \E st \in ResultStatus : AgentAnswers(st)
    \/ AgentResends \/ AgentLosesLink

Spec == Init /\ [][Next]_vars

-----------------------------------------------------------------------------
(***************************************************************************)
(* Safety.                                                                 *)
(***************************************************************************)

\* The rows of a diagnostic operation: operation, private collection, command
\* and stored result tell one story at every commit.
DiagRows(d) ==
    /\ op[d] = "none" => col[d] = "none" /\ cmd[d] = "none"
    /\ op[d] = "queued" => col[d] = "requested" /\ cmd[d] = "none"
    /\ op[d] \in InFlight =>
         /\ cmd[d] = op[d] /\ stored[d] = None /\ own[d] # None
         /\ col[d] = IF op[d] = "delivered" THEN "delivered" ELSE "collecting"
    /\ op[d] \in Terminal /\ stored[d] # None =>
         /\ stored[d].status = op[d] /\ cmd[d] = op[d]
         /\ col[d] = CollectionOutcome(op[d])
    /\ op[d] \in Terminal /\ stored[d] = None =>
         /\ col[d] = "expired"
         /\ \/ op[d] = "canceled" /\ cmd[d] = "none"
            \/ op[d] = "expired" /\ cmd[d] \in {"none", "expired"}

\* The rows of a module step: step, child command and stored result.
StepRows(u) ==
    /\ step[u] = "none" <=> op[u[1]] = "none"
    /\ step[u] \in {"none", "queued"} => cmd[u] = "none"
    /\ step[u] \in InFlight => cmd[u] = step[u] /\ stored[u] = None /\ own[u] # None
    /\ step[u] \in Terminal /\ stored[u] # None =>
         stored[u].status = step[u] /\ cmd[u] = step[u]
    /\ step[u] \in Terminal /\ stored[u] = None =>
         step[u] = "expired" /\ cmd[u] \in {"none", "expired"}

\* A module operation and its chain of steps: whatever has started rests on
\* succeeded predecessors, nothing is in flight once the operation has ended,
\* and the operation succeeds exactly when the whole chain has.
ChainRows(m) ==
    /\ \A u, v \in StepsOf(m) :
         u[2] < v[2] /\ step[v] \in InFlight \cup {"succeeded", "failed", "canceled"} =>
             step[u] = "succeeded"
    /\ op[m] \in Terminal => \A u \in StepsOf(m) : step[u] \notin InFlight
    /\ op[m] \in Active => \A u \in StepsOf(m) : step[u] \in Active \cup {"succeeded"}
    /\ op[m] = "succeeded" <=> \A u \in StepsOf(m) : step[u] = "succeeded"

\* Whatever order acknowledgements, results, reconnects, cancellations and
\* expiries are committed in, the rows of every operation agree
\* (command_service.py and operations/service.py write them together).
OperationRows ==
    /\ \A d \in Diag : DiagRows(d)
    /\ \A u \in Step : StepRows(u)
    /\ \A m \in Mod : ChainRows(m)

\* The delivery row never drifts from its command row: record_ack,
\* record_result and both expiry paths move them in the same transaction.
DeliveryMirrorsCommand == \A u \in Cmd : dlv[u] = cmd[u]

\* A stored result of a plain collection stands: no late acknowledgement, repeat
\* or expiry takes the command or the collection back (record_ack, scheduler).
PlainResultStands ==
    \A c \in Coll : stored[c] # None =>
        /\ cmd[c] = stored[c].status
        /\ col[c] = CollectionOutcome(cmd[c])

\* An operation ends once: it has one terminal audit event when it has ended
\* and none before, and an evidence row exactly when it succeeded, although
\* result, expiry (two code paths) and cancellation race for it.
TerminalOnce ==
    \A o \in Op :
        /\ audit[o] = IF op[o] \in Terminal THEN 1 ELSE 0
        /\ o \in evid <=> op[o] = "succeeded"

\* A transaction owns what it selected: no row is locked by two deliveries, and
\* the decision taken at DeliverBegin still holds at DeliverCommit, however long
\* the transaction stays open (SKIP LOCKED and FOR UPDATE in next_pending_command).
DecisionHolds(s) ==
    LET u == tx[s].pick
        E == tx[s].expire
    IN
    /\ E \subseteq tx[s].lock \cap (Diag \cup Coll)
    /\ \A o \in E \cap Diag : op[o] \in Active
    /\ u # None => WorkOf(u) \in tx[s].lock \ E
    /\ u \in Step => /\ op[u[1]] \in Active
                     /\ u \in NextSteps(u[1])
    /\ u \in Diag => \/ op[u] = "queued" /\ cmd[u] = "none"
                     \/ op[u] = "delivered" /\ cmd[u] = "delivered"
    /\ u \in Coll => /\ col[u] \in {"requested", "delivered"}
                     /\ cmd[u] \in {"none", "delivered"}

LocksHold ==
    /\ \A s \in Session : handler[s] # "binding" => tx[s].lock = {}
    /\ \A s, t \in Session : s # t => tx[s].lock \cap tx[t].lock = {}
    /\ \A s \in Session : handler[s] = "binding" => DecisionHolds(s)

\* Commands the agent holds or the server is about to give it.
AtAgent == {busy} \cup UNION {{down[s][i] : i \in DOMAIN down[s]} : s \in Session}

\* A later step of a recipe is at the agent only if every earlier one has a
\* stored successful result, across reconnects and repeated deliveries.
StepsInOrder ==
    \A u \in AtAgent \cap Step, v \in Step :
        v[1] = u[1] /\ v[2] < u[2] => step[v] = "succeeded" /\ stored[v] # None

\* A command frame goes out at most once on a session: only a session that
\* takes the delivery over sends it, although the session row is read without
\* a lock and a replaced session may still be inside deliver_next.
NeverSentTwice ==
    \A s \in Session : handler[s] = "sending" => tx[s].pick \notin sent[s]

\* A canceled operation was never given to an agent and never will be: the
\* cancellation and a delivery that is under way exclude each other.
CanceledNeverSent ==
    \A d \in Diag : op[d] = "canceled" /\ stored[d] = None =>
        \A s \in Session : d \notin sent[s] /\ tx[s].pick # d

\* A device is not refused work on the session it has open: the CommandStateRejected
\* exits of deliver_next are reached by a replaced session, or while an operation of
\* a deprecated version is active - never because acknowledgements, expiries and
\* cancellations left rows behind that the selection stumbles over.
RefusedOnlyForVersion ==
    [][\A s \in Session : DeliverRejected(s) /\ sess[s] = "open" =>
          \E m \in revoked : op[m] \in Active]_vars

\* An ended operation never changes again (late results, acks, expiry).
TerminalFinal == [][\A o \in Op : op[o] \in Terminal => op'[o] = op[o]]_vars

-----------------------------------------------------------------------------
(***************************************************************************)
(* The promise of OperationPromise.                                        *)
(***************************************************************************)
StepOut(m) == \E u \in StepsOf(m) : step[u] \in InFlight

phaseBar == [o \in Op |-> IF op[o] \in {"none"} \cup Terminal THEN op[o]
                          ELSE IF o \in Mod THEN (IF StepOut(o) THEN "out" ELSE "waiting")
                          ELSE IF op[o] = "queued" THEN "waiting" ELSE "out"]

doneBar == [o \in Op |-> IF o \in Mod
                           THEN {i \in 0 .. (StepCount - 1) : step[<<o, i>>] = "succeeded"}
                           ELSE {i \in {0} : op[o] = "succeeded"}]

Promise == INSTANCE OperationPromise
             WITH phase <- phaseBar, done <- doneBar,
                  Size <- [o \in Op |-> IF o \in Mod THEN StepCount ELSE 1]

\* Delivery, acknowledgement, results and expiry implement the promise made to
\* the caller of an operation: one piece of work out at a time, pieces in
\* sequence, one end, success only after every piece.
KeepsPromise == Promise!PromiseSpec

-----------------------------------------------------------------------------
(***************************************************************************)
(* Liveness.                                                               *)
(***************************************************************************)
AgentSeesClose ==
    link # None /\ handler[link] \in {"closing", "done"} /\ AgentLosesLink

\* The agent's reconnect loop, the handlers and the agent's receive loop run on, and
\* so does the worker; its SKIP LOCKED query meets every row unlocked now and then,
\* because delivery transactions end.
FairDelivery ==
    /\ Spec
    /\ WF_vars(\E s \in Session : Connect(s))
    /\ \A s \in Session : WF_vars(Handler(s))
    /\ WF_vars(\E st \in AckStatus : AgentReceives(st))
    /\ WF_vars(\E st \in ResultStatus : AgentAnswers(st))
    /\ WF_vars(AgentSeesClose)
    /\ SF_vars(ExpireOperations)

\* Bound: every session of the instance has been used and is over.
Exhausted == \A s \in Session : sess[s] # "unused" /\ ~Running(s)

\* Every session negotiated the capability of the operation.
Supported(o) ==
    \A s \in Session : (IF o \in Mod THEN StepsOf(o) ELSE {o}) \subseteq Supports[s]

\* While the agent keeps reconnecting, a queued or unacknowledged operation does
\* not stay that way: a command whose frame was lost, bound to a session that was
\* already replaced, or left by a crashed handler is delivered again.
Redelivered ==
    \A o \in {q \in Op : Supported(q)} :
        op[o] \in {"queued", "delivered"} ~> op[o] \notin {"queued", "delivered"} \/ Exhausted

\* Every operation ends after its deadline, whatever the agent and the connection
\* do: the worker ends it even when the acknowledged command or its result was lost.
EveryOperationEnds ==
    \A o \in Op : op[o] \in Active /\ o \in due ~> op[o] \in Terminal

=============================================================================
