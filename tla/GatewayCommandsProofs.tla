------------------------ MODULE GatewayCommandsProofs ------------------------
(***************************************************************************)
(* Theorems about GatewayCommands, for any operations, sessions and bounds: *)
(* types, the rows of operations, what a handler sends, and the refinement *)
(* of OperationPromise.                                                    *)
(***************************************************************************)
EXTENDS GatewayCommands, TLAPS

(***************************************************************************)
(* Types.                                                                  *)
(***************************************************************************)

\* The work a command belongs to is work, and a module step's is its module.
LEMMA WorkOfType ==
    ASSUME NEW u \in Cmd
    PROVE  /\ WorkOf(u) \in Work
           /\ u \in Step => WorkOf(u) = u[1] /\ WorkOf(u) \in Mod
           /\ u \notin Step => WorkOf(u) = u
  BY DEF WorkOf, Work, Op, Cmd, Step

\* Every frame names a command, and an acknowledgement or result status.
LEMMA FrameType ==
    ASSUME NEW f \in Frames
    PROVE  /\ f.cmd \in Cmd
           /\ f.kind = "ack" => f.status \in AckStatus
           /\ f.kind = "result" => f.status \in ResultStatus /\ f.run \in Session
  BY DEF Frames

\* The frame a handler receives is well-typed and so is the rest of its queue.
LEMMA ReceivesType ==
    ASSUME TypeOK, NEW s \in Session, NEW kind, Receives(s, kind)
    PROVE  /\ Head(up[s]) \in Frames
           /\ Head(up[s]).kind = kind
           /\ up' \in [Session -> Seq(Frames)]
  <1>1. up[s] \in Seq(Frames) /\ up[s] # << >>
    BY DEF TypeOK, Receives
  <1>2. Head(up[s]) \in Frames /\ Tail(up[s]) \in Seq(Frames)
    BY <1>1
  <1> QED
    BY <1>2 DEF TypeOK, Receives

\* Expiry keeps the types of the rows it rewrites.
LEMMA ExpiryType ==
    ASSUME TypeOK, NEW E
    PROVE  /\ ExpiredOp(E) \in [Op -> {"none"} \cup Active \cup Terminal]
           /\ ExpiredStep(E) \in [Step -> {"none"} \cup Active \cup Terminal]
           /\ ExpiredCol(E) \in [Diag \cup Coll ->
                {"none", "requested", "delivered", "collecting",
                 "completed", "failed", "expired"}]
           /\ ExpiredCmd(E) \in [Cmd -> {"none"} \cup InFlight \cup Terminal]
           /\ ExpiredDlv(E) \in [Cmd -> {"none"} \cup InFlight \cup Terminal]
           /\ ExpiryAudit(E) \in [Op -> Nat]
  BY DEF TypeOK, ExpiredOp, ExpiredStep, ExpiredCol, ExpiredCmd, ExpiredDlv,
         ExpiryAudit, Terminal

\* Init establishes the types.
LEMMA InitType == Init => TypeOK
  BY DEF Init, TypeOK, NoTx, Active, Terminal, InFlight

\* What the types alone do not say: only a connected agent executes, only a
\* handler with a command in hand sends, and a session is opened before its
\* handler runs.
Wired ==
    /\ busy # None => link # None
    /\ \A s \in Session : sess[s] = "unused" => handler[s] = "none"
    /\ \A s \in Session : handler[s] = "sending" => tx[s].pick # None

\* Every step of the specification keeps the types.
LEMMA NextType == TypeOK /\ Wired /\ [Next]_vars => TypeOK'
  <1> SUFFICES ASSUME TypeOK, Wired, [Next]_vars PROVE TypeOK'
    OBVIOUS
  <1>1. ASSUME NEW d \in Diag, CreateOperation(d) PROVE TypeOK'
    BY <1>1 DEF CreateOperation, TypeOK, Age, Active, gate, agent, Op, Work
  <1>2. ASSUME NEW d \in Diag, CancelOperation(d) PROVE TypeOK'
    BY <1>2 DEF CancelOperation, TypeOK, Terminal, world, gate, agent, Op
  <1>3. ASSUME NEW m \in Mod, CreateModuleOperation(m) PROVE TypeOK'
    BY <1>3 DEF CreateModuleOperation, TypeOK, Age, Active, gate, agent, Op, Work
  <1>4. ASSUME NEW m \in Mod, RevokeVersion(m) PROVE TypeOK'
    BY <1>4 DEF RevokeVersion, TypeOK, rows, gate, agent
  <1>5. ASSUME NEW c \in Coll, RequestCollection(c) PROVE TypeOK'
    BY <1>5 DEF RequestCollection, TypeOK, Age, gate, agent, Op, Work
  <1>6. ASSUME NEW w \in Work, DeadlinePasses(w) PROVE TypeOK'
    BY <1>6 DEF DeadlinePasses, TypeOK, rows, gate, agent
  <1>7. ASSUME ExpireOperations PROVE TypeOK'
    BY <1>7, ExpiryType DEF ExpireOperations, ExpireRows, TypeOK, world, gate, agent
  <1>8. ASSUME ExpireScheduled PROVE TypeOK'
    BY <1>8, ExpiryType DEF ExpireScheduled, TypeOK, world, gate, agent
  <1>9. ASSUME NEW s \in Session, Connect(s) PROVE TypeOK'
    BY <1>9 DEF Connect, TypeOK, rows, world
  <1>10. ASSUME NEW s \in Session, ConnectRefresh(s) PROVE TypeOK'
    BY <1>10, ExpiryType DEF ConnectRefresh, TypeOK, Age, agent, Work
  <1>11. ASSUME NEW s \in Session, DeliverBegin(s) PROVE TypeOK'
    <2>1. PICK u \in Cmd \cup {None}, L \in SUBSET Work, R \in SUBSET Work : Selects(s, u, L, R)
      <3>1. ASSUME NEW m \in FirstOf(StoppingMods(s)), NEW u \in ModuleOffers(s, m),
                   Selects(s, u, {}, {})
            PROVE  \E v \in Cmd \cup {None}, L \in SUBSET Work, R \in SUBSET Work : Selects(s, v, L, R)
        BY <3>1 DEF FirstOf, StoppingMods, SelectedMods, ModuleOffers, NextSteps, StepsOf, Cmd, Step
      <3>2. SelectedCols \subseteq Work /\ Considered(s) \subseteq SelectedCols
        BY DEF SelectedCols, Considered, Work, Op
      <3>3. StoppingCols(s) \subseteq Cmd
        BY DEF StoppingCols, Considered, SelectedCols, Cmd
      <3> QED
        BY <1>11, <3>1, <3>2, <3>3 DEF DeliverBegin, FirstOf
    <2>2. OverdueColls \subseteq Work /\ SelectedMods \subseteq Work
      BY DEF OverdueColls, SelectedMods, Work, Op
    <2>3. tx' \in [Session -> [pick : Cmd \cup {None}, expire : SUBSET Work,
                               lock : SUBSET Work]]
      BY <2>1, <2>2 DEF Selects, TypeOK
    <2> QED
      BY <1>11, <2>3 DEF DeliverBegin, TypeOK, rows, world, agent
  <1>12. ASSUME NEW s \in Session, DeliverRejected(s) PROVE TypeOK'
    BY <1>12 DEF DeliverRejected, TypeOK, rows, world, agent
  <1>13. ASSUME NEW s \in Session, DeliverCommit(s) PROVE TypeOK'
    <2> DEFINE u == tx[s].pick
    <2>1. u \in Cmd \cup {None} /\ tx[s].expire \subseteq Work
      BY DEF TypeOK
    <2>2. tx' \in [Session -> [pick : Cmd \cup {None}, expire : SUBSET Work,
                               lock : SUBSET Work]]
      BY <1>13, <2>1 DEF DeliverCommit, TypeOK, NoTx
    <2>3. own' \in [Cmd -> Session \cup {None}]
      BY <1>13, <2>1 DEF DeliverCommit, TypeOK
    <2>4. op' \in [Op -> {"none"} \cup Active \cup Terminal]
      BY <1>13, ExpiryType DEF DeliverCommit, Active, InFlight
    <2>5. step' \in [Step -> {"none"} \cup Active \cup Terminal]
      BY <1>13, ExpiryType DEF DeliverCommit, Active, InFlight
    <2>6. col' \in [Diag \cup Coll -> {"none", "requested", "delivered", "collecting",
                                       "completed", "failed", "expired"}]
      BY <1>13, ExpiryType DEF DeliverCommit
    <2>7. /\ cmd' \in [Cmd -> {"none"} \cup InFlight \cup Terminal]
          /\ dlv' \in [Cmd -> {"none"} \cup InFlight \cup Terminal]
      BY <1>13, ExpiryType DEF DeliverCommit, InFlight
    <2>8. audit' \in [Op -> Nat] /\ handler' \in [Session ->
                {"none", "refreshing", "delivering", "binding",
                 "sending", "receiving", "closing", "done"}]
      BY <1>13, ExpiryType DEF DeliverCommit, TypeOK
    <2> QED
      BY <1>13, <2>2, <2>3, <2>4, <2>5, <2>6, <2>7, <2>8
         DEF DeliverCommit, TypeOK, world, agent
  <1>14. ASSUME NEW s \in Session, Send(s) PROVE TypeOK'
    <2>1. tx[s].pick \in Cmd
      BY <1>14 DEF Send, Wired, TypeOK
    <2> QED
      BY <1>14, <2>1 DEF Send, TypeOK, NoTx, rows, world, agent
  <1>15. ASSUME NEW s \in Session, Heartbeat(s) PROVE TypeOK'
    BY <1>15 DEF Heartbeat, Then, TypeOK, rows, world, agent
  <1>16. ASSUME NEW s \in Session, RecordAck(s) PROVE TypeOK'
    <2> DEFINE f == Head(up[s])
    <2>1. f \in Frames /\ f.kind = "ack" /\ up' \in [Session -> Seq(Frames)]
      BY <1>16, ReceivesType DEF RecordAck
    <2>2. f.cmd \in Cmd /\ f.status \in InFlight
      BY <2>1, FrameType, ProtocolAssumption DEF InFlight
    <2>3. WorkOf(f.cmd) \in Work
      BY <2>2, WorkOfType
    <2> HIDE DEF f
    <2>4. /\ step' \in [Step -> {"none"} \cup Active \cup Terminal]
          /\ cmd' \in [Cmd -> {"none"} \cup InFlight \cup Terminal]
          /\ dlv' \in [Cmd -> {"none"} \cup InFlight \cup Terminal]
      BY <1>16, <2>2 DEF RecordAck, TypeOK, f, Active
    <2>5. op' \in [Op -> {"none"} \cup Active \cup Terminal]
      <3> DEFINE w == WorkOf(f.cmd)
      <3>1. op' = op \/ op' = [op EXCEPT ![w] = Advance(op[w], f.status)]
        BY <1>16 DEF RecordAck, f
      <3>2. Advance(op[w], f.status) \in Active
        BY <2>2 DEF Advance, Active, InFlight
      <3> QED
        BY <3>1, <3>2 DEF TypeOK
    <2>6. col' \in [Diag \cup Coll -> {"none", "requested", "delivered", "collecting",
                                       "completed", "failed", "expired"}]
      <3>1. col' = col \/ col' = [col EXCEPT ![f.cmd] = "collecting"]
        BY <1>16 DEF RecordAck, f
      <3> QED
        BY <3>1 DEF TypeOK
    <2> QED
      BY <1>16, <2>1, <2>4, <2>5, <2>6 DEF RecordAck, Then, TypeOK, world, agent
  <1>17. ASSUME NEW s \in Session, RejectAck(s) \/ ReplayResult(s) \/ RejectResult(s)
         PROVE  TypeOK'
    BY <1>17, ReceivesType
       DEF RejectAck, ReplayResult, RejectResult, Then, TypeOK, rows, world, agent
  <1>18. ASSUME NEW s \in Session, RecordResult(s) PROVE TypeOK'
    <2> DEFINE f == Head(up[s])
    <2>1. f \in Frames /\ f.kind = "result" /\ up' \in [Session -> Seq(Frames)]
      BY <1>18, ReceivesType DEF RecordResult
    <2>2. f.cmd \in Cmd /\ f.status \in Terminal /\ f.run \in Session
      BY <2>1, FrameType, ProtocolAssumption
    <2>3. WorkOf(f.cmd) \in Work
      BY <2>2, WorkOfType
    <2>4. Outcome(f.cmd, f.status) \in Terminal \cup {"running"}
      BY <2>2 DEF Outcome
    <2>5. stored' \in [Cmd -> [status : Terminal, run : Session] \cup {None}]
      BY <1>18, <2>2 DEF RecordResult, TypeOK
    <2> HIDE DEF f
    <2>6. /\ step' \in [Step -> {"none"} \cup Active \cup Terminal]
          /\ cmd' \in [Cmd -> {"none"} \cup InFlight \cup Terminal]
          /\ dlv' \in [Cmd -> {"none"} \cup InFlight \cup Terminal]
      BY <1>18, <2>2 DEF RecordResult, TypeOK, f
    <2>7. op' \in [Op -> {"none"} \cup Active \cup Terminal]
      BY <1>18, <2>4 DEF RecordResult, TypeOK, f, Active, InFlight
    <2>8. col' \in [Diag \cup Coll -> {"none", "requested", "delivered", "collecting",
                                       "completed", "failed", "expired"}]
      BY <1>18 DEF RecordResult, TypeOK, f, CollectionOutcome
    <2>9. evid' \subseteq Op /\ audit' \in [Op -> Nat]
      BY <1>18 DEF RecordResult, TypeOK, f
    <2> QED
      BY <1>18, <2>1, <2>5, <2>6, <2>7, <2>8, <2>9 DEF RecordResult, Then, TypeOK, world, agent
  <1>19. ASSUME NEW s \in Session, HandlerFails(s) PROVE TypeOK'
    BY <1>19 DEF HandlerFails, Then, TypeOK, rows, world, agent, NoTx
  <1>20. ASSUME NEW s \in Session, Disconnected(s) PROVE TypeOK'
    BY <1>20 DEF Disconnected, Then, TypeOK, rows, world, agent
  <1>21. ASSUME NEW s \in Session, CloseSession(s) PROVE TypeOK'
    BY <1>21 DEF CloseSession, Then, TypeOK, rows, world, agent
  <1>22. ASSUME ServerRestart PROVE TypeOK'
    BY <1>22 DEF ServerRestart, TypeOK, rows, world, agent, NoTx
  <1>23. ASSUME NEW st \in AckStatus, AgentReceives(st) PROVE TypeOK'
    <2>1. link \in Session /\ down[link] \in Seq(Cmd) /\ down[link] # << >>
      BY <1>23 DEF AgentReceives, TypeOK
    <2>2. Head(down[link]) \in Cmd /\ Tail(down[link]) \in Seq(Cmd)
      BY <2>1
    <2>3. [kind |-> "ack", cmd |-> Head(down[link]), status |-> st] \in Frames
      BY <2>2 DEF Frames
    <2>4. up' \in [Session -> Seq(Frames)]
      BY <1>23, <2>1, <2>3 DEF AgentReceives, ToServer, TypeOK
    <2> QED
      BY <1>23, <2>1, <2>2, <2>4 DEF AgentReceives, TypeOK, rows, world, gate
  <1>24. ASSUME NEW st \in ResultStatus, AgentAnswers(st) PROVE TypeOK'
    <2> DEFINE f == [kind |-> "result", cmd |-> busy, status |-> st, run |-> link]
    <2>1. busy \in Cmd
      BY <1>24 DEF AgentAnswers, TypeOK
    <2>2. link \in Session
      BY <1>24 DEF AgentAnswers, TypeOK, Wired
    <2>3. f \in Frames
      BY <2>1, <2>2 DEF Frames
    <2> HIDE DEF f
    <2>4. up' \in [Session -> Seq(Frames)]
      BY <1>24, <2>2, <2>3 DEF AgentAnswers, ToServer, TypeOK, f
    <2> QED
      BY <1>24, <2>3, <2>4 DEF AgentAnswers, TypeOK, rows, world, gate, f
  <1>25. ASSUME AgentResends PROVE TypeOK'
    BY <1>25 DEF AgentResends, ToServer, TypeOK, rows, world, gate
  <1>26. ASSUME AgentLosesLink PROVE TypeOK'
    BY <1>26 DEF AgentLosesLink, TypeOK, rows, world, gate
  <1>27. ASSUME UNCHANGED vars PROVE TypeOK'
    BY <1>27 DEF TypeOK, vars, rows, world, gate, agent
  <1> QED
    BY <1>1, <1>2, <1>3, <1>4, <1>5, <1>6, <1>7, <1>8, <1>9, <1>10, <1>11, <1>12,
       <1>13, <1>14, <1>15, <1>16, <1>17, <1>18, <1>19, <1>20, <1>21, <1>22, <1>23,
       <1>24, <1>25, <1>26, <1>27 DEF Next, Handler

\* Every step keeps the wiring.
LEMMA NextWired == TypeOK /\ Wired /\ [Next]_vars => Wired'
  <1> SUFFICES ASSUME TypeOK, Wired, [Next]_vars PROVE Wired'
    OBVIOUS
  <1>1. (busy # None => link # None)'
    <2>1. ASSUME NEW s \in Session, Handler(s) \/ HandlerFails(s) PROVE UNCHANGED <<busy, link>>
      BY <2>1 DEF Handler, HandlerFails, ConnectRefresh, DeliverBegin, DeliverRejected,
         DeliverCommit, Send, Heartbeat, RecordAck, RejectAck, RecordResult, ReplayResult,
         RejectResult, Disconnected, CloseSession, agent
    <2>2. ASSUME NEW s \in Session, Connect(s) PROVE link' # None
      BY <2>2, KindsAssumption DEF Connect
    <2>3. ASSUME NEW st, AgentReceives(st) \/ AgentAnswers(st)
          PROVE  busy' = None \/ link' # None
      BY <2>3 DEF AgentReceives, AgentAnswers
    <2> QED
      BY <2>1, <2>2, <2>3
         DEF Next, Wired, vars, CreateOperation, CancelOperation, CreateModuleOperation,
             RevokeVersion, RequestCollection, DeadlinePasses, ExpireOperations,
             ExpireScheduled, ServerRestart, AgentResends, AgentLosesLink, agent
  <1>2. ASSUME NEW t \in Session PROVE (handler[t] = "sending" => tx[t].pick # None)'
    <2>1. ASSUME NEW s \in Session, DeliverCommit(s)
          PROVE  (handler[t] = "sending" => tx[t].pick # None)'
      BY <2>1, <1>2 DEF DeliverCommit, TypeOK, Wired, NoTx
    <2>2. ASSUME NEW s \in Session,
                 \/ Connect(s) \/ ConnectRefresh(s) \/ DeliverBegin(s) \/ DeliverRejected(s)
                 \/ Send(s) \/ Heartbeat(s) \/ RecordAck(s) \/ RejectAck(s)
                 \/ RecordResult(s) \/ ReplayResult(s) \/ RejectResult(s)
                 \/ Disconnected(s) \/ CloseSession(s) \/ HandlerFails(s)
          PROVE  handler'[t] # "sending" \/ (handler[t] = "sending" /\ tx'[t] = tx[t])
      <3>1. (\A r \in Session : r # s => tx'[r] = tx[r])
        BY <2>2 DEF Connect, ConnectRefresh, DeliverBegin, Selects, DeliverRejected,
           Send, Heartbeat, RecordAck, RejectAck, RecordResult, ReplayResult,
           RejectResult, Disconnected, CloseSession, HandlerFails, TypeOK
      <3> QED
        BY <2>2, <3>1 DEF Connect, ConnectRefresh, DeliverBegin, DeliverRejected,
           Send, Heartbeat, RecordAck, RejectAck, RecordResult, ReplayResult,
           RejectResult, Disconnected, CloseSession, HandlerFails, TypeOK, Then
    <2>3. ASSUME NEW st, AgentReceives(st) \/ AgentAnswers(st) PROVE UNCHANGED gate
      BY <2>3 DEF AgentReceives, AgentAnswers
    <2> QED
      BY <1>2, <2>1, <2>2, <2>3
         DEF Next, Handler, Wired, vars, CreateOperation, CancelOperation,
             CreateModuleOperation, RevokeVersion, RequestCollection, DeadlinePasses,
             ExpireOperations, ExpireScheduled, ServerRestart, AgentResends,
             AgentLosesLink, gate
  <1>3. ASSUME NEW t \in Session PROVE (sess[t] = "unused" => handler[t] = "none")'
    <2>1. ASSUME NEW s \in Session, Connect(s) \/ CloseSession(s)
          PROVE  (sess[t] = "unused" => handler[t] = "none")'
      <3>1. sess \in [Session -> {"unused", "open", "closed"}]
            /\ handler = [u \in Session |-> handler[u]]
            /\ (sess[t] = "unused" => handler[t] = "none")
        BY <1>3 DEF TypeOK, Wired
      <3>2. CASE Connect(s)
        BY <3>1, <3>2 DEF Connect
      <3>3. CASE CloseSession(s)
        <4>1. handler[s] = "closing" /\ sess' = [sess EXCEPT ![s] = IF @ = "open" THEN "closed" ELSE @]
              /\ handler' = [handler EXCEPT ![s] = "done"]
          BY <3>3 DEF CloseSession, Then
        <4>2. CASE t = s
          BY <3>1, <4>1, <4>2
        <4>3. CASE t # s
          BY <3>1, <4>1, <4>3
        <4> QED BY <4>2, <4>3
      <3> QED BY <2>1, <3>2, <3>3
    <2>2. ASSUME NEW s \in Session,
                 \/ ConnectRefresh(s) \/ DeliverBegin(s) \/ DeliverRejected(s)
                 \/ DeliverCommit(s) \/ Send(s) \/ Heartbeat(s) \/ RecordAck(s) \/ RejectAck(s)
                 \/ RecordResult(s) \/ ReplayResult(s) \/ RejectResult(s)
                 \/ Disconnected(s) \/ HandlerFails(s)
          PROVE  sess' = sess /\ (handler[t] = "none" => handler'[t] = "none")
      <3>1. sess' = sess
        BY <2>2 DEF ConnectRefresh, DeliverBegin, DeliverRejected, DeliverCommit,
           Send, Heartbeat, RecordAck, RejectAck, RecordResult, ReplayResult, RejectResult,
           Disconnected, HandlerFails
      <3>2. handler[s] # "none"
        BY <2>2 DEF ConnectRefresh, DeliverBegin, DeliverRejected, DeliverCommit,
           Send, Heartbeat, RecordAck, RejectAck, RecordResult, ReplayResult, RejectResult,
           Disconnected, HandlerFails, Running, Receives
      <3>3. s # t => handler'[t] = handler[t]
        BY <2>2 DEF ConnectRefresh, DeliverBegin, DeliverRejected, DeliverCommit,
           Send, Heartbeat, RecordAck, RejectAck, RecordResult, ReplayResult, RejectResult,
           Disconnected, HandlerFails, Then, TypeOK
      <3> QED
        BY <3>1, <3>2, <3>3, Zenon
    <2>3. ASSUME NEW st, AgentReceives(st) \/ AgentAnswers(st) PROVE UNCHANGED gate
      BY <2>3 DEF AgentReceives, AgentAnswers
    <2>4. ASSUME \/ \E d \in Diag : CreateOperation(d) \/ CancelOperation(d)
                 \/ \E m \in Mod : CreateModuleOperation(m) \/ RevokeVersion(m)
                 \/ \E c \in Coll : RequestCollection(c)
                 \/ \E w \in Work : DeadlinePasses(w)
                 \/ ExpireOperations \/ ExpireScheduled
                 \/ AgentResends \/ AgentLosesLink \/ UNCHANGED vars
          PROVE  UNCHANGED gate
      BY <2>4 DEF CreateOperation, CancelOperation, CreateModuleOperation, RevokeVersion,
         RequestCollection, DeadlinePasses, ExpireOperations, ExpireScheduled,
         AgentResends, AgentLosesLink, vars, gate
    <2>5. ASSUME ServerRestart
          PROVE  sess' = sess /\ (handler[t] = "none" => handler'[t] = "none")
      BY <2>5 DEF ServerRestart
    <2>6. sess[t] = "unused" => handler[t] = "none"
      BY <1>3 DEF Wired
    <2>7. ASSUME UNCHANGED gate PROVE (sess[t] = "unused" => handler[t] = "none")'
      BY <2>6, <2>7 DEF gate
    <2> QED
      BY <2>1, <2>2, <2>3, <2>4, <2>5, <2>6, <2>7 DEF Next, Handler
  <1> QED
    BY <1>1, <1>2, <1>3 DEF Wired

\* Every variable keeps its type in every reachable state.
THEOREM TypeCorrect == Spec => []TypeOK
  <1>1. Init => Wired
    BY DEF Init, Wired
  <1> QED
    BY <1>1, InitType, NextType, NextWired, PTL DEF Spec

-----------------------------------------------------------------------------
(***************************************************************************)
(* Row locks.  LocksHold is inductive once it is known that no step other  *)
(* than the owner's commit touches the rows of locked work.                *)
(***************************************************************************)

\* The step leaves the rows of w as they are, unless w did not exist.
Undisturbed(w) ==
    /\ w \in Op => op[w] = "none" \/ op'[w] = op[w]
    /\ w \in Coll => col[w] = "none" \/ col'[w] = col[w]
    /\ \A u \in Cmd : WorkOf(u) = w => cmd'[u] = cmd[u]
    /\ \A u \in Step : u[1] = w => op[w] = "none" \/ step'[u] = step[u]

\* Every step but a delivery commit waits for, or passes over, locked rows.
LEMMA LockedUndisturbed ==
    ASSUME TypeOK, [Next]_vars, NEW w \in Work, ~Free(w),
           \A s \in Session : ~DeliverCommit(s)
    PROVE  Undisturbed(w)
  <1>1. ASSUME NEW d \in Diag, CreateOperation(d) PROVE Undisturbed(w)
    BY <1>1, KindsAssumption DEF CreateOperation, Undisturbed, TypeOK, Op
  <1>2. ASSUME NEW d \in Diag, CancelOperation(d) PROVE Undisturbed(w)
    BY <1>2, KindsAssumption DEF CancelOperation, Undisturbed, TypeOK, Op
  <1>3. ASSUME NEW m \in Mod, CreateModuleOperation(m) PROVE Undisturbed(w)
    BY <1>3 DEF CreateModuleOperation, Undisturbed, TypeOK, Op
  <1>4. ASSUME NEW c \in Coll, RequestCollection(c) PROVE Undisturbed(w)
    BY <1>4 DEF RequestCollection, Undisturbed, TypeOK
  <1>5. ASSUME ExpireOperations PROVE Undisturbed(w)
    BY <1>5 DEF ExpireOperations, ExpireRows, ExpiredOp, ExpiredStep, ExpiredCol,
       ExpiredCmd, Undisturbed
  <1>6. ASSUME ExpireScheduled PROVE Undisturbed(w)
    BY <1>6 DEF ExpireScheduled, ExpiredCol, Undisturbed
  <1>7. ASSUME NEW s \in Session, ConnectRefresh(s) PROVE Undisturbed(w)
    BY <1>7 DEF ConnectRefresh, ExpiredCol, ExpiredCmd, Undisturbed
  <1>8. ASSUME NEW s \in Session, RecordAck(s) PROVE Undisturbed(w)
    <2> DEFINE u == Head(up[s]).cmd
    <2>1. u \in Cmd
      BY <1>8, ReceivesType, FrameType DEF RecordAck
    <2>2. WorkOf(u) # w
      BY <1>8 DEF RecordAck
    <2>3. /\ \A o \in Op : o # WorkOf(u) => op'[o] = op[o]
          /\ \A x \in Diag \cup Coll : x # u \/ u \in Step => col'[x] = col[x]
          /\ \A v \in Cmd : v # u => cmd'[v] = cmd[v]
          /\ \A v \in Step : v # u => step'[v] = step[v]
      BY <1>8 DEF RecordAck, TypeOK
    <2> HIDE DEF u
    <2> QED
      BY <2>1, <2>2, <2>3, WorkOfType DEF Undisturbed, Cmd
  <1>9. ASSUME NEW s \in Session, RecordResult(s) PROVE Undisturbed(w)
    <2> DEFINE u == Head(up[s]).cmd
    <2>1. u \in Cmd
      BY <1>9, ReceivesType, FrameType DEF RecordResult
    <2>2. WorkOf(u) # w
      BY <1>9 DEF RecordResult
    <2>3. /\ \A o \in Op : o # WorkOf(u) => op'[o] = op[o]
          /\ \A x \in Diag \cup Coll : x # u \/ u \in Step => col'[x] = col[x]
          /\ \A v \in Cmd : v # u => cmd'[v] = cmd[v]
          /\ \A v \in Step : v # u => step'[v] = step[v]
      BY <1>9 DEF RecordResult, TypeOK
    <2> HIDE DEF u
    <2> QED
      BY <2>1, <2>2, <2>3, WorkOfType DEF Undisturbed, Cmd
  <1>10. ASSUME UNCHANGED <<op, col, cmd, step>> PROVE Undisturbed(w)
    BY <1>10 DEF Undisturbed
  <1>11. ASSUME NEW m \in Mod, RevokeVersion(m) PROVE UNCHANGED <<op, col, cmd, step>>
    BY <1>11 DEF RevokeVersion, rows
  <1>12. ASSUME NEW v \in Work, DeadlinePasses(v) PROVE UNCHANGED <<op, col, cmd, step>>
    BY <1>12 DEF DeadlinePasses, rows
  <1>13. ASSUME NEW s \in Session,
                \/ Connect(s) \/ DeliverBegin(s) \/ DeliverRejected(s) \/ Send(s)
                \/ Heartbeat(s) \/ RejectAck(s) \/ ReplayResult(s) \/ RejectResult(s)
                \/ Disconnected(s) \/ CloseSession(s) \/ HandlerFails(s)
         PROVE  UNCHANGED <<op, col, cmd, step>>
    BY <1>13 DEF Connect, DeliverBegin, DeliverRejected, Send, Heartbeat, RejectAck,
       ReplayResult, RejectResult, Disconnected, CloseSession, HandlerFails, rows
  <1>14. ASSUME NEW st, AgentReceives(st) \/ AgentAnswers(st)
         PROVE  UNCHANGED <<op, col, cmd, step>>
    BY <1>14 DEF AgentReceives, AgentAnswers, rows
  <1>15. ASSUME ServerRestart \/ AgentResends \/ AgentLosesLink \/ UNCHANGED vars
         PROVE  UNCHANGED <<op, col, cmd, step>>
    BY <1>15 DEF ServerRestart, AgentResends, AgentLosesLink, vars, rows
  <1> QED
    BY <1>1, <1>2, <1>3, <1>4, <1>5, <1>6, <1>7, <1>8, <1>9, <1>10, <1>11, <1>12,
       <1>13, <1>14, <1>15 DEF Next, Handler

\* A commit disturbs the rows it has locked and no others.
LEMMA CommitUndisturbed ==
    ASSUME TypeOK, LocksHold, NEW s \in Session, DeliverCommit(s),
           NEW w \in Work, w \notin tx[s].lock
    PROVE  Undisturbed(w)
  <1> DEFINE u == tx[s].pick
             E == tx[s].expire
  <1>1. u \in Cmd \cup {None} /\ w \notin E /\ (u # None => WorkOf(u) # w)
    BY DEF DeliverCommit, LocksHold, DecisionHolds, TypeOK
  <1>2. /\ \A o \in Op : o \notin E /\ (u # None => o # WorkOf(u)) => op'[o] = op[o]
        /\ \A x \in Diag \cup Coll : x \notin E /\ (u # None => x # u) => col'[x] = col[x]
        /\ \A v \in Cmd : WorkOf(v) \notin E /\ (u # None => v # u) => cmd'[v] = cmd[v]
        /\ \A v \in Step : v[1] \notin E /\ (u # None => v # u) => step'[v] = step[v]
    BY DEF DeliverCommit, ExpiredOp, ExpiredCol, ExpiredCmd, ExpiredStep
  <1> HIDE DEF u, E
  <1> QED
    BY <1>1, <1>2, WorkOfType, KindsAssumption DEF Undisturbed, Cmd, Work, Op

\* The decision of a transaction stays right while its locked rows are undisturbed.
LEMMA DecisionStable ==
    ASSUME TypeOK, NEW t \in Session, DecisionHolds(t), tx'[t] = tx[t],
           \A w \in tx[t].lock : Undisturbed(w)
    PROVE  DecisionHolds(t)'
  <1> DEFINE u == tx[t].pick
             E == tx[t].expire
  <1>0. u \in Cmd \cup {None} /\ E \subseteq tx[t].lock
    BY DEF TypeOK, DecisionHolds
  <1>1. \A o \in E \cap Diag : op'[o] \in Active
    BY <1>0 DEF DecisionHolds, Undisturbed, Op, Active, InFlight
  <1>2. ASSUME NEW v \in Step, v = u
        PROVE  op'[v[1]] \in Active /\ v \in NextSteps(v[1])'
    <2>1. v[1] \in tx[t].lock /\ v[1] \in Mod /\ op[v[1]] \in Active /\ v \in NextSteps(v[1])
      <3>1. v # None /\ v \in Cmd
        BY KindsAssumption DEF Cmd
      <3>2. WorkOf(v) = v[1] /\ v[1] \in Mod
        BY <3>1, WorkOfType
      <3> QED
        BY <1>2, <3>1, <3>2 DEF DecisionHolds
    <2>2. op'[v[1]] = op[v[1]] /\ \A r \in StepsOf(v[1]) : step'[r] = step[r]
      BY <2>1 DEF Undisturbed, Op, Active, InFlight, StepsOf, Step
    <2> QED
      BY <2>1, <2>2 DEF NextSteps, ActiveSteps
  <1>3. ASSUME u \in Diag PROVE op'[u] = op[u] /\ cmd'[u] = cmd[u]
    <2>1. WorkOf(u) = u /\ u \in tx[t].lock /\ u \in Cmd
      BY <1>3, KindsAssumption, WorkOfType DEF DecisionHolds, Cmd
    <2> QED
      BY <1>3, <2>1 DEF DecisionHolds, Undisturbed, Op
  <1>4. ASSUME u \in Coll PROVE col'[u] = col[u] /\ cmd'[u] = cmd[u]
    <2>1. WorkOf(u) = u /\ u \in tx[t].lock /\ u \in Cmd
      BY <1>4, KindsAssumption, WorkOfType DEF DecisionHolds, Cmd
    <2> QED
      BY <1>4, <2>1 DEF DecisionHolds, Undisturbed
  <1>5. tx'[t].pick \in Step => /\ op'[tx'[t].pick[1]] \in Active
                                /\ tx'[t].pick \in NextSteps(tx[t].pick[1])'
    BY <1>2
  <1> QED
    BY <1>1, <1>3, <1>4, <1>5 DEF DecisionHolds

\* What a new delivery transaction locks was free, and its decision is right.
LEMMA BeginDecides ==
    ASSUME TypeOK, NEW s \in Session, DeliverBegin(s)
    PROVE  /\ DecisionHolds(s)'
           /\ \A w \in tx'[s].lock : Free(w)
           /\ \A t \in Session : t # s => tx'[t] = tx[t]
           /\ handler' = [handler EXCEPT ![s] = "binding"]
           /\ UNCHANGED <<op, col, cmd, step>>
  <1>0. /\ handler' = [handler EXCEPT ![s] = "binding"]
        /\ UNCHANGED <<op, col, cmd, step>>
    BY DEF DeliverBegin, rows
  <1>1. /\ \A w \in OverdueColls : w \in Coll /\ Free(w)
        /\ \A w \in SelectedMods : w \in Mod /\ op[w] \in Active /\ Free(w)
        /\ \A w \in SelectedCols : w \in Diag \cup Coll /\ Free(w) /\ w \notin OverdueColls
                                     /\ col[w] \in {"requested", "delivered"}
    BY DEF DeliverBegin, OverdueColls, SelectedMods, SelectedCols
  <1>2. \A y \in Considered(s) : /\ y \in SelectedCols /\ cmd[y] \in {"none", "delivered"}
                                 /\ Lapsed(y) => y \in Op /\ op[y] \in Active
    BY DEF Considered, Lapsed, OverdueOps
  <1>3. ASSUME NEW m \in FirstOf(StoppingMods(s)), NEW u \in ModuleOffers(s, m),
               Selects(s, u, {}, {})
        PROVE  /\ DecisionHolds(s)'
               /\ \A w \in tx'[s].lock : Free(w)
               /\ \A t \in Session : t # s => tx'[t] = tx[t]
    <2>1. m \in SelectedMods /\ u \in NextSteps(m) /\ u \in Step /\ u[1] = m
      BY <1>3, <1>1 DEF FirstOf, StoppingMods, ModuleOffers, NextSteps, StepsOf, Step
    <2>2. /\ tx'[s] = [pick |-> u, expire |-> OverdueColls, lock |-> OverdueColls \cup SelectedMods]
          /\ \A t \in Session : t # s => tx'[t] = tx[t]
      BY <1>3 DEF Selects, TypeOK
    <2>3. WorkOf(u) = m /\ m \in Mod /\ op[m] \in Active
      BY <2>1, <1>1 DEF WorkOf
    <2>4. NextSteps(m)' = NextSteps(m)
      BY <1>0 DEF NextSteps, ActiveSteps
    <2>5. DecisionHolds(s)'
      BY <1>0, <1>1, <2>1, <2>2, <2>3, <2>4, KindsAssumption DEF DecisionHolds, Step
    <2> QED
      BY <1>1, <2>2, <2>5
  <1>4. ASSUME NEW x \in StoppingCols(s), ~CollectionRejects(x),
               NEW L \in SUBSET {y \in Considered(s) : Lapsed(y)},
               Selects(s, x, L, SelectedCols)
        PROVE  /\ DecisionHolds(s)'
               /\ \A w \in tx'[s].lock : Free(w)
               /\ \A t \in Session : t # s => tx'[t] = tx[t]
    <2>1. x \in Considered(s) /\ ~Lapsed(x)
      BY <1>4 DEF StoppingCols
    <2>2. /\ tx'[s] = [pick |-> x, expire |-> OverdueColls \cup L,
                       lock |-> OverdueColls \cup SelectedMods \cup SelectedCols]
          /\ \A t \in Session : t # s => tx'[t] = tx[t]
      BY <1>4 DEF Selects, TypeOK
    <2>3. WorkOf(x) = x /\ x \notin Step
      BY <2>1, <1>1, <1>2, KindsAssumption DEF WorkOf
    <2>4. x \in Diag => op[x] = IF cmd[x] = "none" THEN "queued" ELSE "delivered"
      BY <1>4, <2>1 DEF CollectionRejects
    <2>5. DecisionHolds(s)'
      BY <1>0, <1>1, <1>2, <2>1, <2>2, <2>3, <2>4, KindsAssumption DEF DecisionHolds, Op
    <2> QED
      BY <1>1, <2>2, <2>5
  <1>5. ASSUME Selects(s, None, {y \in Considered(s) : Lapsed(y)}, SelectedCols)
        PROVE  /\ DecisionHolds(s)'
               /\ \A w \in tx'[s].lock : Free(w)
               /\ \A t \in Session : t # s => tx'[t] = tx[t]
    <2> DEFINE L == {y \in Considered(s) : Lapsed(y)}
    <2>2. /\ tx'[s] = [pick |-> None, expire |-> OverdueColls \cup L,
                       lock |-> OverdueColls \cup SelectedMods \cup SelectedCols]
          /\ \A t \in Session : t # s => tx'[t] = tx[t]
      BY <1>5 DEF Selects, TypeOK
    <2>3. None \notin Step /\ None \notin Diag /\ None \notin Coll
      BY KindsAssumption DEF Cmd
    <2>5. DecisionHolds(s)'
      BY <1>0, <1>1, <1>2, <2>2, <2>3, KindsAssumption DEF DecisionHolds, Op
    <2> QED
      BY <1>1, <2>2, <2>5
  <1>6. FirstOf(StoppingCols(s)) \subseteq StoppingCols(s)
    BY DEF FirstOf
  <1> QED
    BY <1>0, <1>3, <1>4, <1>5, <1>6 DEF DeliverBegin

\* Every step keeps the locks.
LEMMA NextLocks == TypeOK /\ Wired /\ LocksHold /\ [Next]_vars => LocksHold'
  <1> SUFFICES ASSUME TypeOK, Wired, LocksHold, [Next]_vars PROVE LocksHold'
    OBVIOUS
  <1>1. CASE \E s \in Session : DeliverBegin(s)
    <2>1. PICK s \in Session : DeliverBegin(s)
      BY <1>1
    <2>2. /\ DecisionHolds(s)'
          /\ \A w \in tx'[s].lock : Free(w)
          /\ \A t \in Session : t # s => tx'[t] = tx[t]
          /\ handler' = [handler EXCEPT ![s] = "binding"]
          /\ UNCHANGED <<op, col, cmd, step>>
      BY <2>1, BeginDecides
    <2>3. \A t \in Session : t # s => (DecisionHolds(t) => DecisionHolds(t)')
      <3> SUFFICES ASSUME NEW t \in Session, t # s, DecisionHolds(t) PROVE DecisionHolds(t)'
        OBVIOUS
      <3>1. \A w : Undisturbed(w)
        BY <2>2 DEF Undisturbed
      <3> QED
        BY <2>2, <3>1, DecisionStable
    <2>4. /\ handler'[s] = "binding"
          /\ \A t \in Session : t # s => handler'[t] = handler[t]
      BY <2>2 DEF TypeOK
    <2>5. \A t \in Session : t # s => tx'[s].lock \cap tx'[t].lock = {}
      BY <2>2 DEF Free
    <2> QED
      BY <2>2, <2>3, <2>4, <2>5 DEF LocksHold
  <1>2. CASE \E s \in Session : DeliverCommit(s)
    <2>1. PICK s \in Session : DeliverCommit(s)
      BY <1>2
    <2>2. /\ \A t \in Session : t # s => tx'[t] = tx[t] /\ handler'[t] = handler[t]
          /\ tx'[s].lock = {} /\ handler'[s] # "binding"
      BY <2>1 DEF DeliverCommit, TypeOK, NoTx
    <2>3. ASSUME NEW t \in Session, t # s, DecisionHolds(t) PROVE DecisionHolds(t)'
      <3>1. \A w \in tx[t].lock : w \in Work /\ w \notin tx[s].lock
        BY <2>3 DEF LocksHold, TypeOK
      <3>2. \A w \in tx[t].lock : Undisturbed(w)
        BY <2>1, <3>1, CommitUndisturbed
      <3> QED
        BY <2>2, <2>3, <3>2, DecisionStable
    <2> QED
      BY <2>2, <2>3 DEF LocksHold
  <1>3. CASE \A s \in Session : ~DeliverBegin(s) /\ ~DeliverCommit(s)
    <2>1. ASSUME NEW t \in Session
          PROVE  \/ tx'[t].lock = {} /\ handler'[t] # "binding"
                 \/ tx'[t] = tx[t] /\ (handler'[t] = "binding" <=> handler[t] = "binding")
      <3>1. ASSUME NEW s \in Session,
                   \/ Connect(s) \/ ConnectRefresh(s) \/ DeliverRejected(s)
                   \/ Heartbeat(s) \/ RecordAck(s) \/ RejectAck(s)
                   \/ RecordResult(s) \/ ReplayResult(s) \/ RejectResult(s)
                   \/ Disconnected(s) \/ CloseSession(s)
            PROVE  tx' = tx /\ (handler'[t] = "binding" <=> handler[t] = "binding")
        BY <3>1 DEF Connect, ConnectRefresh, DeliverRejected, Heartbeat, RecordAck, RejectAck,
           RecordResult, ReplayResult, RejectResult, Disconnected, CloseSession, Receives,
           Then, TypeOK, Wired
      <3>2. ASSUME NEW s \in Session, Send(s) \/ HandlerFails(s)
            PROVE  IF s = t THEN tx'[t].lock = {} /\ handler'[t] # "binding"
                            ELSE tx'[t] = tx[t] /\ handler'[t] = handler[t]
        BY <3>2 DEF Send, HandlerFails, Then, NoTx, TypeOK
      <3>3. ASSUME ServerRestart PROVE tx'[t].lock = {} /\ handler'[t] # "binding"
        BY <3>3 DEF ServerRestart, NoTx
      <3>4. ASSUME NEW st, AgentReceives(st) \/ AgentAnswers(st) PROVE UNCHANGED <<tx, handler>>
        BY <3>4 DEF AgentReceives, AgentAnswers, gate
      <3>5. ASSUME \/ \E d \in Diag : CreateOperation(d) \/ CancelOperation(d)
                   \/ \E m \in Mod : CreateModuleOperation(m) \/ RevokeVersion(m)
                   \/ \E c \in Coll : RequestCollection(c)
                   \/ \E w \in Work : DeadlinePasses(w)
                   \/ ExpireOperations \/ ExpireScheduled
                   \/ AgentResends \/ AgentLosesLink \/ UNCHANGED vars
            PROVE  UNCHANGED <<tx, handler>>
        BY <3>5 DEF CreateOperation, CancelOperation, CreateModuleOperation, RevokeVersion,
           RequestCollection, DeadlinePasses, ExpireOperations, ExpireScheduled,
           AgentResends, AgentLosesLink, vars, gate
      <3> QED
        BY <1>3, <3>1, <3>2, <3>3, <3>4, <3>5 DEF Next, Handler
    <2>2. ASSUME NEW t \in Session, DecisionHolds(t), tx'[t] = tx[t] PROVE DecisionHolds(t)'
      <3>1. \A w \in tx[t].lock : w \in Work /\ ~Free(w)
        BY DEF TypeOK, Free
      <3>2. \A w \in tx[t].lock : Undisturbed(w)
        BY <1>3, <3>1, LockedUndisturbed
      <3> QED
        BY <2>2, <3>2, DecisionStable
    <2>3. /\ \A s \in Session : handler'[s] # "binding" => tx'[s].lock = {}
          /\ \A s, t \in Session : s # t => tx'[s].lock \cap tx'[t].lock = {}
      BY <2>1 DEF LocksHold
    <2> QED
      BY <2>1, <2>2, <2>3 DEF LocksHold
  <1> QED
    BY <1>1, <1>2, <1>3

\* No row is locked by two deliveries, and what a delivery transaction decided
\* when it selected still holds when it commits.
THEOREM LocksCorrect == Spec => []LocksHold
  <1>1. Init => Wired /\ LocksHold
    BY DEF Init, Wired, LocksHold, NoTx
  <1> QED
    BY <1>1, InitType, NextType, NextWired, NextLocks, PTL DEF Spec

-----------------------------------------------------------------------------
(***************************************************************************)
(* The end of an operation.                                                *)
(***************************************************************************)

\* What a step may do to an operation: nothing, move it on, or end it with one
\* audit event and with evidence exactly for a success.
Moves(o) ==
    \/ op'[o] = op[o] /\ audit'[o] = audit[o] /\ (o \in evid' <=> o \in evid)
    \/ /\ op[o] \notin Terminal
       /\ IF op'[o] \in Terminal
            THEN audit'[o] = audit[o] + 1 /\ (o \in evid' <=> o \in evid \/ op'[o] = "succeeded")
            ELSE audit'[o] = audit[o] /\ (o \in evid' <=> o \in evid)

\* The expiry of work that is active moves every operation properly.
LEMMA ExpiryMoves ==
    ASSUME TypeOK, NEW E, NEW o \in Op, o \in E => op[o] \in Active,
           op'[o] = ExpiredOp(E)[o], audit' = ExpiryAudit(E), evid' = evid
    PROVE  Moves(o)
  BY DEF TypeOK, ExpiredOp, ExpiryAudit, Moves, Active, InFlight, Terminal

\* Every step moves every operation properly.
LEMMA NextMoves ==
    ASSUME TypeOK, LocksHold, [Next]_vars, NEW o \in Op
    PROVE  Moves(o)
  <1>1. ASSUME NEW d \in Diag, CreateOperation(d) PROVE Moves(o)
    BY <1>1 DEF CreateOperation, Moves, TypeOK, Terminal, Op
  <1>2. ASSUME NEW d \in Diag, CancelOperation(d) PROVE Moves(o)
    BY <1>2 DEF CancelOperation, Cancelable, Moves, TypeOK, Terminal, Op
  <1>3. ASSUME NEW m \in Mod, CreateModuleOperation(m) PROVE Moves(o)
    BY <1>3 DEF CreateModuleOperation, Moves, TypeOK, Terminal, Op
  <1>4. ASSUME ExpireOperations PROVE Moves(o)
    <2> DEFINE E == {q \in OverdueOps : Free(q)}
    <2>1. o \in E => op[o] \in Active
      BY DEF OverdueOps
    <2>2. op' = ExpiredOp(E) /\ audit' = ExpiryAudit(E) /\ evid' = evid
      BY <1>4 DEF ExpireOperations, ExpireRows
    <2> HIDE DEF E
    <2> QED
      BY <2>1, <2>2, ExpiryMoves
  <1>5. ASSUME NEW s \in Session, DeliverCommit(s) PROVE Moves(o)
    <2> DEFINE u == tx[s].pick
               E == tx[s].expire
    <2>1. DecisionHolds(s) /\ u \in Cmd \cup {None}
      BY <1>5 DEF DeliverCommit, LocksHold, TypeOK
    <2>2. o \in E => op[o] \in Active
      BY <2>1, KindsAssumption DEF DecisionHolds, Op
    <2>3. audit' = ExpiryAudit(E) /\ evid' = evid
      BY <1>5 DEF DeliverCommit
    <2>4. CASE u # None /\ cmd[u] = "none" /\ o = WorkOf(u)
      <3>1. op'[o] = "delivered"
        BY <1>5, <2>4 DEF DeliverCommit
      <3>2. o \notin E /\ op[o] \in Active
        <4>1. o \notin E
          BY <2>1, <2>4 DEF DecisionHolds
        <4>2. CASE u \in Step
          BY <2>1, <2>4, <4>2 DEF DecisionHolds, WorkOf
        <4>3. CASE u \in Diag
          BY <2>1, <2>4, <4>3, KindsAssumption DEF DecisionHolds, WorkOf, Active, InFlight
        <4>4. CASE u \in Coll
          BY <2>4, <4>4, KindsAssumption DEF WorkOf, Op
        <4> QED
          BY <2>1, <2>4, <4>1, <4>2, <4>3, <4>4 DEF Cmd
      <3>3. audit'[o] = audit[o]
        BY <2>3, <3>2 DEF ExpiryAudit
      <3> QED
        BY <2>3, <3>1, <3>2, <3>3 DEF Moves, Active, InFlight, Terminal
    <2>5. CASE ~(u # None /\ cmd[u] = "none" /\ o = WorkOf(u))
      <3>1. op'[o] = ExpiredOp(E)[o]
        BY <1>5, <2>5 DEF DeliverCommit
      <3> HIDE DEF E
      <3> QED
        BY <2>2, <2>3, <3>1, ExpiryMoves
    <2> QED
      BY <2>4, <2>5
  <1>6. ASSUME NEW s \in Session, RecordAck(s) PROVE Moves(o)
    <2> DEFINE f == Head(up[s])
               u == f.cmd
    <2>1. u \in Cmd /\ f.status \in InFlight
      BY <1>6, ReceivesType, FrameType, ProtocolAssumption DEF RecordAck, InFlight
    <2>2. audit' = audit /\ evid' = evid
      BY <1>6 DEF RecordAck
    <2>3. op'[o] = op[o] \/ (o = WorkOf(u) /\ Live(u) /\ op'[o] = Advance(op[o], f.status))
      BY <1>6 DEF RecordAck, TypeOK
    <2> HIDE DEF u, f
    <2>4. o = WorkOf(u) /\ Live(u) => op[o] \in InFlight
      BY <2>1, WorkOfType, KindsAssumption DEF Live, Op, Cmd
    <2> QED
      BY <2>1, <2>2, <2>3, <2>4 DEF Moves, Advance, InFlight, Terminal
  <1>7. ASSUME NEW s \in Session, RecordResult(s) PROVE Moves(o)
    <2> DEFINE f == Head(up[s])
               u == f.cmd
               out == Outcome(u, f.status)
    <2>1. u \in Cmd /\ f.status \in Terminal
      BY <1>7, ReceivesType, FrameType, ProtocolAssumption DEF RecordResult
    <2>2. out \in Terminal \cup {"running"}
      BY <2>1 DEF Outcome
    <2>3. CASE o # WorkOf(u)
      BY <1>7, <2>3 DEF RecordResult, TypeOK, Moves
    <2>4. CASE o = WorkOf(u)
      <3>1. op[o] \in InFlight
        <4>1. Acceptable(s, u)
          BY <1>7 DEF RecordResult
        <4> HIDE DEF u
        <4> QED
          BY <2>1, <2>4, <4>1, WorkOfType, KindsAssumption DEF Acceptable, Live, Op, Cmd
      <3>2. op'[o] = out
        BY <1>7, <2>4 DEF RecordResult, TypeOK
      <3>3. audit'[o] = IF out # "running" THEN audit[o] + 1 ELSE audit[o]
        BY <1>7, <2>4 DEF RecordResult, TypeOK
      <3>4. o \in evid' <=> o \in evid \/ out = "succeeded"
        BY <1>7, <2>4 DEF RecordResult
      <3> HIDE DEF out
      <3> QED
        BY <2>2, <3>1, <3>2, <3>3, <3>4 DEF Moves, InFlight, Terminal
    <2> QED
      BY <2>3, <2>4
  <1>8. ASSUME UNCHANGED <<op, audit, evid>> PROVE Moves(o)
    BY <1>8 DEF Moves
  <1>9. ASSUME NEW s \in Session,
               \/ Connect(s) \/ ConnectRefresh(s) \/ DeliverBegin(s) \/ DeliverRejected(s)
               \/ Send(s) \/ Heartbeat(s) \/ RejectAck(s) \/ ReplayResult(s)
               \/ RejectResult(s) \/ Disconnected(s) \/ CloseSession(s) \/ HandlerFails(s)
        PROVE  UNCHANGED <<op, audit, evid>>
    BY <1>9 DEF Connect, ConnectRefresh, DeliverBegin, DeliverRejected, Send, Heartbeat,
       RejectAck, ReplayResult, RejectResult, Disconnected, CloseSession, HandlerFails, rows
  <1>10. ASSUME NEW st, AgentReceives(st) \/ AgentAnswers(st)
         PROVE  UNCHANGED <<op, audit, evid>>
    BY <1>10 DEF AgentReceives, AgentAnswers, rows
  <1>11. ASSUME \/ \E m \in Mod : RevokeVersion(m)
                \/ \E c \in Coll : RequestCollection(c)
                \/ \E w \in Work : DeadlinePasses(w)
                \/ ExpireScheduled \/ ServerRestart
                \/ AgentResends \/ AgentLosesLink \/ UNCHANGED vars
         PROVE  UNCHANGED <<op, audit, evid>>
    BY <1>11 DEF RevokeVersion, RequestCollection, DeadlinePasses, ExpireScheduled,
       ServerRestart, AgentResends, AgentLosesLink, vars, rows
  <1> QED
    BY <1>1, <1>2, <1>3, <1>4, <1>5, <1>6, <1>7, <1>8, <1>9, <1>10, <1>11 DEF Next, Handler

\* An operation has exactly one terminal audit event once it has ended and none
\* before, and evidence exactly if it succeeded, whichever of result, cancellation
\* and the two expiry paths ends it.
THEOREM EndsOnce == Spec => []TerminalOnce
  <1>1. Init => Wired /\ LocksHold /\ TerminalOnce
    BY DEF Init, Wired, LocksHold, NoTx, TerminalOnce, Terminal
  <1>2. TypeOK /\ LocksHold /\ TerminalOnce /\ [Next]_vars => TerminalOnce'
    <2> SUFFICES ASSUME TypeOK, LocksHold, TerminalOnce, [Next]_vars, NEW o \in Op
                 PROVE  /\ audit'[o] = IF op'[o] \in Terminal THEN 1 ELSE 0
                        /\ o \in evid' <=> op'[o] = "succeeded"
      BY DEF TerminalOnce
    <2> QED
      BY NextMoves DEF TerminalOnce, Moves, Terminal
  <1> QED
    BY <1>1, <1>2, InitType, NextType, NextWired, NextLocks, PTL DEF Spec

\* No late acknowledgement, result or expiry changes an operation that has ended.
THEOREM EndIsFinal == Spec => TerminalFinal
  <1>1. Init => Wired /\ LocksHold
    BY DEF Init, Wired, LocksHold, NoTx
  <1>2. TypeOK /\ LocksHold /\ [Next]_vars =>
          [\A o \in Op : op[o] \in Terminal => op'[o] = op[o]]_vars
    BY NextMoves DEF Moves
  <1> QED
    BY <1>1, <1>2, InitType, NextType, NextWired, NextLocks, PTL DEF Spec, TerminalFinal

-----------------------------------------------------------------------------
(***************************************************************************)
(* The rows of operations.  Every step of the specification is, for the    *)
(* rows of one operation w, one of a handful of effects.  The invariant    *)
(* OperationRows is then shown to survive each effect.                     *)
(***************************************************************************)

\* The rows of command u as they were; a delivery keeps having an owner.
KeepsCmd(u) ==
    /\ cmd'[u] = cmd[u] /\ stored'[u] = stored[u]
    /\ own[u] # None => own'[u] # None
    /\ u \in Step => step'[u] = step[u]

KeepsOthers(u) == \A v \in Cmd : WorkOf(v) = WorkOf(u) /\ v # u => KeepsCmd(v)

Keeps(w) ==
    /\ op'[w] = op[w]
    /\ w \in Diag => col'[w] = col[w]
    /\ \A u \in Cmd : WorkOf(u) = w => KeepsCmd(u)

Expires(w) ==
    /\ op[w] \in Active
    /\ op'[w] = "expired"
    /\ w \in Diag => col'[w] = IF col[w] \in {"completed", "failed"} THEN col[w] ELSE "expired"
    /\ \A u \in Cmd : WorkOf(u) = w =>
         /\ cmd'[u] = IF cmd[u] \in InFlight THEN "expired" ELSE cmd[u]
         /\ stored'[u] = stored[u]
         /\ u \in Step => step'[u] = IF step[u] \in Terminal THEN step[u] ELSE "expired"

Delivers(u) ==
    /\ cmd[u] = "none" /\ cmd'[u] = "delivered"
    /\ own'[u] # None /\ stored'[u] = stored[u]
    /\ u \in Diag => op[u] = "queued" /\ col'[u] = "delivered"
    /\ u \in Step => /\ op[WorkOf(u)] \in Active /\ u \in NextSteps(u[1])
                     /\ step'[u] = "delivered"
    /\ op'[WorkOf(u)] = "delivered"
    /\ KeepsOthers(u)

Acks(u, status) ==
    /\ status \in {"acknowledged", "running"} /\ Live(u)
    /\ own'[u] = own[u] /\ stored'[u] = stored[u]
    /\ cmd'[u] = Advance(cmd[u], status)
    /\ u \in Diag => col'[u] = "collecting"
    /\ u \in Step => step'[u] = IF cmd[u] = "running" /\ status # "running"
                                  THEN step[u] ELSE status
    /\ op'[WorkOf(u)] = Advance(op[WorkOf(u)], status)
    /\ KeepsOthers(u)

Results(u, status) ==
    /\ status \in Terminal /\ Live(u) /\ stored[u] = None
    /\ stored'[u] # None /\ stored'[u].status = status
    /\ cmd'[u] = status
    /\ u \in Diag => col'[u] = CollectionOutcome(status)
    /\ u \in Step => step'[u] = status
    /\ op'[WorkOf(u)] = Outcome(u, status)
    /\ KeepsOthers(u)

\* The effects a step can have on the rows of operation w.
Effect(w) ==
    \/ Keeps(w)
    \/ w \in Diag /\ (CreateOperation(w) \/ CancelOperation(w))
    \/ w \in Mod /\ CreateModuleOperation(w)
    \/ Expires(w)
    \/ \E u \in Diag \cup Step : /\ WorkOf(u) = w
                                 /\ \/ Delivers(u)
                                    \/ \E status \in AckStatus : Acks(u, status)
                                    \/ \E status \in Terminal : Results(u, status)

\* An operation's commands are no plain collection's.
LEMMA OperationCmds ==
    ASSUME NEW w \in Op, NEW u \in Cmd, WorkOf(u) = w
    PROVE  /\ u \in Diag \cup Step /\ u \notin Coll
           /\ w \in Diag => u = w /\ u \notin Step
           /\ w \in Mod => u \in Step /\ u[1] = w /\ u \notin Diag
           /\ u \in Step => w \in Mod /\ u[1] = w /\ w \notin Diag
           /\ u \notin Step => u = w /\ u \in Diag
  BY WorkOfType, KindsAssumption DEF Op, Cmd

\* An acknowledgement acts on the operation of its command and on no other.
LEMMA AckEffect ==
    ASSUME TypeOK, NEW s \in Session, RecordAck(s), NEW w \in Op
    PROVE  Effect(w) /\ (w # WorkOf(Head(up[s]).cmd) => Keeps(w))
  <1> DEFINE f == Head(up[s])
             u == f.cmd
  <1>1. u \in Cmd /\ f.status \in AckStatus
    BY ReceivesType, FrameType DEF RecordAck
  <1>2. f.status \in {"acknowledged", "running"}
    BY <1>1, ProtocolAssumption
  <1>3. own' = own /\ stored' = stored
    BY DEF RecordAck
  <1>4. /\ \A o \in Op : o # WorkOf(u) => op'[o] = op[o]
        /\ \A x \in Diag : x # u => col'[x] = col[x]
        /\ \A v \in Cmd : v # u => cmd'[v] = cmd[v]
        /\ \A v \in Step : v # u => step'[v] = step[v]
    BY DEF RecordAck, TypeOK
  <1>5. \/ UNCHANGED <<cmd, step, op, col>>
        \/ /\ Live(u)
           /\ cmd'[u] = Advance(cmd[u], f.status)
           /\ u \in Step => step'[u] = IF cmd[u] = "running" /\ f.status # "running"
                                          THEN step[u] ELSE f.status
           /\ WorkOf(u) \in Op => op'[WorkOf(u)] = Advance(op[WorkOf(u)], f.status)
           /\ u \notin Step => col'[u] = "collecting"
    <2>1. ASSUME Live(u), f.status \in {"acknowledged", "running"},
                 cmd' = IF cmd[u] # "running" \/ f.status = "running"
                          THEN [cmd EXCEPT ![u] = f.status] ELSE cmd
          PROVE  cmd'[u] = Advance(cmd[u], f.status)
      BY <2>1, <1>1 DEF Advance, TypeOK
    <2> QED
      BY <1>1, <1>2, <2>1, WorkOfType DEF RecordAck, TypeOK, Cmd
  <1> HIDE DEF u, f
  <1>6. CASE w # WorkOf(u)
    <2>1. w \in Diag => w # u
      BY <1>1, <1>6, WorkOfType, KindsAssumption
    <2>2. Keeps(w)
      BY <1>3, <1>4, <1>6, <2>1 DEF Keeps, KeepsCmd
    <2> QED
      BY <1>6, <2>2 DEF Effect, u, f
  <1>7. CASE w = WorkOf(u)
    <2>1. u \in Diag \cup Step /\ KeepsOthers(u)
      BY <1>1, <1>3, <1>4, <1>7, OperationCmds DEF KeepsOthers, KeepsCmd
    <2>2. CASE UNCHANGED <<cmd, step, op, col>>
      BY <1>3, <1>7, <2>2 DEF Effect, Keeps, KeepsCmd, u, f
    <2>3. CASE ~UNCHANGED <<cmd, step, op, col>>
      <3>1. Acks(u, f.status)
        BY <1>1, <1>2, <1>3, <1>5, <1>7, <2>1, <2>3, OperationCmds DEF Acks
      <3> QED
        BY <1>1, <1>7, <2>1, <3>1 DEF Effect, u, f
    <2> QED
      BY <2>2, <2>3
  <1> QED
    BY <1>6, <1>7 DEF u, f

\* A first result acts on the operation of its command and on no other.
LEMMA ResultEffect ==
    ASSUME TypeOK, NEW s \in Session, RecordResult(s), NEW w \in Op
    PROVE  Effect(w) /\ (w # WorkOf(Head(up[s]).cmd) => Keeps(w))
  <1> DEFINE f == Head(up[s])
             u == f.cmd
             r == [status |-> f.status, run |-> f.run]
  <1>1. u \in Cmd /\ f.status \in Terminal /\ f.run \in Session
    BY ReceivesType, FrameType, ProtocolAssumption DEF RecordResult
  <1>2. own' = own /\ stored[u] = None /\ Acceptable(s, u)
    BY DEF RecordResult
  <1>3. stored'[u] = r /\ \A v \in Cmd : v # u => stored'[v] = stored[v]
    BY <1>1 DEF RecordResult, TypeOK
  <1>4. r # None /\ r.status = f.status
    BY <1>1, KindsAssumption
  <1>5. /\ \A o \in Op : o # WorkOf(u) => op'[o] = op[o]
        /\ \A x \in Diag : x # u => col'[x] = col[x]
        /\ \A v \in Cmd : v # u => cmd'[v] = cmd[v]
        /\ \A v \in Step : v # u => step'[v] = step[v]
    BY DEF RecordResult, TypeOK
  <1>6. /\ cmd'[u] = f.status
        /\ u \in Step => step'[u] = f.status
        /\ WorkOf(u) \in Op => op'[WorkOf(u)] = Outcome(u, f.status)
        /\ u \in Diag /\ u \notin Step => col'[u] = CollectionOutcome(f.status)
    BY <1>1 DEF RecordResult, TypeOK
  <1> HIDE DEF u, f, r
  <1>7. CASE w # WorkOf(u)
    <2>1. w \in Diag => w # u
      BY <1>1, <1>7, WorkOfType, KindsAssumption
    <2>2. Keeps(w)
      BY <1>2, <1>3, <1>5, <1>7, <2>1 DEF Keeps, KeepsCmd
    <2> QED
      BY <1>7, <2>2 DEF Effect, u, f
  <1>8. CASE w = WorkOf(u)
    <2>1. u \in Diag \cup Step /\ KeepsOthers(u)
      BY <1>1, <1>2, <1>3, <1>5, <1>8, OperationCmds DEF KeepsOthers, KeepsCmd
    <2>2. Live(u)
      BY <1>1, <1>2, <1>8, OperationCmds DEF Acceptable
    <2>3. Results(u, f.status)
      BY <1>1, <1>2, <1>3, <1>4, <1>6, <1>8, <2>1, <2>2, OperationCmds DEF Results
    <2> QED
      BY <1>1, <1>8, <2>1, <2>3 DEF Effect, u, f
  <1> QED
    BY <1>7, <1>8

\* The worker's expiry ends active operations and leaves the others alone.
LEMMA ExpiryEffect ==
    ASSUME TypeOK, ExpireOperations, NEW w \in Op
    PROVE  Keeps(w) \/ Expires(w)
  <1> DEFINE E == {o \in OverdueOps : Free(o)}
  <1>1. w \in E => op[w] \in Active
    BY DEF OverdueOps
  <1>2. /\ op' = ExpiredOp(E) /\ step' = ExpiredStep(E) /\ col' = ExpiredCol(E)
        /\ cmd' = ExpiredCmd(E) /\ own' = own /\ stored' = stored
    BY DEF ExpireOperations, ExpireRows
  <1> HIDE DEF E
  <1>3. CASE w \in E
    <2>1. /\ op'[w] = "expired"
          /\ w \in Diag => col'[w] = IF col[w] \in {"completed", "failed"} THEN col[w] ELSE "expired"
          /\ \A u \in Cmd : WorkOf(u) = w =>
               cmd'[u] = IF cmd[u] \in InFlight THEN "expired" ELSE cmd[u]
          /\ \A u \in Step : u[1] = w =>
               step'[u] = IF step[u] \in Terminal THEN step[u] ELSE "expired"
      BY <1>2, <1>3 DEF ExpiredOp, ExpiredStep, ExpiredCol, ExpiredCmd, TypeOK
    <2> QED
      BY <1>1, <1>2, <1>3, <2>1, OperationCmds DEF Expires
  <1>4. CASE w \notin E
    <2>1. /\ op'[w] = op[w]
          /\ w \in Diag => col'[w] = col[w]
          /\ \A u \in Cmd : WorkOf(u) = w => cmd'[u] = cmd[u]
          /\ \A u \in Step : u[1] = w => step'[u] = step[u]
      BY <1>2, <1>4 DEF ExpiredOp, ExpiredStep, ExpiredCol, ExpiredCmd
    <2> QED
      BY <1>2, <2>1, OperationCmds DEF Keeps, KeepsCmd
  <1> QED
    BY <1>3, <1>4

\* A delivery commit delivers one command, expires what it met on the way, and
\* leaves every other operation alone.
LEMMA CommitEffect ==
    ASSUME TypeOK, LocksHold, NEW s \in Session, DeliverCommit(s), NEW w \in Op
    PROVE  \/ Keeps(w) \/ Expires(w)
           \/ tx[s].pick \in Diag \cup Step /\ WorkOf(tx[s].pick) = w /\ Delivers(tx[s].pick)
  <1> DEFINE u == tx[s].pick
             E == tx[s].expire
             new == u # None /\ cmd[u] = "none"
  <1>1. DecisionHolds(s) /\ u \in Cmd \cup {None}
    BY DEF DeliverCommit, LocksHold, TypeOK
  <1>2. /\ \A o \in Op : op'[o] = IF new /\ o = WorkOf(u) THEN "delivered" ELSE ExpiredOp(E)[o]
        /\ \A v \in Step : step'[v] = IF new /\ v = u THEN "delivered" ELSE ExpiredStep(E)[v]
        /\ \A x \in Diag : col'[x] = IF new /\ x = u THEN "delivered" ELSE ExpiredCol(E)[x]
        /\ \A v \in Cmd : cmd'[v] = IF new /\ v = u THEN "delivered" ELSE ExpiredCmd(E)[v]
        /\ stored' = stored
    BY DEF DeliverCommit
  <1>3. /\ u # None => own'[u] # None
        /\ \A v \in Cmd : own[v] # None => own'[v] # None
    BY <1>1, KindsAssumption DEF DeliverCommit, TakesOver, TypeOK
  <1>4. /\ w \in E => op[w] \in Active /\ w \in Diag
        /\ u # None => WorkOf(u) \notin E
    BY <1>1, KindsAssumption DEF DecisionHolds, Op
  <1>5. /\ ExpiredOp(E)[w] = IF w \in E THEN "expired" ELSE op[w]
        /\ w \in Diag => ExpiredCol(E)[w] =
             IF w \notin E \/ col[w] \in {"completed", "failed"} THEN col[w] ELSE "expired"
        /\ \A v \in Cmd : WorkOf(v) = w =>
             ExpiredCmd(E)[v] = IF w \in E /\ cmd[v] \in InFlight THEN "expired" ELSE cmd[v]
        /\ \A v \in Step : v[1] = w =>
             ExpiredStep(E)[v] = IF w \in E /\ step[v] \notin Terminal THEN "expired" ELSE step[v]
    BY DEF ExpiredOp, ExpiredCol, ExpiredCmd, ExpiredStep
  <1>6. u \in Diag /\ cmd[u] = "none" => op[u] = "queued"
    BY <1>1 DEF DecisionHolds
  <1>7. u \in Step => op[u[1]] \in Active /\ u \in NextSteps(u[1])
    BY <1>1 DEF DecisionHolds
  <1> HIDE DEF u, E
  <1>8. CASE w \in E
    <2>1. u # None => WorkOf(u) # w
      BY <1>4, <1>8
    <2>2. \A v \in Cmd : WorkOf(v) = w => ~(new /\ v = u) /\ v = w /\ v \notin Step
      BY <2>1, <1>4, <1>8, OperationCmds
    <2>3. op'[w] = "expired" /\ op[w] \in Active
      BY <1>2, <1>4, <1>5, <1>8, <2>1
    <2>4. w \in Diag /\ w \in Cmd /\ WorkOf(w) = w
      BY <1>4, <1>8, KindsAssumption DEF Cmd, WorkOf
    <2>5. col'[w] = IF col[w] \in {"completed", "failed"} THEN col[w] ELSE "expired"
      BY <1>2, <1>5, <1>8, <2>2, <2>4
    <2>6. \A v \in Cmd : WorkOf(v) = w =>
             cmd'[v] = IF cmd[v] \in InFlight THEN "expired" ELSE cmd[v]
      BY <1>2, <1>5, <1>8, <2>2
    <2> QED
      BY <1>2, <2>2, <2>3, <2>5, <2>6 DEF Expires
  <1>9. CASE w \notin E /\ ~(new /\ WorkOf(u) = w)
    <2>1. op'[w] = op[w]
      BY <1>2, <1>5, <1>9
    <2>2. \A v \in Cmd : WorkOf(v) = w => ~(new /\ v = u)
      BY <1>9
    <2>3. w \in Diag => w \in Cmd /\ WorkOf(w) = w
      BY KindsAssumption DEF Cmd, WorkOf
    <2>4. w \in Diag => col'[w] = col[w]
      BY <1>2, <1>5, <1>9, <2>2, <2>3
    <2>5. \A v \in Cmd : WorkOf(v) = w => cmd'[v] = cmd[v] /\ (v \in Step => step'[v] = step[v])
      BY <1>2, <1>5, <1>9, <2>2, OperationCmds
    <2> QED
      BY <1>2, <1>3, <2>1, <2>4, <2>5 DEF Keeps, KeepsCmd
  <1>10. CASE w \notin E /\ new /\ WorkOf(u) = w
    <2>1. u \in Cmd /\ u \in Diag \cup Step
      BY <1>1, <1>10, OperationCmds DEF u
    <2>2. op'[w] = "delivered" /\ cmd'[u] = "delivered"
      BY <1>2, <1>10, <2>1
    <2>3. /\ u \in Diag => op[u] = "queued" /\ col'[u] = "delivered"
          /\ u \in Step => op[w] \in Active /\ u \in NextSteps(u[1]) /\ step'[u] = "delivered"
      BY <1>2, <1>6, <1>7, <1>10, <2>1, OperationCmds
    <2>4. KeepsOthers(u)
      <3> SUFFICES ASSUME NEW v \in Cmd, WorkOf(v) = w, v # u PROVE KeepsCmd(v)
        BY <1>10 DEF KeepsOthers
      <3>1. cmd'[v] = cmd[v] /\ (v \in Step => step'[v] = step[v])
        BY <1>2, <1>5, <1>10, OperationCmds
      <3> QED
        BY <1>2, <1>3, <3>1 DEF KeepsCmd
    <2>5. Delivers(u)
      BY <1>2, <1>3, <1>10, <2>2, <2>3, <2>4 DEF Delivers
    <2> QED
      BY <1>10, <2>1, <2>5 DEF u
  <1> QED
    BY <1>8, <1>9, <1>10

\* A step that neither requests, cancels nor expires operations, delivers or answers
\* leaves the rows of every operation alone.
LEMMA OtherwiseKeeps ==
    ASSUME TypeOK, [Next]_vars, NEW w \in Op,
           ~ \E d \in Diag : w = d /\ (CreateOperation(d) \/ CancelOperation(d)),
           ~ \E m \in Mod : w = m /\ CreateModuleOperation(m),
           ~ ExpireOperations,
           ~ \E s \in Session : DeliverCommit(s) \/ RecordAck(s) \/ RecordResult(s)
    PROVE  Keeps(w)
  <1> DEFINE Same == /\ op'[w] = op[w]
                     /\ w \in Diag => col'[w] = col[w]
                     /\ \A u \in Cmd : WorkOf(u) = w => cmd'[u] = cmd[u]
                     /\ own' = own /\ stored' = stored
                     /\ \A u \in Step : u[1] = w => step'[u] = step[u]
  <1>0. ASSUME Same PROVE Keeps(w)
    BY <1>0, OperationCmds DEF Keeps, KeepsCmd
  <1>1. ASSUME NEW d \in Diag, CreateOperation(d) \/ CancelOperation(d), w # d PROVE Same
    BY <1>1 DEF CreateOperation, CancelOperation, TypeOK
  <1>2. ASSUME NEW m \in Mod, CreateModuleOperation(m), w # m PROVE Same
    BY <1>2 DEF CreateModuleOperation, TypeOK
  <1>3. ASSUME NEW c \in Coll, RequestCollection(c) PROVE Same
    BY <1>3, KindsAssumption DEF RequestCollection, TypeOK
  <1>4. ASSUME ExpireScheduled PROVE Same
    BY <1>4, KindsAssumption DEF ExpireScheduled, ExpiredCol, OverdueColls
  <1>5. ASSUME NEW s \in Session, ConnectRefresh(s) PROVE Same
    <2>1. PICK E \in SUBSET OverdueColls, new \in SUBSET Coll :
             /\ col' = [c \in Diag \cup Coll |-> IF c \in new THEN "requested" ELSE ExpiredCol(E)[c]]
             /\ cmd' = ExpiredCmd(E)
      BY <1>5 DEF ConnectRefresh
    <2>2. w \notin E /\ (w \in Diag => w \notin new)
      BY KindsAssumption DEF OverdueColls, Op
    <2> QED
      BY <1>5, <2>1, <2>2 DEF ConnectRefresh, ExpiredCol, ExpiredCmd
  <1>6. ASSUME UNCHANGED rows PROVE Same
    BY <1>6 DEF rows
  <1>7. ASSUME NEW s \in Session,
               \/ Connect(s) \/ DeliverBegin(s) \/ DeliverRejected(s)
               \/ Send(s) \/ Heartbeat(s) \/ RejectAck(s) \/ ReplayResult(s)
               \/ RejectResult(s) \/ Disconnected(s) \/ CloseSession(s) \/ HandlerFails(s)
        PROVE  UNCHANGED rows
    BY <1>7 DEF Connect, DeliverBegin, DeliverRejected, Send, Heartbeat,
       RejectAck, ReplayResult, RejectResult, Disconnected, CloseSession, HandlerFails
  <1>8. ASSUME NEW st, AgentReceives(st) \/ AgentAnswers(st) PROVE UNCHANGED rows
    BY <1>8 DEF AgentReceives, AgentAnswers
  <1>9. ASSUME \/ \E m \in Mod : RevokeVersion(m)
               \/ \E v \in Work : DeadlinePasses(v)
               \/ ServerRestart \/ AgentResends \/ AgentLosesLink \/ UNCHANGED vars
        PROVE  UNCHANGED rows
    BY <1>9 DEF RevokeVersion, DeadlinePasses, ServerRestart, AgentResends, AgentLosesLink, vars
  <1> HIDE DEF Same
  <1> QED
    BY <1>0, <1>1, <1>2, <1>3, <1>4, <1>5, <1>6, <1>7, <1>8, <1>9 DEF Next, Handler

\* Every step of the specification has one of the effects on every operation.
LEMMA NextEffect ==
    ASSUME TypeOK, LocksHold, [Next]_vars, NEW w \in Op
    PROVE  Effect(w)
  <1>1. ASSUME \/ \E d \in Diag : w = d /\ (CreateOperation(d) \/ CancelOperation(d))
               \/ \E m \in Mod : w = m /\ CreateModuleOperation(m)
        PROVE  Effect(w)
    BY <1>1 DEF Effect
  <1>2. ASSUME ExpireOperations \/ \E s \in Session : DeliverCommit(s) PROVE Effect(w)
    BY <1>2, ExpiryEffect, CommitEffect DEF Effect
  <1>3. ASSUME \E s \in Session : RecordAck(s) \/ RecordResult(s) PROVE Effect(w)
    BY <1>3, AckEffect, ResultEffect
  <1>4. Keeps(w) => Effect(w)
    BY DEF Effect
  <1> QED
    BY <1>1, <1>2, <1>3, <1>4, OtherwiseKeeps

-----------------------------------------------------------------------------
\* What OperationRows leaves unsaid and the induction needs: a command that has
\* not been delivered has no result.
Unanswered ==
    /\ \A d \in Diag : op[d] \in {"none", "queued"} => stored[d] = None
    /\ \A u \in Step : step[u] \in {"none", "queued"} => stored[u] = None

\* Every effect keeps the rows of a diagnostic operation in agreement.
LEMMA DiagStep ==
    ASSUME TypeOK, OperationRows, Unanswered, NEW d \in Diag, Effect(d)
    PROVE  /\ DiagRows(d)'
           /\ op'[d] \in {"none", "queued"} => stored'[d] = None
  <1>1. d \in Cmd /\ d \in Op /\ WorkOf(d) = d /\ d \notin Step /\ d \notin Mod
    BY KindsAssumption DEF Cmd, Op, WorkOf
  <1>2. DiagRows(d) /\ (op[d] \in {"none", "queued"} => stored[d] = None)
    BY DEF OperationRows, Unanswered
  <1>3. op[d] \in {"none", "queued", "delivered", "acknowledged", "running"} \cup Terminal
    BY <1>1 DEF TypeOK, Active, InFlight
  <1>4. CASE Keeps(d)
    <2>1. /\ op'[d] = op[d] /\ col'[d] = col[d] /\ cmd'[d] = cmd[d] /\ stored'[d] = stored[d]
          /\ own[d] # None => own'[d] # None
      BY <1>1, <1>4 DEF Keeps, KeepsCmd
    <2> QED
      BY <1>2, <2>1 DEF DiagRows, CollectionOutcome, InFlight, Terminal
  <1>5. CASE CreateOperation(d)
    <2>1. /\ op'[d] = "queued" /\ col'[d] = "requested" /\ cmd' = cmd /\ stored' = stored
          /\ op[d] = "none"
      BY <1>1, <1>5 DEF CreateOperation, TypeOK
    <2> QED
      BY <1>2, <2>1 DEF DiagRows, InFlight, Terminal
  <1>6. CASE CancelOperation(d)
    <2>1. /\ op'[d] = "canceled" /\ col'[d] = "expired" /\ cmd' = cmd /\ stored' = stored
          /\ op[d] = "queued"
      BY <1>1, <1>6 DEF CancelOperation, Cancelable, TypeOK
    <2> QED
      BY <1>2, <2>1 DEF DiagRows, InFlight, Terminal
  <1>7. CASE Expires(d)
    <2>1. /\ op[d] \in Active /\ op'[d] = "expired"
          /\ col'[d] = IF col[d] \in {"completed", "failed"} THEN col[d] ELSE "expired"
          /\ cmd'[d] = IF cmd[d] \in InFlight THEN "expired" ELSE cmd[d]
          /\ stored'[d] = stored[d]
      BY <1>1, <1>7 DEF Expires
    <2> QED
      BY <1>2, <2>1 DEF DiagRows, Active, InFlight, Terminal
  <1>8. CASE Delivers(d)
    <2>1. /\ op[d] = "queued" /\ op'[d] = "delivered" /\ col'[d] = "delivered"
          /\ cmd'[d] = "delivered" /\ own'[d] # None /\ stored'[d] = stored[d]
      BY <1>1, <1>8 DEF Delivers
    <2> QED
      BY <1>2, <2>1 DEF DiagRows, InFlight, Terminal
  <1>9. ASSUME NEW st \in AckStatus, Acks(d, st)
        PROVE  /\ DiagRows(d)'
               /\ op'[d] \in {"none", "queued"} => stored'[d] = None
    <2>1. /\ st \in {"acknowledged", "running"} /\ op[d] \in InFlight
          /\ op'[d] = Advance(op[d], st) /\ col'[d] = "collecting"
          /\ cmd'[d] = Advance(cmd[d], st) /\ own'[d] = own[d] /\ stored'[d] = stored[d]
      BY <1>1, <1>9, KindsAssumption DEF Acks, Live
    <2>2. op'[d] \in {"acknowledged", "running"} /\ cmd[d] = op[d]
      BY <1>2, <2>1 DEF DiagRows, Advance
    <2> QED
      BY <1>2, <2>1, <2>2 DEF DiagRows, InFlight, Terminal
  <1>10. ASSUME NEW st \in Terminal, Results(d, st)
         PROVE  /\ DiagRows(d)'
                /\ op'[d] \in {"none", "queued"} => stored'[d] = None
    <2>1. /\ op'[d] = st /\ col'[d] = CollectionOutcome(st) /\ cmd'[d] = st
          /\ stored'[d] # None /\ stored'[d].status = st
      BY <1>1, <1>10 DEF Results, Outcome
    <2> QED
      BY <2>1 DEF DiagRows, CollectionOutcome, InFlight, Terminal
  <1>11. \A u \in Diag \cup Step : WorkOf(u) = d => u = d
    BY <1>1, OperationCmds DEF Cmd
  <1> QED
    BY <1>1, <1>4, <1>5, <1>6, <1>7, <1>8, <1>9, <1>10, <1>11 DEF Effect

\* Every effect keeps the rows of a module step in agreement.
LEMMA StepStep ==
    ASSUME TypeOK, OperationRows, Unanswered, NEW u \in Step, Effect(u[1])
    PROVE  /\ StepRows(u)'
           /\ step'[u] \in {"none", "queued"} => stored'[u] = None
  <1> DEFINE m == u[1]
  <1>1. /\ u \in Cmd /\ m \in Mod /\ m \in Op /\ WorkOf(u) = m /\ m \notin Diag
        /\ u \notin Diag /\ u \notin Coll
    BY WorkOfType, KindsAssumption DEF Cmd, Op, Step
  <1>2. StepRows(u) /\ (step[u] \in {"none", "queued"} => stored[u] = None)
    BY DEF OperationRows, Unanswered
  <1>3. step[u] \in {"none", "queued", "delivered", "acknowledged", "running"} \cup Terminal
    BY <1>1 DEF TypeOK, Active, InFlight
  <1> DEFINE Good == StepRows(u)' /\ (step'[u] \in {"none", "queued"} => stored'[u] = None)
  <1> HIDE DEF m
  <1>4. ASSUME KeepsCmd(u), op'[m] = "none" <=> op[m] = "none" PROVE Good
    BY <1>1, <1>2, <1>4 DEF StepRows, KeepsCmd, InFlight, Terminal, m
  <1>5. CASE Keeps(m)
    BY <1>1, <1>4, <1>5 DEF Keeps
  <1>6. CASE CreateModuleOperation(m)
    <2>1. /\ op'[m] = "queued" /\ op[m] = "none" /\ step'[u] = "queued"
          /\ cmd' = cmd /\ stored' = stored
      BY <1>1, <1>6 DEF CreateModuleOperation, TypeOK, m
    <2> QED
      BY <1>2, <2>1 DEF StepRows, InFlight, Terminal, m
  <1>7. CASE Expires(m)
    <2>1. /\ op[m] \in Active /\ op'[m] = "expired"
          /\ cmd'[u] = IF cmd[u] \in InFlight THEN "expired" ELSE cmd[u]
          /\ stored'[u] = stored[u]
          /\ step'[u] = IF step[u] \in Terminal THEN step[u] ELSE "expired"
      BY <1>1, <1>7 DEF Expires
    <2> QED
      BY <1>2, <1>3, <2>1 DEF StepRows, Active, InFlight, Terminal, m
  <1>8. ASSUME NEW v \in Step, WorkOf(v) = m,
               \/ Delivers(v) \/ \E st \in AckStatus : Acks(v, st)
               \/ \E st \in Terminal : Results(v, st)
        PROVE  Good
    <2>1. op[m] \in Active /\ op'[m] # "none"
      BY <1>8, KindsAssumption
         DEF Delivers, Acks, Results, Live, Outcome, Advance, Active, InFlight, Terminal
    <2>2. op[m] # "none"
      BY <2>1 DEF Active, InFlight
    <2>3. CASE v # u
      <3>1. KeepsCmd(u)
        BY <1>1, <1>8, <2>3 DEF Delivers, Acks, Results, KeepsOthers
      <3> QED
        BY <1>4, <2>1, <2>2, <3>1
    <2>4. CASE v = u /\ Delivers(u)
      <3>1. /\ cmd[u] = "none" /\ cmd'[u] = "delivered" /\ own'[u] # None
            /\ stored'[u] = stored[u] /\ step'[u] = "delivered" /\ u \in NextSteps(u[1])
        BY <2>4 DEF Delivers
      <3>2. step[u] \in {"delivered", "queued"}
        BY <3>1 DEF NextSteps
      <3> QED
        BY <1>2, <2>1, <3>1, <3>2 DEF StepRows, InFlight, Terminal, m
    <2>5. ASSUME NEW st, v = u, Acks(u, st) PROVE Good
      <3>1. /\ step[u] \in InFlight /\ st \in {"acknowledged", "running"}
            /\ own'[u] = own[u] /\ stored'[u] = stored[u]
            /\ cmd'[u] = Advance(cmd[u], st)
            /\ step'[u] = IF cmd[u] = "running" /\ st # "running" THEN step[u] ELSE st
        BY <2>5 DEF Acks, Live
      <3>2. cmd[u] = step[u]
        BY <1>2, <3>1 DEF StepRows
      <3>3. step'[u] = cmd'[u] /\ step'[u] \in {"acknowledged", "running"}
        BY <3>1, <3>2 DEF Advance
      <3> QED
        BY <1>2, <2>1, <3>1, <3>3 DEF StepRows, InFlight, Terminal, m
    <2>6. ASSUME NEW st, v = u, Results(u, st) PROVE Good
      <3>1. /\ st \in Terminal /\ stored'[u] # None /\ stored'[u].status = st
            /\ cmd'[u] = st /\ step'[u] = st
        BY <2>6 DEF Results
      <3> QED
        BY <2>1, <3>1 DEF StepRows, InFlight, Terminal, m
    <2> QED
      BY <1>8, <2>3, <2>4, <2>5, <2>6
  <1>9. \A v \in Diag \cup Step : WorkOf(v) = m => v \in Step
    BY <1>1, OperationCmds DEF Cmd
  <1> QED
    BY <1>1, <1>5, <1>6, <1>7, <1>8, <1>9 DEF Effect, m

\* The steps of one module operation and the order they have.
LEMMA ChainSteps ==
    ASSUME NEW m \in Mod
    PROVE  /\ StepsOf(m) \subseteq Step
           /\ \A u \in StepsOf(m) : /\ u \in Cmd /\ WorkOf(u) = m /\ u[1] = m
                                    /\ u[2] \in Nat /\ u[2] =< StepCount - 1
           /\ \A u \in Step : u[1] = m => u \in StepsOf(m)
           /\ \A u, v \in StepsOf(m) : u[2] < v[2] \/ v[2] < u[2] \/ u = v
           /\ <<m, StepCount - 1>> \in StepsOf(m)
           /\ StepCount \in Nat
  <1>1. StepCount \in Nat /\ StepCount - 1 \in 0 .. (StepCount - 1)
    BY StepCountAssumption
  <1>2. /\ StepsOf(m) \subseteq Step
        /\ \A u \in StepsOf(m) : /\ u[1] = m /\ u[2] \in 0 .. (StepCount - 1)
                                 /\ u = <<u[1], u[2]>>
        /\ \A u \in Step : u[1] = m => u \in StepsOf(m)
    BY DEF StepsOf, Step
  <1>3. \A u \in StepsOf(m) : u \in Cmd /\ WorkOf(u) = m
    BY <1>2 DEF Cmd, WorkOf
  <1>4. <<m, StepCount - 1>> \in StepsOf(m)
    BY <1>1 DEF StepsOf
  <1>5. \A u \in StepsOf(m) : u[2] \in Nat /\ u[2] =< StepCount - 1
    BY <1>1, <1>2
  <1>6. \A u, v \in StepsOf(m) : u[2] < v[2] \/ v[2] < u[2] \/ u[2] = v[2]
    BY <1>5
  <1>7. \A u, v \in StepsOf(m) : u[2] = v[2] => u = v
    BY <1>2
  <1> QED
    BY <1>1, <1>2, <1>3, <1>4, <1>5, <1>6, <1>7

\* Every effect keeps the chain of a module operation in order.
LEMMA ChainStep ==
    ASSUME TypeOK, OperationRows, NEW m \in Mod, Effect(m)
    PROVE  ChainRows(m)'
  <1> DEFINE S == StepsOf(m)
             Started == InFlight \cup {"succeeded", "failed", "canceled"}
             Good == /\ \A u, v \in S : u[2] < v[2] /\ step'[v] \in Started =>
                                        step'[u] = "succeeded"
                     /\ op'[m] \in Terminal => \A u \in S : step'[u] \notin InFlight
                     /\ op'[m] \in Active => \A u \in S : step'[u] \in Active \cup {"succeeded"}
                     /\ op'[m] = "succeeded" <=> \A u \in S : step'[u] = "succeeded"
  <1>1. /\ m \in Op /\ m \notin Diag
        /\ S \subseteq Step /\ S # {}
        /\ \A u \in S : u \in Cmd /\ WorkOf(u) = m /\ u[1] = m /\ u[2] \in Nat
      BY ChainSteps, KindsAssumption DEF Op
  <1>2. /\ \A u, v \in S : u[2] < v[2] /\ step[v] \in Started => step[u] = "succeeded"
        /\ op[m] \in Terminal => \A u \in S : step[u] \notin InFlight
        /\ op[m] \in Active => \A u \in S : step[u] \in Active \cup {"succeeded"}
        /\ op[m] = "succeeded" <=> \A u \in S : step[u] = "succeeded"
    BY DEF OperationRows, ChainRows
  <1>3. Good => ChainRows(m)'
    BY DEF ChainRows, StepsOf
  <1> HIDE DEF S
  <1>4. CASE Keeps(m)
    <2>1. op'[m] = op[m] /\ \A u \in S : step'[u] = step[u]
      BY <1>1, <1>4 DEF Keeps, KeepsCmd
    <2> QED
      BY <1>2, <1>3, <2>1
  <1>5. CASE CreateModuleOperation(m)
    <2>1. op'[m] = "queued" /\ \A u \in S : step'[u] = "queued"
      BY <1>1, <1>5 DEF CreateModuleOperation, TypeOK
    <2> QED
      BY <1>1, <1>3, <2>1 DEF Active, InFlight, Terminal
  <1>6. CASE Expires(m)
    <2>1. /\ op[m] \in Active /\ op'[m] = "expired"
          /\ \A u \in S : step'[u] = IF step[u] \in Terminal THEN step[u] ELSE "expired"
      BY <1>1, <1>6 DEF Expires
    <2>2. \A u \in S : step'[u] \in Started => step[u] = step'[u]
      BY <2>1 DEF InFlight
    <2>3. \A u \in S : step[u] = "succeeded" <=> step'[u] = "succeeded"
      BY <2>1 DEF Terminal
    <2>4. op[m] # "succeeded" /\ op'[m] \notin Active /\ \A u \in S : step'[u] \notin InFlight
      BY <2>1 DEF Active, InFlight, Terminal
    <2> QED
      BY <1>2, <1>3, <2>1, <2>2, <2>3, <2>4
  <1>7. ASSUME NEW u \in S, Delivers(u) PROVE Good
    <2>1. /\ op[m] \in Active /\ op'[m] = "delivered" /\ u \in NextSteps(m)
          /\ step'[u] = "delivered"
          /\ \A v \in S : v # u => step'[v] = step[v]
          /\ cmd[u] = "none"
      BY <1>1, <1>7 DEF Delivers, KeepsOthers, KeepsCmd
    <2>2. step[u] \notin InFlight
      BY <1>1, <2>1 DEF OperationRows, StepRows, InFlight
    <2>3. step[u] = "queued" /\ \A v \in S : v[2] < u[2] => step[v] = "succeeded"
      BY <2>1, <2>2 DEF NextSteps, InFlight, S
    <2>4. \A v, w \in S : v[2] < w[2] /\ step'[w] \in Started => step'[v] = "succeeded"
      <3> SUFFICES ASSUME NEW v \in S, NEW w \in S, v[2] < w[2], step'[w] \in Started
                   PROVE  step'[v] = "succeeded"
        OBVIOUS
      <3>1. CASE w = u
        BY <1>1, <2>1, <2>3, <3>1
      <3>2. CASE w # u
        BY <1>2, <2>1, <2>3, <3>2
      <3> QED
        BY <3>1, <3>2
    <2>5. op[m] \notin Terminal
      BY <2>1 DEF Active, InFlight, Terminal
    <2> QED
      BY <1>2, <2>1, <2>4 DEF Active, InFlight, Terminal
  <1>8. ASSUME NEW u \in S, NEW st, Acks(u, st) PROVE Good
    <2>1. /\ op[m] \in InFlight /\ st \in {"acknowledged", "running"}
          /\ op'[m] = Advance(op[m], st)
          /\ step[u] \in InFlight
          /\ step'[u] = IF cmd[u] = "running" /\ st # "running" THEN step[u] ELSE st
          /\ \A v \in S : v # u => step'[v] = step[v]
      BY <1>1, <1>8, KindsAssumption DEF Acks, Live, KeepsOthers, KeepsCmd
    <2>2. op'[m] \in InFlight /\ step'[u] \in InFlight
      BY <2>1 DEF Advance, InFlight
    <2>3. \A v, w \in S : v[2] < w[2] /\ step'[w] \in Started => step'[v] = "succeeded"
      <3> SUFFICES ASSUME NEW v \in S, NEW w \in S, v[2] < w[2], step'[w] \in Started
                   PROVE  step'[v] = "succeeded"
        OBVIOUS
      <3>1. step[w] \in Started
        BY <2>1
      <3>2. step[v] = "succeeded"
        BY <1>2, <3>1
      <3> QED
        BY <2>1, <3>2 DEF InFlight
    <2> QED
      BY <1>2, <2>1, <2>2, <2>3 DEF Active, InFlight, Terminal
  <1>9. ASSUME NEW u \in S, NEW st, Results(u, st) PROVE Good
    <2>1. /\ op[m] \in InFlight /\ st \in Terminal
          /\ op'[m] = Outcome(u, st)
          /\ step[u] \in InFlight
          /\ step'[u] = st
          /\ \A v \in S : v # u => step'[v] = step[v]
      BY <1>1, <1>9, KindsAssumption DEF Results, Live, KeepsOthers, KeepsCmd
    <2>2. \A v \in S : v[2] < u[2] => step'[v] = "succeeded"
      <3> SUFFICES ASSUME NEW v \in S, v[2] < u[2] PROVE step'[v] = "succeeded"
        OBVIOUS
      <3>1. v # u
        BY <1>1
      <3> QED
        BY <1>2, <2>1, <3>1
    <2>3. \A v \in S : u[2] < v[2] => step'[v] = "queued"
      <3> SUFFICES ASSUME NEW v \in S, u[2] < v[2] PROVE step'[v] = "queued"
        OBVIOUS
      <3>1. v # u
        BY <1>1
      <3>2. step[v] \notin Started
        BY <1>2, <2>1 DEF InFlight
      <3>3. step[v] \in Active
        BY <1>2, <2>1, <3>2 DEF Active, InFlight
      <3> QED
        BY <2>1, <3>1, <3>2, <3>3 DEF Active, InFlight
    <2>4. \A v \in S : v[2] < u[2] \/ u[2] < v[2] \/ v = u
      BY ChainSteps DEF S
    <2>5. \A v, w \in S : v[2] < w[2] /\ step'[w] \in Started => step'[v] = "succeeded"
      <3> SUFFICES ASSUME NEW v \in S, NEW w \in S, v[2] < w[2], step'[w] \in Started
                   PROVE  step'[v] = "succeeded"
        OBVIOUS
      <3>1. ~(u[2] < w[2])
        BY <2>3 DEF InFlight
      <3>2. v[2] < u[2]
        BY <1>1, <2>4, <3>1
      <3> QED
        BY <2>2, <3>2
    <2>6. CASE st = "succeeded" /\ ~LastStep(u)
      <3>1. op'[m] = "running"
        BY <1>1, <2>1, <2>6 DEF Outcome
      <3>2. <<m, StepCount - 1>> \in S /\ u[2] < <<m, StepCount - 1>>[2]
        BY <2>6, ChainSteps DEF LastStep, S
      <3>3. \E v \in S : step'[v] = "queued"
        BY <2>3, <3>2
      <3>4. \A v \in S : step'[v] \in {"succeeded", "queued"}
        BY <2>1, <2>2, <2>3, <2>4, <2>6
      <3> QED
        BY <2>5, <3>1, <3>3, <3>4 DEF Active, InFlight, Terminal
    <2>7. CASE st = "succeeded" /\ LastStep(u)
      <3>1. op'[m] = "succeeded"
        BY <1>1, <2>1, <2>7 DEF Outcome
      <3>2. \A v \in S : ~(u[2] < v[2])
        <4>1. u[2] = StepCount - 1 /\ StepCount \in Nat
          BY <2>7, ChainSteps DEF LastStep
        <4>2. \A v \in S : v[2] \in Nat /\ v[2] =< StepCount - 1
          BY ChainSteps DEF S
        <4> QED
          BY <4>1, <4>2
      <3>3. \A v \in S : step'[v] = "succeeded"
        BY <2>1, <2>2, <2>4, <2>7, <3>2
      <3> QED
        BY <2>5, <3>1, <3>3 DEF Active, InFlight, Terminal
    <2>8. CASE st # "succeeded"
      <3>1. op'[m] = st
        BY <1>1, <2>1, <2>8 DEF Outcome
      <3>2. \A v \in S : step'[v] \in {"succeeded", "queued", st}
        BY <2>1, <2>2, <2>3, <2>4
      <3> QED
        BY <2>1, <2>5, <2>8, <3>1, <3>2 DEF Active, InFlight, Terminal
    <2> QED
      BY <2>6, <2>7, <2>8
  <1>10. \A u \in Diag \cup Step : WorkOf(u) = m => u \in S
    BY <1>1, OperationCmds, ChainSteps DEF Cmd, S
  <1> HIDE DEF Good
  <1> QED
    BY <1>1, <1>3, <1>4, <1>5, <1>6, <1>7, <1>8, <1>9, <1>10 DEF Effect

\* Every step keeps the rows of all operations in agreement.
LEMMA NextRows ==
    TypeOK /\ LocksHold /\ OperationRows /\ Unanswered /\ [Next]_vars =>
        OperationRows' /\ Unanswered'
  <1> SUFFICES ASSUME TypeOK, LocksHold, OperationRows, Unanswered, [Next]_vars
               PROVE  OperationRows' /\ Unanswered'
    OBVIOUS
  <1>1. \A w \in Op : Effect(w)
    BY NextEffect
  <1>2. ASSUME NEW d \in Diag
        PROVE  DiagRows(d)' /\ (op'[d] \in {"none", "queued"} => stored'[d] = None)
    BY <1>1, DiagStep DEF Op
  <1>3. ASSUME NEW u \in Step
        PROVE  StepRows(u)' /\ (step'[u] \in {"none", "queued"} => stored'[u] = None)
    <2>1. u[1] \in Op
      BY DEF Step, Op
    <2> QED
      BY <1>1, <2>1, StepStep
  <1>4. ASSUME NEW m \in Mod PROVE ChainRows(m)'
    BY <1>1, ChainStep DEF Op
  <1> QED
    BY <1>2, <1>3, <1>4 DEF OperationRows, Unanswered

\* Init establishes them.
LEMMA InitRows == Init => OperationRows /\ Unanswered
  <1> SUFFICES ASSUME Init PROVE OperationRows /\ Unanswered
    OBVIOUS
  <1>1. ASSUME NEW d \in Diag PROVE DiagRows(d) /\ stored[d] = None
    BY DEF Init, DiagRows, Op, Cmd, InFlight, Terminal
  <1>2. ASSUME NEW u \in Step PROVE StepRows(u) /\ stored[u] = None
    <2>1. u \in Cmd /\ u[1] \in Op
      BY DEF Cmd, Step, Op
    <2> QED
      BY <2>1 DEF Init, StepRows, InFlight, Terminal
  <1>3. ASSUME NEW m \in Mod PROVE ChainRows(m)
    <2>1. /\ op[m] = "none"
          /\ \A u \in StepsOf(m) : step[u] = "none"
          /\ StepsOf(m) # {}
      BY ChainSteps DEF Init, Op
    <2> QED
      BY <2>1 DEF ChainRows, Active, InFlight, Terminal
  <1> QED
    BY <1>1, <1>2, <1>3 DEF OperationRows, Unanswered

\* Operation, collection, step, command and result rows agree after every commit,
\* in whatever order acknowledgements, results, cancellations, expiries and
\* deliveries are committed, for any number of operations and sessions.
THEOREM RowsAgree == Spec => []OperationRows
  <1>1. Init => Wired /\ LocksHold
    BY DEF Init, Wired, LocksHold, NoTx
  <1> QED
    BY <1>1, InitType, InitRows, NextType, NextWired, NextLocks, NextRows, PTL DEF Spec

\* An open session is refused work only while an operation of a version that is no
\* longer executable is active: the selection never stumbles over rows that races
\* between acknowledgements, expiries and cancellations left behind.
THEOREM RefusalIsForVersion == Spec => RefusedOnlyForVersion
  <1>1. Init => Wired /\ LocksHold
    BY DEF Init, Wired, LocksHold, NoTx
  <1>2. ASSUME TypeOK, OperationRows, NEW s \in Session, DeliverRejected(s), sess[s] = "open"
        PROVE  \E m \in revoked : op[m] \in Active
    <2>1. ASSUME NEW m \in FirstOf(StoppingMods(s)), ModuleRejects(m)
          PROVE  \E n \in revoked : op[n] \in Active
      <3>1. m \in Mod /\ op[m] \in Active
        BY DEF FirstOf, StoppingMods, SelectedMods
      <3>2. \A u \in StepsOf(m) : step[u] = "delivered" => cmd[u] = "delivered"
        BY <1>2, <3>1, ChainSteps DEF OperationRows, StepRows, InFlight
      <3>3. m \in revoked
        BY <2>1, <3>2 DEF ModuleRejects, NextSteps
      <3> QED
        BY <3>1, <3>3
    <2>2. ASSUME NEW x \in FirstOf(StoppingCols(s)), CollectionRejects(x)
          PROVE  FALSE
      <3>1. /\ x \in Diag /\ op[x] # (IF cmd[x] = "none" THEN "queued" ELSE "delivered")
            /\ col[x] \in {"requested", "delivered"} /\ cmd[x] \in {"none", "delivered"}
        BY <2>2 DEF FirstOf, StoppingCols, Considered, SelectedCols, CollectionRejects
      <3>2. op[x] \in {"none", "queued", "delivered", "acknowledged", "running"} \cup Terminal
        BY <1>2, <3>1 DEF TypeOK, Active, InFlight, Op
      <3>3. DiagRows(x)
        BY <1>2, <3>1 DEF OperationRows
      <3> QED
        BY <3>1, <3>2, <3>3 DEF DiagRows, CollectionOutcome, InFlight, Terminal
    <2> QED
      BY <1>2, <2>1, <2>2 DEF DeliverRejected
  <1>3. TypeOK /\ OperationRows /\ [Next]_vars =>
          [\A s \in Session : DeliverRejected(s) /\ sess[s] = "open" =>
              \E m \in revoked : op[m] \in Active]_vars
    BY <1>2
  <1> QED
    BY <1>1, <1>3, InitType, InitRows, NextType, NextWired, NextLocks, NextRows, PTL
       DEF Spec, RefusedOnlyForVersion

-----------------------------------------------------------------------------
(***************************************************************************)
(* Delivery rows and the results of plain collections.                     *)
(***************************************************************************)

\* The steps that change no command, delivery, collection or result row.
LEMMA QuietSteps ==
    ASSUME [Next]_vars,
           ~ \E d \in Diag : CreateOperation(d) \/ CancelOperation(d),
           ~ \E c \in Coll : RequestCollection(c),
           ~ ExpireOperations, ~ ExpireScheduled,
           ~ \E s \in Session : ConnectRefresh(s) \/ DeliverCommit(s) \/ RecordAck(s)
                                \/ RecordResult(s)
    PROVE  UNCHANGED <<col, cmd, dlv, stored>>
  <1>1. ASSUME NEW s \in Session,
               \/ Connect(s) \/ DeliverBegin(s) \/ DeliverRejected(s)
               \/ Send(s) \/ Heartbeat(s) \/ RejectAck(s) \/ ReplayResult(s)
               \/ RejectResult(s) \/ Disconnected(s) \/ CloseSession(s) \/ HandlerFails(s)
        PROVE  UNCHANGED <<col, cmd, dlv, stored>>
    BY <1>1 DEF Connect, DeliverBegin, DeliverRejected, Send, Heartbeat, rows,
       RejectAck, ReplayResult, RejectResult, Disconnected, CloseSession, HandlerFails
  <1>2. ASSUME NEW st, AgentReceives(st) \/ AgentAnswers(st)
        PROVE  UNCHANGED <<col, cmd, dlv, stored>>
    BY <1>2 DEF AgentReceives, AgentAnswers, rows
  <1>3. ASSUME \/ \E m \in Mod : CreateModuleOperation(m) \/ RevokeVersion(m)
               \/ \E v \in Work : DeadlinePasses(v)
               \/ ServerRestart \/ AgentResends \/ AgentLosesLink \/ UNCHANGED vars
        PROVE  UNCHANGED <<col, cmd, dlv, stored>>
    BY <1>3 DEF CreateModuleOperation, RevokeVersion, DeadlinePasses, ServerRestart,
       AgentResends, AgentLosesLink, vars, rows
  <1> QED
    BY <1>1, <1>2, <1>3 DEF Next, Handler

\* Every transaction that moves a command moves its delivery with it.
THEOREM DeliveriesMirror == Spec => []DeliveryMirrorsCommand
  <1>1. Init => Wired /\ DeliveryMirrorsCommand
    BY DEF Init, Wired, DeliveryMirrorsCommand
  <1>2. TypeOK /\ DeliveryMirrorsCommand /\ [Next]_vars => DeliveryMirrorsCommand'
    <2> SUFFICES ASSUME TypeOK, DeliveryMirrorsCommand, [Next]_vars, NEW u \in Cmd
                 PROVE  dlv'[u] = cmd'[u]
      BY DEF DeliveryMirrorsCommand
    <2>1. dlv[u] = cmd[u]
      BY DEF DeliveryMirrorsCommand
    <2>2. \A E : ExpiredDlv(E)[u] = ExpiredCmd(E)[u]
      BY <2>1 DEF ExpiredDlv, ExpiredCmd
    <2>3. ASSUME NEW d \in Diag, CreateOperation(d) \/ CancelOperation(d) PROVE dlv'[u] = cmd'[u]
      BY <2>1, <2>3 DEF CreateOperation, CancelOperation
    <2>4. ASSUME NEW c \in Coll, RequestCollection(c) PROVE dlv'[u] = cmd'[u]
      BY <2>1, <2>4 DEF RequestCollection
    <2>5. ASSUME ExpireOperations PROVE dlv'[u] = cmd'[u]
      BY <2>2, <2>5 DEF ExpireOperations, ExpireRows
    <2>6. ASSUME ExpireScheduled PROVE dlv'[u] = cmd'[u]
      BY <2>1, <2>6 DEF ExpireScheduled
    <2>7. ASSUME NEW s \in Session, ConnectRefresh(s) PROVE dlv'[u] = cmd'[u]
      BY <2>2, <2>7 DEF ConnectRefresh
    <2>8. ASSUME NEW s \in Session, DeliverCommit(s) PROVE dlv'[u] = cmd'[u]
      BY <2>2, <2>8 DEF DeliverCommit
    <2>9. ASSUME NEW s \in Session, RecordAck(s) PROVE dlv'[u] = cmd'[u]
      BY <2>1, <2>9 DEF RecordAck, TypeOK
    <2>10. ASSUME NEW s \in Session, RecordResult(s) PROVE dlv'[u] = cmd'[u]
      BY <2>1, <2>10 DEF RecordResult, TypeOK
    <2> QED
      BY <2>1, <2>3, <2>4, <2>5, <2>6, <2>7, <2>8, <2>9, <2>10, QuietSteps
  <1> QED
    BY <1>1, <1>2, InitType, NextType, NextWired, PTL DEF Spec

\* The stored result of a plain collection is never taken back.
THEOREM PlainResultsStand == Spec => []PlainResultStands
  <1>1. Init => Wired /\ PlainResultStands
    BY DEF Init, Wired, PlainResultStands, Cmd
  <1>2. TypeOK /\ PlainResultStands /\ [Next]_vars => PlainResultStands'
    <2> SUFFICES ASSUME TypeOK, PlainResultStands, [Next]_vars, NEW c \in Coll,
                        stored'[c] # None
                 PROVE  cmd'[c] = stored'[c].status /\ col'[c] = CollectionOutcome(cmd'[c])
      BY DEF PlainResultStands
    <2>0. c \in Cmd /\ WorkOf(c) = c /\ c \notin Step /\ c \notin Diag
      BY KindsAssumption DEF Cmd, WorkOf
    <2>1. stored[c] # None => /\ cmd[c] = stored[c].status /\ cmd[c] \in Terminal
                              /\ col[c] = CollectionOutcome(cmd[c])
                              /\ col[c] \in {"completed", "failed"}
      BY <2>0 DEF PlainResultStands, TypeOK, CollectionOutcome
    <2>2. stored[c] # None => \A E : ExpiredCmd(E)[c] = cmd[c] /\ ExpiredCol(E)[c] = col[c]
      BY <2>0, <2>1 DEF ExpiredCmd, ExpiredCol, InFlight, Terminal
    <2>3. ASSUME stored' = stored, cmd'[c] = cmd[c], col'[c] = col[c]
          PROVE  cmd'[c] = stored'[c].status /\ col'[c] = CollectionOutcome(cmd'[c])
      BY <2>1, <2>3
    <2>4. ASSUME NEW d \in Diag, CreateOperation(d) \/ CancelOperation(d)
          PROVE  stored' = stored /\ cmd'[c] = cmd[c] /\ col'[c] = col[c]
      BY <2>0, <2>4 DEF CreateOperation, CancelOperation, TypeOK
    <2>5. ASSUME NEW x \in Coll, RequestCollection(x)
          PROVE  stored' = stored /\ cmd'[c] = cmd[c] /\ col'[c] = col[c]
      BY <2>1, <2>5 DEF RequestCollection, TypeOK
    <2>6. ASSUME ExpireOperations
          PROVE  stored' = stored /\ cmd'[c] = cmd[c] /\ col'[c] = col[c]
      BY <2>2, <2>6 DEF ExpireOperations, ExpireRows
    <2>7. ASSUME ExpireScheduled
          PROVE  stored' = stored /\ cmd'[c] = cmd[c] /\ col'[c] = col[c]
      BY <2>2, <2>7 DEF ExpireScheduled
    <2>8. ASSUME NEW s \in Session, ConnectRefresh(s)
          PROVE  stored' = stored /\ cmd'[c] = cmd[c] /\ col'[c] = col[c]
      <3>1. stored' = stored
        BY <2>8 DEF ConnectRefresh
      <3> QED
        BY <2>1, <2>2, <2>8, <3>1 DEF ConnectRefresh
    <2>9. ASSUME NEW s \in Session, DeliverCommit(s)
          PROVE  stored' = stored /\ cmd'[c] = cmd[c] /\ col'[c] = col[c]
      <3>1. stored' = stored /\ cmd[c] # "none"
        BY <2>1, <2>9 DEF DeliverCommit, Terminal
      <3> QED
        BY <2>0, <2>1, <2>2, <2>9, <3>1 DEF DeliverCommit
    <2>10. ASSUME NEW s \in Session, RecordAck(s)
           PROVE  stored' = stored /\ cmd'[c] = cmd[c] /\ col'[c] = col[c]
      <3> DEFINE u == Head(up[s]).cmd
      <3>1. stored' = stored /\ ~Live(c)
        BY <2>1, <2>10 DEF RecordAck, Live, InFlight, Terminal
      <3>2. CASE u # c
        BY <2>0, <2>10, <3>1, <3>2 DEF RecordAck, TypeOK
      <3>3. CASE ~Live(u)
        BY <2>10, <3>1, <3>3 DEF RecordAck
      <3> QED
        BY <3>1, <3>2, <3>3
    <2>11. ASSUME NEW s \in Session, RecordResult(s)
           PROVE  cmd'[c] = stored'[c].status /\ col'[c] = CollectionOutcome(cmd'[c])
      <3> DEFINE f == Head(up[s])
                 u == f.cmd
      <3>1. CASE u = c
        <4>1. stored'[c] = [status |-> f.status, run |-> f.run] /\ cmd'[c] = f.status
              /\ col'[c] = CollectionOutcome(f.status)
          BY <2>0, <2>11, <3>1 DEF RecordResult, TypeOK
        <4> QED
          BY <4>1
      <3>2. CASE u # c
        <4>1. stored'[c] = stored[c] /\ cmd'[c] = cmd[c] /\ col'[c] = col[c]
          BY <2>0, <2>11, <3>2 DEF RecordResult, TypeOK
        <4> QED
          BY <2>1, <4>1
      <3> QED
        BY <3>1, <3>2
    <2> QED
      BY <2>3, <2>4, <2>5, <2>6, <2>7, <2>8, <2>9, <2>10, <2>11, QuietSteps
  <1> QED
    BY <1>1, <1>2, InitType, NextType, NextWired, PTL DEF Spec

-----------------------------------------------------------------------------
(***************************************************************************)
(* What a handler sends.  Between selecting a command and sending it the   *)
(* handler holds it; Holds(t) says what one step can do to that.           *)
(***************************************************************************)
Idle(t) == handler[t] \notin {"binding", "sending"}

\* A handler that neither binds nor sends has no transaction.
IdleFree == \A t \in Session : Idle(t) => tx[t] = NoTx

Holds(t) ==
    \/ DeliverBegin(t) \/ DeliverCommit(t) \/ Send(t)
    \/ /\ sent'[t] = sent[t]
       /\ \/ tx'[t] = tx[t] /\ handler'[t] = handler[t]
          \/ tx'[t] = tx[t] /\ Idle(t) /\ Idle(t)'
          \/ tx'[t] = NoTx /\ Idle(t)'

\* Every step does one of these to every handler.
LEMMA NextHolds ==
    ASSUME TypeOK, Wired, [Next]_vars, NEW t \in Session
    PROVE  Holds(t)
  <1>1. ASSUME NEW s \in Session, DeliverBegin(s) \/ DeliverCommit(s) \/ Send(s), s # t
        PROVE  sent'[t] = sent[t] /\ tx'[t] = tx[t] /\ handler'[t] = handler[t]
    BY <1>1 DEF DeliverBegin, Selects, DeliverCommit, Send, TypeOK
  <1>2. ASSUME NEW s \in Session,
               \/ Connect(s) \/ ConnectRefresh(s) \/ DeliverRejected(s)
               \/ Heartbeat(s) \/ RecordAck(s) \/ RejectAck(s)
               \/ RecordResult(s) \/ ReplayResult(s) \/ RejectResult(s)
               \/ Disconnected(s) \/ CloseSession(s)
        PROVE  /\ sent' = sent /\ tx' = tx
               /\ handler'[t] = handler[t] \/ (Idle(t) /\ Idle(t)')
    <2>1. sent' = sent /\ tx' = tx
      BY <1>2 DEF Connect, ConnectRefresh, DeliverRejected, Heartbeat, RecordAck, RejectAck,
         RecordResult, ReplayResult, RejectResult, Disconnected, CloseSession
    <2>2. handler[s] \notin {"binding", "sending"}
      BY <1>2 DEF Connect, ConnectRefresh, DeliverRejected, Heartbeat, RecordAck, RejectAck,
         RecordResult, ReplayResult, RejectResult, Disconnected, CloseSession, Receives, Wired
    <2>3. PICK pc \in {"refreshing", "delivering", "receiving", "closing", "done"} :
             handler' = [handler EXCEPT ![s] = pc]
      BY <1>2 DEF Connect, ConnectRefresh, DeliverRejected, Heartbeat, RecordAck, RejectAck,
         RecordResult, ReplayResult, RejectResult, Disconnected, CloseSession, Then
    <2> QED
      BY <2>1, <2>2, <2>3 DEF Idle, TypeOK
  <1>3. ASSUME NEW s \in Session, HandlerFails(s)
        PROVE  /\ sent' = sent
               /\ IF s = t THEN tx'[t] = NoTx /\ Idle(t)'
                           ELSE tx'[t] = tx[t] /\ handler'[t] = handler[t]
    BY <1>3 DEF HandlerFails, Then, Idle, TypeOK
  <1>4. ASSUME ServerRestart PROVE sent' = sent /\ tx'[t] = NoTx /\ Idle(t)'
    BY <1>4 DEF ServerRestart, Idle
  <1>5. ASSUME NEW st, AgentReceives(st) \/ AgentAnswers(st)
        PROVE  UNCHANGED <<sent, tx, handler>>
    BY <1>5 DEF AgentReceives, AgentAnswers, gate
  <1>6. ASSUME \/ \E d \in Diag : CreateOperation(d) \/ CancelOperation(d)
               \/ \E m \in Mod : CreateModuleOperation(m) \/ RevokeVersion(m)
               \/ \E c \in Coll : RequestCollection(c)
               \/ \E w \in Work : DeadlinePasses(w)
               \/ ExpireOperations \/ ExpireScheduled
               \/ AgentResends \/ AgentLosesLink \/ UNCHANGED vars
        PROVE  UNCHANGED <<sent, tx, handler>>
    BY <1>6 DEF CreateOperation, CancelOperation, CreateModuleOperation, RevokeVersion,
       RequestCollection, DeadlinePasses, ExpireOperations, ExpireScheduled,
       AgentResends, AgentLosesLink, vars, gate
  <1> QED
    BY <1>1, <1>2, <1>3, <1>4, <1>5, <1>6 DEF Next, Handler, Holds

\* What a commit leaves the handler with.
LEMMA CommitHolds ==
    ASSUME TypeOK, NEW t \in Session, DeliverCommit(t)
    PROVE  /\ handler[t] = "binding" /\ sent' = sent
           /\ \/ Idle(t)' /\ tx'[t] = NoTx
              \/ /\ handler'[t] = "sending" /\ tx'[t].pick = tx[t].pick
                 /\ tx[t].pick \in Cmd /\ own[tx[t].pick] # t /\ own'[tx[t].pick] = t
           /\ \A v \in Cmd : own'[v] = own[v] \/ (v = tx[t].pick /\ own'[v] = t)
  BY DEF DeliverCommit, Idle, TakesOver, TypeOK, NoTx

\* What sending leaves the handler with.
LEMMA SendHolds ==
    ASSUME TypeOK, NEW t \in Session, Send(t)
    PROVE  /\ handler[t] = "sending" /\ Idle(t)' /\ tx'[t] = NoTx
           /\ sent'[t] = sent[t] \cup {tx[t].pick}
  BY DEF Send, Idle, TypeOK

\* Handlers that are neither binding nor sending stay without a transaction.
LEMMA NextIdle ==
    TypeOK /\ Wired /\ IdleFree /\ [Next]_vars => IdleFree'
  <1> SUFFICES ASSUME TypeOK, Wired, IdleFree, [Next]_vars, NEW t \in Session, Idle(t)'
               PROVE  tx'[t] = NoTx
    BY DEF IdleFree
  <1>1. Holds(t)
    BY NextHolds
  <1>2. ~DeliverBegin(t)
    BY DEF DeliverBegin, Idle, TypeOK
  <1>3. CASE DeliverCommit(t)
    BY <1>3, CommitHolds DEF Idle
  <1>4. CASE Send(t)
    BY <1>4, SendHolds
  <1>5. CASE tx'[t] = tx[t] /\ handler'[t] = handler[t]
    BY <1>5 DEF IdleFree, Idle
  <1> QED
    BY <1>1, <1>2, <1>3, <1>4, <1>5 DEF Holds, IdleFree

-----------------------------------------------------------------------------
(***************************************************************************)
(* A canceled operation.                                                   *)
(***************************************************************************)

\* What has been sent, or is about to be, has a command row.
SentHasRow ==
    \A d \in Diag, s \in Session :
        d \in sent[s] \/ (handler[s] = "sending" /\ tx[s].pick = d) => cmd[d] # "none"

LEMMA NextSentHasRow ==
    TypeOK /\ Wired /\ LocksHold /\ SentHasRow /\ [Next]_vars => SentHasRow'
  <1> SUFFICES ASSUME TypeOK, Wired, LocksHold, SentHasRow, [Next]_vars,
                      NEW d \in Diag, NEW s \in Session,
                      (d \in sent[s] \/ (handler[s] = "sending" /\ tx[s].pick = d))'
               PROVE  cmd'[d] # "none"
    BY DEF SentHasRow
  <1>1. d \in Op /\ d \in Cmd /\ WorkOf(d) = d /\ d # None /\ d \notin Step
    BY KindsAssumption DEF Op, Cmd, WorkOf
  <1>2. cmd[d] # "none" => cmd'[d] # "none"
    <2>1. Effect(d)
      BY <1>1, NextEffect
    <2>2. \A u \in Diag \cup Step : WorkOf(u) = d => u = d
      BY <1>1, OperationCmds DEF Cmd
    <2>3. CreateOperation(d) \/ CancelOperation(d) => cmd' = cmd
      BY DEF CreateOperation, CancelOperation
    <2>4. Acks(d, "acknowledged") \/ Acks(d, "running") => cmd'[d] # "none"
      BY DEF Acks, Advance
    <2>5. \A st : Acks(d, st) => cmd'[d] # "none"
      BY <2>4 DEF Acks
    <2>6. \A st : Results(d, st) => cmd'[d] # "none"
      BY DEF Results, Terminal
    <2>7. d \notin Mod
      BY KindsAssumption
    <2>8. Keeps(d) \/ Expires(d) \/ Delivers(d) => (cmd[d] # "none" => cmd'[d] # "none")
      BY <1>1 DEF Keeps, KeepsCmd, Expires, Delivers
    <2> QED
      BY <2>1, <2>2, <2>3, <2>5, <2>6, <2>7, <2>8 DEF Effect
  <1>3. CASE DeliverCommit(s)
    <2>1. d \in sent[s] \/ tx[s].pick = d
      BY <1>3, CommitHolds DEF Idle
    <2>2. CASE d \in sent[s]
      BY <1>2, <2>2 DEF SentHasRow
    <2>3. CASE tx[s].pick = d /\ cmd[d] = "none"
      BY <1>1, <1>3, <2>3 DEF DeliverCommit
    <2> QED
      BY <1>2, <2>1, <2>2, <2>3
  <1>4. CASE Send(s)
    BY <1>2, <1>4, SendHolds DEF SentHasRow, Idle
  <1>5. CASE DeliverBegin(s)
    <2>1. handler'[s] = "binding" /\ sent' = sent
      BY <1>5 DEF DeliverBegin, TypeOK
    <2> QED
      BY <1>2, <2>1 DEF SentHasRow
  <1>6. CASE ~DeliverBegin(s) /\ ~DeliverCommit(s) /\ ~Send(s)
    <2>1. d \in sent[s] \/ (handler[s] = "sending" /\ tx[s].pick = d)
      BY <1>1, <1>6, NextHolds DEF Holds, Idle, NoTx
    <2> QED
      BY <1>2, <2>1 DEF SentHasRow
  <1> QED
    BY <1>3, <1>4, <1>5, <1>6

\* Cancellation and a delivery under way exclude each other: a canceled operation
\* was never given to an agent and is in no handler's hands.
THEOREM CancellationHolds == Spec => []CanceledNeverSent
  <1>1. Init => Wired /\ LocksHold /\ IdleFree /\ SentHasRow
    BY DEF Init, Wired, LocksHold, NoTx, IdleFree, SentHasRow
  <1>2. TypeOK /\ LocksHold /\ IdleFree /\ SentHasRow /\ OperationRows => CanceledNeverSent
    <2> SUFFICES ASSUME LocksHold, IdleFree, SentHasRow, OperationRows, NEW d \in Diag,
                        op[d] = "canceled", stored[d] = None, NEW s \in Session
                 PROVE  d \notin sent[s] /\ tx[s].pick # d
      BY DEF CanceledNeverSent
    <2>1. cmd[d] = "none"
      BY DEF OperationRows, DiagRows, Terminal
    <2>2. d \notin sent[s] /\ ~(handler[s] = "sending" /\ tx[s].pick = d)
      BY <2>1 DEF SentHasRow
    <2>3. handler[s] = "binding" => tx[s].pick # d
      BY DEF LocksHold, DecisionHolds
    <2>4. Idle(s) => tx[s].pick # d
      BY KindsAssumption DEF IdleFree, NoTx, Cmd
    <2> QED
      BY <2>2, <2>3, <2>4 DEF Idle
  <1> QED
    BY <1>1, <1>2, InitType, InitRows, NextType, NextWired, NextLocks, NextRows, NextIdle,
       NextSentHasRow, PTL DEF Spec

-----------------------------------------------------------------------------
(***************************************************************************)
(* One frame per session.  deliver_next reads the session without a lock,  *)
(* so a replaced session may still take a delivery over.  It can do so at  *)
(* most once: whoever sent a command either still owns its delivery or has *)
(* been closed, and a closed session selects nothing.                      *)
(***************************************************************************)
Out(s, u) == u \in sent[s] \/ (handler[s] = "sending" /\ tx[s].pick = u)

Picks(s, u) == handler[s] = "binding" /\ tx[s].pick = u

OneOpen == \A s, t \in Session : sess[s] = "open" /\ sess[t] = "open" => s = t

Ownership ==
    /\ \A s \in Session : sess[s] = "unused" => sent[s] = {}
    /\ \A s \in Session, u \in Cmd : Out(s, u) => own[u] = s \/ sess[s] = "closed"
    /\ \A s \in Session, u \in Cmd : Picks(s, u) /\ u \in sent[s] => own[u] = s
    /\ \A s, t \in Session, u \in Cmd :
         s # t /\ Picks(t, u) /\ Out(s, u) => sess[s] = "closed"

\* A session is opened once, and every other step leaves it alone or closes it.
LEMMA NextSess ==
    ASSUME TypeOK, [Next]_vars
    PROVE  \/ \E s \in Session : Connect(s)
           \/ \A t \in Session : sess'[t] = sess[t] \/ (sess[t] = "open" /\ sess'[t] = "closed")
  <1>1. ASSUME NEW s \in Session, CloseSession(s)
        PROVE  \A t \in Session : sess'[t] = sess[t] \/ (sess[t] = "open" /\ sess'[t] = "closed")
    BY <1>1, SMTT(30) DEF CloseSession, TypeOK
  <1>2. ASSUME NEW s \in Session,
               \/ ConnectRefresh(s) \/ DeliverBegin(s) \/ DeliverRejected(s) \/ DeliverCommit(s)
               \/ Send(s) \/ Heartbeat(s) \/ RecordAck(s) \/ RejectAck(s) \/ RecordResult(s)
               \/ ReplayResult(s) \/ RejectResult(s) \/ Disconnected(s) \/ HandlerFails(s)
        PROVE  sess' = sess
    BY <1>2 DEF ConnectRefresh, DeliverBegin, DeliverRejected, DeliverCommit, Send, Heartbeat,
       RecordAck, RejectAck, RecordResult, ReplayResult, RejectResult, Disconnected, HandlerFails
  <1>3. ASSUME NEW st, AgentReceives(st) \/ AgentAnswers(st) PROVE sess' = sess
    BY <1>3 DEF AgentReceives, AgentAnswers, gate
  <1>4. ASSUME \/ \E d \in Diag : CreateOperation(d) \/ CancelOperation(d)
               \/ \E m \in Mod : CreateModuleOperation(m) \/ RevokeVersion(m)
               \/ \E c \in Coll : RequestCollection(c)
               \/ \E w \in Work : DeadlinePasses(w)
               \/ ExpireOperations \/ ExpireScheduled \/ ServerRestart
               \/ AgentResends \/ AgentLosesLink \/ UNCHANGED vars
        PROVE  sess' = sess
    BY <1>4 DEF CreateOperation, CancelOperation, CreateModuleOperation, RevokeVersion,
       RequestCollection, DeadlinePasses, ExpireOperations, ExpireScheduled, ServerRestart,
       AgentResends, AgentLosesLink, vars, gate
  <1> QED
    BY <1>1, <1>2, <1>3, <1>4 DEF Next, Handler

\* Only a delivery commit changes who owns a delivery.
LEMMA NextOwn ==
    ASSUME TypeOK, [Next]_vars, \A s \in Session : ~DeliverCommit(s)
    PROVE  own' = own
  <1>1. ASSUME NEW s \in Session,
               \/ Connect(s) \/ ConnectRefresh(s) \/ DeliverBegin(s) \/ DeliverRejected(s)
               \/ Send(s) \/ Heartbeat(s) \/ RecordAck(s) \/ RejectAck(s) \/ RecordResult(s)
               \/ ReplayResult(s) \/ RejectResult(s) \/ Disconnected(s) \/ HandlerFails(s)
               \/ CloseSession(s)
        PROVE  own' = own
    BY <1>1 DEF Connect, ConnectRefresh, DeliverBegin, DeliverRejected, Send, Heartbeat,
       RecordAck, RejectAck, RecordResult, ReplayResult, RejectResult, Disconnected,
       HandlerFails, CloseSession, rows
  <1>2. ASSUME NEW st, AgentReceives(st) \/ AgentAnswers(st) PROVE own' = own
    BY <1>2 DEF AgentReceives, AgentAnswers, rows
  <1>3. ASSUME \/ \E d \in Diag : CreateOperation(d) \/ CancelOperation(d)
               \/ \E m \in Mod : CreateModuleOperation(m) \/ RevokeVersion(m)
               \/ \E c \in Coll : RequestCollection(c)
               \/ \E w \in Work : DeadlinePasses(w)
               \/ ExpireOperations \/ ExpireScheduled \/ ServerRestart
               \/ AgentResends \/ AgentLosesLink \/ UNCHANGED vars
        PROVE  own' = own
    BY <1>3 DEF CreateOperation, CancelOperation, CreateModuleOperation, RevokeVersion,
       RequestCollection, DeadlinePasses, ExpireOperations, ExpireScheduled, ServerRestart,
       AgentResends, AgentLosesLink, vars, rows
  <1> QED
    BY <1>1, <1>2, <1>3 DEF Next, Handler

\* What a handler has out or picks was out or picked before, unless it is the one
\* that commits or begins.
LEMMA NextOut ==
    ASSUME TypeOK, Wired, [Next]_vars, NEW s \in Session, NEW u \in Cmd
    PROVE  /\ Out(s, u)' => \/ Out(s, u)
                            \/ DeliverCommit(s) /\ Picks(s, u) /\ own[u] # s /\ own'[u] = s
           /\ Picks(s, u)' => Picks(s, u) \/ DeliverBegin(s)
           /\ Picks(s, u)' /\ ~DeliverBegin(s) => sent'[s] = sent[s]
  <1>1. u # None
    BY KindsAssumption
  <1>2. Holds(s)
    BY NextHolds
  <1>3. CASE DeliverBegin(s)
    <2>1. handler'[s] = "binding" /\ sent' = sent
      BY <1>3 DEF DeliverBegin, TypeOK
    <2> QED
      BY <1>3, <2>1 DEF Out
  <1>4. CASE DeliverCommit(s)
    BY <1>4, CommitHolds DEF Out, Picks, Idle
  <1>5. CASE Send(s)
    BY <1>5, SendHolds DEF Out, Picks, Idle
  <1>6. CASE /\ sent'[s] = sent[s]
             /\ tx'[s] = tx[s] /\ handler'[s] = handler[s]
    BY <1>6 DEF Out, Picks
  <1>7. CASE sent'[s] = sent[s] /\ Idle(s)'
    BY <1>7 DEF Out, Picks, Idle
  <1> QED
    BY <1>2, <1>3, <1>4, <1>5, <1>6, <1>7 DEF Holds

\* A selected command was selected on an open session.
LEMMA BeginOpen ==
    ASSUME TypeOK, NEW s \in Session, NEW u \in Cmd, DeliverBegin(s), Picks(s, u)'
    PROVE  sess[s] = "open" /\ sent' = sent /\ UNCHANGED <<own, sess>>
  <1>1. u # None
    BY KindsAssumption
  <1>2. \A v, L, R : Selects(s, v, L, R) => tx'[s].pick = v /\ (v # None => sess[s] = "open")
    BY DEF Selects, TypeOK
  <1>3. tx'[s].pick # None => sess[s] = "open"
    BY <1>2 DEF DeliverBegin
  <1> QED
    BY <1>1, <1>3 DEF DeliverBegin, Picks, rows

\* At most one session of the device is open.
LEMMA NextOneOpen == TypeOK /\ OneOpen /\ [Next]_vars => OneOpen'
  <1> SUFFICES ASSUME TypeOK, OneOpen, [Next]_vars PROVE OneOpen'
    OBVIOUS
  <1>1. ASSUME NEW s \in Session, Connect(s) PROVE OneOpen'
    BY <1>1 DEF Connect, OneOpen
  <1> QED
    BY <1>1, NextSess DEF OneOpen

\* Two handlers never pick the same command.
LEMMA PicksExclude ==
    ASSUME LocksHold, NEW s \in Session, NEW t \in Session, s # t, NEW u \in Cmd, Picks(s, u)
    PROVE  ~Picks(t, u)
  BY KindsAssumption DEF LocksHold, DecisionHolds, Picks

\* Every step keeps the ownership.
LEMMA NextOwnership ==
    TypeOK /\ Wired /\ LocksHold /\ OneOpen /\ Ownership /\ [Next]_vars => Ownership'
  <1> SUFFICES ASSUME TypeOK, Wired, LocksHold, OneOpen, Ownership, [Next]_vars
               PROVE  Ownership'
    OBVIOUS
  <1>0. \A s \in Session, u \in Cmd : Out(s, u) => sess[s] # "unused"
    BY DEF Ownership, Out, Wired
  <1>1. \A s \in Session : /\ sess[s] = "closed" => sess'[s] = "closed"
                           /\ sess'[s] = "unused" => sess[s] = "unused"
                           /\ sess[s] # "unused" /\ sess[s] # "open" => sess'[s] = "closed"
    <2>1. ASSUME NEW s \in Session, Connect(s), NEW t \in Session
          PROVE  /\ sess[t] = "closed" => sess'[t] = "closed"
                 /\ sess'[t] = "unused" => sess[t] = "unused"
      BY <2>1 DEF Connect
    <2> QED
      BY <2>1, NextSess DEF TypeOK
  <1>2. ASSUME NEW s \in Session, sess'[s] = "unused" PROVE sent'[s] = {}
    <2>1. sess[s] = "unused" /\ handler[s] = "none" /\ sent[s] = {}
      BY <1>1, <1>2 DEF Wired, Ownership
    <2>2. ~DeliverBegin(s) /\ ~DeliverCommit(s) /\ ~Send(s)
      BY <2>1 DEF DeliverBegin, DeliverCommit, Send
    <2> QED
      BY <2>1, <2>2, NextHolds DEF Holds
  <1>3. ASSUME NEW s \in Session, NEW u \in Cmd, Out(s, u)'
        PROVE  own'[u] = s \/ sess'[s] = "closed"
    <2>1. CASE ~Out(s, u)
      BY <1>3, <2>1, NextOut
    <2>2. CASE Out(s, u) /\ own'[u] = own[u]
      BY <1>1, <2>2 DEF Ownership
    <2>3. CASE Out(s, u) /\ own'[u] # own[u]
      <3>1. PICK t \in Session : DeliverCommit(t)
        BY <2>3, NextOwn
      <3>2. Picks(t, u) /\ own'[u] = t
        BY <2>3, <3>1, CommitHolds DEF Picks
      <3>3. t = s \/ sess[s] = "closed"
        BY <2>3, <3>2 DEF Ownership
      <3> QED
        BY <1>1, <3>2, <3>3
    <2> QED
      BY <2>1, <2>2, <2>3
  <1>4. ASSUME NEW s \in Session, NEW u \in Cmd, Picks(s, u)', u \in sent'[s]
        PROVE  own'[u] = s
    <2>1. CASE DeliverBegin(s)
      <3>1. sess[s] = "open" /\ u \in sent[s] /\ own' = own
        BY <1>4, <2>1, BeginOpen
      <3> QED
        BY <3>1 DEF Ownership, Out
    <2>2. CASE ~DeliverBegin(s)
      <3>1. Picks(s, u) /\ u \in sent[s]
        BY <1>4, <2>2, NextOut
      <3>2. own[u] = s
        BY <3>1 DEF Ownership
      <3>3. ASSUME NEW t \in Session, DeliverCommit(t) PROVE own'[u] = own[u] \/ own'[u] = s
        <4>1. CASE t = s
          BY <3>3, <4>1, CommitHolds
        <4>2. CASE t # s
          BY <3>1, <3>3, <4>2, CommitHolds, PicksExclude DEF Picks
        <4> QED
          BY <4>1, <4>2
      <3> QED
        BY <3>2, <3>3, NextOwn
    <2> QED
      BY <2>1, <2>2
  <1>5. ASSUME NEW s \in Session, NEW t \in Session, NEW u \in Cmd, s # t,
               Picks(t, u)', Out(s, u)'
        PROVE  sess'[s] = "closed"
    <2>1. CASE DeliverBegin(t)
      <3>1. sess[t] = "open" /\ ~DeliverCommit(s)
        <4>1. sess[t] = "open"
          BY <1>5, <2>1, BeginOpen
        <4>2. handler'[s] = handler[s]
          BY <1>5, <2>1 DEF DeliverBegin, TypeOK
        <4> QED
          BY <4>1, <4>2, CommitHolds DEF Idle
      <3>2. Out(s, u)
        BY <1>5, <3>1, NextOut
      <3>3. sess[s] # "open" /\ sess[s] # "unused"
        BY <1>0, <1>5, <3>1, <3>2 DEF OneOpen
      <3> QED
        BY <1>1, <3>3
    <2>2. CASE ~DeliverBegin(t)
      <3>1. Picks(t, u)
        BY <1>5, <2>2, NextOut
      <3>2. ~Picks(s, u)
        BY <1>5, <3>1, PicksExclude
      <3>3. Out(s, u)
        BY <1>5, <3>2, NextOut
      <3> QED
        BY <1>1, <1>5, <3>1, <3>3 DEF Ownership
    <2> QED
      BY <2>1, <2>2
  <1> QED
    BY <1>2, <1>3, <1>4, <1>5 DEF Ownership

\* No session is given the frame of a command twice, although the session row is
\* read without a lock and replaced sessions go on delivering.
THEOREM SentOnce == Spec => []NeverSentTwice
  <1>1. Init => Wired /\ LocksHold /\ OneOpen /\ Ownership /\ NeverSentTwice
    BY DEF Init, Wired, LocksHold, OneOpen, Ownership, Out, Picks, NeverSentTwice, NoTx
  <1>2. TypeOK /\ Wired /\ Ownership /\ NeverSentTwice /\ [Next]_vars => NeverSentTwice'
    <2> SUFFICES ASSUME TypeOK, Wired, Ownership, NeverSentTwice, [Next]_vars,
                        NEW s \in Session, handler'[s] = "sending"
                 PROVE  tx'[s].pick \notin sent'[s]
      BY DEF NeverSentTwice
    <2>1. Holds(s)
      BY NextHolds
    <2>2. ~DeliverBegin(s)
      BY DEF DeliverBegin, TypeOK
    <2>3. CASE DeliverCommit(s)
      BY <2>3, CommitHolds DEF Ownership, Picks, Idle
    <2>4. ~Send(s)
      BY SendHolds DEF Idle
    <2> QED
      BY <2>1, <2>2, <2>3, <2>4 DEF Holds, Idle, NeverSentTwice
  <1> QED
    BY <1>1, <1>2, InitType, NextType, NextWired, NextLocks, NextOneOpen, NextOwnership, PTL
       DEF Spec

-----------------------------------------------------------------------------
(***************************************************************************)
(* Steps in order.                                                         *)
(***************************************************************************)

\* Every earlier step of the recipe has its stored success.
Prepared(u) ==
    \A v \in Step : v[1] = u[1] /\ v[2] < u[2] => step[v] = "succeeded" /\ stored[v] # None

\* The step is at the agent, or a handler is about to send it.
Held(u) ==
    \/ u = busy
    \/ \E s \in Session : \E i \in 1 .. Len(down[s]) : down[s][i] = u
    \/ \E s \in Session : handler[s] = "sending" /\ tx[s].pick = u

HeldPrepared == \A u \in Step : Held(u) => Prepared(u)

\* A stored success of a step stays.
LEMMA PreparedStays ==
    ASSUME TypeOK, LocksHold, OperationRows, [Next]_vars, NEW v \in Step,
           step[v] = "succeeded", stored[v] # None
    PROVE  step'[v] = "succeeded" /\ stored'[v] # None
  <1> DEFINE m == v[1]
  <1>1. m \in Mod /\ m \in Op /\ m \notin Diag /\ v \in Cmd /\ WorkOf(v) = m
    BY WorkOfType, KindsAssumption DEF Cmd, Op, Step
  <1>2. Effect(m)
    BY <1>1, NextEffect
  <1>3. op[m] # "none"
    BY DEF OperationRows, StepRows
  <1> HIDE DEF m
  <1>4. Keeps(m) \/ Expires(m) => step'[v] = "succeeded" /\ stored'[v] # None
    BY <1>1 DEF Keeps, KeepsCmd, Expires, Terminal
  <1>5. ~CreateModuleOperation(m)
    BY <1>3 DEF CreateModuleOperation
  <1>6. ASSUME NEW u \in Diag \cup Step, WorkOf(u) = m,
               \/ Delivers(u) \/ \E st \in AckStatus : Acks(u, st)
               \/ \E st \in Terminal : Results(u, st)
        PROVE  step'[v] = "succeeded" /\ stored'[v] # None
    <2>1. u # v
      BY <1>6 DEF Delivers, NextSteps, Acks, Results, Live, InFlight
    <2>2. KeepsCmd(v)
      BY <1>1, <1>6, <2>1 DEF Delivers, Acks, Results, KeepsOthers
    <2> QED
      BY <2>2 DEF KeepsCmd
  <1> QED
    BY <1>1, <1>2, <1>4, <1>5, <1>6 DEF Effect

\* What is held was held before, or is being bound by a commit.
LEMMA NextHeld ==
    ASSUME TypeOK, Wired, [Next]_vars, NEW u \in Step, Held(u)'
    PROVE  Held(u) \/ \E s \in Session : DeliverCommit(s) /\ tx[s].pick = u
  <1>0. u # None
    BY KindsAssumption DEF Cmd
  <1>1. ASSUME NEW s \in Session, handler'[s] = "sending", tx'[s].pick = u
        PROVE  \/ handler[s] = "sending" /\ tx[s].pick = u
               \/ DeliverCommit(s) /\ tx[s].pick = u
    <2>1. Out(s, u)' /\ Holds(s)
      BY <1>1, NextHolds DEF Out
    <2>2. ~DeliverBegin(s)
      BY <1>1 DEF DeliverBegin, TypeOK
    <2>3. ~Send(s)
      BY <1>1, SendHolds DEF Idle
    <2>4. DeliverCommit(s) => tx[s].pick = u
      BY <1>1, CommitHolds DEF Idle
    <2> QED
      BY <1>1, <2>1, <2>2, <2>3, <2>4 DEF Holds, Idle
  <1>2. CASE UNCHANGED <<busy, down>>
    BY <1>1, <1>2 DEF Held
  <1>3. ASSUME NEW s \in Session, Send(s) PROVE Held(u)
    <2>1. busy' = busy /\ handler[s] = "sending"
      BY <1>3 DEF Send, agent
    <2>2. tx[s].pick \in Cmd
      BY <1>3 DEF Send, Wired, TypeOK
    <2>3. ASSUME NEW t \in Session, NEW i \in 1 .. Len(down'[t]), down'[t][i] = u
          PROVE  Held(u)
      <3>1. CASE down'[t] = down[t]
        BY <2>3, <3>1 DEF Held
      <3>2. CASE down'[t] # down[t]
        <4>1. t = s /\ down'[t] = Append(down[t], tx[s].pick) /\ down[t] \in Seq(Cmd)
          BY <1>3, <3>2 DEF Send, TypeOK
        <4>2. (i \in 1 .. Len(down[t]) /\ down[t][i] = u) \/ tx[s].pick = u
          BY <2>2, <2>3, <4>1
        <4> QED
          BY <2>1, <4>2 DEF Held
      <3> QED
        BY <3>1, <3>2
    <2>4. ~DeliverCommit(s) /\ \A t \in Session : ~DeliverCommit(t)
      BY <1>3 DEF Send, DeliverCommit, TypeOK
    <2> QED
      BY <1>1, <2>1, <2>3, <2>4 DEF Held
  <1>4. ASSUME NEW st, AgentReceives(st) PROVE Held(u)
    <2>1. /\ link \in Session /\ down[link] \in Seq(Cmd) /\ down[link] # << >>
          /\ busy' = Head(down[link]) /\ down' = [down EXCEPT ![link] = Tail(@)]
          /\ UNCHANGED <<handler, tx>>
      BY <1>4 DEF AgentReceives, TypeOK, gate
    <2>2. CASE busy' = u
      <3>1. 1 \in 1 .. Len(down[link]) /\ down[link][1] = u
        BY <2>1, <2>2
      <3> QED
        BY <2>1, <3>1 DEF Held
    <2>3. ASSUME NEW t \in Session, NEW i \in 1 .. Len(down'[t]), down'[t][i] = u
          PROVE  Held(u)
      <3>1. CASE t # link
        <4>1. down'[t] = down[t]
          BY <2>1, <3>1 DEF TypeOK
        <4> QED
          BY <2>3, <4>1 DEF Held
      <3>2. CASE t = link
        <4>1. down'[t] = Tail(down[t])
          BY <2>1, <3>2 DEF TypeOK
        <4>2. /\ down[t] \in Seq(Cmd) /\ down[t] # << >>
              /\ i \in 1 .. Len(Tail(down[t])) /\ Tail(down[t])[i] = u
          BY <2>1, <2>3, <3>2, <4>1
        <4>3. Len(down[t]) \in Nat /\ Len(Tail(down[t])) = Len(down[t]) - 1
          BY <4>2
        <4>4. i + 1 \in 1 .. Len(down[t])
          BY <4>2, <4>3
        <4>5. Tail(down[t])[i] = down[t][i + 1]
          BY <4>2, <4>3
        <4> QED
          BY <4>2, <4>4, <4>5 DEF Held
      <3> QED
        BY <3>1, <3>2
    <2> QED
      BY <2>1, <2>2, <2>3 DEF Held
  <1>5. ASSUME NEW st, AgentAnswers(st) PROVE Held(u)
    <2>1. busy' = None /\ UNCHANGED <<handler, tx, down>>
      BY <1>5 DEF AgentAnswers, gate
    <2> QED
      BY <1>0, <2>1 DEF Held
  <1>6. ASSUME AgentLosesLink PROVE Held(u)
    <2>1. /\ busy' = None /\ UNCHANGED <<handler, tx>> /\ link \in Session
          /\ down' = [down EXCEPT ![link] = << >>]
      BY <1>6 DEF AgentLosesLink, gate, TypeOK
    <2>2. ASSUME NEW t \in Session, NEW i \in 1 .. Len(down'[t]), down'[t][i] = u
          PROVE  Held(u)
      <3>1. t # link /\ down'[t] = down[t]
        BY <2>1, <2>2 DEF TypeOK
      <3> QED
        BY <2>2, <3>1 DEF Held
    <2> QED
      BY <1>0, <2>1, <2>2 DEF Held
  <1>7. ASSUME NEW s \in Session,
               \/ Connect(s) \/ ConnectRefresh(s) \/ DeliverBegin(s) \/ DeliverRejected(s)
               \/ DeliverCommit(s) \/ Heartbeat(s) \/ RecordAck(s) \/ RejectAck(s)
               \/ RecordResult(s) \/ ReplayResult(s) \/ RejectResult(s) \/ Disconnected(s)
               \/ HandlerFails(s) \/ CloseSession(s)
        PROVE  UNCHANGED <<busy, down>>
    BY <1>7 DEF Connect, ConnectRefresh, DeliverBegin, DeliverRejected, DeliverCommit, Heartbeat,
       RecordAck, RejectAck, RecordResult, ReplayResult, RejectResult, Disconnected,
       HandlerFails, CloseSession, agent
  <1>8. ASSUME \/ \E d \in Diag : CreateOperation(d) \/ CancelOperation(d)
               \/ \E m \in Mod : CreateModuleOperation(m) \/ RevokeVersion(m)
               \/ \E c \in Coll : RequestCollection(c)
               \/ \E w \in Work : DeadlinePasses(w)
               \/ ExpireOperations \/ ExpireScheduled \/ ServerRestart
               \/ AgentResends \/ UNCHANGED vars
        PROVE  UNCHANGED <<busy, down>>
    BY <1>8 DEF CreateOperation, CancelOperation, CreateModuleOperation, RevokeVersion,
       RequestCollection, DeadlinePasses, ExpireOperations, ExpireScheduled, ServerRestart,
       AgentResends, vars, agent
  <1> QED
    BY <1>2, <1>3, <1>4, <1>5, <1>6, <1>7, <1>8 DEF Next, Handler

\* Every step keeps what is held prepared.
LEMMA NextPrepared ==
    TypeOK /\ Wired /\ LocksHold /\ OperationRows /\ HeldPrepared /\ [Next]_vars
        => HeldPrepared'
  <1> SUFFICES ASSUME TypeOK, Wired, LocksHold, OperationRows, HeldPrepared, [Next]_vars,
                      NEW u \in Step, Held(u)'
               PROVE  Prepared(u)'
    BY DEF HeldPrepared
  <1>1. ASSUME NEW s \in Session, DeliverCommit(s), tx[s].pick = u PROVE Prepared(u)
    <2>1. u \in NextSteps(u[1])
      BY <1>1 DEF LocksHold, DecisionHolds, DeliverCommit
    <2>2. u[1] \in Mod
      BY DEF Step
    <2>3. u \in StepsOf(u[1]) /\ \A v \in Step : v[1] = u[1] => v \in StepsOf(u[1])
      BY <2>2, ChainSteps
    <2>4. \A v \in StepsOf(u[1]) : v[2] < u[2] => step[v] = "succeeded"
      <3>1. CASE step[u] = "delivered"
        BY <2>2, <2>3, <3>1 DEF OperationRows, ChainRows, InFlight
      <3>2. CASE step[u] # "delivered"
        BY <2>1, <3>2 DEF NextSteps
      <3> QED
        BY <3>1, <3>2
    <2>5. \A v \in Step : step[v] = "succeeded" => stored[v] # None
      BY DEF OperationRows, StepRows, Terminal
    <2> QED
      BY <2>3, <2>4, <2>5 DEF Prepared
  <1>2. Prepared(u)
    BY <1>1, NextHeld DEF HeldPrepared
  <1> QED
    BY <1>2, PreparedStays DEF Prepared

\* A later step of a recipe is at the agent only when every earlier one has its
\* stored success, across reconnects, redeliveries and server restarts.
THEOREM RecipeInOrder == Spec => []StepsInOrder
  <1>1. Init => Wired /\ LocksHold /\ HeldPrepared
    <2> SUFFICES ASSUME Init PROVE Wired /\ LocksHold /\ HeldPrepared
      OBVIOUS
    <2>1. Wired /\ LocksHold
      BY DEF Init, Wired, LocksHold, NoTx
    <2>2. \A u \in Step : ~Held(u)
      BY KindsAssumption DEF Init, Held, Cmd
    <2> QED
      BY <2>1, <2>2 DEF HeldPrepared
  <1>2. TypeOK /\ HeldPrepared => StepsInOrder
    <2> SUFFICES ASSUME TypeOK, HeldPrepared, NEW u \in AtAgent \cap Step PROVE Prepared(u)
      BY DEF StepsInOrder, Prepared
    <2>1. CASE u = busy
      BY <2>1 DEF HeldPrepared, Held
    <2>2. CASE u # busy
      <3>1. PICK s \in Session : \E i \in DOMAIN down[s] : down[s][i] = u
        <4>1. u \in UNION {{down[s][i] : i \in DOMAIN down[s]} : s \in Session}
          BY <2>2 DEF AtAgent
        <4> QED
          BY <4>1, Zenon
      <3>2. DOMAIN down[s] = 1 .. Len(down[s])
        BY DEF TypeOK
      <3> QED
        BY <3>1, <3>2 DEF HeldPrepared, Held
    <2> QED
      BY <2>1, <2>2
  <1> QED
    BY <1>1, <1>2, InitType, InitRows, NextType, NextWired, NextLocks, NextRows, NextPrepared,
       PTL DEF Spec

-----------------------------------------------------------------------------
(***************************************************************************)
(* The refinement of OperationPromise.  Each effect a step can have on the *)
(* rows of one operation is mapped to what the caller of that operation    *)
(* sees: its phase and the pieces done.                                    *)
(***************************************************************************)

\* The caller sees no difference.
Unseen(w) == phaseBar'[w] = phaseBar[w] /\ doneBar'[w] = doneBar[w]

\* The mapped phase and pieces of a diagnostic operation, before and after a step.
LEMMA DiagBar ==
    ASSUME NEW d \in Diag
    PROVE  /\ phaseBar[d] = IF op[d] \in {"none"} \cup Terminal THEN op[d]
                            ELSE IF op[d] = "queued" THEN "waiting" ELSE "out"
           /\ phaseBar'[d] = IF op'[d] \in {"none"} \cup Terminal THEN op'[d]
                             ELSE IF op'[d] = "queued" THEN "waiting" ELSE "out"
           /\ doneBar[d] = {i \in {0} : op[d] = "succeeded"}
           /\ doneBar'[d] = {i \in {0} : op'[d] = "succeeded"}
  BY KindsAssumption DEF phaseBar, doneBar, Op

\* The mapped phase and pieces of a module operation, before and after a step.
LEMMA ModBar ==
    ASSUME NEW m \in Mod
    PROVE  /\ phaseBar[m] = IF op[m] \in {"none"} \cup Terminal THEN op[m]
                            ELSE IF \E u \in StepsOf(m) : step[u] \in InFlight
                              THEN "out" ELSE "waiting"
           /\ phaseBar'[m] = IF op'[m] \in {"none"} \cup Terminal THEN op'[m]
                             ELSE IF \E u \in StepsOf(m) : step'[u] \in InFlight
                               THEN "out" ELSE "waiting"
           /\ doneBar[m] = {i \in 0 .. (StepCount - 1) : step[<<m, i>>] = "succeeded"}
           /\ doneBar'[m] = {i \in 0 .. (StepCount - 1) : step'[<<m, i>>] = "succeeded"}
  <1>1. m \in Op
    BY DEF Op
  <1> QED
    BY <1>1 DEF phaseBar, doneBar, StepOut

\* A step of a recipe is its module and its number.
LEMMA StepPairs ==
    ASSUME NEW m \in Mod
    PROVE  /\ \A i \in 0 .. (StepCount - 1) : /\ <<m, i>> \in StepsOf(m)
                                              /\ <<m, i>>[2] = i
           /\ \A u \in StepsOf(m) : u = <<m, u[2]>> /\ u[2] \in 0 .. (StepCount - 1)
  BY DEF StepsOf

\* The pieces done depend on which steps have succeeded only.
LEMMA SameDone ==
    ASSUME NEW m \in Mod,
           \A u \in StepsOf(m) : step'[u] = "succeeded" <=> step[u] = "succeeded"
    PROVE  doneBar'[m] = doneBar[m]
  <1>1. \A i \in 0 .. (StepCount - 1) :
           step'[<<m, i>>] = "succeeded" <=> step[<<m, i>>] = "succeeded"
    BY StepPairs
  <1>2. {i \in 0 .. (StepCount - 1) : step'[<<m, i>>] = "succeeded"}
          = {i \in 0 .. (StepCount - 1) : step[<<m, i>>] = "succeeded"}
    BY <1>1
  <1>3. /\ doneBar[m] = {i \in 0 .. (StepCount - 1) : step[<<m, i>>] = "succeeded"}
        /\ doneBar'[m] = {i \in 0 .. (StepCount - 1) : step'[<<m, i>>] = "succeeded"}
    BY ModBar
  <1> QED
    BY <1>2, <1>3

\* Rows that are kept show the caller nothing.
LEMMA KeepsUnseen ==
    ASSUME NEW w \in Op, Keeps(w)
    PROVE  Unseen(w)
  <1>1. CASE w \in Diag
    BY <1>1, DiagBar DEF Unseen, Keeps
  <1>2. CASE w \in Mod
    <2>1. op'[w] = op[w] /\ \A u \in StepsOf(w) : step'[u] = step[u]
      BY <1>2, ChainSteps DEF Keeps, KeepsCmd
    <2>2. phaseBar'[w] = phaseBar[w]
      BY <1>2, <2>1, ModBar
    <2>3. doneBar'[w] = doneBar[w]
      BY <1>2, <2>1, SameDone
    <2> QED
      BY <2>2, <2>3 DEF Unseen
  <1> QED
    BY <1>1, <1>2 DEF Op

\* Expiry ends a waiting or dispatched operation and leaves its pieces.
LEMMA ExpiresSeen ==
    ASSUME NEW w \in Op, Expires(w)
    PROVE  /\ phaseBar[w] \in {"waiting", "out"} /\ phaseBar'[w] = "expired"
           /\ doneBar'[w] = doneBar[w]
  <1>0. op[w] \in Active /\ op[w] \notin {"none"} \cup Terminal
    BY DEF Expires, Active, InFlight, Terminal
  <1>1. op'[w] = "expired" /\ "expired" \in Terminal /\ op[w] # "succeeded"
    BY <1>0 DEF Expires, Terminal
  <1>2. CASE w \in Diag
    BY <1>0, <1>1, <1>2, DiagBar
  <1>3. CASE w \in Mod
    <2>1. \A u \in StepsOf(w) : step'[u] = "succeeded" <=> step[u] = "succeeded"
      BY <1>3, ChainSteps DEF Expires, Terminal
    <2> QED
      BY <1>0, <1>1, <1>3, <2>1, ModBar, SameDone
  <1> QED
    BY <1>2, <1>3 DEF Op

Dispatches(w) == \E u \in Diag \cup Step : WorkOf(u) = w /\ Delivers(u)

\* A new command is a piece of a waiting operation going out.
LEMMA DispatchSeen ==
    ASSUME OperationRows, NEW w \in Op, Dispatches(w)
    PROVE  /\ phaseBar[w] = "waiting" /\ phaseBar'[w] = "out"
           /\ doneBar'[w] = doneBar[w]
  <1>0. PICK u \in Diag \cup Step : WorkOf(u) = w /\ Delivers(u)
    BY DEF Dispatches
  <1>1. CASE w \in Diag
    <2>1. op[w] = "queued" /\ op'[w] = "delivered"
      BY <1>0, <1>1, OperationCmds DEF Delivers, Cmd
    <2> QED
      BY <1>1, <2>1, DiagBar DEF Terminal
  <1>2. CASE w \in Mod
    <2>1. u \in Step /\ u \in StepsOf(w) /\ u[1] = w
      BY <1>0, <1>2, OperationCmds, ChainSteps DEF Cmd
    <2>2. /\ op[w] \in Active /\ op'[w] = "delivered" /\ step'[u] = "delivered"
          /\ u \in NextSteps(w) /\ cmd[u] = "none"
          /\ \A v \in StepsOf(w) : v # u => step'[v] = step[v]
      BY <1>0, <1>2, <2>1, ChainSteps DEF Delivers, KeepsOthers, KeepsCmd
    <2>3. step[u] = "queued" /\ ActiveSteps(w) = {}
      BY <2>1, <2>2 DEF NextSteps, OperationRows, StepRows, InFlight
    <2>4. \A v \in StepsOf(w) : step[v] \notin InFlight
      BY <2>3 DEF ActiveSteps
    <2>5. \A v \in StepsOf(w) : step'[v] = "succeeded" <=> step[v] = "succeeded"
      BY <2>2, <2>3
    <2>6. op[w] \notin {"none"} \cup Terminal /\ op'[w] \notin {"none"} \cup Terminal
      BY <2>2 DEF Active, InFlight, Terminal
    <2>7. step'[u] \in InFlight
      BY <2>2 DEF InFlight
    <2> QED
      BY <1>2, <2>1, <2>4, <2>5, <2>6, <2>7, ModBar, SameDone
  <1> QED
    BY <1>1, <1>2 DEF Op

\* An acknowledgement shows the caller nothing.
LEMMA AcksUnseen ==
    ASSUME NEW w \in Op, NEW u \in Diag \cup Step, WorkOf(u) = w, NEW st, Acks(u, st)
    PROVE  Unseen(w)
  <1>1. op[w] \in InFlight /\ op'[w] \in InFlight
    BY OperationCmds DEF Acks, Live, Advance, InFlight, Cmd
  <1>2. op[w] \notin {"none", "queued"} \cup Terminal /\ op'[w] \notin {"none", "queued"} \cup Terminal
    BY <1>1 DEF InFlight, Terminal
  <1>3. CASE w \in Diag
    BY <1>2, <1>3, DiagBar DEF Unseen, Terminal
  <1>4. CASE w \in Mod
    <2>1. u \in Step /\ u \in StepsOf(w)
      BY <1>4, OperationCmds, ChainSteps DEF Cmd
    <2>2. step[u] \in InFlight /\ step'[u] \in InFlight
      BY <2>1 DEF Acks, Live, InFlight
    <2>3. \A v \in StepsOf(w) : v # u => step'[v] = step[v]
      BY <1>4, <2>1, ChainSteps DEF Acks, KeepsOthers, KeepsCmd
    <2>4. \A v \in StepsOf(w) : step'[v] = "succeeded" <=> step[v] = "succeeded"
      BY <2>2, <2>3 DEF InFlight
    <2>5. phaseBar'[w] = phaseBar[w]
      BY <1>2, <1>4, <2>1, <2>2, ModBar
    <2> QED
      BY <1>4, <2>4, <2>5, SameDone DEF Unseen
  <1> QED
    BY <1>3, <1>4 DEF Op

\* The first result of a command completes the piece that is out, or fails the
\* operation.
LEMMA ResultsSeen ==
    ASSUME TypeOK, OperationRows, NEW w \in Op, NEW u \in Diag \cup Step, WorkOf(u) = w,
           NEW st \in Terminal, Results(u, st)
    PROVE  /\ phaseBar[w] = "out"
           /\ st # "succeeded" => phaseBar'[w] = st /\ doneBar'[w] = doneBar[w]
           /\ st = "succeeded" =>
                LET size == IF w \in Mod THEN StepCount ELSE 1 IN
                \E k \in 0 .. (size - 1) :
                   /\ doneBar[w] = 0 .. (k - 1) /\ doneBar'[w] = 0 .. k
                   /\ phaseBar'[w] = IF k + 1 = size THEN "succeeded" ELSE "waiting"
  <1>1. op[w] \in InFlight /\ op[w] \notin {"none", "queued"} \cup Terminal
    BY OperationCmds DEF Results, Live, InFlight, Terminal, Cmd
  <1>2. CASE w \in Diag
    <2>1. w \notin Mod /\ op'[w] = st
      BY <1>2, OperationCmds, KindsAssumption DEF Results, Outcome, Cmd
    <2>2. phaseBar[w] = "out" /\ phaseBar'[w] = st
      BY <1>1, <1>2, <2>1, DiagBar
    <2>3. doneBar[w] = {} /\ (st # "succeeded" => doneBar'[w] = {})
      BY <1>1, <1>2, <2>1, DiagBar DEF Terminal
    <2>4. st = "succeeded" => doneBar'[w] = {0}
      BY <1>2, <2>1, DiagBar
    <2>5. 0 .. (0 - 1) = {} /\ 0 .. 0 = {0} /\ 0 \in 0 .. (1 - 1) /\ 0 + 1 = 1
      OBVIOUS
    <2> QED
      BY <2>1, <2>2, <2>3, <2>4, <2>5
  <1>3. CASE w \in Mod
    <2> DEFINE S == StepsOf(w)
    <2>1. u \in Step /\ u \in S /\ u[2] \in Nat /\ u[2] =< StepCount - 1 /\ StepCount \in Nat
      BY <1>3, OperationCmds, ChainSteps DEF Cmd
    <2>2. /\ step[u] \in InFlight /\ step'[u] = st
          /\ op'[w] = Outcome(u, st)
          /\ \A v \in S : v # u => step'[v] = step[v]
      BY <1>3, <2>1, ChainSteps DEF Results, Live, KeepsOthers, KeepsCmd
    <2>3. /\ \A v \in S : v[2] < u[2] => step[v] = "succeeded"
          /\ \A v \in S : u[2] < v[2] => step[v] \notin InFlight \cup {"succeeded"}
      BY <1>3, <2>1, <2>2 DEF OperationRows, ChainRows, InFlight
    <2>4. \A v \in S : v[2] < u[2] \/ u[2] < v[2] \/ v = u
      BY <1>3, <2>1, ChainSteps
    <2>5. phaseBar[w] = "out"
      BY <1>1, <1>3, <2>1, <2>2, ModBar
    <2>6. \A v \in S : step'[v] \notin InFlight
      BY <2>2, <2>3, <2>4 DEF InFlight, Terminal
    <2>7. CASE st # "succeeded"
      <3>1. op'[w] = st
        BY <2>2, <2>7 DEF Outcome
      <3>2. \A v \in S : step'[v] = "succeeded" <=> step[v] = "succeeded"
        BY <2>2, <2>7 DEF InFlight
      <3> QED
        BY <1>3, <2>5, <2>7, <3>1, <3>2, ModBar, SameDone
    <2>8. CASE st = "succeeded"
      <3> DEFINE k == u[2]
      <3>1. \A i \in 0 .. (StepCount - 1) : /\ step[<<w, i>>] = "succeeded" <=> i < k
                                            /\ step'[<<w, i>>] = "succeeded" <=> i =< k
        <4> SUFFICES ASSUME NEW i \in 0 .. (StepCount - 1)
                     PROVE  /\ step[<<w, i>>] = "succeeded" <=> i < k
                            /\ step'[<<w, i>>] = "succeeded" <=> i =< k
          OBVIOUS
        <4> DEFINE v == <<w, i>>
        <4>1. v \in S /\ v[2] = i /\ i \in Nat
          BY <1>3, <2>1, StepPairs
        <4> HIDE DEF v
        <4>2. CASE i < k
          BY <2>1, <2>2, <2>3, <4>1, <4>2 DEF v
        <4>3. CASE k < i
          BY <2>1, <2>2, <2>3, <4>1, <4>3 DEF v
        <4>4. CASE i = k
          <5>1. v = u
            BY <2>1, <2>4, <4>1, <4>4
          <5> QED
            BY <2>1, <2>2, <2>8, <4>1, <4>4, <5>1 DEF v, InFlight
        <4> QED
          BY <2>1, <4>1, <4>2, <4>3, <4>4
      <3>2. {i \in 0 .. (StepCount - 1) : step[<<w, i>>] = "succeeded"} = 0 .. (k - 1)
        BY <2>1, <3>1
      <3>3. {i \in 0 .. (StepCount - 1) : step'[<<w, i>>] = "succeeded"} = 0 .. k
        BY <2>1, <3>1
      <3>4. doneBar[w] = 0 .. (k - 1) /\ doneBar'[w] = 0 .. k
        BY <1>3, <3>2, <3>3, ModBar
      <3>5. op'[w] = IF k + 1 = StepCount THEN "succeeded" ELSE "running"
        BY <2>1, <2>2, <2>8 DEF Outcome, LastStep
      <3>6. phaseBar'[w] = IF k + 1 = StepCount THEN "succeeded" ELSE "waiting"
        <4>1. CASE k + 1 = StepCount
          BY <1>3, <3>5, <4>1, ModBar DEF Terminal
        <4>2. CASE k + 1 # StepCount
          BY <1>3, <2>6, <3>5, <4>2, ModBar DEF Terminal
        <4> QED
          BY <4>1, <4>2
      <3>7. k \in 0 .. (StepCount - 1)
        BY <2>1
      <3> QED
        BY <1>3, <2>5, <2>8, <3>4, <3>6, <3>7
    <2> QED
      BY <2>7, <2>8
  <1> QED
    BY <1>2, <1>3 DEF Op

\* A step touches one operation, or it expires some and dispatches at most one.
LEMMA NextTouches ==
    ASSUME TypeOK, LocksHold, [Next]_vars
    PROVE  \/ \A w \in Op : Keeps(w)
           \/ \E o \in Op : \A w \in Op : w # o => Keeps(w)
           \/ \E o : \A w \in Op : Keeps(w) \/ Expires(w) \/ (w = o /\ Dispatches(w))
  <1>1. ASSUME NEW s \in Session, RecordAck(s)
        PROVE  \/ \A w \in Op : Keeps(w)
               \/ \E o \in Op : \A w \in Op : w # o => Keeps(w)
    BY <1>1, AckEffect
  <1>2. ASSUME NEW s \in Session, RecordResult(s)
        PROVE  \/ \A w \in Op : Keeps(w)
               \/ \E o \in Op : \A w \in Op : w # o => Keeps(w)
    BY <1>2, ResultEffect
  <1>3. ASSUME NEW s \in Session, DeliverCommit(s), NEW w \in Op
        PROVE  Keeps(w) \/ Expires(w) \/ (w = WorkOf(tx[s].pick) /\ Dispatches(w))
    BY <1>3, CommitEffect DEF Dispatches
  <1>4. ASSUME ExpireOperations, NEW w \in Op PROVE Keeps(w) \/ Expires(w)
    BY <1>4, ExpiryEffect
  <1>5. CASE \/ ExpireOperations
             \/ \E s \in Session : DeliverCommit(s) \/ RecordAck(s) \/ RecordResult(s)
    BY <1>1, <1>2, <1>3, <1>4, <1>5
  <1>6. CASE /\ ~ExpireOperations
             /\ ~ \E s \in Session : DeliverCommit(s) \/ RecordAck(s) \/ RecordResult(s)
    <2>1. ASSUME NEW d \in Diag, CreateOperation(d) \/ CancelOperation(d),
                 NEW w \in Op, w # d
          PROVE  Keeps(w)
      <3>1. /\ op'[w] = op[w] /\ (w \in Diag => col'[w] = col[w])
            /\ UNCHANGED <<step, cmd, own, stored>>
        BY <2>1 DEF CreateOperation, CancelOperation, TypeOK
      <3> QED
        BY <3>1 DEF Keeps, KeepsCmd
    <2>2. ASSUME NEW m \in Mod, CreateModuleOperation(m), NEW w \in Op, w # m
          PROVE  Keeps(w)
      <3>1. /\ op'[w] = op[w] /\ UNCHANGED <<col, cmd, own, stored>>
            /\ \A u \in Step : u[1] # m => step'[u] = step[u]
        BY <2>2 DEF CreateModuleOperation, TypeOK
      <3> QED
        BY <2>2, <3>1, OperationCmds DEF Keeps, KeepsCmd
    <2>3. CASE \E d \in Diag : CreateOperation(d) \/ CancelOperation(d)
      BY <2>1, <2>3 DEF Op
    <2>4. CASE \E m \in Mod : CreateModuleOperation(m)
      BY <2>2, <2>4 DEF Op
    <2>5. CASE /\ ~ \E d \in Diag : CreateOperation(d) \/ CancelOperation(d)
               /\ ~ \E m \in Mod : CreateModuleOperation(m)
      BY <1>6, <2>5, OtherwiseKeeps
    <2> QED
      BY <2>3, <2>4, <2>5
  <1> QED
    BY <1>5, <1>6

\* What a request or a cancellation shows.
LEMMA RequestSeen ==
    ASSUME TypeOK, OperationRows, NEW w \in Op
    PROVE  /\ w \in Diag /\ CreateOperation(w) =>
                phaseBar[w] = "none" /\ phaseBar'[w] = "waiting" /\ doneBar'[w] = doneBar[w]
           /\ w \in Mod /\ CreateModuleOperation(w) =>
                phaseBar[w] = "none" /\ phaseBar'[w] = "waiting" /\ doneBar'[w] = doneBar[w]
           /\ w \in Diag /\ CancelOperation(w) =>
                /\ phaseBar[w] = "waiting" /\ phaseBar'[w] = "canceled"
                /\ doneBar[w] = {} /\ doneBar'[w] = doneBar[w]
  <1>1. ASSUME w \in Diag, CreateOperation(w)
        PROVE  phaseBar[w] = "none" /\ phaseBar'[w] = "waiting" /\ doneBar'[w] = doneBar[w]
    <2>1. op[w] = "none" /\ op'[w] = "queued"
      BY <1>1 DEF CreateOperation, TypeOK
    <2> QED
      BY <1>1, <2>1, DiagBar DEF Terminal
  <1>2. ASSUME w \in Diag, CancelOperation(w)
        PROVE  /\ phaseBar[w] = "waiting" /\ phaseBar'[w] = "canceled"
               /\ doneBar[w] = {} /\ doneBar'[w] = doneBar[w]
    <2>1. op[w] = "queued" /\ op'[w] = "canceled"
      BY <1>2 DEF CancelOperation, Cancelable, TypeOK
    <2> QED
      BY <1>2, <2>1, DiagBar DEF Terminal
  <1>3. ASSUME w \in Mod, CreateModuleOperation(w)
        PROVE  phaseBar[w] = "none" /\ phaseBar'[w] = "waiting" /\ doneBar'[w] = doneBar[w]
    <2>1. op[w] = "none" /\ op'[w] = "queued"
      BY <1>3 DEF CreateModuleOperation, TypeOK
    <2>2. \A u \in StepsOf(w) : step[u] = "none" /\ step'[u] = "queued"
      BY <1>3, <2>1, ChainSteps DEF CreateModuleOperation, OperationRows, StepRows
    <2>3. \A u \in StepsOf(w) : step'[u] = "succeeded" <=> step[u] = "succeeded"
      BY <2>2
    <2> QED
      BY <1>3, <2>1, <2>2, <2>3, ModBar, SameDone DEF Terminal, InFlight
  <1> QED
    BY <1>1, <1>2, <1>3

\* Every step is a step of the promise or shows nothing.
LEMMA NextPromise ==
    ASSUME TypeOK, LocksHold, OperationRows, [Next]_vars
    PROVE  [Promise!PromiseNext]_(Promise!promise)
  <1> DEFINE Size == [o \in Op |-> IF o \in Mod THEN StepCount ELSE 1]
  <1>0. /\ phaseBar = [o \in Op |-> phaseBar[o]] /\ phaseBar' = [o \in Op |-> phaseBar'[o]]
        /\ doneBar = [o \in Op |-> doneBar[o]] /\ doneBar' = [o \in Op |-> doneBar'[o]]
    BY DEF phaseBar, doneBar
  <1>1. ASSUME \A w \in Op : Unseen(w) PROVE UNCHANGED Promise!promise
    BY <1>0, <1>1 DEF Unseen, Promise!promise
  <1>2. CASE \A w \in Op : Keeps(w)
    BY <1>1, <1>2, KeepsUnseen
  <1>3. ASSUME NEW o, \A w \in Op : Keeps(w) \/ Expires(w) \/ (w = o /\ Dispatches(w))
        PROVE  \E E, O \in SUBSET Op : Promise!ExpireAndDispatch(E, O)
    <2> DEFINE E == {w \in Op : ~Keeps(w) /\ Expires(w)}
               O == {w \in Op : ~Keeps(w) /\ ~Expires(w)}
    <2>1. /\ \A w \in E : /\ phaseBar[w] \in {"waiting", "out"}
                           /\ phaseBar'[w] = "expired" /\ doneBar'[w] = doneBar[w]
          /\ \A w \in O : /\ phaseBar[w] = "waiting" /\ phaseBar'[w] = "out"
                           /\ doneBar'[w] = doneBar[w] /\ w = o
          /\ \A w \in Op : w \notin E \cup O =>
                phaseBar'[w] = phaseBar[w] /\ doneBar'[w] = doneBar[w]
          /\ E \subseteq Op /\ O \subseteq Op /\ E \cap O = {}
      BY <1>3, ExpiresSeen, DispatchSeen, KeepsUnseen DEF Unseen
    <2> HIDE DEF E, O
    <2>2. phaseBar' = [w \in Op |-> IF w \in E THEN "expired"
                                   ELSE IF w \in O THEN "out" ELSE phaseBar[w]]
      BY <1>0, <2>1
    <2>3. doneBar' = doneBar
      BY <1>0, <2>1
    <2>4. Promise!ExpireAndDispatch(E, O)
      BY <2>1, <2>2, <2>3 DEF Promise!ExpireAndDispatch
    <2> QED
      BY <2>1, <2>4
  <1>4. ASSUME NEW o \in Op, \A w \in Op : w # o => Keeps(w)
        PROVE  [Promise!PromiseNext]_(Promise!promise)
    <2>0. /\ \A w \in Op : w # o => phaseBar'[w] = phaseBar[w] /\ doneBar'[w] = doneBar[w]
          /\ \A x : phaseBar'[o] = x => phaseBar' = [phaseBar EXCEPT ![o] = x]
          /\ \A x : doneBar'[o] = x => doneBar' = [doneBar EXCEPT ![o] = x]
          /\ doneBar'[o] = doneBar[o] => doneBar' = doneBar
      <3>1. \A w \in Op : w # o => phaseBar'[w] = phaseBar[w] /\ doneBar'[w] = doneBar[w]
        BY <1>4, KeepsUnseen DEF Unseen
      <3> QED
        BY <1>0, <3>1
    <2>1. Effect(o)
      BY NextEffect
    <2>2. CASE Keeps(o) \/ Expires(o)
      <3>1. \A w \in Op : Keeps(w) \/ Expires(w)
        BY <1>4, <2>2
      <3> QED
        BY <1>3, <3>1 DEF Promise!PromiseNext
    <2>3. CASE \/ o \in Diag /\ CreateOperation(o)
               \/ o \in Mod /\ CreateModuleOperation(o)
      <3>1. phaseBar[o] = "none" /\ phaseBar'[o] = "waiting" /\ doneBar'[o] = doneBar[o]
        BY <2>3, RequestSeen
      <3>2. Promise!Create(o)
        BY <2>0, <3>1 DEF Promise!Create
      <3> QED
        BY <3>2 DEF Promise!PromiseNext
    <2>4. CASE o \in Diag /\ CancelOperation(o)
      <3>1. /\ phaseBar[o] = "waiting" /\ phaseBar'[o] = "canceled"
            /\ doneBar[o] = {} /\ doneBar'[o] = doneBar[o]
        BY <2>4, RequestSeen
      <3>2. Promise!Cancel(o)
        BY <2>0, <3>1 DEF Promise!Cancel
      <3> QED
        BY <3>2 DEF Promise!PromiseNext
    <2>5. ASSUME NEW u \in Diag \cup Step, WorkOf(u) = o, Delivers(u)
          PROVE  Promise!PromiseNext
      <3>1. Dispatches(o)
        BY <2>5 DEF Dispatches
      <3>2. \A w \in Op : Keeps(w) \/ Expires(w) \/ (w = o /\ Dispatches(w))
        BY <1>4, <3>1
      <3> QED
        BY <1>3, <3>2 DEF Promise!PromiseNext
    <2>6. ASSUME NEW u \in Diag \cup Step, WorkOf(u) = o, NEW st, Acks(u, st)
          PROVE  UNCHANGED Promise!promise
      <3>1. Unseen(o)
        BY <2>6, AcksUnseen
      <3> QED
        BY <1>1, <1>4, <3>1, KeepsUnseen
    <2>7. ASSUME NEW u \in Diag \cup Step, WorkOf(u) = o, NEW st \in Terminal, Results(u, st)
          PROVE  Promise!PromiseNext
      <3>1. CASE st # "succeeded"
        <4>1. phaseBar[o] = "out" /\ phaseBar'[o] = st /\ doneBar'[o] = doneBar[o]
          BY <2>7, <3>1, ResultsSeen
        <4>2. Promise!Fail(o, st) /\ st \in Promise!Ends
          BY <2>0, <3>1, <4>1 DEF Promise!Fail, Promise!Ends, Terminal
        <4> QED
          BY <4>2 DEF Promise!PromiseNext
      <3>2. CASE st = "succeeded"
        <4>1. PICK k \in 0 .. (Size[o] - 1) :
                /\ doneBar[o] = 0 .. (k - 1) /\ doneBar'[o] = 0 .. k
                /\ phaseBar'[o] = IF k + 1 = Size[o] THEN "succeeded" ELSE "waiting"
          BY <2>7, <3>2, ResultsSeen
        <4>2. phaseBar[o] = "out"
          BY <2>7, ResultsSeen
        <4>3. k < Size[o]
          BY <4>1, StepCountAssumption
        <4>4. Promise!Complete(o, k)
          BY <2>0, <4>1, <4>2, <4>3 DEF Promise!Complete
        <4> QED
          BY <4>1, <4>4 DEF Promise!PromiseNext
      <3> QED
        BY <3>1, <3>2
    <2> DEFINE Goal == Promise!PromiseNext \/ UNCHANGED Promise!promise
    <2>8. ASSUME NEW u \in Diag \cup Step, WorkOf(u) = o,
                 \/ Delivers(u) \/ \E st \in AckStatus : Acks(u, st)
                 \/ \E st \in Terminal : Results(u, st)
          PROVE  Goal
      BY <2>5, <2>6, <2>7, <2>8
    <2>9. (Keeps(o) \/ Expires(o) => Goal) /\ (o \in Diag /\ CancelOperation(o) => Goal)
      BY <2>2, <2>4
    <2>10. /\ o \in Diag /\ CreateOperation(o) => Goal
           /\ o \in Mod /\ CreateModuleOperation(o) => Goal
      BY <2>3
    <2>11. Goal
      <3> HIDE DEF Goal
      <3> QED
        BY <2>1, <2>8, <2>9, <2>10 DEF Effect
    <2> QED
      BY <2>11
  <1> QED
    BY <1>2, <1>3, <1>4, NextTouches DEF Promise!PromiseNext

\* The initial rows are the initial promise.
LEMMA InitPromise == Init => Promise!PromiseInit
  <1> SUFFICES ASSUME Init PROVE Promise!PromiseInit
    OBVIOUS
  <1>1. phaseBar = [o \in Op |-> "none"]
    BY DEF Init, phaseBar
  <1>2. \A m \in Mod : \A i \in 0 .. (StepCount - 1) : step[<<m, i>>] # "succeeded"
    BY DEF Init, Step
  <1>3. \A o \in Op : doneBar[o] = {}
    <2>1. ASSUME NEW m \in Mod PROVE doneBar[m] = {}
      BY <1>2, ModBar
    <2>2. ASSUME NEW d \in Diag PROVE doneBar[d] = {}
      <3>1. op[d] = "none"
        BY DEF Init, Op
      <3> QED
        BY <3>1, DiagBar
    <2> QED
      BY <2>1, <2>2 DEF Op
  <1>4. doneBar = [o \in Op |-> {}]
    BY <1>3 DEF doneBar
  <1> QED
    BY <1>1, <1>4 DEF Promise!PromiseInit

\* Delivery, acknowledgement, results, cancellation and expiry implement the promise
\* made to the caller of an operation.
THEOREM PromiseKept == Spec => KeepsPromise
  <1>1. Init => Wired /\ LocksHold
    BY DEF Init, Wired, LocksHold, NoTx
  <1>2. TypeOK /\ LocksHold /\ OperationRows /\ [Next]_vars =>
          [Promise!PromiseNext]_(Promise!promise)
    BY NextPromise
  <1> QED
    BY <1>1, <1>2, InitPromise, InitType, InitRows, NextType, NextWired, NextLocks, NextRows, PTL
       DEF Spec, KeepsPromise, Promise!PromiseSpec
=============================================================================
