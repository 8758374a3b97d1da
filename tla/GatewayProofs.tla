--------------------------- MODULE GatewayProofs ---------------------------
(***************************************************************************)
(* Proofs, for every set of devices, sockets, requests and commands, that  *)
(* the gateway is type correct, that a live connection is the registered   *)
(* one, that only registered connections are written to, that a settled    *)
(* device is at most as stale as its connection unless two changes of a    *)
(* setting cross, and that nothing else than this and a write during a     *)
(* replay makes a device stale.                                            *)
(***************************************************************************)
EXTENDS GatewayHistory, TLAPS

(***************************************************************************)
(* Types of the operators the actions are built from.                      *)
(***************************************************************************)
\* An UPDATE turns a row into a row, and leaves a missing one missing.
LEMMA UpdatedType ==
    ASSUME NEW command \in Commands, NEW r \in Row \cup {None}
    PROVE  Updated(command, r) \in Row \cup {None}
<1>1. command \in Command
  BY GatewayAssumption
<1>2. CASE r = None
  BY <1>2 DEF Updated
<1>3. CASE r # None /\ command.kind = "content"
  BY <1>1, <1>3 DEF Updated, Command, Row
<1>4. CASE r # None /\ command.kind = "zoom"
  BY <1>1, <1>4 DEF Updated, Command, Row
<1>5. CASE r # None /\ command.kind = "autoUpdate"
  BY <1>1, <1>5 DEF Updated, Command, Row
<1>6. CASE r # None /\ command.kind = "tvPower"
  BY <1>1, <1>6 DEF Updated, Command, Row
<1>7. CASE r # None /\ command.kind \in {"tvVolume", "refresh", "delete"}
  BY <1>7 DEF Updated
<1>8. QED
  BY <1>1, <1>2, <1>3, <1>4, <1>5, <1>6, <1>7 DEF Command

\* What is pushed after an UPDATE is a well-formed message, or nothing.
LEMMA MessageForType ==
    ASSUME NEW command \in Commands, NEW r \in Row \cup {None}
    PROVE  MessageFor(command, r) \in ServerMessage \cup {None}
<1>1. command \in Command
  BY GatewayAssumption
<1>2. CASE command.kind = "content"
  BY <1>1, <1>2, GatewayAssumption DEF MessageFor, Command, Row, ServerMessage
<1>3. CASE command.kind = "zoom" /\ r = None
  BY <1>3 DEF MessageFor
<1>4. CASE command.kind = "zoom" /\ r # None
  BY <1>1, <1>4, GatewayAssumption DEF MessageFor, Command, Row, ServerMessage
<1>5. CASE command.kind = "autoUpdate"
  BY <1>1, <1>5 DEF MessageFor, Command, ServerMessage
<1>6. CASE command.kind = "tvPower"
  BY <1>1, <1>6 DEF MessageFor, Command, ServerMessage
<1>7. CASE command.kind \in {"tvVolume", "refresh", "delete"}
  BY <1>7 DEF MessageFor, ServerMessage
<1>8. QED
  BY <1>1, <1>2, <1>3, <1>4, <1>5, <1>6, <1>7 DEF Command

\* The replay of a row is a sequence of well-formed messages.
LEMMA ReplayType ==
    ASSUME NEW r \in Row
    PROVE  Replay(r) \in Seq(ServerMessage)
<1> DEFINE content == IF r.content = None THEN <<>>
                      ELSE <<[t |-> "set_content", content |-> r.content, zoom |-> r.zoom]>>
           auto == <<[t |-> "set_auto_update", enabled |-> r.autoUpdate]>>
           tv == IF r.desiredTvPower = None THEN <<>>
                 ELSE <<[t |-> "tv_power", on |-> r.desiredTvPower]>>
<1>1. content \in Seq(ServerMessage)
  <2>1. r.content # None =>
          [t |-> "set_content", content |-> r.content, zoom |-> r.zoom] \in ServerMessage
    BY DEF Row, ServerMessage
  <2>2. QED
    BY <2>1
<1>2. auto \in Seq(ServerMessage)
  BY DEF Row, ServerMessage
<1>3. tv \in Seq(ServerMessage)
  <2>1. r.desiredTvPower # None =>
          [t |-> "tv_power", on |-> r.desiredTvPower] \in ServerMessage
    BY DEF Row, ServerMessage
  <2>2. QED
    BY <2>1
<1>4. Replay(r) = content \o auto \o tv
  BY DEF Replay
<1> HIDE DEF content, auto, tv
<1>5. QED
  BY <1>1, <1>2, <1>3, <1>4

\* A message turns an agent into an agent and leaves its socket alone.
LEMMA AppliedType ==
    ASSUME NEW a \in Agent, NEW m \in ServerMessage
    PROVE  Applied(a, m) \in Agent
<1>1. CASE m.t = "set_content"
  BY <1>1 DEF Applied, Agent, ServerMessage
<1>2. CASE m.t = "set_auto_update"
  BY <1>2 DEF Applied, Agent, ServerMessage
<1>3. CASE m.t = "tv_power"
  BY <1>3 DEF Applied, Agent, ServerMessage
<1>4. CASE m.t \in {"tv_volume", "refresh"}
  BY <1>4 DEF Applied
<1>5. QED
  BY <1>1, <1>2, <1>3, <1>4 DEF ServerMessage

\* Sending appends well-formed messages to one queue at most.
LEMMA SendAllType ==
    ASSUME TypeOK, NEW s \in Socket, NEW messages \in Seq(ServerMessage)
    PROVE  SendAll(s, messages) \in [Socket -> Seq(ServerMessage)]
  BY DEF SendAll, TypeOK

\* A push keeps the type of the queues.
LEMMA SendToDeviceType ==
    ASSUME TypeOK, NEW d \in Device, NEW m \in ServerMessage
    PROVE  SendToDevice(d, m) \in [Socket -> Seq(ServerMessage)]
<1>1. <<m>> \in Seq(ServerMessage)
  OBVIOUS
<1>2. registry[d] \in Socket \cup {None}
  BY DEF TypeOK
<1>3. CASE registry[d] = None
  BY <1>3 DEF SendToDevice, TypeOK
<1>4. CASE registry[d] \in Socket
  BY <1>1, <1>4, SendAllType, GatewayAssumption DEF SendToDevice
<1>5. QED
  BY <1>2, <1>3, <1>4

\* Closing moves one connection to "closing" at most.
LEMMA CloseWireType ==
    ASSUME TypeOK, NEW s \in Socket
    PROVE  CloseWire(s) \in [Socket -> Wire]
  BY DEF CloseWire, TypeOK, Wire

\* A process that has just started is an agent.
LEMMA FreshAgentType ==
    ASSUME NEW tv \in BOOLEAN
    PROVE  FreshAgent(tv) \in Agent
  BY GatewayAssumption DEF FreshAgent, Agent

\* A handler past its lookup has found the device. TypeOK is not inductive
\* without it: the replay of a missing row has no type.
SnapshotKnown ==
    \A s \in Socket : handler[s] \in {"marking", "live"} => snapshot[s] # None

(***************************************************************************)
(* Type correctness.                                                       *)
(***************************************************************************)
\* What most steps need to know of the constants.
LEMMA ConstantFacts == MaxFaults \in Nat /\ None \notin Socket
  BY GatewayAssumption

\* A fault stays within the budget.
LEMMA FaultType ==
    ASSUME TypeOK, Fault
    PROVE  faults' \in 0..MaxFaults
  BY ConstantFacts DEF TypeOK, Fault

\* The initial states are type correct.
LEMMA TypeInit == Init => TypeOK
<1> SUFFICES ASSUME Init PROVE TypeOK
  OBVIOUS
<1>1. DefaultRow \in Row
  BY GatewayAssumption DEF DefaultRow, Row
<1>2. FreshAgent(FALSE) \in Agent
  BY FreshAgentType
<1>3. /\ row \in [Device -> Row \cup {None}]
      /\ agent \in [Device -> Agent]
  BY <1>1, <1>2 DEF Init
<1>4. down \in [Socket -> Seq(ServerMessage)]
  BY DEF Init
<1>5. faults \in 0..MaxFaults
  BY ConstantFacts DEF Init
<1>6. QED
  BY <1>3, <1>4, <1>5 DEF Init, TypeOK, Handler, Wire

\* The link when an agent's end disappears.
LEMMA VanishType ==
    ASSUME TypeOK, NEW d \in Device, NEW w \in Wire, Vanish(d, w)
    PROVE  /\ wire' \in [Socket -> Wire]
           /\ down' \in [Socket -> Seq(ServerMessage)]
<1>1. agent[d].sock \in Socket \cup {None}
  BY DEF TypeOK, Agent
<1>2. CASE agent[d].sock = None
  BY <1>2 DEF Vanish, TypeOK, linkVars
<1>3. CASE agent[d].sock \in Socket
  <2>1. /\ wire' = IF wire[agent[d].sock] = "up"
                   THEN [wire EXCEPT ![agent[d].sock] = w] ELSE wire
        /\ down' = [down EXCEPT ![agent[d].sock] = <<>>]
    BY <1>3, ConstantFacts DEF Vanish
  <2>2. wire' \in [Socket -> Wire]
    BY <1>3, <2>1 DEF TypeOK
  <2>3. down' \in [Socket -> Seq(ServerMessage)]
    BY <1>3, <2>1 DEF TypeOK
  <2>4. QED
    BY <2>2, <2>3
<1>4. QED
  BY <1>1, <1>2, <1>3

\* The requests keep the types.
LEMMA RequestsType ==
    ASSUME TypeOK, NEW r \in Request,
           \/ \E d \in Device, command \in Commands : RequestCheck(r, d, command)
           \/ RequestCommit(r)
           \/ RequestResume(r)
           \/ RequestFails(r)
    PROVE  TypeOK'
<1>1. ASSUME NEW d \in Device, NEW command \in Commands, RequestCheck(r, d, command)
      PROVE  TypeOK'
  BY <1>1 DEF RequestCheck, TypeOK, InFlight, handlerVars, linkVars, deviceVars
<1>2. ASSUME RequestCommit(r) PROVE TypeOK'
  <2>1. inflight[r] \in InFlight /\ inflight[r].step = "checked"
    BY <1>2 DEF RequestCommit, TypeOK
  <2>2. inflight[r].device \in Device /\ inflight[r].command \in Commands
    BY <2>1 DEF InFlight
  <2> DEFINE stored == Updated(inflight[r].command, row[inflight[r].device])
  <2>3. stored \in Row \cup {None}
    BY <2>2, UpdatedType DEF TypeOK
  <2>4. MessageFor(inflight[r].command, stored) \in ServerMessage \cup {None}
    BY <2>2, <2>3, MessageForType
  <2>5. /\ row' = [row EXCEPT ![inflight[r].device] = stored]
        /\ inflight' = [inflight EXCEPT ![r] =
              [step |-> "committed", device |-> inflight[r].device,
               message |-> MessageFor(inflight[r].command, stored)]]
        /\ UNCHANGED <<handlerVars, linkVars, deviceVars, faults>>
    BY <1>2 DEF RequestCommit
  <2> HIDE DEF stored
  <2>6. row' \in [Device -> Row \cup {None}]
    BY <2>2, <2>3, <2>5 DEF TypeOK
  <2>7. inflight' \in [Request -> InFlight \cup {None}]
    BY <2>2, <2>4, <2>5 DEF TypeOK, InFlight
  <2>8. QED
    BY <2>5, <2>6, <2>7 DEF TypeOK, handlerVars, linkVars, deviceVars
<1>3. ASSUME RequestResume(r) PROVE TypeOK'
  <2>1. inflight[r] \in InFlight /\ inflight[r].step = "committed"
    BY <1>3 DEF RequestResume, TypeOK
  <2>2. inflight[r].device \in Device /\ inflight[r].message \in ServerMessage \cup {None}
    BY <2>1 DEF InFlight
  <2>3. down' \in [Socket -> Seq(ServerMessage)]
    BY <1>3, <2>2, SendToDeviceType DEF RequestResume, TypeOK
  <2>4. inflight' \in [Request -> InFlight \cup {None}]
    BY <1>3 DEF RequestResume, TypeOK
  <2>5. QED
    BY <1>3, <2>3, <2>4 DEF RequestResume, TypeOK, handlerVars, deviceVars
<1>4. ASSUME RequestFails(r) PROVE TypeOK'
  BY <1>4, FaultType DEF RequestFails, TypeOK, handlerVars, linkVars, deviceVars
<1>5. QED
  BY <1>1, <1>2, <1>3, <1>4

\* The gateway's handlers and timers keep the types.
LEMMA HandlersType ==
    ASSUME TypeOK, SnapshotKnown, NEW s \in Socket,
           \/ HandlerStep(s) \/ HandlerFails(s) \/ SocketClosed(s)
           \/ PingTick(s) \/ Pong(s) \/ Cut(s)
    PROVE  TypeOK'
<1> USE DEF dbVars, handlerVars, linkVars, deviceVars
<1>1. owner[s] \in Device /\ row[owner[s]] \in Row \cup {None}
  BY DEF TypeOK
<1>2. CloseWire(s) \in [Socket -> Wire]
  BY CloseWireType
<1>3. CASE Lookup(s)
  BY <1>1, <1>3 DEF Lookup, TypeOK, Handler
<1>4. CASE RejectToken(s)
  BY <1>2, <1>4 DEF RejectToken, TypeOK, Handler
<1>5. CASE Register(s)
  <2>1. registry[owner[s]] \in Socket \cup {None}
    BY <1>1 DEF TypeOK
  <2>2. wire' \in [Socket -> Wire]
    BY <1>5, <2>1, CloseWireType DEF Register, TypeOK
  <2>3. registry' \in [Device -> Socket \cup {None}]
    BY <1>1, <1>5 DEF Register, TypeOK
  <2>4. handler' \in [Socket -> Handler]
    BY <1>5 DEF Register, TypeOK, Handler
  <2>5. QED
    BY <1>5, <2>2, <2>3, <2>4 DEF Register, TypeOK
<1>6. CASE FinishConnect(s)
  <2>1. snapshot[s] \in Row
    BY <1>6 DEF FinishConnect, SnapshotKnown, TypeOK
  <2>2. Replay(snapshot[s]) \in Seq(ServerMessage)
    BY <2>1, ReplayType
  <2>3. down' \in [Socket -> Seq(ServerMessage)]
    BY <1>6, <2>2, SendAllType DEF FinishConnect
  <2>4. QED
    BY <1>6, <2>3 DEF FinishConnect, TypeOK, Handler
<1>7. CASE HandlerFails(s)
  BY <1>2, <1>7, FaultType DEF HandlerFails, TypeOK, Handler
<1>8. CASE SocketClosed(s)
  <2>1. wire' \in [Socket -> Wire]
    BY <1>8 DEF SocketClosed, TypeOK, Wire
  <2>2. CASE handler[s] = "live"
    <3>1. Unregistered(s) \in [Device -> Socket \cup {None}]
      BY DEF Unregistered, TypeOK
    <3>2. QED
      BY <1>8, <2>1, <2>2, <3>1 DEF SocketClosed, TypeOK, Handler
  <2>3. CASE handler[s] # "live"
    BY <1>8, <2>1, <2>3 DEF SocketClosed, TypeOK
  <2>4. QED
    BY <2>2, <2>3
<1>9. CASE PingTick(s)
  <2>1. wire' \in [Socket -> Wire] /\ isAlive' \in [Socket -> BOOLEAN]
    BY <1>2, <1>9 DEF PingTick, TypeOK
  <2>2. faults' \in 0..MaxFaults
    BY <1>9, FaultType DEF PingTick, TypeOK
  <2>3. QED
    BY <1>9, <2>1, <2>2 DEF PingTick, TypeOK
<1>10. CASE Pong(s)
  BY <1>10 DEF Pong, TypeOK
<1>11. CASE Cut(s)
  BY <1>11, FaultType DEF Cut, TypeOK, Wire
<1>12. QED
  BY <1>3, <1>4, <1>5, <1>6, <1>7, <1>8, <1>9, <1>10, <1>11 DEF HandlerStep

\* The agents and their mains keep the types.
LEMMA DevicesType ==
    ASSUME TypeOK, NEW d \in Device,
           \/ \E s \in Socket : Connect(d, s)
           \/ AgentReceive(d) \/ AgentClosed(d)
           \/ AgentRestart(d) \/ PowerLoss(d) \/ PowerOn(d)
    PROVE  TypeOK'
<1> USE DEF dbVars, handlerVars, linkVars, deviceVars
<1>1. /\ agent[d] \in Agent /\ agent[d].tv \in BOOLEAN
      /\ agent[d].sock \in Socket \cup {None}
  BY DEF TypeOK, Agent
<1>2. ASSUME NEW s \in Socket, Connect(d, s) PROVE TypeOK'
  <2>1. agent' \in [Device -> Agent]
    BY <1>1, <1>2 DEF Connect, TypeOK, Agent
  <2>2. down' \in [Socket -> Seq(ServerMessage)]
    BY <1>2 DEF Connect, TypeOK
  <2>3. QED
    BY <1>2, <2>1, <2>2 DEF Connect, TypeOK, Handler, Wire
<1>3. CASE AgentReceive(d)
  <2> DEFINE s == agent[d].sock
  <2>1. s \in Socket /\ down[s] # <<>> /\ down[s] \in Seq(ServerMessage)
    BY <1>1, <1>3 DEF AgentReceive, TypeOK
  <2>2. Head(down[s]) \in ServerMessage /\ Tail(down[s]) \in Seq(ServerMessage)
    BY <2>1
  <2>3. Applied(agent[d], Head(down[s])) \in Agent
    BY <1>1, <2>2, AppliedType
  <2>4. agent' \in [Device -> Agent]
    BY <1>3, <2>3 DEF AgentReceive, TypeOK
  <2>5. down' \in [Socket -> Seq(ServerMessage)]
    BY <1>3, <2>2 DEF AgentReceive, TypeOK
  <2>6. QED
    BY <1>3, <2>4, <2>5 DEF AgentReceive, TypeOK
<1>4. CASE AgentClosed(d)
  <2>1. agent' \in [Device -> Agent]
    BY <1>1, <1>4 DEF AgentClosed, TypeOK, Agent
  <2>2. QED
    BY <1>4, <2>1 DEF AgentClosed, TypeOK
<1>5. CASE AgentRestart(d)
  <2>1. agent' \in [Device -> Agent]
    BY <1>1, <1>5, FreshAgentType DEF AgentRestart, TypeOK
  <2>2. wire' \in [Socket -> Wire] /\ down' \in [Socket -> Seq(ServerMessage)]
    BY <1>5, VanishType DEF AgentRestart, Wire
  <2>3. faults' \in 0..MaxFaults
    BY <1>5, FaultType DEF AgentRestart
  <2>4. QED
    BY <1>5, <2>1, <2>2, <2>3 DEF AgentRestart, TypeOK
<1>6. CASE PowerLoss(d)
  <2>1. agent' \in [Device -> Agent]
    BY <1>6, FreshAgentType DEF PowerLoss, TypeOK
  <2>2. wire' \in [Socket -> Wire] /\ down' \in [Socket -> Seq(ServerMessage)]
    BY <1>6, VanishType DEF PowerLoss, Wire
  <2>3. faults' \in 0..MaxFaults
    BY <1>6, FaultType DEF PowerLoss
  <2>4. QED
    BY <1>6, <2>1, <2>2, <2>3 DEF PowerLoss, TypeOK
<1>7. CASE PowerOn(d)
  BY <1>7 DEF PowerOn, TypeOK
<1>8. QED
  BY <1>2, <1>3, <1>4, <1>5, <1>6, <1>7

\* A server restart keeps the types.
LEMMA RestartType ==
    ASSUME TypeOK, ServerRestart
    PROVE  TypeOK'
  BY FaultType DEF ServerRestart, TypeOK, Handler, Wire, deviceVars

(***************************************************************************)
(* The inductive invariant: types, a known row behind every handler, live  *)
(* connections registered, and registered connections belonging to the     *)
(* device they are registered for.                                         *)
(***************************************************************************)
RegistryOwned ==
    \A d \in Device : registry[d] # None => owner[registry[d]] = d

IInv == TypeOK /\ SnapshotKnown /\ LiveSocketRegistered /\ RegistryOwned

\* The inductive invariant holds initially.
LEMMA IInvInit == Init => IInv
<1>1. Init => TypeOK
  BY TypeInit
<1>2. Init => SnapshotKnown /\ LiveSocketRegistered /\ RegistryOwned
  BY DEF Init, SnapshotKnown, LiveSocketRegistered, RegistryOwned
<1>3. QED
  BY <1>1, <1>2 DEF IInv

\* Every step keeps the types.
LEMMA TypeNext ==
    ASSUME TypeOK, SnapshotKnown, [Next]_vars
    PROVE  TypeOK'
<1>1. CASE UNCHANGED vars
  BY <1>1 DEF TypeOK, vars, dbVars, handlerVars, linkVars, deviceVars
<1>2. CASE Next
  BY <1>2, RequestsType, HandlersType, DevicesType, RestartType DEF Next
<1>3. QED
  BY <1>1, <1>2

\* Closing one connection leaves no other wire and opens none.
LEMMA CloseWireEffect ==
    ASSUME TypeOK, NEW s \in Socket, NEW q \in Socket,
           CloseWire(s)[q] \in {"up", "cut"}
    PROVE  q # s /\ CloseWire(s)[q] = wire[q]
  BY DEF CloseWire, TypeOK

\* A step that keeps handlers, owners, snapshots and the registry, and opens no
\* wire, keeps the three properties.
LEMMA QuietStep ==
    ASSUME TypeOK, SnapshotKnown, LiveSocketRegistered, RegistryOwned,
           UNCHANGED <<registry, handler, owner, snapshot>>,
           \A s \in Socket : wire'[s] \in {"up", "cut"} => wire[s] \in {"up", "cut"}
    PROVE  SnapshotKnown' /\ LiveSocketRegistered' /\ RegistryOwned'
  BY DEF SnapshotKnown, LiveSocketRegistered, RegistryOwned

\* The gateway's handlers keep the three properties: registering, the late
\* teardown and a failing handler are the steps that could break them.
LEMMA HandlersInvariant ==
    ASSUME IInv, NEW s \in Socket,
           \/ HandlerStep(s) \/ HandlerFails(s) \/ SocketClosed(s)
           \/ PingTick(s) \/ Pong(s) \/ Cut(s)
    PROVE  SnapshotKnown' /\ LiveSocketRegistered' /\ RegistryOwned'
<1> USE DEF IInv
<1>1. owner[s] \in Device
  BY DEF TypeOK
<1>2. CASE Lookup(s)
  BY <1>2 DEF Lookup, SnapshotKnown, LiveSocketRegistered, RegistryOwned, TypeOK, linkVars
<1>3. CASE RejectToken(s)
  BY <1>3, CloseWireEffect
     DEF RejectToken, SnapshotKnown, LiveSocketRegistered, RegistryOwned, TypeOK
<1>4. CASE Register(s)
  <2> DEFINE old == registry[owner[s]]
  <2>1. old \in Socket \cup {None}
    BY <1>1 DEF TypeOK
  <2>2. /\ registry' = [registry EXCEPT ![owner[s]] = s]
        /\ handler' = [handler EXCEPT ![s] = "marking"]
        /\ UNCHANGED <<owner, snapshot>>
        /\ snapshot[s] # None
    BY <1>4 DEF Register
  <2>3. ASSUME NEW q \in Socket, q # s, handler[q] \in {"marking", "live"},
               wire'[q] \in {"up", "cut"}
        PROVE  wire[q] \in {"up", "cut"} /\ q # old
    BY <1>4, <2>1, <2>3, CloseWireEffect, ConstantFacts DEF Register
  <2>4. SnapshotKnown'
    BY <2>2 DEF SnapshotKnown, TypeOK
  <2>5. LiveSocketRegistered'
    <3> SUFFICES ASSUME NEW q \in Socket, handler'[q] \in {"marking", "live"},
                        wire'[q] \in {"up", "cut"}
                 PROVE  registry'[owner'[q]] = q
      BY DEF LiveSocketRegistered
    <3>1. CASE q = s
      BY <1>1, <2>2, <3>1 DEF TypeOK
    <3>2. CASE q # s
      <4>1. handler[q] \in {"marking", "live"}
        BY <2>2, <3>2 DEF TypeOK
      <4>2. registry[owner[q]] = q /\ q # old
        BY <2>3, <3>2, <4>1 DEF LiveSocketRegistered
      <4>3. owner[q] # owner[s]
        BY <4>2
      <4>4. QED
        BY <2>2, <4>2, <4>3 DEF TypeOK
    <3>3. QED
      BY <3>1, <3>2
  <2>6. RegistryOwned'
    BY <1>1, <2>2 DEF RegistryOwned, TypeOK
  <2>7. QED
    BY <2>4, <2>5, <2>6
<1>5. CASE FinishConnect(s)
  BY <1>5 DEF FinishConnect, SnapshotKnown, LiveSocketRegistered, RegistryOwned, TypeOK
<1>6. CASE HandlerFails(s)
  BY <1>6, CloseWireEffect
     DEF HandlerFails, SnapshotKnown, LiveSocketRegistered, RegistryOwned, TypeOK
<1>7. CASE SocketClosed(s)
  <2>1. CASE handler[s] = "live"
    <3>1. /\ handler' = [handler EXCEPT ![s] = "done"]
          /\ snapshot' = [snapshot EXCEPT ![s] = None]
          /\ wire' = [wire EXCEPT ![s] = "closed"]
          /\ registry' = Unregistered(s)
          /\ owner' = owner
      BY <1>7, <2>1 DEF SocketClosed
    <3>2. SnapshotKnown'
      BY <3>1 DEF SnapshotKnown, TypeOK
    <3>3. LiveSocketRegistered'
      BY <3>1 DEF LiveSocketRegistered, Unregistered, TypeOK
    <3>4. RegistryOwned'
      BY <3>1 DEF RegistryOwned, Unregistered, TypeOK
    <3>5. QED
      BY <3>2, <3>3, <3>4
  <2>2. CASE handler[s] # "live"
    BY <1>7, <2>2, QuietStep DEF SocketClosed, TypeOK
  <2>3. QED
    BY <2>1, <2>2
<1>8. CASE PingTick(s)
  BY <1>8, CloseWireEffect, QuietStep DEF PingTick, TypeOK
<1>9. CASE Pong(s)
  BY <1>9, QuietStep DEF Pong, linkVars
<1>10. CASE Cut(s)
  BY <1>10, QuietStep DEF Cut, handlerVars, TypeOK
<1>11. QED
  BY <1>2, <1>3, <1>4, <1>5, <1>6, <1>7, <1>8, <1>9, <1>10 DEF HandlerStep

\* When an agent's end disappears no connection comes back up.
LEMMA VanishWire ==
    ASSUME TypeOK, NEW d \in Device, NEW w \in Wire, Vanish(d, w),
           NEW q \in Socket, wire'[q] \in {"up", "cut"}
    PROVE  wire[q] \in {"up", "cut"}
<1>1. agent[d].sock \in Socket \cup {None}
  BY DEF TypeOK, Agent
<1>2. QED
  BY <1>1 DEF Vanish, TypeOK, linkVars

\* The agents keep the three properties; connecting takes a socket identity
\* that nothing refers to.
LEMMA DevicesInvariant ==
    ASSUME IInv, NEW d \in Device,
           \/ \E s \in Socket : Connect(d, s)
           \/ AgentReceive(d) \/ AgentClosed(d)
           \/ AgentRestart(d) \/ PowerLoss(d) \/ PowerOn(d)
    PROVE  SnapshotKnown' /\ LiveSocketRegistered' /\ RegistryOwned'
<1> USE DEF IInv
<1>1. ASSUME NEW s \in Socket, Connect(d, s)
      PROVE  SnapshotKnown' /\ LiveSocketRegistered' /\ RegistryOwned'
  <2>1. \A e \in Device : registry[e] # s
    BY <1>1 DEF Connect, Free
  <2>2. /\ owner' = [owner EXCEPT ![s] = d]
        /\ handler' = [handler EXCEPT ![s] = "lookup"]
        /\ snapshot' = [snapshot EXCEPT ![s] = None]
        /\ wire' = [wire EXCEPT ![s] = "up"]
        /\ registry' = registry
    BY <1>1 DEF Connect
  <2>3. SnapshotKnown'
    BY <2>2 DEF SnapshotKnown, TypeOK
  <2>4. LiveSocketRegistered'
    BY <2>2 DEF LiveSocketRegistered, TypeOK
  <2>5. RegistryOwned'
    BY <2>1, <2>2 DEF RegistryOwned, TypeOK
  <2>6. QED
    BY <2>3, <2>4, <2>5
<1>2. CASE AgentReceive(d)
  BY <1>2, QuietStep DEF AgentReceive, handlerVars
<1>3. CASE AgentClosed(d)
  BY <1>3, QuietStep DEF AgentClosed, handlerVars, linkVars
<1>4. CASE AgentRestart(d)
  BY <1>4, QuietStep, VanishWire DEF AgentRestart, handlerVars, Wire
<1>5. CASE PowerLoss(d)
  BY <1>5, QuietStep, VanishWire DEF PowerLoss, handlerVars, Wire
<1>6. CASE PowerOn(d)
  BY <1>6, QuietStep DEF PowerOn, handlerVars, linkVars
<1>7. QED
  BY <1>1, <1>2, <1>3, <1>4, <1>5, <1>6

\* Requests leave the gateway alone.
LEMMA RequestsInvariant ==
    ASSUME IInv, NEW r \in Request,
           \/ \E d \in Device, command \in Commands : RequestCheck(r, d, command)
           \/ RequestCommit(r)
           \/ RequestResume(r)
           \/ RequestFails(r)
    PROVE  SnapshotKnown' /\ LiveSocketRegistered' /\ RegistryOwned'
<1>1. UNCHANGED <<registry, handler, owner, snapshot, wire>>
  BY DEF RequestCheck, RequestCommit, RequestResume, RequestFails, handlerVars, linkVars
<1>2. QED
  BY <1>1, QuietStep DEF IInv

\* Every step keeps the inductive invariant.
LEMMA IInvNext == IInv /\ [Next]_vars => IInv'
<1> SUFFICES ASSUME IInv, [Next]_vars PROVE IInv'
  OBVIOUS
<1>1. TypeOK'
  BY TypeNext DEF IInv
<1>2. SnapshotKnown' /\ LiveSocketRegistered' /\ RegistryOwned'
  <2>1. CASE UNCHANGED vars
    BY <2>1, QuietStep DEF IInv, vars, handlerVars, linkVars
  <2>2. CASE ServerRestart
    BY <2>2 DEF IInv, ServerRestart, SnapshotKnown, LiveSocketRegistered, RegistryOwned
  <2>3. CASE Next /\ ~ServerRestart
    BY <2>3, RequestsInvariant, HandlersInvariant, DevicesInvariant DEF Next
  <2>4. QED
    BY <2>1, <2>2, <2>3
<1>3. QED
  BY <1>1, <1>2 DEF IInv

\* In every reachable state the registry names connections opened with the token
\* of the device they are registered for, a handler past its lookup holds a row,
\* and a live connection is the registered one (gateway.ts 24-35, registry.ts).
THEOREM InductiveInvariant == Spec => []IInv
<1>1. QED
  BY IInvInit, IInvNext, PTL DEF Spec

\* Every reachable state is type correct, whatever the instance.
THEOREM TypeCorrect == Spec => []TypeOK
<1>1. IInv => TypeOK
  BY DEF IInv
<1>2. QED
  BY <1>1, InductiveInvariant, PTL

\* A live, unclosed connection is the one its device's commands go to: neither
\* the late teardown of a replaced connection nor a second registration can make
\* a connected agent unreachable (registry.ts 19-36, gateway.ts 35 and 144-152).
THEOREM LiveIsRegistered == Spec => []LiveSocketRegistered
<1>1. IInv => LiveSocketRegistered
  BY DEF IInv
<1>2. QED
  BY <1>1, InductiveInvariant, PTL

(***************************************************************************)
(* Who is written to.                                                      *)
(***************************************************************************)
\* Only the queue that is written to grows.
LEMMA SendAllGrows ==
    ASSUME TypeOK, NEW s \in Socket, NEW q \in Socket, NEW messages,
           Len(SendAll(s, messages)[q]) > Len(down[q])
    PROVE  q = s /\ wire[s] = "up"
<1>1. CASE wire[s] = "up"
  <2>1. ASSUME q # s PROVE FALSE
    <3>1. SendAll(s, messages)[q] = down[q]
      BY <1>1, <2>1 DEF SendAll, TypeOK
    <3>2. Len(down[q]) \in Nat
      BY DEF TypeOK
    <3>3. QED
      BY <3>1, <3>2
  <2>2. QED
    BY <1>1, <2>1
<1>2. CASE wire[s] # "up"
  <2>1. Len(down[q]) \in Nat
    BY DEF TypeOK
  <2>2. QED
    BY <1>2, <2>1 DEF SendAll
<1>3. QED
  BY <1>1, <1>2

\* A queue that grows belongs to the connection registered for its device.
LEMMA GrowsOnlyRegistered ==
    ASSUME IInv, [Next]_vars, NEW q \in Socket, Len(down'[q]) > Len(down[q])
    PROVE  registry[owner[q]] = q
<1> USE DEF IInv
<1>1. down[q] \in Seq(ServerMessage) /\ Len(down[q]) \in Nat
  BY DEF TypeOK
<1>2. CASE down' = down
  BY <1>1, <1>2
<1>3. ASSUME NEW s \in Socket, down' = [down EXCEPT ![s] = <<>>]
      PROVE  FALSE
  <2>1. down'[q] = <<>> \/ down'[q] = down[q]
    BY <1>3 DEF TypeOK
  <2>2. QED
    BY <1>1, <2>1
<1>4. ASSUME NEW r \in Request, RequestResume(r) PROVE registry[owner[q]] = q
  <2>1. inflight[r] \in InFlight /\ inflight[r].device \in Device
    BY <1>4 DEF RequestResume, TypeOK, InFlight
  <2>2. CASE inflight[r].message = None \/ registry[inflight[r].device] = None
    BY <1>2, <1>4, <2>2 DEF RequestResume, SendToDevice
  <2>3. CASE inflight[r].message # None /\ registry[inflight[r].device] # None
    <3>1. registry[inflight[r].device] \in Socket
      BY <2>1, <2>3 DEF TypeOK
    <3>2. down' = SendAll(registry[inflight[r].device], <<inflight[r].message>>)
      BY <1>4, <2>3 DEF RequestResume, SendToDevice
    <3>3. q = registry[inflight[r].device]
      BY <3>1, <3>2, SendAllGrows
    <3>4. QED
      BY <2>1, <2>3, <3>3 DEF RegistryOwned
  <2>4. QED
    BY <2>2, <2>3
<1>5. ASSUME NEW s \in Socket, FinishConnect(s) PROVE registry[owner[q]] = q
  <2>1. q = s /\ wire[s] = "up"
    BY <1>5, SendAllGrows DEF FinishConnect
  <2>2. QED
    BY <1>5, <2>1 DEF FinishConnect, LiveSocketRegistered
<1>6. ASSUME NEW d \in Device, AgentReceive(d) PROVE FALSE
  <2> DEFINE s == agent[d].sock
  <2>1. s \in Socket /\ down[s] \in Seq(ServerMessage) /\ down[s] # <<>>
    BY <1>6 DEF AgentReceive, TypeOK, Agent
  <2>2. Len(Tail(down[s])) < Len(down[s])
    BY <2>1
  <2>3. down' = [down EXCEPT ![s] = Tail(down[s])]
    BY <1>6 DEF AgentReceive
  <2> HIDE DEF s
  <2>4. CASE q = s
    BY <2>1, <2>2, <2>3, <2>4 DEF TypeOK
  <2>5. CASE q # s
    BY <1>1, <2>3, <2>5 DEF TypeOK
  <2>6. QED
    BY <2>4, <2>5
<1>7. ASSUME NEW d \in Device, NEW w \in Wire, Vanish(d, w)
      PROVE  FALSE
  <2>1. agent[d].sock \in Socket \cup {None}
    BY DEF TypeOK, Agent
  <2>2. QED
    BY <1>2, <1>3, <1>7, <2>1, <1>1 DEF Vanish, linkVars
<1>8. ASSUME NEW d \in Device,
             \/ \E s \in Socket : Connect(d, s)
             \/ AgentReceive(d) \/ AgentClosed(d)
             \/ AgentRestart(d) \/ PowerLoss(d) \/ PowerOn(d)
      PROVE  registry[owner[q]] = q
  BY <1>2, <1>3, <1>6, <1>7, <1>8
     DEF Connect, AgentClosed, AgentRestart, PowerLoss, PowerOn, linkVars, Wire
<1>9. ASSUME NEW s \in Socket,
             \/ HandlerStep(s) \/ HandlerFails(s) \/ SocketClosed(s)
             \/ PingTick(s) \/ Pong(s) \/ Cut(s)
      PROVE  registry[owner[q]] = q
  BY <1>2, <1>3, <1>5, <1>9
     DEF HandlerStep, Lookup, RejectToken, Register, HandlerFails, SocketClosed,
         PingTick, Pong, Cut, linkVars
<1>10. ASSUME NEW r \in Request,
              \/ \E d \in Device, command \in Commands : RequestCheck(r, d, command)
              \/ RequestCommit(r)
              \/ RequestResume(r)
              \/ RequestFails(r)
       PROVE  registry[owner[q]] = q
  BY <1>2, <1>4, <1>10 DEF RequestCheck, RequestCommit, RequestFails, linkVars
<1>11. CASE ServerRestart \/ UNCHANGED vars
  BY <1>2, <1>11 DEF ServerRestart, vars, linkVars
<1>12. QED
  BY <1>8, <1>9, <1>10, <1>11 DEF Next

\* The replay and the pushes reach no connection but the registered one of its
\* own device, although the replay never consults the registry (gateway.ts 40-71,
\* registry.ts 43-52).
THEOREM WritesOnlyRegistered == Spec => OnlyRegisteredSocketWritten
<1>1. IInv /\ [Next]_vars
        => [\A s \in Socket :
               Len(down'[s]) > Len(down[s]) => registry[owner[s]] = s]_vars
  BY GrowsOnlyRegistered
<1>2. QED
  BY <1>1, InductiveInvariant, PTL DEF Spec, OnlyRegisteredSocketWritten

(***************************************************************************)
(* How stale a device can be.                                              *)
(*                                                                         *)
(* What an agent ends up with is decided by the newest message of each     *)
(* type in the queue of its connection, or by its present state if there   *)
(* is none.                                                                *)
(***************************************************************************)
\* No message of type t is in queue q.
Lacks(q, t) == \A i \in 1..Len(q) : q[i].t # t

\* The newest message of type t in queue q: a set of one message or none.
Newest(q, t) ==
    {q[i] : i \in {k \in 1..Len(q) :
        q[k].t = t /\ \A j \in 1..Len(q) : j > k => q[j].t # t}}

\* The present state of an agent, as the message that would bring it about.
Present(a, t) ==
    CASE t = "set_content" -> [t |-> "set_content", content |-> a.content, zoom |-> a.zoom]
      [] t = "set_auto_update" -> [t |-> "set_auto_update", enabled |-> a.autoUpdate]
      [] t = "tv_power" -> [t |-> "tv_power", on |-> a.tv]

\* What decides setting t of an agent a that still has to receive queue q.
Coming(a, q, t) == Newest(q, t) \cup (IF Lacks(q, t) THEN {Present(a, t)} ELSE {})

\* Message m says what row x says.
Says(m, x) ==
    /\ m.t = "set_content" => m.content = Screen(x.content) /\ m.zoom = x.zoom
    /\ m.t = "set_auto_update" => m.enabled = x.autoUpdate
    /\ m.t = "tv_power" => m.on = x.desiredTvPower

\* Message m says what row x says, or else what row y says, in each of its parts;
\* the factor of a blank screen does not matter.
SaysEither(m, x, y) ==
    /\ m.t = "set_content" =>
          /\ Screen(m.content) \in {Screen(x.content), Screen(y.content)}
          /\ Screen(m.content) # Blank => m.zoom \in {x.zoom, y.zoom}
    /\ m.t = "set_auto_update" => m.enabled \in {x.autoUpdate, y.autoUpdate}
    /\ m.t = "tv_power" => m.on \in {x.desiredTvPower, y.desiredTvPower}

\* A message of type t about d is about to be pushed.
Pushing(d, t) == \E r \in Request : AboutToPush(r, d) /\ inflight[r].message.t = t

(***************************************************************************)
(* The invariant behind StaleOnlyFromLookup.                               *)
(***************************************************************************)
\* What is about to be pushed is what the row says.
PushesRow ==
    \A r \in Request, d \in Device :
        AboutToPush(r, d) /\ row[d] # None => Says(inflight[r].message, row[d])

\* An agent's connection was opened with its own token.
SocketsOwned == \A d \in Device : agent[d].sock # None => owner[agent[d].sock] = d

\* Before its handler registers it a connection carries nothing.
UnheardOf ==
    \A s \in Socket : handler[s] \in {"lookup", "looked"} =>
        down[s] = <<>> /\ \A d \in Device : registry[d] # s

\* A row that had content when it was looked up still has some.
ContentStays ==
    \A s \in Socket :
        snapshot[s] # None /\ row[owner[s]] # None /\ snapshot[s].content # None
            => row[owner[s]].content # None

\* No message in queue q shows anything.
ShowsNothing(q) == \A i \in 1..Len(q) : q[i].t = "set_content" => q[i].content = Blank

\* A device that has never been given any content shows none, nor will it.
BlankBeforeFirst ==
    \A d \in Device : row[d] # None /\ row[d].content = None =>
        /\ Screen(agent[d].content) = Blank
        /\ agent[d].sock # None => ShowsNothing(down[agent[d].sock])

\* The replay of row x has a message of type t.
Replayed(x, t) ==
    CASE t = "set_content" -> x.content # None
      [] t = "set_auto_update" -> TRUE
      [] t = "tv_power" -> x.desiredTvPower # None

\* What an agent has of setting t, or is sent, counts: the replay is under way, or
\* it will not touch the page. (Without content the row stands for a blank screen.)
Tracked(s, t) ==
    \/ handler[s] = "live" /\ (Replayed(snapshot[s], t) \/ t = "set_content")
    \/ handler[s] = "marking" /\ t = "set_content" /\ ~Replayed(snapshot[s], t)

\* Over a connection that is up, d ends up with the row's present value of each
\* setting or with the one its lookup read, unless a push of it is still to come.
UpToLookup(d) ==
    LET s == agent[d].sock
    IN  s # None /\ wire[s] = "up" /\ row[d] # None =>
        /\ handler[s] = "looked" /\ snapshot[s] # None /\ snapshot[s].content = None
              => Screen(agent[d].content) = Blank
        /\ \A t \in Setting : Tracked(s, t) /\ ~Pushing(d, t) =>
              \A m \in Coming(agent[d], down[s], t) : SaysEither(m, row[d], snapshot[s])

\* Over a connection that is set up, d ends up with what its row says, unless a
\* push is still to come. (This needs that nothing is written during a replay.)
UpToRow(d) ==
    LET s == agent[d].sock
    IN  s # None /\ wire[s] = "up" /\ handler[s] = "live" /\ row[d] # None =>
            \A t \in Setting : (t = "set_content" \/ Replayed(row[d], t)) /\ ~Pushing(d, t) =>
                \A m \in Coming(agent[d], down[s], t) : SaysEither(m, row[d], row[d])

UpToRows == \A d \in Device : UpToRow(d)

\* The copy of a row that a handler has still to replay is current.
CopiesCurrent ==
    \A s \in Socket :
        handler[s] \in {"looked", "marking"} /\ wire[s] = "up"
            => snapshot[s] = row[owner[s]]

SInv ==
    /\ PushesRow /\ SocketsOwned /\ UnheardOf /\ ContentStays /\ BlankBeforeFirst
    /\ \A d \in Device : UpToLookup(d)

(***************************************************************************)
(* Queues.                                                                 *)
(***************************************************************************)
\* The newest message of a concatenation is that of the second part, if it has any.
LEMMA NewestConcat ==
    ASSUME NEW q \in Seq(ServerMessage), NEW p \in Seq(ServerMessage), NEW t
    PROVE  /\ Newest(q \o p, t) = IF Lacks(p, t) THEN Newest(q, t) ELSE Newest(p, t)
           /\ Lacks(q \o p, t) <=> Lacks(q, t) /\ Lacks(p, t)
<1> DEFINE qp == q \o p
<1>1. /\ Len(q) \in Nat /\ Len(p) \in Nat /\ Len(qp) = Len(q) + Len(p)
      /\ \A i \in 1..Len(q) : qp[i] = q[i]
      /\ \A i \in 1..Len(p) : qp[Len(q) + i] = p[i]
  OBVIOUS
<1>2. \A i \in 1..Len(qp) : i \in 1..Len(q) \/ i - Len(q) \in 1..Len(p)
  BY <1>1
<1>3. \A i \in 1..Len(p) : Len(q) + i \in 1..Len(qp)
  BY <1>1
<1>4. \A i \in 1..Len(q) : i \in 1..Len(qp)
  BY <1>1
<1>5. \A i \in 1..Len(qp) : i \notin 1..Len(q) => qp[i] = p[i - Len(q)]
  <2>1. \A i \in 1..Len(qp) : i \notin 1..Len(q) =>
           i - Len(q) \in 1..Len(p) /\ Len(q) + (i - Len(q)) = i
    BY <1>1
  <2>2. QED
    BY <1>1, <2>1
<1> HIDE DEF qp
<1>6. Lacks(qp, t) <=> Lacks(q, t) /\ Lacks(p, t)
  <2>1. Lacks(qp, t) => Lacks(q, t) /\ Lacks(p, t)
    BY <1>1, <1>3, <1>4 DEF Lacks
  <2>2. Lacks(q, t) /\ Lacks(p, t) => Lacks(qp, t)
    BY <1>1, <1>2, <1>5 DEF Lacks
  <2>3. QED
    BY <2>1, <2>2
<1>7. CASE Lacks(p, t)
  <2>1. Newest(qp, t) \subseteq Newest(q, t)
    BY <1>1, <1>2, <1>4, <1>5, <1>7 DEF Lacks, Newest
  <2>2. ASSUME NEW m \in Newest(q, t)
        PROVE  m \in Newest(qp, t)
    <3>1. PICK i \in 1..Len(q) :
             /\ m = q[i] /\ q[i].t = t
             /\ \A j \in 1..Len(q) : j > i => q[j].t # t
      BY <2>2 DEF Newest
    <3>2. \A j \in 1..Len(qp) : j > i => qp[j].t # t
      BY <1>1, <1>2, <1>5, <1>7, <3>1 DEF Lacks
    <3>3. i \in 1..Len(qp) /\ qp[i] = m
      BY <1>1, <1>4, <3>1
    <3>4. QED
      BY <3>1, <3>2, <3>3 DEF Newest
  <2>3. QED
    BY <1>6, <1>7, <2>1, <2>2 DEF qp
<1>8. CASE ~Lacks(p, t)
  <2>1. PICK k \in 1..Len(p) : p[k].t = t
    BY <1>8 DEF Lacks
  <2>2. qp[Len(q) + k].t = t /\ \A i \in 1..Len(q) : Len(q) + k > i
    BY <1>1, <2>1
  <2>3. ASSUME NEW m \in Newest(qp, t)
        PROVE  m \in Newest(p, t)
    <3>1. PICK i \in 1..Len(qp) :
             /\ m = qp[i] /\ qp[i].t = t
             /\ \A j \in 1..Len(qp) : j > i => qp[j].t # t
      BY <2>3 DEF Newest
    <3>2. i \notin 1..Len(q)
      BY <1>3, <2>2, <3>1
    <3>3. i - Len(q) \in 1..Len(p) /\ m = p[i - Len(q)]
      BY <1>2, <1>5, <3>1, <3>2
    <3>4. \A j \in 1..Len(p) : j > i - Len(q) => p[j].t # t
      <4>1. \A j \in 1..Len(p) : j > i - Len(q) => Len(q) + j > i
        BY <1>1, <3>1
      <4>2. QED
        BY <1>1, <1>3, <3>1, <4>1
    <3>5. QED
      BY <3>1, <3>3, <3>4 DEF Newest
  <2>4. ASSUME NEW m \in Newest(p, t)
        PROVE  m \in Newest(qp, t)
    <3>1. PICK i \in 1..Len(p) :
             /\ m = p[i] /\ p[i].t = t
             /\ \A j \in 1..Len(p) : j > i => p[j].t # t
      BY <2>4 DEF Newest
    <3>2. Len(q) + i \in 1..Len(qp) /\ qp[Len(q) + i] = m
      BY <1>1, <1>3, <3>1
    <3>3. \A j \in 1..Len(qp) : j > Len(q) + i => qp[j].t # t
      <4>1. \A j \in 1..Len(qp) : j > Len(q) + i =>
               j \notin 1..Len(q) /\ j - Len(q) \in 1..Len(p) /\ j - Len(q) > i
        BY <1>1, <3>1
      <4>2. QED
        BY <1>5, <3>1, <4>1
    <3>4. QED
      BY <3>1, <3>2, <3>3 DEF Newest
  <2>5. QED
    BY <1>6, <1>8, <2>3, <2>4 DEF qp
<1>9. QED
  BY <1>7, <1>8

\* The newest message of a queue of one, and of none.
LEMMA NewestSingle ==
    ASSUME NEW m \in ServerMessage, NEW t
    PROVE  /\ Newest(<<m>>, t) = IF m.t = t THEN {m} ELSE {}
           /\ Lacks(<<m>>, t) <=> m.t # t
           /\ Newest(<<>>, t) = {} /\ Lacks(<<>>, t)
<1>1. Len(<<m>>) = 1 /\ <<m>>[1] = m /\ 1..1 = {1}
  OBVIOUS
<1>2. Newest(<<m>>, t) = IF m.t = t THEN {m} ELSE {}
  BY <1>1 DEF Newest
<1>3. Lacks(<<m>>, t) <=> m.t # t
  BY <1>1 DEF Lacks
<1>4. Newest(<<>>, t) = {} /\ Lacks(<<>>, t)
  BY DEF Newest, Lacks
<1>5. QED
  BY <1>2, <1>3, <1>4

\* A message that is pushed decides the settings of its type, and no other.
LEMMA ComingAfterPush ==
    ASSUME NEW a, NEW q \in Seq(ServerMessage), NEW m \in ServerMessage, NEW t
    PROVE  Coming(a, q \o <<m>>, t) = IF m.t = t THEN {m} ELSE Coming(a, q, t)
<1>1. <<m>> \in Seq(ServerMessage)
  OBVIOUS
<1>2. /\ Newest(q \o <<m>>, t) = IF Lacks(<<m>>, t) THEN Newest(q, t) ELSE Newest(<<m>>, t)
      /\ Lacks(q \o <<m>>, t) <=> Lacks(q, t) /\ Lacks(<<m>>, t)
  BY <1>1, NewestConcat
<1>3. /\ Newest(<<m>>, t) = IF m.t = t THEN {m} ELSE {}
      /\ Lacks(<<m>>, t) <=> m.t # t
  BY NewestSingle
<1>4. CASE m.t = t
  BY <1>2, <1>3, <1>4 DEF Coming
<1>5. CASE m.t # t
  BY <1>2, <1>3, <1>5 DEF Coming
<1>6. QED
  BY <1>4, <1>5

\* Receiving a message changes nothing of what is to come.
LEMMA ComingAfterReceive ==
    ASSUME NEW a \in Agent, NEW q \in Seq(ServerMessage), q # <<>>, NEW t \in Setting
    PROVE  Coming(Applied(a, Head(q)), Tail(q), t) \subseteq Coming(a, q, t)
<1> DEFINE m == Head(q)
           p == Tail(q)
<1>1. m \in ServerMessage /\ p \in Seq(ServerMessage) /\ q = <<m>> \o p
  OBVIOUS
<1>2. <<m>> \in Seq(ServerMessage)
  BY <1>1
<1> HIDE DEF m, p
<1>3. /\ Newest(q, t) = IF Lacks(p, t) THEN Newest(<<m>>, t) ELSE Newest(p, t)
      /\ Lacks(q, t) <=> Lacks(<<m>>, t) /\ Lacks(p, t)
  BY <1>1, <1>2, NewestConcat
<1>4. /\ Newest(<<m>>, t) = IF m.t = t THEN {m} ELSE {}
      /\ Lacks(<<m>>, t) <=> m.t # t
  BY <1>1, NewestSingle
<1>5. Lacks(p, t) => Newest(p, t) = {}
  BY DEF Lacks, Newest
<1>6. m.t # t => Present(Applied(a, m), t) = Present(a, t)
  <2>1. CASE m.t = "set_content"
    BY <2>1 DEF Applied, Present, Setting, Agent
  <2>2. CASE m.t = "set_auto_update"
    BY <2>2 DEF Applied, Present, Setting, Agent
  <2>3. CASE m.t = "tv_power"
    BY <2>3 DEF Applied, Present, Setting, Agent
  <2>4. CASE m.t \notin Setting
    BY <2>4 DEF Applied, Setting
  <2>5. QED
    BY <2>1, <2>2, <2>3, <2>4 DEF Setting
<1>7. m.t = t => Present(Applied(a, m), t) = m
  <2>1. CASE m.t = "set_content"
    BY <1>1, <2>1 DEF Applied, Present, Agent, ServerMessage
  <2>2. CASE m.t = "set_auto_update"
    BY <1>1, <2>2 DEF Applied, Present, Agent, ServerMessage
  <2>3. CASE m.t = "tv_power"
    BY <1>1, <2>3 DEF Applied, Present, Agent, ServerMessage
  <2>4. QED
    BY <2>1, <2>2, <2>3 DEF Setting
<1>8. Coming(Applied(a, m), p, t) \subseteq Coming(a, q, t)
  BY <1>3, <1>4, <1>5, <1>6, <1>7 DEF Coming
<1>9. QED
  BY <1>8 DEF m, p

\* The messages of the replay say what the row says.
LEMMA ReplaySays ==
    ASSUME NEW x \in Row, NEW t \in Setting
    PROVE  /\ Lacks(Replay(x), t) <=> ~Replayed(x, t)
           /\ Replayed(x, t) => \A m \in Newest(Replay(x), t) : m.t = t /\ Says(m, x)
<1> DEFINE page == [t |-> "set_content", content |-> x.content, zoom |-> x.zoom]
           auto == [t |-> "set_auto_update", enabled |-> x.autoUpdate]
           tv == [t |-> "tv_power", on |-> x.desiredTvPower]
           pages == IF x.content = None THEN <<>> ELSE <<page>>
           tvs == IF x.desiredTvPower = None THEN <<>> ELSE <<tv>>
<1>1. /\ x.content # None => page \in ServerMessage
      /\ auto \in ServerMessage
      /\ x.desiredTvPower # None => tv \in ServerMessage
  BY DEF Row, ServerMessage
<1>2. page.t = "set_content" /\ auto.t = "set_auto_update" /\ tv.t = "tv_power"
  OBVIOUS
<1>3. Says(page, x) \/ x.content = None
  BY DEF Says, Screen
<1>4. Says(auto, x) /\ Says(tv, x)
  BY DEF Says
<1>5. Replay(x) = pages \o <<auto>> \o tvs
  BY DEF Replay
<1> HIDE DEF page, auto, tv
<1>6. pages \in Seq(ServerMessage) /\ <<auto>> \in Seq(ServerMessage)
      /\ tvs \in Seq(ServerMessage) /\ pages \o <<auto>> \in Seq(ServerMessage)
  BY <1>1
<1>7. /\ Lacks(pages, t) <=> (x.content = None \/ t # "set_content")
      /\ ~Lacks(pages, t) => Newest(pages, t) = {page}
  BY <1>1, <1>2, NewestSingle
<1>8. /\ Lacks(<<auto>>, t) <=> t # "set_auto_update"
      /\ ~Lacks(<<auto>>, t) => Newest(<<auto>>, t) = {auto}
  BY <1>1, <1>2, NewestSingle
<1>9. /\ Lacks(tvs, t) <=> (x.desiredTvPower = None \/ t # "tv_power")
      /\ ~Lacks(tvs, t) => Newest(tvs, t) = {tv}
  BY <1>1, <1>2, NewestSingle
<1> HIDE DEF pages, tvs
<1>10. /\ Lacks(Replay(x), t)
             <=> Lacks(pages, t) /\ Lacks(<<auto>>, t) /\ Lacks(tvs, t)
       /\ Newest(Replay(x), t) =
             IF Lacks(tvs, t)
             THEN IF Lacks(<<auto>>, t) THEN Newest(pages, t) ELSE Newest(<<auto>>, t)
             ELSE Newest(tvs, t)
  <2>1. /\ Lacks(pages \o <<auto>>, t) <=> Lacks(pages, t) /\ Lacks(<<auto>>, t)
        /\ Newest(pages \o <<auto>>, t) =
              IF Lacks(<<auto>>, t) THEN Newest(pages, t) ELSE Newest(<<auto>>, t)
    BY <1>6, NewestConcat
  <2> DEFINE first == pages \o <<auto>>
  <2>2. Replay(x) = first \o tvs /\ first \in Seq(ServerMessage)
    BY <1>5, <1>6
  <2> HIDE DEF first
  <2>3. /\ Lacks(first \o tvs, t) <=> Lacks(first, t) /\ Lacks(tvs, t)
        /\ Newest(first \o tvs, t) =
              IF Lacks(tvs, t) THEN Newest(first, t) ELSE Newest(tvs, t)
    BY <1>6, <2>2, NewestConcat
  <2>4. QED
    BY <2>1, <2>2, <2>3 DEF first
<1>11. CASE t = "set_content"
  BY <1>2, <1>3, <1>7, <1>8, <1>9, <1>10, <1>11 DEF Replayed
<1>12. CASE t = "set_auto_update"
  BY <1>2, <1>4, <1>7, <1>8, <1>9, <1>10, <1>12 DEF Replayed
<1>13. CASE t = "tv_power"
  BY <1>2, <1>4, <1>7, <1>8, <1>9, <1>10, <1>13 DEF Replayed
<1>14. QED
  BY <1>11, <1>12, <1>13 DEF Setting

\* The replay decides the settings it has a message of, and no other.
LEMMA ComingAfterReplay ==
    ASSUME NEW a, NEW q \in Seq(ServerMessage), NEW x \in Row, NEW t \in Setting
    PROVE  /\ ~Replayed(x, t) => Coming(a, q \o Replay(x), t) = Coming(a, q, t)
           /\ Replayed(x, t) =>
                 \A m \in Coming(a, q \o Replay(x), t) : m.t = t /\ Says(m, x)
<1>1. /\ Lacks(Replay(x), t) <=> ~Replayed(x, t)
      /\ Replayed(x, t) => \A m \in Newest(Replay(x), t) : m.t = t /\ Says(m, x)
  BY ReplaySays
<1>2. QED
  BY <1>1, ReplayType, NewestConcat DEF Coming

(***************************************************************************)
(* Steps that preserve the invariant.                                      *)
(***************************************************************************)
\* Saying what one row says is saying what either of two says.
LEMMA SaysSaysEither ==
    ASSUME NEW m, NEW x, NEW y, Says(m, x)
    PROVE  SaysEither(m, x, y) /\ SaysEither(m, y, x)
<1>1. \A c : Screen(Screen(c)) = Screen(c)
  BY GatewayAssumption DEF Screen
<1>2. QED
  BY <1>1 DEF Says, SaysEither

\* The invariant holds initially.
LEMMA SInvInit == Init => SInv
<1> SUFFICES ASSUME Init PROVE SInv
  OBVIOUS
<1>1. PushesRow
  BY DEF Init, PushesRow, AboutToPush
<1>2. SocketsOwned /\ UnheardOf /\ ContentStays
  BY DEF Init, SocketsOwned, UnheardOf, ContentStays, FreshAgent
<1>3. BlankBeforeFirst
  BY DEF Init, BlankBeforeFirst, FreshAgent, Screen
<1>4. \A d \in Device : UpToLookup(d)
  BY DEF Init, UpToLookup, FreshAgent
<1>5. QED
  BY <1>1, <1>2, <1>3, <1>4 DEF SInv

\* A device keeps what it has if nothing touches its row, its agent, its queue and
\* its handler, and every push that was to come still is.
LEMMA UpToLookupKept ==
    ASSUME NEW d \in Device, UpToLookup(d),
           agent'[d] = agent[d], row'[d] = row[d],
           \A t \in Setting : Pushing(d, t) => Pushing(d, t)',
           wire'[agent[d].sock] = "up" =>
              /\ wire[agent[d].sock] = "up"
              /\ down'[agent[d].sock] = down[agent[d].sock]
              /\ \/ handler'[agent[d].sock] \in {"lookup", "done"}
                 \/ /\ handler'[agent[d].sock] = handler[agent[d].sock]
                    /\ snapshot'[agent[d].sock] = snapshot[agent[d].sock]
    PROVE  UpToLookup(d)'
<1> DEFINE s == agent[d].sock
<1> SUFFICES ASSUME s # None, wire'[s] = "up", row[d] # None,
                    handler'[s] \notin {"lookup", "done"}
             PROVE  /\ handler'[s] = "looked" /\ snapshot'[s] # None
                       /\ snapshot'[s].content = None => Screen(agent[d].content) = Blank
                    /\ \A t \in Setting : Tracked(s, t)' /\ ~Pushing(d, t)' =>
                          \A m \in Coming(agent[d], down'[s], t) :
                              SaysEither(m, row[d], snapshot'[s])
  BY DEF UpToLookup, Tracked
<1>1. /\ wire[s] = "up" /\ down'[s] = down[s]
      /\ handler'[s] = handler[s] /\ snapshot'[s] = snapshot[s]
  OBVIOUS
<1>2. \A t \in Setting : Tracked(s, t)' <=> Tracked(s, t)
  BY <1>1 DEF Tracked
<1>3. QED
  BY <1>1, <1>2 DEF UpToLookup

\* Likewise for what its row says.
LEMMA UpToRowKept ==
    ASSUME NEW d \in Device, UpToRow(d),
           agent'[d] = agent[d], row'[d] = row[d],
           \A t \in Setting : Pushing(d, t) => Pushing(d, t)',
           wire'[agent[d].sock] = "up" /\ handler'[agent[d].sock] = "live" =>
              /\ wire[agent[d].sock] = "up" /\ handler[agent[d].sock] = "live"
              /\ down'[agent[d].sock] = down[agent[d].sock]
    PROVE  UpToRow(d)'
<1> DEFINE s == agent[d].sock
<1> SUFFICES ASSUME s # None, wire'[s] = "up", handler'[s] = "live", row[d] # None,
                    NEW t \in Setting, t = "set_content" \/ Replayed(row[d], t),
                    ~Pushing(d, t)', NEW m \in Coming(agent[d], down'[s], t)
             PROVE  SaysEither(m, row[d], row[d])
  BY DEF UpToRow
<1>1. wire[s] = "up" /\ handler[s] = "live" /\ down'[s] = down[s] /\ ~Pushing(d, t)
  OBVIOUS
<1>2. QED
  BY <1>1 DEF UpToRow

\* A step in which nothing is written or set up, and things may only be lost:
\* queues, connections, handlers, registry entries, agents, or all requests.
LEMMA LosingStep ==
    ASSUME IInv, SInv, UNCHANGED <<row, owner>>,
           \/ inflight' = inflight
           \/ (\A r \in Request : inflight'[r] = None) /\ (\A q \in Socket : wire'[q] # "up"),
           \A q \in Socket : wire'[q] = "up" => wire[q] = "up" /\ down'[q] = down[q],
           \A q \in Socket : down'[q] \in {down[q], <<>>},
           \A q \in Socket :
              \/ handler'[q] = "done" /\ snapshot'[q] \in {snapshot[q], None}
              \/ handler'[q] = handler[q] /\ snapshot'[q] = snapshot[q],
           \A e \in Device : registry'[e] \in {registry[e], None},
           \A e \in Device :
              \/ agent'[e] = agent[e]
              \/ agent'[e].sock = None /\ agent'[e].content \in {agent[e].content, None}
    PROVE  SInv' /\ (UpToRows => UpToRows')
<1>1. PushesRow'
  BY DEF SInv, PushesRow, AboutToPush, Says
<1>2. SocketsOwned'
  BY DEF SInv, SocketsOwned
<1>3. UnheardOf'
  BY ConstantFacts DEF SInv, UnheardOf
<1>4. ContentStays'
  BY DEF SInv, ContentStays
<1>5. BlankBeforeFirst'
  <2> SUFFICES ASSUME NEW d \in Device, row[d] # None, row[d].content = None
               PROVE  /\ Screen(agent'[d].content) = Blank
                      /\ agent'[d].sock # None => ShowsNothing(down'[agent'[d].sock])
    BY DEF BlankBeforeFirst, ShowsNothing
  <2>1. /\ Screen(agent[d].content) = Blank
        /\ agent[d].sock # None => ShowsNothing(down[agent[d].sock])
    BY DEF SInv, BlankBeforeFirst
  <2>2. ShowsNothing(<<>>)
    BY DEF ShowsNothing
  <2>3. agent[d].sock \in Socket \cup {None}
    BY DEF IInv, TypeOK, Agent
  <2>4. QED
    BY <2>1, <2>2, <2>3 DEF Screen
<1>6. ASSUME NEW d \in Device
      PROVE  UpToLookup(d)'
  <2>1. agent[d].sock \in Socket \cup {None}
    BY DEF IInv, TypeOK, Agent
  <2>2. CASE agent'[d].sock = None \/ wire'[agent'[d].sock] # "up"
    BY <2>2 DEF UpToLookup
  <2>3. CASE agent'[d].sock # None /\ wire'[agent'[d].sock] = "up"
    <3>1. agent'[d] = agent[d] /\ agent[d].sock \in Socket
      BY <2>1, <2>3
    <3>2. inflight' = inflight
      BY <2>3, <3>1
    <3>3. \A t \in Setting : Pushing(d, t) => Pushing(d, t)'
      BY <3>2 DEF Pushing, AboutToPush
    <3>4. UpToLookup(d) /\ row'[d] = row[d]
      BY DEF SInv
    <3>5. QED
      BY <3>1, <3>3, <3>4, UpToLookupKept
  <2>4. QED
    BY <2>2, <2>3
<1>7. ASSUME UpToRows, NEW d \in Device
      PROVE  UpToRow(d)'
  <2>1. CASE agent'[d].sock = None \/ wire'[agent'[d].sock] # "up"
    BY <2>1 DEF UpToRow
  <2>2. CASE agent'[d].sock # None /\ wire'[agent'[d].sock] = "up"
    <3>1. agent'[d] = agent[d] /\ agent[d].sock \in Socket
      BY <2>2 DEF IInv, TypeOK, Agent
    <3>2. inflight' = inflight
      BY <2>2, <3>1
    <3>3. \A t \in Setting : Pushing(d, t) => Pushing(d, t)'
      BY <3>2 DEF Pushing, AboutToPush
    <3>4. UpToRow(d) /\ row'[d] = row[d]
      BY <1>7 DEF UpToRows
    <3>5. wire'[agent[d].sock] = "up" /\ handler'[agent[d].sock] = "live" =>
             /\ wire[agent[d].sock] = "up" /\ handler[agent[d].sock] = "live"
             /\ down'[agent[d].sock] = down[agent[d].sock]
      BY <3>1
    <3>6. QED
      BY <3>1, <3>3, <3>4, <3>5, UpToRowKept
  <2>3. QED
    BY <2>1, <2>2
<1>8. QED
  BY <1>1, <1>2, <1>3, <1>4, <1>5, <1>6, <1>7 DEF SInv, UpToRows

\* The steps that only lose something.
LEMMA LosingSteps ==
    ASSUME IInv, SInv,
           \/ \E s \in Socket : \/ RejectToken(s) \/ HandlerFails(s) \/ SocketClosed(s)
                                \/ PingTick(s) \/ Pong(s) \/ Cut(s)
           \/ \E d \in Device : \/ AgentClosed(d) \/ AgentRestart(d)
                                \/ PowerLoss(d) \/ PowerOn(d)
           \/ ServerRestart \/ UNCHANGED vars
    PROVE  SInv' /\ (UpToRows => UpToRows')
<1> USE DEF dbVars, handlerVars, linkVars, deviceVars
<1>1. ASSUME NEW s \in Socket, NEW q \in Socket
      PROVE  CloseWire(s)[q] = "up" => wire[q] = "up"
  BY DEF CloseWire, IInv, TypeOK
<1>2. ASSUME NEW s \in Socket,
             RejectToken(s) \/ HandlerFails(s) \/ PingTick(s) \/ Pong(s)
      PROVE  SInv' /\ (UpToRows => UpToRows')
  <2>1. /\ UNCHANGED <<row, inflight, owner, registry, agent, down>>
        /\ wire' \in {wire, CloseWire(s)}
        /\ \A q \in Socket :
              \/ handler'[q] = "done" /\ snapshot'[q] \in {snapshot[q], None}
              \/ handler'[q] = handler[q] /\ snapshot'[q] = snapshot[q]
    BY <1>2 DEF RejectToken, HandlerFails, PingTick, Pong, IInv, TypeOK
  <2>2. QED
    BY <1>1, <2>1, LosingStep
<1>3. ASSUME NEW s \in Socket, SocketClosed(s)
      PROVE  SInv' /\ (UpToRows => UpToRows')
  <2>1. /\ UNCHANGED <<row, inflight, owner, agent, down>>
        /\ \A q \in Socket : wire'[q] = "up" => wire[q] = "up"
        /\ \A q \in Socket :
              \/ handler'[q] = "done" /\ snapshot'[q] \in {snapshot[q], None}
              \/ handler'[q] = handler[q] /\ snapshot'[q] = snapshot[q]
        /\ \A e \in Device : registry'[e] \in {registry[e], None}
    BY <1>3 DEF SocketClosed, Unregistered, IInv, TypeOK
  <2>2. QED
    BY <2>1, LosingStep
<1>4. ASSUME NEW s \in Socket, Cut(s)
      PROVE  SInv' /\ (UpToRows => UpToRows')
  <2>1. /\ UNCHANGED <<row, inflight, owner, registry, agent, handler, snapshot>>
        /\ \A q \in Socket : wire'[q] = "up" => wire[q] = "up" /\ down'[q] = down[q]
        /\ \A q \in Socket : down'[q] \in {down[q], <<>>}
    BY <1>4 DEF Cut, IInv, TypeOK
  <2>2. QED
    BY <2>1, LosingStep
<1>5. ASSUME NEW d \in Device, AgentClosed(d)
      PROVE  SInv' /\ (UpToRows => UpToRows')
  <2>1. /\ UNCHANGED <<row, inflight, owner, registry, down, handler, snapshot, wire>>
        /\ \A e \in Device :
              \/ agent'[e] = agent[e]
              \/ agent'[e].sock = None /\ agent'[e].content = agent[e].content
    BY <1>5 DEF AgentClosed, IInv, TypeOK, Agent
  <2>2. QED
    BY <2>1, LosingStep
<1>6. ASSUME NEW d \in Device, AgentRestart(d) \/ PowerLoss(d)
      PROVE  SInv' /\ (UpToRows => UpToRows')
  <2>1. PICK w \in {"closing", "cut"} : Vanish(d, w)
    BY <1>6 DEF AgentRestart, PowerLoss
  <2>2. agent[d].sock \in Socket \cup {None}
    BY DEF IInv, TypeOK, Agent
  <2>3. /\ \A q \in Socket : wire'[q] = "up" => wire[q] = "up" /\ down'[q] = down[q]
        /\ \A q \in Socket : down'[q] \in {down[q], <<>>}
    BY <2>1, <2>2 DEF Vanish, IInv, TypeOK
  <2>4. /\ UNCHANGED <<row, inflight, owner, registry, handler, snapshot>>
        /\ \A e \in Device :
              \/ agent'[e] = agent[e]
              \/ agent'[e].sock = None /\ agent'[e].content = None
    BY <1>6 DEF AgentRestart, PowerLoss, FreshAgent, IInv, TypeOK
  <2>5. QED
    BY <2>3, <2>4, LosingStep
<1>7. ASSUME NEW d \in Device, PowerOn(d)
      PROVE  SInv' /\ (UpToRows => UpToRows')
  BY <1>7, LosingStep DEF PowerOn
<1>8. CASE ServerRestart
  <2>1. /\ UNCHANGED <<row, owner, down, agent>>
        /\ \A r \in Request : inflight'[r] = None
        /\ \A q \in Socket : wire'[q] = "closed" /\ handler'[q] = "done"
                             /\ snapshot'[q] = None
        /\ \A e \in Device : registry'[e] = None
    BY <1>8 DEF ServerRestart
  <2>2. QED
    BY <2>1, LosingStep
<1>9. CASE UNCHANGED vars
  BY <1>9, LosingStep DEF vars
<1>10. QED
  BY <1>2, <1>3, <1>4, <1>5, <1>6, <1>7, <1>8, <1>9

\* A request that is admitted pushes nothing yet.
LEMMA CheckKeeps ==
    ASSUME IInv, SInv, NEW r \in Request, NEW e \in Device, NEW command \in Commands,
           RequestCheck(r, e, command)
    PROVE  SInv' /\ (UpToRows => UpToRows')
<1>1. /\ inflight[r] = None
      /\ inflight' = [inflight EXCEPT ![r] =
            [step |-> "checked", device |-> e, command |-> command]]
      /\ UNCHANGED <<row, registry, handler, owner, snapshot, wire, down, agent>>
  BY DEF RequestCheck, handlerVars, linkVars, deviceVars
<1>2. \A q \in Request, d \in Device :
         /\ AboutToPush(q, d)' <=> AboutToPush(q, d)
         /\ AboutToPush(q, d) => inflight'[q] = inflight[q]
  BY <1>1 DEF AboutToPush, IInv, TypeOK
<1>3. PushesRow'
  BY <1>1, <1>2 DEF SInv, PushesRow
<1>4. SocketsOwned' /\ UnheardOf' /\ ContentStays' /\ BlankBeforeFirst'
  BY <1>1 DEF SInv, SocketsOwned, UnheardOf, ContentStays, BlankBeforeFirst
<1>5. ASSUME NEW d \in Device
      PROVE  UpToLookup(d)'
  <2>1. \A t \in Setting : Pushing(d, t) => Pushing(d, t)'
    BY <1>2 DEF Pushing
  <2>2. UpToLookup(d)
    BY DEF SInv
  <2>3. QED
    BY <1>1, <2>1, <2>2, UpToLookupKept
<1>6. ASSUME UpToRows, NEW d \in Device
      PROVE  UpToRow(d)'
  <2>1. \A t \in Setting : Pushing(d, t) => Pushing(d, t)'
    BY <1>2 DEF Pushing
  <2>2. UpToRow(d)
    BY <1>6 DEF UpToRows
  <2>3. QED
    BY <1>1, <2>1, <2>2, UpToRowKept
<1>7. QED
  BY <1>3, <1>4, <1>5, <1>6 DEF SInv, UpToRows

\* A request that fails takes nothing along that was to be pushed.
LEMMA FailKeeps ==
    ASSUME IInv, SInv, NEW r \in Request, RequestFails(r), ~PushDropped(r)
    PROVE  SInv' /\ (UpToRows => UpToRows')
<1>1. /\ inflight' = [inflight EXCEPT ![r] = None]
      /\ \A d \in Device : ~AboutToPush(r, d)
      /\ UNCHANGED <<row, registry, handler, owner, snapshot, wire, down, agent>>
  BY DEF RequestFails, PushDropped, handlerVars, linkVars, deviceVars
<1>2. \A q \in Request, d \in Device :
         /\ AboutToPush(q, d)' <=> AboutToPush(q, d)
         /\ AboutToPush(q, d) => inflight'[q] = inflight[q]
  BY <1>1 DEF AboutToPush, IInv, TypeOK
<1>3. PushesRow'
  BY <1>1, <1>2 DEF SInv, PushesRow
<1>4. SocketsOwned' /\ UnheardOf' /\ ContentStays' /\ BlankBeforeFirst'
  BY <1>1 DEF SInv, SocketsOwned, UnheardOf, ContentStays, BlankBeforeFirst
<1>5. ASSUME NEW d \in Device
      PROVE  UpToLookup(d)'
  <2>1. \A t \in Setting : Pushing(d, t) => Pushing(d, t)'
    BY <1>2 DEF Pushing
  <2>2. UpToLookup(d)
    BY DEF SInv
  <2>3. QED
    BY <1>1, <2>1, <2>2, UpToLookupKept
<1>6. ASSUME UpToRows, NEW d \in Device
      PROVE  UpToRow(d)'
  <2>1. \A t \in Setting : Pushing(d, t) => Pushing(d, t)'
    BY <1>2 DEF Pushing
  <2>2. UpToRow(d)
    BY <1>6 DEF UpToRows
  <2>3. QED
    BY <1>1, <2>1, <2>2, UpToRowKept
<1>7. QED
  BY <1>3, <1>4, <1>5, <1>6 DEF SInv, UpToRows

\* What an UPDATE pushes is what it has stored, and what it does not push has not
\* changed. Content is never taken away again.
LEMMA UpdatedSays ==
    ASSUME NEW command \in Commands, NEW x \in Row, Updated(command, x) # None
    PROVE  LET y == Updated(command, x)
               m == MessageFor(command, y)
           IN  /\ m # None => Says(m, y)
               /\ x.content # None => y.content # None
               /\ m = None \/ m.t # "set_content" => y.content = x.content /\ y.zoom = x.zoom
               /\ m = None \/ m.t # "set_auto_update" => y.autoUpdate = x.autoUpdate
               /\ m = None \/ m.t # "tv_power" => y.desiredTvPower = x.desiredTvPower
<1> DEFINE y == Updated(command, x)
           m == MessageFor(command, y)
<1> SUFFICES /\ m # None => Says(m, y)
             /\ x.content # None => y.content # None
             /\ m = None \/ m.t # "set_content" => y.content = x.content /\ y.zoom = x.zoom
             /\ m = None \/ m.t # "set_auto_update" => y.autoUpdate = x.autoUpdate
             /\ m = None \/ m.t # "tv_power" => y.desiredTvPower = x.desiredTvPower
  OBVIOUS
<1>1. command \in Command
  BY GatewayAssumption
<1>2. m \in ServerMessage => m # None
  BY NullAssumption
<1>3. CASE command.kind = "content"
  <2>1. /\ y = [x EXCEPT !.content = command.content] /\ command.content \in Content
        /\ m = [t |-> "set_content", content |-> command.content, zoom |-> y.zoom]
    BY <1>1, <1>3 DEF Updated, MessageFor, Command
  <2> HIDE DEF y, m
  <2>2. m \in ServerMessage /\ command.content # None
    BY <2>1, GatewayAssumption DEF Row, ServerMessage
  <2>3. QED
    BY <1>2, <2>1, <2>2 DEF Row, Says, Screen
<1>4. CASE command.kind = "zoom"
  <2>1. /\ y = [x EXCEPT !.zoom = command.zoom]
        /\ m = [t |-> "set_content", zoom |-> command.zoom, content |-> Screen(y.content)]
        /\ command.zoom \in Zoom
    BY <1>1, <1>4 DEF Updated, MessageFor, Command, Screen
  <2> HIDE DEF y, m
  <2>2. m \in ServerMessage
    BY <2>1, GatewayAssumption DEF Row, ServerMessage, Screen
  <2>3. QED
    BY <1>2, <2>1, <2>2 DEF Row, Says
<1>5. CASE command.kind = "autoUpdate"
  <2>1. /\ y = [x EXCEPT !.autoUpdate = command.enabled] /\ command.enabled \in BOOLEAN
        /\ m = [t |-> "set_auto_update", enabled |-> command.enabled]
    BY <1>1, <1>5 DEF Updated, MessageFor, Command
  <2> HIDE DEF y, m
  <2>2. m \in ServerMessage
    BY <2>1 DEF ServerMessage
  <2>3. QED
    BY <1>2, <2>1, <2>2 DEF Row, Says
<1>6. CASE command.kind = "tvPower"
  <2>1. /\ y = [x EXCEPT !.desiredTvPower = command.on] /\ command.on \in BOOLEAN
        /\ m = [t |-> "tv_power", on |-> command.on]
    BY <1>1, <1>6 DEF Updated, MessageFor, Command
  <2> HIDE DEF y, m
  <2>2. m \in ServerMessage
    BY <2>1 DEF ServerMessage
  <2>3. QED
    BY <1>2, <2>1, <2>2 DEF Row, Says
<1>7. CASE command.kind \in {"tvVolume", "refresh"}
  <2>1. y = x /\ m \in {[t |-> "tv_volume"], [t |-> "refresh"]}
    BY <1>7 DEF Updated, MessageFor
  <2> HIDE DEF y, m
  <2>2. QED
    BY <2>1 DEF Says
<1>8. CASE command.kind = "delete"
  BY <1>8 DEF Updated
<1>9. QED
  BY <1>1, <1>3, <1>4, <1>5, <1>6, <1>7, <1>8 DEF Command

\* The database executes the UPDATE. Nobody else is about to push for this device;
\* what changes in its row is what this request will push.
LEMMA CommitKeeps ==
    ASSUME IInv, SInv, NoRivals', NEW r \in Request, RequestCommit(r)
    PROVE  SInv' /\ (UpToRows => UpToRows')
<1>1. PICK e \in Device, command \in Commands :
         /\ inflight[r] \in InFlight /\ inflight[r].step = "checked"
         /\ e = inflight[r].device /\ command = inflight[r].command
  BY DEF RequestCommit, IInv, TypeOK, InFlight
<1> DEFINE stored == Updated(command, row[e])
           pushed == MessageFor(command, stored)
<1>2. stored \in Row \cup {None} /\ pushed \in ServerMessage \cup {None}
  BY <1>1, UpdatedType, MessageForType DEF IInv, TypeOK
<1>3. /\ row' = [row EXCEPT ![e] = stored]
      /\ inflight' = [inflight EXCEPT ![r] =
            [step |-> "committed", device |-> e, message |-> pushed]]
      /\ UNCHANGED <<registry, handler, owner, snapshot, wire, down, agent>>
  BY <1>1 DEF RequestCommit, handlerVars, linkVars, deviceVars
<1>4. stored # None =>
         /\ row[e] \in Row
         /\ pushed # None => Says(pushed, stored)
         /\ row[e].content # None => stored.content # None
         /\ pushed = None \/ pushed.t # "set_content"
               => stored.content = row[e].content /\ stored.zoom = row[e].zoom
         /\ pushed = None \/ pushed.t # "set_auto_update"
               => stored.autoUpdate = row[e].autoUpdate
         /\ pushed = None \/ pushed.t # "tv_power"
               => stored.desiredTvPower = row[e].desiredTvPower
  <2>1. stored # None => row[e] \in Row
    BY <1>1 DEF Updated, IInv, TypeOK
  <2>2. QED
    BY <1>1, <2>1, UpdatedSays
<1>5. [step |-> "committed", device |-> e, message |-> pushed] # None
  BY <1>1, <1>2, NullAssumption DEF InFlight
<1> HIDE DEF stored, pushed
<1>6. /\ row'[e] = stored
      /\ \A d \in Device : d # e => row'[d] = row[d]
      /\ inflight'[r] = [step |-> "committed", device |-> e, message |-> pushed]
      /\ \A q \in Request : q # r => inflight'[q] = inflight[q]
  BY <1>1, <1>3 DEF IInv, TypeOK
<1>7. /\ \A d \in Device : ~AboutToPush(r, d) /\ (AboutToPush(r, d)' <=> d = e /\ pushed # None)
      /\ \A q \in Request, d \in Device : q # r =>
            (AboutToPush(q, d)' <=> AboutToPush(q, d))
  BY <1>1, <1>5, <1>6 DEF AboutToPush
<1>8. \A d \in Device, t \in Setting : Pushing(d, t) => Pushing(d, t)'
  BY <1>6, <1>7 DEF Pushing
<1>9. PushesRow'
  <2> SUFFICES ASSUME NEW q \in Request, NEW d \in Device,
                      AboutToPush(q, d)', row'[d] # None
               PROVE  Says(inflight'[q].message, row'[d])
    BY DEF PushesRow, Says
  <2>1. CASE q = r
    BY <1>4, <1>6, <1>7, <2>1
  <2>2. CASE q # r /\ d # e
    BY <1>6, <1>7, <2>2 DEF SInv, PushesRow
  <2>3. CASE q # r /\ d = e
    <3> DEFINE m == inflight[q].message
    <3>1. AboutToPush(q, e) /\ inflight'[q] = inflight[q] /\ stored # None
      BY <1>6, <1>7, <2>3
    <3>2. Says(m, row[e])
      <4>1. row[e] # None
        BY <3>1 DEF stored, Updated
      <4>2. QED
        BY <3>1, <4>1 DEF SInv, PushesRow
    <3>3. m.t \in Setting /\ pushed # None => pushed.t # m.t
      BY <1>6, <1>7, <2>3, <3>1 DEF NoRivals
    <3>4. Says(m, stored)
      BY <1>4, <3>1, <3>2, <3>3 DEF Says, Setting
    <3>5. QED
      BY <1>6, <2>3, <3>1, <3>4
  <2>4. QED
    BY <2>1, <2>2, <2>3
<1>10. SocketsOwned' /\ UnheardOf'
  BY <1>3 DEF SInv, SocketsOwned, UnheardOf
<1>11. \A d \in Device : row'[d] # None =>
          row[d] # None /\ (row[d].content # None => row'[d].content # None)
  <2>1. row[e] = None => stored = None
    BY DEF stored, Updated
  <2>2. QED
    BY <1>4, <1>6, <2>1
<1>12. ContentStays'
  BY <1>3, <1>11 DEF SInv, ContentStays, IInv, TypeOK
<1>13. BlankBeforeFirst'
  BY <1>3, <1>11 DEF SInv, BlankBeforeFirst
<1>14. ASSUME NEW d \in Device
       PROVE  UpToLookup(d)'
  <2>1. UpToLookup(d)
    BY DEF SInv
  <2>2. CASE d # e
    BY <1>3, <1>6, <1>8, <2>1, <2>2, UpToLookupKept
  <2>3. CASE d = e
    <3> DEFINE s == agent[e].sock
    <3> SUFFICES ASSUME s # None, wire[s] = "up", stored # None
                 PROVE  /\ handler[s] = "looked" /\ snapshot[s] # None
                              /\ snapshot[s].content = None
                           => Screen(agent[e].content) = Blank
                        /\ \A t \in Setting : Tracked(s, t) /\ ~Pushing(e, t)' =>
                              \A m \in Coming(agent[e], down[s], t) :
                                  SaysEither(m, stored, snapshot[s])
      BY <1>3, <1>6, <2>3 DEF UpToLookup, Tracked
    <3>1. row[e] # None
      BY <1>1, <1>6, <1>11
    <3>2. ASSUME NEW t \in Setting, Tracked(s, t), ~Pushing(e, t)',
                 NEW m \in Coming(agent[e], down[s], t)
          PROVE  SaysEither(m, stored, snapshot[s])
      <4>1. ~Pushing(e, t)
        BY <1>8, <3>2
      <4>2. SaysEither(m, row[e], snapshot[s])
        BY <2>1, <2>3, <3>1, <3>2, <4>1 DEF UpToLookup
      <4>3. pushed = None \/ pushed.t # t
        BY <1>6, <1>7, <3>2 DEF Pushing
      <4>4. m.t = t
        BY DEF Coming, Newest, Present, Setting
      <4>5. QED
        BY <1>4, <4>2, <4>3, <4>4 DEF SaysEither, Setting
    <3>3. QED
      BY <2>1, <2>3, <3>1, <3>2 DEF UpToLookup
  <2>4. QED
    BY <2>2, <2>3
<1>15. ASSUME UpToRows, NEW d \in Device
       PROVE  UpToRow(d)'
  <2>1. UpToRow(d)
    BY <1>15 DEF UpToRows
  <2>2. CASE d # e
    BY <1>3, <1>6, <1>8, <2>1, <2>2, UpToRowKept
  <2>3. CASE d = e
    <3> DEFINE s == agent[e].sock
    <3>1. ASSUME s # None, wire[s] = "up", handler[s] = "live", stored # None,
                 NEW t \in Setting, t = "set_content" \/ Replayed(stored, t),
                 ~Pushing(e, t)', NEW m \in Coming(agent[e], down[s], t)
          PROVE  SaysEither(m, stored, stored)
      <4>1. ~Pushing(e, t)
        BY <1>8, <3>1
      <4>2. pushed = None \/ pushed.t # t
        BY <1>6, <1>7, <3>1 DEF Pushing
      <4>3. row[e] # None
        BY <1>1, <1>6, <1>11, <3>1
      <4>4. t = "set_content" \/ Replayed(row[e], t)
        BY <1>4, <3>1, <4>2 DEF Replayed, Setting
      <4>5. SaysEither(m, row[e], row[e])
        BY <2>1, <2>3, <3>1, <4>1, <4>3, <4>4 DEF UpToRow
      <4>6. m.t = t
        BY DEF Coming, Newest, Present, Setting
      <4>7. QED
        BY <1>4, <3>1, <4>2, <4>5, <4>6 DEF SaysEither, Setting
    <3>2. QED
      BY <1>3, <1>6, <2>3, <3>1 DEF UpToRow
  <2>4. QED
    BY <2>2, <2>3
<1>16. QED
  BY <1>9, <1>10, <1>12, <1>13, <1>14, <1>15 DEF SInv, UpToRows

\* The handler pushes. Over a connection that counts, the message arrives behind
\* everything else, and it is what the row says; elsewhere it changes nothing.
LEMMA ResumeKeeps ==
    ASSUME IInv, SInv, NEW r \in Request, RequestResume(r)
    PROVE  SInv' /\ (UpToRows => UpToRows')
<1>1. PICK e \in Device, m \in ServerMessage \cup {None} :
         /\ inflight[r] # None /\ inflight[r].step = "committed"
         /\ e = inflight[r].device /\ m = inflight[r].message
  BY DEF RequestResume, IInv, TypeOK, InFlight
<1>2. /\ down' = IF m = None THEN down ELSE SendToDevice(e, m)
      /\ inflight' = [inflight EXCEPT ![r] = None]
      /\ UNCHANGED <<row, registry, handler, owner, snapshot, wire, agent>>
  BY <1>1 DEF RequestResume, handlerVars, deviceVars
<1>3. /\ ~(\E d \in Device : AboutToPush(r, d)')
      /\ \A q \in Request, d \in Device : AboutToPush(q, d)' =>
            AboutToPush(q, d) /\ inflight'[q] = inflight[q]
      /\ \A q \in Request, d \in Device : q # r /\ AboutToPush(q, d) =>
            AboutToPush(q, d)' /\ inflight'[q] = inflight[q]
  BY <1>1, <1>2 DEF AboutToPush, IInv, TypeOK
<1>4. /\ AboutToPush(r, e) <=> m # None
      /\ \A d \in Device : d # e => ~AboutToPush(r, d)
      /\ m # None => m \in ServerMessage
  BY <1>1 DEF AboutToPush
<1>5. row[e] # None /\ m # None => Says(m, row[e])
  BY <1>1, <1>4 DEF SInv, PushesRow
<1>6. \A q \in Socket :
         \/ down'[q] = down[q]
         \/ /\ m # None /\ registry[e] = q /\ wire[q] = "up"
            /\ down'[q] = down[q] \o <<m>>
  BY <1>1, <1>2 DEF SendToDevice, SendAll, IInv, TypeOK
<1>7. m # None /\ registry[e] \in Socket /\ wire[registry[e]] = "up"
         => down'[registry[e]] = down[registry[e]] \o <<m>>
  BY <1>1, <1>2, ConstantFacts DEF SendToDevice, SendAll, IInv, TypeOK
<1>8. PushesRow'
  BY <1>2, <1>3 DEF SInv, PushesRow
<1>9. SocketsOwned' /\ ContentStays'
  BY <1>2 DEF SInv, SocketsOwned, ContentStays
<1>10. UnheardOf'
  BY <1>1, <1>2, <1>6 DEF SInv, UnheardOf
<1>11. ASSUME NEW d \in Device, agent[d].sock # None, d # e
       PROVE  down'[agent[d].sock] = down[agent[d].sock]
  <2>1. agent[d].sock \in Socket /\ owner[agent[d].sock] = d
    BY <1>11 DEF SInv, SocketsOwned, IInv, TypeOK, Agent
  <2>2. registry[e] # agent[d].sock
    BY <1>11, <2>1, ConstantFacts DEF IInv, RegistryOwned
  <2>3. QED
    BY <1>6, <2>1, <2>2
<1>12. BlankBeforeFirst'
  <2> SUFFICES ASSUME NEW d \in Device, row[d] # None, row[d].content = None
               PROVE  /\ Screen(agent[d].content) = Blank
                      /\ agent[d].sock # None => ShowsNothing(down'[agent[d].sock])
    BY <1>2 DEF BlankBeforeFirst, ShowsNothing
  <2>1. /\ Screen(agent[d].content) = Blank
        /\ agent[d].sock # None => ShowsNothing(down[agent[d].sock])
    BY DEF SInv, BlankBeforeFirst
  <2>2. ASSUME d = e, agent[e].sock # None, m # None,
               down'[agent[e].sock] = down[agent[e].sock] \o <<m>>
        PROVE  ShowsNothing(down'[agent[e].sock])
    <3>1. m.t = "set_content" => m.content = Blank
      BY <1>5, <2>2 DEF Says, Screen
    <3>2. down[agent[e].sock] \in Seq(ServerMessage)
      BY <2>2 DEF IInv, TypeOK, Agent
    <3>3. QED
      BY <1>4, <2>1, <2>2, <3>1, <3>2 DEF ShowsNothing
  <2>3. agent[d].sock \in Socket \cup {None}
    BY DEF IInv, TypeOK, Agent
  <2>4. QED
    BY <1>6, <1>11, <2>1, <2>2, <2>3
<1>13. ASSUME NEW d \in Device
       PROVE  UpToLookup(d)'
  <2>1. UpToLookup(d)
    BY DEF SInv
  <2>2. CASE d # e \/ m = None
    <3>1. \A t \in Setting : Pushing(d, t) => Pushing(d, t)'
      BY <1>3, <1>4, <2>2 DEF Pushing
    <3>2. agent[d].sock # None => down'[agent[d].sock] = down[agent[d].sock]
      BY <1>2, <1>11, <2>2
    <3>3. CASE agent[d].sock = None
      BY <1>2, <3>3 DEF UpToLookup
    <3>4. CASE agent[d].sock # None
      BY <1>2, <2>1, <3>1, <3>2, <3>4, UpToLookupKept
    <3>5. QED
      BY <3>3, <3>4
  <2>3. CASE d = e /\ m # None
    <3> DEFINE s == agent[e].sock
    <3> SUFFICES ASSUME s # None, wire[s] = "up", row[e] # None
                 PROVE  /\ handler[s] = "looked" /\ snapshot[s] # None
                              /\ snapshot[s].content = None
                           => Screen(agent[e].content) = Blank
                        /\ \A t \in Setting : Tracked(s, t) /\ ~Pushing(e, t)' =>
                              \A n \in Coming(agent[e], down'[s], t) :
                                  SaysEither(n, row[e], snapshot[s])
      BY <1>2, <2>3 DEF UpToLookup, Tracked
    <3>1. s \in Socket /\ owner[s] = e
      BY DEF SInv, SocketsOwned, IInv, TypeOK, Agent
    <3>2. ASSUME NEW t \in Setting, Tracked(s, t), ~Pushing(e, t)',
                 NEW n \in Coming(agent[e], down'[s], t)
          PROVE  SaysEither(n, row[e], snapshot[s])
      <4>1. registry[e] = s
        BY <3>1, <3>2 DEF Tracked, IInv, LiveSocketRegistered
      <4>2. down'[s] = down[s] \o <<m>> /\ down[s] \in Seq(ServerMessage)
        BY <1>7, <2>3, <3>1, <4>1 DEF IInv, TypeOK
      <4>3. n \in IF m.t = t THEN {m} ELSE Coming(agent[e], down[s], t)
        <5>1. m \in ServerMessage
          BY <1>4, <2>3
        <5>2. PICK q \in Seq(ServerMessage) : q = down[s]
          BY <4>2
        <5>3. PICK a : a = agent[e]
          OBVIOUS
        <5>4. Coming(a, q \o <<m>>, t) = IF m.t = t THEN {m} ELSE Coming(a, q, t)
          BY <5>1, ComingAfterPush
        <5>5. QED
          BY <3>2, <4>2, <5>2, <5>3, <5>4
      <4>4. CASE m.t = t
        BY <1>5, <2>3, <4>3, <4>4, SaysSaysEither
      <4>5. CASE m.t # t
        <5>1. ~Pushing(e, t)
          BY <1>1, <1>3, <3>2, <4>5 DEF Pushing
        <5>2. QED
          BY <2>1, <2>3, <3>2, <4>3, <4>5, <5>1 DEF UpToLookup
      <4>6. QED
        BY <4>4, <4>5
    <3>3. QED
      BY <2>1, <2>3, <3>2 DEF UpToLookup
  <2>4. QED
    BY <2>2, <2>3
<1>14. ASSUME UpToRows, NEW d \in Device
       PROVE  UpToRow(d)'
  <2>1. UpToRow(d)
    BY <1>14 DEF UpToRows
  <2>2. CASE d # e \/ m = None
    <3>1. \A t \in Setting : Pushing(d, t) => Pushing(d, t)'
      BY <1>3, <1>4, <2>2 DEF Pushing
    <3>2. agent[d].sock # None => down'[agent[d].sock] = down[agent[d].sock]
      BY <1>2, <1>11, <2>2
    <3>3. CASE agent[d].sock = None
      BY <1>2, <3>3 DEF UpToRow
    <3>4. CASE agent[d].sock # None
      BY <1>2, <2>1, <3>1, <3>2, <3>4, UpToRowKept
    <3>5. QED
      BY <3>3, <3>4
  <2>3. CASE d = e /\ m # None
    <3> DEFINE s == agent[e].sock
    <3>1. s # None => s \in Socket /\ owner[s] = e
      BY DEF SInv, SocketsOwned, IInv, TypeOK, Agent
    <3>2. ASSUME s # None, wire[s] = "up", handler[s] = "live", row[e] # None,
                 NEW t \in Setting, t = "set_content" \/ Replayed(row[e], t),
                 ~Pushing(e, t)', NEW n \in Coming(agent[e], down'[s], t)
          PROVE  SaysEither(n, row[e], row[e])
      <4>1. registry[e] = s
        BY <3>1, <3>2 DEF IInv, LiveSocketRegistered
      <4>2. down'[s] = down[s] \o <<m>> /\ down[s] \in Seq(ServerMessage)
        BY <1>7, <2>3, <3>1, <3>2, <4>1 DEF IInv, TypeOK
      <4>3. n \in IF m.t = t THEN {m} ELSE Coming(agent[e], down[s], t)
        <5>1. m \in ServerMessage
          BY <1>4, <2>3
        <5>2. PICK q \in Seq(ServerMessage) : q = down[s]
          BY <4>2
        <5>3. PICK a : a = agent[e]
          OBVIOUS
        <5>4. Coming(a, q \o <<m>>, t) = IF m.t = t THEN {m} ELSE Coming(a, q, t)
          BY <5>1, ComingAfterPush
        <5>5. QED
          BY <3>2, <4>2, <5>2, <5>3, <5>4
      <4>4. CASE m.t = t
        BY <1>5, <2>3, <3>2, <4>3, <4>4, SaysSaysEither
      <4>5. CASE m.t # t
        <5>1. ~Pushing(e, t)
          BY <1>1, <1>3, <3>2, <4>5 DEF Pushing
        <5>2. QED
          BY <2>1, <2>3, <3>2, <4>3, <4>5, <5>1 DEF UpToRow
      <4>6. QED
        BY <4>4, <4>5
    <3>3. QED
      BY <1>2, <2>3, <3>2 DEF UpToRow
  <2>4. QED
    BY <2>2, <2>3
<1>15. QED
  BY <1>8, <1>9, <1>10, <1>12, <1>13, <1>14 DEF SInv, UpToRows

\* A step of one handler of which only the effect on its owner is left to show.
LEMMA HandlerStepKeeps ==
    ASSUME IInv, SInv, NEW s \in Socket,
           UNCHANGED <<row, inflight, owner, agent>>,
           \A q \in Socket \ {s} :
              handler'[q] = handler[q] /\ snapshot'[q] = snapshot[q] /\ down'[q] = down[q],
           \A q \in Socket : wire'[q] = "up" => wire[q] = "up"
    PROVE  \A d \in Device :
              /\ agent[d].sock # s => UpToLookup(d)' /\ (UpToRow(d) => UpToRow(d)')
              /\ agent[d].sock = s => owner[s] = d
<1> SUFFICES ASSUME NEW d \in Device
             PROVE  /\ agent[d].sock # s => UpToLookup(d)' /\ (UpToRow(d) => UpToRow(d)')
                    /\ agent[d].sock = s => owner[s] = d
  OBVIOUS
<1>1. UpToLookup(d) /\ (agent[d].sock # None => owner[agent[d].sock] = d)
  BY DEF SInv, SocketsOwned
<1>2. \A t \in Setting : Pushing(d, t) => Pushing(d, t)'
  BY DEF Pushing, AboutToPush
<1>3. agent[d].sock \in Socket \cup {None}
  BY DEF IInv, TypeOK, Agent
<1>4. CASE agent[d].sock = None
  BY <1>4, ConstantFacts DEF UpToLookup, UpToRow
<1>5. CASE agent[d].sock = s
  BY <1>1, <1>5, ConstantFacts
<1>6. CASE agent[d].sock \in Socket \ {s}
  <2>1. UpToLookup(d)'
    BY <1>1, <1>2, <1>6, UpToLookupKept
  <2>2. UpToRow(d) => UpToRow(d)'
    BY <1>2, <1>6, UpToRowKept
  <2>3. QED
    BY <1>6, <2>1, <2>2
<1>7. QED
  BY <1>3, <1>4, <1>5, <1>6

\* The lookup is answered: an agent whose row has no content yet shows nothing.
LEMMA LookupKeeps ==
    ASSUME IInv, SInv, NEW s \in Socket, Lookup(s)
    PROVE  SInv' /\ (UpToRows => UpToRows')
<1>1. /\ handler[s] = "lookup"
      /\ handler' = [handler EXCEPT ![s] = "looked"]
      /\ snapshot' = [snapshot EXCEPT ![s] = row[owner[s]]]
      /\ UNCHANGED <<row, inflight, registry, owner, wire, down, agent>>
  BY DEF Lookup, dbVars, linkVars, deviceVars
<1>2. PushesRow'
  BY <1>1 DEF SInv, PushesRow, AboutToPush
<1>3. SocketsOwned' /\ BlankBeforeFirst'
  BY <1>1 DEF SInv, SocketsOwned, BlankBeforeFirst
<1>4. UnheardOf'
  BY <1>1 DEF SInv, UnheardOf, IInv, TypeOK
<1>5. ContentStays'
  BY <1>1 DEF SInv, ContentStays, IInv, TypeOK
<1>6. /\ handler'[s] = "looked" /\ snapshot'[s] = row[owner[s]] /\ owner[s] \in Device
      /\ \A q \in Socket \ {s} : handler'[q] = handler[q] /\ snapshot'[q] = snapshot[q]
  BY <1>1 DEF IInv, TypeOK
<1>7. agent[owner[s]].sock = s => UpToLookup(owner[s])'
  BY <1>1, <1>6 DEF UpToLookup, Tracked, SInv, BlankBeforeFirst
<1>8. agent[owner[s]].sock = s => UpToRow(owner[s])'
  BY <1>1, <1>6 DEF UpToRow
<1>9. \A d \in Device :
         /\ agent[d].sock # s => UpToLookup(d)' /\ (UpToRow(d) => UpToRow(d)')
         /\ agent[d].sock = s => owner[s] = d
  BY <1>1, <1>6, HandlerStepKeeps
<1>10. QED
  BY <1>1, <1>2, <1>3, <1>4, <1>5, <1>7, <1>8, <1>9 DEF SInv, UpToRows

\* Registration: nothing has been sent over this connection; if the replay will not
\* touch the page, the screen is blank, as the looked-up row says.
LEMMA RegisterKeeps ==
    ASSUME IInv, SInv, NEW s \in Socket, Register(s)
    PROVE  SInv' /\ (UpToRows => UpToRows')
<1>1. /\ handler[s] = "looked" /\ snapshot[s] # None
      /\ registry' = [registry EXCEPT ![owner[s]] = s]
      /\ handler' = [handler EXCEPT ![s] = "marking"]
      /\ wire' = IF registry[owner[s]] = None THEN wire ELSE CloseWire(registry[owner[s]])
      /\ UNCHANGED <<row, inflight, owner, snapshot, down, agent>>
  BY DEF Register, dbVars, deviceVars
<1>2. PushesRow'
  BY <1>1 DEF SInv, PushesRow, AboutToPush
<1>3. SocketsOwned' /\ BlankBeforeFirst' /\ ContentStays'
  BY <1>1 DEF SInv, SocketsOwned, BlankBeforeFirst, ContentStays
<1>4. UnheardOf'
  BY <1>1 DEF SInv, UnheardOf, IInv, TypeOK
<1>5. \A q \in Socket : wire'[q] = "up" => wire[q] = "up"
  BY <1>1, ConstantFacts DEF CloseWire, IInv, TypeOK
<1>6. /\ handler'[s] = "marking" /\ owner[s] \in Device /\ down[s] = <<>>
      /\ snapshot[s] \in Row
      /\ \A q \in Socket \ {s} : handler'[q] = handler[q]
  BY <1>1 DEF SInv, UnheardOf, IInv, TypeOK
<1>7. ASSUME agent[owner[s]].sock = s
      PROVE  UpToLookup(owner[s])'
  <2>1. PICK d \in Device : d = owner[s]
    BY <1>6
  <2>2. ASSUME wire'[s] = "up", row[d] # None, snapshot[s].content = None,
               NEW m \in Coming(agent[d], <<>>, "set_content")
        PROVE  SaysEither(m, row[d], snapshot[s])
    <3>1. Screen(agent[d].content) = Blank
      BY <1>1, <1>5, <1>7, <2>1, <2>2, ConstantFacts DEF SInv, UpToLookup
    <3>2. m = Present(agent[d], "set_content")
      BY <2>2 DEF Coming, Newest
    <3>3. m.t = "set_content" /\ m.content = agent[d].content
      BY <3>2 DEF Present
    <3>4. QED
      BY <2>2, <3>1, <3>3 DEF SaysEither, Screen
  <2>3. \A t \in Setting : Tracked(s, t)' => t = "set_content" /\ snapshot[s].content = None
    BY <1>1, <1>6 DEF Tracked, Replayed
  <2>4. UpToLookup(d)'
    BY <1>1, <1>6, <1>7, <2>1, <2>2, <2>3 DEF UpToLookup
  <2>5. QED
    BY <1>1, <2>1, <2>4
<1>8. agent[owner[s]].sock = s => UpToRow(owner[s])'
  BY <1>1, <1>6 DEF UpToRow
<1>9. \A d \in Device :
         /\ agent[d].sock # s => UpToLookup(d)' /\ (UpToRow(d) => UpToRow(d)')
         /\ agent[d].sock = s => owner[s] = d
  BY <1>1, <1>5, <1>6, HandlerStepKeeps
<1>10. QED
  BY <1>1, <1>2, <1>3, <1>4, <1>7, <1>8, <1>9 DEF SInv, UpToRows

\* The replay: each setting it has a message of is what the lookup read, and the
\* page it does not touch has been right since the registration.
LEMMA FinishConnectKeeps ==
    ASSUME IInv, SInv, NEW s \in Socket, FinishConnect(s)
    PROVE  SInv' /\ (UpToRows /\ CopiesCurrent => UpToRows')
<1>1. /\ handler[s] = "marking"
      /\ down' = SendAll(s, Replay(snapshot[s]))
      /\ handler' = [handler EXCEPT ![s] = "live"]
      /\ UNCHANGED <<row, inflight, registry, owner, snapshot, wire, agent>>
  BY DEF FinishConnect, dbVars, deviceVars
<1>2. /\ handler'[s] = "live" /\ owner[s] \in Device /\ snapshot[s] \in Row
      /\ snapshot[s] # None
      /\ \A q \in Socket \ {s} : handler'[q] = handler[q]
  BY <1>1 DEF IInv, TypeOK, SnapshotKnown
<1>3. /\ \A q \in Socket \ {s} : down'[q] = down[q]
      /\ wire[s] = "up" => down'[s] = down[s] \o Replay(snapshot[s])
      /\ wire[s] # "up" => down'[s] = down[s]
      /\ down[s] \in Seq(ServerMessage)
  BY <1>1 DEF SendAll, IInv, TypeOK
<1>4. PushesRow'
  BY <1>1 DEF SInv, PushesRow, AboutToPush
<1>5. SocketsOwned' /\ ContentStays'
  BY <1>1 DEF SInv, SocketsOwned, ContentStays
<1>6. UnheardOf'
  BY <1>1, <1>2, <1>3 DEF SInv, UnheardOf
<1>7. BlankBeforeFirst'
  <2> SUFFICES ASSUME NEW d \in Device, row[d] # None, row[d].content = None
               PROVE  /\ Screen(agent[d].content) = Blank
                      /\ agent[d].sock # None => ShowsNothing(down'[agent[d].sock])
    BY <1>1 DEF BlankBeforeFirst, ShowsNothing
  <2> SUFFICES ASSUME agent[d].sock = s, wire[s] = "up"
               PROVE  ShowsNothing(down'[s])
    <3>1. agent[d].sock \in Socket \cup {None}
      BY DEF IInv, TypeOK, Agent
    <3>2. /\ Screen(agent[d].content) = Blank
          /\ agent[d].sock # None => ShowsNothing(down[agent[d].sock])
      BY DEF SInv, BlankBeforeFirst
    <3>3. QED
      BY <1>3, <3>1, <3>2
  <2>1. owner[s] = d
    BY ConstantFacts DEF SInv, SocketsOwned
  <2>2. snapshot[s].content = None
    BY <1>2, <2>1 DEF SInv, ContentStays
  <2>3. ShowsNothing(down[s])
    BY ConstantFacts DEF SInv, BlankBeforeFirst
  <2> DEFINE p == Replay(snapshot[s])
  <2>4. Lacks(p, "set_content") /\ p \in Seq(ServerMessage)
    BY <1>2, <2>2, ReplaySays, ReplayType DEF Replayed, Setting
  <2>5. down'[s] = down[s] \o p
    BY <1>3
  <2> HIDE DEF p
  <2>6. \A i \in 1..Len(down'[s]) :
           \/ i \in 1..Len(down[s]) /\ down'[s][i] = down[s][i]
           \/ i - Len(down[s]) \in 1..Len(p) /\ down'[s][i] = p[i - Len(down[s])]
    BY <1>3, <2>4, <2>5
  <2>7. QED
    BY <2>3, <2>4, <2>6 DEF ShowsNothing, Lacks
<1>8. ASSUME agent[owner[s]].sock = s
      PROVE  UpToLookup(owner[s])'
  <2>1. PICK d \in Device : d = owner[s]
    BY <1>2
  <2>2. ASSUME wire[s] = "up", row[d] # None, NEW t \in Setting,
               Replayed(snapshot[s], t) \/ t = "set_content", ~Pushing(d, t),
               NEW m \in Coming(agent[d], down'[s], t)
        PROVE  SaysEither(m, row[d], snapshot[s])
    <3>1. down'[s] = down[s] \o Replay(snapshot[s])
      BY <1>3, <2>2
    <3>2. CASE Replayed(snapshot[s], t)
      <4>1. m.t = t /\ Says(m, snapshot[s])
        BY <1>2, <1>3, <2>2, <3>1, <3>2, ComingAfterReplay
      <4>2. QED
        BY <1>2, <4>1, SaysSaysEither
    <3>3. CASE ~Replayed(snapshot[s], t)
      <4>1. m \in Coming(agent[d], down[s], t)
        <5>1. PICK q \in Seq(ServerMessage), x \in Row : q = down[s] /\ x = snapshot[s]
          BY <1>2, <1>3
        <5>2. PICK a : a = agent[d]
          OBVIOUS
        <5>3. Coming(a, q \o Replay(x), t) = Coming(a, q, t)
          BY <2>2, <3>3, <5>1, ComingAfterReplay
        <5>4. QED
          BY <2>2, <3>1, <5>1, <5>2, <5>3
      <4>2. Tracked(s, t)
        BY <1>1, <2>2, <3>3 DEF Tracked
      <4>3. QED
        BY <1>8, <2>1, <2>2, <4>1, <4>2, ConstantFacts DEF SInv, UpToLookup
    <3>4. QED
      BY <3>2, <3>3
  <2>3. /\ \A t \in Setting : Tracked(s, t)' => Replayed(snapshot[s], t) \/ t = "set_content"
        /\ \A t \in Setting : Pushing(d, t)' <=> Pushing(d, t)
    BY <1>1, <1>2 DEF Tracked, Pushing, AboutToPush
  <2>4. UpToLookup(d)'
    BY <1>1, <1>2, <1>8, <2>1, <2>2, <2>3 DEF UpToLookup
  <2>5. QED
    BY <1>1, <2>1, <2>4
<1>9. ASSUME CopiesCurrent, agent[owner[s]].sock = s
      PROVE  UpToRow(owner[s])'
  <2>1. PICK d \in Device : d = owner[s]
    BY <1>2
  <2>2. wire[s] = "up" => snapshot[s] = row[d]
    BY <1>1, <1>9, <2>1 DEF CopiesCurrent
  <2>3. UpToLookup(d)'
    BY <1>1, <1>8, <1>9, <2>1
  <2>4. UpToRow(d)'
    BY <1>1, <1>2, <1>9, <2>1, <2>2, <2>3 DEF UpToLookup, UpToRow, Tracked
  <2>5. QED
    BY <1>1, <2>1, <2>4
<1>10. \A d \in Device :
          /\ agent[d].sock # s => UpToLookup(d)' /\ (UpToRow(d) => UpToRow(d)')
          /\ agent[d].sock = s => owner[s] = d
  BY <1>1, <1>2, <1>3, HandlerStepKeeps
<1>11. QED
  BY <1>1, <1>4, <1>5, <1>6, <1>7, <1>8, <1>9, <1>10 DEF SInv, UpToRows

\* An agent connects, over a connection that nothing refers to.
LEMMA ConnectKeeps ==
    ASSUME IInv, SInv, NEW d \in Device, NEW s \in Socket, Connect(d, s)
    PROVE  SInv' /\ (UpToRows => UpToRows')
<1>1. /\ agent[d].sock = None
      /\ \A e \in Device : registry[e] # s /\ agent[e].sock # s
      /\ agent' = [agent EXCEPT ![d].sock = s]
      /\ owner' = [owner EXCEPT ![s] = d]
      /\ wire' = [wire EXCEPT ![s] = "up"]
      /\ down' = [down EXCEPT ![s] = <<>>]
      /\ handler' = [handler EXCEPT ![s] = "lookup"]
      /\ snapshot' = [snapshot EXCEPT ![s] = None]
      /\ UNCHANGED <<row, inflight, registry>>
  BY DEF Connect, Free, dbVars
<1>2. /\ agent'[d].sock = s /\ agent'[d].content = agent[d].content
      /\ \A e \in Device : e # d => agent'[e] = agent[e]
      /\ owner'[s] = d /\ down'[s] = <<>> /\ handler'[s] = "lookup" /\ snapshot'[s] = None
      /\ \A q \in Socket : q # s =>
            /\ owner'[q] = owner[q] /\ down'[q] = down[q] /\ handler'[q] = handler[q]
            /\ snapshot'[q] = snapshot[q] /\ wire'[q] = wire[q]
  BY <1>1 DEF IInv, TypeOK, Agent
<1>3. PushesRow'
  BY <1>1 DEF SInv, PushesRow, AboutToPush
<1>4. \A e \in Device : agent[e].sock \in Socket \cup {None}
  BY DEF IInv, TypeOK, Agent
<1>5. SocketsOwned'
  BY <1>1, <1>2, <1>4 DEF SInv, SocketsOwned
<1>6. UnheardOf'
  BY <1>1, <1>2 DEF SInv, UnheardOf
<1>7. ContentStays'
  BY <1>1, <1>2 DEF SInv, ContentStays
<1>8. BlankBeforeFirst'
  <2>1. ShowsNothing(<<>>)
    BY DEF ShowsNothing
  <2>2. QED
    BY <1>1, <1>2, <1>4, <2>1 DEF SInv, BlankBeforeFirst
<1>9. ASSUME NEW e \in Device
      PROVE  UpToLookup(e)'
  <2>1. CASE e = d
    BY <1>2, <2>1 DEF UpToLookup, Tracked
  <2>2. CASE e # d
    <3>1. UpToLookup(e)
      BY DEF SInv
    <3>2. \A t \in Setting : Pushing(e, t) => Pushing(e, t)'
      BY <1>1 DEF Pushing, AboutToPush
    <3>3. CASE agent[e].sock = None
      BY <1>2, <2>2, <3>3 DEF UpToLookup
    <3>4. CASE agent[e].sock # None
      BY <1>1, <1>2, <1>4, <2>2, <3>1, <3>2, <3>4, UpToLookupKept
    <3>5. QED
      BY <3>3, <3>4
  <2>3. QED
    BY <2>1, <2>2
<1>10. ASSUME UpToRows, NEW e \in Device
       PROVE  UpToRow(e)'
  <2>1. CASE e = d
    BY <1>2, <2>1 DEF UpToRow
  <2>2. CASE e # d
    <3>1. UpToRow(e)
      BY <1>10 DEF UpToRows
    <3>2. \A t \in Setting : Pushing(e, t) => Pushing(e, t)'
      BY <1>1 DEF Pushing, AboutToPush
    <3>3. CASE agent[e].sock = None
      BY <1>2, <2>2, <3>3 DEF UpToRow
    <3>4. CASE agent[e].sock # None
      BY <1>1, <1>2, <1>4, <2>2, <3>1, <3>2, <3>4, UpToRowKept
    <3>5. QED
      BY <3>3, <3>4
  <2>3. QED
    BY <2>1, <2>2
<1>11. QED
  BY <1>3, <1>5, <1>6, <1>7, <1>8, <1>9, <1>10 DEF SInv, UpToRows

\* An agent receives the oldest message of its connection.
LEMMA ReceiveKeeps ==
    ASSUME IInv, SInv, NEW d \in Device, AgentReceive(d)
    PROVE  SInv' /\ (UpToRows => UpToRows')
<1>1. PICK s \in Socket :
         /\ s = agent[d].sock /\ owner[s] = d
         /\ down[s] \in Seq(ServerMessage) /\ down[s] # <<>>
         /\ agent' = [agent EXCEPT ![d] = Applied(agent[d], Head(down[s]))]
         /\ down' = [down EXCEPT ![s] = Tail(down[s])]
         /\ UNCHANGED <<row, inflight, registry, handler, owner, snapshot, wire>>
  BY DEF AgentReceive, dbVars, handlerVars, SInv, SocketsOwned, IInv, TypeOK, Agent
<1> DEFINE m == Head(down[s])
           p == Tail(down[s])
           a == Applied(agent[d], m)
<1>2. /\ m \in ServerMessage /\ p \in Seq(ServerMessage) /\ down[s] = <<m>> \o p
      /\ agent[d] \in Agent
  BY <1>1 DEF IInv, TypeOK
<1>3. a \in Agent /\ a.sock = agent[d].sock
      /\ a.content \in {agent[d].content} \cup
            (IF m.t = "set_content" THEN {m.content} ELSE {})
  <2>1. a \in Agent
    BY <1>2, AppliedType
  <2>2. QED
    BY <1>2, <2>1 DEF Applied, Agent
<1>4. /\ agent'[d] = a /\ down'[s] = p
      /\ \A e \in Device : e # d => agent'[e] = agent[e] /\ agent[e].sock # s
      /\ \A q \in Socket : q # s => down'[q] = down[q]
  <2>1. \A e \in Device : e # d => agent[e].sock # s
    BY <1>1, ConstantFacts DEF SInv, SocketsOwned
  <2>2. QED
    BY <1>1, <2>1 DEF IInv, TypeOK
<1>5. \A t \in Setting : Coming(a, p, t) \subseteq Coming(agent[d], down[s], t)
  BY <1>1, <1>2, ComingAfterReceive
<1> HIDE DEF m, p, a
<1>6. PushesRow'
  BY <1>1 DEF SInv, PushesRow, AboutToPush
<1>7. SocketsOwned'
  BY <1>1, <1>3, <1>4 DEF SInv, SocketsOwned
<1>8. UnheardOf' /\ ContentStays'
  <2>1. handler[s] \notin {"lookup", "looked"}
    BY <1>1 DEF SInv, UnheardOf
  <2>2. QED
    BY <1>1, <1>4, <2>1 DEF SInv, UnheardOf, ContentStays
<1>9. BlankBeforeFirst'
  <2>1. ASSUME row[d] # None, row[d].content = None
        PROVE  Screen(a.content) = Blank /\ ShowsNothing(p)
    <3>1. Screen(agent[d].content) = Blank /\ ShowsNothing(down[s])
      BY <1>1, <2>1, ConstantFacts DEF SInv, BlankBeforeFirst
    <3>2. /\ 1 \in 1..Len(down[s]) /\ down[s][1] = m
          /\ \A i \in 1..Len(p) : i + 1 \in 1..Len(down[s]) /\ down[s][i + 1] = p[i]
      BY <1>2
    <3>3. m.t = "set_content" => m.content = Blank
      BY <3>1, <3>2 DEF ShowsNothing
    <3>4. ShowsNothing(p)
      BY <3>1, <3>2 DEF ShowsNothing
    <3>5. QED
      BY <1>3, <3>1, <3>3, <3>4 DEF Screen
  <2>2. \A e \in Device : agent[e].sock \in Socket \cup {None}
    BY DEF IInv, TypeOK, Agent
  <2>3. ASSUME NEW e \in Device, row[e] # None, row[e].content = None
        PROVE  /\ Screen(agent'[e].content) = Blank
               /\ agent'[e].sock # None => ShowsNothing(down'[agent'[e].sock])
    <3>1. CASE e = d
      BY <1>1, <1>3, <1>4, <2>1, <2>3, <3>1
    <3>2. CASE e # d
      BY <1>4, <2>2, <2>3, <3>2 DEF SInv, BlankBeforeFirst
    <3>3. QED
      BY <3>1, <3>2
  <2>4. QED
    BY <1>1, <2>3 DEF BlankBeforeFirst, ShowsNothing
<1>10. ASSUME NEW e \in Device
       PROVE  UpToLookup(e)'
  <2>1. UpToLookup(e)
    BY DEF SInv
  <2>2. \A t \in Setting : Pushing(e, t)' <=> Pushing(e, t)
    BY <1>1 DEF Pushing, AboutToPush
  <2>3. CASE e # d
    <3>1. agent[e].sock \in Socket \cup {None}
      BY DEF IInv, TypeOK, Agent
    <3>2. CASE agent[e].sock = None
      BY <1>4, <2>3, <3>2 DEF UpToLookup
    <3>3. CASE agent[e].sock # None
      BY <1>1, <1>4, <2>1, <2>2, <2>3, <3>1, <3>3, UpToLookupKept
    <3>4. QED
      BY <3>2, <3>3
  <2>4. CASE e = d
    <3>1. handler[s] # "looked"
      BY <1>1 DEF SInv, UnheardOf
    <3>2. agent'[d].sock = s /\ agent'[d] = a /\ down'[s] = p
      BY <1>1, <1>3, <1>4
    <3>3. \A t \in Setting : Tracked(s, t)' <=> Tracked(s, t)
      BY <1>1 DEF Tracked
    <3>4. QED
      BY <1>1, <1>5, <2>1, <2>2, <2>4, <3>1, <3>2, <3>3 DEF UpToLookup
  <2>5. QED
    BY <2>3, <2>4
<1>11. ASSUME UpToRows, NEW e \in Device
       PROVE  UpToRow(e)'
  <2>1. UpToRow(e)
    BY <1>11 DEF UpToRows
  <2>2. \A t \in Setting : Pushing(e, t)' <=> Pushing(e, t)
    BY <1>1 DEF Pushing, AboutToPush
  <2>3. CASE e # d
    <3>1. agent[e].sock \in Socket \cup {None}
      BY DEF IInv, TypeOK, Agent
    <3>2. CASE agent[e].sock = None
      BY <1>4, <2>3, <3>2 DEF UpToRow
    <3>3. CASE agent[e].sock # None
      BY <1>1, <1>4, <2>1, <2>2, <2>3, <3>1, <3>3, UpToRowKept
    <3>4. QED
      BY <3>2, <3>3
  <2>4. CASE e = d
    <3>1. agent'[d].sock = s /\ agent'[d] = a /\ down'[s] = p
      BY <1>1, <1>3, <1>4
    <3>2. QED
      BY <1>1, <1>5, <2>1, <2>2, <2>4, <3>1 DEF UpToRow
  <2>5. QED
    BY <2>3, <2>4
<1>12. QED
  BY <1>6, <1>7, <1>8, <1>9, <1>10, <1>11 DEF SInv, UpToRows

\* Every step keeps it, as long as no two changes of a setting wait to be pushed and
\* no push is dropped; a device that will have what its row says still will, if no
\* copy is outdated.
LEMMA SInvNext ==
    ASSUME IInv, SInv, NoRivals', [Next]_vars, \A r \in Request : ~PushDropped(r)
    PROVE  SInv' /\ (UpToRows /\ CopiesCurrent => UpToRows')
<1>1. ASSUME NEW r \in Request,
             \/ \E d \in Device, command \in Commands : RequestCheck(r, d, command)
             \/ RequestCommit(r)
             \/ RequestResume(r)
             \/ RequestFails(r)
      PROVE  SInv' /\ (UpToRows => UpToRows')
  BY <1>1, CheckKeeps, CommitKeeps, ResumeKeeps, FailKeeps
<1>2. ASSUME NEW s \in Socket, HandlerStep(s)
      PROVE  SInv' /\ (UpToRows /\ CopiesCurrent => UpToRows')
  BY <1>2, LookupKeeps, RegisterKeeps, FinishConnectKeeps, LosingSteps DEF HandlerStep
<1>3. ASSUME NEW d \in Device, (\E s \in Socket : Connect(d, s)) \/ AgentReceive(d)
      PROVE  SInv' /\ (UpToRows => UpToRows')
  BY <1>3, ConnectKeeps, ReceiveKeeps
<1>4. CASE \/ \E s \in Socket : \/ HandlerFails(s) \/ SocketClosed(s)
                                \/ PingTick(s) \/ Pong(s) \/ Cut(s)
           \/ \E d \in Device : \/ AgentClosed(d) \/ AgentRestart(d)
                                \/ PowerLoss(d) \/ PowerOn(d)
           \/ ServerRestart \/ UNCHANGED vars
  BY <1>4, LosingSteps
<1>5. QED
  BY <1>1, <1>2, <1>3, <1>4 DEF Next

\* A settled device has nothing to come: its present state is what was to come.
LEMMA SInvImplies == IInv /\ SInv => StaleOnlyFromLookup
<1> SUFFICES ASSUME IInv, SInv, NEW d \in Device, Settled(d),
                    NEW s, s = agent[d].sock
             PROVE  LET seen == snapshot[s]
                        a == agent[d]
                    IN  /\ Screen(a.content) \in {Screen(row[d].content), Screen(seen.content)}
                        /\ Screen(a.content) # Blank => a.zoom \in {row[d].zoom, seen.zoom}
                        /\ a.autoUpdate \in {row[d].autoUpdate, seen.autoUpdate}
                        /\ seen.desiredTvPower # None
                              => a.tv \in {row[d].desiredTvPower, seen.desiredTvPower}
  BY DEF StaleOnlyFromLookup
<1>1. /\ row[d] # None /\ s # None /\ handler[s] = "live" /\ wire[s] = "up"
      /\ down[s] = <<>>
      /\ \A r \in Request : inflight[r] = None \/ inflight[r].device # d
  BY DEF Settled
<1>2. ASSUME NEW t \in Setting, Tracked(s, t)
      PROVE  SaysEither(Present(agent[d], t), row[d], snapshot[s])
  <2>1. ~Pushing(d, t)
    BY <1>1 DEF Pushing, AboutToPush
  <2>2. Present(agent[d], t) \in Coming(agent[d], down[s], t)
    BY <1>1 DEF Coming, Lacks
  <2>3. QED
    BY <1>1, <1>2, <2>1, <2>2 DEF SInv, UpToLookup
<1>3. SaysEither(Present(agent[d], "set_content"), row[d], snapshot[s])
  BY <1>1, <1>2 DEF Tracked, Setting
<1>4. SaysEither(Present(agent[d], "set_auto_update"), row[d], snapshot[s])
  BY <1>1, <1>2 DEF Tracked, Setting, Replayed
<1>5. snapshot[s].desiredTvPower # None
         => SaysEither(Present(agent[d], "tv_power"), row[d], snapshot[s])
  BY <1>1, <1>2 DEF Tracked, Setting, Replayed
<1>6. /\ Screen(agent[d].content) \in {Screen(row[d].content), Screen(snapshot[s].content)}
      /\ Screen(agent[d].content) # Blank => agent[d].zoom \in {row[d].zoom, snapshot[s].zoom}
  BY <1>3 DEF SaysEither, Present
<1>7. agent[d].autoUpdate \in {row[d].autoUpdate, snapshot[s].autoUpdate}
  BY <1>4 DEF SaysEither, Present
<1>8. snapshot[s].desiredTvPower # None
         => agent[d].tv \in {row[d].desiredTvPower, snapshot[s].desiredTvPower}
  BY <1>5 DEF SaysEither, Present
<1>9. QED
  BY <1>6, <1>7, <1>8

\* The history variable restricts no step, so what holds of Gateway holds here.
LEMMA HistoryStep == [Next /\ Raced]_historyVars => [Next]_vars
BY DEF historyVars

\* A step that drops a push changes something.
LEMMA UnchangedDropsNothing ==
    ASSUME IInv, UNCHANGED vars, NEW r \in Request
    PROVE  ~PushDropped(r)
<1>1. inflight \in [Request -> InFlight \cup {None}] /\ inflight' = inflight
  BY DEF IInv, TypeOK, vars, dbVars
<1>2. QED
  BY <1>1 DEF PushDropped, RequestFails

\* Until two changes of one setting have crossed and until a push was dropped, no two
\* are about to, and none is.
LEMMA MishapsRemembered ==
    ASSUME IInv, races \cap {"rivals", "unpushed"} = {} => NoRivals,
           [Next /\ Raced]_historyVars, races' \cap {"rivals", "unpushed"} = {}
    PROVE  /\ races \cap {"rivals", "unpushed"} = {} /\ NoRivals /\ NoRivals'
           /\ \A r \in Request : ~PushDropped(r)
<1>1. CASE Raced
  BY <1>1 DEF Raced, Race
<1>2. CASE UNCHANGED historyVars
  <2>1. NoRivals' <=> NoRivals
    BY <1>2 DEF historyVars, vars, dbVars, NoRivals, AboutToPush
  <2>2. \A r \in Request : ~PushDropped(r)
    BY <1>2, UnchangedDropsNothing DEF historyVars
  <2>3. QED
    BY <1>2, <2>1, <2>2 DEF historyVars
<1>3. QED
  BY <1>1, <1>2

LEMMA NoRivalsInit == Init => NoRivals
BY DEF Init, NoRivals, AboutToPush

\* Until two changes of a setting cross between their UPDATE and their push, or the
\* database rejects a change it has made, a settled device is at most as stale as
\* its connection: however requests overlap otherwise, whatever handler failed,
\* whatever crashed, was cut, replaced or turned away, and however many devices,
\* connections and requests there are, each setting is the row's present value or
\* the one the connection's lookup read (gateway.ts 27-71, control.ts 14-101).
THEOREM StaleAsLookup == HistorySpec => []StaleOnlyFromLookup
<1> DEFINE Clean == races \cap {"rivals", "unpushed"} = {}
           Inv == IInv /\ (Clean => NoRivals /\ SInv)
<1>1. HistoryInit => Inv
  BY IInvInit, SInvInit, NoRivalsInit DEF HistoryInit
<1>2. Inv /\ [Next /\ Raced]_historyVars => Inv'
  BY IInvNext, SInvNext, HistoryStep, MishapsRemembered
<1>3. Inv => StaleOnlyFromLookup
  BY SInvImplies DEF StaleOnlyFromLookup
<1>4. QED
  BY <1>1, <1>2, <1>3, PTL DEF HistorySpec

(***************************************************************************)
(* When a device is not stale.                                             *)
(***************************************************************************)
\* The copies stay current as long as no row is written under them: a lookup
\* makes one from the row, and only a new connection brings a wire up.
LEMMA CopiesCurrentNext ==
    ASSUME IInv, CopiesCurrent, [Next /\ NoWriteWhileConnecting]_vars
    PROVE  CopiesCurrent'
<1> SUFFICES ASSUME NEW q \in Socket, handler'[q] \in {"looked", "marking"},
                    wire'[q] = "up"
             PROVE  snapshot'[q] = row'[owner'[q]]
  BY DEF CopiesCurrent
<1> USE DEF dbVars, handlerVars, linkVars, deviceVars
<1>1. TypeOK
  BY DEF IInv
<1>2. ASSUME handler[q] \in {"looked", "marking"}, wire[q] = "up",
             snapshot'[q] = snapshot[q], owner'[q] = owner[q]
      PROVE  snapshot'[q] = row'[owner'[q]]
  BY <1>2 DEF CopiesCurrent, NoWriteWhileConnecting, vars
<1>3. ASSUME NEW s \in Socket
      PROVE  CloseWire(s)[q] = "up" => wire[q] = "up"
  BY <1>1 DEF CloseWire, TypeOK
<1>4. ASSUME NEW s \in Socket, HandlerStep(s)
      PROVE  snapshot'[q] = row'[owner'[q]]
  <2>1. CASE Lookup(s)
    BY <1>1, <1>2, <2>1 DEF Lookup, TypeOK
  <2>2. CASE RejectToken(s)
    BY <1>1, <1>2, <1>3, <2>2 DEF RejectToken, TypeOK
  <2>3. CASE Register(s)
    <3>1. registry[owner[s]] \in Socket \cup {None}
      BY <1>1 DEF TypeOK
    <3>2. wire[q] = "up" /\ handler[q] \in {"looked", "marking"}
      BY <1>1, <1>3, <2>3, <3>1 DEF Register, TypeOK
    <3>3. QED
      BY <1>2, <2>3, <3>2 DEF Register
  <2>4. CASE FinishConnect(s)
    BY <1>1, <1>2, <2>4 DEF FinishConnect, TypeOK
  <2>5. QED
    BY <1>4, <2>1, <2>2, <2>3, <2>4 DEF HandlerStep
<1>5. ASSUME NEW s \in Socket, HandlerFails(s) \/ SocketClosed(s)
      PROVE  snapshot'[q] = row'[owner'[q]]
  <2>1. CASE HandlerFails(s)
    BY <1>1, <1>2, <1>3, <2>1 DEF HandlerFails, TypeOK
  <2>2. CASE SocketClosed(s)
    BY <1>1, <1>2, <2>2 DEF SocketClosed, TypeOK
  <2>3. QED
    BY <1>5, <2>1, <2>2
<1>6. ASSUME NEW s \in Socket, PingTick(s) \/ Pong(s) \/ Cut(s)
      PROVE  snapshot'[q] = row'[owner'[q]]
  <2>1. wire[q] = "up"
    BY <1>1, <1>3, <1>6 DEF PingTick, Pong, Cut, TypeOK
  <2>2. UNCHANGED <<handler, snapshot, owner>>
    BY <1>6 DEF PingTick, Pong, Cut
  <2>3. QED
    BY <1>2, <2>1, <2>2
<1>7. ASSUME NEW d \in Device, NEW s \in Socket, Connect(d, s)
      PROVE  snapshot'[q] = row'[owner'[q]]
  BY <1>1, <1>2, <1>7 DEF Connect, TypeOK
<1>8. ASSUME NEW d \in Device,
             \/ AgentReceive(d) \/ AgentClosed(d) \/ AgentRestart(d)
             \/ PowerLoss(d) \/ PowerOn(d)
      PROVE  snapshot'[q] = row'[owner'[q]]
  <2>1. UNCHANGED <<handler, snapshot, owner>>
    BY <1>8 DEF AgentReceive, AgentClosed, AgentRestart, PowerLoss, PowerOn
  <2>2. agent[d].sock \in Socket \cup {None}
    BY <1>1 DEF TypeOK, Agent
  <2>3. ASSUME NEW w \in {"closing", "cut"}, Vanish(d, w)
        PROVE  wire[q] = "up"
    BY <1>1, <2>2, <2>3 DEF Vanish, TypeOK
  <2>4. wire[q] = "up"
    BY <1>8, <2>3 DEF AgentReceive, AgentClosed, AgentRestart, PowerLoss, PowerOn
  <2>5. QED
    BY <1>2, <2>1, <2>4
<1>9. ASSUME NEW r \in Request,
             \/ \E d \in Device, command \in Commands : RequestCheck(r, d, command)
             \/ RequestCommit(r)
             \/ RequestResume(r)
             \/ RequestFails(r)
      PROVE  snapshot'[q] = row'[owner'[q]]
  <2>1. UNCHANGED <<handler, snapshot, owner, wire>>
    BY <1>9 DEF RequestCheck, RequestCommit, RequestResume, RequestFails
  <2>2. QED
    BY <1>2, <2>1
<1>10. CASE ServerRestart
  BY <1>10 DEF ServerRestart
<1>11. CASE UNCHANGED vars
  BY <1>2, <1>11 DEF vars
<1>12. QED
  BY <1>4, <1>5, <1>6, <1>7, <1>8, <1>9, <1>10, <1>11 DEF Next

\* What was to come of a settled device is what it has.
LEMMA UpToRowsImplies == UpToRows => DeviceFollowsRow
<1> SUFFICES ASSUME UpToRows, NEW d \in Device, Settled(d)
             PROVE  LET a == agent[d]
                    IN  /\ Screen(a.content) = Screen(row[d].content)
                        /\ Screen(a.content) # Blank => a.zoom = row[d].zoom
                        /\ a.autoUpdate = row[d].autoUpdate
                        /\ row[d].desiredTvPower # None => a.tv = row[d].desiredTvPower
  BY DEF DeviceFollowsRow
<1> DEFINE s == agent[d].sock
<1>1. /\ row[d] # None /\ s # None /\ handler[s] = "live" /\ wire[s] = "up"
      /\ down[s] = <<>>
      /\ \A r \in Request : inflight[r] = None \/ inflight[r].device # d
  BY DEF Settled
<1>2. ASSUME NEW t \in Setting, t = "set_content" \/ Replayed(row[d], t)
      PROVE  SaysEither(Present(agent[d], t), row[d], row[d])
  <2>1. ~Pushing(d, t)
    BY <1>1 DEF Pushing, AboutToPush
  <2>2. Present(agent[d], t) \in Coming(agent[d], down[s], t)
    BY <1>1 DEF Coming, Lacks
  <2>3. QED
    BY <1>1, <1>2, <2>1, <2>2 DEF UpToRows, UpToRow
<1>3. SaysEither(Present(agent[d], "set_content"), row[d], row[d])
  BY <1>2 DEF Setting
<1>4. SaysEither(Present(agent[d], "set_auto_update"), row[d], row[d])
  BY <1>2 DEF Setting, Replayed
<1>5. row[d].desiredTvPower # None
         => SaysEither(Present(agent[d], "tv_power"), row[d], row[d])
  BY <1>2 DEF Setting, Replayed
<1>6. /\ Screen(agent[d].content) = Screen(row[d].content)
      /\ Screen(agent[d].content) # Blank => agent[d].zoom = row[d].zoom
  BY <1>3 DEF SaysEither, Present
<1>7. agent[d].autoUpdate = row[d].autoUpdate
  BY <1>4 DEF SaysEither, Present
<1>8. row[d].desiredTvPower # None => agent[d].tv = row[d].desiredTvPower
  BY <1>5 DEF SaysEither, Present
<1>9. QED
  BY <1>6, <1>7, <1>8

\* Three mishaps are the only way to a stale device: until a row is written while a
\* connection holds a copy of it that is still to be replayed, two changes of a
\* setting cross between their UPDATE and their push, or an UPDATE is executed and
\* its await rejected, a settled device is in every setting what its row says,
\* whatever else failed, crashed, was cut, replaced or turned away (gateway.ts
\* 27-71, control.ts 14-101).
THEOREM OnlyMishapsMakeStale == HistorySpec => []DeviceFollowsRow
<1> DEFINE Current == NoRivals /\ SInv /\ UpToRows /\ CopiesCurrent
           Inv == IInv /\ (races = {} => Current)
<1>1. HistoryInit => Inv
  BY IInvInit, SInvInit, NoRivalsInit
     DEF HistoryInit, Init, UpToRows, UpToRow, CopiesCurrent, FreshAgent
<1>2. ASSUME Inv, [Next /\ Raced]_historyVars, races' = {}
      PROVE  /\ races = {} /\ NoRivals'
             /\ [Next /\ NoWriteWhileConnecting]_vars
             /\ \A r \in Request : ~PushDropped(r)
  <2>1. CASE Raced /\ Next
    BY <1>2, <2>1 DEF Raced, Race
  <2>2. CASE UNCHANGED historyVars
    BY <1>2, <2>2, MishapsRemembered, UnchangedDropsNothing DEF historyVars
  <2>3. QED
    BY <1>2, <2>1, <2>2
<1>3. Inv /\ [Next /\ Raced]_historyVars => Inv'
  BY <1>2, IInvNext, SInvNext, CopiesCurrentNext, HistoryStep
<1>4. Inv => DeviceFollowsRow
  BY UpToRowsImplies DEF DeviceFollowsRow
<1>5. QED
  BY <1>1, <1>3, <1>4, PTL DEF HistorySpec
=============================================================================
