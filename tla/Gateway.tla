------------------------------ MODULE Gateway ------------------------------
(***************************************************************************)
(* The control path of PiSignage: the REST handlers and the scheduler      *)
(* write a device's desired state to its database row and push a command   *)
(* to the device's WebSocket; the gateway replays the row when a device    *)
(* connects; the agent on the Pi applies what it receives and reconnects   *)
(* whenever its socket closes.                                             *)
(*                                                                         *)
(* The server is one Node process, so the code between two awaits is       *)
(* atomic and one action stands for it; every await (a database round      *)
(* trip) is a point where any other handler may run.                       *)
(*                                                                         *)
(* Left out: the `status', `model' and `lastSeenAt' columns (written, but  *)
(* the online flag the dashboard shows is read from the registry),         *)
(* heartbeats and acks (agent to server), and the SSE notifications.       *)
(***************************************************************************)
EXTENDS Naturals, Sequences

CONSTANTS
    Device,        \* device ids; one agent holds the token of each
    Socket,        \* identities of WebSocket connections, reused once dead
    Request,       \* slots for concurrent REST requests and scheduler calls
    Content,       \* what a screen can be told to show
    Blank,         \* the content { type: 'blank' }
    Zoom,          \* scale factors
    DefaultZoom,   \* the column default, 1
    Commands,      \* the control operations a run exercises
    MaxQueue,      \* bound: no new request while a socket holds this many messages
    MaxFaults,     \* bound: crashes, outages, database errors in one behaviour
    None           \* null, undefined or absent

\* The bodies of the control routes, one record per operation.
Command ==
    [kind : {"content"}, content : Content]
        \cup [kind : {"zoom"}, zoom : Zoom]
        \cup [kind : {"autoUpdate"}, enabled : BOOLEAN]
        \cup [kind : {"tvPower"}, on : BOOLEAN]
        \cup [kind : {"tvVolume", "refresh", "delete"}]

ASSUME GatewayAssumption ==
    /\ Blank \in Content /\ DefaultZoom \in Zoom
    /\ None \notin Content /\ None \notin Socket /\ None \notin BOOLEAN
    /\ Commands \subseteq Command
    /\ MaxQueue \in Nat /\ MaxFaults \in Nat

VARIABLES
    row,       \* row[d]: the devices row, None once deleted
    inflight,  \* inflight[r]: the request in slot r, between two awaits
    registry,  \* registry[d]: the socket registered for d, or None
    handler,   \* handler[s]: where the gateway's handler of s stands
    owner,     \* owner[s]: the device whose token s was opened with
    snapshot,  \* snapshot[s]: the row that handler's lookup returned
    wire,      \* wire[s]: the TCP connection, see Wire
    isAlive,   \* isAlive[s]: the flag the ping timer clears and a pong sets
    down,      \* down[s]: messages on their way to the agent, in order
    agent,     \* agent[d]: the agent process and the TV it drives
    powered,   \* powered[d]: the Pi has mains power
    faults     \* faults so far

dbVars == <<row, inflight>>
handlerVars == <<registry, handler, owner, snapshot, isAlive>>
linkVars == <<wire, down>>
deviceVars == <<agent, powered>>
vars == <<dbVars, handlerVars, linkVars, deviceVars, faults>>

(***************************************************************************)
(* Types.                                                                  *)
(***************************************************************************)
Row == [content : Content \cup {None}, zoom : Zoom,
        autoUpdate : BOOLEAN, desiredTvPower : BOOLEAN \cup {None}]

ServerMessage ==
    [t : {"set_content"}, content : Content, zoom : Zoom]
        \cup [t : {"set_auto_update"}, enabled : BOOLEAN]
        \cup [t : {"tv_power"}, on : BOOLEAN]
        \cup [t : {"tv_volume", "refresh"}]

\* "checked": the ownership query answered; "committed": the UPDATE answered.
InFlight ==
    [step : {"checked"}, device : Device, command : Commands]
        \cup [step : {"committed"}, device : Device, message : ServerMessage \cup {None}]

\* null is neither a message nor a request.
ASSUME NullAssumption == None \notin ServerMessage \cup InFlight

\* "looked" is the instant the lookup has been answered but its await has not
\* resumed; "marking" is the await of markOnline; "live" has its listeners.
Handler == {"lookup", "looked", "marking", "live", "done"}

\* "cut": the peer is unreachable and nobody knows; "closing": a close or a FIN
\* is under way; "closed": the server's `close' event has been emitted.
Wire == {"up", "cut", "closing", "closed"}

\* tv is the power state of the TV itself, which outlives the agent process; a
\* power command is carried out at once (cec.ts takes two calls to do so).
Agent == [sock : Socket \cup {None}, content : Content \cup {None}, zoom : Zoom,
          autoUpdate : BOOLEAN, tv : BOOLEAN]

TypeOK ==
    /\ row \in [Device -> Row \cup {None}]
    /\ inflight \in [Request -> InFlight \cup {None}]
    /\ registry \in [Device -> Socket \cup {None}]
    /\ handler \in [Socket -> Handler]
    /\ owner \in [Socket -> Device]
    /\ snapshot \in [Socket -> Row \cup {None}]
    /\ wire \in [Socket -> Wire]
    /\ isAlive \in [Socket -> BOOLEAN]
    /\ down \in [Socket -> Seq(ServerMessage)]
    /\ agent \in [Device -> Agent]
    /\ powered \in [Device -> BOOLEAN]
    /\ faults \in 0..MaxFaults

DefaultRow == [content |-> None, zoom |-> DefaultZoom,
               autoUpdate |-> FALSE, desiredTvPower |-> None]

\* A process that has just started on a Pi whose TV is in state tv.
FreshAgent(tv) == [sock |-> None, content |-> None, zoom |-> DefaultZoom,
                   autoUpdate |-> FALSE, tv |-> tv]

Init ==
    /\ row = [d \in Device |-> DefaultRow]
    /\ inflight = [r \in Request |-> None]
    /\ registry = [d \in Device |-> None]
    /\ handler = [s \in Socket |-> "done"]
    /\ owner \in [Socket -> Device]
    /\ snapshot = [s \in Socket |-> None]
    /\ wire = [s \in Socket |-> "closed"]
    /\ isAlive = [s \in Socket |-> FALSE]
    /\ down = [s \in Socket |-> <<>>]
    /\ agent = [d \in Device |-> FreshAgent(FALSE)]
    /\ powered = [d \in Device |-> TRUE]
    /\ faults = 0

(***************************************************************************)
(* The link.                                                               *)
(***************************************************************************)
\* socket.send: on a socket that is not open, or whose peer is gone, the bytes
\* are dropped without an error.
SendAll(s, messages) ==
    IF wire[s] = "up" THEN [down EXCEPT ![s] = @ \o messages] ELSE down

\* socket.close and socket.terminate on the server's side; no effect once closed.
CloseWire(s) == IF wire[s] = "closed" THEN wire ELSE [wire EXCEPT ![s] = "closing"]

\* sendToDevice: nothing is sent when no socket is registered.
SendToDevice(d, message) ==
    IF registry[d] = None THEN down ELSE SendAll(registry[d], <<message>>)

Fault == faults < MaxFaults /\ faults' = faults + 1

(***************************************************************************)
(* The control operations: ownership check, UPDATE, push.                  *)
(***************************************************************************)
\* The row after the UPDATE; an UPDATE of a missing row changes nothing.
Updated(command, r) ==
    IF r = None THEN None ELSE
    CASE command.kind = "content" -> [r EXCEPT !.content = command.content]
      [] command.kind = "zoom" -> [r EXCEPT !.zoom = command.zoom]
      [] command.kind = "autoUpdate" -> [r EXCEPT !.autoUpdate = command.enabled]
      [] command.kind = "tvPower" -> [r EXCEPT !.desiredTvPower = command.on]
      [] command.kind = "delete" -> None
      [] OTHER -> r

\* Mutant: applyZoom without `?? blank'.
MessageForNullContent(command, r) ==
    CASE command.kind = "content" ->
            [t |-> "set_content", content |-> command.content,
             zoom |-> IF r = None THEN DefaultZoom ELSE r.zoom]
      [] command.kind = "zoom" /\ r # None ->
            [t |-> "set_content", zoom |-> command.zoom, content |-> r.content]
      [] OTHER -> None

\* The message pushed after the UPDATE returned row r. applyZoom gives up when
\* the row is gone, applyContent sends all the same, with scale factor 1.
MessageFor(command, r) ==
    CASE command.kind = "content" ->
            [t |-> "set_content", content |-> command.content,
             zoom |-> IF r = None THEN DefaultZoom ELSE r.zoom]
      [] command.kind = "zoom" /\ r # None ->
            [t |-> "set_content", zoom |-> command.zoom,
             content |-> IF r.content = None THEN Blank ELSE r.content]
      [] command.kind = "autoUpdate" ->
            [t |-> "set_auto_update", enabled |-> command.enabled]
      [] command.kind = "tvPower" -> [t |-> "tv_power", on |-> command.on]
      [] command.kind = "tvVolume" -> [t |-> "tv_volume"]
      [] command.kind = "refresh" -> [t |-> "refresh"]
      [] OTHER -> None

\* A route finds the device (getOwnedDevice), or the scheduler resolved it.
RequestCheck(r, d, command) ==
    /\ inflight[r] = None /\ row[d] # None
    /\ \A s \in Socket : Len(down[s]) < MaxQueue
    /\ inflight' = [inflight EXCEPT ![r] =
            [step |-> "checked", device |-> d, command |-> command]]
    /\ UNCHANGED <<row, handlerVars, linkVars, deviceVars, faults>>

\* The database executes the UPDATE (or DELETE). Volume and refresh persist
\* nothing; their handlers go straight on to the push.
RequestCommit(r) ==
    /\ inflight[r] # None /\ inflight[r].step = "checked"
    /\ LET d == inflight[r].device
           stored == Updated(inflight[r].command, row[d])
       IN  /\ row' = [row EXCEPT ![d] = stored]
           /\ inflight' = [inflight EXCEPT ![r] =
                 [step |-> "committed", device |-> d,
                  message |-> MessageFor(inflight[r].command, stored)]]
    /\ UNCHANGED <<handlerVars, linkVars, deviceVars, faults>>

\* The messages that carry a setting, pushed after the await of its UPDATE.
Setting == {"set_content", "set_auto_update", "tv_power"}

\* The handler resumes with the database's answer, pushes and replies.
RequestResume(r) ==
    /\ inflight[r] # None /\ inflight[r].step = "committed"
    /\ down' = IF inflight[r].message = None THEN down
               ELSE SendToDevice(inflight[r].device, inflight[r].message)
    /\ inflight' = [inflight EXCEPT ![r] = None]
    /\ UNCHANGED <<row, handlerVars, wire, deviceVars, faults>>

\* The await of the UPDATE (or DELETE) is rejected: it was not executed, or it was
\* and its answer is lost on the way from the database. What follows the await,
\* the push, is skipped; a 500 or a line in the scheduler's log is all there is.
\* (Volume and refresh have no await before their push.)
RequestFails(r) ==
    /\ inflight[r] # None /\ Fault
    /\ IF inflight[r].step = "checked"
       THEN inflight[r].command.kind \notin {"tvVolume", "refresh"}
       ELSE inflight[r].message # None => inflight[r].message.t \in Setting
    /\ inflight' = [inflight EXCEPT ![r] = None]
    /\ UNCHANGED <<row, handlerVars, linkVars, deviceVars>>

(***************************************************************************)
(* The gateway's handler of one connection.                                *)
(***************************************************************************)
\* The database answers the token lookup.
Lookup(s) ==
    /\ handler[s] = "lookup"
    /\ handler' = [handler EXCEPT ![s] = "looked"]
    /\ snapshot' = [snapshot EXCEPT ![s] = row[owner[s]]]
    /\ UNCHANGED <<dbVars, registry, owner, isAlive, linkVars, deviceVars, faults>>

\* No row has this token: close(4003).
RejectToken(s) ==
    /\ handler[s] = "looked" /\ snapshot[s] = None
    /\ handler' = [handler EXCEPT ![s] = "done"]
    /\ wire' = CloseWire(s)
    /\ UNCHANGED <<dbVars, registry, owner, snapshot, isAlive, down, deviceVars, faults>>

\* Mutant: registerDevice leaves the older socket open.
RegisterWithoutClose(s) ==
    /\ handler[s] = "looked" /\ snapshot[s] # None
    /\ registry' = [registry EXCEPT ![owner[s]] = s]
    /\ handler' = [handler EXCEPT ![s] = "marking"]
    /\ UNCHANGED <<dbVars, owner, snapshot, isAlive, linkVars, deviceVars, faults>>

\* Mutant: the first connection wins, a second one is turned away.
RegisterFirstWins(s) ==
    /\ handler[s] = "looked" /\ snapshot[s] # None
    /\ IF registry[owner[s]] = None
       THEN /\ registry' = [registry EXCEPT ![owner[s]] = s]
            /\ handler' = [handler EXCEPT ![s] = "marking"]
            /\ UNCHANGED wire
       ELSE /\ handler' = [handler EXCEPT ![s] = "done"]
            /\ wire' = CloseWire(s)
            /\ UNCHANGED registry
    /\ UNCHANGED <<dbVars, owner, snapshot, isAlive, down, deviceVars, faults>>

\* registerDevice closes the device's older socket and takes its place; then the
\* UPDATE of markOnline is sent.
Register(s) ==
    /\ handler[s] = "looked" /\ snapshot[s] # None
    /\ wire' = IF registry[owner[s]] = None THEN wire ELSE CloseWire(registry[owner[s]])
    /\ registry' = [registry EXCEPT ![owner[s]] = s]
    /\ handler' = [handler EXCEPT ![s] = "marking"]
    /\ UNCHANGED <<dbVars, owner, snapshot, isAlive, down, deviceVars, faults>>

\* Mutant: the replay forgets the TV.
ReplayWithoutTv(r) ==
    (IF r.content = None THEN <<>>
     ELSE <<[t |-> "set_content", content |-> r.content, zoom |-> r.zoom]>>)
    \o <<[t |-> "set_auto_update", enabled |-> r.autoUpdate]>>

\* The messages sent on connect, from the row the lookup returned.
Replay(r) ==
    (IF r.content = None THEN <<>>
     ELSE <<[t |-> "set_content", content |-> r.content, zoom |-> r.zoom]>>)
    \o <<[t |-> "set_auto_update", enabled |-> r.autoUpdate]>>
    \o (IF r.desiredTvPower = None THEN <<>>
        ELSE <<[t |-> "tv_power", on |-> r.desiredTvPower]>>)

\* markOnline answered: replay, start the ping timer, attach the listeners. A
\* `close' event emitted before this point has been missed for good.
FinishConnect(s) ==
    /\ handler[s] = "marking"
    /\ down' = SendAll(s, Replay(snapshot[s]))
    /\ handler' = [handler EXCEPT ![s] = "live"]
    /\ isAlive' = [isAlive EXCEPT ![s] = TRUE]
    /\ UNCHANGED <<dbVars, registry, owner, snapshot, wire, deviceVars, faults>>

\* The database rejects the lookup or markOnline: the plugin's error handler
\* terminates the socket; nothing takes it out of the registry.
HandlerFails(s) ==
    /\ handler[s] \in {"lookup", "marking"}
    /\ Fault
    /\ handler' = [handler EXCEPT ![s] = "done"]
    /\ snapshot' = [snapshot EXCEPT ![s] = None]
    /\ wire' = CloseWire(s)
    /\ UNCHANGED <<dbVars, registry, owner, isAlive, down, deviceVars>>

\* Mutant: unregisterDevice does not compare sockets.
UnregisteredAny(s) == [registry EXCEPT ![owner[s]] = None]

\* unregisterDevice removes the entry only if it still names this socket.
Unregistered(s) ==
    [d \in Device |-> IF d = owner[s] /\ registry[d] = s THEN None ELSE registry[d]]

\* The server's socket emits `close'; teardown runs if it is listening, and what
\* the handler's closure held is gone with it.
SocketClosed(s) ==
    /\ wire[s] = "closing"
    /\ wire' = [wire EXCEPT ![s] = "closed"]
    /\ IF handler[s] = "live"
       THEN /\ registry' = Unregistered(s)
            /\ handler' = [handler EXCEPT ![s] = "done"]
            /\ snapshot' = [snapshot EXCEPT ![s] = None]
            /\ isAlive' = [isAlive EXCEPT ![s] = FALSE]
       ELSE UNCHANGED <<registry, handler, snapshot, isAlive>>
    /\ UNCHANGED <<dbVars, owner, down, deviceVars, faults>>

\* Mutant: the timer pings without clearing isAlive.
PingTickNeverExpires(s) ==
    /\ handler[s] = "live" /\ wire[s] \in {"up", "cut"}
    /\ IF isAlive[s]
       THEN UNCHANGED <<wire, faults>>
       ELSE /\ wire' = CloseWire(s)
            /\ IF wire[s] = "up" THEN Fault ELSE UNCHANGED faults
    /\ UNCHANGED <<dbVars, registry, handler, owner, snapshot, isAlive, down, deviceVars>>

\* A tick of the ping timer: terminate a socket that left the last ping
\* unanswered, otherwise clear the flag and ping. A healthy peer answers within
\* the interval unless the network stalls, which counts as a fault. A tick on a
\* socket that is closing or closed does nothing that matters.
PingTick(s) ==
    /\ handler[s] = "live" /\ wire[s] \in {"up", "cut"}
    /\ IF isAlive[s]
       THEN /\ isAlive' = [isAlive EXCEPT ![s] = FALSE]
            /\ UNCHANGED <<wire, faults>>
       ELSE /\ wire' = CloseWire(s)
            /\ IF wire[s] = "up" THEN Fault ELSE UNCHANGED faults
            /\ UNCHANGED isAlive
    /\ UNCHANGED <<dbVars, registry, handler, owner, snapshot, down, deviceVars>>

\* The ws client answers a ping by itself.
Pong(s) ==
    /\ handler[s] = "live" /\ wire[s] = "up" /\ ~isAlive[s]
    /\ isAlive' = [isAlive EXCEPT ![s] = TRUE]
    /\ UNCHANGED <<dbVars, registry, handler, owner, snapshot, linkVars, deviceVars, faults>>

(***************************************************************************)
(* The agent.                                                              *)
(***************************************************************************)
\* Nothing refers to s any more, so its identity can stand for a new connection.
Free(s) ==
    /\ wire[s] = "closed" /\ handler[s] \in {"live", "done"}
    /\ \A d \in Device : registry[d] # s /\ agent[d].sock # s

\* connect(): at start and when the backoff timer fires.
Connect(d, s) ==
    /\ powered[d] /\ agent[d].sock = None /\ Free(s)
    /\ agent' = [agent EXCEPT ![d].sock = s]
    /\ owner' = [owner EXCEPT ![s] = d]
    /\ wire' = [wire EXCEPT ![s] = "up"]
    /\ down' = [down EXCEPT ![s] = <<>>]
    /\ handler' = [handler EXCEPT ![s] = "lookup"]
    /\ snapshot' = [snapshot EXCEPT ![s] = None]
    /\ isAlive' = [isAlive EXCEPT ![s] = FALSE]
    /\ UNCHANGED <<dbVars, registry, powered, faults>>

\* What onMessage does with one message.
Applied(a, m) ==
    CASE m.t = "set_content" -> [a EXCEPT !.content = m.content, !.zoom = m.zoom]
      [] m.t = "set_auto_update" -> [a EXCEPT !.autoUpdate = m.enabled]
      [] m.t = "tv_power" -> [a EXCEPT !.tv = m.on]
      [] OTHER -> a

AgentReceive(d) ==
    LET s == agent[d].sock
    IN  /\ s # None /\ down[s] # <<>>
        /\ agent' = [agent EXCEPT ![d] = Applied(@, Head(down[s]))]
        /\ down' = [down EXCEPT ![s] = Tail(@)]
        /\ UNCHANGED <<dbVars, handlerVars, wire, powered, faults>>

\* The agent's socket closes: the server closed it, or TCP gave up on a dead
\* link. onClose leaves the display as it is and schedules connect().
AgentClosed(d) ==
    LET s == agent[d].sock
    IN  /\ s # None /\ wire[s] # "up" /\ down[s] = <<>>
        /\ agent' = [agent EXCEPT ![d].sock = None]
        /\ UNCHANGED <<dbVars, handlerVars, linkVars, powered, faults>>

\* The agent's end of its connection disappears, leaving the wire in state w.
Vanish(d, w) ==
    LET s == agent[d].sock
    IN  IF s = None THEN UNCHANGED linkVars
        ELSE /\ wire' = IF wire[s] = "up" THEN [wire EXCEPT ![s] = w] ELSE wire
             /\ down' = [down EXCEPT ![s] = <<>>]

\* The agent process exits (a crash, or its own self-update) and systemd starts
\* it again; the kernel closes the connection. The TV stays as it is.
AgentRestart(d) ==
    /\ powered[d] /\ Fault
    /\ agent' = [agent EXCEPT ![d] = FreshAgent(agent[d].tv)]
    /\ Vanish(d, "closing")
    /\ UNCHANGED <<dbVars, handlerVars, powered>>

\* The mains fail at the screen: no FIN, and the TV comes back in any state.
PowerLoss(d) ==
    /\ powered[d] /\ Fault
    /\ powered' = [powered EXCEPT ![d] = FALSE]
    /\ \E tv \in BOOLEAN : agent' = [agent EXCEPT ![d] = FreshAgent(tv)]
    /\ Vanish(d, "cut")
    /\ UNCHANGED <<dbVars, handlerVars>>

PowerOn(d) ==
    /\ ~powered[d]
    /\ powered' = [powered EXCEPT ![d] = TRUE]
    /\ UNCHANGED <<dbVars, handlerVars, linkVars, agent, faults>>

(***************************************************************************)
(* The network and the server process.                                     *)
(***************************************************************************)
\* The path between agent and server fails; what was in flight is lost.
Cut(s) ==
    /\ wire[s] = "up" /\ Fault
    /\ wire' = [wire EXCEPT ![s] = "cut"]
    /\ down' = [down EXCEPT ![s] = <<>>]
    /\ UNCHANGED <<dbVars, handlerVars, deviceVars>>

\* The daily restart, a deployment or a crash: the process and all it holds in
\* memory are gone, and so is every request that has not answered.
ServerRestart ==
    /\ Fault
    /\ inflight' = [r \in Request |-> None]
    /\ registry' = [d \in Device |-> None]
    /\ handler' = [s \in Socket |-> "done"]
    /\ snapshot' = [s \in Socket |-> None]
    /\ isAlive' = [s \in Socket |-> FALSE]
    /\ wire' = [s \in Socket |-> "closed"]
    /\ UNCHANGED <<row, owner, down, deviceVars>>

-----------------------------------------------------------------------------
HandlerStep(s) ==
    \/ Lookup(s)
    \/ RejectToken(s)
    \/ Register(s)
    \/ FinishConnect(s)

Next ==
    \/ \E r \in Request :
          \/ \E d \in Device, command \in Commands : RequestCheck(r, d, command)
          \/ RequestCommit(r)
          \/ RequestResume(r)
          \/ RequestFails(r)
    \/ \E s \in Socket :
          \/ HandlerStep(s)
          \/ HandlerFails(s)
          \/ SocketClosed(s)
          \/ PingTick(s)
          \/ Pong(s)
          \/ Cut(s)
    \/ \E d \in Device :
          \/ \E s \in Socket : Connect(d, s)
          \/ AgentReceive(d)
          \/ AgentClosed(d)
          \/ AgentRestart(d)
          \/ PowerLoss(d)
          \/ PowerOn(d)
    \/ ServerRestart

Spec == Init /\ [][Next]_vars

\* Timers fire, the database answers, TCP delivers or gives up, and the agent
\* keeps reconnecting. Faults, requests and the mains owe nothing.
Fairness ==
    /\ \A r \in Request : WF_vars(RequestCommit(r)) /\ WF_vars(RequestResume(r))
    /\ \A s \in Socket :
          /\ WF_vars(HandlerStep(s))
          /\ WF_vars(SocketClosed(s))
          /\ WF_vars(PingTick(s) /\ wire[s] = "cut")
          /\ WF_vars(Pong(s))
    /\ \A d \in Device :
          /\ WF_vars(\E s \in Socket : Connect(d, s))
          /\ WF_vars(AgentReceive(d))
          /\ WF_vars(AgentClosed(d))

FairSpec == Spec /\ Fairness

(***************************************************************************)
(* What must hold.                                                         *)
(***************************************************************************)
\* A connection whose handler got past registerDevice and that nobody has closed
\* is the one commands go to: neither a late `close' of the connection it
\* replaced nor a concurrent registration makes a live agent unreachable
\* (registry.ts 19-36, gateway.ts 35 and 144-152).
LiveSocketRegistered ==
    \A s \in Socket :
        handler[s] \in {"marking", "live"} /\ wire[s] \in {"up", "cut"}
            => registry[owner[s]] = s

\* An agent is never written to over a connection that has been replaced: both
\* the replay on connect and a push go to the device's registered socket only,
\* although the replay does not consult the registry (gateway.ts 40-71).
OnlyRegisteredSocketWritten ==
    [][\A s \in Socket :
          Len(down'[s]) > Len(down[s]) => registry[owner[s]] = s]_vars

\* Device d is connected, has received all there was to receive, and no request
\* about it is under way.
Settled(d) ==
    LET s == agent[d].sock
    IN  /\ row[d] # None
        /\ s # None /\ registry[d] = s /\ handler[s] = "live"
        /\ wire[s] = "up" /\ down[s] = <<>>
        /\ \A r \in Request : inflight[r] = None \/ inflight[r].device # d

\* null content is shown as a blank screen.
Screen(content) == IF content = None THEN Blank ELSE content

\* gateway.ts 39 pushes the content on connect "so the screen is correct on
\* connect": a settled device shows what its row says.
ScreenCorrectOnConnect ==
    \A d \in Device :
        Settled(d) => Screen(agent[d].content) = Screen(row[d].content)

\* gateway.ts 73-76 promises that a dead connection's device "is marked offline
\* (within ~2 intervals)": once `close' has been emitted for a connection that
\* is set up, its device is not registered (= shown online) through it.
NoGhostOnline ==
    \A d \in Device, s \in Socket :
        registry[d] = s /\ handler[s] = "live" => wire[s] # "closed"

\* A half-open connection with a running ping timer is found out, and the device
\* stops being online through it (gateway.ts 77-94 with the teardown 144-151).
HalfOpenDetected ==
    \A d \in Device, s \in Socket :
        (handler[s] = "live" /\ wire[s] = "cut" /\ registry[d] = s) ~> (registry[d] # s)

\* The agent's connection is up, set up and the one commands are sent to.
Connected(d) ==
    LET s == agent[d].sock
    IN  s # None /\ registry[d] = s /\ handler[s] = "live" /\ wire[s] = "up"

\* After finitely many faults a powered device that still has a row ends up
\* connected for good: neither a ghost entry in the registry nor a half-open
\* connection can keep its agent out (agent.ts 40-72, gateway.ts, registry.ts).
ReconnectsForGood ==
    \A d \in Device :
        <>[](powered[d] /\ row[d] # None) => <>[]Connected(d)
=============================================================================
