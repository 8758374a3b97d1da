---------------------------- MODULE AgentProcess ----------------------------
(***************************************************************************)
(* One paired agent process between its television, its self-update and    *)
(* the server: commands arrive over a connection, are replayed from the    *)
(* device's row whenever the agent connects, and the agent reports the     *)
(* state of the television and its version in heartbeats that the server   *)
(* writes to the row.  The connection breaks and the process restarts at   *)
(* any time.                                                               *)
(*                                                                         *)
(* What the server awaits is a step of its own: the lookup of a connecting *)
(* device and its replay, the UPDATE of a request and its push, a message  *)
(* that arrives and its UPDATE.  That the server holds several connections *)
(* of one device at once is Gateway's; content and the display are         *)
(* Kiosk's.  Acks are only logged by the server and left out.              *)
(***************************************************************************)
EXTENDS Television, SelfUpdate, Sequences, SequencesExt

CONSTANTS
    MaxBeats,  \* bound: heartbeats waiting for their metrics
    MaxUp,     \* bound: messages on their way to the server
    MaxWrites, \* bound: messages whose UPDATE is under way
    Starts     \* the instances checked: where each begins, and how often what may
               \* happen in it

\* Commands of users and schedules (power, volume, auto-update), pushes to main,
\* uses of the remote control, failing calls, steps and requests, breaks (lost
\* connections and restarts of the agent and of the server), and delays: UPDATEs that
\* are still under way when the next message arrives.
Kind == {"power", "volume", "toggle", "push", "viewer", "failure", "break", "delay"}
Budget == [Kind -> Nat]
Start == [tv : Tv, plugged : Port \cup {None}, desiredTvPower : BOOLEAN \cup {None},
          budget : Budget]

\* What a device's row says of what the device should do.
Settings == [desiredTvPower : BOOLEAN \cup {None}, autoUpdate : BOOLEAN]

ASSUME AgentAssumption ==
    /\ None \notin BOOLEAN /\ None \notin Settings
    /\ MaxBeats \in Nat \ {0} /\ MaxUp \in Nat \ {0} /\ MaxWrites \in Nat \ {0}
    /\ Starts \subseteq Start

VARIABLES
    link,       \* "closed", "open" for the agent, "looked" up by the server,
                \* "registered" there, or "live": the server listens
    lookedUp,   \* the settings that the server has read for the connection
    down,       \* messages on their way to the agent
    up,         \* messages on their way to the server
    writes,     \* messages whose UPDATE is under way, in the order they arrived
    collecting, \* heartbeats waiting for their metrics
    heard,      \* history: the last UPDATE was that of the newest message, a
                \* heartbeat of this connection
    row,        \* the device's row: desired and reported state
    pushes,     \* requests between their UPDATE and their push
    raced,      \* history: the settings whose push was lost, met another one or
                \* was overtaken by a replay
    left        \* what is left of the budget

linkVars == <<link, lookedUp, down, up, writes, collecting, heard, row, pushes, raced>>
vars == <<tvVars, updateVars, linkVars, left>>

Setting == {"tv_power", "set_auto_update"}
Request == [t : Setting, on : BOOLEAN]
ServerMessage == Request \cup [t : {"tv_volume"}]

\* What an agent reports: the version stamped into its build; hello has no tvState.
Report == [tvState : Power \cup {"unknown"}, version : Nat]
DeviceMessage == Report \cup [version : Nat]

\* newest: no message has arrived on this connection since.
Write == [message : DeviceMessage, newest : BOOLEAN]

Row == [desiredTvPower : BOOLEAN \cup {None}, autoUpdate : BOOLEAN, reported : Report]

LinkTypeOK ==
    /\ link \in {"closed", "open", "looked", "registered", "live"}
    /\ lookedUp \in Settings \cup {None}
    /\ lookedUp # None <=> link \in {"looked", "registered"}
    /\ down \in Seq(ServerMessage)
    /\ up \in Seq(DeviceMessage)
    /\ writes \in Seq(Write) /\ Len(writes) <= MaxWrites
    /\ collecting \in 0..MaxBeats
    /\ heard \in BOOLEAN
    /\ row \in Row
    /\ pushes \in Seq(Request)
    /\ raced \subseteq Setting
    /\ left \in Budget

TypeOK == TvTypeOK /\ UpdateTypeOK /\ LinkTypeOK

Init ==
    /\ TvInit /\ UpdateInit
    /\ link = "closed" /\ lookedUp = None
    /\ down = <<>> /\ up = <<>> /\ writes = <<>>
    /\ collecting = 0 /\ heard = FALSE
    /\ pushes = <<>> /\ raced = {}
    /\ \E start \in Starts :
          /\ tv = start.tv /\ plugged = start.plugged
          /\ row = [desiredTvPower |-> start.desiredTvPower, autoUpdate |-> FALSE,
                    reported |-> [tvState |-> "unknown", version |-> 1]]
          /\ left = start.budget

Spend(what) == left[what] > 0 /\ left' = [left EXCEPT ![what] = @ - 1]

(***************************************************************************)
(* The connection.                                                         *)
(***************************************************************************)
\* `open': hello and a first heartbeat; the server does not listen yet.
Connect ==
    /\ link = "closed" /\ collecting < MaxBeats
    /\ link' = "open"
    /\ up' = <<[version |-> running.agent]>>
    /\ collecting' = collecting + 1
    /\ UNCHANGED <<tvVars, updateVars, lookedUp, down, writes, heard, row, pushes, raced, left>>

\* The settings that requests have written and not yet pushed.
Pending == {pushes[i].t : i \in 1..Len(pushes)}

\* The server reads the device's row: what went wrong before is made good by what it
\* reads now, unless a request is still to push.
Lookup ==
    /\ link = "open"
    /\ link' = "looked"
    /\ lookedUp' = [desiredTvPower |-> row.desiredTvPower, autoUpdate |-> row.autoUpdate]
    /\ raced' = raced \cap Pending
    /\ UNCHANGED <<tvVars, updateVars, down, up, writes, collecting, heard, row, pushes, left>>

\* The connection is registered: from now on it is pushed to.
Register ==
    /\ link = "looked"
    /\ link' = "registered"
    /\ UNCHANGED <<tvVars, updateVars, lookedUp, down, up, writes, collecting, heard, row, pushes,
                   raced, left>>

AutoUpdate(enabled) == [t |-> "set_auto_update", on |-> enabled]
TvPower(on) == [t |-> "tv_power", on |-> on]

\* Mutant: "off" is taken for nothing desired.
ReplayTruthy ==
    <<AutoUpdate(lookedUp.autoUpdate)>>
        \o IF lookedUp.desiredTvPower = TRUE THEN <<TvPower(TRUE)>> ELSE <<>>

\* What the server sends on connect, from the row it has read.
Replay ==
    <<AutoUpdate(lookedUp.autoUpdate)>>
        \o IF lookedUp.desiredTvPower # None THEN <<TvPower(lookedUp.desiredTvPower)>> ELSE <<>>

\* The device is marked online: the server replays and starts listening.
Attach ==
    /\ link = "registered"
    /\ link' = "live" /\ lookedUp' = None
    /\ down' = down \o Replay
    /\ UNCHANGED <<tvVars, updateVars, up, writes, collecting, heard, row, pushes, raced, left>>

\* The UPDATEs under way when a connection ends or the next message arrives.
Older(pending) == [i \in DOMAIN pending |-> [pending[i] EXCEPT !.newest = FALSE]]

\* Those of messages that the server still receives.
Arriving(messages) ==
    [i \in DOMAIN messages |-> [message |-> messages[i], newest |-> FALSE]]

\* The connection is gone: what was sent to the agent is lost; what the agent sent
\* may still arrive if the server has been listening.
Disconnected(sent) ==
    /\ link' = "closed" /\ lookedUp' = None
    /\ down' = <<>> /\ up' = <<>>
    /\ \/ writes' = Older(writes)
       \/ /\ link = "live" /\ Len(writes) + Len(sent) <= MaxWrites
          /\ writes' = Older(writes) \o Arriving(sent)
    /\ heard' = FALSE

ConnectionLost ==
    /\ link # "closed"
    /\ Spend("break")
    /\ Disconnected(up)
    /\ UNCHANGED <<tvVars, updateVars, collecting, row, pushes, raced>>

\* The server ends, as it also does when an awaited UPDATE of a message is rejected,
\* and is started again: its connections, requests and UPDATEs are gone.
ServerRestart ==
    /\ Spend("break")
    /\ link' = "closed" /\ lookedUp' = None
    /\ down' = <<>> /\ up' = <<>> /\ writes' = <<>>
    /\ heard' = FALSE
    /\ pushes' = <<>> /\ raced' = raced \cup Pending
    /\ UNCHANGED <<tvVars, updateVars, collecting, row>>

(***************************************************************************)
(* Reports.                                                                *)
(***************************************************************************)
\* sendHeartbeat(): the metrics are awaited first.
Beat ==
    /\ collecting < MaxBeats
    /\ collecting' = collecting + 1

\* The heartbeat timer of an open connection (the server's ping does the same): its
\* interval outlasts what a heartbeat takes, unless there are delays.
HeartbeatTimer ==
    /\ link # "closed" /\ collecting = 0
    /\ (up = <<>> /\ writes = <<>>) \/ left["delay"] > 0
    /\ Beat
    /\ UNCHANGED <<tvVars, updateVars, link, lookedUp, down, up, writes, heard, row, pushes, raced,
                   left>>

\* The metrics are there: the state of now is sent, if the socket is open.
SendHeartbeat ==
    /\ collecting > 0
    /\ collecting' = collecting - 1
    /\ IF link = "closed"
       THEN UNCHANGED up
       ELSE /\ Len(up) < MaxUp
            /\ up' = Append(up, [tvState |-> tvState, version |-> running.agent])
    /\ UNCHANGED <<tvVars, updateVars, link, lookedUp, down, writes, heard, row, pushes, raced, left>>

\* Mutant: "unknown" is not written over what was known.
ReportedKeepsKnown(message) ==
    [row EXCEPT !.reported = [field \in DOMAIN @ |->
        IF field \in DOMAIN message /\ (field = "tvState" => message[field] # "unknown")
        THEN message[field] ELSE @[field]]]

\* The row after a message: what it does not contain stays.
Reported(message) ==
    [row EXCEPT !.reported = [field \in DOMAIN @ |->
        IF field \in DOMAIN message THEN message[field] ELSE @[field]]]

IsHeartbeat(message) == "tvState" \in DOMAIN message

\* A message arrives and its UPDATE is awaited; nobody hears it before the server
\* listens.
ServerReceive ==
    /\ up # <<>>
    /\ up' = Tail(up)
    /\ IF link = "live"
       THEN /\ Len(writes) < MaxWrites
            /\ writes' = Append(Older(writes), [message |-> Head(up), newest |-> TRUE])
            /\ IF writes = <<>> THEN UNCHANGED left ELSE Spend("delay")
       ELSE UNCHANGED <<writes, left>>
    /\ UNCHANGED <<tvVars, updateVars, link, lookedUp, down, collecting, heard, row, pushes, raced>>

\* An UPDATE is executed: nothing keeps those under way in order.
ServerWrites(i) ==
    /\ row' = Reported(writes[i].message)
    /\ heard' = (writes[i].newest /\ IsHeartbeat(writes[i].message))
    /\ writes' = RemoveAt(writes, i)
    /\ UNCHANGED <<tvVars, updateVars, link, lookedUp, down, up, collecting, pushes, raced, left>>

(***************************************************************************)
(* Commands.                                                               *)
(***************************************************************************)
Pushed(message) ==
    down' = IF link \in {"registered", "live"} THEN Append(down, message) ELSE down

\* A user or a schedule commands: the row is written, the push is still to come.
Written(request) ==
    /\ pushes' = Append(pushes, request)
    /\ raced' = IF request.t \in Pending THEN raced \cup {request.t} ELSE raced \ {request.t}
    /\ UNCHANGED <<tvVars, updateVars, link, lookedUp, down, up, writes, collecting, heard>>

CommandPower(on) ==
    /\ Spend("power")
    /\ row' = [row EXCEPT !.desiredTvPower = on]
    /\ Written(TvPower(on))

CommandAutoUpdate(enabled) ==
    /\ Spend("toggle")
    /\ row' = [row EXCEPT !.autoUpdate = enabled]
    /\ Written(AutoUpdate(enabled))

\* The server has read another value for a connection that does not yet have it.
Overtaken(request) ==
    /\ link \in {"looked", "registered"}
    /\ request.on # IF request.t = "tv_power" THEN lookedUp.desiredTvPower ELSE lookedUp.autoUpdate

\* A request goes on: its push.
PushCommand(i) ==
    /\ Pushed(pushes[i])
    /\ pushes' = RemoveAt(pushes, i)
    /\ raced' = IF Overtaken(pushes[i]) THEN raced \cup {pushes[i].t} ELSE raced
    /\ UNCHANGED <<tvVars, updateVars, link, lookedUp, up, writes, collecting, heard, row, left>>

\* The awaited UPDATE of a request is rejected although it has been executed.
CommandFails(i) ==
    /\ Spend("failure")
    /\ pushes' = RemoveAt(pushes, i)
    /\ raced' = raced \cup {pushes[i].t}
    /\ UNCHANGED <<tvVars, updateVars, link, lookedUp, down, up, writes, collecting, heard, row>>

CommandVolume ==
    /\ link \in {"registered", "live"}
    /\ Spend("volume")
    /\ Pushed([t |-> "tv_volume"])
    /\ UNCHANGED <<tvVars, updateVars, link, lookedUp, up, writes, collecting, heard, row, pushes,
                   raced>>

\* The command a message stands for.
CommandOf(message) ==
    IF message.t = "tv_volume" THEN "volume" ELSE IF message.on THEN "on" ELSE "off"

\* The agent reads its next message.
Receive ==
    /\ down # <<>>
    /\ down' = Tail(down)
    /\ UNCHANGED <<link, lookedUp, up, writes, heard, row, pushes, raced, left>>

ReceiveAutoUpdate ==
    /\ Receive
    /\ Head(down).t = "set_auto_update"
    /\ SetAutoUpdate(Head(down).on)
    /\ UNCHANGED <<tvVars, collecting>>

\* Handlers are alike: which of them carries out a message makes no difference.
FirstFree(h) == handler[h] = None /\ h = CHOOSE g \in Handler : handler[g] = None

ReceiveTv ==
    /\ Receive
    /\ Head(down).t \in {"tv_power", "tv_volume"}
    /\ LET command == CommandOf(Head(down)) IN
          \/ /\ \E h \in Handler :
                   FirstFree(h) /\ (StartSearch(h, command) \/ StartCalls(h, command))
             /\ UNCHANGED collecting
          \/ /\ Drop(command)
             /\ IF command \in Power THEN Beat ELSE UNCHANGED collecting
    /\ UNCHANGED updateVars

(***************************************************************************)
(* The television's handlers, embedded.                                    *)
(***************************************************************************)
\* A handler goes on; nothing is reported.
HandlerStep ==
    /\ \E h \in Handler :
          \/ (SearchFinds(h) \/ SearchNext(h, FALSE) \/ Claim(h)
                \/ FirstCall(h) \/ SecondCall(h)) /\ UNCHANGED left
          \/ SearchNext(h, TRUE) /\ Spend("failure")
    /\ UNCHANGED <<updateVars, linkVars>>

\* Mutant: no heartbeat after a power command.
ReportedSilently(h) == UNCHANGED collecting

\* A power command ends with a heartbeat.
ReportedBy(h) == IF handler[h].command \in Power THEN Beat ELSE UNCHANGED collecting

HandlerEnds ==
    /\ \E h \in Handler :
          /\ \/ (SearchEnds(h, FALSE) \/ Return(h)) /\ UNCHANGED left
             \/ (SearchEnds(h, TRUE) \/ CallFails(h)) /\ Spend("failure")
          /\ ReportedBy(h)
    /\ UNCHANGED <<updateVars, link, lookedUp, down, up, writes, heard, row, pushes, raced>>

Surroundings ==
    /\ \/ Viewer /\ Spend("viewer")
       \/ PlugIn /\ UNCHANGED left
    /\ UNCHANGED <<updateVars, linkVars>>

(***************************************************************************)
(* The self-update, embedded.                                              *)
(***************************************************************************)
Newer == Push /\ Spend("push") /\ UNCHANGED <<tvVars, linkVars>>

UpdateStep ==
    /\ \/ (CheckForUpdate \/ Sync \/ Install \/ BuildShared \/ BuildAgent) /\ UNCHANGED left
       \/ (SyncFails \/ StepFails) /\ Spend("failure")
    /\ UNCHANGED <<tvVars, linkVars>>

\* A check ends; if there is a new build the agent stops and is started on it.
CheckEnds ==
    /\ OnScriptExit
    /\ IF script = "exit2"
       THEN TvRestart /\ Disconnected(up) /\ collecting' = 0
       ELSE UNCHANGED <<tvVars, link, lookedUp, down, up, writes, collecting, heard>>
    /\ UNCHANGED <<row, pushes, raced, left>>

\* The agent crashes, or the Pi reboots.
Restart ==
    /\ Spend("break")
    /\ TvRestart /\ UpdateRestart
    /\ Disconnected(up) /\ collecting' = 0
    /\ UNCHANGED <<row, pushes, raced>>

-----------------------------------------------------------------------------
Next ==
    \/ Connect \/ Lookup \/ Register \/ Attach \/ ConnectionLost \/ ServerRestart
    \/ HeartbeatTimer \/ SendHeartbeat \/ ServerReceive
    \/ \E i \in 1..Len(writes) : ServerWrites(i)
    \/ \E on \in BOOLEAN : CommandPower(on)
    \/ \E enabled \in BOOLEAN : CommandAutoUpdate(enabled)
    \/ \E i \in 1..Len(pushes) : PushCommand(i) \/ CommandFails(i)
    \/ CommandVolume
    \/ ReceiveAutoUpdate \/ ReceiveTv
    \/ HandlerStep \/ HandlerEnds \/ Surroundings
    \/ Newer \/ UpdateStep \/ CheckEnds \/ Restart

Spec == Init /\ [][Next]_vars

\* The agent reconnects and the server answers; the heartbeat timer runs and
\* metrics are collected; messages arrive and are read; UPDATEs are executed and
\* requests go on; handlers go on; the timer of the self-update, once on, fires and
\* the script goes on.
Fairness ==
    /\ WF_vars(Connect \/ Lookup \/ Register \/ Attach)
    /\ WF_vars(HeartbeatTimer \/ SendHeartbeat)
    /\ WF_vars(ServerReceive)
    /\ WF_vars(\E i \in 1..Len(writes) : ServerWrites(i))
    /\ WF_vars(\E i \in 1..Len(pushes) : PushCommand(i))
    /\ WF_vars(ReceiveAutoUpdate \/ ReceiveTv)
    /\ WF_vars(HandlerStep \/ HandlerEnds)
    /\ WF_vars(UpdateStep \/ CheckEnds)

FairSpec == Spec /\ Fairness

(***************************************************************************)
(* What must hold.                                                         *)
(***************************************************************************)
\* Once the newest heartbeat has been written and nothing is under way, the row
\* shows what the agent believes: every change is followed by a heartbeat whose
\* state is read after the metrics.  If UPDATEs were executed in another order than
\* the messages came the row may show an older report until the next heartbeat; it
\* never passes for heard (agent.ts 94-98, 166-175, gateway.ts 96-142).
ReportUnderWay ==
    link = "live" /\ heard /\ collecting = 0 /\ up = <<>> /\ writes = <<>> =>
        row.reported = [tvState |-> tvState, version |-> running.agent]

\* A settled television is in the state the row asks for, through restarts and
\* lost connections: the last command was pushed or replayed, and carried out.
\* Excepted is a row whose command crossed another one, was overtaken by a replay
\* of the row as it had been before, or failed after its UPDATE (control.ts 66-71,
\* gateway.ts 24-71, agent.ts 94-98).
PowerFollowsRow ==
    /\ link = "live" /\ down = <<>> /\ sure
    /\ row.desiredTvPower # None /\ "tv_power" \notin raced \cup Pending
    => tv.on = row.desiredTvPower

\* Once commands and faults have come to an end, the row shows what the agent
\* believes for good, although the first messages of a connection may be lost and
\* UPDATEs executed in any order (agent.ts 154-157).
ReportCatchesUp ==
    <>[](row.reported = [tvState |-> tvState, version |-> running.agent])

\* A device that has auto-update on for good, and was not told otherwise by a race,
\* ends up running the newest commit, unless a run of the script was cut short: the
\* timer comes back with each restart because the flag is replayed (gateway.ts
\* 50-58, agent.ts 117-144).
NewestVersionRuns ==
    <>[](row.autoUpdate /\ "set_auto_update" \notin raced) =>
        <>[](running = Whole(origin) \/ spoiled)
=============================================================================
