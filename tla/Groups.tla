------------------------------- MODULE Groups -------------------------------
(***************************************************************************)
(* Groups of devices and the dashboards that show and edit them.  A        *)
(* dashboard reloads everything whenever the server announces a change on  *)
(* its event stream, and after each of its own requests.  A request is a   *)
(* sequence of database statements with awaits between them, a reload is   *)
(* several requests of its own, and a stream can break at any moment.      *)
(*                                                                         *)
(* Requests also come from dashboards that are not modelled (tab None).    *)
(* Which content or power state a group request sets does not matter here; *)
(* what it does to one device is Gateway's business.                       *)
(***************************************************************************)
EXTENDS Naturals, Sequences, SequencesExt

CONSTANTS
    Device, Group,
    Tab,         \* dashboards
    Request,     \* slots for concurrent requests; their number is a bound
    MaxRequests, \* bound: requests of one behaviour
    MaxLoads,    \* bound: reloads a dashboard has under way
    MaxFaults,   \* bound: database errors, lost answers, broken streams, crashes
    None

ASSUME GroupsAssumption ==
    /\ MaxRequests \in Nat /\ MaxLoads \in Nat \ {0} /\ MaxFaults \in Nat
    /\ None \notin Tab

VARIABLES
    devices,     \* the devices rows
    groups,      \* groups[g]: "new" before the row of g is inserted, then "live",
                 \* "deleted" after its removal (ids are not used again)
    members,     \* members[g]: the device_groups rows of g
    request,     \* request[r]: a request under way, or None
    requests,    \* how many there have been
    subscribed,  \* subscribed[t]: the server knows t's event stream
    events,      \* events[t]: how many events are on their way to t
    loads,       \* loads[t]: t's reloads under way, oldest first
    shown,       \* shown[t]: what t displays, None before a reload has succeeded
    unannounced, \* unannounced[t]: something may have changed since t's last
                 \* reload began without an event having been sent to t
    overtaken,   \* overtaken[t]: t displays an older reload than it did before
    faults

dbVars == <<devices, groups, members>>
tabVars == <<subscribed, events, loads, shown, unannounced, overtaken>>
vars == <<dbVars, request, requests, tabVars, faults>>

(***************************************************************************)
(* Types.                                                                  *)
(***************************************************************************)
RequestType ==
    [kind : {"create", "deleteGroup"}, step : {"asked", "committed", "replied"},
     group : Group, tab : Tab \cup {None}]
    \cup [kind : {"deleteDevice"}, step : {"asked", "committed", "replied"},
          device : Device, tab : Tab \cup {None}]
    \cup [kind : {"put"}, step : {"asked", "selected", "emptied", "committed", "replied"},
          group : Group, deviceIds : SUBSET Device, tab : Tab \cup {None}]
    \cup [kind : {"control"}, step : {"asked", "applying", "replied"}, group : Group,
          refresh : BOOLEAN, todo : SUBSET Device, tab : Tab \cup {None}]

ASSUME RequestAssumption == None \notin RequestType

Listing == UNION {[rows -> SUBSET Device] : rows \in SUBSET Group}

\* What a dashboard displays.
Shown == [devices : SUBSET Device, groups : Listing]

\* A reload: what each statement has read, None before it has. old: a reload that
\* began later is displayed, or has been.
Load == [devices : {None} \cup SUBSET Device, groups : {None} \cup SUBSET Group,
         members : {None} \cup [Group -> SUBSET Device], old : BOOLEAN]

NewLoad == [devices |-> None, groups |-> None, members |-> None, old |-> FALSE]

\* The foreign keys of device_groups are part of the type.
TypeOK ==
    /\ devices \in SUBSET Device
    /\ groups \in [Group -> {"new", "live", "deleted"}]
    /\ members \in [Group -> SUBSET devices]
    /\ \A g \in Group : groups[g] # "live" => members[g] = {}
    /\ request \in [Request -> RequestType \cup {None}]
    /\ requests \in 0..MaxRequests
    /\ subscribed \in [Tab -> BOOLEAN]
    /\ events \in [Tab -> Nat]
    /\ loads \in [Tab -> Seq(Load)]
    /\ shown \in [Tab -> {None} \cup Shown]
    /\ unannounced \in [Tab -> BOOLEAN]
    /\ overtaken \in [Tab -> BOOLEAN]
    /\ faults \in 0..MaxFaults

Live == {g \in Group : groups[g] = "live"}

\* What there is to display.
Present == [devices |-> devices, groups |-> [g \in Live |-> members[g]]]

\* Some groups with some members, and dashboards that have just been opened: they
\* load, and ask for a stream.
Init ==
    /\ devices = Device
    /\ groups \in [Group -> {"new", "live"}]
    /\ members \in [Group -> SUBSET devices]
    /\ \A g \in Group : groups[g] # "live" => members[g] = {}
    /\ request = [r \in Request |-> None] /\ requests = 0
    /\ subscribed = [t \in Tab |-> FALSE]
    /\ events = [t \in Tab |-> 0]
    /\ loads = [t \in Tab |-> <<NewLoad>>]
    /\ shown = [t \in Tab |-> None]
    /\ unannounced = [t \in Tab |-> FALSE]
    /\ overtaken = [t \in Tab |-> FALSE]
    /\ faults = 0

Fault == faults < MaxFaults /\ faults' = faults + 1

\* publish: n events to every stream; who has none will not know.
Publish(n) ==
    /\ events' = [t \in Tab |-> IF subscribed[t] THEN events[t] + n ELSE events[t]]
    /\ unannounced' = [t \in Tab |-> unannounced[t] \/ ~subscribed[t]]
    /\ UNCHANGED <<subscribed, loads, shown, overtaken>>

(***************************************************************************)
(* What a dashboard, or anybody else, asks for.                            *)
(***************************************************************************)
\* A card takes one request at a time (`busy'); so does its group here.
Idle(t, g) ==
    t # None => \A r \in Request :
        request[r] # None /\ request[r].tab = t /\ request[r].kind # "deleteDevice"
            => request[r].group # g

Submit(r, body) ==
    /\ request[r] = None
    /\ requests < MaxRequests /\ requests' = requests + 1
    /\ request' = [request EXCEPT ![r] = body]
    /\ UNCHANGED <<dbVars, tabVars, faults>>

\* t has a card for g.
Lists(t, g) == t # None => shown[t] # None /\ g \in DOMAIN shown[t].groups

\* toggleMember: the membership that is displayed, with one box ticked or not.
Selections(t, g) ==
    IF t = None THEN SUBSET Device
    ELSE {shown[t].groups[g] \cup {d} : d \in shown[t].devices}
            \cup {shown[t].groups[g] \ {d} : d \in shown[t].devices}

SubmitPut(r, t, g) ==
    /\ Lists(t, g) /\ Idle(t, g)
    /\ \E chosen \in Selections(t, g) :
          Submit(r, [kind |-> "put", step |-> "asked", group |-> g, tab |-> t,
                     deviceIds |-> chosen])

SubmitControl(r, t, g) ==
    /\ Lists(t, g) /\ Idle(t, g)
    /\ \E refresh \in BOOLEAN :
          Submit(r, [kind |-> "control", step |-> "asked", group |-> g, tab |-> t,
                     refresh |-> refresh, todo |-> {}])

SubmitDeleteGroup(r, t, g) ==
    /\ Lists(t, g) /\ Idle(t, g)
    /\ Submit(r, [kind |-> "deleteGroup", step |-> "asked", group |-> g, tab |-> t])

SubmitCreate(r, t, g) ==
    /\ groups[g] = "new"
    /\ Submit(r, [kind |-> "create", step |-> "asked", group |-> g, tab |-> t])

SubmitDeleteDevice(r, t, d) ==
    /\ t # None => shown[t] # None /\ d \in shown[t].devices
    /\ Submit(r, [kind |-> "deleteDevice", step |-> "asked", device |-> d, tab |-> t])

(***************************************************************************)
(* The route handlers, one database statement at a time.                   *)
(***************************************************************************)
At(r, kind, step) == request[r] # None /\ request[r].kind = kind /\ request[r].step = step

\* 404 and nothing done: the group or the device is not there.
NotFound(r) ==
    /\ request[r] # None /\ request[r].step = "asked"
    /\ IF request[r].kind = "deleteDevice" THEN request[r].device \notin devices
       ELSE request[r].kind # "create" /\ request[r].group \notin Live
    /\ request' = [request EXCEPT ![r] = None]
    /\ UNCHANGED <<requests, dbVars, tabVars, faults>>

\* POST /api/groups
Create(r) ==
    /\ At(r, "create", "asked") /\ groups[request[r].group] = "new"
    /\ groups' = [groups EXCEPT ![request[r].group] = "live"]
    /\ request' = [request EXCEPT ![r].step = "committed"]
    /\ UNCHANGED <<requests, devices, members, tabVars, faults>>

\* DELETE /api/groups/:id; the membership goes with it (onDelete: cascade).
DeleteGroup(r) ==
    /\ At(r, "deleteGroup", "asked") /\ request[r].group \in Live
    /\ LET g == request[r].group
       IN  /\ groups' = [groups EXCEPT ![g] = "deleted"]
           /\ members' = [members EXCEPT ![g] = {}]
    /\ request' = [request EXCEPT ![r].step = "committed"]
    /\ UNCHANGED <<requests, devices, tabVars, faults>>

\* DELETE /api/devices/:id; it leaves its groups (onDelete: cascade).
DeleteDevice(r) ==
    /\ At(r, "deleteDevice", "asked") /\ request[r].device \in devices
    /\ LET d == request[r].device
       IN  /\ devices' = devices \ {d}
           /\ members' = [g \in Group |-> members[g] \ {d}]
    /\ request' = [request EXCEPT ![r].step = "committed"]
    /\ UNCHANGED <<requests, groups, tabVars, faults>>

\* PUT /api/groups/:id/devices: ownership, and which of the ids are devices;
\* (ids that no longer are, are dropped)
PutSelect(r) ==
    /\ At(r, "put", "asked") /\ request[r].group \in Live
    /\ request' = [request EXCEPT ![r].step = "selected", ![r].deviceIds = @ \cap devices]
    /\ UNCHANGED <<requests, dbVars, tabVars, faults>>

\* Mutant: only the given devices are taken out of the group.
PutDeleteSelected(r) ==
    /\ At(r, "put", "selected")
    /\ members' = [members EXCEPT ![request[r].group] = @ \ request[r].deviceIds]
    /\ request' = [request EXCEPT ![r].step = "emptied"]
    /\ UNCHANGED <<requests, devices, groups, tabVars, faults>>

\* then the old membership is deleted,
PutDelete(r) ==
    /\ At(r, "put", "selected")
    /\ members' = [members EXCEPT ![request[r].group] = {}]
    /\ request' = [request EXCEPT ![r].step = "emptied"]
    /\ UNCHANGED <<requests, devices, groups, tabVars, faults>>

\* Mutant: no foreign keys, only the primary key.
InsertRejectedByKey(g, ids) == ids \cap members[g] # {}

\* The insert breaks a foreign key or meets a row of a concurrent request.
InsertRejected(g, ids) ==
    ids # {} /\ (g \notin Live \/ ~ids \subseteq devices \/ ids \cap members[g] # {})

\* then the new one is inserted, all of it or nothing.
PutInsert(r) ==
    /\ At(r, "put", "emptied")
    /\ LET g == request[r].group
           ids == request[r].deviceIds
       IN  /\ ~InsertRejected(g, ids)
           /\ members' = [members EXCEPT ![g] = @ \cup ids]
    /\ request' = [request EXCEPT ![r].step = "committed"]
    /\ UNCHANGED <<requests, devices, groups, tabVars, faults>>

\* The handler gives up with status 500 after the deletion and announces nothing.
PutFails(r) ==
    /\ At(r, "put", "emptied")
    /\ InsertRejected(request[r].group, request[r].deviceIds)
    /\ request' = [request EXCEPT ![r] = None]
    /\ unannounced' = [t \in Tab |-> TRUE]
    /\ UNCHANGED <<requests, dbVars, subscribed, events, loads, shown, overtaken, faults>>

\* devicesForTarget: the members at this moment.
Targets(g) == members[g] \cap devices

\* POST /api/groups/:id/{content,tv,refresh}: ownership and the target devices,
ControlTargets(r) ==
    /\ At(r, "control", "asked") /\ request[r].group \in Live
    /\ request' = [request EXCEPT ![r].step = "applying",
                                  ![r].todo = Targets(request[r].group)]
    /\ UNCHANGED <<requests, dbVars, tabVars, faults>>

\* and one device after the other, online or not, announcing each,
ControlApply(r) ==
    /\ At(r, "control", "applying") /\ ~request[r].refresh
    /\ \E d \in request[r].todo : request' = [request EXCEPT ![r].todo = @ \ {d}]
    /\ Publish(1)
    /\ UNCHANGED <<requests, dbVars, faults>>

\* Mutant: the loop gives up at a device that has been deleted.
ControlReplyAtMissing(r) ==
    /\ At(r, "control", "applying") /\ ~request[r].refresh
    /\ request[r].todo \subseteq devices => request[r].todo = {}
    /\ request' = [request EXCEPT ![r].step = "replied"]
    /\ UNCHANGED <<requests, dbVars, tabVars, faults>>

\* until none is left.
ControlReply(r) ==
    /\ At(r, "control", "applying") /\ ~request[r].refresh /\ request[r].todo = {}
    /\ request' = [request EXCEPT ![r].step = "replied"]
    /\ UNCHANGED <<requests, dbVars, tabVars, faults>>

\* A refresh changes nothing: all devices are told at once, and no dashboard.
ControlRefresh(r) ==
    /\ At(r, "control", "applying") /\ request[r].refresh
    /\ request' = [request EXCEPT ![r].step = "replied", ![r].todo = {}]
    /\ UNCHANGED <<requests, dbVars, tabVars, faults>>

\* Mutant: changes to a membership are not announced.
ConcludeSilently(r) ==
    /\ request[r] # None /\ request[r].step = "committed"
    /\ request' = [request EXCEPT ![r].step = "replied"]
    /\ IF request[r].kind = "put" THEN UNCHANGED tabVars
       ELSE Publish(IF request[r].kind = "deleteGroup" THEN 2 ELSE 1)
    /\ UNCHANGED <<requests, dbVars, faults>>

\* A handler resumes after its last statement: it announces the change (that of
\* a group's removal twice, for the schedules too) and replies.
Conclude(r) ==
    /\ request[r] # None /\ request[r].step = "committed"
    /\ request' = [request EXCEPT ![r].step = "replied"]
    /\ Publish(IF request[r].kind = "deleteGroup" THEN 2 ELSE 1)
    /\ UNCHANGED <<requests, dbVars, faults>>

\* The database rejects a statement: 500, whatever has been done so far stays.
HandlerFails(r) ==
    /\ request[r] # None /\ request[r].step # "replied" /\ Fault
    /\ request' = [request EXCEPT ![r] = None]
    /\ unannounced' = [t \in Tab |-> TRUE]
    /\ UNCHANGED <<requests, dbVars, subscribed, events, loads, shown, overtaken>>

(***************************************************************************)
(* The dashboards.                                                         *)
(***************************************************************************)
\* load(): GET /api/devices, /api/groups, /api/schedules and /api/org at once, of
\* which the first two matter here. Nothing keeps two reloads apart.
Reload(t) ==
    /\ Len(loads[t]) < MaxLoads
    /\ loads' = [loads EXCEPT ![t] = Append(@, NewLoad)]
    /\ unannounced' = [unannounced EXCEPT ![t] = FALSE]

\* act: the reply is there, onChanged reloads.
Answered(r) ==
    /\ request[r] # None /\ request[r].step = "replied"
    /\ request' = [request EXCEPT ![r] = None]
    /\ IF request[r].tab = None THEN UNCHANGED <<loads, unannounced>>
       ELSE Reload(request[r].tab)
    /\ UNCHANGED <<requests, dbVars, subscribed, events, shown, overtaken, faults>>

\* An event arrives: reload, whatever it says.
EventReceived(t) ==
    /\ events[t] > 0
    /\ events' = [events EXCEPT ![t] = @ - 1]
    /\ Reload(t)
    /\ UNCHANGED <<requests, dbVars, request, subscribed, shown, overtaken, faults>>

\* The server reads the devices,
ServeDevices(t, i) ==
    /\ loads[t][i].devices = None
    /\ loads' = [loads EXCEPT ![t][i].devices = devices]
    /\ UNCHANGED <<requests, dbVars, request, subscribed, events, shown, unannounced, overtaken, faults>>

\* and, in another handler, the groups
ServeGroups(t, i) ==
    /\ loads[t][i].groups = None
    /\ loads' = [loads EXCEPT ![t][i].groups = Live]
    /\ UNCHANGED <<requests, dbVars, request, subscribed, events, shown, unannounced, overtaken, faults>>

\* and after them the members.
ServeMembers(t, i) ==
    /\ loads[t][i].groups # None /\ loads[t][i].members = None
    /\ loads' = [loads EXCEPT ![t][i].members = members]
    /\ UNCHANGED <<requests, dbVars, request, subscribed, events, shown, unannounced, overtaken, faults>>

\* What is displayed of a reload: the groups with the members read for them.
Display(load) ==
    [devices |-> load.devices, groups |-> [g \in load.groups |-> load.members[g]]]

\* t's reloads when the i-th is displayed: those that began before are old.
Displayed(t, i) ==
    [j \in 1..Len(loads[t]) |-> [loads[t][j] EXCEPT !.old = @ \/ j < i]]

\* All answers of a reload are there: they are what is displayed from now on,
\* even if a reload that began later has been displayed before.
LoadDone(t, i) ==
    /\ loads[t][i].devices # None /\ loads[t][i].groups # None /\ loads[t][i].members # None
    /\ shown' = [shown EXCEPT ![t] = Display(loads[t][i])]
    /\ loads' = [loads EXCEPT ![t] = RemoveAt(Displayed(t, i), i)]
    /\ overtaken' = [overtaken EXCEPT ![t] = loads[t][i].old]
    /\ UNCHANGED <<requests, dbVars, request, subscribed, events, unannounced, faults>>

\* One of the answers is an error or does not come: the reload is dropped in
\* silence, which matters if no later one has been displayed or is under way.
LoadFails(t, i) ==
    /\ Fault
    /\ loads' = [loads EXCEPT ![t] = RemoveAt(@, i)]
    /\ unannounced' = [unannounced EXCEPT ![t] = @ \/ (i = Len(loads[t]) /\ ~loads[t][i].old)]
    /\ UNCHANGED <<requests, dbVars, request, subscribed, events, shown, overtaken>>

\* GET /api/events reaches the server, at first or when the browser reconnects
\* a broken stream by itself; nothing is reloaded then.
Subscribe(t) ==
    /\ ~subscribed[t]
    /\ subscribed' = [subscribed EXCEPT ![t] = TRUE]
    /\ UNCHANGED <<requests, dbVars, request, events, loads, shown, unannounced, overtaken, faults>>

\* The stream breaks; events on their way are lost.
StreamBreaks(t) ==
    /\ subscribed[t] /\ Fault
    /\ subscribed' = [subscribed EXCEPT ![t] = FALSE]
    /\ events' = [events EXCEPT ![t] = 0]
    /\ unannounced' = [unannounced EXCEPT ![t] = @ \/ events[t] > 0]
    /\ UNCHANGED <<requests, dbVars, request, loads, shown, overtaken>>

\* The server restarts: streams, requests and reloads under way are all lost.
ServerRestart ==
    /\ Fault
    /\ request' = [r \in Request |-> None]
    /\ subscribed' = [t \in Tab |-> FALSE]
    /\ events' = [t \in Tab |-> 0]
    /\ loads' = [t \in Tab |-> <<>>]
    /\ unannounced' = [t \in Tab |-> TRUE]
    /\ UNCHANGED <<requests, dbVars, shown, overtaken>>

-----------------------------------------------------------------------------
Next ==
    \/ \E r \in Request, t \in Tab \cup {None} :
          \/ \E g \in Group :
                \/ SubmitPut(r, t, g)
                \/ SubmitControl(r, t, g)
                \/ SubmitDeleteGroup(r, t, g)
                \/ SubmitCreate(r, t, g)
          \/ \E d \in Device : SubmitDeleteDevice(r, t, d)
    \/ \E r \in Request :
          \/ NotFound(r)
          \/ Create(r)
          \/ DeleteGroup(r)
          \/ DeleteDevice(r)
          \/ PutSelect(r)
          \/ PutDelete(r)
          \/ PutInsert(r)
          \/ PutFails(r)
          \/ ControlTargets(r)
          \/ ControlApply(r)
          \/ ControlReply(r)
          \/ ControlRefresh(r)
          \/ Conclude(r)
          \/ HandlerFails(r)
          \/ Answered(r)
    \/ \E t \in Tab :
          \/ EventReceived(t)
          \/ Subscribe(t)
          \/ StreamBreaks(t)
          \/ \E i \in 1..Len(loads[t]) :
                \/ ServeDevices(t, i)
                \/ ServeGroups(t, i)
                \/ ServeMembers(t, i)
                \/ LoadDone(t, i)
                \/ LoadFails(t, i)
    \/ ServerRestart

Spec == Init /\ [][Next]_vars

(***************************************************************************)
(* What must hold.                                                         *)
(***************************************************************************)
\* Nothing is on its way to or from dashboard t, and no request is under way.
Settled(t) ==
    /\ events[t] = 0 /\ loads[t] = <<>>
    /\ \A r \in Request : request[r] = None

\* "Live updates: refetch on any server-sent event" (Dashboard.tsx 56): a
\* dashboard is out of date only because a change was never announced to it, or
\* because the answer of an older reload came after that of a newer one, whatever
\* the statements of reloads, the events and the statements of concurrent requests
\* are interleaved with (groups.ts, events.ts 30-40, Dashboard.tsx 33-60).
StaleOnlyIfUnannounced ==
    \A t \in Tab :
        Settled(t) /\ ~unannounced[t] /\ ~overtaken[t] => shown[t] = Present
=============================================================================
