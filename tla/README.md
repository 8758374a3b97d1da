# PiSignage in TLA+

Models, model-checking runs and machine-checked proofs for PiSignage: a cloud
server (Fastify, SQLite through Drizzle) that tells Raspberry Pis what to show
on their TVs, the agent that runs on each Pi, and the dashboard from which
administrators control them. `PROJECT.json` maps every definition to the source
lines it stands for and lists runs, mutants, findings, hazards and theorems.

## 1. The system

| Part | Source (below `src/apps`) | State it keeps | Operations | What makes it correct |
|---|---|---|---|---|
| Control primitives | `server/src/services/control.ts`, `routes/devices.ts` | `devices` rows: desired content, zoom, TV power, auto-update | check, commit to the row, push to the socket | the device ends with what the row says |
| Gateway and registry | `server/src/ws/` | map device to socket; per connection the row it read and an alive flag | connect, replay, ping, pong, close, replace | the registry names the live socket; dead ones are noticed; replay makes the screen correct |
| Agent connection | `agent/src/agent.ts` | its socket, last content | connect, apply, reconnect, restart | it gets back whatever happened |
| Kiosk display | `agent/src/display/chromium.ts` | wanted content and zoom, child process, respawn timers | show, refresh, pairing page, exit, respawn | one browser, on the wanted page, back after a crash |
| Scheduler | `server/src/scheduler.ts`, `time.ts`, `routes/schedules.ts`, `routes/org.ts` | `schedules` rows with `lastFiredKey`, timezone, runs in progress | tick, read, fire, mark; create, edit, toggle, delete | each planned minute fires, and once |
| Pairing | `server/src/routes/pairing.ts`, claim in `routes/devices.ts`, `agent/src/pairing.ts`, `state.ts` | `pairing_sessions` rows, saved token | start, poll, claim, expire, delete | a claim reaches the one screen with the code |
| Groups | `server/src/routes/groups.ts` | `groups`, `device_groups` rows | create, delete, replace members, bulk control | a bulk command reaches the members |
| Event stream and dashboard | `server/src/events.ts`, `dashboard/src/Dashboard.tsx`, panels, `api.ts` | subscribers; what is displayed | publish, subscribe, reload | what is displayed is current once things are quiet |
| HDMI-CEC | `agent/src/cec.ts` | adapter found, search begun | power on, power off, volume | what is reported of the TV is true; the TV follows the row |
| Self-update | `agent/src/self-update.ts`, `deploy/self-update.sh` | checkout, build, timer, flag | check, build, restart | what runs is what is checked out; the newest build runs in the end |
| Upstream messages | `gateway.ts` 96-142, `agent.ts` 154-185 | last seen, TV state, metrics | hello, heartbeat, ack | rows follow the device |
| Accounts | `server/src/auth.ts`, `routes/auth.ts`, `routes/users.ts` | users | log in, add, delete, change password | somebody can always log in |

**How they interact.** The dashboard calls REST routes; a route writes the
database and calls `sendToDevice`, which looks the socket up in the registry.
The scheduler calls the same control primitives from a timer. The agent opens a
WebSocket; the gateway's handler registers it and replays the row. Every change
is announced on the event stream, and each dashboard then reloads everything.

**What is hard.** The server is one Node process: code between two awaits is
atomic, and every await (each database statement is one) lets any other handler
run. A handler therefore works with rows that may have changed, and the order of
two commits need not be the order of two pushes. Connections die without notice;
`close` events come late or before anybody listens; timers fire after the state
they were set for is gone; processes stop between two steps; the local clock
jumps. The 43 hazards in `PROJECT.json` are listed at the lines where they bite.

## 2. Modules

| Module | Models | Used by |
|---|---|---|
| `Gateway` | control routes and primitives, registry, gateway handler, network, agent | `MCGateway` (values), `GatewayHistory` |
| `GatewayHistory` | `Gateway` with a variable that remembers the mishaps that make a device stale | `MCGatewayHistory` (bounds), `GatewayProofs` (proofs) |
| `Scheduler` | runner, local time, schedule routes, restart | `MCScheduler`, `SchedulerProofs` |
| `Screen` | what the `Display` interface promises, nothing of how | `Kiosk`, as its refinement target |
| `Kiosk` | the Chromium display of one agent | `KioskProofs` |
| `Binding` | what pairing promises, nothing of how | `Pairing`, as its refinement target |
| `Pairing` | agent loop, pairing routes, claim, deletion | `PairingProofs` |
| `Groups` | group routes, event stream, one or more dashboards | `GroupsHistory` |
| `GroupsHistory` | `Groups` with variables about the two statements of a replacement: which ones overlap, which commands read between them, whom a command has still to reach | `MCGroups` (symmetry), `GroupsProofs` |
| `Television` | power and volume commands over HDMI-CEC, the television | `AgentProcess`, `TelevisionProofs` |
| `SelfUpdate` | the periodic check, the update script, systemd | `AgentProcess`, `SelfUpdateProofs` |
| `AgentProcess` | one agent process: `Television` and `SelfUpdate` composed with the connection, the row and the reports | `MCAgentProcess` (values), `AgentProofs` |

The modules meet at narrow interfaces and each replaces its neighbours by what
they can do: `Gateway` delivers a command to an agent that applies it at once,
`AgentProcess` refines that agent for TV commands and updates and keeps the awaits
of the server but one connection at a time, `Kiosk` accepts any sequence of commands,
`Scheduler` and `Groups` call a control primitive without asking whether the device
is online.

### Gateway

- `row` is the `devices` table; `inflight[r]` a request between two awaits:
  `RequestCheck` (the ownership query has answered), `RequestCommit` (the update),
  `RequestResume` (push through `SendToDevice`). `RequestFails` is a rejected query; if
  the UPDATE is rejected after the database has executed it, as a remote one may, the
  row has changed and nothing is pushed.
- `handler[s]` is the position of the gateway's handler of connection `s`:
  `Lookup`, then `RejectToken` or `Register`, then `FinishConnect` (replay, timer,
  listeners). "looked" separates the moment the database answers from the moment
  the handler resumes. `HandlerFails` is a rejected query.
- `wire[s]` is the connection below: "up", "cut" (half-open), "closing" and
  "closed" (the `close` event has been emitted). `SocketClosed` runs the teardown
  only if the handler has attached it.
- `AgentReceive`, `AgentClosed`, `Connect`, `AgentRestart`, `PowerLoss`, `PowerOn`
  are the device; `Cut`, `Vanish`, `ServerRestart` the network and the server.
- A command takes effect at the agent in one step. What `show` does to the browser
  is `Kiosk`'s subject, what a power command does is `Television`'s.

### Scheduler

- `clock` counts half-minutes, the tick interval. `Local[z][m]` is the local minute
  shown in zone `z`; the local date and time are computed from it with short days
  and weeks, so that day and week boundaries are met.
- A run is `Tick`, `ReadOrgs` (the minute is computed), `ReadSchedules` (which are
  due is decided on this answer), `Fire`, `Fired` and `Mark` per schedule, `Finish`.
  Between `Fire` and `Fired` the devices are commanded one after the other; `Fired` is
  the end of `fireSchedule`, `Mark` the UPDATE of `lastFiredKey` after it. Everything
  else may happen in between, a crash or a rejected UPDATE (`RunFails`) too.
- `Prompt = TRUE` says that a run ends before the next tick. That is an assumption
  about the database's speed that the code does not enforce; `scheduler_overlap`
  drops it.
- `edits`, `done`, `unmarked` and `unseen` are history: which version of a schedule a
  run read, what was last completely fired, whether the mark of that firing was cut
  off, what the last run cannot have seen. `done` is set by `Fired`, not by the mark.

### Kiosk

- `show`, `refresh` and the timer's callback have no await, so each is one step. A
  process dies (`Crash`, `Die`) before its `exit` event is handled (`OnExit`).
- `timer[k]` is a pending `setTimeout` with the page it captured; it may fire at
  any time after it was set.
- `OnScreen`, the pages of running browsers, is what an observer sees. Under
  `Promise == INSTANCE Screen` with `OnScreen` for `screen`, `Kiosk` implements
  `Screen`: a launch is `Ask`, `Reload`, `ShowCode` or `Recover`, a death is
  `GoDark`, exit events are invisible. Two weaknesses of the code are part of what
  `Screen` grants: a screen that has gone dark may stay dark when the same page is
  asked for again before the exit is noticed, and recovery may use an older factor.

### Television

- `handler[h]` is a message handler between two cec-ctl calls. A command finds no
  search begun (`StartSearch`), a search without a result so far (`Drop`) or an
  adapter (`StartCalls`). `SearchFinds`, `SearchNext`, `SearchEnds`, `Claim` are
  the loop over the candidates; `FirstCall`, `SecondCall`, `CallFails`, `Return`
  the pair of calls.
- The television obeys `<Standby>` only from the active source, as the comments at
  `cec.ts` 20-24 record; a viewer may change it at any time (`Viewer`).
- `sure` and `clean` are history: an undisturbed command. Two power commands at a
  time do end in the state of either or neither; nothing in the code prevents it.
- The code drops a command that arrives during the search, and a search that found
  nothing is not repeated before the agent restarts, even after a television is
  plugged in (`missed`). `AdapterKnownAfterSearch` says that this is the only way
  to be without an adapter.

### SelfUpdate

- The script is one action per command: `Sync`, `Install`, `BuildShared`,
  `BuildAgent`, any of which may fail (`SyncFails`, `StepFails`); `OnScriptExit` is
  the agent's reaction to the exit code. `UpdateRestart` is a crash, a reboot or a
  stop at any moment. A build is the pair of versions of its two packages.
- `spoiled` records that a run of the script ended between `git reset` and the end
  of the build. From then on `before = after` and the script answers "already up to
  date" although the newest commit is not built, until another commit is pushed.
  The properties hold up to this case, which they name.

### AgentProcess

- `link` follows a connection: "open" for the agent, "looked" up by the server,
  "registered" there, and "live" once the device is marked online, the settings read at
  the lookup (`lookedUp`) are replayed and the message listener is attached. Until then
  what the agent sends is lost; from "registered" on it is pushed to.
- A command is `CommandPower` or `CommandAutoUpdate` (the UPDATE) and then `PushCommand`;
  `CommandFails` is an UPDATE that was executed and rejected. `pushes` holds the requests
  in between, which go on in any order.
- A message that arrives (`ServerReceive`) is an UPDATE under way in `writes`;
  `ServerWrites` executes any of them. So two UPDATEs can be executed in reverse, and
  those of a connection that is gone still arrive (`Disconnected`).
- `collecting` counts heartbeats that wait for their metrics: the state they carry is
  read afterwards.
- `raced` and `heard` are history. `raced` has the settings whose last change crossed
  another one, was overtaken by a replay of an older row, or lost its push; the next
  lookup clears it if no push is still to come, and so does the next change that is alone. `heard`: the last UPDATE executed was that of the
  newest message of the connection, a heartbeat.
- `Television` and `SelfUpdate` are embedded: each of their actions is a disjunct
  of an action here, with what the agent does besides (a heartbeat at the end of a
  power command, a stop at exit code 2).
- The version reported is that of the agent package, stamped into it when it is
  built. Content belongs to `Gateway` and `Kiosk` and is left out.

### Pairing

- `session` is the table, `waiting[a]` the session an agent shows, `poll[a]` an
  answer on its way, `saved[a]` the state file, `claim[c]` a claim between its
  three statements. A device stands for its token.
- The loop of the agent ends when the server says so or when the Pi's clock has passed
  the `expiresAt` it was given (`Continue`). Nothing keeps the two clocks in step, so this
  may be at any poll, or before the first one.
- Codes are not modelled: `ClaimCheck` may pick any pending session that has not
  expired, which is what typing a code, right, mistyped or colliding, comes to.
- `offered` in an answer is a history value.
- `Promise == INSTANCE Binding`: an agent has an offer (`Offers`) of a device while the
  session it waits for, or an answer on its way to it, holds the device; a device is
  `Fresh` while a claim has made it and not attached it; `saved` is what an agent has
  accepted. `ClaimInsert` is `Make`, `ClaimAttach` is `Offer` (or `Lose`, when nobody
  waits for the session any more), `Answered` is `Accept` or `Lose`, `DeleteDevice` is
  `Remove`, whatever is forgotten or fails is `Lose`, and polls, starts and expiry are
  invisible.

### Groups

- `request[r]` is a request at one of its statements. `PutSelect`, `PutDelete` and
  `PutInsert`/`PutFails` are the membership update; a bulk command is
  `ControlTargets`, one `ControlApply` per device, `ControlReply`; refreshing is all
  pushes and no announcement (`ControlRefresh`).
- `loads[t]` are a dashboard's reloads under way, each with what its statements have
  read so far (`ServeDevices`, `ServeGroups`, `ServeMembers`); they overlap, and
  `LoadDone` displays any of them whose answers are all there, an older one after a
  newer one too (`overtaken[t]`). `shown[t]` is what is displayed, `events[t]` the events
  on their way. `unannounced[t]` records that something may have changed without an
  event having been sent to `t`.
- `GroupsHistory` remembers in `torn` which bulk commands have read their targets between
  the deletion and the insertion of a replacement, and in `owed` whom a bulk command has
  still to reach. A device stays in a group (`Staying`) when a replacement deletes it and
  is going to insert it again.
- Requests come from the modelled dashboard, which offers what it displays, and
  from any other client (tab `None`), which may send anything. The modelled
  dashboard issues one request at a time per group, as its cards do (`busy`).
- Foreign keys are enforced (the libSQL client's default); `TypeOK` says so.

## 3. Runs

All bounds are constants or sizes of constant sets, named in the `.cfg` files.
Deadlock is not checked: with its bounds exhausted a model stops (no more
requests, faults, clock), and an idle system has nothing to do.

| Run | Shows | Distinct states |
|---|---|---|
| `gateway` | types; a live socket is the registered one; nothing is sent over a replaced connection; a settled device is in every setting what its row says until a row was written under a pending replay, two changes of a setting crossed between UPDATE and push, or an UPDATE was executed and rejected; without the latter two it is at most as stale as the row its connection read | 2.2 million |
| `gateway_liveness` | after two faults, too, half-open connections are found out; a powered device with a row ends up connected for good | 0.14 million |
| `gateway_stale_replay` | **violation**: the replay on connect leaves the screen wrong | - |
| `gateway_ghost` | **violation**: a device stays online for ever after a close during the handler's await | - |
| `scheduler` | types; a second complete firing in a minute only after one whose mark was cut off; nothing fires that was deleted, disabled or edited before the run began; no undisturbed planned minute is lost | 3.1 million |
| `scheduler_overlap` | **violation**: overlapping runs fire twice | - |
| `scheduler_edit` | **violation**: the mark of a run in progress undoes the reset by an edit | - |
| `kiosk` | types; never two browsers; never the wrong page; a wanted page comes back after crashes; `Kiosk` implements `Screen` | 0.3 million |
| `kiosk_zoom` | **violation**: a respawn brings back an old scale factor | - |
| `pairing` | types; one screen per device; offered tokens belong to devices; a claim reaches the screen; `Pairing` implements `Binding` | 2.6 million |
| `groups` | types with foreign keys; a dashboard is out of date only if a change was not announced or an older answer came after a newer one; a bulk command reaches the members that stay unless it read its targets in the middle of a replacement; a replaced membership is what was asked for, unless replacements of the group overlap | 1.8 million |
| `agent` | types; power reports are true; a television that answers is found; what runs is what is checked out; a heartbeat written last is current; the television follows the row unless its last command met a race or was rejected; the row catches up for good; the newest version ends up running | 0.85 million |

**Why the bounds are enough for what they show.**

- `gateway`: the registry, the handlers and the replay treat devices separately, so
  one device; replacement, late closes and races of two handlers need two sockets
  (identities are reused once nothing refers to them, so any number of connections
  can follow each other). Two requests, so that one can be checked, committed or pushed
  while another one is anywhere. After the fault (`MaxFaults = 1`) at most one is in
  progress (`OverlapBeforeFaults`, without which there are 14 million states).
  `MaxQueue = 1` stops new requests while a message waits; the replay may still queue
  three. Sockets and request slots are interchangeable (symmetry).
- `gateway_liveness`: two faults allow a fault during the recovery from another; one
  request at a time.
- `scheduler`: nine half-minutes with days of two minutes and weeks of two days
  cross two days and a week; in zone `home` the clock goes back by a minute in the
  middle, and the zone can be changed. Two schedules meet in one run. `Slot` has
  one element because prompt runs do not overlap, two in `scheduler_overlap`.
- `kiosk`: two pages, two factors, two crashes; three processes and two timers
  allow a running browser, one that is being terminated and one whose exit is
  still to be handled, with two respawns pending.
- `pairing`: two agents, two claims, two devices; three sessions let an agent
  start again after expiry while older sessions remain. One lost answer or restart.
- `groups`: one group and two devices, so that memberships differ by more than
  empty and full and a bulk command has a middle; two requests run concurrently.
  Two reloads of a dashboard at a time (`MaxLoads`), so that statements and answers of
  both interleave. Devices and request slots are interchangeable (symmetry).
- `agent`: two handlers, since hazards of `Television` are about a pair; two ports, so
  that a search goes past an empty one; two heartbeats waiting, one message on its way
  to the server (a queue of one delays, it drops nothing) and two UPDATEs under way, the
  fewest that can be executed in reverse. Commands, pushes and faults are limited by a
  budget. `MCStarts` names the instances: three budgets with a television in any state
  and port, six with one that is off although its row says on, three about updates; each
  allows up to three kinds of event together (two power commands; a command with a break,
  a failure or a delay; an update with toggles, failures, a second push or a break). The
  run explores all of them. A "delay" is an UPDATE still under way when the next message
  arrives; without one the heartbeat timer waits for what was sent before. What the
  combination of the instances could add is the subject of the proofs, which hold for
  every budget.

Every property of a passing run has a mutant in `PROJECT.json`: a definition in
the same module, marked `Mutant`, that changes one operation the way a slip in
the code would and makes the run fail.

**Fairness.** `Gateway`: handlers resume, the database answers, sockets close in
the end, the agent reconnects and reads, and the ping timer ticks on connections
that are cut. These are timers and events of the runtimes; the agent reconnects
with a bounded delay (`agent.ts` 65-72). Faults, requests and mains power get no
fairness, and faults are finite (`MaxFaults`). `Kiosk`: signals are obeyed, exit
events are delivered, timers fire. For timers the fairness is strong, only
because the model's pool of process identities can be exhausted for a while,
which the operating system's is not. `AgentProcess`: the agent reconnects and the
server answers, the heartbeat timer runs and metrics are collected, messages arrive,
are read, written to the row and handled, requests go on after their UPDATE, the update
timer fires once on, and the script goes on; eight weak fairness conditions, one for each
of these runtimes (timers and event loop of the agent, the network, the server and its
database, cec-ctl, the shell). Commands, pushes, viewers,
failures and breaks get none and are finite. The other modules state safety only.

## 4. Findings

Each is a run with `expect: violation`; TLC's counterexample is the scenario.

1. `gateway.ts` 39: the content pushed on connect is that of the row read before
   the socket was registered; a change in between is lost or overwritten.
2. `gateway.ts` 73-76: a socket that closes while `markOnline` is awaited is never
   taken out of the registry, since the listeners are attached afterwards.
3. `scheduler.ts` 10-11: two runs can overlap and fire the same schedule. The same
   comment claims deduplication across restarts: a crash after the last device was
   commanded and before `lastFiredKey` is written has the schedule fired once more when
   the server is back in the same minute. `FiresAgainIfUnmarked` names this case and shows
   that, with runs that end before the next tick, it is the only one.
4. `routes/schedules.ts` 76-77: `lastFiredKey` is overwritten by a run in progress.
5. `routes/devices.ts` 120-121: a respawn timer applies the zoom it captured.

Met on the way and stated as the exceptions of properties rather than as findings: a
failed build is not retried before the next commit (`spoiled`); a TV command during the
adapter search is dropped, and a search that found nothing is never repeated (`missed`);
a page asked for again between a browser's death and its exit event stays dark until the
respawn timer; two changes of one setting may be pushed in another order than they were
written, and a change whose UPDATE is rejected although it was executed is never pushed
(`races`, `raced`); the UPDATEs of two reports may be executed in reverse, and the row
shows the older one until the next heartbeat (`heard`); the reloads of a dashboard are not
kept in order, and an older answer may stay until the next event (`overtaken`); a bulk
command that reads its targets while a membership is being replaced misses devices that
are members before and after (`torn`); two replacements of one membership, each a deletion and an insertion
without a transaction (`routes/groups.ts` 92-97), may leave the devices of both
(`overlapped`).

## 5. Proofs

Each module of proofs establishes an invariant `IInv` in three steps (`Init`
implies it, every action preserves it, it implies the properties), with one lemma
per action or per operator that several actions use.

### GatewayProofs

Proved, for every value of the constants that satisfies
`GatewayAssumption` (any number of devices, sockets, requests and faults):

- `TypeCorrect`: `Spec => []TypeOK`;
- `LiveIsRegistered`: `Spec => []LiveSocketRegistered`;
- `WritesOnlyRegistered`: `Spec => OnlyRegisteredSocketWritten`;
- `InductiveInvariant`: `Spec => []IInv`, from which these three follow;
- `StaleAsLookup`: `HistorySpec => []StaleOnlyFromLookup`;
- `OnlyMishapsMakeStale`: `HistorySpec => []DeviceFollowsRow`.

`HistorySpec` (`GatewayHistory`) is `Spec` with a variable that remembers three
mishaps; its steps are those of `Spec` (`HistoryStep`).
`NullAssumption` is assumed besides: null is neither a message nor a request.

`LiveSocketRegistered` is not inductive. `IInv` adds that registry entries belong
to their device (`RegistryOwned`), without which closing the replaced socket could
hit another device's connection, and that a handler past its lookup has the row it
needs (`SnapshotKnown`), without which the replay is not well typed. The argument:
only `Register` makes a socket live, and it closes the device's previous one in
the same step; only `Unregistered` removes an entry, and only for the socket that
owns it, which is then closed. Each action has a lemma for types and one for the
other conjuncts. `WritesOnlyRegistered` follows because pushes go through the
registry and `FinishConnect`, which does not consult it, can only reach an agent
over a socket that is still open.

The other two are about data in flight. What an agent will end up with, setting by
setting, is decided by the newest message of that type in its queue, or by its present
state if there is none (`Coming`). `SInv` says that this agrees with the row or with
what the connection's lookup read, unless a push is still to come (`UpToLookup`); that
what is about to be pushed agrees with the row (`PushesRow`); and, because the replay
sends nothing for a row without content, that such a device has never shown anything
(`BlankBeforeFirst`, `ContentStays`). This ends with the first "rivals" or "unpushed" in
`races`. When `NoRivals` fails, two UPDATEs of one setting have been made and the older
value may be pushed last; this concerns two pushes of the same kind only, requests may
overlap in any other way. When a push is dropped after its UPDATE the device keeps an
older value than any the handler has read. For `DeviceFollowsRow` the same is said of the row alone
(`UpToRow`), together with `CopiesCurrent`: the copy a handler is about to replay is the
row. Queues are described by quantifiers over positions, not by folding `Applied` over
them, since an induction over a sequence is out of the provers' reach. Each action has
one lemma for both invariants; steps that only lose connections, requests or
processes share one.

So the write during a replay (`gateway.ts` 24-71), the crossing of two changes and the
UPDATE that is executed and rejected (`control.ts` 19, 36, 58, 67) are the only causes, in
the model, of a device that stays out of date while it is connected: neither replaced
connections, nor late closes, crashes, half-open sockets or failing handlers can bring it
about. A limit of the model: a statement the server has sent before its process ended has
been executed by then or never will be, so no row changes on behalf of a process that is
gone.

### KioskProofs

Proved, for every value of the constants that satisfies `KioskAssumption`:
`TypeCorrect` (`TypeOK`), `NoStrayBrowser` (`OneBrowser`) and `RightPage`
(`ScreenFollowsContent`).

`IInv` adds `ChildHeld`: the process the display holds has been started and has not
been told to go. Without it `ScreenFollowsContent` says nothing of a `child` that
was never started. The argument: killing ends the only running browser, so the one
launched afterwards is alone; a respawn timer launches nothing unless the content it
captured is still wanted; an exit forgets the child only if it is the one that exited.

`DisplayKeepsPromise` is the refinement, `Spec => ImplementsScreen`. Besides `IInv` it
needs `PairingFirst`: as long as no content has been asked for, what runs is the pairing
page. Each action of `Kiosk` has a step that names the action of `Screen` it implements
or shows `OnScreen` unchanged; a lemma says that killing and launching leave exactly the
launched page on the screen.

### PairingProofs

Proved, for every value of the constants that satisfies `PairingAssumption` and
`RowAssumption` (null is neither an identity nor a row nor an answer): `TypeCorrect`
(`TypeOK`), `NoTwoScreens` (`OneScreenPerDevice`), `OffersExist` (`OfferedDeviceExists`),
`ClaimsArrive` (`ClaimReachesScreen`) and the refinement `PairingKeepsPromise`
(`ImplementsBinding`).

`OneScreenPerDevice` speaks of state files only; what protects it happens earlier. A
token travels from a claim to a session, from there into the answer to a poll and
then into a state file. `IInv` says, in `ClaimsFresh`, `SessionsApart` and
`AgentsApart`, that a token still in a claim is nowhere else, that a token is in one
session, that only the agent which waits for that session has it in an answer, and
that once it is saved nobody waits for the session any more. It rests on
`SessionsOwned` (no two agents wait for one session) and `AllMinted` (a new device's
token is held nowhere yet).

`ClaimsArrive` needs that an answer which reports a claim carries the token the session
offered when it was given, even if the session has expired (`AnswersWhole`).
`PairingKeepsPromise` names for each action the step of `Binding` it implements. The
delicate ones: `ClaimAttach` offers a device that nobody else can have been offered
(`ClaimsFresh`) to an agent that has none (`AgentsApart`), and may take the place of an
earlier claim of the same code; `Answered` accepts what the answer carried, although the
session may meanwhile offer something else or the device may have been removed.

### SchedulerProofs

Assumed: `SchedulerAssumption`, `RowAssumption`, `RunAssumption` (null is no value), and
`Prompt`, that a run ends before the next tick. Proved: `TypeCorrect` (`TypeOK`, without
`Prompt`), `FiresOnce` (`FiresAgainIfUnmarked`), `FiresCurrent` (`FiresWhatIsThere`) and
`NoMinuteLost` (`PlannedMinuteFires`), for any clock, zones and edits.

`SInv` relates rows, runs and history: no two runs (`OneRun`); `lastFiredKey` is exactly
the last complete firing unless the row was edited since, the firing is about to be marked,
or its mark was cut off (`MarkIsDone`); what a run has still to fire is as it was read and
has not been fired and marked in its minute (`RunIsRight`); and what is planned for the
current minute is fired, or in the run's list, or not yet looked at (`NothingLost`).
`OneRun` is what `Prompt` buys, and what `scheduler_overlap` loses.

### GroupsProofs

Assumed: `GroupsAssumption`, `RequestAssumption`. Proved: `TypeCorrect` (`TypeOK`, with
the foreign keys), `MembersAreReached` (`HistorySpec => []StableMembersReached`) and
`StaleUnannounced` (`StaleOnlyIfUnannounced`), for any numbers of devices, groups,
dashboards, requests, overlapping reloads and events. `ReplacedUnlessOverlapping` is
`HistorySpec => ReplacesMembership`, where `HistorySpec` (`GroupsHistory`) remembers
which replacements have met another one between their statements. A group is empty from
a deletion to its insertion (`UndisturbedIsEmpty`), since nothing but another
insertion adds members.

`OwedIsReached` says of whoever has stayed in the group that the database has it, or a
replacement under way is going to insert it, as long as the targets have not been read, and
that it is in the list of targets afterwards, unless they were read in between (`torn`).
`WillBeCurrent` says of every dashboard that something was not announced to it, or an
event is on its way, or a request has changed rows and is about to announce it, or the
newest of its reloads has read nothing yet that is not what there is, or, if there is none
left, that it displays what there is or an older reload than it did before; the reloads
marked old are those in front (`OldFirst`). Nothing is assumed about the order in which
statements and answers come.

### TelevisionProofs, SelfUpdateProofs, AgentProofs

Assumed: `TelevisionAssumption`, `HandlerAssumption`, `AgentAssumption`. The two parts
are proved by themselves: `PowerReportIsTrue` (`TvStateTrue`), `TelevisionIsFound`
(`AdapterKnownAfterSearch`), `UpToDateIsTrue` (`RunsCheckout`). The invariant of
`Television` follows a clean power command through its calls: after the first, the
television is on (power on) or shows the Pi (power off), and no other handler has a power
command. That of `SelfUpdate` says what each position of the script implies about
checkout and build.

`AgentImplementsParts` shows that every step of the composition is a step of each part or
leaves it unchanged, so that the parts' results hold of the composed agent
(`AgentReportIsTrue`, `AgentFindsTelevision`, `AgentUpToDate`). Two results are about the
composition itself. `ReportsArriveTrue` (`ReportUnderWay`): the newest heartbeat, wherever
it is (to be collected, on its way, in an UPDATE under way or, once heard, in the row),
carries the present state, because every change of the state ends with a heartbeat whose
state is read after its metrics; UPDATEs of older messages may be executed at any time, and
then the row does not count as heard. `TelevisionFollowsRow` (`PowerFollowsRow`): unless
"tv_power" is in `raced`, the only power request to be pushed, if any, is what the row asks
for (`PendingIsWanted`); once none is, what a connection being set up will replay, and the
newest power command in a handler or on its way over a live one, is what the row asks for
(`Reached`).

### Only model-checked

All liveness (`HalfOpenDetected`, `ReconnectsForGood`, `CrashedBrowserReturns`,
`ReportCatchesUp`, `NewestVersionRuns`), since the proof system does not handle fairness
and `ENABLED`. Every invariant and every action property of a passing run is also a
theorem.

## 6. Not modelled

- User administration: the removal of accounts is a read and a deletion with an await
  between them (see the hazards); no module yet.
- What should happen after two changes of one setting have crossed, or a change was
  rejected that was made: the models show that the older value may stay, and nothing in the
  code or its comments says more.
- Several connections of one agent at the same time in `AgentProcess`: that is `Gateway`'s
  subject.
- The restart timer of `index.ts`: a restart at any time is an action of every module.
- What becomes of the browser when the agent is restarted: a matter of systemd's
  settings; `Kiosk` models one agent process.
- Dashboard forms, metric formatting, console display, metrics collection: no state
  that anything else depends on.
- Passwords, signed tokens, message validation and static files: library calls.
- Renaming a group, names in general, models and locations of devices: data that no
  control depends on.
- Installation, provisioning, version stamping: run once, by hand or by the build.
- Several organisations: every query is restricted to one, so one is modelled; the
  scheduler's loop over organisations only delays the next one.

## 7. Plan

Done: `Gateway`, `Kiosk` with `Screen`, `Pairing`, `Scheduler`, `Groups`, `Television`,
`SelfUpdate` and their composition `AgentProcess`, each with proofs.

Left, in order of importance:

1. An abstract device ("is what its row says once nothing is pending") implemented by
   `GatewayHistory` as long as `races` is empty.
2. Accounts: two administrators who delete each other.
