--------------------------- MODULE GatewayHistory ---------------------------
(***************************************************************************)
(* How stale a device can be. Three mishaps, which the code neither        *)
(* prevents nor notices, leave a device with something else than its row   *)
(* says; this module adds to Gateway a history variable that remembers     *)
(* which of them have happened. It restricts no step.                      *)
(***************************************************************************)
EXTENDS Gateway

VARIABLE races     \* the mishaps there have been, a subset of Race

historyVars == <<vars, races>>

\* No row is written while a connection that is up holds a copy of it which is
\* still to be replayed.
NoWriteWhileConnecting ==
    \A s \in Socket :
        handler[s] \in {"looked", "marking"} /\ wire[s] = "up"
            => row'[owner[s]] = row[owner[s]]

\* Request slot r is about to push a message about device d.
AboutToPush(r, d) ==
    /\ inflight[r] # None /\ inflight[r].step = "committed"
    /\ inflight[r].device = d /\ inflight[r].message # None

\* No two requests have both changed the same setting of a device and have both
\* still to push it.
NoRivals ==
    \A r, q \in Request, d \in Device, t \in Setting :
        /\ AboutToPush(r, d) /\ inflight[r].message.t = t
        /\ AboutToPush(q, d) /\ inflight[q].message.t = t
        => r = q

\* The request in slot r fails after its UPDATE was executed, with a push to make.
PushDropped(r) == RequestFails(r) /\ \E d \in Device : AboutToPush(r, d)

\* "replay": a step breaks NoWriteWhileConnecting; "rivals": it ends in a state
\* without NoRivals; "unpushed": it drops the push of a change that was made.
Race == {"replay", "rivals", "unpushed"}

Raced ==
    races' = races \cup {x \in Race :
        \/ x = "replay" /\ ~NoWriteWhileConnecting
        \/ x = "rivals" /\ ~NoRivals'
        \/ x = "unpushed" /\ \E r \in Request : PushDropped(r)}

HistoryInit == Init /\ races = {}

HistorySpec == HistoryInit /\ [][Next /\ Raced]_historyVars

\* Unless two changes of one setting have crossed between UPDATE and push, or the
\* database has rejected a change it had made, a settled device is at most as stale
\* as its connection: each setting is the row's present value or the one that the
\* connection's lookup read, never an earlier one, however requests overlap
\* otherwise, whatever handler failed, and whatever crashed, was cut or replaced on
\* the way (gateway.ts 24-71, control.ts 14-101). (The factor matters only when
\* something is shown and the TV's state only once it has been controlled.)
StaleOnlyFromLookup ==
    races \cap {"rivals", "unpushed"} = {} => \A d \in Device : Settled(d) =>
        LET seen == snapshot[agent[d].sock]
            a == agent[d]
        IN  /\ Screen(a.content) \in {Screen(row[d].content), Screen(seen.content)}
            /\ Screen(a.content) # Blank => a.zoom \in {row[d].zoom, seen.zoom}
            /\ a.autoUpdate \in {row[d].autoUpdate, seen.autoUpdate}
            /\ seen.desiredTvPower # None
                  => a.tv \in {row[d].desiredTvPower, seen.desiredTvPower}

\* Three mishaps make a device stale: a write between lookup and replay, two changes
\* of a setting that cross between UPDATE and push, and an UPDATE that is executed
\* and rejected, so that nothing is pushed. Until there has been one of them a
\* settled device is in every setting what its row says, however requests overlap
\* otherwise, whatever handler failed, and whatever crashed, was cut, replaced or
\* turned away on the way (gateway.ts 27-71, control.ts 14-101).
DeviceFollowsRow ==
    races = {} => \A d \in Device : Settled(d) =>
        LET a == agent[d]
        IN  /\ Screen(a.content) = Screen(row[d].content)
            /\ Screen(a.content) # Blank => a.zoom = row[d].zoom
            /\ a.autoUpdate = row[d].autoUpdate
            /\ row[d].desiredTvPower # None => a.tv = row[d].desiredTvPower
=============================================================================
