---------------------------- MODULE GroupsHistory ----------------------------
(***************************************************************************)
(* Groups with history variables about the two statements that replace a   *)
(* membership: which replacements have met another one of the same group   *)
(* between them, which bulk commands have read their targets between them, *)
(* and which devices a bulk command has still to reach.  The variables     *)
(* restrict no step.                                                       *)
(***************************************************************************)
EXTENDS Groups

VARIABLES
    overlapped,  \* requests between their statements that have met another
    torn,        \* bulk commands that read their targets between the statements
                 \* of a replacement
    owed         \* owed[r]: devices that have stayed in the group since bulk
                 \* command r was asked for and that it has not reached

historyVars == <<vars, overlapped, torn, owed>>

\* The membership that r replaces is deleted, its new one not yet inserted.
Emptied(r) == At(r, "put", "emptied")

\* Another request is between the same two statements for r's group.
Meets(r) == \E q \in Request \ {r} : Emptied(q) /\ request[q].group = request[r].group

Overlapping ==
    overlapped' = {r \in Request : Emptied(r)' /\ (r \in overlapped \/ Meets(r)')}

Control(r) == request[r] # None /\ request[r].kind = "control"

\* r reads its targets in this step, between the two statements of a replacement.
ReadsBetween(r) == At(r, "control", "asked") /\ At(r, "control", "applying")' /\ Meets(r)

Tearing == torn' = {r \in Request : Control(r)' /\ (r \in torn \/ ReadsBetween(r))}

\* The devices that stay in g: its members and those that a replacement under way
\* has taken out to put them in again.
Staying(g) ==
    members[g] \cup {d \in Device :
        \E q \in Request : Emptied(q) /\ request[q].group = g /\ d \in request[q].deviceIds}

\* What r has done in this step.
Reached(r) == request[r].todo \ request'[r].todo

Owing ==
    owed' = [r \in Request |->
        IF ~Control(r)' THEN {}
        ELSE IF ~Control(r) THEN members'[request'[r].group]
        ELSE (owed[r] \ Reached(r)) \cap Staying(request[r].group)']

HistoryInit == Init /\ overlapped = {} /\ torn = {} /\ owed = [r \in Request |-> {}]

HistorySpec ==
    HistoryInit /\ [][Next /\ Overlapping /\ Tearing /\ Owing]_historyVars

\* groups.ts 71, "Replace a group's membership with the given device ids": after the
\* insertion the group holds those devices and no others, whatever else has been
\* deleted, added or failed between the statements, unless another replacement of the
\* group was between its own at the same time (groups.ts 92-101).
ReplacesMembership ==
    [][\A r \in Request :
          Emptied(r) /\ r \notin overlapped /\ At(r, "put", "committed")'
              => members'[request[r].group] = request[r].deviceIds]_historyVars

\* groups.ts 102, "apply an action to every device in the group": a bulk command that
\* is through has reached every device that stayed in the group, also through
\* replacements that keep it, unless the command read its targets between the two
\* statements of one (groups.ts 92-93, 103-136, control.ts 84-101).
StableMembersReached ==
    \A r \in Request :
        At(r, "control", "replied") /\ r \notin torn => owed[r] = {}
=============================================================================
