---------------------------- MODULE GroupsProofs ----------------------------
(***************************************************************************)
(* For any devices, groups, dashboards and requests: a bulk command        *)
(* reaches the members that stay unless it read its targets between the    *)
(* statements of a replacement, a dashboard is out of date only if a       *)
(* change was not announced or its answers came in the wrong order, and a  *)
(* replaced membership is what was asked for unless replacements overlap.  *)
(***************************************************************************)
EXTENDS GroupsHistory, SequenceTheorems, TLAPS

\* A bulk command owes nothing that it is not going to reach.
OwedIsReached ==
    \A r \in Request :
        /\ At(r, "control", "asked") => owed[r] \subseteq Staying(request[r].group)
        /\ r \notin torn =>
              /\ At(r, "control", "applying") => owed[r] \subseteq request[r].todo
              /\ At(r, "control", "replied") => owed[r] = {}

\* r has changed something, or is about to, and has not announced it.
Unspoken(r) == request[r] # None /\ request[r].step \in {"emptied", "committed"}

\* What a reload has read so far is what there is.
UpToDate(load) ==
    /\ load.devices \in {None, devices}
    /\ load.groups \in {None, Live}
    /\ load.members \in {None, members}

\* What t displays, or will once its reloads are through, is current, or it is older
\* than what it displayed before, or something will make it reload.
Current(t) ==
    \/ unannounced[t]
    \/ events[t] > 0
    \/ \E r \in Request : Unspoken(r)
    \/ LET n == Len(loads[t])
       IN  IF n > 0 /\ ~loads[t][n].old THEN UpToDate(loads[t][n])
           ELSE overtaken[t] \/ shown[t] = Present

\* The reloads that are old are the first ones.
OldFirst(t) ==
    \A i, j \in 1..Len(loads[t]) : i < j /\ loads[t][j].old => loads[t][i].old

WillBeCurrent == \A t \in Tab : Current(t) /\ OldFirst(t)

(***************************************************************************)
(* The operators.                                                          *)
(***************************************************************************)
\* A request of any kind goes on to its next step.
LEMMA NextStepType ==
    ASSUME NEW q \in RequestType
    PROVE  /\ q.kind \in {"create", "deleteGroup", "deleteDevice"} =>
                 \A step \in {"committed", "replied"} : [q EXCEPT !.step = step] \in RequestType
           /\ q.kind = "put" =>
                 /\ \A step \in {"emptied", "committed", "replied"} :
                       [q EXCEPT !.step = step] \in RequestType
                 /\ \A ids \in SUBSET Device :
                       [q EXCEPT !.step = "selected", !.deviceIds = ids] \in RequestType
           /\ q.kind = "control" =>
                 /\ [q EXCEPT !.step = "replied"] \in RequestType
                 /\ \A todo \in SUBSET Device :
                       /\ \A step \in {"applying", "replied"} :
                             [q EXCEPT !.step = step, !.todo = todo] \in RequestType
                       /\ [q EXCEPT !.todo = todo] \in RequestType
<1>1. CASE q \in [kind : {"create", "deleteGroup"}, step : {"asked", "committed", "replied"},
                  group : Group, tab : Tab \cup {None}]
  BY <1>1 DEF RequestType
<1>2. CASE q \in [kind : {"deleteDevice"}, step : {"asked", "committed", "replied"},
                  device : Device, tab : Tab \cup {None}]
  BY <1>2 DEF RequestType
<1>3. CASE q \in [kind : {"put"}, step : {"asked", "selected", "emptied", "committed", "replied"},
                  group : Group, deviceIds : SUBSET Device, tab : Tab \cup {None}]
  BY <1>3 DEF RequestType
<1>4. CASE q \in [kind : {"control"}, step : {"asked", "applying", "replied"}, group : Group,
                  refresh : BOOLEAN, todo : SUBSET Device, tab : Tab \cup {None}]
  BY <1>4 DEF RequestType
<1>5. QED
  BY <1>1, <1>2, <1>3, <1>4 DEF RequestType

\* What a request carries.
LEMMA RequestFields ==
    ASSUME NEW q \in RequestType
    PROVE  /\ q.kind \in {"create", "deleteGroup", "deleteDevice", "put", "control"}
           /\ q.tab \in Tab \cup {None}
           /\ IF q.kind = "deleteDevice" THEN q.device \in Device ELSE q.group \in Group
           /\ q.step = "committed" => q.kind # "control"
           /\ q.step \in {"selected", "emptied"} => q.kind = "put"
           /\ q.step = "applying" => q.kind = "control"
           /\ q.kind = "put" => q.deviceIds \subseteq Device
           /\ q.kind = "control" => q.todo \subseteq Device /\ q.refresh \in BOOLEAN
BY DEF RequestType

\* Removing a reload leaves the others in their order.
LEMMA RemoveAtEffect ==
    ASSUME NEW S, NEW seq \in Seq(S), NEW i \in 1..Len(seq)
    PROVE  /\ RemoveAt(seq, i) \in Seq(S)
           /\ Len(RemoveAt(seq, i)) = Len(seq) - 1
           /\ \A j \in 1..(Len(seq) - 1) :
                 RemoveAt(seq, i)[j] = IF j < i THEN seq[j] ELSE seq[j + 1]
<1> DEFINE before == SubSeq(seq, 1, i - 1)
<1> DEFINE after == SubSeq(seq, i + 1, Len(seq))
<1>1. Len(seq) \in Nat /\ i \in Nat /\ 1 <= i /\ i <= Len(seq)
  OBVIOUS
<1>2. /\ before \in Seq(S) /\ Len(before) = i - 1
      /\ \A j \in 1..(i - 1) : before[j] = seq[j]
  <2>1. \A j \in 1..(i - 1) : seq[j] \in S
    BY <1>1
  <2>2. QED
    BY <1>1, <2>1, SubSeqProperties
<1>3. /\ after \in Seq(S) /\ Len(after) = Len(seq) - i
      /\ \A j \in 1..(Len(seq) - i) : after[j] = seq[i + j]
  <2>1. \A j \in (i + 1)..Len(seq) : seq[j] \in S
    BY <1>1
  <2>2. QED
    BY <1>1, <2>1, SubSeqProperties
<1>4. RemoveAt(seq, i) = before \o after
  BY DEF RemoveAt
<1> HIDE DEF before, after
<1>5. /\ before \o after \in Seq(S)
      /\ Len(before \o after) = Len(before) + Len(after)
      /\ \A j \in 1..(Len(before) + Len(after)) :
            (before \o after)[j] = IF j <= Len(before) THEN before[j] ELSE after[j - Len(before)]
  BY <1>2, <1>3, ConcatProperties
<1>6. \A j \in 1..(Len(seq) - 1) :
         RemoveAt(seq, i)[j] = IF j < i THEN seq[j] ELSE seq[j + 1]
  <2> SUFFICES ASSUME NEW j \in 1..(Len(seq) - 1)
               PROVE  (before \o after)[j] = IF j < i THEN seq[j] ELSE seq[j + 1]
    BY <1>4
  <2>1. CASE j < i
    BY <1>1, <1>2, <1>3, <1>5, <2>1
  <2>2. CASE ~(j < i)
    <3>1. /\ j \in 1..(Len(before) + Len(after)) /\ ~(j <= Len(before))
          /\ j - Len(before) = j - i + 1 /\ j - i + 1 \in 1..(Len(seq) - i)
          /\ i + (j - i + 1) = j + 1
      BY <1>1, <1>2, <1>3, <2>2
    <3>2. QED
      BY <1>3, <1>5, <2>2, <3>1
  <2>3. QED
    BY <2>1, <2>2
<1>7. QED
  BY <1>1, <1>2, <1>3, <1>4, <1>5, <1>6

(***************************************************************************)
(* Types.                                                                  *)
(***************************************************************************)
\* The rows, the requests and the dashboards, each by themselves.
RowTypes ==
    /\ devices \in SUBSET Device
    /\ groups \in [Group -> {"new", "live", "deleted"}]
    /\ members \in [Group -> SUBSET devices]
    /\ \A g \in Group : groups[g] # "live" => members[g] = {}

RequestTypes ==
    /\ request \in [Request -> RequestType \cup {None}]
    /\ requests \in 0..MaxRequests

TabTypes ==
    /\ subscribed \in [Tab -> BOOLEAN]
    /\ events \in [Tab -> Nat]
    /\ loads \in [Tab -> Seq(Load)]
    /\ shown \in [Tab -> {None} \cup Shown]
    /\ unannounced \in [Tab -> BOOLEAN]
    /\ overtaken \in [Tab -> BOOLEAN]

LEMMA TypeParts == TypeOK <=> RowTypes /\ RequestTypes /\ TabTypes /\ faults \in 0..MaxFaults
BY DEF TypeOK, RowTypes, RequestTypes, TabTypes

LEMMA TypePartsAfter ==
    TypeOK' <=> RowTypes' /\ RequestTypes' /\ TabTypes' /\ faults' \in 0..MaxFaults
BY DEF TypeOK, RowTypes, RequestTypes, TabTypes

\* What is displayed is a listing.
LEMMA DisplayType ==
    ASSUME NEW load \in Load, load.devices # None, load.groups # None, load.members # None
    PROVE  Display(load) \in Shown
<1> DEFINE listing == [g \in load.groups |-> load.members[g]]
<1>1. /\ load.devices \in SUBSET Device /\ load.groups \in SUBSET Group
      /\ load.members \in [Group -> SUBSET Device]
  BY DEF Load
<1>2. listing \in [load.groups -> SUBSET Device]
  BY <1>1
<1>3. listing \in Listing
  BY <1>1, <1>2 DEF Listing
<1> HIDE DEF listing
<1>4. [devices |-> load.devices, groups |-> listing] \in Shown
  BY <1>1, <1>3 DEF Shown
<1>5. QED
  BY <1>4 DEF Display, listing

\* What a reload reads.
LEMMA ServedType ==
    ASSUME TypeOK, NEW load \in Load
    PROVE  /\ [load EXCEPT !.devices = devices] \in Load
           /\ [load EXCEPT !.groups = Live] \in Load
           /\ [load EXCEPT !.members = members] \in Load
           /\ \A old \in BOOLEAN : [load EXCEPT !.old = old] \in Load
<1>1. /\ devices \in SUBSET Device /\ Live \in SUBSET Group
      /\ members \in [Group -> SUBSET Device]
  BY DEF TypeOK, Live
<1>2. QED
  BY <1>1 DEF Load

LEMMA NewLoadType == NewLoad \in Load
BY DEF NewLoad, Load

\* Faults are counted up to their bound.
LEMMA FaultType ==
    ASSUME TypeOK, Fault
    PROVE  faults' \in 0..MaxFaults
BY GroupsAssumption DEF Fault, TypeOK

\* An announcement reaches a dashboard or is noted as missed.
LEMMA PublishEffect ==
    ASSUME TypeOK, NEW n \in Nat \ {0}, Publish(n)
    PROVE  /\ TabTypes'
           /\ \A t \in Tab : unannounced'[t] \/ events'[t] > 0
<1>1. \A t \in Tab : subscribed[t] \in BOOLEAN /\ events[t] \in Nat /\ unannounced[t] \in BOOLEAN
  BY DEF TypeOK
<1>2. ASSUME NEW t \in Tab
      PROVE  events'[t] \in Nat /\ (unannounced'[t] \/ events'[t] > 0)
  <2>1. CASE subscribed[t]
    BY <1>1, <2>1 DEF Publish
  <2>2. CASE ~subscribed[t]
    <3>1. unannounced'[t]
      BY <2>2, Zenon DEF Publish
    <3>2. events'[t] = events[t]
      BY <2>2 DEF Publish
    <3>3. QED
      BY <1>1, <3>1, <3>2
  <2>3. QED
    BY <2>1, <2>2
<1>3. unannounced' \in [Tab -> BOOLEAN]
  BY <1>1, Zenon DEF Publish
<1>4. events' \in [Tab -> Nat]
  BY <1>2 DEF Publish
<1>5. QED
  BY <1>2, <1>3, <1>4 DEF Publish, TypeOK, TabTypes

\* A reload is the last one, and not yet served.
LEMMA ReloadEffect ==
    ASSUME TypeOK, NEW t \in Tab, Reload(t)
    PROVE  /\ loads' \in [Tab -> Seq(Load)]
           /\ unannounced' \in [Tab -> BOOLEAN]
           /\ Len(loads'[t]) = Len(loads[t]) + 1 /\ loads'[t][Len(loads'[t])] = NewLoad
           /\ \A i \in 1..Len(loads[t]) : loads'[t][i] = loads[t][i]
           /\ \A o \in Tab \ {t} : loads'[o] = loads[o] /\ unannounced'[o] = unannounced[o]
<1>1. loads[t] \in Seq(Load) /\ Len(loads[t]) \in Nat
  BY DEF TypeOK
<1>2. /\ Append(loads[t], NewLoad) \in Seq(Load)
      /\ Len(Append(loads[t], NewLoad)) = Len(loads[t]) + 1
      /\ Append(loads[t], NewLoad)[Len(loads[t]) + 1] = NewLoad
      /\ \A i \in 1..Len(loads[t]) : Append(loads[t], NewLoad)[i] = loads[t][i]
  BY <1>1, NewLoadType, AppendProperties
<1>3. loads'[t] = Append(loads[t], NewLoad)
  BY DEF Reload, TypeOK
<1>4. QED
  BY <1>2, <1>3 DEF Reload, TypeOK

\* Asking for something keeps the types.
LEMMA SubmitTypes ==
    ASSUME TypeOK, NEW r \in Request, NEW t \in Tab \cup {None},
           \/ \E g \in Group : \/ SubmitPut(r, t, g) \/ SubmitControl(r, t, g)
                               \/ SubmitDeleteGroup(r, t, g) \/ SubmitCreate(r, t, g)
           \/ \E d \in Device : SubmitDeleteDevice(r, t, d)
    PROVE  TypeOK' /\ request[r] = None
<1> USE DEF Submit
<1>1. ASSUME NEW body \in RequestType, Submit(r, body)
      PROVE  TypeOK' /\ request[r] = None
  <2>1. requests' \in 0..MaxRequests
    BY <1>1, GroupsAssumption DEF TypeOK
  <2>2. request' \in [Request -> RequestType \cup {None}]
    BY <1>1 DEF TypeOK
  <2>3. QED
    BY <1>1, <2>1, <2>2 DEF TypeOK, dbVars, tabVars
<1>2. ASSUME NEW g \in Group, SubmitPut(r, t, g)
      PROVE  TypeOK' /\ request[r] = None
  <2>1. PICK chosen \in Selections(t, g) :
           Submit(r, [kind |-> "put", step |-> "asked", group |-> g, tab |-> t,
                      deviceIds |-> chosen])
    BY <1>2 DEF SubmitPut
  <2>2. chosen \in SUBSET Device
    <3>1. CASE t = None
      BY <3>1, <2>1 DEF Selections
    <3>2. CASE t # None
      <4>1. shown[t] \in Shown /\ g \in DOMAIN shown[t].groups
        BY <3>2, <1>2 DEF SubmitPut, Lists, TypeOK
      <4>2. shown[t].devices \in SUBSET Device /\ shown[t].groups \in Listing
        BY <4>1 DEF Shown
      <4>3. PICK rows \in SUBSET Group : shown[t].groups \in [rows -> SUBSET Device]
        BY <4>2 DEF Listing
      <4>4. shown[t].groups[g] \in SUBSET Device
        BY <4>1, <4>3
      <4>5. PICK d \in shown[t].devices :
               chosen = shown[t].groups[g] \cup {d} \/ chosen = shown[t].groups[g] \ {d}
        BY <2>1, <3>2 DEF Selections
      <4>6. QED
        BY <4>2, <4>4, <4>5
    <3>3. QED
      BY <3>1, <3>2
  <2>3. [kind |-> "put", step |-> "asked", group |-> g, tab |-> t, deviceIds |-> chosen]
           \in RequestType
    BY <2>2 DEF RequestType
  <2>4. QED
    BY <2>1, <2>3, <1>1
<1>3. ASSUME NEW g \in Group, SubmitControl(r, t, g)
      PROVE  TypeOK' /\ request[r] = None
  <2>1. \A refresh \in BOOLEAN :
           [kind |-> "control", step |-> "asked", group |-> g, tab |-> t, refresh |-> refresh,
            todo |-> {}] \in RequestType
    BY DEF RequestType
  <2>2. QED
    BY <1>3, <2>1, <1>1 DEF SubmitControl
<1>4. ASSUME NEW g \in Group, SubmitDeleteGroup(r, t, g)
      PROVE  TypeOK' /\ request[r] = None
  <2>1. [kind |-> "deleteGroup", step |-> "asked", group |-> g, tab |-> t] \in RequestType
    BY DEF RequestType
  <2>2. QED
    BY <1>4, <2>1, <1>1 DEF SubmitDeleteGroup
<1>5. ASSUME NEW g \in Group, SubmitCreate(r, t, g)
      PROVE  TypeOK' /\ request[r] = None
  <2>1. [kind |-> "create", step |-> "asked", group |-> g, tab |-> t] \in RequestType
    BY DEF RequestType
  <2>2. QED
    BY <1>5, <2>1, <1>1 DEF SubmitCreate
<1>6. ASSUME NEW d \in Device, SubmitDeleteDevice(r, t, d)
      PROVE  TypeOK' /\ request[r] = None
  <2>1. [kind |-> "deleteDevice", step |-> "asked", device |-> d, tab |-> t] \in RequestType
    BY DEF RequestType
  <2>2. QED
    BY <1>6, <2>1, <1>1 DEF SubmitDeleteDevice
<1>7. QED
  BY <1>2, <1>3, <1>4, <1>5, <1>6

\* The statements that change rows keep the types.
LEMMA RowStatementTypes ==
    ASSUME TypeOK, NEW r \in Request,
           Create(r) \/ DeleteGroup(r) \/ DeleteDevice(r) \/ PutDelete(r) \/ PutInsert(r)
    PROVE  TypeOK' /\ UNCHANGED tabVars /\ request'[r] # None
           /\ request'[r].step \in {"emptied", "committed"} /\ request'[r].kind # "control"
<1> USE DEF At
<1>1. request[r] \in RequestType
  BY RequestAssumption DEF TypeOK, Create, DeleteGroup, DeleteDevice, PutDelete, PutInsert
<1>2. TabTypes /\ UNCHANGED tabVars => TabTypes'
  BY DEF TabTypes, tabVars
<1>3. faults \in 0..MaxFaults /\ TabTypes /\ RowTypes /\ RequestTypes
  BY TypeParts
<1>4. UNCHANGED requests /\ request[r].kind \in {"create", "deleteGroup", "deleteDevice", "put"}
  BY DEF Create, DeleteGroup, DeleteDevice, PutDelete, PutInsert
<1>5. ASSUME NEW step \in {"emptied", "committed"},
             request' = [request EXCEPT ![r].step = step],
             step = "emptied" => request[r].kind = "put"
      PROVE  RequestTypes' /\ request'[r] # None
             /\ request'[r].step = step /\ request'[r].kind # "control"
  <2>1. [request[r] EXCEPT !.step = step] \in RequestType
    BY <1>1, <1>4, <1>5, NextStepType
  <2>2. request'[r] = [request[r] EXCEPT !.step = step]
    BY <1>5 DEF TypeOK
  <2>3. request'[r].step = step /\ request'[r].kind = request[r].kind
    <3>1. DOMAIN request[r] = DOMAIN request'[r] /\ "step" \in DOMAIN request[r]
      BY <1>1, <2>2 DEF RequestType
    <3>2. QED
      BY <2>2, <3>1
  <2>4. QED
    BY <1>4, <1>5, <2>1, <2>2, <2>3, <1>3, RequestAssumption DEF RequestTypes
<1>6. request[r].kind # "deleteDevice" => request[r].group \in Group
  BY <1>1, RequestFields
<1>7. CASE Create(r)
  <2>1. RowTypes'
    BY <1>3, <1>6, <1>7 DEF Create, RowTypes
  <2>2. QED
    BY <1>2, <1>3, <1>5, <1>7, <2>1, TypePartsAfter DEF Create
<1>8. CASE DeleteGroup(r)
  <2>1. RowTypes'
    BY <1>3, <1>6, <1>8 DEF DeleteGroup, RowTypes
  <2>2. QED
    BY <1>2, <1>3, <1>5, <1>8, <2>1, TypePartsAfter DEF DeleteGroup
<1>9. CASE DeleteDevice(r)
  <2>1. RowTypes'
    BY <1>3, <1>6, <1>9 DEF DeleteDevice, RowTypes
  <2>2. QED
    BY <1>2, <1>3, <1>5, <1>9, <2>1, TypePartsAfter DEF DeleteDevice
<1>10. CASE PutDelete(r)
  <2>1. RowTypes'
    BY <1>3, <1>6, <1>10 DEF PutDelete, RowTypes
  <2>2. QED
    BY <1>2, <1>3, <1>5, <1>10, <2>1, TypePartsAfter DEF PutDelete
<1>11. CASE PutInsert(r)
  <2>1. RowTypes'
    BY <1>3, <1>6, <1>11 DEF PutInsert, InsertRejected, RowTypes, Live
  <2>2. QED
    BY <1>2, <1>3, <1>5, <1>11, <2>1, TypePartsAfter DEF PutInsert
<1>12. QED
  BY <1>7, <1>8, <1>9, <1>10, <1>11

\* The other steps of the handlers keep the types.
LEMMA HandlerTypes ==
    ASSUME TypeOK, NEW r \in Request,
           \/ NotFound(r) \/ PutSelect(r) \/ PutFails(r) \/ ControlTargets(r)
           \/ ControlApply(r) \/ ControlReply(r) \/ ControlRefresh(r) \/ Conclude(r)
           \/ HandlerFails(r) \/ Answered(r)
    PROVE  TypeOK' /\ UNCHANGED dbVars
<1> USE DEF At
<1>1. request[r] \in RequestType /\ request[r] # None
  BY DEF TypeOK, NotFound, PutSelect, PutFails, ControlTargets, ControlApply, ControlReply,
         ControlRefresh, Conclude, HandlerFails, Answered
<1>2. TabTypes /\ UNCHANGED tabVars => TabTypes'
  BY DEF TabTypes, tabVars
<1>3. RowTypes /\ UNCHANGED dbVars => RowTypes'
  BY DEF RowTypes, dbVars
<1>4. faults \in 0..MaxFaults /\ TabTypes /\ RowTypes /\ RequestTypes
  BY TypeParts
<1>5. ASSUME NEW q \in RequestType \cup {None}, request' = [request EXCEPT ![r] = q],
             UNCHANGED requests
      PROVE  RequestTypes'
  BY <1>4, <1>5 DEF RequestTypes
<1>6. CASE NotFound(r)
  BY <1>2, <1>3, <1>4, <1>5, <1>6, TypePartsAfter DEF NotFound
<1>7. CASE PutSelect(r)
  <2>1. request[r].deviceIds \cap devices \in SUBSET Device
    BY <1>4 DEF RowTypes
  <2> DEFINE ids == request[r].deviceIds \cap devices
  <2>2. [request[r] EXCEPT !.step = "selected", !.deviceIds = ids] \in RequestType
    <3> HIDE DEF ids
    <3>1. QED
      BY <1>1, <1>7, <2>1, NextStepType DEF PutSelect, ids
  <2>3. request' = [request EXCEPT ![r] = [@ EXCEPT !.step = "selected", !.deviceIds = ids]]
    BY <1>4, <1>7 DEF PutSelect, RequestTypes
  <2>4. QED
    BY <1>2, <1>3, <1>4, <1>5, <1>7, <2>2, <2>3, TypePartsAfter DEF PutSelect
<1>8. CASE PutFails(r)
  <2>1. TabTypes'
    BY <1>4, <1>8 DEF PutFails, TabTypes
  <2>2. QED
    BY <2>1, <1>3, <1>4, <1>5, <1>8, TypePartsAfter DEF PutFails
<1>9. CASE ControlTargets(r)
  <2> DEFINE todo == Targets(request[r].group)
  <2>1. todo \in SUBSET Device
    BY <1>4 DEF RowTypes, Targets
  <2>2. [request[r] EXCEPT !.step = "applying", !.todo = todo] \in RequestType
    <3> HIDE DEF todo
    <3>1. QED
      BY <1>1, <1>9, <2>1, NextStepType DEF ControlTargets
  <2>3. request' = [request EXCEPT ![r] = [@ EXCEPT !.step = "applying", !.todo = todo]]
    BY <1>4, <1>9 DEF ControlTargets, RequestTypes
  <2>4. QED
    BY <1>2, <1>3, <1>4, <1>5, <1>9, <2>2, <2>3, TypePartsAfter DEF ControlTargets
<1>10. CASE ControlApply(r)
  <2>1. PICK d \in request[r].todo : request' = [request EXCEPT ![r].todo = @ \ {d}]
    BY <1>10 DEF ControlApply
  <2> DEFINE todo == request[r].todo \ {d}
  <2>2. todo \in SUBSET Device
    BY <1>1, <1>10, RequestFields DEF ControlApply
  <2>3. [request[r] EXCEPT !.todo = todo] \in RequestType
    <3> HIDE DEF todo
    <3>1. QED
      BY <1>1, <1>10, <2>2, NextStepType DEF ControlApply
  <2>4. request' = [request EXCEPT ![r] = [@ EXCEPT !.todo = todo]]
    BY <1>4, <2>1 DEF RequestTypes
  <2>5. TabTypes'
    BY <1>10, PublishEffect DEF ControlApply
  <2>6. QED
    BY <1>3, <1>4, <1>5, <1>10, <2>3, <2>4, <2>5, TypePartsAfter DEF ControlApply
<1>11. CASE ControlReply(r)
  <2>1. [request[r] EXCEPT !.step = "replied"] \in RequestType
    BY <1>1, <1>11, NextStepType DEF ControlReply
  <2>2. request' = [request EXCEPT ![r] = [@ EXCEPT !.step = "replied"]]
    BY <1>4, <1>11 DEF ControlReply, RequestTypes
  <2>3. QED
    BY <1>2, <1>3, <1>4, <1>5, <1>11, <2>1, <2>2, TypePartsAfter DEF ControlReply
<1>12. CASE Conclude(r)
  <2>1. [request[r] EXCEPT !.step = "replied"] \in RequestType
    BY <1>1, <1>12, NextStepType, RequestFields DEF Conclude
  <2>2. request' = [request EXCEPT ![r] = [@ EXCEPT !.step = "replied"]]
    BY <1>4, <1>12 DEF Conclude, RequestTypes
  <2>3. TabTypes'
    BY <1>12, PublishEffect DEF Conclude
  <2>4. QED
    BY <1>3, <1>4, <1>5, <1>12, <2>1, <2>2, <2>3, TypePartsAfter DEF Conclude
<1>13. CASE HandlerFails(r)
  <2>1. TabTypes'
    BY <1>4, <1>13 DEF HandlerFails, TabTypes
  <2>2. QED
    BY <2>1, <1>3, <1>4, <1>5, <1>13, FaultType, TypePartsAfter DEF HandlerFails
<1>14. CASE Answered(r)
  <2>1. TabTypes'
    <3>1. CASE request[r].tab = None
      BY <3>1, <1>4, <1>14 DEF Answered, TabTypes
    <3>2. CASE request[r].tab # None
      <4>1. request[r].tab \in Tab /\ Reload(request[r].tab)
        BY <3>2, <1>1, <1>14, RequestFields DEF Answered
      <4>2. QED
        BY <4>1, <1>4, <1>14, ReloadEffect DEF Answered, TabTypes
    <3>3. QED
      BY <3>1, <3>2
  <2>2. QED
    BY <2>1, <1>3, <1>4, <1>5, <1>14, TypePartsAfter DEF Answered
<1>15. CASE ControlRefresh(r)
  <2>1. [request[r] EXCEPT !.step = "replied", !.todo = {}] \in RequestType
    BY <1>1, <1>15, NextStepType DEF ControlRefresh
  <2>2. request' = [request EXCEPT ![r] = [@ EXCEPT !.step = "replied", !.todo = {}]]
    BY <1>4, <1>15 DEF ControlRefresh, RequestTypes
  <2>3. QED
    BY <1>2, <1>3, <1>4, <1>5, <1>15, <2>1, <2>2, TypePartsAfter DEF ControlRefresh
<1>16. QED
  BY <1>6, <1>7, <1>8, <1>9, <1>10, <1>11, <1>12, <1>13, <1>14, <1>15

\* The three statements of a reload, in whatever order they are executed.
Served(t, i) == ServeDevices(t, i) \/ ServeGroups(t, i) \/ ServeMembers(t, i)

\* A statement of a reload reads what there is, and leaves the other reloads alone.
LEMMA ServedEffect ==
    ASSUME TypeOK, NEW t \in Tab, NEW i \in 1..Len(loads[t]), Served(t, i)
    PROVE  /\ loads' \in [Tab -> Seq(Load)]
           /\ Len(loads'[t]) = Len(loads[t])
           /\ \A j \in 1..Len(loads[t]) : j # i => loads'[t][j] = loads[t][j]
           /\ loads'[t][i].old = loads[t][i].old
           /\ UpToDate(loads[t][i]) => UpToDate(loads'[t][i])
           /\ \A o \in Tab \ {t} : loads'[o] = loads[o]
           /\ UNCHANGED <<requests, dbVars, request, subscribed, events, shown, unannounced,
                          overtaken, faults>>
<1>1. loads \in [Tab -> Seq(Load)] /\ loads[t] \in Seq(Load) /\ loads[t][i] \in Load
  BY DEF TypeOK
<1>2. PICK load \in Load :
         /\ loads' = [loads EXCEPT ![t] = [loads[t] EXCEPT ![i] = load]]
         /\ load.old = loads[t][i].old
         /\ UpToDate(loads[t][i]) => UpToDate(load)
  <2>1. CASE ServeDevices(t, i)
    <3> DEFINE load == [loads[t][i] EXCEPT !.devices = devices]
    <3>1. load.old = loads[t][i].old /\ (UpToDate(loads[t][i]) => UpToDate(load))
      BY <1>1 DEF Load, UpToDate
    <3>2. load \in Load
      BY <1>1, ServedType
    <3>3. loads' = [loads EXCEPT ![t] = [loads[t] EXCEPT ![i] = load]]
      BY <2>1, <1>1 DEF ServeDevices
    <3>4. QED
      BY <3>1, <3>2, <3>3
  <2>2. CASE ServeGroups(t, i)
    <3> DEFINE load == [loads[t][i] EXCEPT !.groups = Live]
    <3>1. load.old = loads[t][i].old /\ (UpToDate(loads[t][i]) => UpToDate(load))
      BY <1>1 DEF Load, UpToDate
    <3>2. load \in Load
      BY <1>1, ServedType
    <3>3. loads' = [loads EXCEPT ![t] = [loads[t] EXCEPT ![i] = load]]
      BY <2>2, <1>1 DEF ServeGroups
    <3>4. QED
      BY <3>1, <3>2, <3>3
  <2>3. CASE ServeMembers(t, i)
    <3> DEFINE load == [loads[t][i] EXCEPT !.members = members]
    <3>1. load.old = loads[t][i].old /\ (UpToDate(loads[t][i]) => UpToDate(load))
      BY <1>1 DEF Load, UpToDate
    <3>2. load \in Load
      BY <1>1, ServedType
    <3>3. loads' = [loads EXCEPT ![t] = [loads[t] EXCEPT ![i] = load]]
      BY <2>3, <1>1 DEF ServeMembers
    <3>4. QED
      BY <3>1, <3>2, <3>3
  <2>4. QED
    BY <2>1, <2>2, <2>3 DEF Served
<1>3. /\ [loads[t] EXCEPT ![i] = load] \in Seq(Load)
      /\ Len([loads[t] EXCEPT ![i] = load]) = Len(loads[t])
      /\ \A j \in 1..Len(loads[t]) :
            [loads[t] EXCEPT ![i] = load][j] = IF j = i THEN load ELSE loads[t][j]
  BY <1>1, ExceptSeq
<1>4. /\ loads'[t] = [loads[t] EXCEPT ![i] = load]
      /\ \A o \in Tab \ {t} : loads'[o] = loads[o]
      /\ loads' \in [Tab -> Seq(Load)]
  BY <1>1, <1>2, <1>3
<1>5. UNCHANGED <<requests, dbVars, request, subscribed, events, shown, unannounced,
                  overtaken, faults>>
  BY DEF Served, ServeDevices, ServeGroups, ServeMembers
<1>6. QED
  BY <1>2, <1>3, <1>4, <1>5

\* When a reload is displayed, those before it become old.
LEMMA DisplayedEffect ==
    ASSUME TypeOK, NEW t \in Tab, NEW i \in 1..Len(loads[t])
    PROVE  /\ Displayed(t, i) \in Seq(Load)
           /\ Len(Displayed(t, i)) = Len(loads[t])
           /\ \A j \in 1..Len(loads[t]) :
                 /\ Displayed(t, i)[j].old <=> loads[t][j].old \/ j < i
                 /\ UpToDate(Displayed(t, i)[j]) <=> UpToDate(loads[t][j])
<1>1. loads[t] \in Seq(Load) /\ Len(loads[t]) \in Nat
  BY DEF TypeOK
<1>2. ASSUME NEW j \in 1..Len(loads[t])
      PROVE  /\ Displayed(t, i)[j] \in Load
             /\ Displayed(t, i)[j].old <=> loads[t][j].old \/ j < i
             /\ UpToDate(Displayed(t, i)[j]) <=> UpToDate(loads[t][j])
  <2> DEFINE old == loads[t][j].old \/ j < i
  <2>1. loads[t][j] \in Load
    BY <1>1
  <2>2. loads[t][j].old \in BOOLEAN /\ (j < i) \in BOOLEAN
    BY <2>1 DEF Load
  <2>3. old \in BOOLEAN
    BY <2>2
  <2>4. Displayed(t, i)[j] = [loads[t][j] EXCEPT !.old = old]
    BY DEF Displayed
  <2> HIDE DEF old
  <2>5. [loads[t][j] EXCEPT !.old = old] \in Load
    BY <2>1, <2>3, ServedType
  <2>6. /\ [loads[t][j] EXCEPT !.old = old].old = old
        /\ UpToDate([loads[t][j] EXCEPT !.old = old]) <=> UpToDate(loads[t][j])
    BY <2>1 DEF Load, UpToDate
  <2>7. QED
    BY <2>4, <2>5, <2>6 DEF old
<1>3. Displayed(t, i) \in [1..Len(loads[t]) -> Load]
  <2>1. DOMAIN Displayed(t, i) = 1..Len(loads[t])
    BY DEF Displayed
  <2>2. Displayed(t, i) = [j \in 1..Len(loads[t]) |-> Displayed(t, i)[j]]
    BY DEF Displayed
  <2>3. QED
    BY <1>2, <2>1, <2>2
<1>4. Displayed(t, i) \in Seq(Load) /\ Len(Displayed(t, i)) = Len(loads[t])
  BY <1>1, <1>3, SeqDef, LenProperties
<1>5. QED
  BY <1>2, <1>4

\* The dashboards keep the types.
LEMMA TabStepTypes ==
    ASSUME TypeOK, NEW t \in Tab,
           \/ EventReceived(t) \/ Subscribe(t) \/ StreamBreaks(t)
           \/ \E i \in 1..Len(loads[t]) : Served(t, i) \/ LoadDone(t, i) \/ LoadFails(t, i)
    PROVE  TypeOK' /\ UNCHANGED dbVars /\ UNCHANGED request
<1>1. RowTypes /\ UNCHANGED dbVars => RowTypes'
  BY DEF RowTypes, dbVars
<1>2. RequestTypes /\ UNCHANGED <<request, requests>> => RequestTypes'
  BY DEF RequestTypes
<1>3. faults \in 0..MaxFaults /\ TabTypes /\ RowTypes /\ RequestTypes
  BY TypeParts
<1>4. loads[t] \in Seq(Load)
  BY <1>3 DEF TabTypes
<1>5. CASE EventReceived(t)
  <2>1. events' \in [Tab -> Nat]
    BY <1>3, <1>5 DEF EventReceived, TabTypes
  <2>2. TabTypes'
    BY <2>1, <1>3, <1>5, ReloadEffect DEF EventReceived, TabTypes
  <2>3. QED
    BY <2>2, <1>1, <1>2, <1>3, <1>5, TypePartsAfter DEF EventReceived, dbVars
<1>6. CASE Subscribe(t)
  <2>1. TabTypes'
    BY <1>3, <1>6 DEF Subscribe, TabTypes
  <2>2. QED
    BY <2>1, <1>1, <1>2, <1>3, <1>6, TypePartsAfter DEF Subscribe, dbVars
<1>7. CASE StreamBreaks(t)
  <2>1. unannounced' \in [Tab -> BOOLEAN]
    BY <1>3, <1>7, Zenon DEF StreamBreaks, TabTypes
  <2>2. TabTypes'
    BY <2>1, <1>3, <1>7 DEF StreamBreaks, TabTypes
  <2>3. QED
    BY <2>2, <1>1, <1>2, <1>3, <1>7, FaultType, TypePartsAfter DEF StreamBreaks, dbVars
<1>8. ASSUME NEW i \in 1..Len(loads[t]), Served(t, i)
      PROVE  TypeOK' /\ UNCHANGED dbVars /\ UNCHANGED request
  <2>1. TabTypes' /\ UNCHANGED <<request, requests, dbVars, faults>>
    BY <1>3, <1>8, ServedEffect DEF TabTypes
  <2>2. QED
    BY <2>1, <1>1, <1>2, <1>3, TypePartsAfter
<1>9. ASSUME NEW i \in 1..Len(loads[t]), LoadDone(t, i)
      PROVE  TypeOK' /\ UNCHANGED dbVars /\ UNCHANGED request
  <2>1. RemoveAt(Displayed(t, i), i) \in Seq(Load)
    BY DisplayedEffect, RemoveAtEffect
  <2>2. loads[t][i] \in Load /\ loads[t][i].old \in BOOLEAN
    <3>1. loads[t][i] \in Load
      BY <1>4
    <3>2. QED
      BY <3>1 DEF Load
  <2>3. Display(loads[t][i]) \in Shown
    BY <1>9, <2>2, DisplayType DEF LoadDone
  <2>4. TabTypes'
    BY <2>1, <2>2, <2>3, <1>3, <1>9 DEF LoadDone, TabTypes
  <2>5. QED
    BY <2>4, <1>1, <1>2, <1>3, <1>9, TypePartsAfter DEF LoadDone, dbVars
<1>10. ASSUME NEW i \in 1..Len(loads[t]), LoadFails(t, i)
       PROVE  TypeOK' /\ UNCHANGED dbVars /\ UNCHANGED request
  <2>1. RemoveAt(loads[t], i) \in Seq(Load)
    BY <1>4, RemoveAtEffect
  <2>2. unannounced' \in [Tab -> BOOLEAN]
    BY <1>3, <1>10, Zenon DEF LoadFails, TabTypes
  <2>3. TabTypes'
    BY <2>1, <2>2, <1>3, <1>10 DEF LoadFails, TabTypes
  <2>4. QED
    BY <2>3, <1>1, <1>2, <1>3, <1>10, FaultType, TypePartsAfter DEF LoadFails, dbVars
<1>11. QED
  BY <1>5, <1>6, <1>7, <1>8, <1>9, <1>10

LEMMA RestartTypes == ASSUME TypeOK, ServerRestart PROVE TypeOK'
<1>1. <<>> \in Seq(Load)
  BY EmptySeq
<1>2. TabTypes'
  BY <1>1, TypeParts DEF ServerRestart, TabTypes
<1>3. RequestTypes'
  BY TypeParts DEF ServerRestart, RequestTypes
<1>4. RowTypes'
  BY TypeParts DEF ServerRestart, RowTypes, dbVars
<1>5. QED
  BY <1>2, <1>3, <1>4, FaultType, TypePartsAfter DEF ServerRestart

LEMMA TypeInit == Init => TypeOK
<1> SUFFICES ASSUME Init PROVE TypeOK
  OBVIOUS
<1>1. <<NewLoad>> \in Seq(Load)
  BY NewLoadType
<1>2. RowTypes /\ RequestTypes
  BY GroupsAssumption DEF Init, RowTypes, RequestTypes
<1>3. TabTypes
  BY <1>1 DEF Init, TabTypes
<1>4. QED
  BY <1>2, <1>3, TypeParts, GroupsAssumption DEF Init

\* What a step is.
LEMMA StepCases ==
    ASSUME Next
    PROVE  \/ \E r \in Request, t \in Tab \cup {None} :
                 \/ \E g \in Group : \/ SubmitPut(r, t, g) \/ SubmitControl(r, t, g)
                                     \/ SubmitDeleteGroup(r, t, g) \/ SubmitCreate(r, t, g)
                 \/ \E d \in Device : SubmitDeleteDevice(r, t, d)
           \/ \E r \in Request :
                 \/ Create(r) \/ DeleteGroup(r) \/ DeleteDevice(r) \/ PutDelete(r)
                 \/ PutInsert(r)
           \/ \E r \in Request :
                 \/ NotFound(r) \/ PutSelect(r) \/ PutFails(r) \/ ControlTargets(r)
                 \/ ControlApply(r) \/ ControlReply(r) \/ ControlRefresh(r) \/ Conclude(r)
                 \/ HandlerFails(r) \/ Answered(r)
           \/ \E t \in Tab :
                 \/ EventReceived(t) \/ Subscribe(t) \/ StreamBreaks(t)
                 \/ \E i \in 1..Len(loads[t]) :
                       Served(t, i) \/ LoadDone(t, i) \/ LoadFails(t, i)
           \/ ServerRestart
BY Zenon DEF Next, Served

LEMMA TypeStep == TypeOK /\ [Next]_vars => TypeOK'
<1> SUFFICES ASSUME TypeOK, [Next]_vars PROVE TypeOK'
  OBVIOUS
<1>1. CASE UNCHANGED vars
  BY <1>1 DEF vars, dbVars, tabVars, TypeOK
<1>2. CASE Next
  BY <1>2, StepCases, SubmitTypes, RowStatementTypes, HandlerTypes, TabStepTypes, RestartTypes
<1>3. QED
  BY <1>1, <1>2

\* The variables have their types, and the database its foreign keys, in every
\* state (schema.ts, groups.ts, Dashboard.tsx 33-60).
THEOREM TypeCorrect == Spec => []TypeOK
BY TypeInit, TypeStep, PTL DEF Spec

(***************************************************************************)
(* A bulk command reaches the members that stay.                           *)
(***************************************************************************)
\* What can become of request r in a step: nothing, its end, its beginning, or one of
\* its own steps.
Becomes(r) ==
    \/ request'[r] = request[r]
    \/ request'[r] = None
    \/ request[r] = None /\ request'[r].step = "asked"
    \/ PutDelete(r) \/ PutInsert(r)
    \/ ControlTargets(r) \/ ControlApply(r) \/ ControlReply(r) \/ ControlRefresh(r)
    \/ /\ request[r] # None /\ request'[r] # None /\ request'[r].kind # "control"
       /\ request'[r].step # "emptied"
       /\ request'[r].step = "committed" => request[r].step = "asked"

LEMMA OwnStep == ASSUME TypeOK, NEW r \in Request, [Next]_vars PROVE Becomes(r)
<1>1. CASE UNCHANGED request
  BY <1>1 DEF Becomes
<1>2. ASSUME NEW q \in Request, NEW body, Submit(q, body), body.step = "asked"
      PROVE  Becomes(r)
  BY <1>2 DEF Submit, TypeOK, Becomes
<1>3. ASSUME NEW q \in Request, NEW t \in Tab \cup {None},
             \/ \E g \in Group : \/ SubmitPut(q, t, g) \/ SubmitControl(q, t, g)
                                 \/ SubmitDeleteGroup(q, t, g) \/ SubmitCreate(q, t, g)
             \/ \E d \in Device : SubmitDeleteDevice(q, t, d)
      PROVE  Becomes(r)
  <2>1. ASSUME NEW g \in Group, SubmitPut(q, t, g) \/ SubmitControl(q, t, g)
        PROVE  Becomes(r)
    BY <1>2, <2>1 DEF SubmitPut, SubmitControl
  <2>2. ASSUME NEW g \in Group, SubmitDeleteGroup(q, t, g) \/ SubmitCreate(q, t, g)
        PROVE  Becomes(r)
    BY <1>2, <2>2 DEF SubmitDeleteGroup, SubmitCreate
  <2>3. ASSUME NEW d \in Device, SubmitDeleteDevice(q, t, d)
        PROVE  Becomes(r)
    BY <1>2, <2>3 DEF SubmitDeleteDevice
  <2>4. QED
    BY <1>3, <2>1, <2>2, <2>3
<1>4. ASSUME NEW q \in Request,
             Create(q) \/ DeleteGroup(q) \/ DeleteDevice(q) \/ PutDelete(q) \/ PutInsert(q)
      PROVE  Becomes(r)
  <2>1. \A o \in Request \ {q} : request'[o] = request[o]
    BY <1>4 DEF Create, DeleteGroup, DeleteDevice, PutDelete, PutInsert, TypeOK
  <2>2. CASE q = r /\ (Create(q) \/ DeleteGroup(q) \/ DeleteDevice(q))
    <3>1. request[r] # None /\ request[r].step = "asked" /\ request[r] \in RequestType
      BY <2>2 DEF Create, DeleteGroup, DeleteDevice, At, TypeOK
    <3>2. request'[r] = [request[r] EXCEPT !.step = "committed"]
      BY <2>2 DEF Create, DeleteGroup, DeleteDevice, TypeOK
    <3>3. request'[r].step = "committed"
      BY <3>1, <3>2 DEF RequestType
    <3>4. request'[r] # None /\ request'[r].kind # "control"
      BY <1>4, <2>2, RowStatementTypes
    <3>5. QED
      BY <3>1, <3>3, <3>4 DEF Becomes
  <2>3. CASE q = r /\ (PutDelete(q) \/ PutInsert(q))
    BY <2>3 DEF Becomes
  <2>4. CASE q # r
    BY <2>1, <2>4 DEF Becomes
  <2>5. QED
    BY <1>4, <2>2, <2>3, <2>4
<1>5. ASSUME NEW q \in Request,
             \/ NotFound(q) \/ PutSelect(q) \/ PutFails(q) \/ ControlTargets(q)
             \/ ControlApply(q) \/ ControlReply(q) \/ ControlRefresh(q) \/ Conclude(q)
             \/ HandlerFails(q) \/ Answered(q)
      PROVE  Becomes(r)
  <2>1. \A o \in Request \ {q} : request'[o] = request[o]
    BY <1>5 DEF TypeOK, NotFound, PutSelect, PutFails, ControlTargets, ControlApply,
                ControlReply, ControlRefresh, Conclude, HandlerFails, Answered
  <2>2. CASE q = r /\ (NotFound(q) \/ PutFails(q) \/ HandlerFails(q) \/ Answered(q))
    BY <2>2 DEF NotFound, PutFails, HandlerFails, Answered, TypeOK, Becomes
  <2>3. CASE q = r /\ (PutSelect(q) \/ Conclude(q))
    <3>1. request[r] # None /\ request[r] \in RequestType /\ request[r].kind # "control"
      BY <2>3, RequestFields DEF PutSelect, Conclude, At, TypeOK
    <3>2. /\ request'[r] # None /\ request'[r].kind = request[r].kind
          /\ request'[r].step \in {"selected", "replied"}
      <4>1. CASE PutSelect(r)
        <5> DEFINE ids == request[r].deviceIds \cap devices
        <5>1. request'[r] = [request[r] EXCEPT !.step = "selected", !.deviceIds = ids]
          BY <4>1 DEF PutSelect, TypeOK
        <5>2. request[r].kind = "put" /\ ids \in SUBSET Device
          BY <4>1 DEF PutSelect, At, TypeOK
        <5> HIDE DEF ids
        <5>3. request'[r] \in RequestType
          BY <3>1, <5>1, <5>2, NextStepType
        <5>4. request[r] \in [kind : {"put"}, group : Group, deviceIds : SUBSET Device,
                               step : {"asked", "selected", "emptied", "committed", "replied"},
                               tab : Tab \cup {None}]
          BY <3>1, <5>2 DEF RequestType
        <5>5. QED
          BY <5>1, <5>3, <5>4, RequestAssumption
      <4>2. CASE Conclude(r)
        <5>1. request'[r] = [request[r] EXCEPT !.step = "replied"]
          BY <4>2 DEF Conclude, TypeOK
        <5>2. request'[r] \in RequestType
          BY <3>1, <4>2, <5>1, NextStepType, RequestFields DEF Conclude
        <5>3. QED
          BY <3>1, <5>1, <5>2, RequestAssumption DEF RequestType
      <4>3. QED
        BY <2>3, <4>1, <4>2
    <3>3. QED
      BY <3>1, <3>2 DEF Becomes
  <2>4. CASE q = r /\ (ControlTargets(q) \/ ControlApply(q) \/ ControlReply(q) \/ ControlRefresh(q))
    BY <2>4 DEF Becomes
  <2>5. CASE q # r
    BY <2>1, <2>5 DEF Becomes
  <2>6. QED
    BY <1>5, <2>2, <2>3, <2>4, <2>5
<1>6. CASE ServerRestart
  BY <1>6 DEF ServerRestart, Becomes
<1>7. CASE Next
  BY <1>1, <1>3, <1>4, <1>5, <1>6, <1>7, StepCases, TabStepTypes
<1>8. QED
  BY <1>1, <1>7 DEF vars

\* The steps of a bulk command, in its own terms.
LEMMA ControlEffect ==
    ASSUME TypeOK, NEW r \in Request,
           ControlTargets(r) \/ ControlApply(r) \/ ControlReply(r) \/ ControlRefresh(r)
    PROVE  /\ Control(r) /\ request[r].group \in Group
           /\ request'[r].group = request[r].group
           /\ ControlTargets(r) =>
                 /\ At(r, "control", "asked") /\ At(r, "control", "applying")'
                 /\ request'[r].todo = Targets(request[r].group)
           /\ ControlApply(r) =>
                 request[r].step = "applying" /\ request'[r].step = "applying"
           /\ ControlReply(r) =>
                 /\ request[r].step = "applying" /\ request'[r].step = "replied"
                 /\ request[r].todo = {}
           /\ ControlRefresh(r) =>
                 /\ request[r].step = "applying" /\ request'[r].step = "replied"
                 /\ request'[r].todo = {}
<1>1. Control(r)
  BY DEF ControlTargets, ControlApply, ControlReply, ControlRefresh, At, Control
<1>2. request[r] \in [kind : {"control"}, step : {"asked", "applying", "replied"},
                      group : Group, refresh : BOOLEAN, todo : SUBSET Device,
                      tab : Tab \cup {None}]
  BY <1>1 DEF Control, TypeOK, RequestType
<1>3. CASE ControlTargets(r)
  <2>1. request'[r] = [request[r] EXCEPT !.step = "applying",
                                         !.todo = Targets(request[r].group)]
    BY <1>3 DEF ControlTargets, TypeOK
  <2>2. request'[r] # None
    <3> DEFINE todo == Targets(request[r].group)
    <3>1. todo \in SUBSET Device
      BY <1>2 DEF Targets, TypeOK
    <3>2. request[r] \in RequestType /\ request[r].kind = "control"
      BY <1>1 DEF Control, TypeOK
    <3>3. request'[r] = [request[r] EXCEPT !.step = "applying", !.todo = todo]
      BY <2>1
    <3> HIDE DEF todo
    <3>4. [request[r] EXCEPT !.step = "applying", !.todo = todo] \in RequestType
      BY <3>1, <3>2, NextStepType
    <3>5. QED
      BY <3>3, <3>4, RequestAssumption
  <2>3. QED
    BY <1>1, <1>2, <1>3, <2>1, <2>2 DEF ControlTargets, ControlApply, ControlReply, ControlRefresh, At
<1>4. CASE ControlApply(r)
  <2>1. PICK d \in request[r].todo : request'[r] = [request[r] EXCEPT !.todo = @ \ {d}]
    BY <1>4 DEF ControlApply, TypeOK
  <2>2. QED
    BY <1>1, <1>2, <1>4, <2>1 DEF ControlTargets, ControlApply, ControlReply, ControlRefresh, At
<1>5. CASE ControlReply(r)
  <2>1. request'[r] = [request[r] EXCEPT !.step = "replied"]
    BY <1>5 DEF ControlReply, TypeOK
  <2>2. QED
    BY <1>1, <1>2, <1>5, <2>1 DEF ControlTargets, ControlApply, ControlReply, ControlRefresh, At
<1>6. CASE ControlRefresh(r)
  <2>1. request'[r] = [request[r] EXCEPT !.step = "replied", !.todo = {}]
    BY <1>6 DEF ControlRefresh, TypeOK
  <2>2. /\ request'[r].group = request[r].group /\ request'[r].step = "replied"
        /\ request'[r].todo = {}
    BY <1>2, <2>1
  <2>3. /\ request[r].step = "applying" /\ request[r].refresh
        /\ ~ControlTargets(r) /\ ~ControlApply(r) /\ ~ControlReply(r)
    BY <1>6 DEF ControlTargets, ControlApply, ControlReply, ControlRefresh, At
  <2>4. QED
    BY <1>1, <1>2, <2>2, <2>3
<1>7. QED
  BY <1>3, <1>4, <1>5, <1>6

\* What OwedIsReached says of one request.
Kept(r) ==
    /\ At(r, "control", "asked") => owed[r] \subseteq Staying(request[r].group)
    /\ r \notin torn =>
          /\ At(r, "control", "applying") => owed[r] \subseteq request[r].todo
          /\ At(r, "control", "replied") => owed[r] = {}

LEMMA KeptAfter == OwedIsReached' <=> \A r \in Request : Kept(r)'
BY DEF OwedIsReached, Kept

LEMMA OwedStep ==
    TypeOK /\ OwedIsReached /\ [Next /\ Overlapping /\ Tearing /\ Owing]_historyVars
        => OwedIsReached'
<1>1. CASE UNCHANGED historyVars
  BY <1>1 DEF historyVars, vars, dbVars, OwedIsReached, At, Staying, Emptied
<1> SUFFICES ASSUME TypeOK, OwedIsReached, Next, Tearing, Owing, NEW r \in Request, Control(r)'
             PROVE  Kept(r)'
  BY <1>1, KeptAfter DEF Kept, Control, At
<1>2. Kept(r)
  BY DEF OwedIsReached, Kept
<1>3. CASE ~Control(r)
  <2>1. owed'[r] = members'[request'[r].group]
    BY <1>3 DEF Owing
  <2>2. request'[r].step = "asked"
    <3>1. ~(PutDelete(r) \/ PutInsert(r))
      BY RowStatementTypes DEF Control
    <3>2. ~(ControlTargets(r) \/ ControlApply(r) \/ ControlReply(r) \/ ControlRefresh(r))
      BY <1>3, ControlEffect
    <3>3. QED
      BY <1>3, <3>1, <3>2, OwnStep DEF Becomes, Control
  <2>3. QED
    BY <2>1, <2>2 DEF Kept, At, Staying
<1>4. CASE Control(r)
  <2>1. owed'[r] = (owed[r] \ Reached(r)) \cap Staying(request[r].group)'
    BY <1>4 DEF Owing
  <2>2. r \notin torn' => r \notin torn /\ ~ReadsBetween(r)
    BY DEF Tearing
  <2>3. CASE request'[r] = request[r]
    BY <1>2, <2>1, <2>2, <2>3 DEF Kept, At, Staying
  <2>4. CASE ControlTargets(r)
    <3>1. /\ At(r, "control", "asked") /\ At(r, "control", "applying")'
          /\ request[r].group \in Group
          /\ request'[r].todo = Targets(request[r].group)
      BY <2>4, ControlEffect
    <3>2. r \notin torn' => ~Meets(r)
      BY <2>2, <3>1 DEF ReadsBetween
    <3>3. ~Emptied(r)
      BY <3>1 DEF Emptied, At
    <3>4. ~Meets(r) => Staying(request[r].group) = members[request[r].group]
      BY <3>3 DEF Staying, Meets
    <3>5. members[request[r].group] \subseteq Targets(request[r].group)
      BY <3>1 DEF Targets, TypeOK
    <3>6. owed[r] \subseteq Staying(request[r].group)
      BY <1>2, <3>1 DEF Kept
    <3>7. r \notin torn' => owed'[r] \subseteq request'[r].todo
      BY <2>1, <3>1, <3>2, <3>4, <3>5, <3>6
    <3>8. QED
      BY <3>1, <3>7 DEF Kept, At
  <2>5. CASE ControlApply(r) \/ ControlReply(r) \/ ControlRefresh(r)
    <3>1. At(r, "control", "applying")
      BY <1>4, <2>5, ControlEffect DEF Control, At
    <3>2. r \notin torn' => owed[r] \subseteq request[r].todo
      BY <1>2, <2>2, <3>1 DEF Kept
    <3>3. r \notin torn' => owed'[r] \subseteq request'[r].todo
      BY <2>1, <3>2 DEF Reached
    <3>4. r \notin torn' /\ request'[r].step = "replied" => owed'[r] = {}
      BY <2>1, <2>5, <3>2, <3>3, ControlEffect
    <3>5. request'[r].step # "asked"
      BY <2>5, ControlEffect
    <3>6. QED
      BY <3>3, <3>4, <3>5 DEF Kept, At
  <2>6. QED
    <3>1. ~(PutDelete(r) \/ PutInsert(r))
      BY RowStatementTypes DEF Control
    <3>2. QED
      BY <1>4, <2>3, <2>4, <2>5, <3>1, OwnStep DEF Becomes, Control
<1>5. QED
  BY <1>3, <1>4

LEMMA HistorySteps == [Next /\ Overlapping /\ Tearing /\ Owing]_historyVars => [Next]_vars
BY DEF historyVars

\* A bulk command that is through has reached every device that stayed in the group,
\* replacements that keep it included, unless it read its targets between the two
\* statements of one (groups.ts 92-93, 103-136, control.ts 84-101).
THEOREM MembersAreReached == HistorySpec => []StableMembersReached
<1>1. HistoryInit => TypeOK /\ OwedIsReached
  BY TypeInit DEF HistoryInit, Init, OwedIsReached, At
<1>2. OwedIsReached => StableMembersReached
  BY DEF OwedIsReached, StableMembersReached
<1>3. /\ TypeOK /\ OwedIsReached
      /\ [Next /\ Overlapping /\ Tearing /\ Owing]_historyVars
      => TypeOK' /\ OwedIsReached'
  BY HistorySteps, TypeStep, OwedStep
<1>4. QED
  BY <1>1, <1>2, <1>3, PTL DEF HistorySpec
(***************************************************************************)
(* A dashboard is out of date only if a change was not announced, or if it *)
(* displays the answer of an older reload.                                 *)
(***************************************************************************)
LEMMA CurrentAfter == WillBeCurrent' <=> \A t \in Tab : Current(t)' /\ OldFirst(t)'
BY DEF WillBeCurrent

\* A request that has announced what it did, or done nothing, can go on or end.
LEMMA NothingOwed ==
    ASSUME TypeOK, WillBeCurrent, NEW r \in Request, ~Unspoken(r), UNCHANGED dbVars,
           \A o \in Request \ {r} : request'[o] = request[o],
           NEW t \in Tab,
           UNCHANGED <<events[t], loads[t], shown[t], unannounced[t], overtaken[t]>>
    PROVE  Current(t)' /\ OldFirst(t)'
<1>1. Present' = Present /\ Live' = Live /\ devices' = devices /\ members' = members
  BY DEF Present, Live, dbVars
<1>2. \A o \in Request : Unspoken(o) => Unspoken(o)'
  BY DEF Unspoken
<1>3. Current(t) /\ OldFirst(t)
  BY DEF WillBeCurrent
<1>4. OldFirst(t)'
  BY <1>3 DEF OldFirst
<1>5. QED
  BY <1>1, <1>2, <1>3, <1>4 DEF Current, UpToDate

\* A reload that has just begun will bring what there is.
LEMMA ReloadCurrent ==
    ASSUME TypeOK, WillBeCurrent, NEW t \in Tab, Reload(t)
    PROVE  Current(t)' /\ OldFirst(t)'
<1>1. /\ Len(loads[t]) \in Nat /\ Len(loads'[t]) = Len(loads[t]) + 1
      /\ loads'[t][Len(loads[t]) + 1] = NewLoad
      /\ \A i \in 1..Len(loads[t]) : loads'[t][i] = loads[t][i]
  BY ReloadEffect DEF TypeOK
<1>2. Current(t)'
  BY <1>1 DEF Current, UpToDate, NewLoad
<1>3. OldFirst(t)
  BY DEF WillBeCurrent
<1>4. OldFirst(t)'
  BY <1>1, <1>3 DEF OldFirst, NewLoad
<1>5. QED
  BY <1>2, <1>4

\* Handlers change rows first and announce it later.
LEMMA RowStatementCurrent ==
    ASSUME TypeOK, WillBeCurrent, NEW r \in Request,
           Create(r) \/ DeleteGroup(r) \/ DeleteDevice(r) \/ PutDelete(r) \/ PutInsert(r)
    PROVE  WillBeCurrent'
<1>1. Unspoken(r)' /\ UNCHANGED tabVars
  BY RowStatementTypes DEF Unspoken
<1>2. ASSUME NEW t \in Tab PROVE OldFirst(t)'
  BY <1>1 DEF WillBeCurrent, OldFirst, tabVars
<1>3. QED
  BY <1>1, <1>2, CurrentAfter DEF Current

\* The other steps of the handlers.
LEMMA HandlerCurrent ==
    ASSUME TypeOK, WillBeCurrent, NEW r \in Request,
           \/ NotFound(r) \/ PutSelect(r) \/ PutFails(r) \/ ControlTargets(r)
           \/ ControlApply(r) \/ ControlReply(r) \/ ControlRefresh(r) \/ Conclude(r)
           \/ HandlerFails(r) \/ Answered(r)
    PROVE  WillBeCurrent'
<1> USE DEF At
<1>1. \A o \in Request \ {r} : request'[o] = request[o]
  BY DEF TypeOK, NotFound, PutSelect, PutFails, ControlTargets, ControlApply, ControlReply,
         ControlRefresh, Conclude, HandlerFails, Answered
<1>2. UNCHANGED dbVars
  BY HandlerTypes
<1>3. CASE NotFound(r) \/ PutSelect(r) \/ ControlTargets(r) \/ ControlReply(r) \/ ControlRefresh(r)
  <2>1. ~Unspoken(r) /\ UNCHANGED tabVars
    BY <1>3 DEF Unspoken, NotFound, PutSelect, ControlTargets, ControlReply, ControlRefresh
  <2>2. QED
    BY <1>1, <1>2, <2>1, NothingOwed, CurrentAfter DEF tabVars
<1>4. ASSUME UNCHANGED loads, \A t \in Tab : unannounced'[t] \/ events'[t] > 0
      PROVE  WillBeCurrent'
  <2>1. ASSUME NEW t \in Tab PROVE OldFirst(t)'
    BY <1>4 DEF WillBeCurrent, OldFirst
  <2>2. QED
    BY <1>4, <2>1, CurrentAfter DEF Current
<1>5. CASE PutFails(r) \/ HandlerFails(r)
  <2>1. \A t \in Tab : unannounced'[t]
    BY <1>5, Zenon DEF PutFails, HandlerFails
  <2>2. UNCHANGED loads
    BY <1>5 DEF PutFails, HandlerFails
  <2>3. QED
    BY <1>4, <2>1, <2>2
<1>6. CASE ControlApply(r) \/ Conclude(r)
  <2>1. PICK n \in Nat \ {0} : Publish(n)
    <3>1. 1 \in Nat \ {0} /\ 2 \in Nat \ {0}
      OBVIOUS
    <3>2. QED
      BY <1>6, <3>1 DEF ControlApply, Conclude
  <2>2. UNCHANGED loads
    BY <2>1 DEF Publish
  <2>3. QED
    BY <1>4, <2>1, <2>2, PublishEffect
<1>7. CASE Answered(r)
  <2>1. ~Unspoken(r)
    BY <1>7 DEF Unspoken, Answered
  <2>2. UNCHANGED <<events, shown, overtaken>>
    BY <1>7 DEF Answered
  <2>3. CASE request[r].tab = None
    BY <1>1, <1>2, <1>7, <2>1, <2>3, NothingOwed, CurrentAfter DEF Answered
  <2>4. CASE request[r].tab # None
    <3>1. PICK tab \in Tab : Reload(tab)
      BY <1>7, <2>4, RequestFields DEF Answered, TypeOK
    <3>2. Current(tab)' /\ OldFirst(tab)'
      BY <3>1, ReloadCurrent
    <3>3. ASSUME NEW t \in Tab \ {tab} PROVE Current(t)' /\ OldFirst(t)'
      BY <1>1, <1>2, <2>1, <2>2, <3>1, ReloadEffect, NothingOwed
    <3>4. QED
      BY <3>2, <3>3, CurrentAfter
  <2>5. QED
    BY <2>3, <2>4
<1>8. QED
  BY <1>3, <1>5, <1>6, <1>7

\* A reload is displayed: the newest that has been is what there is, unless it came
\* before one that began earlier.
LEMMA LoadDoneCurrent ==
    ASSUME TypeOK, WillBeCurrent, NEW t \in Tab, NEW i \in 1..Len(loads[t]), LoadDone(t, i)
    PROVE  Current(t)' /\ OldFirst(t)'
<1> DEFINE n == Len(loads[t])
<1>1. loads[t] \in Seq(Load) /\ n \in Nat /\ i <= n /\ i >= 1
  BY DEF TypeOK
<1>2. /\ Displayed(t, i) \in Seq(Load) /\ Len(Displayed(t, i)) = n
      /\ \A j \in 1..n :
            /\ Displayed(t, i)[j].old <=> loads[t][j].old \/ j < i
            /\ UpToDate(Displayed(t, i)[j]) <=> UpToDate(loads[t][j])
  BY DisplayedEffect
<1>3. loads'[t] = RemoveAt(Displayed(t, i), i)
  BY DEF LoadDone, TypeOK
<1>4. /\ Len(loads'[t]) = n - 1
      /\ \A j \in 1..(n - 1) :
            loads'[t][j] = IF j < i THEN Displayed(t, i)[j] ELSE Displayed(t, i)[j + 1]
  BY <1>2, <1>3, RemoveAtEffect
<1>5. UNCHANGED <<dbVars, request, events, unannounced>>
  BY DEF LoadDone
<1>6. Present' = Present /\ Live' = Live /\ devices' = devices /\ members' = members
  BY <1>5 DEF Present, Live, dbVars
<1>7. /\ overtaken'[t] = loads[t][i].old
      /\ shown'[t] = Display(loads[t][i])
      /\ loads[t][i].devices # None /\ loads[t][i].groups # None /\ loads[t][i].members # None
  BY DEF LoadDone, TypeOK
<1>8. Current(t) /\ OldFirst(t)
  BY DEF WillBeCurrent
<1>9. OldFirst(t)'
  <2> SUFFICES ASSUME NEW j \in 1..(n - 1), NEW k \in 1..(n - 1), j < k, loads'[t][k].old
               PROVE  loads'[t][j].old
    BY <1>4 DEF OldFirst
  <2>1. CASE j < i
    <3>1. j \in 1..n
      BY <1>1
    <3>2. Displayed(t, i)[j].old
      BY <1>2, <2>1, <3>1
    <3>3. loads'[t][j] = Displayed(t, i)[j]
      BY <1>4, <2>1
    <3>4. QED
      BY <3>2, <3>3
  <2>2. CASE ~(j < i)
    <3>1. j + 1 \in 1..n /\ k + 1 \in 1..n /\ j + 1 < k + 1 /\ ~(k < i)
          /\ ~(j + 1 < i) /\ ~(k + 1 < i)
      BY <1>1, <2>2
    <3>2. loads[t][k + 1].old
      BY <1>2, <1>4, <3>1
    <3>3. loads[t][j + 1].old
      BY <1>8, <3>1, <3>2 DEF OldFirst
    <3>4. QED
      BY <1>2, <1>4, <2>2, <3>1, <3>3
  <2>3. QED
    BY <2>1, <2>2
<1>10. CASE unannounced[t] \/ events[t] > 0 \/ \E r \in Request : Unspoken(r)
  BY <1>5, <1>9, <1>10 DEF Current, Unspoken
<1>11. CASE ~(unannounced[t] \/ events[t] > 0 \/ \E r \in Request : Unspoken(r))
  <2>1. n > 0
    BY <1>1
  <2>2. IF ~loads[t][n].old THEN UpToDate(loads[t][n]) ELSE overtaken[t] \/ shown[t] = Present
    BY <1>8, <1>11, <2>1 DEF Current
  <2>3. CASE i = n
    <3>1. n - 1 > 0 => loads'[t][n - 1].old
      BY <1>1, <1>2, <1>4, <2>3
    <3>2. CASE ~loads[t][n].old
      <4>1. loads[t][n].devices = devices /\ loads[t][n].groups = Live /\ loads[t][n].members = members
        BY <1>7, <2>2, <2>3, <3>2 DEF UpToDate
      <4>2. shown'[t] = Present
        BY <1>7, <2>3, <4>1 DEF Display, Present
      <4>3. QED
        BY <1>4, <1>6, <1>9, <3>1, <4>2 DEF Current
    <3>3. CASE loads[t][n].old
      BY <1>4, <1>7, <1>9, <2>3, <3>1, <3>3 DEF Current
    <3>4. QED
      BY <3>2, <3>3
  <2>4. CASE i < n
    <3>1. /\ n - 1 > 0 /\ n - 1 \in 1..(n - 1) /\ ~(n - 1 < i) /\ (n - 1) + 1 = n
          /\ n \in 1..n /\ ~(n < i)
      BY <1>1, <2>4
    <3>2. /\ loads'[t][n - 1] = Displayed(t, i)[n]
          /\ Displayed(t, i)[n].old <=> loads[t][n].old
          /\ UpToDate(Displayed(t, i)[n]) <=> UpToDate(loads[t][n])
      BY <1>2, <1>4, <3>1
    <3>3. CASE ~loads[t][n].old
      <4>1. UpToDate(Displayed(t, i)[n])
        BY <2>2, <3>2, <3>3
      <4>2. QED
        BY <1>4, <1>6, <1>9, <3>1, <3>2, <3>3, <4>1 DEF Current, UpToDate
    <3>4. CASE loads[t][n].old
      <4>1. loads[t][i].old
        BY <1>8, <2>4, <3>1, <3>4 DEF OldFirst
      <4>2. QED
        BY <1>4, <1>7, <1>9, <3>1, <3>2, <3>4, <4>1 DEF Current
    <3>5. QED
      BY <3>3, <3>4
  <2>5. i = n \/ i < n
    <3> HIDE DEF n
    <3>1. QED
      BY <1>1
  <2>6. QED
    BY <2>3, <2>4, <2>5
<1>12. QED
  BY <1>10, <1>11

\* A reload is dropped: that of the newest is noted.
LEMMA LoadFailsCurrent ==
    ASSUME TypeOK, WillBeCurrent, NEW t \in Tab, NEW i \in 1..Len(loads[t]), LoadFails(t, i)
    PROVE  Current(t)' /\ OldFirst(t)'
<1> DEFINE n == Len(loads[t])
<1>1. loads[t] \in Seq(Load) /\ n \in Nat /\ i <= n /\ i >= 1
  BY DEF TypeOK
<1>2. loads'[t] = RemoveAt(loads[t], i)
  BY DEF LoadFails, TypeOK
<1>3. /\ Len(loads'[t]) = n - 1
      /\ \A j \in 1..(n - 1) : loads'[t][j] = IF j < i THEN loads[t][j] ELSE loads[t][j + 1]
  BY <1>1, <1>2, RemoveAtEffect
<1>4. UNCHANGED <<dbVars, request, events, shown, overtaken>>
  BY DEF LoadFails
<1>5. Present' = Present /\ Live' = Live /\ devices' = devices /\ members' = members
  BY <1>4 DEF Present, Live, dbVars
<1>6. unannounced'[t] <=> unannounced[t] \/ (i = n /\ ~loads[t][i].old)
  BY Zenon DEF LoadFails, TypeOK
<1>7. Current(t) /\ OldFirst(t)
  BY DEF WillBeCurrent
<1>8. OldFirst(t)'
  <2> SUFFICES ASSUME NEW j \in 1..(n - 1), NEW k \in 1..(n - 1), j < k, loads'[t][k].old
               PROVE  loads'[t][j].old
    BY <1>3 DEF OldFirst
  <2> DEFINE jj == IF j < i THEN j ELSE j + 1
  <2> DEFINE kk == IF k < i THEN k ELSE k + 1
  <2>1. jj \in 1..n /\ kk \in 1..n /\ jj < kk
    BY <1>1
  <2>2. loads'[t][j] = loads[t][jj] /\ loads'[t][k] = loads[t][kk]
    BY <1>3
  <2> HIDE DEF jj, kk
  <2>3. QED
    BY <1>7, <2>1, <2>2 DEF OldFirst
<1>9. CASE unannounced[t] \/ events[t] > 0 \/ \E r \in Request : Unspoken(r)
  BY <1>4, <1>6, <1>8, <1>9 DEF Current, Unspoken
<1>10. CASE ~(unannounced[t] \/ events[t] > 0 \/ \E r \in Request : Unspoken(r))
  <2>1. n > 0
    BY <1>1
  <2>2. IF ~loads[t][n].old THEN UpToDate(loads[t][n]) ELSE overtaken[t] \/ shown[t] = Present
    BY <1>7, <1>10, <2>1 DEF Current
  <2>3. CASE i = n
    <3>1. CASE ~loads[t][n].old
      BY <1>6, <1>8, <2>3, <3>1 DEF Current
    <3>2. CASE loads[t][n].old
      <4>1. n - 1 > 0 => loads'[t][n - 1].old
        <5>1. n - 1 > 0 => n - 1 \in 1..n /\ n \in 1..n /\ n - 1 < n /\ n - 1 \in 1..(n - 1)
          BY <1>1
        <5>2. QED
          BY <1>3, <1>7, <2>3, <3>2, <5>1 DEF OldFirst
      <4>2. QED
        BY <1>3, <1>4, <1>5, <1>8, <2>2, <3>2, <4>1 DEF Current
    <3>3. QED
      BY <3>1, <3>2
  <2>4. CASE i < n
    <3>1. n - 1 > 0 /\ n - 1 \in 1..(n - 1) /\ ~(n - 1 < i) /\ (n - 1) + 1 = n
      BY <1>1, <2>4
    <3>2. loads'[t][n - 1] = loads[t][n]
      BY <1>3, <3>1
    <3>3. CASE ~loads[t][n].old
      BY <1>3, <1>5, <1>8, <2>2, <3>1, <3>2, <3>3 DEF Current, UpToDate
    <3>4. CASE loads[t][n].old
      BY <1>3, <1>4, <1>5, <1>8, <2>2, <3>1, <3>2, <3>4 DEF Current
    <3>5. QED
      BY <3>3, <3>4
  <2>5. i = n \/ i < n
    <3> HIDE DEF n
    <3>1. QED
      BY <1>1
  <2>6. QED
    BY <2>3, <2>4, <2>5
<1>11. QED
  BY <1>9, <1>10
\* The dashboards: a reload brings what is there when it is served, and what is
\* displayed is the newest, or older than what was displayed before.
LEMMA TabStepCurrent ==
    ASSUME TypeOK, WillBeCurrent, NEW t \in Tab,
           \/ EventReceived(t) \/ Subscribe(t) \/ StreamBreaks(t)
           \/ \E i \in 1..Len(loads[t]) : Served(t, i) \/ LoadDone(t, i) \/ LoadFails(t, i)
    PROVE  WillBeCurrent'
<1>1. UNCHANGED dbVars /\ UNCHANGED request
  BY TabStepTypes
<1>2. /\ Present' = Present /\ Live' = Live /\ devices' = devices /\ members' = members
      /\ \A r \in Request : Unspoken(r) <=> Unspoken(r)'
  BY <1>1 DEF Present, Live, dbVars, Unspoken
<1>3. ASSUME NEW o \in Tab,
             UNCHANGED <<events[o], loads[o], shown[o], unannounced[o], overtaken[o]>>
      PROVE  Current(o)' /\ OldFirst(o)'
  <2>1. Current(o) /\ OldFirst(o)
    BY DEF WillBeCurrent
  <2>2. OldFirst(o)'
    BY <1>3, <2>1 DEF OldFirst
  <2>3. QED
    BY <1>2, <1>3, <2>1, <2>2 DEF Current, UpToDate
<1>4. ASSUME NEW o \in Tab \ {t} PROVE Current(o)' /\ OldFirst(o)'
  <2>1. UNCHANGED <<events[o], loads[o], shown[o], unannounced[o], overtaken[o]>>
    BY ReloadEffect, ServedEffect
       DEF TypeOK, EventReceived, Subscribe, StreamBreaks, LoadDone, LoadFails
  <2>2. QED
    BY <1>3, <2>1
<1>5. ASSUME EventReceived(t) PROVE Current(t)' /\ OldFirst(t)'
  BY <1>5, ReloadCurrent DEF EventReceived
<1>6. ASSUME Subscribe(t) PROVE Current(t)' /\ OldFirst(t)'
  BY <1>3, <1>6 DEF Subscribe
<1>7. ASSUME StreamBreaks(t) PROVE Current(t)' /\ OldFirst(t)'
  <2>1. unannounced'[t] <=> unannounced[t] \/ events[t] > 0
    BY <1>7, Zenon DEF StreamBreaks, TypeOK
  <2>2. UNCHANGED <<loads, shown, overtaken>>
    BY <1>7 DEF StreamBreaks
  <2>3. Current(t) /\ OldFirst(t)
    BY DEF WillBeCurrent
  <2>4. OldFirst(t)'
    BY <2>2, <2>3 DEF OldFirst
  <2>5. QED
    BY <1>2, <2>1, <2>2, <2>3, <2>4 DEF Current, UpToDate
<1>8. ASSUME NEW i \in 1..Len(loads[t]), Served(t, i)
      PROVE  Current(t)' /\ OldFirst(t)'
  <2>1. /\ Len(loads'[t]) = Len(loads[t])
        /\ \A j \in 1..Len(loads[t]) : j # i => loads'[t][j] = loads[t][j]
        /\ loads'[t][i].old = loads[t][i].old
        /\ UpToDate(loads[t][i]) => UpToDate(loads'[t][i])
        /\ UNCHANGED <<events, shown, unannounced, overtaken>>
    BY <1>8, ServedEffect
  <2>2. \A j \in 1..Len(loads[t]) :
           /\ loads'[t][j].old = loads[t][j].old
           /\ UpToDate(loads[t][j]) => UpToDate(loads'[t][j])
    BY <2>1
  <2>3. Current(t) /\ OldFirst(t)
    BY DEF WillBeCurrent
  <2>4. OldFirst(t)'
    BY <2>1, <2>2, <2>3 DEF OldFirst
  <2>5. Len(loads[t]) \in Nat
    BY DEF TypeOK
  <2>6. Len(loads[t]) > 0 => Len(loads[t]) \in 1..Len(loads[t])
    BY <2>5
  <2>7. QED
    BY <1>2, <2>1, <2>2, <2>3, <2>4, <2>6 DEF Current, UpToDate
<1>9. ASSUME NEW i \in 1..Len(loads[t]), LoadDone(t, i) \/ LoadFails(t, i)
      PROVE  Current(t)' /\ OldFirst(t)'
  BY <1>9, LoadDoneCurrent, LoadFailsCurrent
<1>10. Current(t)' /\ OldFirst(t)'
  BY <1>5, <1>6, <1>7, <1>8, <1>9
<1>11. QED
  BY <1>4, <1>10, CurrentAfter

LEMMA CurrentStep == TypeOK /\ WillBeCurrent /\ [Next]_vars => WillBeCurrent'
<1> SUFFICES ASSUME TypeOK, WillBeCurrent, [Next]_vars PROVE WillBeCurrent'
  OBVIOUS
<1>1. CASE UNCHANGED vars
  <2>1. /\ Present' = Present /\ Live' = Live /\ devices' = devices /\ members' = members
        /\ UNCHANGED <<request, events, loads, shown, unannounced, overtaken>>
    BY <1>1 DEF vars, dbVars, tabVars, Present, Live
  <2>2. ASSUME NEW t \in Tab PROVE Current(t)' /\ OldFirst(t)'
    BY <2>1 DEF WillBeCurrent, Current, OldFirst, UpToDate, Unspoken
  <2>3. QED
    BY <2>2, CurrentAfter
<1>2. ASSUME NEW r \in Request, NEW body, Submit(r, body)
      PROVE  WillBeCurrent'
  <2>1. /\ ~Unspoken(r) /\ UNCHANGED dbVars /\ UNCHANGED tabVars
        /\ \A o \in Request \ {r} : request'[o] = request[o]
    BY <1>2 DEF Submit, Unspoken, TypeOK
  <2>2. QED
    BY <2>1, NothingOwed, CurrentAfter DEF tabVars
<1>3. ASSUME ServerRestart PROVE WillBeCurrent'
  <2>1. \A t \in Tab : unannounced'[t]
    BY <1>3, Zenon DEF ServerRestart
  <2>2. \A t \in Tab : loads'[t] = <<>>
    BY <1>3 DEF ServerRestart
  <2>3. QED
    BY <2>1, <2>2, CurrentAfter DEF Current, OldFirst
<1>4. CASE Next
  <2>1. ASSUME NEW r \in Request, NEW t \in Tab \cup {None},
               \/ \E g \in Group : \/ SubmitPut(r, t, g) \/ SubmitControl(r, t, g)
                                   \/ SubmitDeleteGroup(r, t, g) \/ SubmitCreate(r, t, g)
               \/ \E d \in Device : SubmitDeleteDevice(r, t, d)
        PROVE  \E body : Submit(r, body)
    BY <2>1 DEF SubmitPut, SubmitControl, SubmitDeleteGroup, SubmitCreate, SubmitDeleteDevice
  <2>2. QED
    BY <1>2, <1>3, <1>4, <2>1, StepCases, RowStatementCurrent, HandlerCurrent, TabStepCurrent
<1>5. QED
  BY <1>1, <1>4

\* A dashboard with nothing on its way displays what there is, unless something was
\* never announced to it or it displays an older reload than it did before
\* (groups.ts, events.ts 30-40, Dashboard.tsx 33-60).
THEOREM StaleUnannounced == Spec => []StaleOnlyIfUnannounced
<1>1. Init => WillBeCurrent
  BY DEF Init, WillBeCurrent, Current, OldFirst, UpToDate, NewLoad
<1>2. WillBeCurrent => StaleOnlyIfUnannounced
  BY DEF WillBeCurrent, StaleOnlyIfUnannounced, Settled, Unspoken, Current
<1>3. TypeOK /\ WillBeCurrent /\ [Next]_vars => WillBeCurrent'
  BY CurrentStep
<1>4. QED
  BY <1>1, <1>2, <1>3, TypeInit, TypeStep, PTL DEF Spec

(***************************************************************************)
(* Replacing a membership.                                                 *)
(***************************************************************************)
\* As long as a replacement that is between its statements has met no other one, it
\* is alone there and its group is empty.
UndisturbedIsEmpty ==
    \A r \in Request :
        Emptied(r) /\ r \notin overlapped => ~Meets(r) /\ members[request[r].group] = {}

\* A replacement that is between its statements after a step was so before, or the
\* step is its deletion; and it only leaves them well through its insertion.
LEMMA ReplacementSteps ==
    ASSUME TypeOK, NEW r \in Request, [Next]_vars
    PROVE  /\ Emptied(r)' => PutDelete(r) \/ (Emptied(r) /\ request'[r] = request[r])
           /\ Emptied(r) /\ At(r, "put", "committed")' => PutInsert(r)
<1>1. ControlTargets(r) \/ ControlApply(r) \/ ControlReply(r) \/ ControlRefresh(r)
         => request'[r].step # "emptied" /\ request[r].kind = "control"
  BY ControlEffect DEF Control, At
<1>2. PutInsert(r) => request'[r].step = "committed"
  BY RequestFields DEF PutInsert, At, TypeOK
<1>3. Emptied(r)' => PutDelete(r) \/ (Emptied(r) /\ request'[r] = request[r])
  BY <1>1, <1>2, OwnStep DEF Becomes, Emptied, At
<1>4. Emptied(r) /\ At(r, "put", "committed")' => PutInsert(r)
  BY <1>1, OwnStep DEF Becomes, Emptied, At, PutDelete
<1>5. QED
  BY <1>3, <1>4

\* A group only gets members from an insertion into it.
LEMMA MembersGrow ==
    ASSUME TypeOK, NEW g \in Group, [Next]_vars, ~(members'[g] \subseteq members[g])
    PROVE  \E q \in Request : PutInsert(q) /\ request[q].group = g
<1>1. CASE UNCHANGED members
  BY <1>1
<1>2. ASSUME NEW q \in Request, NEW t \in Tab \cup {None},
             \/ \E h \in Group : \/ SubmitPut(q, t, h) \/ SubmitControl(q, t, h)
                                 \/ SubmitDeleteGroup(q, t, h) \/ SubmitCreate(q, t, h)
             \/ \E d \in Device : SubmitDeleteDevice(q, t, d)
      PROVE  UNCHANGED members
  BY <1>2 DEF SubmitPut, SubmitControl, SubmitDeleteGroup, SubmitCreate, SubmitDeleteDevice,
              Submit, dbVars
<1>3. ASSUME NEW q \in Request, Create(q) \/ DeleteGroup(q) \/ DeleteDevice(q) \/ PutDelete(q)
      PROVE  members'[g] \subseteq members[g]
  BY <1>3 DEF Create, DeleteGroup, DeleteDevice, PutDelete, TypeOK
<1>4. ASSUME NEW q \in Request, PutInsert(q), request[q].group # g
      PROVE  UNCHANGED members[g]
  BY <1>4 DEF PutInsert, TypeOK
<1>5. CASE ServerRestart
  BY <1>1, <1>5 DEF ServerRestart, dbVars
<1>6. CASE Next
  BY <1>1, <1>2, <1>3, <1>4, <1>5, <1>6, StepCases, HandlerTypes, TabStepTypes DEF dbVars
<1>7. QED
  BY <1>1, <1>6 DEF vars, dbVars

\* Only a deletion puts a request between its statements, and it empties the group;
\* only another replacement's insertion could fill it meanwhile.
LEMMA UndisturbedStep ==
    /\ TypeOK /\ UndisturbedIsEmpty
    /\ [Next /\ Overlapping /\ Tearing /\ Owing]_historyVars
    => UndisturbedIsEmpty'
<1> SUFFICES ASSUME TypeOK, UndisturbedIsEmpty, Next, Overlapping,
                    NEW r \in Request, Emptied(r)', r \notin overlapped'
             PROVE  ~Meets(r)' /\ members'[request'[r].group] = {}
  BY DEF UndisturbedIsEmpty, historyVars, vars, dbVars, Emptied, At, Meets
<1>1. ~Meets(r)' /\ r \notin overlapped
  BY DEF Overlapping
<1>2. CASE PutDelete(r)
  <2>1. /\ request[r] \in RequestType /\ request[r].kind = "put"
        /\ request[r].group \in Group
    BY <1>2, RequestFields DEF PutDelete, At, TypeOK
  <2>2. request'[r] = [request[r] EXCEPT !.step = "emptied"]
    BY <1>2 DEF PutDelete, TypeOK
  <2>3. request'[r].group = request[r].group
    BY <2>1, <2>2
  <2>4. QED
    BY <1>1, <1>2, <2>1, <2>3 DEF PutDelete, TypeOK
<1>3. CASE ~PutDelete(r)
  <2>1. Emptied(r) /\ request'[r] = request[r]
    BY <1>3, ReplacementSteps
  <2>2. ~Meets(r) /\ members[request[r].group] = {}
    BY <1>1, <2>1 DEF UndisturbedIsEmpty
  <2>3. request[r].group \in Group
    BY <2>1, RequestFields DEF Emptied, At, TypeOK
  <2>4. ASSUME NEW q \in Request, PutInsert(q), request[q].group = request[r].group
        PROVE  FALSE
    <3>1. q = r
      BY <2>2, <2>4 DEF Meets, PutInsert, Emptied
    <3>2. request'[r].step = "committed"
      BY <2>4, <3>1, RequestFields DEF PutInsert, At, TypeOK
    <3>3. QED
      BY <3>2 DEF Emptied, At
  <2>5. members'[request[r].group] \subseteq members[request[r].group]
    BY <2>3, <2>4, MembersGrow
  <2>6. QED
    BY <1>1, <2>1, <2>2, <2>5
<1>4. QED
  BY <1>2, <1>3

\* Another replacement of the same group that is between its statements at the same
\* time is the only way to a membership that was not asked for (groups.ts 71-101):
\* otherwise the group holds, after the insertion, the devices that were given and no
\* others.
THEOREM ReplacedUnlessOverlapping == HistorySpec => ReplacesMembership
<1>1. HistoryInit => TypeOK /\ UndisturbedIsEmpty
  BY TypeInit DEF HistoryInit, Init, UndisturbedIsEmpty, Emptied, At
<1>2. /\ TypeOK /\ UndisturbedIsEmpty
      /\ [Next /\ Overlapping /\ Tearing /\ Owing]_historyVars
      => TypeOK' /\ UndisturbedIsEmpty'
  BY HistorySteps, TypeStep, UndisturbedStep
<1>3. /\ TypeOK /\ UndisturbedIsEmpty
      /\ [Next /\ Overlapping /\ Tearing /\ Owing]_historyVars
      => [\A r \in Request :
             Emptied(r) /\ r \notin overlapped /\ At(r, "put", "committed")'
                 => members'[request[r].group] = request[r].deviceIds]_historyVars
  <2> SUFFICES ASSUME TypeOK, UndisturbedIsEmpty, Next, NEW r \in Request,
                      Emptied(r), r \notin overlapped, At(r, "put", "committed")'
               PROVE  members'[request[r].group] = request[r].deviceIds
    OBVIOUS
  <2>1. PutInsert(r)
    BY ReplacementSteps
  <2>2. request[r].group \in Group /\ members[request[r].group] = {}
    BY RequestFields DEF Emptied, At, TypeOK, UndisturbedIsEmpty
  <2>3. QED
    BY <2>1, <2>2 DEF PutInsert, TypeOK
<1>4. QED
  BY <1>1, <1>2, <1>3, PTL DEF HistorySpec, ReplacesMembership
=============================================================================
