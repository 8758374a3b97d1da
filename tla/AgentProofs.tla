---------------------------- MODULE AgentProofs ----------------------------
(***************************************************************************)
(* The agent process is a behaviour of its parts: what holds of the        *)
(* television's handlers and of the self-update by themselves holds of     *)
(* them in the process.  From that, for any budgets and bounds: reports    *)
(* are true once they have arrived, and a settled television is in the     *)
(* state that the device's row asks for.                                   *)
(***************************************************************************)
EXTENDS AgentProcess, TelevisionProofs, SelfUpdateProofs, SequenceTheorems

AgentInv == TvInv /\ UpdateInv /\ LinkTypeOK

(***************************************************************************)
(* Sequences of what is under way.                                         *)
(***************************************************************************)
\* Removing an UPDATE or a request leaves the others in their order.
LEMMA RemoveAtEffect ==
    ASSUME NEW S, NEW seq \in Seq(S), NEW i \in 1..Len(seq)
    PROVE  /\ RemoveAt(seq, i) \in Seq(S)
           /\ Len(RemoveAt(seq, i)) = Len(seq) - 1
           /\ \A j \in 1..(Len(seq) - 1) :
                 RemoveAt(seq, i)[j] = IF j < i THEN seq[j] ELSE seq[j + 1]
<1> DEFINE before == SubSeq(seq, 1, i - 1)
<1> DEFINE after == SubSeq(seq, i + 1, Len(seq))
<1>1. Len(seq) \in Nat /\ i \in Nat /\ 1 <= i /\ i <= Len(seq)
  OBVIOUS
<1>2. /\ before \in Seq(S) /\ Len(before) = i - 1
      /\ \A j \in 1..(i - 1) : before[j] = seq[j]
  <2>1. \A j \in 1..(i - 1) : seq[j] \in S
    BY <1>1
  <2>2. QED
    BY <1>1, <2>1, SubSeqProperties
<1>3. /\ after \in Seq(S) /\ Len(after) = Len(seq) - i
      /\ \A j \in 1..(Len(seq) - i) : after[j] = seq[i + j]
  <2>1. \A j \in (i + 1)..Len(seq) : seq[j] \in S
    BY <1>1
  <2>2. QED
    BY <1>1, <2>1, SubSeqProperties
<1>4. RemoveAt(seq, i) = before \o after
  BY DEF RemoveAt
<1> HIDE DEF before, after
<1>5. /\ before \o after \in Seq(S)
      /\ Len(before \o after) = Len(before) + Len(after)
      /\ \A j \in 1..(Len(before) + Len(after)) :
            (before \o after)[j] = IF j <= Len(before) THEN before[j] ELSE after[j - Len(before)]
  BY <1>2, <1>3, ConcatProperties
<1>6. \A j \in 1..(Len(seq) - 1) :
         RemoveAt(seq, i)[j] = IF j < i THEN seq[j] ELSE seq[j + 1]
  <2> SUFFICES ASSUME NEW j \in 1..(Len(seq) - 1)
               PROVE  (before \o after)[j] = IF j < i THEN seq[j] ELSE seq[j + 1]
    BY <1>4
  <2>1. CASE j < i
    BY <1>1, <1>2, <1>3, <1>5, <2>1
  <2>2. CASE ~(j < i)
    <3>1. /\ j \in 1..(Len(before) + Len(after)) /\ ~(j <= Len(before))
          /\ j - Len(before) = j - i + 1 /\ j - i + 1 \in 1..(Len(seq) - i)
          /\ i + (j - i + 1) = j + 1
      BY <1>1, <1>2, <1>3, <2>2
    <3>2. QED
      BY <1>3, <1>5, <2>2, <3>1
  <2>3. QED
    BY <2>1, <2>2
<1>7. QED
  BY <1>1, <1>2, <1>3, <1>4, <1>5, <1>6

\* A sequence without one of its elements has no others than it had.
LEMMA RemainsFrom ==
    ASSUME NEW S, NEW seq \in Seq(S), NEW i \in 1..Len(seq),
           NEW j \in 1..Len(RemoveAt(seq, i))
    PROVE  \E k \in 1..Len(seq) : k # i /\ RemoveAt(seq, i)[j] = seq[k]
<1>1. j \in 1..(Len(seq) - 1) /\ Len(seq) \in Nat
  BY RemoveAtEffect
<1>2. RemoveAt(seq, i)[j] = IF j < i THEN seq[j] ELSE seq[j + 1]
  BY <1>1, RemoveAtEffect
<1>3. CASE j < i
  BY <1>1, <1>2, <1>3
<1>4. CASE ~(j < i)
  <2>1. j + 1 \in 1..Len(seq) /\ j + 1 # i
    BY <1>1, <1>4
  <2>2. QED
    BY <1>2, <1>4, <2>1
<1>5. QED
  BY <1>3, <1>4

\* It has all the others.
LEMMA RemainsIn ==
    ASSUME NEW S, NEW seq \in Seq(S), NEW i \in 1..Len(seq), NEW k \in 1..Len(seq), k # i
    PROVE  \E j \in 1..Len(RemoveAt(seq, i)) : RemoveAt(seq, i)[j] = seq[k]
<1>1. Len(seq) \in Nat /\ Len(RemoveAt(seq, i)) = Len(seq) - 1
  BY RemoveAtEffect
<1>2. CASE k < i
  <2>1. k \in 1..(Len(seq) - 1)
    BY <1>1, <1>2
  <2>2. QED
    BY <1>1, <1>2, <2>1, RemoveAtEffect
<1>3. CASE ~(k < i)
  <2>1. k - 1 \in 1..(Len(seq) - 1) /\ ~(k - 1 < i) /\ (k - 1) + 1 = k
    BY <1>1, <1>3
  <2>2. QED
    BY <1>1, <2>1, RemoveAtEffect
<1>4. QED
  BY <1>2, <1>3

\* What is marked as older is as long as it was and of the same messages.
LEMMA OlderEffect ==
    ASSUME NEW pending \in Seq(Write)
    PROVE  /\ Older(pending) \in Seq(Write) /\ Len(Older(pending)) = Len(pending)
           /\ \A i \in 1..Len(pending) : ~Older(pending)[i].newest
<1>1. DOMAIN pending = 1..Len(pending) /\ Len(pending) \in Nat
  OBVIOUS
<1>2. \A i \in 1..Len(pending) :
         /\ [pending[i] EXCEPT !.newest = FALSE] \in Write
         /\ [pending[i] EXCEPT !.newest = FALSE].newest = FALSE
  <2>1. \A write \in Write : /\ [write EXCEPT !.newest = FALSE] \in Write
                             /\ [write EXCEPT !.newest = FALSE].newest = FALSE
    BY DEF Write
  <2>2. \A i \in 1..Len(pending) : pending[i] \in Write
    BY <1>1
  <2>3. QED
    BY <2>1, <2>2
<1>3. Older(pending) = [i \in 1..Len(pending) |-> [pending[i] EXCEPT !.newest = FALSE]]
  BY <1>1 DEF Older
<1>4. Older(pending) \in Seq(Write)
  BY <1>1, <1>2, <1>3
<1>5. Len(Older(pending)) = Len(pending)
  BY <1>1, <1>3, <1>4
<1>6. QED
  BY <1>2, <1>3, <1>4, <1>5

\* So are the messages that still arrive.
LEMMA ArrivingEffect ==
    ASSUME NEW messages \in Seq(DeviceMessage)
    PROVE  /\ Arriving(messages) \in Seq(Write) /\ Len(Arriving(messages)) = Len(messages)
           /\ \A i \in 1..Len(messages) : ~Arriving(messages)[i].newest
<1>1. DOMAIN messages = 1..Len(messages) /\ Len(messages) \in Nat
  OBVIOUS
<1>2. \A i \in 1..Len(messages) : [message |-> messages[i], newest |-> FALSE] \in Write
  BY <1>1 DEF Write
<1>3. Arriving(messages) = [i \in 1..Len(messages) |-> [message |-> messages[i], newest |-> FALSE]]
  BY <1>1 DEF Arriving
<1>4. Arriving(messages) \in Seq(Write)
  BY <1>1, <1>2, <1>3
<1>5. Len(Arriving(messages)) = Len(messages)
  BY <1>1, <1>3, <1>4
<1>6. QED
  BY <1>3, <1>4, <1>5

(***************************************************************************)
(* Steps of the process are steps of its parts.                            *)
(***************************************************************************)
\* A message of the queue is one the server sends.
LEMMA HeadOfDown ==
    ASSUME LinkTypeOK, down # <<>>
    PROVE  /\ Head(down) \in ServerMessage
           /\ Head(down).t # "tv_volume" => Head(down).on \in BOOLEAN
           /\ CommandOf(Head(down)) \in Command
           /\ Tail(down) \in Seq(ServerMessage)
<1>1. Head(down) \in ServerMessage /\ Tail(down) \in Seq(ServerMessage)
  BY DEF LinkTypeOK
<1>2. Head(down).t # "tv_volume" => Head(down).on \in BOOLEAN
  BY <1>1 DEF ServerMessage, Request, Setting
<1>3. QED
  BY <1>1, <1>2 DEF CommandOf, Command, Power

\* The television's part.
LEMMA StepOfTelevision ==
    ASSUME AgentInv, [Next]_vars
    PROVE  [TvNext]_tvVars
<1>1. ASSUME ReceiveTv
      PROVE  TvNext
  BY <1>1, HeadOfDown DEF AgentInv, ReceiveTv, Receive, TvNext
<1>2. CASE HandlerStep \/ HandlerEnds \/ Surroundings
  BY <1>2 DEF HandlerStep, HandlerEnds, Surroundings, TvNext
<1>3. CASE CheckEnds \/ Restart
  BY <1>3 DEF CheckEnds, Restart, TvNext
<1>4. CASE \/ Connect \/ Lookup \/ Register \/ Attach \/ ConnectionLost \/ ServerRestart
           \/ HeartbeatTimer \/ SendHeartbeat \/ ServerReceive
           \/ \E i \in 1..Len(writes) : ServerWrites(i)
           \/ \E i \in 1..Len(pushes) : PushCommand(i) \/ CommandFails(i)
           \/ \E on \in BOOLEAN : CommandPower(on)
           \/ \E enabled \in BOOLEAN : CommandAutoUpdate(enabled)
           \/ CommandVolume \/ ReceiveAutoUpdate \/ Newer \/ UpdateStep
  BY <1>4 DEF Connect, Lookup, Register, Attach, ConnectionLost, ServerRestart, HeartbeatTimer,
              SendHeartbeat, ServerReceive, ServerWrites, PushCommand, CommandFails,
              CommandPower, CommandAutoUpdate, Written, CommandVolume,
              ReceiveAutoUpdate, Newer, UpdateStep
<1>5. CASE UNCHANGED vars
  BY <1>5 DEF vars
<1>6. QED
  BY <1>1, <1>2, <1>3, <1>4, <1>5 DEF Next

\* The self-update's part.
LEMMA StepOfUpdate ==
    ASSUME AgentInv, [Next]_vars
    PROVE  [UpdateNext]_updateVars
<1>1. ASSUME ReceiveAutoUpdate
      PROVE  UpdateNext
  BY <1>1, HeadOfDown DEF AgentInv, ReceiveAutoUpdate, Receive, UpdateNext
<1>2. CASE UpdateStep \/ CheckEnds \/ Restart \/ Newer
  BY <1>2 DEF UpdateStep, CheckEnds, Restart, Newer, UpdateNext
<1>3. CASE \/ Connect \/ Lookup \/ Register \/ Attach \/ ConnectionLost \/ ServerRestart
           \/ HeartbeatTimer \/ SendHeartbeat \/ ServerReceive
           \/ \E i \in 1..Len(writes) : ServerWrites(i)
           \/ \E i \in 1..Len(pushes) : PushCommand(i) \/ CommandFails(i)
           \/ \E on \in BOOLEAN : CommandPower(on)
           \/ \E enabled \in BOOLEAN : CommandAutoUpdate(enabled)
           \/ CommandVolume \/ ReceiveTv \/ HandlerStep \/ HandlerEnds \/ Surroundings
  BY <1>3 DEF Connect, Lookup, Register, Attach, ConnectionLost, ServerRestart, HeartbeatTimer,
              SendHeartbeat, ServerReceive, ServerWrites, PushCommand, CommandFails,
              CommandPower, CommandAutoUpdate, Written, CommandVolume,
              ReceiveTv, HandlerStep, HandlerEnds, Surroundings
<1>4. CASE UNCHANGED vars
  BY <1>4 DEF vars
<1>5. QED
  BY <1>1, <1>2, <1>3, <1>4 DEF Next

(***************************************************************************)
(* Types of the link.                                                      *)
(***************************************************************************)
\* Spending leaves a budget.
LEMMA SpendKeepsBudget ==
    ASSUME left \in Budget, NEW what \in Kind, Spend(what)
    PROVE  left' \in Budget
<1>1. left[what] - 1 \in Nat
  BY DEF Spend, Budget
<1>2. QED
  BY <1>1 DEF Spend, Budget

\* A report writes itself to the row; hello writes its version only.
LEMMA ReportedEffect ==
    ASSUME row \in Row, NEW message \in DeviceMessage
    PROVE  /\ Reported(message) \in Row
           /\ Reported(message).desiredTvPower = row.desiredTvPower
           /\ IsHeartbeat(message) => Reported(message).reported = message
<1> DEFINE new == [field \in DOMAIN row.reported |->
        IF field \in DOMAIN message THEN message[field] ELSE row.reported[field]]
<1>1. row.reported \in Report /\ Reported(message) = [row EXCEPT !.reported = new]
  BY DEF Row, Reported
<1>2. DOMAIN row.reported = {"tvState", "version"}
  BY <1>1 DEF Report
<1>3. CASE message \in Report
  <2>1. DOMAIN message = {"tvState", "version"}
    BY <1>3 DEF Report
  <2>2. new = [field \in {"tvState", "version"} |-> message[field]]
    BY <1>2, <2>1
  <2>3. new = message
    BY <1>3, <2>1, <2>2 DEF Report
  <2> HIDE DEF new
  <2>4. QED
    BY <1>1, <1>3, <2>3 DEF Row
<1>4. CASE message \in [version : Nat]
  <2>1. DOMAIN message = {"version"}
    BY <1>4
  <2>2. new = [tvState |-> row.reported.tvState, version |-> message.version]
    BY <1>1, <1>2, <2>1 DEF Report
  <2>3. new \in Report
    BY <1>1, <1>4, <2>2 DEF Report
  <2> HIDE DEF new
  <2>4. QED
    BY <1>1, <2>1, <2>3 DEF Row, IsHeartbeat
<1>5. QED
  BY <1>3, <1>4 DEF DeviceMessage

\* What is replayed are messages, the last of them the power that was read, if any.
LEMMA ReplayEffect ==
    ASSUME lookedUp \in Settings
    PROVE  /\ Replay \in Seq(ServerMessage)
           /\ lookedUp.desiredTvPower # None =>
                 Replay[Len(Replay)] = TvPower(lookedUp.desiredTvPower) /\ Len(Replay) \in Nat \ {0}
<1>1. /\ lookedUp.autoUpdate \in BOOLEAN
      /\ lookedUp.desiredTvPower # None => lookedUp.desiredTvPower \in BOOLEAN
  BY DEF Settings
<1> DEFINE flag == AutoUpdate(lookedUp.autoUpdate)
<1> DEFINE power == TvPower(lookedUp.desiredTvPower)
<1>2. flag \in ServerMessage
  BY <1>1 DEF ServerMessage, Request, Setting, AutoUpdate
<1>3. lookedUp.desiredTvPower # None => power \in ServerMessage
  BY <1>1 DEF ServerMessage, Request, Setting, TvPower
<1>4. Replay = <<flag>> \o IF lookedUp.desiredTvPower # None THEN <<power>> ELSE <<>>
  BY DEF Replay
<1> HIDE DEF flag, power
<1>5. <<flag>> \in Seq(ServerMessage) /\ <<>> \in Seq(ServerMessage)
  BY <1>2
<1>6. CASE lookedUp.desiredTvPower = None
  BY <1>4, <1>5, <1>6
<1>7. CASE lookedUp.desiredTvPower # None
  <2>1. <<power>> \in Seq(ServerMessage)
    BY <1>3, <1>7
  <2>2. Replay = <<flag>> \o <<power>>
    BY <1>4, <1>7
  <2>3. Replay \in Seq(ServerMessage) /\ Len(Replay) = 2 /\ Replay[2] = power
    BY <1>5, <2>1, <2>2
  <2>4. QED
    BY <2>3 DEF power
<1>8. QED
  BY <1>6, <1>7

\* A lost connection leaves nothing but the UPDATEs under way and late messages,
\* none of them the newest.
LEMMA DisconnectedEffect ==
    ASSUME LinkTypeOK, Disconnected(up)
    PROVE  /\ link' = "closed" /\ lookedUp' = None /\ heard' = FALSE
           /\ down' = <<>> /\ up' = <<>>
           /\ writes' \in Seq(Write) /\ Len(writes') <= MaxWrites
           /\ \A i \in 1..Len(writes') : ~writes'[i].newest
<1>1. /\ writes \in Seq(Write) /\ Len(writes) <= MaxWrites
      /\ up \in Seq(DeviceMessage)
  BY DEF LinkTypeOK
<1>2. CASE writes' = Older(writes)
  BY <1>1, <1>2, OlderEffect DEF Disconnected
<1>3. CASE writes' = Older(writes) \o Arriving(up) /\ Len(writes) + Len(up) <= MaxWrites
  <2> DEFINE old == Older(writes)
  <2> DEFINE late == Arriving(up)
  <2>1. /\ old \in Seq(Write) /\ Len(old) = Len(writes)
        /\ \A i \in 1..Len(writes) : ~old[i].newest
        /\ late \in Seq(Write) /\ Len(late) = Len(up)
        /\ \A i \in 1..Len(up) : ~late[i].newest
        /\ Len(writes) \in Nat /\ Len(up) \in Nat
    BY <1>1, OlderEffect, ArrivingEffect
  <2>2. writes' = old \o late
    BY <1>3
  <2> HIDE DEF old, late
  <2>3. /\ writes' \in Seq(Write) /\ Len(writes') = Len(writes) + Len(up)
        /\ \A i \in 1..(Len(writes) + Len(up)) : writes'[i] =
              IF i <= Len(writes) THEN old[i] ELSE late[i - Len(writes)]
    <3>1. old \in Seq(Write) /\ late \in Seq(Write)
      BY <2>1
    <3>2. /\ old \o late \in Seq(Write) /\ Len(old \o late) = Len(old) + Len(late)
          /\ \A i \in 1..(Len(old) + Len(late)) : (old \o late)[i] =
                IF i <= Len(old) THEN old[i] ELSE late[i - Len(old)]
      BY <3>1, ConcatProperties
    <3>3. QED
      BY <2>1, <2>2, <3>2
  <2>4. ASSUME NEW i \in 1..Len(writes')
        PROVE  ~writes'[i].newest
    <3>1. CASE i <= Len(writes)
      BY <2>1, <2>3, <3>1
    <3>2. CASE ~(i <= Len(writes))
      <4>1. i - Len(writes) \in 1..Len(up)
        BY <2>1, <2>3, <3>2
      <4>2. QED
        BY <2>1, <2>3, <3>2, <4>1
    <3>3. QED
      BY <3>1, <3>2
  <2>5. QED
    BY <1>3, <2>3, <2>4 DEF Disconnected
<1>4. QED
  BY <1>2, <1>3 DEF Disconnected

\* It keeps the types of the link.
LEMMA DisconnectedType ==
    ASSUME LinkTypeOK, Disconnected(up), row' \in Row, left' \in Budget,
           UNCHANGED <<pushes, raced>>, collecting' \in 0..MaxBeats
    PROVE  LinkTypeOK'
<1>1. <<>> \in Seq(DeviceMessage) /\ <<>> \in Seq(ServerMessage)
  OBVIOUS
<1>2. pushes \in Seq(Request) /\ raced \subseteq Setting
  BY DEF LinkTypeOK
<1>3. QED
  BY <1>1, <1>2, DisconnectedEffect DEF LinkTypeOK

\* A request is one the server can push.
LEMMA RequestIsMessage ==
    ASSUME LinkTypeOK, NEW i \in 1..Len(pushes)
    PROVE  /\ pushes[i] \in Request /\ pushes[i] \in ServerMessage
           /\ pushes[i].t \in Setting
           /\ RemoveAt(pushes, i) \in Seq(Request)
<1>1. pushes \in Seq(Request)
  BY DEF LinkTypeOK
<1>2. pushes[i] \in Request
  BY <1>1
<1>3. RemoveAt(pushes, i) \in Seq(Request)
  BY <1>1, RemoveAtEffect
<1>4. QED
  BY <1>2, <1>3 DEF Request, ServerMessage

\* A request is written.
LEMMA WrittenType ==
    ASSUME LinkTypeOK, NEW request \in Request, Written(request), row' \in Row, left' \in Budget
    PROVE  LinkTypeOK'
<1>1. pushes \in Seq(Request) /\ raced \subseteq Setting /\ request.t \in Setting
  BY DEF LinkTypeOK, Request
<1>2. pushes' \in Seq(Request)
  BY <1>1 DEF Written
<1>3. raced' \subseteq Setting
  BY <1>1 DEF Written
<1>4. UNCHANGED <<link, lookedUp, down, up, writes, collecting, heard>>
  BY DEF Written
<1>5. QED
  BY <1>2, <1>3, <1>4 DEF LinkTypeOK

\* Heartbeats never wait in greater number than the bound.
LEMMA BeatType ==
    ASSUME LinkTypeOK, Beat \/ UNCHANGED collecting
    PROVE  collecting' \in 0..MaxBeats
BY AgentAssumption DEF Beat, LinkTypeOK

\* Every step keeps the types of the link.
LEMMA LinkTypes ==
    ASSUME AgentInv, [Next]_vars
    PROVE  LinkTypeOK'
<1> USE DEF AgentInv
<1>0. /\ [tvState |-> tvState, version |-> running.agent] \in Report
      /\ [version |-> running.agent] \in DeviceMessage
  <2>1. running.agent \in Nat
    BY DEF UpdateInv, UpdateTypeOK, Build
  <2>2. QED
    BY <2>1 DEF TvInv, TvTypeOK, Report, DeviceMessage
<1>1. CASE Connect
  <2>1. <<[version |-> running.agent]>> \in Seq(DeviceMessage)
    BY <1>0
  <2>2. collecting' \in 0..MaxBeats
    BY <1>1, AgentAssumption DEF Connect, LinkTypeOK
  <2>3. QED
    BY <1>1, <2>1, <2>2 DEF Connect, LinkTypeOK
<1>2. CASE Lookup
  <2>1. lookedUp' \in Settings /\ lookedUp' # None
    BY <1>2, AgentAssumption DEF Lookup, LinkTypeOK, Row, Settings
  <2>2. raced' \subseteq Setting
    BY <1>2 DEF Lookup, LinkTypeOK
  <2>3. QED
    BY <1>2, <2>1, <2>2 DEF Lookup, LinkTypeOK
<1>3. CASE Register
  BY <1>3 DEF Register, LinkTypeOK
<1>4. CASE Attach
  <2>1. lookedUp \in Settings
    BY <1>4 DEF Attach, LinkTypeOK
  <2>2. Replay \in Seq(ServerMessage) /\ down \in Seq(ServerMessage)
    BY <2>1, ReplayEffect DEF LinkTypeOK
  <2>3. down' \in Seq(ServerMessage)
    BY <1>4, <2>2 DEF Attach
  <2>4. QED
    BY <1>4, <2>3 DEF Attach, LinkTypeOK
<1>5. CASE ConnectionLost
  <2>1. left' \in Budget
    BY <1>5, SpendKeepsBudget DEF ConnectionLost, LinkTypeOK, Kind
  <2>2. row' \in Row /\ collecting' \in 0..MaxBeats
    BY <1>5 DEF ConnectionLost, LinkTypeOK
  <2>3. QED
    BY <1>5, <2>1, <2>2, DisconnectedType DEF ConnectionLost
<1>6. CASE ServerRestart
  <2>1. left' \in Budget
    BY <1>6, SpendKeepsBudget DEF ServerRestart, LinkTypeOK, Kind
  <2>2. raced' \subseteq Setting
    <3>1. \A i \in 1..Len(pushes) : pushes[i].t \in Setting
      BY RequestIsMessage
    <3>2. QED
      BY <1>6, <3>1 DEF ServerRestart, LinkTypeOK, Pending
  <2>3. /\ <<>> \in Seq(ServerMessage) /\ <<>> \in Seq(DeviceMessage)
        /\ <<>> \in Seq(Request) /\ <<>> \in Seq(Write) /\ Len(<<>>) <= MaxWrites
    BY AgentAssumption
  <2>4. /\ link' = "closed" /\ lookedUp' = None /\ heard' = FALSE
        /\ down' = <<>> /\ up' = <<>> /\ writes' = <<>> /\ pushes' = <<>>
        /\ UNCHANGED <<collecting, row>>
    BY <1>6 DEF ServerRestart
  <2>5. QED
    BY <2>1, <2>2, <2>3, <2>4 DEF LinkTypeOK
<1>7. CASE HeartbeatTimer
  BY <1>7, BeatType DEF HeartbeatTimer, LinkTypeOK
<1>8. CASE SendHeartbeat
  <2>1. [tvState |-> tvState, version |-> running.agent] \in DeviceMessage
    BY <1>0 DEF DeviceMessage
  <2>2. up' \in Seq(DeviceMessage)
    <3> DEFINE state == [tvState |-> tvState, version |-> running.agent]
    <3>1. up \in Seq(DeviceMessage) /\ state \in DeviceMessage
      BY <2>1 DEF LinkTypeOK
    <3>2. up' = up \/ up' = Append(up, state)
      BY <1>8 DEF SendHeartbeat
    <3> HIDE DEF state
    <3>3. QED
      BY <3>1, <3>2
  <2>3. collecting' \in 0..MaxBeats
    BY <1>8, AgentAssumption DEF SendHeartbeat, LinkTypeOK
  <2>4. QED
    BY <1>8, <2>2, <2>3 DEF SendHeartbeat, LinkTypeOK
<1>9. CASE ServerReceive
  <2>1. Head(up) \in DeviceMessage /\ up' \in Seq(DeviceMessage)
    BY <1>9 DEF ServerReceive, LinkTypeOK
  <2>2. left' \in Budget
    BY <1>9, SpendKeepsBudget DEF ServerReceive, LinkTypeOK, Kind
  <2>3. writes' \in Seq(Write) /\ Len(writes') <= MaxWrites
    <3> DEFINE new == [message |-> Head(up), newest |-> TRUE]
    <3>1. new \in Write /\ writes \in Seq(Write) /\ Len(writes) <= MaxWrites
      BY <2>1 DEF Write, LinkTypeOK
    <3>2. \/ writes' = writes
          \/ Len(writes) < MaxWrites /\ writes' = Append(Older(writes), new)
      BY <1>9 DEF ServerReceive
    <3> HIDE DEF new
    <3>3. Older(writes) \in Seq(Write) /\ Len(Older(writes)) = Len(writes)
      BY <3>1, OlderEffect
    <3>4. QED
      BY <3>1, <3>2, <3>3, AgentAssumption
  <2>4. QED
    BY <1>9, <2>1, <2>2, <2>3 DEF ServerReceive, LinkTypeOK
<1>10. ASSUME NEW i \in 1..Len(writes), ServerWrites(i)
       PROVE  LinkTypeOK'
  <2>1. writes \in Seq(Write) /\ Len(writes) <= MaxWrites
    BY DEF LinkTypeOK
  <2>2. writes[i] \in Write
    BY <2>1
  <2>3. row' \in Row /\ heard' \in BOOLEAN
    BY <1>10, <2>2, ReportedEffect DEF ServerWrites, LinkTypeOK, Write, IsHeartbeat
  <2>4. writes' \in Seq(Write) /\ Len(writes') <= MaxWrites
    BY <1>10, <2>1, RemoveAtEffect, AgentAssumption DEF ServerWrites
  <2>5. QED
    BY <1>10, <2>3, <2>4 DEF ServerWrites, LinkTypeOK
<1>11. ASSUME NEW on \in BOOLEAN, CommandPower(on)
       PROVE  LinkTypeOK'
  <2>1. left' \in Budget
    BY <1>11, SpendKeepsBudget DEF CommandPower, LinkTypeOK, Kind
  <2>2. TvPower(on) \in Request
    BY DEF TvPower, Request, Setting
  <2>3. row' \in Row
    BY <1>11 DEF CommandPower, LinkTypeOK, Row
  <2>4. QED
    BY <1>11, <2>1, <2>2, <2>3, WrittenType DEF CommandPower
<1>12. ASSUME NEW enabled \in BOOLEAN, CommandAutoUpdate(enabled)
       PROVE  LinkTypeOK'
  <2>1. left' \in Budget
    BY <1>12, SpendKeepsBudget DEF CommandAutoUpdate, LinkTypeOK, Kind
  <2>2. AutoUpdate(enabled) \in Request
    BY DEF AutoUpdate, Request, Setting
  <2>3. row' \in Row
    BY <1>12 DEF CommandAutoUpdate, LinkTypeOK, Row
  <2>4. QED
    BY <1>12, <2>1, <2>2, <2>3, WrittenType DEF CommandAutoUpdate
<1>13. ASSUME NEW i \in 1..Len(pushes), PushCommand(i)
       PROVE  LinkTypeOK'
  <2>1. down' \in Seq(ServerMessage)
    BY <1>13, RequestIsMessage DEF PushCommand, Pushed, LinkTypeOK
  <2>2. raced' \subseteq Setting /\ pushes' \in Seq(Request)
    BY <1>13, RequestIsMessage DEF PushCommand, LinkTypeOK
  <2>3. QED
    BY <1>13, <2>1, <2>2 DEF PushCommand, LinkTypeOK
<1>14. ASSUME NEW i \in 1..Len(pushes), CommandFails(i)
       PROVE  LinkTypeOK'
  <2>1. left' \in Budget
    BY <1>14, SpendKeepsBudget DEF CommandFails, LinkTypeOK, Kind
  <2>2. raced' \subseteq Setting /\ pushes' \in Seq(Request)
    BY <1>14, RequestIsMessage DEF CommandFails, LinkTypeOK
  <2>3. QED
    BY <1>14, <2>1, <2>2 DEF CommandFails, LinkTypeOK
<1>15. CASE CommandVolume
  <2>1. left' \in Budget
    BY <1>15, SpendKeepsBudget DEF CommandVolume, LinkTypeOK, Kind
  <2>2. [t |-> "tv_volume"] \in ServerMessage
    BY DEF ServerMessage
  <2>3. down' \in Seq(ServerMessage)
    BY <1>15, <2>2 DEF CommandVolume, Pushed, LinkTypeOK
  <2>4. QED
    BY <1>15, <2>1, <2>3 DEF CommandVolume, LinkTypeOK
<1>16. CASE ReceiveAutoUpdate
  BY <1>16, HeadOfDown DEF ReceiveAutoUpdate, Receive, LinkTypeOK
<1>17. CASE ReceiveTv
  <2>1. Receive /\ (Beat \/ UNCHANGED collecting)
    BY <1>17 DEF ReceiveTv
  <2>2. QED
    BY <2>1, HeadOfDown, BeatType DEF Receive, LinkTypeOK
<1>18. CASE HandlerStep \/ Surroundings
  <2>1. UNCHANGED linkVars /\ (UNCHANGED left \/ Spend("failure") \/ Spend("viewer"))
    BY <1>18 DEF HandlerStep, Surroundings
  <2>2. left' \in Budget
    BY <2>1, SpendKeepsBudget DEF LinkTypeOK, Kind
  <2>3. QED
    BY <2>1, <2>2 DEF linkVars, LinkTypeOK
<1>19. CASE HandlerEnds
  <2>1. /\ UNCHANGED <<link, lookedUp, down, up, writes, heard, row, pushes, raced>>
        /\ Beat \/ UNCHANGED collecting
        /\ UNCHANGED left \/ Spend("failure")
    BY <1>19 DEF HandlerEnds, ReportedBy
  <2>2. left' \in Budget
    BY <2>1, SpendKeepsBudget DEF LinkTypeOK, Kind
  <2>3. QED
    BY <2>1, <2>2, BeatType DEF LinkTypeOK
<1>20. CASE Newer \/ UpdateStep
  <2>1. UNCHANGED linkVars /\ (UNCHANGED left \/ Spend("failure") \/ Spend("push"))
    BY <1>20 DEF Newer, UpdateStep
  <2>2. left' \in Budget
    BY <2>1, SpendKeepsBudget DEF LinkTypeOK, Kind
  <2>3. QED
    BY <2>1, <2>2 DEF linkVars, LinkTypeOK
<1>21. CASE CheckEnds
  <2>1. CASE script = "exit2"
    <3>1. /\ Disconnected(up) /\ collecting' = 0 /\ 0 \in 0..MaxBeats
          /\ UNCHANGED <<row, pushes, raced, left>>
      BY <1>21, <2>1, AgentAssumption DEF CheckEnds
    <3>2. row' \in Row /\ left' \in Budget
      BY <3>1 DEF LinkTypeOK
    <3>3. QED
      BY <3>1, <3>2, DisconnectedType
  <2>2. CASE script # "exit2"
    BY <1>21, <2>2 DEF CheckEnds, LinkTypeOK
  <2>3. QED
    BY <2>1, <2>2
<1>22. CASE Restart
  <2>1. left' \in Budget
    BY <1>22, SpendKeepsBudget DEF Restart, LinkTypeOK, Kind
  <2>2. collecting' \in 0..MaxBeats /\ row' \in Row
    BY <1>22, AgentAssumption DEF Restart, LinkTypeOK
  <2>3. QED
    BY <1>22, <2>1, <2>2, DisconnectedType DEF Restart
<1>23. CASE UNCHANGED vars
  BY <1>23 DEF vars, linkVars, LinkTypeOK
<1>24. QED
  BY <1>1, <1>2, <1>3, <1>4, <1>5, <1>6, <1>7, <1>8, <1>9, <1>10, <1>11, <1>12, <1>13,
     <1>14, <1>15, <1>16, <1>17, <1>18, <1>19, <1>20, <1>21, <1>22, <1>23 DEF Next

(***************************************************************************)
(* The parts.                                                              *)
(***************************************************************************)
\* The invariant of the parts and the types of the link.
LEMMA AgentInvHolds == Spec => []AgentInv
<1>1. Init => AgentInv
  <2> SUFFICES ASSUME Init PROVE AgentInv
    OBVIOUS
  <2>1. TvInv /\ UpdateInv
    BY TvInvInit, UpdateInvInit DEF Init
  <2>2. PICK start \in Starts :
           /\ row = [desiredTvPower |-> start.desiredTvPower, autoUpdate |-> FALSE,
                     reported |-> [tvState |-> "unknown", version |-> 1]]
           /\ left = start.budget
    BY DEF Init
  <2>3. start \in Start
    BY AgentAssumption
  <2>4. row \in Row /\ left \in Budget
    BY <2>2, <2>3 DEF Start, Row, Report
  <2>5. LinkTypeOK
    <3>1. 0 \in 0..MaxBeats /\ Len(<<>>) <= MaxWrites
      BY AgentAssumption
    <3>2. /\ <<>> \in Seq(ServerMessage) /\ <<>> \in Seq(DeviceMessage)
          /\ <<>> \in Seq(Write) /\ <<>> \in Seq(Request)
      OBVIOUS
    <3>3. /\ link = "closed" /\ lookedUp = None /\ heard = FALSE /\ collecting = 0
          /\ down = <<>> /\ up = <<>> /\ writes = <<>> /\ pushes = <<>> /\ raced = {}
      BY DEF Init
    <3>4. QED
      BY <2>4, <3>1, <3>2, <3>3, Zenon DEF LinkTypeOK
  <2>6. QED
    BY <2>1, <2>5 DEF AgentInv
<1>2. AgentInv /\ [Next]_vars => AgentInv'
  BY StepOfTelevision, StepOfUpdate, LinkTypes, TvInvNext, UpdateInvNext DEF AgentInv
<1>3. QED
  BY <1>1, <1>2, PTL DEF Spec

\* The process keeps its types.
THEOREM AgentTypeCorrect == Spec => []TypeOK
<1>1. AgentInv => TypeOK
  BY DEF AgentInv, TypeOK, TvInv, UpdateInv
<1>2. QED
  BY <1>1, AgentInvHolds, PTL

\* The process implements its parts: its television's handlers and its self-update
\* do nothing that Television and SelfUpdate do not allow (agent.ts 78-115).
THEOREM AgentImplementsParts == Spec => TvSpec /\ UpdateSpec
<1>1. Init => TvInit /\ UpdateInit
  BY DEF Init
<1>2. AgentInv /\ [Next]_vars => [TvNext]_tvVars /\ [UpdateNext]_updateVars
  BY StepOfTelevision, StepOfUpdate
<1>3. QED
  BY <1>1, <1>2, AgentInvHolds, PTL DEF Spec, TvSpec, UpdateSpec

\* In the process, too, a power command that met no other one, no viewer and no
\* failure has done what it reports (cec.ts 97-121).
THEOREM AgentReportIsTrue == Spec => []TvStateTrue
BY AgentImplementsParts, PowerReportIsTrue, PTL

\* In the process, too, a television that answers is found (cec.ts 38-66).
THEOREM AgentFindsTelevision == Spec => []AdapterKnownAfterSearch
BY AgentImplementsParts, TelevisionIsFound, PTL

\* In the process, too, "already up to date" is true (self-update.sh 20-35).
THEOREM AgentUpToDate == Spec => []RunsCheckout
BY AgentImplementsParts, UpToDateIsTrue, PTL

(***************************************************************************)
(* Reports.                                                                *)
(***************************************************************************)
Now == [tvState |-> tvState, version |-> running.agent]

\* No UPDATE of the newest message is under way.
NoneNewest == \A i \in 1..Len(writes) : ~writes[i].newest

\* If no heartbeat is being collected the newest one sent shows the state of now,
\* wherever it is: on its way, in an UPDATE under way or, once heard, in the row.
ReportInv ==
    /\ link = "closed" => up = <<>>
    /\ link # "live" => ~heard /\ NoneNewest
    /\ collecting = 0 /\ up # <<>> => up[Len(up)] = Now
    /\ collecting = 0 /\ up = <<>> =>
          \A i \in 1..Len(writes) : writes[i].newest => writes[i].message = Now
    /\ collecting = 0 /\ up = <<>> /\ heard /\ NoneNewest => row.reported = Now

\* What the agent reports does not change unless a heartbeat follows or the
\* connection is gone.
LEMMA ChangeIsReported ==
    ASSUME AgentInv, [Next]_vars
    PROVE  \/ UNCHANGED Now
           \/ collecting' > 0
           \/ link' = "closed" /\ up' = <<>>
<1> USE DEF AgentInv
<1>1. Beat => collecting' > 0
  BY DEF Beat, LinkTypeOK
<1>2. CASE ReceiveTv
  BY <1>1, <1>2 DEF ReceiveTv, StartSearch, StartCalls, Drop, updateVars, Now
<1>3. CASE HandlerEnds
  <2>1. PICK h \in Handler :
           /\ SearchEnds(h, FALSE) \/ Return(h) \/ SearchEnds(h, TRUE) \/ CallFails(h)
           /\ ReportedBy(h)
           /\ UNCHANGED updateVars
    BY <1>3 DEF HandlerEnds
  <2>2. CASE handler[h].command \in Power
    BY <1>1, <2>1, <2>2 DEF ReportedBy
  <2>3. CASE handler[h].command \notin Power
    <3>1. UNCHANGED tvState
      BY <2>1, <2>3 DEF SearchEnds, Return, CallFails, Resolve
    <3>2. QED
      BY <2>1, <3>1 DEF updateVars, Now
  <2>4. QED
    BY <2>2, <2>3
<1>4. CASE CheckEnds
  BY <1>4 DEF CheckEnds, OnScriptExit, Disconnected, tvVars, Now
<1>5. CASE Restart
  BY <1>5 DEF Restart, Disconnected
<1>6. CASE HandlerStep \/ Surroundings
  BY <1>6 DEF HandlerStep, Surroundings, SearchFinds, SearchNext, Claim, FirstCall, SecondCall,
              Viewer, PlugIn, updateVars, Now
<1>7. CASE ReceiveAutoUpdate
  BY <1>7 DEF ReceiveAutoUpdate, SetAutoUpdate, tvVars, Now
<1>8. CASE Newer \/ UpdateStep
  BY <1>8 DEF Newer, UpdateStep, Push, CheckForUpdate, Sync, SyncFails, Install, BuildShared,
              BuildAgent, StepFails, tvVars, Now
<1>9. CASE \/ Connect \/ Lookup \/ Register \/ Attach \/ ConnectionLost \/ ServerRestart
           \/ HeartbeatTimer \/ SendHeartbeat \/ ServerReceive
           \/ \E i \in 1..Len(writes) : ServerWrites(i)
           \/ \E i \in 1..Len(pushes) : PushCommand(i) \/ CommandFails(i)
           \/ \E on \in BOOLEAN : CommandPower(on)
           \/ \E enabled \in BOOLEAN : CommandAutoUpdate(enabled)
           \/ CommandVolume
  <2>1. UNCHANGED <<tvVars, updateVars>>
    BY <1>9 DEF Connect, Lookup, Register, Attach, ConnectionLost, ServerRestart,
                HeartbeatTimer, SendHeartbeat, ServerReceive, ServerWrites, PushCommand,
                CommandFails, CommandPower, CommandAutoUpdate, Written, CommandVolume
  <2>2. QED
    BY <2>1 DEF tvVars, updateVars, Now
<1>10. CASE UNCHANGED vars
  BY <1>10 DEF vars, tvVars, updateVars, Now
<1>11. QED
  BY <1>2, <1>3, <1>4, <1>5, <1>6, <1>7, <1>8, <1>9, <1>10 DEF Next

\* What a step may do with reports: nothing; collect one more; lose the connection;
\* open one; send one; have one arrive; or execute an UPDATE.
LEMMA ReportStep ==
    ASSUME AgentInv, [Next]_vars
    PROVE  \/ /\ UNCHANGED <<up, heard, writes>> /\ row'.reported = row.reported
              /\ link' = "closed" => link = "closed"
              /\ link = "live" => link' = "live"
              /\ UNCHANGED collecting \/ Beat
           \/ link' = "closed" /\ up' = <<>> /\ ~heard' /\ NoneNewest'
           \/ Connect \/ SendHeartbeat \/ ServerReceive
           \/ \E i \in 1..Len(writes) : ServerWrites(i)
<1> USE DEF AgentInv
<1>1. ASSUME NEW on \in BOOLEAN, CommandPower(on)
      PROVE  UNCHANGED <<link, up, heard, writes, collecting>> /\ row'.reported = row.reported
  BY <1>1 DEF CommandPower, Written, LinkTypeOK, Row
<1>2. ASSUME NEW on \in BOOLEAN, CommandAutoUpdate(on)
      PROVE  UNCHANGED <<link, up, heard, writes, collecting>> /\ row'.reported = row.reported
  BY <1>2 DEF CommandAutoUpdate, Written, LinkTypeOK, Row
<1>3. ASSUME NEW i \in 1..Len(pushes), PushCommand(i) \/ CommandFails(i)
      PROVE  UNCHANGED <<link, up, heard, writes, collecting, row>>
  BY <1>3 DEF PushCommand, CommandFails
<1>4. CASE Lookup \/ Register \/ Attach
  BY <1>4 DEF Lookup, Register, Attach
<1>5. CASE \/ HeartbeatTimer \/ CommandVolume \/ ReceiveAutoUpdate \/ ReceiveTv \/ HandlerEnds
  BY <1>5 DEF HeartbeatTimer, CommandVolume, ReceiveAutoUpdate, ReceiveTv, Receive,
              HandlerEnds, ReportedBy
<1>6. CASE HandlerStep \/ Surroundings \/ Newer \/ UpdateStep \/ UNCHANGED vars
  BY <1>6 DEF HandlerStep, Surroundings, Newer, UpdateStep, vars, linkVars
<1>7. CASE Disconnected(up)
  BY <1>7, DisconnectedEffect DEF NoneNewest
<1>8. CASE ServerRestart
  <2>1. writes' = <<>> /\ Len(<<>>) = 0
    BY <1>8 DEF ServerRestart
  <2>2. QED
    BY <1>8, <2>1 DEF ServerRestart, NoneNewest
<1>9. CASE ConnectionLost \/ Restart
  BY <1>7, <1>9 DEF ConnectionLost, Restart
<1>10. CASE CheckEnds
  BY <1>7, <1>10 DEF CheckEnds
<1>11. QED
  BY <1>1, <1>2, <1>3, <1>4, <1>5, <1>6, <1>8, <1>9, <1>10, Zenon DEF Next

\* A message arrives.
LEMMA ServerReceiveKeepsReports ==
    ASSUME AgentInv, ReportInv, ServerReceive
    PROVE  ReportInv'
<1>1. /\ up \in Seq(DeviceMessage) /\ up # <<>> /\ writes \in Seq(Write)
      /\ up' = Tail(up)
  BY DEF AgentInv, LinkTypeOK, ServerReceive
<1>2. UNCHANGED <<Now, collecting, link, heard, row>>
  BY DEF ServerReceive, tvVars, updateVars, Now
<1>3. up' # <<>> => up'[Len(up')] = up[Len(up)]
  BY <1>1
<1>4. up' = <<>> => Head(up) = up[Len(up)]
  <2> SUFFICES ASSUME up' = <<>> PROVE Head(up) = up[Len(up)]
    OBVIOUS
  <2>1. Len(Tail(up)) = Len(up) - 1 /\ Len(up) \in Nat /\ Head(up) = up[1] /\ Len(<<>>) = 0
    BY <1>1
  <2>2. Len(Tail(up)) = 0
    BY <1>1, <2>1, Zenon
  <2>3. Len(up) = 1
    BY <2>1, <2>2
  <2>4. QED
    BY <2>1, <2>3
<1>5. link # "closed"
  BY <1>1 DEF ReportInv
<1>6. collecting' = 0 /\ up' # <<>> => up'[Len(up')] = Now'
  BY <1>1, <1>2, <1>3, Zenon DEF ReportInv
<1>7. collecting = 0 /\ up' = <<>> => Head(up) = Now
  BY <1>1, <1>4, Zenon DEF ReportInv
<1>8. CASE link # "live"
  <2>1. UNCHANGED writes /\ ~heard /\ NoneNewest
    BY <1>8 DEF ServerReceive, ReportInv
  <2>2. NoneNewest'
    BY <2>1 DEF NoneNewest
  <2>3. QED
    BY <1>2, <1>5, <1>6, <2>1, <2>2, Zenon DEF ReportInv, NoneNewest
<1>9. CASE link = "live"
  <2> DEFINE new == [message |-> Head(up), newest |-> TRUE]
  <2>0. Head(up) \in DeviceMessage
    BY <1>1
  <2>1. writes' = Append(Older(writes), new) /\ new \in Write
    BY <1>9, <2>0 DEF ServerReceive, Write
  <2>2. new.newest /\ new.message = Head(up)
    OBVIOUS
  <2> HIDE DEF new
  <2>3. /\ Older(writes) \in Seq(Write) /\ Len(Older(writes)) = Len(writes)
        /\ Len(writes) \in Nat
        /\ \A i \in 1..Len(writes) : ~Older(writes)[i].newest
    BY <1>1, OlderEffect
  <2>4. /\ Len(writes') = Len(writes) + 1 /\ writes'[Len(writes) + 1] = new
        /\ \A i \in 1..Len(writes) : writes'[i] = Older(writes)[i]
    BY <2>1, <2>3
  <2>5. Len(writes) + 1 \in 1..Len(writes')
    BY <2>3, <2>4
  <2>6. ~NoneNewest'
    BY <2>2, <2>4, <2>5 DEF NoneNewest
  <2>7. ASSUME collecting = 0, up' = <<>>, NEW i \in 1..Len(writes'), writes'[i].newest
        PROVE  writes'[i].message = Now
    <3>1. i = Len(writes) + 1
      <4>1. i \notin 1..Len(writes)
        BY <2>3, <2>4, <2>7
      <4>2. QED
        BY <2>3, <2>4, <4>1
    <3>2. QED
      BY <1>7, <2>2, <2>4, <2>7, <3>1
  <2>8. collecting' = 0 /\ up' = <<>> =>
           \A i \in 1..Len(writes') : writes'[i].newest => writes'[i].message = Now'
    BY <1>2, <2>7, Zenon
  <2>9. link' = "live"
    BY <1>2, <1>9
  <2>10. QED
    BY <1>6, <2>6, <2>8, <2>9, Zenon DEF ReportInv
<1>10. QED
  BY <1>8, <1>9

\* An UPDATE is executed.
LEMMA ServerWritesKeepsReports ==
    ASSUME AgentInv, ReportInv, NEW i \in 1..Len(writes), ServerWrites(i)
    PROVE  ReportInv'
<1>1. /\ writes \in Seq(Write) /\ row \in Row /\ writes[i] \in Write
      /\ writes' = RemoveAt(writes, i)
  BY DEF AgentInv, LinkTypeOK, ServerWrites
<1>2. UNCHANGED <<Now, collecting, link, up>>
  BY DEF ServerWrites, tvVars, updateVars, Now
<1>3. \A j \in 1..Len(writes') : \E k \in 1..Len(writes) : k # i /\ writes'[j] = writes[k]
  BY <1>1, RemainsFrom
<1>4. NoneNewest => NoneNewest'
  BY <1>3 DEF NoneNewest
<1>5. link # "live" => ~heard' /\ NoneNewest'
  BY <1>1, <1>4 DEF ReportInv, ServerWrites, NoneNewest
<1>6. ASSUME collecting = 0, up = <<>>, heard'
      PROVE  row'.reported = Now
  <2>1. writes[i].newest /\ IsHeartbeat(writes[i].message) /\ writes[i].message \in DeviceMessage
    BY <1>1, <1>6 DEF ServerWrites, Write
  <2>2. writes[i].message = Now
    BY <1>6, <2>1 DEF ReportInv
  <2>3. row' = Reported(Now) /\ IsHeartbeat(Now) /\ Now \in DeviceMessage
    BY <2>1, <2>2 DEF ServerWrites
  <2>4. QED
    BY <1>1, <2>3, ReportedEffect
<1>7. collecting = 0 /\ up = <<>> =>
         \A j \in 1..Len(writes') : writes'[j].newest => writes'[j].message = Now
  BY <1>3 DEF ReportInv
<1>8. /\ link' = "closed" => up' = <<>>
      /\ collecting' = 0 /\ up' # <<>> => up'[Len(up')] = Now'
  BY <1>2, Zenon DEF ReportInv
<1>9. QED
  BY <1>2, <1>5, <1>6, <1>7, <1>8, Zenon DEF ReportInv

\* Every step keeps the invariant.
LEMMA ReportInvNext ==
    ASSUME AgentInv, ReportInv, [Next]_vars
    PROVE  ReportInv'
<1>1. CASE /\ UNCHANGED <<up, heard, writes>> /\ row'.reported = row.reported
           /\ link' = "closed" => link = "closed"
           /\ link = "live" => link' = "live"
           /\ UNCHANGED collecting \/ Beat
  <2>1. collecting' = 0 => collecting = 0
    BY <1>1 DEF Beat, AgentInv, LinkTypeOK
  <2>2. ASSUME collecting' = 0, link' # "closed"
        PROVE  UNCHANGED Now
    <3>1. ~(collecting' > 0)
      BY <2>2
    <3>2. QED
      BY <2>2, <3>1, ChangeIsReported, Zenon
  <2>3. NoneNewest' <=> NoneNewest
    BY <1>1 DEF NoneNewest
  <2>4. link' = "closed" => up' = <<>> /\ ~heard' /\ NoneNewest'
    BY <1>1, <2>3 DEF ReportInv
  <2>5. CASE link' = "closed"
    BY <2>4, <2>5 DEF ReportInv, NoneNewest
  <2>6. CASE link' # "closed"
    BY <1>1, <2>1, <2>2, <2>3, <2>6 DEF ReportInv
  <2>7. QED
    BY <2>5, <2>6
<1>2. CASE link' = "closed" /\ up' = <<>> /\ ~heard' /\ NoneNewest'
  BY <1>2 DEF ReportInv, NoneNewest
<1>3. CASE Connect
  <2>1. /\ link = "closed" /\ link' = "open" /\ UNCHANGED <<heard, writes>>
        /\ collecting' # 0
    BY <1>3 DEF Connect, AgentInv, LinkTypeOK
  <2>2. NoneNewest' <=> NoneNewest
    BY <2>1 DEF NoneNewest
  <2>3. QED
    BY <2>1, <2>2 DEF ReportInv
<1>4. CASE SendHeartbeat
  <2>1. UNCHANGED <<Now, link, heard, row, writes>> /\ up \in Seq(DeviceMessage)
    BY <1>4 DEF SendHeartbeat, tvVars, updateVars, Now, AgentInv, LinkTypeOK
  <2>2. NoneNewest' <=> NoneNewest
    BY <2>1 DEF NoneNewest
  <2>3. CASE link = "closed"
    <3>1. up' = <<>> /\ ~heard' /\ NoneNewest' /\ link' = "closed"
      BY <1>4, <2>1, <2>2, <2>3 DEF SendHeartbeat, ReportInv
    <3>2. QED
      BY <3>1 DEF ReportInv, NoneNewest
  <2>4. CASE link # "closed"
    <3> HIDE DEF Now
    <3>1. up' = Append(up, Now)
      BY <1>4, <2>4 DEF SendHeartbeat, Now
    <3>2. up' # <<>> /\ up'[Len(up')] = Now
      BY <2>1, <3>1
    <3>3. QED
      BY <2>1, <2>2, <2>4, <3>2 DEF ReportInv
  <2>5. QED
    BY <2>3, <2>4
<1>5. QED
  BY <1>1, <1>2, <1>3, <1>4, ServerReceiveKeepsReports, ServerWritesKeepsReports, ReportStep

\* Once nothing the agent has sent is under way and the newest heartbeat was written
\* last, the row shows what the agent believes, whatever order the UPDATEs of
\* earlier messages and connections took (agent.ts 94-98, 166-175, gateway.ts 96-142).
THEOREM ReportsArriveTrue == Spec => []ReportUnderWay
<1>1. Init => ReportInv
  <2>1. Len(<<>>) = 0
    OBVIOUS
  <2>2. QED
    BY <2>1 DEF Init, ReportInv, NoneNewest
<1>2. ReportInv => ReportUnderWay
  <2>1. Len(<<>>) = 0
    OBVIOUS
  <2>2. QED
    BY <2>1 DEF ReportInv, ReportUnderWay, NoneNewest, Now
<1>3. AgentInv /\ ReportInv /\ [Next]_vars => ReportInv'
  BY ReportInvNext
<1>4. QED
  BY <1>1, <1>2, <1>3, AgentInvHolds, PTL DEF Spec

(***************************************************************************)
(* Power.                                                                  *)
(***************************************************************************)
Step == {"search", "claim", "first", "second", "acted"}
IsPowerMessage(i) == down[i].t = "tv_power"
Wanted == IF row.desiredTvPower THEN "on" ELSE "off"

\* The newest power command on its way is the one in the row.
NewestIsWanted ==
    \A i \in 1..Len(down) : IsPowerMessage(i) =>
        \/ down[i].on = row.desiredTvPower
        \/ \E j \in 1..Len(down) : j > i /\ IsPowerMessage(j)

\* What counts as done, or may come to, is what the row asks for.
Obeys ==
    /\ sure => tvState = Wanted
    /\ \A h \in Handler : IsClean(h) => handler[h].command = Wanted

Delivered == NewestIsWanted /\ ((\A i \in 1..Len(down) : ~IsPowerMessage(i)) => Obeys)

IsPowerRequest(i) == pushes[i].t = "tv_power"

\* A connection that is being set up will replay what the row asks for; one that is
\* live has been sent it.
Reached ==
    /\ link \in {"looked", "registered"} => lookedUp.desiredTvPower = row.desiredTvPower
    /\ link = "live" => Delivered

\* At most one power command is to be pushed, and it is the one in the row.
PendingIsWanted ==
    \A i \in 1..Len(pushes) : IsPowerRequest(i) =>
        /\ pushes[i].on = row.desiredTvPower
        /\ \A j \in 1..Len(pushes) : IsPowerRequest(j) => j = i

PowerInv ==
    "tv_power" \notin raced =>
        /\ PendingIsWanted
        /\ "tv_power" \notin Pending /\ row.desiredTvPower # None => Reached

\* Handlers carry out the commands they were given, and what becomes sure is what
\* an undisturbed one of them has done.
LEMMA HandlersCarryOn ==
    ASSUME TvInv, HandlerStep \/ HandlerEnds \/ Surroundings
    PROVE  /\ \A g \in Handler : IsClean(g)' =>
                  IsClean(g) /\ handler'[g].command = handler[g].command
           /\ sure' => \/ sure /\ UNCHANGED tvState
                       \/ \E h \in Handler : IsClean(h) /\ tvState' = handler[h].command
<1> USE DEF TvInv
<1>1. CASE Viewer
  BY <1>1, DisturbedEffect DEF Viewer, IsClean, IsPower
<1>2. CASE PlugIn
  BY <1>2 DEF PlugIn, IsClean, IsPower
<1>3. ASSUME NEW h \in Handler,
             \/ SearchFinds(h) \/ Claim(h) \/ FirstCall(h) \/ SecondCall(h)
             \/ SearchNext(h, TRUE) \/ SearchNext(h, FALSE)
      PROVE  /\ UNCHANGED <<sure, tvState>>
             /\ \A g \in Handler : IsClean(g)' =>
                    IsClean(g) /\ handler'[g].command = handler[g].command
  <2>1. /\ UNCHANGED <<sure, tvState>> /\ handler[h] # None
        /\ \/ \E step \in Step : handler' = [handler EXCEPT ![h].step = step]
           \/ handler' = [handler EXCEPT ![h].port = @ + 1]
    <3>1. CASE SearchFinds(h) \/ Claim(h) \/ FirstCall(h) \/ SecondCall(h)
      <4>1. "claim" \in Step /\ "first" \in Step /\ "second" \in Step /\ "acted" \in Step
        BY DEF Step
      <4>2. QED
        BY <3>1, <4>1, Zenon DEF SearchFinds, Claim, FirstCall, SecondCall, At
    <3>2. CASE SearchNext(h, TRUE) \/ SearchNext(h, FALSE)
      BY <3>2 DEF SearchNext, At
    <3>3. QED
      BY <1>3, <3>1, <3>2
  <2>2. handler[h] \in HandlerState /\ handler \in [Handler -> HandlerState \cup {None}]
    BY <2>1 DEF TvTypeOK
  <2>3. /\ handler'[h].command = handler[h].command
        /\ handler'[h].clean = handler[h].clean
        /\ \A g \in Handler \ {h} : handler'[g] = handler[g]
    BY <2>1, <2>2 DEF HandlerState
  <2>4. QED
    BY <2>1, <2>3 DEF IsClean, IsPower
<1>4. ASSUME NEW h \in Handler,
             \/ SearchEnds(h, FALSE) \/ SearchEnds(h, TRUE) \/ CallFails(h) \/ Return(h)
      PROVE  /\ \A g \in Handler : IsClean(g)' =>
                    IsClean(g) /\ handler'[g].command = handler[g].command
             /\ sure' => \/ sure /\ UNCHANGED tvState
                         \/ IsClean(h) /\ tvState' = handler[h].command
  <2>1. handler[h] # None /\ (Resolve(h, "unknown") \/ Resolve(h, handler[h].command))
    BY <1>4 DEF SearchEnds, CallFails, Return, At
  <2>2. /\ handler' = [handler EXCEPT ![h] = None]
        /\ handler \in [Handler -> HandlerState \cup {None}]
    BY <2>1 DEF Resolve, TvTypeOK
  <2>3. \A g \in Handler : IsClean(g)' => g # h /\ handler'[g] = handler[g]
    BY <2>2 DEF IsClean, IsPower
  <2>4. CASE handler[h].command \in Power
    BY <2>1, <2>3, <2>4 DEF Resolve, IsClean, IsPower
  <2>5. CASE handler[h].command \notin Power
    BY <2>1, <2>3, <2>5 DEF Resolve, IsClean, IsPower
  <2>6. QED
    BY <2>4, <2>5
<1>5. QED
  BY <1>1, <1>2, <1>3, <1>4 DEF HandlerStep, HandlerEnds, Surroundings

\* A power command that is read makes nothing sure, and nobody but its own handler
\* is undisturbed; a volume command changes nothing of this.
LEMMA ReadingCommands ==
    ASSUME TvInv, LinkTypeOK, ReceiveTv
    PROVE  IF Head(down).t = "tv_power"
           THEN /\ ~sure'
                /\ \A g \in Handler : IsClean(g)' =>
                      handler'[g].command = CommandOf(Head(down))
           ELSE /\ sure' => sure /\ UNCHANGED tvState
                /\ \A g \in Handler : IsClean(g)' =>
                      IsClean(g) /\ handler'[g].command = handler[g].command
<1> USE DEF TvInv
<1> DEFINE command == CommandOf(Head(down))
<1>1. /\ down # <<>> /\ Head(down) \in ServerMessage
      /\ Head(down).t = "tv_power" \/ Head(down).t = "tv_volume"
  BY HeadOfDown DEF ReceiveTv, Receive
<1>2. IF Head(down).t = "tv_power" THEN command \in Power ELSE command = "volume"
  BY <1>1 DEF CommandOf, Power
<1>3. command = "volume" => command \notin Power
  BY DEF Power
<1> HIDE DEF command
<1>4. /\ sure' = StillSure(command)
      /\ \/ handler' = Arrival(command) /\ tvState' = (IF command \in Power THEN "unknown" ELSE tvState)
         \/ /\ UNCHANGED tvState
            /\ \E h \in Handler, step \in Step :
                  /\ handler[h] = None
                  /\ handler' = [Arrival(command) EXCEPT ![h] =
                         [command |-> command, step |-> step, port |-> 1, clean |-> Alone]]
  <2>1. \/ Drop(command)
        \/ \E h \in Handler : StartSearch(h, command) \/ StartCalls(h, command)
    BY DEF ReceiveTv, command
  <2>2. "search" \in Step /\ "first" \in Step
    BY DEF Step
  <2>3. CASE Drop(command)
    BY <2>3 DEF Drop
  <2>4. CASE \E h \in Handler : StartSearch(h, command) \/ StartCalls(h, command)
    BY <2>2, <2>4, Zenon DEF StartSearch, StartCalls, Accept
  <2>5. QED
    BY <2>1, <2>3, <2>4
<1>5. Arrival(command) \in [Handler -> HandlerState \cup {None}]
  BY DisturbedEffect DEF Arrival, TvTypeOK
<1>6. \A g \in Handler : IsClean(g)' =>
         \/ handler'[g] = Arrival(command)[g]
         \/ handler'[g].command = command /\ command \in Power
  <2> SUFFICES ASSUME NEW g \in Handler, IsClean(g)'
               PROVE  \/ handler'[g] = Arrival(command)[g]
                      \/ handler'[g].command = command /\ command \in Power
    OBVIOUS
  <2>1. CASE handler' = Arrival(command)
    BY <2>1
  <2>2. ASSUME NEW h \in Handler, NEW step \in Step,
               handler' = [Arrival(command) EXCEPT ![h] =
                   [command |-> command, step |-> step, port |-> 1, clean |-> Alone]]
        PROVE  \/ handler'[g] = Arrival(command)[g]
               \/ handler'[g].command = command /\ command \in Power
    <3>1. CASE g = h
      BY <1>5, <2>2, <3>1 DEF IsClean, IsPower
    <3>2. CASE g # h
      BY <1>5, <2>2, <3>2
    <3>3. QED
      BY <3>1, <3>2
  <2>3. QED
    BY <1>4, <2>1, <2>2
<1>7. CASE Head(down).t = "tv_power"
  <2>1. Arrival(command) = Disturbed /\ ~sure'
    BY <1>2, <1>4, <1>7 DEF Arrival, StillSure
  <2>2. \A g \in Handler : IsClean(g)' => handler'[g] # Disturbed[g]
    BY DisturbedEffect DEF IsClean, IsPower
  <2>3. QED
    BY <1>6, <1>7, <2>1, <2>2 DEF command
<1>8. CASE Head(down).t # "tv_power"
  <2>0. command \notin Power
    BY <1>2, <1>3, <1>8
  <2>1. Arrival(command) = handler /\ (sure' => sure) /\ UNCHANGED tvState
    BY <1>4, <2>0 DEF Arrival, StillSure
  <2>2. QED
    BY <1>6, <1>8, <2>0, <2>1 DEF IsClean, IsPower
<1>9. QED
  BY <1>7, <1>8

\* A message of another kind is sent, to an agent that is connected or to nobody.
LEMMA OtherMessageSent ==
    ASSUME AgentInv, Delivered, UNCHANGED tvVars, row'.desiredTvPower = row.desiredTvPower,
           NEW message \in ServerMessage, message.t # "tv_power", Pushed(message)
    PROVE  Delivered'
<1>1. down \in Seq(ServerMessage)
  BY DEF AgentInv, LinkTypeOK
<1>2. Obeys' <=> Obeys
  BY DEF Obeys, Wanted, IsClean, IsPower, tvVars
<1>3. CASE down' = down
  BY <1>2, <1>3 DEF Delivered, NewestIsWanted, IsPowerMessage
<1>4. CASE down' = Append(down, message)
  <2>1. /\ Len(down') = Len(down) + 1 /\ Len(down) \in Nat
        /\ \A i \in 1..Len(down) : down'[i] = down[i]
        /\ down'[Len(down) + 1] = message
    BY <1>1, <1>4
  <2>2. /\ \A i \in 1..Len(down) : IsPowerMessage(i)' <=> IsPowerMessage(i)
        /\ down'[Len(down) + 1].t # "tv_power"
    BY <2>1 DEF IsPowerMessage
  <2>3. NewestIsWanted'
    <3> SUFFICES ASSUME NEW i \in 1..Len(down'), IsPowerMessage(i)'
                 PROVE  \/ down'[i].on = row'.desiredTvPower
                        \/ \E j \in 1..Len(down') : j > i /\ IsPowerMessage(j)'
      BY DEF NewestIsWanted
    <3>1. i \in 1..Len(down) /\ IsPowerMessage(i)
      BY <2>1, <2>2 DEF IsPowerMessage
    <3>2. QED
      BY <2>1, <2>2, <3>1 DEF Delivered, NewestIsWanted
  <2>4. (\A i \in 1..Len(down') : ~IsPowerMessage(i)') =>
           \A i \in 1..Len(down) : ~IsPowerMessage(i)
    BY <2>1, <2>2
  <2>5. QED
    BY <1>2, <2>3, <2>4 DEF Delivered
<1>5. QED
  BY <1>3, <1>4 DEF Pushed

\* The power the row asks for is sent last: by a push or a replay.
LEMMA PowerSent ==
    ASSUME AgentInv, NEW messages \in Seq(ServerMessage), messages # <<>>,
           down' = down \o messages,
           messages[Len(messages)].t = "tv_power",
           messages[Len(messages)].on = row'.desiredTvPower
    PROVE  Delivered'
<1>1. down \in Seq(ServerMessage)
  BY DEF AgentInv, LinkTypeOK
<1>2. /\ Len(down) \in Nat /\ Len(messages) \in Nat \ {0}
      /\ Len(down') = Len(down) + Len(messages)
      /\ down'[Len(down) + Len(messages)] = messages[Len(messages)]
  <2>1. Len(down) \in Nat /\ Len(messages) \in Nat \ {0}
    BY <1>1
  <2>2. /\ Len(down') = Len(down) + Len(messages)
        /\ \A i \in 1..(Len(down) + Len(messages)) : down'[i] =
              IF i <= Len(down) THEN down[i] ELSE messages[i - Len(down)]
    BY <1>1, ConcatProperties
  <2>3. /\ Len(down) + Len(messages) \in 1..(Len(down) + Len(messages))
        /\ ~(Len(down) + Len(messages) <= Len(down))
        /\ (Len(down) + Len(messages)) - Len(down) = Len(messages)
    BY <2>1
  <2>4. QED
    BY <2>1, <2>2, <2>3
<1>3. PICK last \in 1..Len(down') :
         /\ last = Len(down')
         /\ down'[last].t = "tv_power" /\ down'[last].on = row'.desiredTvPower
  BY <1>2
<1>4. NewestIsWanted'
  <2> SUFFICES ASSUME NEW i \in 1..Len(down'), IsPowerMessage(i)'
               PROVE  \/ down'[i].on = row'.desiredTvPower
                      \/ \E j \in 1..Len(down') : j > i /\ IsPowerMessage(j)'
    BY DEF NewestIsWanted
  <2>1. CASE i = last
    BY <1>3, <2>1
  <2>2. CASE i # last
    <3>1. last > i
      BY <1>2, <1>3, <2>2
    <3>2. QED
      BY <1>3, <3>1 DEF IsPowerMessage
  <2>3. QED
    BY <2>1, <2>2
<1>5. QED
  BY <1>3, <1>4 DEF Delivered, IsPowerMessage

\* The row is replayed as it was read.
LEMMA RowReplayed ==
    ASSUME AgentInv, Attach, lookedUp.desiredTvPower = row.desiredTvPower,
           row.desiredTvPower # None
    PROVE  Delivered'
<1>1. lookedUp \in Settings
  BY DEF AgentInv, LinkTypeOK, Attach
<1>2. /\ Replay \in Seq(ServerMessage) /\ Len(Replay) \in Nat \ {0}
      /\ Replay[Len(Replay)] = TvPower(row.desiredTvPower)
  BY <1>1, ReplayEffect
<1>3. Replay # <<>>
  BY <1>2
<1>4. down' = down \o Replay /\ row' = row
  BY DEF Attach
<1>5. /\ Replay[Len(Replay)].t = "tv_power"
      /\ Replay[Len(Replay)].on = row'.desiredTvPower
  BY <1>2, <1>4 DEF TvPower
<1>6. QED
  BY <1>2, <1>3, <1>4, <1>5, PowerSent

\* A power command is pushed to a live connection.
LEMMA PowerPushed ==
    ASSUME AgentInv, link = "live", UNCHANGED row, NEW message \in ServerMessage,
           message.t = "tv_power", message.on = row.desiredTvPower, Pushed(message)
    PROVE  Delivered'
<1>1. <<message>> \in Seq(ServerMessage) /\ <<message>> # <<>> /\ Len(<<message>>) = 1
  OBVIOUS
<1>2. down' = down \o <<message>>
  <2>1. down \in Seq(ServerMessage) /\ down' = Append(down, message)
    BY DEF AgentInv, LinkTypeOK, Pushed
  <2>2. QED
    BY <2>1, AppendProperties, AppendIsConcat
<1>3. QED
  BY <1>1, <1>2, PowerSent

\* The agent reads a message.
LEMMA MessageRead ==
    ASSUME AgentInv, Delivered, ReceiveAutoUpdate \/ ReceiveTv
    PROVE  Delivered'
<1>1. /\ down # <<>> /\ down \in Seq(ServerMessage) /\ down' = Tail(down)
      /\ UNCHANGED <<link, row>>
  BY DEF ReceiveAutoUpdate, ReceiveTv, Receive, AgentInv, LinkTypeOK
<1>2. /\ Len(down') = Len(down) - 1 /\ Len(down) \in Nat \ {0} /\ Head(down) = down[1]
      /\ \A i \in 1..Len(down') : down'[i] = down[i + 1]
  BY <1>1
<1>3. \A i \in 1..Len(down') : IsPowerMessage(i)' <=> IsPowerMessage(i + 1)
  BY <1>2 DEF IsPowerMessage
<1>4. NewestIsWanted'
  <2> SUFFICES ASSUME NEW i \in 1..Len(down'), IsPowerMessage(i)'
               PROVE  \/ down'[i].on = row'.desiredTvPower
                      \/ \E j \in 1..Len(down') : j > i /\ IsPowerMessage(j)'
    BY DEF NewestIsWanted
  <2>1. i + 1 \in 1..Len(down) /\ IsPowerMessage(i + 1) /\ down'[i] = down[i + 1]
    BY <1>2, <1>3
  <2>2. CASE down[i + 1].on = row.desiredTvPower
    BY <1>1, <2>1, <2>2
  <2>3. ASSUME NEW j \in 1..Len(down), j > i + 1, IsPowerMessage(j)
        PROVE  \E k \in 1..Len(down') : k > i /\ IsPowerMessage(k)'
    <3>1. j - 1 \in 1..Len(down') /\ j - 1 > i /\ (j - 1) + 1 = j
      BY <1>2, <2>3
    <3>2. QED
      BY <1>3, <2>3, <3>1
  <2>4. QED
    BY <2>1, <2>2, <2>3 DEF Delivered, NewestIsWanted
<1>5. ASSUME \A i \in 1..Len(down') : ~IsPowerMessage(i)'
      PROVE  Obeys'
  <2>1. \A i \in 1..Len(down) : i # 1 => ~IsPowerMessage(i)
    <3> SUFFICES ASSUME NEW i \in 1..Len(down), i # 1 PROVE ~IsPowerMessage(i)
      OBVIOUS
    <3>1. i - 1 \in 1..Len(down') /\ (i - 1) + 1 = i
      BY <1>2
    <3>2. QED
      BY <1>3, <1>5, <3>1
  <2>2. Wanted' = Wanted
    BY <1>1 DEF Wanted
  <2>3. CASE Head(down).t = "tv_power"
    <3>1. IsPowerMessage(1) /\ 1 \in 1..Len(down)
      BY <1>2, <2>3 DEF IsPowerMessage
    <3>2. Head(down).on = row.desiredTvPower
      <4>1. ~\E j \in 1..Len(down) : j > 1 /\ IsPowerMessage(j)
        BY <2>1
      <4>2. QED
        BY <1>2, <3>1, <4>1 DEF Delivered, NewestIsWanted
    <3>3. CommandOf(Head(down)) = Wanted
      BY <2>3, <3>2 DEF CommandOf, Wanted
    <3>4. ReceiveTv
      BY <2>3 DEF ReceiveAutoUpdate
    <3>5. QED
      BY <2>2, <2>3, <3>3, <3>4, ReadingCommands DEF AgentInv, Obeys
  <2>4. CASE Head(down).t # "tv_power"
    <3>1. Obeys
      <4>1. ~IsPowerMessage(1)
        BY <1>2, <2>4 DEF IsPowerMessage
      <4>2. QED
        BY <2>1, <4>1 DEF Delivered
    <3>2. CASE ReceiveAutoUpdate
      BY <2>2, <3>1, <3>2 DEF ReceiveAutoUpdate, tvVars, Obeys, IsClean, IsPower
    <3>3. CASE ReceiveTv
      BY <2>2, <2>4, <3>1, <3>3, ReadingCommands DEF AgentInv, Obeys
    <3>4. QED
      BY <3>2, <3>3
  <2>5. QED
    BY <2>3, <2>4
<1>6. QED
  BY <1>4, <1>5 DEF Delivered

\* Nothing is sent, read or commanded.
LEMMA NothingSent ==
    ASSUME AgentInv, Delivered, UNCHANGED down, row'.desiredTvPower = row.desiredTvPower,
           UNCHANGED tvVars \/ HandlerStep \/ HandlerEnds \/ Surroundings
    PROVE  Delivered'
<1>1. /\ NewestIsWanted' <=> NewestIsWanted
      /\ (\A i \in 1..Len(down') : ~IsPowerMessage(i)') <=> (\A i \in 1..Len(down) : ~IsPowerMessage(i))
  BY DEF NewestIsWanted, IsPowerMessage
<1>2. Wanted' = Wanted
  BY DEF Wanted
<1>3. Obeys => Obeys'
  <2>1. CASE UNCHANGED tvVars
    BY <1>2, <2>1 DEF tvVars, Obeys, IsClean, IsPower
  <2>2. CASE HandlerStep \/ HandlerEnds \/ Surroundings
    BY <1>2, <2>2, HandlersCarryOn DEF AgentInv, Obeys
  <2>3. QED
    BY <2>1, <2>2
<1>4. QED
  BY <1>1, <1>3 DEF Delivered

\* What is pending depends on the requests and the row only.
LEMMA SamePending ==
    ASSUME UNCHANGED pushes, row'.desiredTvPower = row.desiredTvPower
    PROVE  Pending' = Pending /\ (PendingIsWanted => PendingIsWanted')
BY DEF Pending, PendingIsWanted, IsPowerRequest

\* A request that is of another setting, or the only one of power, is done.
LEMMA RequestDone ==
    ASSUME AgentInv, NEW i \in 1..Len(pushes), pushes' = RemoveAt(pushes, i),
           row'.desiredTvPower = row.desiredTvPower, PendingIsWanted
    PROVE  /\ PendingIsWanted'
           /\ IsPowerRequest(i) => "tv_power" \notin Pending'
           /\ ~IsPowerRequest(i) /\ "tv_power" \notin Pending' => "tv_power" \notin Pending
<1>1. pushes \in Seq(Request)
  BY DEF AgentInv, LinkTypeOK
<1>2. \A j \in 1..Len(pushes') : \E k \in 1..Len(pushes) : k # i /\ pushes'[j] = pushes[k]
  BY <1>1, RemainsFrom
<1>3. \A k \in 1..Len(pushes) : k # i => \E j \in 1..Len(pushes') : pushes'[j] = pushes[k]
  BY <1>1, RemainsIn
<1>4. ASSUME IsPowerRequest(i), "tv_power" \in Pending'
      PROVE  FALSE
  <2>1. PICK j \in 1..Len(pushes') : pushes'[j].t = "tv_power"
    BY <1>4 DEF Pending
  <2>2. PICK k \in 1..Len(pushes) : k # i /\ pushes[k].t = "tv_power"
    BY <1>2, <2>1
  <2>3. QED
    BY <1>4, <2>2 DEF PendingIsWanted, IsPowerRequest
<1>5. ASSUME ~IsPowerRequest(i), "tv_power" \in Pending
      PROVE  "tv_power" \in Pending'
  <2>1. PICK k \in 1..Len(pushes) : pushes[k].t = "tv_power"
    BY <1>5 DEF Pending
  <2>2. k # i
    BY <1>5, <2>1 DEF IsPowerRequest
  <2>3. QED
    BY <1>3, <2>1, <2>2 DEF Pending
<1>6. PendingIsWanted'
  <2> SUFFICES ASSUME NEW j \in 1..Len(pushes'), IsPowerRequest(j)'
               PROVE  /\ pushes'[j].on = row'.desiredTvPower
                      /\ \A l \in 1..Len(pushes') : IsPowerRequest(l)' => l = j
    BY DEF PendingIsWanted
  <2>1. PICK k \in 1..Len(pushes) : k # i /\ pushes'[j] = pushes[k]
    BY <1>2
  <2>2. IsPowerRequest(k)
    BY <2>1 DEF IsPowerRequest
  <2>3. ASSUME NEW l \in 1..Len(pushes'), IsPowerRequest(l)'
        PROVE  l = j
    <3>1. \A m \in 1..Len(pushes) : IsPowerRequest(m) => m = k
      BY <2>2 DEF PendingIsWanted
    <3>2. \A m \in 1..Len(pushes') : pushes'[m] = IF m < i THEN pushes[m] ELSE pushes[m + 1]
      BY <1>1, RemoveAtEffect
    <3>3. \A m \in 1..Len(pushes') : m \in 1..Len(pushes) /\ m + 1 \in 1..Len(pushes)
      BY <1>1, RemoveAtEffect
    <3>4. (IF l < i THEN l ELSE l + 1) = k /\ (IF j < i THEN j ELSE j + 1) = k
      BY <2>3, <3>1, <3>2, <3>3 DEF IsPowerRequest
    <3>5. QED
      BY <3>3, <3>4
  <2>4. QED
    BY <2>1, <2>2, <2>3 DEF PendingIsWanted
<1>7. QED
  BY <1>4, <1>5, <1>6

\* A power command is written.
LEMMA PowerCommanded ==
    ASSUME AgentInv, PowerInv, NEW on \in BOOLEAN, CommandPower(on)
    PROVE  PowerInv'
<1>1. /\ pushes \in Seq(Request) /\ TvPower(on) \in Request
      /\ row'.desiredTvPower = on /\ pushes' = Append(pushes, TvPower(on))
  BY DEF AgentInv, LinkTypeOK, Row, CommandPower, Written, TvPower, Request, Setting
<1>2. /\ Len(pushes') = Len(pushes) + 1 /\ Len(pushes) \in Nat
      /\ pushes'[Len(pushes) + 1] = TvPower(on)
      /\ \A i \in 1..Len(pushes) : pushes'[i] = pushes[i]
  BY <1>1
<1>3. "tv_power" \in Pending'
  <2>1. Len(pushes) + 1 \in 1..Len(pushes') /\ pushes'[Len(pushes) + 1].t = "tv_power"
    BY <1>2 DEF TvPower
  <2>2. QED
    BY <2>1 DEF Pending
<1>4. CASE "tv_power" \in Pending
  BY <1>4 DEF CommandPower, Written, TvPower, PowerInv
<1>5. CASE "tv_power" \notin Pending
  <2>1. \A i \in 1..Len(pushes) : pushes[i].t # "tv_power"
    BY <1>5 DEF Pending
  <2>2. \A i \in 1..Len(pushes') : IsPowerRequest(i)' => i = Len(pushes) + 1
    BY <1>2, <2>1 DEF IsPowerRequest
  <2>3. PendingIsWanted'
    <3> SUFFICES ASSUME NEW i \in 1..Len(pushes'), IsPowerRequest(i)'
                 PROVE  /\ pushes'[i].on = row'.desiredTvPower
                        /\ \A j \in 1..Len(pushes') : IsPowerRequest(j)' => j = i
      BY DEF PendingIsWanted
    <3>1. i = Len(pushes) + 1
      BY <2>2
    <3>2. pushes'[i].on = row'.desiredTvPower
      BY <1>1, <1>2, <3>1 DEF TvPower
    <3>3. QED
      BY <2>2, <3>1, <3>2
  <2>4. QED
    BY <1>3, <2>3 DEF PowerInv
<1>6. QED
  BY <1>4, <1>5

\* Another setting is written.
LEMMA OtherCommanded ==
    ASSUME AgentInv, PowerInv, NEW enabled \in BOOLEAN, CommandAutoUpdate(enabled)
    PROVE  PowerInv'
<1>1. /\ pushes \in Seq(Request) /\ AutoUpdate(enabled) \in Request
      /\ row'.desiredTvPower = row.desiredTvPower
      /\ pushes' = Append(pushes, AutoUpdate(enabled))
      /\ UNCHANGED <<tvVars, link, lookedUp, down>>
  BY DEF AgentInv, LinkTypeOK, Row, CommandAutoUpdate, Written, AutoUpdate, Request, Setting
<1>2. "tv_power" \in raced' <=> "tv_power" \in raced
  BY DEF CommandAutoUpdate, Written, AutoUpdate
<1>3. /\ Len(pushes') = Len(pushes) + 1 /\ Len(pushes) \in Nat
      /\ pushes'[Len(pushes) + 1].t # "tv_power"
      /\ \A i \in 1..Len(pushes) : pushes'[i] = pushes[i]
  BY <1>1 DEF AutoUpdate
<1>4. \A i \in 1..Len(pushes') : IsPowerRequest(i)' => i \in 1..Len(pushes) /\ IsPowerRequest(i)
  BY <1>3 DEF IsPowerRequest
<1>5. PendingIsWanted => PendingIsWanted'
  <2> SUFFICES ASSUME PendingIsWanted, NEW i \in 1..Len(pushes'), IsPowerRequest(i)'
               PROVE  /\ pushes'[i].on = row'.desiredTvPower
                      /\ \A j \in 1..Len(pushes') : IsPowerRequest(j)' => j = i
    BY DEF PendingIsWanted
  <2>1. i \in 1..Len(pushes) /\ IsPowerRequest(i)
    BY <1>4
  <2>2. QED
    BY <1>1, <1>3, <1>4, <2>1 DEF PendingIsWanted
<1>6. "tv_power" \notin Pending' => "tv_power" \notin Pending
  <2> SUFFICES ASSUME "tv_power" \in Pending PROVE "tv_power" \in Pending'
    OBVIOUS
  <2>1. PICK i \in 1..Len(pushes) : pushes[i].t = "tv_power"
    BY DEF Pending
  <2>2. i \in 1..Len(pushes') /\ pushes'[i].t = "tv_power"
    BY <1>3, <2>1
  <2>3. QED
    BY <2>2 DEF Pending
<1>7. Reached => Reached'
  BY <1>1, NothingSent DEF Reached
<1>8. QED
  BY <1>1, <1>2, <1>5, <1>6, <1>7 DEF PowerInv

\* A request goes on or fails.
LEMMA RequestGoesOn ==
    ASSUME AgentInv, PowerInv, NEW i \in 1..Len(pushes), PushCommand(i) \/ CommandFails(i)
    PROVE  PowerInv'
<1> USE DEF AgentInv
<1>1. /\ pushes[i] \in ServerMessage /\ pushes[i].t \in Setting
      /\ UNCHANGED <<tvVars, link, lookedUp, row>> /\ pushes' = RemoveAt(pushes, i)
  BY RequestIsMessage DEF PushCommand, CommandFails
<1> SUFFICES ASSUME "tv_power" \notin raced'
             PROVE  /\ PendingIsWanted'
                    /\ "tv_power" \notin Pending' /\ row'.desiredTvPower # None => Reached'
  BY DEF PowerInv
<1>2. "tv_power" \notin raced /\ PendingIsWanted
  BY DEF PushCommand, CommandFails, PowerInv
<1>3. PendingIsWanted'
  BY <1>1, <1>2, RequestDone
<1>4. CASE IsPowerRequest(i)
  <2>1. PushCommand(i) /\ ~Overtaken(pushes[i])
    BY <1>4 DEF CommandFails, PushCommand, IsPowerRequest
  <2>2. pushes[i].on = row.desiredTvPower
    BY <1>2, <1>4 DEF PendingIsWanted
  <2>3. link \in {"looked", "registered"} => lookedUp.desiredTvPower = row.desiredTvPower
    BY <1>4, <2>1, <2>2 DEF Overtaken, IsPowerRequest
  <2>4. link = "live" => Delivered'
    BY <1>1, <1>4, <2>1, <2>2, PowerPushed DEF PushCommand, IsPowerRequest
  <2>5. QED
    BY <1>1, <1>3, <2>3, <2>4 DEF Reached
<1>5. CASE ~IsPowerRequest(i)
  <2>1. "tv_power" \notin Pending' => "tv_power" \notin Pending
    BY <1>1, <1>2, <1>5, RequestDone
  <2>2. Delivered => Delivered'
    <3>1. CASE PushCommand(i)
      BY <1>1, <1>5, <3>1, OtherMessageSent DEF PushCommand, IsPowerRequest
    <3>2. CASE CommandFails(i)
      BY <1>1, <3>2, NothingSent DEF CommandFails
    <3>3. QED
      BY <3>1, <3>2
  <2>3. Reached => Reached'
    BY <1>1, <2>2 DEF Reached
  <2>4. QED
    BY <1>1, <1>2, <1>3, <2>1, <2>3 DEF PowerInv
<1>6. QED
  BY <1>4, <1>5

\* The server reads the row of a connection.
LEMMA RowRead ==
    ASSUME AgentInv, PowerInv, Lookup
    PROVE  PowerInv'
<1>1. /\ UNCHANGED <<pushes, row>> /\ link' = "looked" /\ raced' = raced \cap Pending
      /\ lookedUp'.desiredTvPower = row'.desiredTvPower
  BY DEF Lookup
<1>2. Pending' = Pending /\ (PendingIsWanted => PendingIsWanted')
  BY <1>1, SamePending
<1>3. Reached'
  BY <1>1 DEF Reached
<1>4. CASE "tv_power" \in Pending
  BY <1>1, <1>2, <1>3, <1>4 DEF PowerInv
<1>5. CASE "tv_power" \notin Pending
  <2>1. PendingIsWanted
    BY <1>5 DEF Pending, PendingIsWanted, IsPowerRequest
  <2>2. QED
    BY <1>2, <1>3, <2>1 DEF PowerInv
<1>6. QED
  BY <1>4, <1>5

\* A step that keeps the requests keeps the invariant if it keeps the rest.
LEMMA RequestsKept ==
    ASSUME PowerInv, UNCHANGED <<pushes, raced>>, row'.desiredTvPower = row.desiredTvPower,
           row.desiredTvPower # None /\ Reached => Reached'
    PROVE  PowerInv'
<1>1. Pending' = Pending /\ (PendingIsWanted => PendingIsWanted')
  BY SamePending
<1>2. QED
  BY <1>1 DEF PowerInv

\* Every step keeps the invariant.
LEMMA PowerInvNext ==
    ASSUME AgentInv, PowerInv, [Next]_vars
    PROVE  PowerInv'
<1> USE DEF AgentInv
<1>1. CASE Attach
  <2>1. /\ link = "registered" /\ link' = "live" /\ UNCHANGED <<pushes, raced, row>>
    BY <1>1 DEF Attach
  <2>2. row.desiredTvPower # None /\ Reached => Reached'
    BY <1>1, <2>1, RowReplayed DEF Reached
  <2>3. QED
    BY <2>1, <2>2, RequestsKept
<1>2. CASE ReceiveAutoUpdate \/ ReceiveTv
  <2>1. UNCHANGED <<link, lookedUp, pushes, raced, row>>
    BY <1>2 DEF ReceiveAutoUpdate, ReceiveTv, Receive
  <2>2. Reached => Reached'
    BY <1>2, <2>1, MessageRead DEF Reached
  <2>3. QED
    BY <2>1, <2>2, RequestsKept
<1>3. ASSUME NEW on \in BOOLEAN, CommandPower(on)
      PROVE  PowerInv'
  BY <1>3, PowerCommanded
<1>4. ASSUME NEW enabled \in BOOLEAN, CommandAutoUpdate(enabled)
      PROVE  PowerInv'
  BY <1>4, OtherCommanded
<1>5. ASSUME NEW i \in 1..Len(pushes), PushCommand(i) \/ CommandFails(i)
      PROVE  PowerInv'
  BY <1>5, RequestGoesOn
<1>6. CASE Lookup
  BY <1>6, RowRead
<1>7. CASE CommandVolume
  <2> DEFINE message == [t |-> "tv_volume"]
  <2>1. message \in ServerMessage /\ message.t # "tv_power"
    BY DEF ServerMessage
  <2>2. UNCHANGED <<tvVars, link, lookedUp, row, pushes, raced>> /\ Pushed(message)
    BY <1>7 DEF CommandVolume
  <2> HIDE DEF message
  <2>3. Reached => Reached'
    BY <2>1, <2>2, OtherMessageSent DEF Reached
  <2>4. QED
    BY <2>2, <2>3, RequestsKept
<1>8. ASSUME Disconnected(up), UNCHANGED <<pushes, raced, row>>
      PROVE  PowerInv'
  <2>1. Reached'
    BY <1>8 DEF Disconnected, Reached
  <2>2. QED
    BY <1>8, <2>1, RequestsKept
<1>9. CASE ConnectionLost \/ Restart
  BY <1>8, <1>9 DEF ConnectionLost, Restart
<1>10. CASE ServerRestart
  <2>1. pushes' = <<>> /\ link' = "closed" /\ Len(<<>>) = 0
    BY <1>10 DEF ServerRestart
  <2>2. PendingIsWanted' /\ Reached'
    BY <2>1 DEF PendingIsWanted, Reached
  <2>3. QED
    BY <2>2 DEF PowerInv
<1>11. ASSUME UNCHANGED <<link, lookedUp, down, pushes, raced>>,
              row'.desiredTvPower = row.desiredTvPower,
              UNCHANGED tvVars \/ HandlerStep \/ HandlerEnds \/ Surroundings
       PROVE  PowerInv'
  <2>1. Reached => Reached'
    BY <1>11, NothingSent DEF Reached
  <2>2. QED
    BY <1>11, <2>1, RequestsKept
<1>12. CASE CheckEnds
  <2>1. CASE script = "exit2"
    BY <1>8, <1>12, <2>1 DEF CheckEnds
  <2>2. CASE script # "exit2"
    BY <1>11, <1>12, <2>2 DEF CheckEnds
  <2>3. QED
    BY <2>1, <2>2
<1>13. ASSUME NEW i \in 1..Len(writes), ServerWrites(i)
       PROVE  PowerInv'
  <2>1. writes[i].message \in DeviceMessage /\ row \in Row
    <3>1. writes[i] \in Write
      BY DEF LinkTypeOK
    <3>2. QED
      BY <3>1 DEF Write, LinkTypeOK
  <2>2. row'.desiredTvPower = row.desiredTvPower
    BY <1>13, <2>1, ReportedEffect DEF ServerWrites
  <2>3. QED
    BY <1>11, <1>13, <2>2 DEF ServerWrites
<1>14. CASE Connect \/ Register
  <2>1. /\ UNCHANGED <<lookedUp, pushes, raced, row>>
        /\ link' # "live" /\ (link' \in {"looked", "registered"} => link = "looked")
    BY <1>14 DEF Connect, Register
  <2>2. Reached => Reached'
    BY <2>1 DEF Reached
  <2>3. QED
    BY <2>1, <2>2, RequestsKept
<1>15. CASE HeartbeatTimer \/ SendHeartbeat \/ ServerReceive
  BY <1>11, <1>15 DEF HeartbeatTimer, SendHeartbeat, ServerReceive
<1>16. CASE \/ HandlerStep \/ HandlerEnds \/ Surroundings \/ Newer \/ UpdateStep
            \/ UNCHANGED vars
  <2>1. UNCHANGED <<link, lookedUp, down, pushes, raced, row>>
    BY <1>16 DEF HandlerStep, HandlerEnds, Surroundings, Newer, UpdateStep, vars, linkVars
  <2>2. UNCHANGED tvVars \/ HandlerStep \/ HandlerEnds \/ Surroundings
    BY <1>16 DEF Newer, UpdateStep, vars
  <2>3. QED
    BY <1>11, <2>1, <2>2
<1>17. QED
  BY <1>1, <1>2, <1>3, <1>4, <1>5, <1>6, <1>7, <1>9, <1>10, <1>12, <1>13, <1>14, <1>15, <1>16
     DEF Next

\* A settled television is in the state the device's row asks for, through lost
\* connections and restarts of either side, unless its last command crossed another
\* one, was overtaken by a replay or failed after its UPDATE (control.ts 66-71,
\* gateway.ts 24-71, agent.ts 94-98).
THEOREM TelevisionFollowsRow == Spec => []PowerFollowsRow
<1>1. Init => PowerInv
  <2>1. Len(<<>>) = 0
    OBVIOUS
  <2>2. QED
    BY <2>1 DEF Init, PowerInv, PendingIsWanted, Reached
<1>2. AgentInv /\ PowerInv /\ [Next]_vars => PowerInv'
  BY PowerInvNext
<1>3. AgentInv /\ PowerInv => PowerFollowsRow
  <2> SUFFICES ASSUME AgentInv, PowerInv, link = "live", down = <<>>, sure,
                      row.desiredTvPower # None, "tv_power" \notin raced \cup Pending
               PROVE  tv.on = row.desiredTvPower
    BY DEF PowerFollowsRow
  <2>1. Len(down) = 0
    OBVIOUS
  <2>2. tvState = Wanted
    BY <2>1 DEF PowerInv, Reached, Delivered, Obeys
  <2>3. tv.on = (tvState = "on") /\ row.desiredTvPower \in BOOLEAN
    BY DEF AgentInv, TvInv, TvStateTrue, LinkTypeOK, Row
  <2>4. CASE row.desiredTvPower = TRUE
    BY <2>2, <2>3, <2>4 DEF Wanted
  <2>5. CASE row.desiredTvPower = FALSE
    BY <2>2, <2>3, <2>5 DEF Wanted
  <2>6. QED
    BY <2>3, <2>4, <2>5
<1>4. QED
  BY <1>1, <1>2, <1>3, AgentInvHolds, PTL DEF Spec
=============================================================================
