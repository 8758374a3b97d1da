-------------------------- MODULE SchedulerProofs --------------------------
(***************************************************************************)
(* For any schedules, plans, zones and clocks: if every run ends before    *)
(* the next tick (Prompt), a schedule is fired in each minute planned for  *)
(* it, once, and as it is.                                                 *)
(***************************************************************************)
EXTENDS Scheduler, TLAPS

Running(i, phase) == run[i] # None /\ run[i].phase = phase

\* Run i works through what is due.
Working(i) == Running(i, "firing") \/ Running(i, "marking")

\* What run i has still to fire or is firing.
Pending(i) ==
    run[i].todo \cup (IF run[i].phase = "firing" THEN {run[i].current} \ {None} ELSE {})

\* Schedule s has been fired by a run that has still to mark it.
Marking(s) == \E i \in Slot : Running(i, "marking") /\ run[i].current.id = s

\* Runs do not overlap, and none is in progress when the timer is due.
OneRun ==
    /\ ~up => Idle
    /\ ~ticked => Idle
    /\ \A i, j \in Slot : run[i] # None /\ run[j] # None => i = j

\* A row's mark says when the schedule was last fired, if it has not been edited
\* since and that firing's mark was not cut off.
MarkIsDone ==
    \A s \in Schedule :
        /\ done[s] # None => done[s].edit <= edits[s]
        /\ schedules[s] # None /\ s \notin unmarked /\ ~Marking(s) =>
              /\ done[s] # None /\ done[s].edit = edits[s] =>
                    schedules[s].lastFiredKey = done[s].key
              /\ schedules[s].lastFiredKey # None =>
                    done[s] # None /\ done[s].key = schedules[s].lastFiredKey

\* A run fires a schedule once, as it is, and only if it has not been fired and marked
\* in this minute.
RunIsRight ==
    \A i \in Slot : Working(i) =>
        /\ Running(i, "firing") => run[i].current \notin run[i].todo
        /\ Running(i, "marking") =>
              LET f == run[i].current
              IN  /\ done[f.id] = [edit |-> f.edit, key |-> run[i].key]
                  /\ \A g \in run[i].todo : g.id # f.id
        /\ \A f, g \in Pending(i) : f.id = g.id => f = g
        /\ \A f \in Pending(i) :
              /\ f.edit <= edits[f.id]
              /\ done[f.id] # [edit |-> f.edit, key |-> run[i].key] \/ f.id \in unmarked
              /\ f.id \notin unseen =>
                    schedules[f.id] # None /\ schedules[f.id].enabled /\ edits[f.id] = f.edit

\* What is planned for this minute is fired, or going to be.
NothingLost ==
    \A s \in Schedule \ unseen :
        /\ \A i \in Slot : Running(i, "schedules") \/ Working(i) => run[i].key = NowKey(zone)
        /\ \A i \in Slot : Working(i) /\ Planned(s, NowKey(zone)) =>
              FiredNow(s) \/ \E f \in Pending(i) : f.id = s
        /\ Idle /\ ticked /\ up /\ Planned(s, NowKey(zone)) => FiredNow(s)

SInv == TypeOK /\ OneRun /\ MarkIsDone /\ RunIsRight /\ NothingLost

(***************************************************************************)
(* Types.                                                                  *)
(***************************************************************************)
\* What a run in progress carries.
LEMMA RunFields ==
    ASSUME TypeOK, NEW i \in Slot
    PROVE  /\ Running(i, "schedules") => run[i].key \in Nat
           /\ Running(i, "firing") =>
                 /\ run[i].key \in Nat
                 /\ run[i].todo \subseteq Due
                 /\ run[i].current \in Due \cup {None}
                 /\ run[i] = [phase |-> "firing", key |-> run[i].key, todo |-> run[i].todo,
                              current |-> run[i].current]
           /\ Running(i, "marking") =>
                 /\ run[i].key \in Nat
                 /\ run[i].todo \subseteq Due
                 /\ run[i].current \in Due
                 /\ run[i] = [phase |-> "marking", key |-> run[i].key, todo |-> run[i].todo,
                              current |-> run[i].current]
<1>1. run[i] \in Run \cup {None}
  BY DEF TypeOK
<1>2. QED
  BY <1>1 DEF Run, Running

\* The local minute is a number.
LEMMA NowKeyType ==
    ASSUME TypeOK, NEW z \in Zone
    PROVE  NowKey(z) \in Nat
<1>1. clock \div 2 \in Minutes
  BY SchedulerAssumption DEF TypeOK, Minutes
<1>2. QED
  BY <1>1, SchedulerAssumption DEF NowKey

\* Starting a run keeps the types.
LEMMA TimerTypes ==
    ASSUME TypeOK, NEW i \in Slot, Tick(i) \/ ReadOrgs(i)
    PROVE  TypeOK'
<1>1. CASE Tick(i)
  <2>1. [phase |-> "orgs"] \in Run
    BY DEF Run
  <2>2. QED
    BY <1>1, <2>1 DEF Tick, adminVars, ghostVars, TypeOK
<1>2. CASE ReadOrgs(i)
  <2>1. [phase |-> "schedules", key |-> NowKey(zone)] \in Run
    BY NowKeyType DEF Run, TypeOK
  <2>2. QED
    BY <1>2, <2>1 DEF ReadOrgs, adminVars, TypeOK
<1>3. QED
  BY <1>1, <1>2

\* The answer of a run is a set of due schedules.
LEMMA ReadTypes ==
    ASSUME TypeOK, NEW i \in Slot, ReadSchedules(i)
    PROVE  TypeOK' /\ run'[i] \in Run
<1> DEFINE due == {s \in Schedule : schedules[s] # None /\ IsDue(schedules[s], run[i].key)}
<1> DEFINE todo == {[id |-> s, edit |-> edits[s]] : s \in due}
<1> DEFINE read == [phase |-> "firing", key |-> run[i].key, current |-> None, todo |-> todo]
<1>1. run' = [run EXCEPT ![i] = read]
  BY DEF ReadSchedules
<1>2. run[i].key \in Nat
  BY RunFields DEF ReadSchedules, Running
<1>3. \A s \in Schedule : edits[s] \in Nat
  BY SchedulerAssumption DEF TypeOK
<1>4. todo \subseteq Due
  BY <1>3 DEF Due
<1> HIDE DEF todo
<1>5. read \in Run
  BY <1>2, <1>4 DEF Run
<1> HIDE DEF read
<1>6. run' \in [Slot -> Run \cup {None}] /\ run'[i] \in Run
  BY <1>1, <1>5 DEF TypeOK
<1>7. QED
  BY <1>6 DEF ReadSchedules, adminVars, ghostVars, TypeOK

\* Faults are counted up to their bound.
LEMMA FaultType ==
    ASSUME TypeOK, Fault
    PROVE  faults' \in 0..MaxFaults
BY SchedulerAssumption DEF Fault, TypeOK

\* Firing keeps the types.
LEMMA FireTypes ==
    ASSUME TypeOK, NEW i \in Slot, Fire(i) \/ Fired(i) \/ Mark(i)
    PROVE  TypeOK' /\ run'[i] \in Run
<1>1. CASE Fire(i)
  <2>1. PICK f \in run[i].todo :
           run' = [run EXCEPT ![i].current = f, ![i].todo = @ \ {f}]
    BY <1>1 DEF Fire
  <2>2. Running(i, "firing")
    BY <1>1 DEF Fire, Running
  <2>3. run'[i] = [phase |-> "firing", key |-> run[i].key, todo |-> run[i].todo \ {f},
                   current |-> f]
    BY <2>1, <2>2, RunFields DEF TypeOK
  <2>4. run[i].key \in Nat /\ f \in Due /\ run[i].todo \ {f} \subseteq Due
    BY <2>1, <2>2, RunFields
  <2>5. run'[i] \in Run
    BY <2>3, <2>4 DEF Run
  <2>6. run' \in [Slot -> Run \cup {None}] /\ run'[i] \in Run
    BY <2>1, <2>5 DEF TypeOK
  <2>7. QED
    BY <1>1, <2>6 DEF Fire, adminVars, ghostVars, TypeOK
<1>2. CASE Fired(i)
  <2> DEFINE f == run[i].current
  <2>1. Running(i, "firing") /\ f # None
    BY <1>2 DEF Fired, Running
  <2>2. /\ f \in Due /\ f.id \in Schedule /\ f.edit \in Nat
        /\ run[i].key \in Nat /\ run[i].todo \subseteq Due
    BY <2>1, RunFields DEF Due
  <2>3. run'[i] = [phase |-> "marking", key |-> run[i].key, todo |-> run[i].todo,
                   current |-> f]
    BY <1>2, <2>1, RunFields DEF Fired, TypeOK
  <2>4. run'[i] \in Run
    BY <2>2, <2>3 DEF Run
  <2>5. run' \in [Slot -> Run \cup {None}] /\ run'[i] \in Run
    BY <1>2, <2>4 DEF Fired, TypeOK
  <2>6. done' \in [Schedule -> [edit : Nat, key : Nat] \cup {None}]
    BY <1>2, <2>2 DEF Fired, TypeOK
  <2>7. QED
    BY <1>2, <2>5, <2>6 DEF Fired, adminVars, TypeOK
<1>3. CASE Mark(i)
  <2> DEFINE f == run[i].current
  <2>1. Running(i, "marking")
    BY <1>3 DEF Mark, Running
  <2>2. /\ f \in Due /\ f.id \in Schedule
        /\ run[i].key \in Nat /\ run[i].todo \subseteq Due
    BY <2>1, RunFields DEF Due
  <2>3. run'[i] = [phase |-> "firing", key |-> run[i].key, todo |-> run[i].todo,
                   current |-> None]
    <3>1. run[i] = [phase |-> "marking", key |-> run[i].key, todo |-> run[i].todo,
                    current |-> run[i].current]
      BY <2>1, RunFields
    <3>2. run'[i] = [run[i] EXCEPT !.phase = "firing", !.current = None]
      BY <1>3 DEF Mark, TypeOK
    <3>3. QED
      BY <3>1, <3>2
  <2>4. run'[i] \in Run
    BY <2>2, <2>3 DEF Run
  <2>5. run' \in [Slot -> Run \cup {None}] /\ run'[i] \in Run
    BY <1>3, <2>4 DEF Mark, TypeOK
  <2>6. schedules' \in [Schedule -> ScheduleRow \cup {None}]
    BY <1>3, <2>2 DEF Mark, TypeOK, ScheduleRow
  <2>7. QED
    BY <1>3, <2>5, <2>6 DEF Mark, TypeOK
<1>4. QED
  BY <1>1, <1>2, <1>3

\* So does the end of a run.
LEMMA EndTypes ==
    ASSUME TypeOK, NEW i \in Slot, Finish(i) \/ RunFails(i)
    PROVE  TypeOK'
<1>1. CASE Finish(i)
  BY <1>1 DEF Finish, adminVars, ghostVars, TypeOK
<1>2. CASE RunFails(i)
  BY <1>2, FaultType DEF RunFails, Unmarked, adminVars, TypeOK
<1>3. QED
  BY <1>1, <1>2

\* So do restarts and administrators.
LEMMA OtherTypes ==
    ASSUME TypeOK,
           \/ Crash \/ Boot \/ \E z \in Zone : SetZone(z)
           \/ \E s \in Schedule :
                 \/ \E plan \in Plan, enabled \in BOOLEAN : Edit(s, plan, enabled)
                 \/ Toggle(s) \/ Delete(s)
    PROVE  TypeOK'
<1>1. CASE Crash
  BY <1>1, FaultType DEF Crash, Unmarked, adminVars, TypeOK
<1>2. CASE Boot
  BY <1>2 DEF Boot, adminVars, ghostVars, TypeOK
<1>3. CASE \E z \in Zone : SetZone(z)
  BY <1>3 DEF SetZone, TypeOK
<1>4. ASSUME NEW s \in Schedule, NEW plan \in Plan, NEW enabled \in BOOLEAN,
             Edit(s, plan, enabled)
      PROVE  TypeOK'
  <2>1. [enabled |-> enabled, plan |-> plan, lastFiredKey |-> None] \in ScheduleRow
    BY DEF ScheduleRow
  <2>2. schedules' \in [Schedule -> ScheduleRow \cup {None}]
    BY <1>4, <2>1 DEF Edit, TypeOK
  <2>3. edits' \in [Schedule -> 0..MaxEdits]
    BY <1>4, SchedulerAssumption DEF Edit, TypeOK
  <2>4. QED
    BY <1>4, <2>2, <2>3 DEF Edit, TypeOK
<1>5. ASSUME NEW s \in Schedule, Toggle(s)
      PROVE  TypeOK'
  <2>1. schedules' \in [Schedule -> ScheduleRow \cup {None}]
    BY <1>5 DEF Toggle, TypeOK, ScheduleRow
  <2>2. QED
    BY <1>5, <2>1 DEF Toggle, TypeOK
<1>6. ASSUME NEW s \in Schedule, Delete(s)
      PROVE  TypeOK'
  BY <1>6 DEF Delete, TypeOK
<1>7. QED
  BY <1>1, <1>2, <1>3, <1>4, <1>5, <1>6

\* Every step keeps the types.
LEMMA TypesNext == TypeOK /\ [Next]_vars => TypeOK'
<1> SUFFICES ASSUME TypeOK, [Next]_vars PROVE TypeOK'
  OBVIOUS
<1>1. CASE UNCHANGED vars
  <2>1. UNCHANGED <<clock, ticked, up, zone, schedules, run, faults, edits>>
    BY <1>1 DEF vars, adminVars
  <2>2. UNCHANGED <<done, unmarked, unseen>>
    BY <1>1 DEF vars, ghostVars
  <2>3. QED
    BY <2>1, <2>2 DEF TypeOK
<1>2. CASE Advance
  <2>1. clock' \in 0..MaxClock
    BY <1>2, SchedulerAssumption DEF Advance, TypeOK
  <2>2. QED
    BY <1>2, <2>1 DEF Advance, adminVars, ghostVars, TypeOK
<1>3. QED
  BY <1>1, <1>2, TimerTypes, ReadTypes, FireTypes, EndTypes, OtherTypes DEF Next, RunStep

\* The types hold initially.
LEMMA InitTypes == Init => TypeOK
<1> SUFFICES ASSUME Init PROVE TypeOK
  OBVIOUS
<1>1. [enabled : {TRUE}, plan : Plan, lastFiredKey : {None}] \subseteq ScheduleRow
  BY DEF ScheduleRow
<1>2. schedules \in [Schedule -> ScheduleRow \cup {None}]
  BY <1>1 DEF Init
<1>3. 0 \in 0..MaxClock /\ 0 \in 0..MaxFaults /\ 0 \in 0..MaxEdits
  BY SchedulerAssumption
<1>4. QED
  BY <1>2, <1>3 DEF Init, TypeOK

\* Every variable of the scheduler keeps its type.
THEOREM TypeCorrect == Spec => []TypeOK
BY InitTypes, TypesNext, PTL DEF Spec

(***************************************************************************)
(* What a row plans.                                                       *)
(***************************************************************************)
InPlan(row, key) ==
    /\ row.enabled
    /\ row.plan.time = TimeOfDay(key)
    /\ IF row.plan.kind = "weekly"
       THEN Weekday(key) \in row.plan.days
       ELSE row.plan.date = Date(key)

\* What is planned does not depend on the mark, what is due does.
LEMMA PlannedOrDue ==
    ASSUME TypeOK, NEW s \in Schedule, NEW key \in Nat
    PROVE  /\ Planned(s, key) <=> schedules[s] # None /\ InPlan(schedules[s], key)
           /\ IsDue(schedules[s], key) <=>
                 InPlan(schedules[s], key) /\ schedules[s].lastFiredKey # key
<1>1. IsDue(schedules[s], key) <=>
         InPlan(schedules[s], key) /\ schedules[s].lastFiredKey # key
  BY DEF IsDue, InPlan
<1>2. CASE schedules[s] # None
  <2> DEFINE row == schedules[s]
  <2> DEFINE bare == [row EXCEPT !.lastFiredKey = None]
  <2>1. /\ bare.enabled = row.enabled /\ bare.plan = row.plan
        /\ bare.lastFiredKey = None
    BY <1>2 DEF TypeOK, ScheduleRow
  <2>2. None # key
    BY SchedulerAssumption
  <2> HIDE DEF bare
  <2>3. IsDue(bare, key) <=> InPlan(row, key)
    BY <2>1, <2>2 DEF IsDue, InPlan
  <2>4. QED
    BY <1>1, <1>2, <2>3 DEF Planned, bare
<1>3. CASE schedules[s] = None
  BY <1>1, <1>3 DEF Planned
<1>4. QED
  BY <1>2, <1>3

(***************************************************************************)
(* Runs.                                                                   *)
(***************************************************************************)
\* Prompt runs do not overlap.
LEMMA OneRunNext ==
    ASSUME Prompt, TypeOK, OneRun, [Next]_vars
    PROVE  OneRun'
<1>1. CASE Advance
  BY <1>1 DEF Advance, OneRun, Idle
<1>2. ASSUME NEW i \in Slot, Tick(i)
      PROVE  OneRun'
  <2>1. Idle /\ up' /\ ticked'
    BY <1>2 DEF Tick, OneRun
  <2>2. \A j \in Slot : j # i => run'[j] = None
    BY <1>2, <2>1 DEF Tick, Idle, TypeOK
  <2>3. QED
    BY <2>1, <2>2 DEF OneRun
<1>3. ASSUME NEW i \in Slot, RunStep(i) \/ RunFails(i)
      PROVE  OneRun'
  <2>1. run[i] # None /\ UNCHANGED <<up, ticked>>
    BY <1>3 DEF RunStep, RunFails, ReadOrgs, ReadSchedules, Fire, Fired, Mark, Finish
  <2>2. \A j \in Slot : j # i => run'[j] = run[j]
    BY <1>3 DEF RunStep, RunFails, ReadOrgs, ReadSchedules, Fire, Fired, Mark, Finish,
                TypeOK
  <2>3. \A j \in Slot : j # i => run'[j] = None
    BY <2>1, <2>2 DEF OneRun
  <2>4. up /\ ticked
    BY <2>1 DEF OneRun, Idle, TypeOK
  <2>5. QED
    BY <2>1, <2>3, <2>4 DEF OneRun
<1>4. CASE Crash
  BY <1>4 DEF Crash, OneRun, Idle
<1>5. CASE Boot
  BY <1>5 DEF Boot, OneRun, Idle
<1>6. ASSUME UNCHANGED <<up, ticked, run>>
      PROVE  OneRun'
  BY <1>6 DEF OneRun, Idle
<1>7. QED
  BY <1>1, <1>2, <1>3, <1>4, <1>5, <1>6 DEF Next, Edit, Toggle, Delete, SetZone, vars

\* The other slots while run i is in progress.
LEMMA OnlyRun ==
    ASSUME TypeOK, OneRun, NEW i \in Slot, run[i] # None,
           \A j \in Slot : j # i => run'[j] = run[j]
    PROVE  /\ up /\ ticked
           /\ \A j \in Slot : j # i => run'[j] = None
           /\ \A j \in Slot, phase \in {"schedules", "firing", "marking"} :
                 Running(j, phase)' => j = i
           /\ \A j \in Slot : Running(j, "schedules")' \/ Working(j)' => j = i
<1>1. \A j \in Slot : j # i => run'[j] = None
  BY DEF OneRun
<1>2. up /\ ticked
  BY DEF OneRun, Idle, TypeOK
<1>3. QED
  BY <1>1, <1>2 DEF Running, Working

Right == MarkIsDone /\ RunIsRight /\ NothingLost

\* Starting a run.
LEMMA StartsRight ==
    ASSUME Prompt, TypeOK, OneRun, Right, NEW i \in Slot, Advance \/ Tick(i) \/ ReadOrgs(i)
    PROVE  Right'
<1>1. CASE Advance
  <2>1. Idle /\ Idle' /\ ~ticked' /\ UNCHANGED <<schedules, edits, done, unmarked, unseen>>
    BY <1>1 DEF Advance, Idle, adminVars, ghostVars
  <2>2. \A j \in Slot : ~Running(j, "schedules")' /\ ~Working(j)'
    BY <2>1 DEF Idle, Running, Working
  <2>3. \A s \in Schedule : Marking(s)' <=> Marking(s)
    BY <2>1 DEF Idle, Marking, Running
  <2>4. QED
    BY <2>1, <2>2, <2>3 DEF Right, MarkIsDone, RunIsRight, NothingLost
<1>2. CASE Tick(i)
  <2>1. UNCHANGED <<schedules, edits, done, unmarked, unseen>> /\ Idle
    BY <1>2 DEF Tick, OneRun, adminVars, ghostVars
  <2>2. \A j \in Slot : run'[j] = IF j = i THEN [phase |-> "orgs"] ELSE None
    BY <1>2, <2>1 DEF Tick, Idle, TypeOK
  <2>3. [phase |-> "orgs"] # None
    BY RunAssumption DEF Run
  <2>4. \A j \in Slot : ~Running(j, "schedules")' /\ ~Working(j)'
    BY <2>2 DEF Running, Working
  <2>5. \A s \in Schedule : Marking(s)' <=> Marking(s)
    BY <2>1, <2>4 DEF Idle, Marking, Working, Running
  <2>6. QED
    BY <2>1, <2>2, <2>3, <2>4, <2>5 DEF Right, MarkIsDone, RunIsRight, NothingLost, Idle
<1>3. CASE ReadOrgs(i)
  <2>1. /\ UNCHANGED <<clock, zone, schedules, edits, done, unmarked>>
        /\ Running(i, "orgs") /\ run[i] # None
    BY <1>3 DEF ReadOrgs, adminVars, Running
  <2>2. \A j \in Slot : j # i => run'[j] = run[j]
    BY <1>3 DEF ReadOrgs, TypeOK
  <2>3. run'[i] = [phase |-> "schedules", key |-> NowKey(zone)]
    BY <1>3 DEF ReadOrgs, TypeOK
  <2>4. /\ \A j \in Slot : ~Working(j)'
        /\ \A j \in Slot : Running(j, "schedules")' => run'[j].key = NowKey(zone)
        /\ \A s \in Schedule : Marking(s)' <=> Marking(s)
    BY <2>1, <2>2, <2>3, OnlyRun DEF Running, Working, Marking
  <2>5. ~Idle'
    BY <2>3, RunAssumption, NowKeyType DEF Idle, Run, TypeOK
  <2>6. NowKey(zone)' = NowKey(zone)
    BY <2>1 DEF NowKey
  <2>7. MarkIsDone' /\ RunIsRight'
    BY <2>1, <2>4 DEF Right, MarkIsDone, RunIsRight
  <2>8. NothingLost'
    BY <2>4, <2>5, <2>6 DEF NothingLost
  <2>9. QED
    BY <2>7, <2>8 DEF Right
<1>4. QED
  BY <1>1, <1>2, <1>3

\* The answer has everything that is planned and not yet fired, and nothing else.
LEMMA ReadsRight ==
    ASSUME Prompt, TypeOK, OneRun, Right, NEW i \in Slot, ReadSchedules(i)
    PROVE  Right'
<1> DEFINE key == run[i].key
<1> DEFINE due == {s \in Schedule : schedules[s] # None /\ IsDue(schedules[s], key)}
<1> DEFINE todo == {[id |-> s, edit |-> edits[s]] : s \in due}
<1>1. /\ UNCHANGED <<clock, zone, schedules, edits, done, unmarked, unseen>>
      /\ Running(i, "schedules") /\ run[i] # None
      /\ \A s \in Schedule : ~Marking(s)
  BY DEF ReadSchedules, adminVars, ghostVars, Running, Marking, OneRun
<1>2. \A j \in Slot : j # i => run'[j] = run[j]
  BY DEF ReadSchedules, TypeOK
<1>3. run'[i] = [phase |-> "firing", key |-> key, current |-> None, todo |-> todo]
  BY DEF ReadSchedules, TypeOK
<1>4. key \in Nat
  BY <1>1, RunFields
<1>5. \A f \in todo :
         /\ f.id \in Schedule /\ f = [id |-> f.id, edit |-> edits[f.id]]
         /\ schedules[f.id] # None /\ InPlan(schedules[f.id], key)
         /\ schedules[f.id].lastFiredKey # key
  BY <1>4, PlannedOrDue
<1>6. \A s \in Schedule : schedules[s] # None /\ InPlan(schedules[s], key)
                          /\ schedules[s].lastFiredKey # key => \E f \in todo : f.id = s
  <2> SUFFICES ASSUME NEW s \in Schedule, s \in due
               PROVE  \E f \in todo : f.id = s
    BY <1>4, PlannedOrDue
  <2>1. [id |-> s, edit |-> edits[s]] \in todo
    OBVIOUS
  <2>2. QED
    BY <2>1
<1>7. None \notin todo
  <2> SUFFICES ASSUME NEW s \in Schedule PROVE [id |-> s, edit |-> edits[s]] # None
    OBVIOUS
  <2>1. [id |-> s, edit |-> edits[s]] \in Due
    BY SchedulerAssumption DEF Due, TypeOK
  <2>2. QED
    BY <2>1, RunAssumption
<1> HIDE DEF due, todo
<1>8. /\ Pending(i)' = todo /\ run'[i].current \notin run'[i].todo /\ run'[i].key = key
      /\ ~Running(i, "marking")' /\ \A s \in Schedule : ~Marking(s)'
  BY <1>1, <1>2, <1>3, <1>7 DEF Pending, Running, Marking, OneRun
<1>9. RunIsRight'
  <2>1. \A f \in todo :
           /\ f.edit <= edits[f.id]
           /\ done[f.id] # [edit |-> f.edit, key |-> key] \/ f.id \in unmarked
           /\ schedules[f.id] # None /\ schedules[f.id].enabled /\ edits[f.id] = f.edit
    <3> SUFFICES ASSUME NEW f \in todo
                 PROVE  /\ f.edit <= edits[f.id]
                        /\ done[f.id] # [edit |-> f.edit, key |-> key] \/ f.id \in unmarked
                        /\ schedules[f.id] # None /\ schedules[f.id].enabled
                        /\ edits[f.id] = f.edit
      OBVIOUS
    <3>1. f.id \in Schedule /\ f.edit = edits[f.id] /\ edits[f.id] \in Nat
      BY <1>5, SchedulerAssumption DEF TypeOK
    <3>2. schedules[f.id] # None /\ schedules[f.id].enabled
      BY <1>5 DEF InPlan
    <3>3. ASSUME done[f.id] = [edit |-> f.edit, key |-> key], f.id \notin unmarked
          PROVE  FALSE
      <4>1. done[f.id] # None
        BY <1>4, <3>1, <3>3, SchedulerAssumption
      <4>2. schedules[f.id].lastFiredKey = key
        BY <1>1, <3>1, <3>2, <3>3, <4>1 DEF Right, MarkIsDone
      <4>3. QED
        BY <1>5, <4>2
    <3>4. QED
      BY <3>1, <3>2, <3>3
  <2>2. \A f, g \in todo : f.id = g.id => f = g
    BY <1>5
  <2>3. \A j \in Slot : Working(j)' => j = i
    BY <1>1, <1>2, OnlyRun
  <2>4. QED
    BY <1>1, <1>8, <2>1, <2>2, <2>3 DEF RunIsRight
<1>10. NothingLost'
  <2> SUFFICES ASSUME NEW s \in Schedule, s \notin unseen'
               PROVE  /\ \A j \in Slot : Running(j, "schedules")' \/ Working(j)' =>
                            run'[j].key = NowKey(zone)'
                      /\ \A j \in Slot : Working(j)' /\ Planned(s, NowKey(zone))' =>
                            FiredNow(s)' \/ \E f \in Pending(j)' : f.id = s
                      /\ ~Idle'
    BY DEF NothingLost
  <2>1. \A j \in Slot : Running(j, "schedules")' \/ Working(j)' => j = i
    BY <1>1, <1>2, OnlyRun
  <2>2. key = NowKey(zone) /\ NowKey(zone)' = NowKey(zone)
    BY <1>1 DEF Right, NothingLost, NowKey
  <2>3. Planned(s, key) => FiredNow(s) \/ \E f \in todo : f.id = s
    <3>1. Planned(s, key) => schedules[s] # None /\ InPlan(schedules[s], key)
      BY <1>4, PlannedOrDue
    <3>2. schedules[s] # None /\ schedules[s].lastFiredKey = key => FiredNow(s)
      BY <1>1, <1>4, <2>2, SchedulerAssumption DEF Right, MarkIsDone, FiredNow
    <3>3. QED
      BY <1>6, <3>1, <3>2
  <2>4. Planned(s, NowKey(zone))' <=> Planned(s, key)
    BY <1>1, <2>2 DEF Planned, IsDue
  <2>5. ~Idle'
    BY ReadTypes, RunAssumption DEF Idle
  <2>6. FiredNow(s)' <=> FiredNow(s)
    BY <1>1, <2>2 DEF FiredNow
  <2>7. QED
    BY <1>1, <1>8, <2>1, <2>2, <2>3, <2>4, <2>5, <2>6
<1>11. MarkIsDone'
  BY <1>1, <1>8 DEF Right, MarkIsDone
<1>12. QED
  BY <1>9, <1>10, <1>11 DEF Right

\* Firing a schedule moves it from those to be fired to the one being fired.
LEMMA FiresRight ==
    ASSUME Prompt, TypeOK, OneRun, Right, NEW i \in Slot, Fire(i)
    PROVE  Right'
<1>1. /\ UNCHANGED <<clock, zone, schedules, edits, done, unmarked, unseen>>
      /\ Running(i, "firing") /\ run[i] # None /\ run[i].current = None
  BY DEF Fire, adminVars, ghostVars, Running
<1>2. PICK f \in run[i].todo : run' = [run EXCEPT ![i].current = f, ![i].todo = @ \ {f}]
  BY DEF Fire
<1>3. /\ run[i].key \in Nat /\ run[i].todo \subseteq Due /\ f # None
      /\ run'[i] = [phase |-> "firing", key |-> run[i].key, todo |-> run[i].todo \ {f},
                    current |-> f]
      /\ \A j \in Slot : j # i => run'[j] = run[j]
  BY <1>1, <1>2, RunFields, RunAssumption DEF TypeOK
<1>4. /\ Pending(i)' = Pending(i) /\ run'[i].key = run[i].key
      /\ run'[i].current \notin run'[i].todo
      /\ Working(i) /\ ~Running(i, "marking")'
      /\ \A s \in Schedule : ~Marking(s) /\ ~Marking(s)'
  BY <1>1, <1>3 DEF Pending, Running, Working, Marking, OneRun
<1>5. \A j \in Slot : Running(j, "schedules")' \/ Working(j)' => j = i
  BY <1>1, <1>3, OnlyRun
<1>6. RunIsRight'
  <2>1. /\ \A g, h \in Pending(i) : g.id = h.id => g = h
        /\ \A g \in Pending(i) :
              /\ g.edit <= edits[g.id]
              /\ done[g.id] # [edit |-> g.edit, key |-> run[i].key] \/ g.id \in unmarked
              /\ g.id \notin unseen =>
                    schedules[g.id] # None /\ schedules[g.id].enabled /\ edits[g.id] = g.edit
    BY <1>4 DEF Right, RunIsRight
  <2>2. QED
    BY <1>1, <1>4, <1>5, <2>1 DEF RunIsRight
<1>7. ~Idle'
  BY <1>3, FireTypes, RunAssumption DEF Idle
<1>8. NowKey(zone)' = NowKey(zone)
  BY <1>1 DEF NowKey
<1>9. \A s \in Schedule : Planned(s, NowKey(zone))' <=> Planned(s, NowKey(zone))
  BY <1>1, <1>8 DEF Planned, IsDue
<1>10. \A s \in Schedule : FiredNow(s)' <=> FiredNow(s)
  BY <1>1, <1>8 DEF FiredNow
<1>11. NothingLost'
  BY <1>1, <1>4, <1>5, <1>7, <1>8, <1>9, <1>10 DEF Right, NothingLost
<1>12. MarkIsDone'
  BY <1>1, <1>4 DEF Right, MarkIsDone
<1>13. QED
  BY <1>6, <1>11, <1>12 DEF Right

\* A schedule that has been fired is done and about to be marked, the others are as
\* before.
LEMMA FiredRight ==
    ASSUME Prompt, TypeOK, OneRun, Right, NEW i \in Slot, Fired(i)
    PROVE  Right'
<1> DEFINE f == run[i].current
<1> DEFINE key == run[i].key
<1> DEFINE todo == run[i].todo
<1>1. /\ UNCHANGED <<clock, ticked, up, zone, schedules, edits, unmarked, unseen>>
      /\ Running(i, "firing") /\ run[i] # None /\ f # None
      /\ done' = [done EXCEPT ![f.id] = [edit |-> f.edit, key |-> key]]
      /\ run' = [run EXCEPT ![i].phase = "marking"]
  BY DEF Fired, adminVars, Running
<1>2. key \in Nat /\ todo \subseteq Due /\ f \in Due /\ f.id \in Schedule /\ f.edit \in Nat
  BY <1>1, RunFields DEF Due
<1>3. /\ run'[i] = [phase |-> "marking", key |-> key, todo |-> todo, current |-> f]
      /\ \A j \in Slot : j # i => run'[j] = run[j]
  BY <1>1, RunFields DEF TypeOK
<1>4. /\ Pending(i) = todo \cup {f} /\ f \notin todo
      /\ \A g, h \in Pending(i) : g.id = h.id => g = h
      /\ f.edit <= edits[f.id]
  BY <1>1 DEF Pending, Right, RunIsRight, Running, Working
<1>5. /\ Pending(i)' = todo /\ run'[i].key = key /\ run'[i].current = f
      /\ run'[i].todo = todo /\ ~Running(i, "firing")' /\ Working(i) /\ Working(i)'
  BY <1>1, <1>3, FireTypes, RunAssumption DEF Pending, Running, Working
<1>6. /\ done'[f.id] = [edit |-> f.edit, key |-> key] /\ done'[f.id] # None
      /\ \A s \in Schedule : s # f.id => done'[s] = done[s]
  BY <1>1, <1>2, SchedulerAssumption DEF TypeOK
<1>7. \A j \in Slot : Running(j, "schedules")' \/ Working(j)' => j = i
  BY <1>1, <1>3, OnlyRun
<1>8. \A s \in Schedule : ~Marking(s) /\ (s = f.id => Marking(s)')
  BY <1>1, <1>3, <1>5 DEF Marking, Running, OneRun, Working
<1>9. MarkIsDone'
  <2> SUFFICES ASSUME NEW s \in Schedule
               PROVE  /\ done'[s] # None => done'[s].edit <= edits[s]
                      /\ schedules[s] # None /\ s \notin unmarked /\ ~Marking(s)' =>
                            /\ done'[s] # None /\ done'[s].edit = edits[s] =>
                                  schedules[s].lastFiredKey = done'[s].key
                            /\ schedules[s].lastFiredKey # None =>
                                  done'[s] # None /\ done'[s].key = schedules[s].lastFiredKey
    BY <1>1 DEF MarkIsDone
  <2>1. CASE s = f.id
    <3>1. done'[s].edit = f.edit
      BY <1>6, <2>1
    <3>2. QED
      BY <1>4, <1>8, <2>1, <3>1
  <2>2. CASE s # f.id
    BY <1>6, <1>8, <2>2 DEF Right, MarkIsDone
  <2>3. QED
    BY <2>1, <2>2
<1>10. RunIsRight'
  <2>1. \A g \in todo : g \in Pending(i) /\ g.id # f.id /\ g.id \in Schedule
    BY <1>2, <1>4 DEF Due
  <2>2. \A g \in todo :
           /\ g.edit <= edits[g.id]
           /\ done'[g.id] # [edit |-> g.edit, key |-> key] \/ g.id \in unmarked
           /\ g.id \notin unseen =>
                 schedules[g.id] # None /\ schedules[g.id].enabled /\ edits[g.id] = g.edit
    BY <1>5, <1>6, <2>1 DEF Right, RunIsRight
  <2>3. QED
    BY <1>1, <1>4, <1>5, <1>6, <1>7, <2>1, <2>2 DEF RunIsRight
<1>11. NothingLost'
  <2> SUFFICES ASSUME NEW s \in Schedule, s \notin unseen
               PROVE  /\ key = NowKey(zone)'
                      /\ Planned(s, NowKey(zone))' =>
                            FiredNow(s)' \/ \E g \in todo : g.id = s
                      /\ ~Idle'
    BY <1>1, <1>5, <1>7 DEF NothingLost
  <2>1. key = NowKey(zone) /\ NowKey(zone)' = NowKey(zone)
    BY <1>1, <1>5 DEF Right, NothingLost, NowKey
  <2>2. ~Idle'
    BY <1>3, FireTypes, RunAssumption DEF Idle
  <2>3. CASE s = f.id
    BY <1>6, <2>1, <2>2, <2>3 DEF FiredNow
  <2>4. CASE s # f.id
    <3>1. /\ Planned(s, NowKey(zone))' <=> Planned(s, NowKey(zone))
          /\ FiredNow(s)' <=> FiredNow(s)
      BY <1>1, <1>6, <2>1, <2>4 DEF Planned, IsDue, FiredNow
    <3>2. Planned(s, key) => FiredNow(s) \/ \E g \in Pending(i) : g.id = s
      BY <1>5, <2>1 DEF Right, NothingLost
    <3>3. QED
      BY <1>4, <2>1, <2>2, <2>4, <3>1, <3>2
  <2>5. QED
    BY <2>3, <2>4
<1>12. QED
  BY <1>9, <1>10, <1>11 DEF Right

\* The mark says what was done, and only of the schedule that was fired.
LEMMA MarksRight ==
    ASSUME Prompt, TypeOK, OneRun, Right, NEW i \in Slot, Mark(i)
    PROVE  Right'
<1> DEFINE f == run[i].current
<1> DEFINE key == run[i].key
<1> DEFINE todo == run[i].todo
<1>1. /\ UNCHANGED <<clock, ticked, up, zone, edits, done, unseen>>
      /\ Running(i, "marking") /\ run[i] # None
      /\ schedules' = IF schedules[f.id] = None THEN schedules
                      ELSE [schedules EXCEPT ![f.id].lastFiredKey = key]
      /\ unmarked' = unmarked \ {f.id}
      /\ run' = [run EXCEPT ![i].phase = "firing", ![i].current = None]
  BY DEF Mark, Running
<1>2. key \in Nat /\ todo \subseteq Due /\ f \in Due /\ f.id \in Schedule /\ f.edit \in Nat
  BY <1>1, RunFields DEF Due
<1>3. /\ run'[i] = [phase |-> "firing", key |-> key, todo |-> todo, current |-> None]
      /\ \A j \in Slot : j # i => run'[j] = run[j]
  <2>1. run[i] = [phase |-> "marking", key |-> key, todo |-> todo, current |-> f]
    BY <1>1, RunFields
  <2>2. run'[i] = [run[i] EXCEPT !.phase = "firing", !.current = None]
    BY <1>1 DEF TypeOK
  <2>3. QED
    BY <1>1, <2>1, <2>2 DEF TypeOK
<1>4. /\ Pending(i) = todo /\ Working(i) /\ done[f.id] = [edit |-> f.edit, key |-> key]
      /\ \A g \in todo : g.id # f.id
  BY <1>1 DEF Pending, Right, RunIsRight, Running, Working
<1>5. /\ Pending(i)' = todo /\ run'[i].key = key /\ run'[i].current = None
      /\ run'[i].todo = todo /\ ~Running(i, "marking")'
  BY <1>3 DEF Pending, Running
<1>6. /\ \A s \in Schedule : s # f.id => schedules'[s] = schedules[s]
      /\ schedules[f.id] = None => schedules'[f.id] = None
      /\ schedules[f.id] # None => schedules'[f.id] # None /\ schedules'[f.id].lastFiredKey = key
  BY <1>1, <1>2, RowAssumption DEF TypeOK, ScheduleRow
<1>7. \A j \in Slot : Running(j, "schedules")' \/ Working(j)' => j = i
  BY <1>1, <1>3, OnlyRun
<1>8. \A s \in Schedule : ~Marking(s)' /\ (s # f.id => ~Marking(s))
  <2>1. \A j \in Slot : ~Running(j, "marking")'
    BY <1>5, <1>7 DEF Working
  <2>2. \A j \in Slot : Running(j, "marking") => j = i
    BY <1>1 DEF Running, OneRun
  <2>3. QED
    BY <2>1, <2>2 DEF Marking
<1>9. done[f.id] # None /\ done[f.id].edit = f.edit /\ done[f.id].key = key
  BY <1>2, <1>4, SchedulerAssumption
<1>10. MarkIsDone'
  <2> SUFFICES ASSUME NEW s \in Schedule
               PROVE  /\ done[s] # None => done[s].edit <= edits[s]
                      /\ schedules'[s] # None /\ s \notin unmarked' =>
                            /\ done[s] # None /\ done[s].edit = edits[s] =>
                                  schedules'[s].lastFiredKey = done[s].key
                            /\ schedules'[s].lastFiredKey # None =>
                                  done[s] # None /\ done[s].key = schedules'[s].lastFiredKey
    BY <1>1 DEF MarkIsDone
  <2>1. done[s] # None => done[s].edit <= edits[s]
    BY DEF Right, MarkIsDone
  <2>2. CASE s = f.id
    BY <1>6, <1>9, <2>1, <2>2
  <2>3. CASE s # f.id
    <3>1. schedules'[s] = schedules[s] /\ ~Marking(s) /\ (s \in unmarked' <=> s \in unmarked)
      BY <1>1, <1>6, <1>8, <2>3
    <3>2. QED
      BY <2>1, <3>1 DEF Right, MarkIsDone
  <2>4. QED
    BY <2>2, <2>3
<1>11. RunIsRight'
  <2>1. \A g \in todo : g.id # f.id /\ g.id \in Schedule
    BY <1>2, <1>4 DEF Due
  <2>2. \A g \in todo :
           /\ g.edit <= edits[g.id]
           /\ done[g.id] # [edit |-> g.edit, key |-> key] \/ g.id \in unmarked'
           /\ g.id \notin unseen =>
                 schedules'[g.id] # None /\ schedules'[g.id].enabled /\ edits[g.id] = g.edit
    BY <1>1, <1>4, <1>6, <2>1 DEF Right, RunIsRight
  <2>3. None \notin todo
    BY <1>2, RunAssumption
  <2>4. \A g, h \in todo : g.id = h.id => g = h
    BY <1>4 DEF Right, RunIsRight
  <2>5. run'[i].current \notin run'[i].todo /\ \A j \in Slot : Working(j)' => j = i
    BY <1>5, <1>7, <2>3
  <2>6. SUFFICES ASSUME NEW j \in Slot, Working(j)'
                 PROVE  /\ run'[i].current \notin run'[i].todo
                        /\ \A g, h \in todo : g.id = h.id => g = h
                        /\ \A g \in todo :
                              /\ g.edit <= edits'[g.id]
                              /\ \/ done'[g.id] # [edit |-> g.edit, key |-> run'[i].key]
                                 \/ g.id \in unmarked'
                              /\ g.id \notin unseen' =>
                                    /\ schedules'[g.id] # None /\ schedules'[g.id].enabled
                                    /\ edits'[g.id] = g.edit
    BY <1>5, <2>5 DEF RunIsRight
  <2>7. QED
    BY <1>1, <1>5, <2>2, <2>4, <2>5
<1>12. NothingLost'
  <2> SUFFICES ASSUME NEW s \in Schedule, s \notin unseen
               PROVE  /\ key = NowKey(zone)'
                      /\ Planned(s, NowKey(zone))' =>
                            FiredNow(s)' \/ \E g \in todo : g.id = s
                      /\ ~Idle'
    BY <1>1, <1>5, <1>7 DEF NothingLost
  <2>1. key = NowKey(zone) /\ NowKey(zone)' = NowKey(zone)
    BY <1>1, <1>4 DEF Right, NothingLost, NowKey
  <2>2. ~Idle'
    BY <1>3, FireTypes, RunAssumption DEF Idle
  <2>3. CASE s = f.id
    BY <1>1, <1>9, <2>1, <2>2, <2>3 DEF FiredNow
  <2>4. CASE s # f.id
    <3>1. /\ Planned(s, NowKey(zone))' <=> Planned(s, NowKey(zone))
          /\ FiredNow(s)' <=> FiredNow(s)
      BY <1>1, <1>6, <2>1, <2>4 DEF Planned, IsDue, FiredNow
    <3>2. Planned(s, key) => FiredNow(s) \/ \E g \in Pending(i) : g.id = s
      BY <1>4, <2>1 DEF Right, NothingLost
    <3>3. QED
      BY <1>4, <2>1, <2>2, <3>1, <3>2
  <2>5. QED
    BY <2>3, <2>4
<1>13. QED
  BY <1>10, <1>11, <1>12 DEF Right

\* A run ends when everything planned has been fired.
LEMMA FinishesRight ==
    ASSUME Prompt, TypeOK, OneRun, Right, NEW i \in Slot, Finish(i)
    PROVE  Right'
<1>1. /\ UNCHANGED <<clock, zone, schedules, edits, done, unmarked, unseen>>
      /\ Running(i, "firing") /\ run[i] # None
      /\ run[i].current = None /\ run[i].todo = {}
      /\ run' = [run EXCEPT ![i] = None]
  BY DEF Finish, adminVars, ghostVars, Running
<1>2. \A j \in Slot : run'[j] = None
  BY <1>1 DEF OneRun, TypeOK
<1>3. /\ \A j \in Slot : ~Running(j, "schedules")' /\ ~Working(j)'
      /\ \A s \in Schedule : ~Marking(s) /\ ~Marking(s)'
  BY <1>1, <1>2 DEF Running, Working, Marking, OneRun
<1>4. Pending(i) = {} /\ Working(i)
  BY <1>1 DEF Pending, Working
<1>5. NowKey(zone)' = NowKey(zone)
  BY <1>1 DEF NowKey
<1>6. \A s \in Schedule :
         /\ Planned(s, NowKey(zone))' <=> Planned(s, NowKey(zone))
         /\ FiredNow(s)' <=> FiredNow(s)
  BY <1>1, <1>5 DEF Planned, IsDue, FiredNow
<1>7. NothingLost'
  <2>1. \A s \in Schedule \ unseen : Planned(s, NowKey(zone)) => FiredNow(s)
    BY <1>4 DEF Right, NothingLost
  <2>2. unseen' = unseen
    BY <1>1
  <2>3. \A s \in Schedule \ unseen' : Planned(s, NowKey(zone))' => FiredNow(s)'
    BY <1>6, <2>1, <2>2
  <2>4. QED
    BY <1>3, <2>3 DEF NothingLost
<1>8. MarkIsDone' /\ RunIsRight'
  BY <1>1, <1>3 DEF Right, MarkIsDone, RunIsRight
<1>9. QED
  BY <1>7, <1>8 DEF Right

\* Faults and restarts: nothing is promised before the next run.
LEMMA FailsRight ==
    ASSUME Prompt, TypeOK, OneRun, Right,
           Crash \/ Boot \/ \E i \in Slot : RunFails(i)
    PROVE  Right'
<1>1. UNCHANGED <<schedules, edits, done>>
  BY DEF Crash, Boot, RunFails, adminVars, ghostVars
<1>2. Idle'
  BY DEF Crash, Boot, RunFails, Idle, OneRun, TypeOK
<1>3. \A j \in Slot : ~Running(j, "schedules")' /\ ~Working(j)'
  BY <1>2 DEF Idle, Running, Working
<1>4. unseen' = Schedule \/ ~ticked'
  BY DEF Crash, Boot, RunFails
<1>5. ASSUME NEW s \in Schedule, s \notin unmarked'
      PROVE  s \notin unmarked /\ ~Marking(s)
  <2>1. CASE Crash
    BY <1>5, <2>1 DEF Crash, Unmarked, Marking, Running
  <2>2. CASE Boot
    BY <1>5, <2>2 DEF Boot, ghostVars, Marking, Running, OneRun, Idle
  <2>3. ASSUME NEW i \in Slot, RunFails(i)
        PROVE  s \notin unmarked /\ ~Marking(s)
    BY <1>5, <2>3 DEF RunFails, Unmarked, Marking, Running, OneRun
  <2>4. QED
    BY <2>1, <2>2, <2>3
<1>6. MarkIsDone'
  BY <1>1, <1>5 DEF Right, MarkIsDone
<1>7. QED
  BY <1>1, <1>3, <1>4, <1>6 DEF Right, RunIsRight, NothingLost

\* Administrators: what they change is unseen until the next run.
LEMMA AdministersRight ==
    ASSUME Prompt, TypeOK, OneRun, Right, UNCHANGED <<clock, ticked, up, run, done, unmarked>>,
           NEW changed \in SUBSET Schedule, unseen' = unseen \cup changed,
           changed = Schedule \/ zone' = zone,
           \A s \in Schedule \ changed : schedules'[s] = schedules[s] /\ edits'[s] = edits[s],
           \A s \in Schedule :
              \/ edits'[s] = edits[s] + 1 /\ schedules'[s] # None /\ schedules'[s].lastFiredKey = None
              \/ /\ edits'[s] = edits[s]
                 /\ schedules'[s] # None =>
                       schedules[s] # None /\ schedules'[s].lastFiredKey = schedules[s].lastFiredKey
    PROVE  Right'
<1>1. \A s \in Schedule : edits[s] \in Nat /\ (done[s] # None => done[s].edit \in Nat)
  BY SchedulerAssumption DEF TypeOK
<1>2. MarkIsDone'
  <2> SUFFICES ASSUME NEW s \in Schedule
               PROVE  /\ done[s] # None => done[s].edit <= edits'[s]
                      /\ schedules'[s] # None /\ s \notin unmarked /\ ~Marking(s) =>
                            /\ done[s] # None /\ done[s].edit = edits'[s] =>
                                  schedules'[s].lastFiredKey = done[s].key
                            /\ schedules'[s].lastFiredKey # None =>
                                  done[s] # None /\ done[s].key = schedules'[s].lastFiredKey
    BY DEF MarkIsDone, Marking, Running
  <2>1. QED
    BY <1>1 DEF Right, MarkIsDone
<1>3. \A i \in Slot : /\ Pending(i)' = Pending(i) /\ (Working(i)' <=> Working(i))
                      /\ \A phase \in {"schedules", "firing", "marking"} :
                            Running(i, phase)' <=> Running(i, phase)
  BY DEF Pending, Running, Working
<1>4. \A i \in Slot : Working(i) =>
         \A f \in Pending(i) : f.id \in Schedule /\ f.edit \in Nat
  BY RunFields DEF Pending, Due, Working, Running
<1>5. RunIsRight'
  <2> SUFFICES ASSUME NEW i \in Slot, Working(i), NEW f \in Pending(i)
               PROVE  /\ f.edit <= edits'[f.id]
                      /\ f.id \notin unseen' =>
                            schedules'[f.id] # None /\ schedules'[f.id].enabled
                            /\ edits'[f.id] = f.edit
    BY <1>3 DEF Right, RunIsRight
  <2>1. f.id \in Schedule /\ f.edit \in Nat
    BY <1>4
  <2>2. f.edit <= edits'[f.id]
    <3>1. f.edit <= edits[f.id] /\ edits[f.id] \in Nat
      BY <1>1, <2>1 DEF Right, RunIsRight
    <3>2. edits'[f.id] = edits[f.id] + 1 \/ edits'[f.id] = edits[f.id]
      BY <2>1
    <3>3. QED
      BY <2>1, <3>1, <3>2
  <2>3. QED
    BY <2>1, <2>2 DEF Right, RunIsRight
<1>6. NothingLost'
  <2>1. CASE changed = Schedule
    BY <2>1 DEF NothingLost
  <2>2. CASE zone' = zone
    <3>1. NowKey(zone)' = NowKey(zone) /\ (Idle' <=> Idle)
      BY <2>2 DEF NowKey, Idle
    <3>2. \A s \in Schedule \ unseen' :
             /\ Planned(s, NowKey(zone))' <=> Planned(s, NowKey(zone))
             /\ FiredNow(s)' <=> FiredNow(s)
      BY <3>1 DEF Planned, IsDue, FiredNow
    <3>3. QED
      BY <1>3, <3>1, <3>2 DEF Right, NothingLost
  <2>3. QED
    BY <2>1, <2>2
<1>7. QED
  BY <1>2, <1>5, <1>6 DEF Right

\* Every step keeps the invariant.
LEMMA RightNext ==
    ASSUME Prompt, TypeOK, OneRun, Right, [Next]_vars
    PROVE  Right'
<1>1. ASSUME NEW s \in Schedule, NEW plan \in Plan, NEW enabled \in BOOLEAN,
             Edit(s, plan, enabled)
      PROVE  Right'
  <2>1. /\ UNCHANGED <<clock, ticked, up, zone, run, done, unmarked>> /\ unseen' = unseen \cup {s}
        /\ edits'[s] = edits[s] + 1 /\ schedules'[s].lastFiredKey = None
        /\ schedules'[s] = [enabled |-> enabled, plan |-> plan, lastFiredKey |-> None]
        /\ \A t \in Schedule \ {s} : edits'[t] = edits[t] /\ schedules'[t] = schedules[t]
    BY <1>1 DEF Edit, TypeOK
  <2>2. schedules'[s] # None
    BY <2>1, RowAssumption DEF ScheduleRow
  <2>3. QED
    BY <2>1, <2>2, AdministersRight
<1>2. ASSUME NEW s \in Schedule, Toggle(s)
      PROVE  Right'
  <2>1. /\ UNCHANGED <<clock, ticked, up, zone, run, done, unmarked, edits>> /\ unseen' = unseen \cup {s}
        /\ schedules[s] # None /\ schedules'[s].lastFiredKey = schedules[s].lastFiredKey
        /\ \A t \in Schedule \ {s} : schedules'[t] = schedules[t]
    BY <1>2 DEF Toggle, TypeOK, ScheduleRow
  <2>2. QED
    BY <2>1, AdministersRight
<1>3. ASSUME NEW s \in Schedule, Delete(s)
      PROVE  Right'
  <2>1. /\ UNCHANGED <<clock, ticked, up, zone, run, done, unmarked, edits>> /\ unseen' = unseen \cup {s}
        /\ schedules'[s] = None
        /\ \A t \in Schedule \ {s} : schedules'[t] = schedules[t]
    BY <1>3 DEF Delete, TypeOK
  <2>2. QED
    BY <2>1, AdministersRight
<1>4. ASSUME NEW z \in Zone, SetZone(z)
      PROVE  Right'
  <2>1. /\ UNCHANGED <<clock, ticked, up, run, done, unmarked, edits, schedules>>
        /\ unseen' = unseen \cup Schedule
    BY <1>4 DEF SetZone, TypeOK
  <2>2. QED
    BY <2>1, AdministersRight
<1>5. CASE UNCHANGED vars
  <2>1. /\ UNCHANGED <<clock, ticked, up, zone, run, edits, schedules>>
        /\ UNCHANGED <<done, unmarked, unseen>>
    BY <1>5 DEF vars, adminVars, ghostVars
  <2>2. unseen' = unseen \cup {} /\ {} \in SUBSET Schedule
    BY <2>1
  <2>3. QED
    BY <2>1, <2>2, AdministersRight
<1>6. ASSUME NEW i \in Slot, RunStep(i) \/ Tick(i) \/ RunFails(i)
      PROVE  Right'
  BY <1>6, StartsRight, ReadsRight, FiresRight, FiredRight, MarksRight, FinishesRight,
     FailsRight DEF RunStep
<1>7. CASE Advance
  <2>1. CASE Slot = {}
    BY <1>7, <2>1 DEF Advance, Right, MarkIsDone, RunIsRight, NothingLost, Marking,
                      adminVars, ghostVars
  <2>2. CASE Slot # {}
    BY <1>7, <2>2, StartsRight
  <2>3. QED
    BY <2>1, <2>2
<1>8. QED
  BY <1>1, <1>2, <1>3, <1>4, <1>5, <1>6, <1>7, FailsRight DEF Next

(***************************************************************************)
(* The theorems.                                                           *)
(***************************************************************************)
\* With prompt runs the invariant holds.
LEMMA SInvHolds == Spec => [](Prompt => SInv)
<1>1. Init => SInv
  <2> SUFFICES ASSUME Init PROVE SInv
    OBVIOUS
  <2>1. TypeOK
    BY InitTypes
  <2>2. /\ Idle /\ ~ticked /\ done = [s \in Schedule |-> None]
        /\ unseen = Schedule /\ unmarked = {}
    BY DEF Init, Idle
  <2>3. \A s \in Schedule : schedules[s] # None => schedules[s].lastFiredKey = None
    BY DEF Init
  <2>4. OneRun
    BY <2>2 DEF OneRun, Idle
  <2>5. MarkIsDone
    BY <2>2, <2>3 DEF MarkIsDone
  <2>6. RunIsRight /\ NothingLost
    BY <2>2 DEF RunIsRight, NothingLost, Running, Working, Idle
  <2>7. QED
    BY <2>1, <2>4, <2>5, <2>6 DEF SInv
<1>2. (Prompt => SInv) /\ [Next]_vars => (Prompt => SInv)'
  BY TypesNext, OneRunNext, RightNext DEF SInv, Right
<1>3. QED
  BY <1>1, <1>2, PTL DEF Spec

\* With prompt runs a schedule that was completely fired in a minute fires again in it
\* only if it has been edited or a crash or a rejected UPDATE has cut off its mark:
\* over restarts, failed runs, clock changes and timezone changes (scheduler.ts 33-39).
THEOREM FiresOnce == Spec => [](Prompt => FiresAgainIfUnmarked)
<1>1. (Prompt => SInv) => (Prompt => FiresAgainIfUnmarked)
  <2> SUFFICES ASSUME SInv, NEW i \in Slot, NEW s \in Schedule, FiresAgain(i, s)
               PROVE  s \in unmarked
    BY DEF FiresAgainIfUnmarked
  <2>1. /\ Working(i) /\ run[i].current \in Pending(i) /\ s = run[i].current.id
        /\ done[s] = [edit |-> run[i].current.edit, key |-> run[i].key]
    BY DEF FiresAgain, Pending, Working, Running
  <2>2. QED
    BY <2>1 DEF SInv, RunIsRight
<1>2. QED
  BY <1>1, SInvHolds, PTL

\* With prompt runs a schedule that was deleted, disabled or edited before a run
\* began is not fired by it as it was (scheduler.ts 17-42).
THEOREM FiresCurrent == Spec => [](Prompt => FiresWhatIsThere)
<1>1. (Prompt => SInv) => (Prompt => FiresWhatIsThere)
  <2> SUFFICES ASSUME SInv, NEW i \in Slot, Running(i, "firing"), run[i].current # None
               PROVE  LET f == run[i].current
                      IN  f.id \notin unseen =>
                             schedules[f.id] # None /\ schedules[f.id].enabled
                             /\ edits[f.id] = f.edit
    BY DEF FiresWhatIsThere, Running
  <2>1. Working(i) /\ run[i].current \in Pending(i)
    BY DEF Pending, Working, Running
  <2>2. QED
    BY <2>1 DEF SInv, RunIsRight
<1>2. QED
  BY <1>1, SInvHolds, PTL

\* With prompt runs no planned minute is lost (scheduler.ts 17-42).
THEOREM NoMinuteLost ==
    ASSUME Prompt
    PROVE  Spec => PlannedMinuteFires
<1>1. SInv /\ [Next]_vars =>
         [clock' # clock /\ up =>
             \A s \in Schedule \ unseen :
                 Planned(s, NowKey(zone)) => FiredNow(s)]_vars
  <2> SUFFICES ASSUME SInv, Prompt, Next, clock' # clock, up
               PROVE  \A s \in Schedule \ unseen :
                         Planned(s, NowKey(zone)) => FiredNow(s)
    OBVIOUS
  <2>1. Advance
    BY DEF Next, RunStep, Tick, ReadOrgs, ReadSchedules, Fire, Fired, Mark, Finish, RunFails, Crash, Boot,
           Edit, Toggle, Delete, SetZone
  <2>2. Idle /\ ticked
    BY <2>1 DEF Advance
  <2>3. QED
    BY <2>2 DEF SInv, NothingLost
<1>2. (Prompt => SInv) => SInv
  OBVIOUS
<1>3. QED
  BY <1>1, <1>2, SInvHolds, PTL DEF Spec, PlannedMinuteFires
=============================================================================
