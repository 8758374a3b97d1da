----------------------------- MODULE Scheduler -----------------------------
(***************************************************************************)
(* The schedule runner of one organisation.  A timer starts a run every 30 *)
(* seconds, whether or not the previous run has finished; a run computes   *)
(* the organisation's wall-clock minute, reads the schedules and, for each *)
(* that is due in that minute and not yet marked as fired in it, applies   *)
(* the action to the target devices and then writes lastFiredKey.          *)
(*                                                                         *)
(* Meanwhile administrators edit, toggle, delete and create schedules and  *)
(* change the timezone, and the server crashes and restarts.  What a       *)
(* firing does to a device is Gateway's business: here it lasts from Fire  *)
(* to Fired, the awaits of fireSchedule lying in between; only then is the *)
(* schedule marked, by another statement.                                  *)
(***************************************************************************)
EXTENDS Naturals, FiniteSets

CONSTANTS
    Schedule,      \* schedule ids
    Slot,          \* identities for runs in progress; their number is a bound
    Plan,          \* the times an edit can choose, see PlanType
    Zone,          \* timezones
    Local,         \* Local[z][m]: the local minute, counted from a local
                   \* midnight, that zone z shows at minute m
    DayLength,     \* minutes in a day (bound: a short day)
    WeekLength,    \* days in a week (bound: a short week)
    MaxClock,      \* bound: half-minutes of one behaviour
    MaxEdits,      \* bound: edits of one schedule
    MaxFaults,     \* bound: crashes and database errors
    Prompt,        \* TRUE: every run ends before the next tick
    None

Minutes == 0..(MaxClock \div 2)

PlanType ==
    [kind : {"weekly"}, time : 0..(DayLength - 1), days : SUBSET (0..(WeekLength - 1))]
        \cup [kind : {"once"}, time : 0..(DayLength - 1), date : Nat]

ASSUME SchedulerAssumption ==
    /\ DayLength \in Nat \ {0} /\ WeekLength \in Nat \ {0}
    /\ MaxClock \in Nat /\ MaxEdits \in Nat /\ MaxFaults \in Nat
    /\ Prompt \in BOOLEAN
    /\ Plan \subseteq PlanType
    /\ Local \in [Zone -> [Minutes -> Nat]]
    /\ None \notin Nat /\ None \notin Schedule /\ None \notin [edit : Nat, key : Nat]

VARIABLES
    clock,     \* half-minutes since the start
    ticked,    \* the timer has fired in this half-minute
    up,        \* the server process is running
    zone,      \* the organisation's timezone
    schedules, \* schedules[s]: the row of s, or None
    run,       \* run[i]: a run in progress, or None
    faults,
    edits,     \* edits[s]: how often s was created or edited (which payload it has)
    done,      \* done[s]: the last completed firing of s: which edit, which minute
    unmarked,  \* schedules whose last completed firing was never marked
    unseen     \* schedules that changed since the last run began, or that a
               \* failed run may not have reached

vars == <<clock, ticked, up, zone, schedules, run, faults, edits, done,
          unmarked, unseen>>
adminVars == <<zone, schedules, edits>>
ghostVars == <<done, unmarked, unseen>>

ScheduleRow == [enabled : BOOLEAN, plan : Plan, lastFiredKey : Nat \cup {None}]

ASSUME RowAssumption == None \notin ScheduleRow

Due == [id : Schedule, edit : Nat]

\* Waiting for the orgs, for the schedules, or working through the due ones, of
\* which `current' is being fired or, fired, being marked.
Run ==
    [phase : {"orgs"}]
        \cup [phase : {"schedules"}, key : Nat]
        \cup [phase : {"firing"}, key : Nat, todo : SUBSET Due, current : Due \cup {None}]
        \cup [phase : {"marking"}, key : Nat, todo : SUBSET Due, current : Due]

ASSUME RunAssumption == None \notin Run /\ None \notin Due

TypeOK ==
    /\ clock \in 0..MaxClock
    /\ ticked \in BOOLEAN /\ up \in BOOLEAN
    /\ zone \in Zone
    /\ schedules \in [Schedule -> ScheduleRow \cup {None}]
    /\ run \in [Slot -> Run \cup {None}]
    /\ faults \in 0..MaxFaults
    /\ edits \in [Schedule -> 0..MaxEdits]
    /\ done \in [Schedule -> [edit : Nat, key : Nat] \cup {None}]
    /\ unmarked \in SUBSET Schedule /\ unseen \in SUBSET Schedule

Init ==
    /\ clock = 0 /\ ticked = FALSE /\ up = TRUE
    /\ zone \in Zone
    /\ schedules \in [Schedule -> [enabled : {TRUE}, plan : Plan, lastFiredKey : {None}]]
    /\ run = [i \in Slot |-> None]
    /\ faults = 0
    /\ edits = [s \in Schedule |-> 0]
    /\ done = [s \in Schedule |-> None]
    /\ unmarked = {} /\ unseen = Schedule

Idle == \A i \in Slot : run[i] = None

(***************************************************************************)
(* Time.                                                                   *)
(***************************************************************************)
\* now.key: the local date and minute, which is what a local minute count is.
NowKey(z) == Local[z][clock \div 2]

\* now.hhmm, now.date and now.weekday.
TimeOfDay(key) == key % DayLength
Date(key) == key \div DayLength
Weekday(key) == Date(key) % WeekLength

\* Half a minute passes. The timer does not skip a beat while the server is up,
\* and in the prompt case the run it started is over.
Advance ==
    /\ clock < MaxClock
    /\ up => ticked
    /\ Prompt => Idle
    /\ clock' = clock + 1
    /\ ticked' = FALSE
    /\ UNCHANGED <<up, adminVars, run, faults, ghostVars>>

(***************************************************************************)
(* The runs.                                                               *)
(***************************************************************************)
\* tick(): the setInterval callback, and the call at startup.
Tick(i) ==
    /\ up /\ ~ticked /\ run[i] = None
    /\ ticked' = TRUE
    /\ run' = [run EXCEPT ![i] = [phase |-> "orgs"]]
    /\ UNCHANGED <<clock, up, adminVars, faults, ghostVars>>

\* The orgs are there: the local minute is computed for this organisation (after
\* the organisations before it have been dealt with).
ReadOrgs(i) ==
    /\ run[i] # None /\ run[i].phase = "orgs"
    /\ run' = [run EXCEPT ![i] = [phase |-> "schedules", key |-> NowKey(zone)]]
    /\ unseen' = {}
    /\ UNCHANGED <<clock, ticked, up, adminVars, faults, done, unmarked>>

\* Mutant: lastFiredKey is not looked at.
IsDueAgain(row, key) ==
    /\ row.enabled
    /\ row.plan.time = TimeOfDay(key)
    /\ IF row.plan.kind = "weekly"
       THEN Weekday(key) \in row.plan.days
       ELSE row.plan.date = Date(key)

\* Mutant: a schedule that has been switched off fires.
IsDueThoughOff(row, key) ==
    /\ row.plan.time = TimeOfDay(key)
    /\ IF row.plan.kind = "weekly"
       THEN Weekday(key) \in row.plan.days
       ELSE row.plan.date = Date(key)
    /\ row.lastFiredKey # key

\* Enabled, at this minute of this day, and not yet fired in it.
IsDue(row, key) ==
    /\ row.enabled
    /\ row.plan.time = TimeOfDay(key)
    /\ IF row.plan.kind = "weekly"
       THEN Weekday(key) \in row.plan.days
       ELSE row.plan.date = Date(key)
    /\ row.lastFiredKey # key

\* Mutants: the key is compared without its date; the answer is not kept.
ReadSchedulesByTime(i) ==
    /\ run[i] # None /\ run[i].phase = "schedules"
    /\ LET key == run[i].key
           due == {s \in Schedule :
                     /\ schedules[s] # None /\ IsDue(schedules[s], key)
                     /\ schedules[s].lastFiredKey # None =>
                           TimeOfDay(schedules[s].lastFiredKey) # TimeOfDay(key)}
       IN  run' = [run EXCEPT ![i] =
              [phase |-> "firing", key |-> key, current |-> None,
               todo |-> {[id |-> s, edit |-> edits[s]] : s \in due}]]
    /\ UNCHANGED <<clock, ticked, up, adminVars, faults, ghostVars>>

ReadSchedulesIds(i) ==
    /\ run[i] # None /\ run[i].phase = "schedules"
    /\ LET key == run[i].key
       IN  run' = [run EXCEPT ![i] =
              [phase |-> "firing", key |-> key, current |-> None,
               todo |-> {s \in Schedule : schedules[s] # None /\ IsDue(schedules[s], key)}]]
    /\ UNCHANGED <<clock, ticked, up, adminVars, faults, ghostVars>>

\* The schedules are there; which are due is decided on this answer, and what
\* they do was read with it.
ReadSchedules(i) ==
    /\ run[i] # None /\ run[i].phase = "schedules"
    /\ LET key == run[i].key
           due == {s \in Schedule : schedules[s] # None /\ IsDue(schedules[s], key)}
       IN  run' = [run EXCEPT ![i] =
              [phase |-> "firing", key |-> key, current |-> None,
               todo |-> {[id |-> s, edit |-> edits[s]] : s \in due}]]
    /\ UNCHANGED <<clock, ticked, up, adminVars, faults, ghostVars>>

\* fireSchedule begins with the next due schedule, in the order of the answer.
Fire(i) ==
    /\ run[i] # None /\ run[i].phase = "firing" /\ run[i].current = None
    /\ \E f \in run[i].todo :
          run' = [run EXCEPT ![i].current = f, ![i].todo = @ \ {f}]
    /\ UNCHANGED <<clock, ticked, up, adminVars, faults, ghostVars>>

\* fireSchedule has applied the action to every device.
Fired(i) ==
    /\ run[i] # None /\ run[i].phase = "firing" /\ run[i].current # None
    /\ LET f == run[i].current
       IN  done' = [done EXCEPT ![f.id] = [edit |-> f.edit, key |-> run[i].key]]
    /\ run' = [run EXCEPT ![i].phase = "marking"]
    /\ UNCHANGED <<clock, ticked, up, adminVars, faults, unmarked, unseen>>

\* The UPDATE of lastFiredKey, whatever the row says by now, if there still is one.
Mark(i) ==
    /\ run[i] # None /\ run[i].phase = "marking"
    /\ LET s == run[i].current.id
       IN  /\ schedules' = IF schedules[s] = None THEN schedules
                           ELSE [schedules EXCEPT ![s].lastFiredKey = run[i].key]
           /\ unmarked' = unmarked \ {s}
    /\ run' = [run EXCEPT ![i].phase = "firing", ![i].current = None]
    /\ UNCHANGED <<clock, ticked, up, zone, faults, edits, done, unseen>>

\* Nothing left to fire.
Finish(i) ==
    /\ run[i] # None /\ run[i].phase = "firing"
    /\ run[i].current = None /\ run[i].todo = {}
    /\ run' = [run EXCEPT ![i] = None]
    /\ UNCHANGED <<clock, ticked, up, adminVars, faults, ghostVars>>

Fault == faults < MaxFaults /\ faults' = faults + 1

\* The schedules that run i has fired and not yet marked.
Unmarked(i) ==
    {s \in Schedule : run[i] # None /\ run[i].phase = "marking" /\ s = run[i].current.id}

\* A query of the run is rejected: the error is logged and the rest of the run
\* is skipped, the mark of what has just been fired included.
RunFails(i) ==
    /\ run[i] # None /\ Fault
    /\ run' = [run EXCEPT ![i] = None]
    /\ unmarked' = unmarked \cup Unmarked(i)
    /\ unseen' = Schedule
    /\ UNCHANGED <<clock, ticked, up, adminVars, done>>

(***************************************************************************)
(* The process.                                                            *)
(***************************************************************************)
\* The daily restart, a deployment or a crash, in the middle of runs or not.
Crash ==
    /\ up /\ Fault
    /\ up' = FALSE
    /\ run' = [i \in Slot |-> None]
    /\ unmarked' = unmarked \cup UNION {Unmarked(i) : i \in Slot}
    /\ unseen' = Schedule
    /\ UNCHANGED <<clock, ticked, adminVars, done>>

\* startScheduler: the first tick comes at once, even in the half-minute of the
\* old process's last one.
Boot ==
    /\ ~up
    /\ up' = TRUE /\ ticked' = FALSE
    /\ UNCHANGED <<clock, adminVars, run, faults, ghostVars>>

(***************************************************************************)
(* The administrators.                                                     *)
(***************************************************************************)
\* POST (s is new) and PUT: all fields are replaced, lastFiredKey is reset.
Edit(s, plan, enabled) ==
    /\ up /\ edits[s] < MaxEdits
    /\ schedules' = [schedules EXCEPT ![s] =
          [enabled |-> enabled, plan |-> plan, lastFiredKey |-> None]]
    /\ edits' = [edits EXCEPT ![s] = @ + 1]
    /\ unseen' = unseen \cup {s}
    /\ UNCHANGED <<clock, ticked, up, zone, run, faults, done, unmarked>>

\* PATCH { enabled }.
Toggle(s) ==
    /\ up /\ schedules[s] # None
    /\ schedules' = [schedules EXCEPT ![s].enabled = ~@]
    /\ unseen' = unseen \cup {s}
    /\ UNCHANGED <<clock, ticked, up, zone, run, faults, edits, done, unmarked>>

Delete(s) ==
    /\ up /\ schedules[s] # None
    /\ schedules' = [schedules EXCEPT ![s] = None]
    /\ unseen' = unseen \cup {s}
    /\ UNCHANGED <<clock, ticked, up, zone, run, faults, edits, done, unmarked>>

\* PATCH /api/org { timezone }.
SetZone(z) ==
    /\ up /\ z # zone
    /\ zone' = z
    /\ unseen' = Schedule
    /\ UNCHANGED <<clock, ticked, up, schedules, run, faults, edits, done, unmarked>>

-----------------------------------------------------------------------------
RunStep(i) ==
    \/ ReadOrgs(i)
    \/ ReadSchedules(i)
    \/ Fire(i)
    \/ Fired(i)
    \/ Mark(i)
    \/ Finish(i)

Next ==
    \/ Advance
    \/ \E i \in Slot : Tick(i) \/ RunStep(i) \/ RunFails(i)
    \/ Crash
    \/ Boot
    \/ \E s \in Schedule :
          \/ \E plan \in Plan, enabled \in BOOLEAN : Edit(s, plan, enabled)
          \/ Toggle(s)
          \/ Delete(s)
    \/ \E z \in Zone : SetZone(z)

Spec == Init /\ [][Next]_vars

(***************************************************************************)
(* What must hold.                                                         *)
(***************************************************************************)
\* Run i is firing schedule s again, which was completely fired in the same local
\* minute and has not been edited since.
FiresAgain(i, s) ==
    /\ run[i] # None /\ run[i].phase = "firing" /\ run[i].current # None
    /\ s = run[i].current.id
    /\ done[s] = [edit |-> run[i].current.edit, key |-> run[i].key]

\* scheduler.ts 10-11: "lastFiredKey dedupes within the minute and across
\* restarts": no schedule is fired again.
FiresOncePerMinute == \A i \in Slot, s \in Schedule : ~FiresAgain(i, s)

\* What is left of it when runs end before the next tick: only a schedule whose
\* firing was completed and not marked, since a crash or a rejected UPDATE came
\* between the two statements, is fired again; one that was marked is not, whether
\* the minute is ticked twice, the server restarts in it or fails later in the run,
\* or the clock is turned back to it (scheduler.ts 33-39).
FiresAgainIfUnmarked == \A i \in Slot, s \in Schedule : FiresAgain(i, s) => s \in unmarked

\* The planned minute of a row, fired or not.
Planned(s, key) ==
    schedules[s] # None /\ IsDue([schedules[s] EXCEPT !.lastFiredKey = None], key)

\* What fires is up to date but for changes made while the run that fires it is in
\* progress: a schedule deleted, disabled or edited before, however shortly, does
\* not fire as it was (scheduler.ts 17-42, schedules.ts 73-131).
FiresWhatIsThere ==
    \A i \in Slot :
        run[i] # None /\ run[i].phase = "firing" /\ run[i].current # None
            => LET f == run[i].current
               IN  f.id \notin unseen =>
                      schedules[f.id] # None /\ schedules[f.id].enabled /\ edits[f.id] = f.edit

\* Schedule s has been fired in the present minute: by its last firing or, if the mark
\* of that one was cut off, by the one its mark tells of.
FiredNow(s) ==
    \/ done[s] # None /\ done[s].key = NowKey(zone)
    \/ s \in unmarked /\ schedules[s] # None /\ schedules[s].lastFiredKey = NowKey(zone)

\* No minute is lost: when half a minute ends with the server up, every schedule
\* planned for it has been fired in this very minute, unless it was changed after
\* the last run had begun or that run failed (scheduler.ts 17-42; DST included).
PlannedMinuteFires ==
    [][clock' # clock /\ up =>
          \A s \in Schedule \ unseen : Planned(s, NowKey(zone)) => FiredNow(s)]_vars

\* schedules.ts 76-77: a PUT "resets lastFiredKey so an edited time can fire
\* again today": what has been fired in a planned minute is the schedule as
\* edited, under the same conditions.
EditedScheduleFires ==
    [][clock' # clock /\ up =>
          \A s \in Schedule \ unseen :
              Planned(s, NowKey(zone)) => done[s] # None /\ done[s].edit = edits[s]]_vars
=============================================================================
