---------------------------- MODULE MCScheduler ----------------------------
(***************************************************************************)
(* A calendar with days of two minutes and weeks of two days, and two      *)
(* timezones: in one the clock is turned back by a minute in the middle of *)
(* the behaviour, the other one is a minute ahead of it.                   *)
(***************************************************************************)
EXTENDS Scheduler, TLC

CONSTANTS home, away

ScheduleSymmetry == Permutations(Schedule)

MCZone == {home, away}

MCLocal ==
    [z \in MCZone |->
        [m \in Minutes |-> IF z = home THEN (IF m < 2 THEN m ELSE m - 1) ELSE m + 1]]

MCPlan ==
    { [kind |-> "weekly", time |-> 1, days |-> {0, 1}],
      [kind |-> "once", time |-> 0, date |-> 1] }
=============================================================================
