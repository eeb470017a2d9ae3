----------------------------- MODULE MCScheduler -----------------------------
(***************************************************************************)
(* Days of three minutes of two ticks, weeks of two days, months of two or *)
(* three days.  The dedupe window is shorter than a day and longer than a  *)
(* minute, like 55 minutes.                                                *)
(***************************************************************************)
EXTENDS Scheduler

CONSTANTS s1, b1, b2

MCMonthStart == [m \in 0..3 |-> <<0, 2, 5, 7>>[m + 1]]

At(frequency, minute, dow, dom, end) ==
    [frequency |-> frequency, minute |-> minute, dow |-> dow, dom |-> dom,
     start |-> 0, end |-> end]

OneTarget == [s \in Schedules |-> {b1}]
TwoTargets == [s \in Schedules |-> {b1, b2}]

Mixed == {At("daily", 1, Null, Null, Null), At("daily", 2, Null, Null, 1),
          At("weekly", 1, 1, Null, Null), At("monthly", 0, Null, 2, Null)}
OneDaily == {At("daily", 1, Null, Null, Null)}
=============================================================================
