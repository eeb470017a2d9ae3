---------------------------- MODULE CalendarCheck ----------------------------
(***************************************************************************)
(* The announced next run against its definition: the first later minute   *)
(* in which the schedule is due.  The state is one schedule timing and the *)
(* instant at which a cycle of the worker looks at it; time moves on tick  *)
(* by tick up to LastLook.                                                 *)
(***************************************************************************)
EXTENDS ScheduleCalendar, FiniteSetsExt

CONSTANTS
    LookedAt,   \* the timings looked at
    LastLook    \* last instant at which the worker looks

\* The calendar reaches a month and a week beyond the last look.
ASSUME LookAssumption ==
    /\ LookedAt \subseteq Timing
    /\ LastLook \in Nat
    /\ MonthCount > 1 /\ LastLook < MonthStart[MonthCount - 1] * TicksPerDay
    /\ DayOf(LastLook) + DaysPerWeek < MonthStart[MonthCount]

VARIABLES schedule, instant
lookVars == <<schedule, instant>>

LookInit == schedule \in LookedAt /\ instant = 0

\* The worker looks again one tick later.
Look == /\ instant < LastLook
        /\ instant' = instant + 1
        /\ UNCHANGED schedule

LookSpec == LookInit /\ [][Look]_lookVars

-----------------------------------------------------------------------------
\* The starts of the minutes after t, to the end of the calendar, in which tm is due.
DueStarts(tm, t) ==
    {u \in {StartOf(d, tm.minute) : d \in DayOf(t)..(MonthStart[MonthCount] - 1)} :
        t < u /\ ShouldRun(tm, u)}

FirstDue(tm, t) == IF DueStarts(tm, t) = {} THEN Null ELSE Min(DueStarts(tm, t))

\* Has a firing in every month: no clamping to a shorter month's last day.
InEveryMonth(tm) == \A m \in 0..(MonthCount - 1) : TargetDom(tm) <= LastDay(m)

Started(tm, t) == tm.start <= DayOf(t)

(***************************************************************************)
(* For a schedule that has started and whose day exists in every month the *)
(* value _compute_next_run announces is the first later minute in which    *)
(* _should_run holds, and nothing is announced exactly when there is none. *)
(***************************************************************************)
NextRunIsFirstDue ==
    /\ Started(schedule, instant)
    /\ schedule.frequency = "monthly" => InEveryMonth(schedule)
    => NextRun(schedule, instant) = FirstDue(schedule, instant)
=============================================================================
