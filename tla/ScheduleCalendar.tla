-------------------------- MODULE ScheduleCalendar --------------------------
(***************************************************************************)
(* The calendar arithmetic of backend/scheduler.py: when a schedule is due *)
(* (_should_run) and which firing the worker announces for it              *)
(* (_compute_next_run).                                                    *)
(*                                                                         *)
(* An instant is a number of ticks since the start of day 0 of the worker's*)
(* local time zone; a tick is the part of a minute the loop can observe.   *)
(* The zone has a fixed offset (Africa/Nairobi, the default of the TZ      *)
(* variable), so an instant has one local and one UTC reading.  Day 0 is a *)
(* Monday.  Month m covers the days MonthStart[m] .. MonthStart[m+1] - 1.  *)
(***************************************************************************)
EXTENDS Integers

CONSTANTS
    TicksPerMinute,
    MinutesPerDay,
    DaysPerWeek,
    MonthCount,     \* months 0 .. MonthCount-1 are in the calendar
    MonthStart      \* MonthStart[m] = first day of month m

ASSUME CalendarAssumption ==
    /\ TicksPerMinute \in Nat \ {0}
    /\ MinutesPerDay \in Nat \ {0}
    /\ DaysPerWeek \in Nat \ {0}
    /\ MonthCount \in Nat \ {0}
    /\ MonthStart \in [0..MonthCount -> Nat]
    /\ MonthStart[0] = 0
    /\ \A m \in 0..(MonthCount - 1) : MonthStart[m] < MonthStart[m + 1]
    \* every day lies in a month
    /\ \A d \in 0..(MonthStart[MonthCount] - 1) :
          \E m \in 0..(MonthCount - 1) : MonthStart[m] <= d /\ d < MonthStart[m + 1]

\* SQL NULL and Python None, for instants, days and the optional day fields.
Null == -1

TicksPerDay == TicksPerMinute * MinutesPerDay

DayOf(t) == t \div TicksPerDay
MinuteOf(t) == (t % TicksPerDay) \div TicksPerMinute
StartOf(day, minute) == day * TicksPerDay + minute * TicksPerMinute

WeekdayOf(day) == day % DaysPerWeek

MonthOf(day) ==
    CHOOSE m \in 0..(MonthCount - 1) :
        MonthStart[m] <= day /\ day < MonthStart[m + 1]

DayOfMonth(day) == day - MonthStart[MonthOf(day)] + 1

\* calendar.monthrange(year, month)[1]
LastDay(m) == MonthStart[m + 1] - MonthStart[m]

-----------------------------------------------------------------------------
(***************************************************************************)
(* The columns of report_schedules that say when a schedule fires.  A PATCH*)
(* stores any text as the frequency, so "other" stands for every text that *)
(* is none of the three the worker knows.                                  *)
(***************************************************************************)
Timing == [frequency : {"daily", "weekly", "monthly", "other"},
           minute    : 0..(MinutesPerDay - 1),
           dow       : {Null} \cup 0..(DaysPerWeek - 1),
           dom       : {Null} \cup (Nat \ {0}),
           start     : Nat,
           end       : {Null} \cup Nat]

\* s["day_of_week"] or 0, s["day_of_month"] or 1
TargetDow(tm) == IF tm.dow = Null THEN 0 ELSE tm.dow
TargetDom(tm) == IF tm.dom = Null THEN 1 ELSE tm.dom

\* _should_run: the schedule is due in the minute that instant t lies in.
ShouldRun(tm, t) ==
    LET day == DayOf(t) IN
    /\ tm.start <= day
    /\ tm.end = Null \/ day <= tm.end
    /\ MinuteOf(t) = tm.minute
    /\ \/ tm.frequency = "daily"
       \/ tm.frequency = "weekly" /\ WeekdayOf(day) = TargetDow(tm)
       \/ tm.frequency = "monthly" /\ DayOfMonth(day) = TargetDom(tm)

\* The instant of tm's firing in month m, its day clamped to the month's last.
MonthlyFiring(tm, m) ==
    LET dom == IF TargetDom(tm) <= LastDay(m) THEN TargetDom(tm) ELSE LastDay(m)
    IN  StartOf(MonthStart[m] + dom - 1, tm.minute)

\* Faulty variants: a firing in the very instant t counts as still to come.
DailyCandidateStrict(tm, t) ==
    LET today == StartOf(DayOf(t), tm.minute)
    IN  IF today < t THEN today + TicksPerDay ELSE today

WeeklyCandidateStrict(tm, t) ==
    LET ahead == (TargetDow(tm) - WeekdayOf(DayOf(t))) % DaysPerWeek
        first == StartOf(DayOf(t) + ahead, tm.minute)
    IN  IF first < t THEN first + DaysPerWeek * TicksPerDay ELSE first

DailyCandidate(tm, t) ==
    LET today == StartOf(DayOf(t), tm.minute)
    IN  IF today <= t THEN today + TicksPerDay ELSE today

WeeklyCandidate(tm, t) ==
    LET ahead == (TargetDow(tm) - WeekdayOf(DayOf(t))) % DaysPerWeek
        first == StartOf(DayOf(t) + ahead, tm.minute)
    IN  IF first <= t THEN first + DaysPerWeek * TicksPerDay ELSE first

MonthlyCandidate(tm, t) ==
    LET m == MonthOf(DayOf(t))
    IN  IF MonthlyFiring(tm, m) <= t THEN MonthlyFiring(tm, m + 1)
                                     ELSE MonthlyFiring(tm, m)

Candidate(tm, t) ==
    CASE tm.frequency = "daily"   -> DailyCandidate(tm, t)
      [] tm.frequency = "weekly"  -> WeeklyCandidate(tm, t)
      [] tm.frequency = "monthly" -> MonthlyCandidate(tm, t)
      [] OTHER                    -> Null

\* _compute_next_run: the firing announced to the UI, Null when there is none.
NextRun(tm, t) ==
    LET next == Candidate(tm, t)
    IN  IF next # Null /\ tm.end # Null /\ DayOf(next) > tm.end THEN Null ELSE next
=============================================================================
