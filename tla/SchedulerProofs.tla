--------------------------- MODULE SchedulerProofs ---------------------------
(***************************************************************************)
(* Proofs about the scheduler for every set of schedules and businesses,   *)
(* every calendar, dedupe window and horizon.                              *)
(***************************************************************************)
EXTENDS Scheduler, CalendarCheck, SumTheorems, TLAPS

(***************************************************************************)
(* The calendar: the announced next run of a schedule is a later instant   *)
(* than the one it is computed from.                                       *)
(***************************************************************************)

\* Division with remainder.
LEMMA DivMod ==
    ASSUME NEW t \in Nat, NEW d \in Nat \ {0}
    PROVE  /\ t \div d \in Nat
           /\ t % d \in 0..(d - 1)
           /\ t = (t \div d) * d + (t % d)
  BY SMT

\* Multiplication by a positive number keeps the order.
LEMMA TimesMonotone ==
    ASSUME NEW a \in Nat, NEW b \in Nat, NEW d \in Nat \ {0}
    PROVE  /\ a * d \in Nat
           /\ a <= b => a * d <= b * d
           /\ a < b => a * d + d <= b * d
           /\ a * d < b * d => a < b
  BY SMT

\* A day has at least one tick.
LEMMA DayLength == TicksPerDay \in Nat \ {0}
  BY CalendarAssumption, SMT DEF TicksPerDay

\* The day of an instant is the one it lies in.
LEMMA DayBounds ==
    ASSUME NEW t \in Nat
    PROVE  /\ DayOf(t) \in Nat
           /\ DayOf(t) * TicksPerDay \in Nat
           /\ DayOf(t) * TicksPerDay <= t
           /\ t < DayOf(t) * TicksPerDay + TicksPerDay
<1>1. TicksPerDay \in Nat \ {0}
  BY DayLength
<1> DEFINE d == TicksPerDay
<1> HIDE DEF d
<1>2. /\ t \div d \in Nat /\ t % d \in 0..(d - 1) /\ t = (t \div d) * d + (t % d)
  BY <1>1, DivMod DEF d
<1>3. (t \div d) * d \in Nat
  BY <1>1, <1>2, TimesMonotone DEF d
<1> QED
  BY <1>1, <1>2, <1>3, SMT DEF DayOf, d

\* A minute of a day starts at or after the start of the day.
LEMMA StartBounds ==
    ASSUME NEW day \in Nat, NEW minute \in 0..(MinutesPerDay - 1)
    PROVE  /\ StartOf(day, minute) \in Nat
           /\ day * TicksPerDay <= StartOf(day, minute)
<1>1. day * TicksPerDay \in Nat
  BY DayLength, TimesMonotone
<1>2. minute * TicksPerMinute \in Nat
  BY CalendarAssumption, TimesMonotone
<1> DEFINE a == day * TicksPerDay
           b == minute * TicksPerMinute
<1> HIDE DEF a, b
<1>3. a \in Nat /\ b \in Nat => a + b \in Nat /\ a <= a + b
  BY SMT
<1> QED
  BY <1>1, <1>2, <1>3 DEF StartOf, a, b

\* The next daily firing is a later one.
LEMMA DailyLater ==
    ASSUME NEW tm \in Timing, NEW t \in Nat
    PROVE  DailyCandidate(tm, t) \in Nat /\ t < DailyCandidate(tm, t)
<1> DEFINE today == StartOf(DayOf(t), tm.minute)
<1>1. tm.minute \in 0..(MinutesPerDay - 1)
  BY DEF Timing
<1>2. today \in Nat /\ DayOf(t) * TicksPerDay <= today
  BY <1>1, DayBounds, StartBounds
<1>3. /\ DayOf(t) * TicksPerDay \in Nat
      /\ t < DayOf(t) * TicksPerDay + TicksPerDay
      /\ TicksPerDay \in Nat
  BY DayBounds, DayLength
<1> DEFINE a == DayOf(t) * TicksPerDay
<1> HIDE DEF today, a
<1>4. today \in Nat /\ a \in Nat /\ TicksPerDay \in Nat /\ a <= today /\ t < a + TicksPerDay
  BY <1>2, <1>3 DEF a
<1>5. LET c == IF today <= t THEN today + TicksPerDay ELSE today IN c \in Nat /\ t < c
  BY <1>4, SMT
<1> QED
  BY <1>5 DEF DailyCandidate, today

\* The next weekly firing is a later one.
LEMMA WeeklyLater ==
    ASSUME NEW tm \in Timing, NEW t \in Nat
    PROVE  WeeklyCandidate(tm, t) \in Nat /\ t < WeeklyCandidate(tm, t)
<1> DEFINE ahead == (TargetDow(tm) - WeekdayOf(DayOf(t))) % DaysPerWeek
           first == StartOf(DayOf(t) + ahead, tm.minute)
<1>1. tm.minute \in 0..(MinutesPerDay - 1) /\ TargetDow(tm) \in Int
  BY CalendarAssumption, SMT DEF Timing, TargetDow, Null
<1>2. /\ DayOf(t) \in Nat
      /\ DayOf(t) * TicksPerDay \in Nat
      /\ t < DayOf(t) * TicksPerDay + TicksPerDay
      /\ TicksPerDay \in Nat \ {0}
  BY DayBounds, DayLength
<1>3. ahead \in Nat
  BY <1>1, <1>2, CalendarAssumption, SMT DEF WeekdayOf
<1>4. DayOf(t) + ahead \in Nat /\ DayOf(t) <= DayOf(t) + ahead
  BY <1>2, <1>3
<1>5. DayOf(t) * TicksPerDay <= (DayOf(t) + ahead) * TicksPerDay
  BY <1>2, <1>4, TimesMonotone
<1>6. first \in Nat /\ (DayOf(t) + ahead) * TicksPerDay <= first
  BY <1>1, <1>4, StartBounds
<1>7. DaysPerWeek * TicksPerDay \in Nat /\ TicksPerDay <= DaysPerWeek * TicksPerDay
  <2>1. DaysPerWeek \in Nat /\ 1 <= DaysPerWeek /\ 1 \in Nat
    BY CalendarAssumption
  <2>2. 1 * TicksPerDay = TicksPerDay
    BY <1>2, SMT
  <2> QED
    BY <2>1, <2>2, <1>2, TimesMonotone
<1>8. (DayOf(t) + ahead) * TicksPerDay \in Nat
  BY <1>2, <1>4, TimesMonotone
<1> DEFINE a == DayOf(t) * TicksPerDay
           b == (DayOf(t) + ahead) * TicksPerDay
           w == DaysPerWeek * TicksPerDay
<1> HIDE DEF ahead, first, a, b, w
<1>9. /\ a \in Nat /\ b \in Nat /\ w \in Nat /\ first \in Nat /\ TicksPerDay \in Nat
      /\ a <= b /\ b <= first /\ TicksPerDay <= w /\ t < a + TicksPerDay
  BY <1>2, <1>5, <1>6, <1>7, <1>8 DEF a, b, w
<1>10. LET c == IF first <= t THEN first + w ELSE first IN c \in Nat /\ t < c
  BY <1>9, SMT
<1> QED
  BY <1>10 DEF WeeklyCandidate, first, ahead, w

\* The month of a day inside the calendar.
LEMMA MonthBounds ==
    ASSUME NEW day \in Nat, day < MonthStart[MonthCount]
    PROVE  /\ MonthOf(day) \in 0..(MonthCount - 1)
           /\ MonthStart[MonthOf(day)] <= day
           /\ day < MonthStart[MonthOf(day) + 1]
<1>1. MonthStart[MonthCount] \in Nat
  BY CalendarAssumption
<1>2. day \in 0..(MonthStart[MonthCount] - 1)
  BY <1>1
<1>3. \E m \in 0..(MonthCount - 1) : MonthStart[m] <= day /\ day < MonthStart[m + 1]
  BY <1>2, CalendarAssumption
<1> QED
  BY <1>3 DEF MonthOf

\* The firing in a month lies on a day of that month.
LEMMA MonthlyFiringBounds ==
    ASSUME NEW tm \in Timing, NEW m \in 0..(MonthCount - 1)
    PROVE  /\ MonthlyFiring(tm, m) \in Nat
           /\ MonthStart[m] * TicksPerDay <= MonthlyFiring(tm, m)
<1> DEFINE dom == IF TargetDom(tm) <= LastDay(m) THEN TargetDom(tm) ELSE LastDay(m)
           day == MonthStart[m] + dom - 1
<1>1. /\ m + 1 \in 0..MonthCount /\ m \in 0..MonthCount
      /\ MonthStart[m] \in Nat /\ MonthStart[m + 1] \in Nat
      /\ MonthStart[m] < MonthStart[m + 1]
  BY CalendarAssumption
<1>2. TargetDom(tm) \in Nat \ {0} /\ LastDay(m) \in Nat \ {0}
  BY <1>1, SMT DEF TargetDom, LastDay, Timing, Null
<1>3. day \in Nat /\ MonthStart[m] <= day
  BY <1>1, <1>2
<1>4. tm.minute \in 0..(MinutesPerDay - 1)
  BY DEF Timing
<1>5. StartOf(day, tm.minute) \in Nat /\ day * TicksPerDay <= StartOf(day, tm.minute)
  BY <1>3, <1>4, StartBounds
<1>6. /\ MonthStart[m] * TicksPerDay \in Nat /\ day * TicksPerDay \in Nat
      /\ MonthStart[m] * TicksPerDay <= day * TicksPerDay
  BY <1>1, <1>3, DayLength, TimesMonotone
<1>7. MonthlyFiring(tm, m) = StartOf(day, tm.minute)
  BY DEF MonthlyFiring
<1> HIDE DEF day
<1> QED
  BY <1>5, <1>6, <1>7

\* The next monthly firing is a later one, if the calendar has a next month.
LEMMA MonthlyLater ==
    ASSUME NEW tm \in Timing, NEW t \in Nat,
           MonthCount > 1, t < MonthStart[MonthCount - 1] * TicksPerDay
    PROVE  MonthlyCandidate(tm, t) \in Nat /\ t < MonthlyCandidate(tm, t)
<1> DEFINE day == DayOf(t)
           m == MonthOf(day)
           lastMonth == MonthCount - 1
<1>1. /\ day \in Nat /\ day * TicksPerDay \in Nat /\ day * TicksPerDay <= t
      /\ t < day * TicksPerDay + TicksPerDay /\ TicksPerDay \in Nat \ {0}
  BY DayBounds, DayLength
<1>2. /\ lastMonth \in 0..(MonthCount - 1) /\ lastMonth + 1 = MonthCount
      /\ MonthStart[lastMonth] \in Nat /\ MonthStart[MonthCount] \in Nat
      /\ MonthStart[lastMonth] < MonthStart[MonthCount]
  <2>1. lastMonth \in 0..(MonthCount - 1) /\ lastMonth + 1 = MonthCount
    BY CalendarAssumption
  <2> QED
    BY <2>1, CalendarAssumption
<1>3. day < MonthStart[lastMonth]
  <2>1. MonthStart[lastMonth] * TicksPerDay \in Nat
    BY <1>1, <1>2, TimesMonotone
  <2>2. day * TicksPerDay < MonthStart[lastMonth] * TicksPerDay
    BY <1>1, <2>1
  <2> QED
    BY <1>1, <1>2, <2>2, TimesMonotone
<1>4. m \in 0..(MonthCount - 1) /\ MonthStart[m] <= day /\ day < MonthStart[m + 1]
  BY <1>1, <1>2, <1>3, MonthBounds
<1>5. m # lastMonth
  BY <1>1, <1>2, <1>3, <1>4
<1>6. m + 1 \in 0..(MonthCount - 1) /\ MonthStart[m + 1] \in Nat
  BY <1>4, <1>5, CalendarAssumption
<1>7. /\ MonthlyFiring(tm, m) \in Nat
      /\ MonthlyFiring(tm, m + 1) \in Nat
      /\ MonthStart[m + 1] * TicksPerDay <= MonthlyFiring(tm, m + 1)
  BY <1>4, <1>6, MonthlyFiringBounds
<1>8. day * TicksPerDay + TicksPerDay <= MonthStart[m + 1] * TicksPerDay
      /\ MonthStart[m + 1] * TicksPerDay \in Nat
  BY <1>1, <1>4, <1>6, TimesMonotone
<1>9. MonthlyCandidate(tm, t) = IF MonthlyFiring(tm, m) <= t
                                THEN MonthlyFiring(tm, m + 1) ELSE MonthlyFiring(tm, m)
  BY DEF MonthlyCandidate
<1>10. t < MonthlyFiring(tm, m + 1)
  BY <1>1, <1>7, <1>8
<1> QED
  BY <1>7, <1>9, <1>10

(***************************************************************************)
(* What _compute_next_run announces at instant t is nothing, or an instant *)
(* later than t: for every calendar, timing and instant of the calendar.   *)
(***************************************************************************)
THEOREM NextRunLater ==
    ASSUME NEW tm \in Timing, NEW t \in Nat,
           MonthCount > 1, t < MonthStart[MonthCount - 1] * TicksPerDay
    PROVE  NextRun(tm, t) = Null \/ (NextRun(tm, t) \in Nat /\ t < NextRun(tm, t))
<1>1. Candidate(tm, t) = Null \/ (Candidate(tm, t) \in Nat /\ t < Candidate(tm, t))
  <2>1. CASE tm.frequency = "daily"
    BY <2>1, DailyLater DEF Candidate
  <2>2. CASE tm.frequency = "weekly"
    BY <2>2, WeeklyLater DEF Candidate
  <2>3. CASE tm.frequency = "monthly"
    BY <2>3, MonthlyLater DEF Candidate
  <2>4. CASE tm.frequency = "other"
    BY <2>4 DEF Candidate
  <2> QED
    BY <2>1, <2>2, <2>3, <2>4 DEF Timing
<1> QED
  BY <1>1 DEF NextRun

(***************************************************************************)
(* The scheduler.                                                          *)
(***************************************************************************)

\* Every projection the worker computes is a value of the column.
LEMMA ProjectionTyped ==
    ASSUME NEW tm \in Timings, NEW t \in 0..Horizon
    PROVE  /\ NextRun(tm, t) \in {Null} \cup Nat
           /\ NextRun(tm, t) # Null => t < NextRun(tm, t)
<1>1. tm \in Timing /\ t \in Nat
  BY SchedulerAssumption
<1>2. MonthStart[MonthCount - 1] * TicksPerDay \in Nat
  <2>1. MonthCount - 1 \in 0..MonthCount
    BY CalendarAssumption
  <2> QED
    BY <2>1, CalendarAssumption, DayLength, TimesMonotone
<1>3. MonthCount > 1 /\ t < MonthStart[MonthCount - 1] * TicksPerDay
  BY <1>2, HorizonAssumption, SchedulerAssumption
<1> QED
  BY <1>1, <1>3, NextRunLater

\* There is a default row.
LEMMA DefaultRow == Row0 \in Row
<1>1. (CHOOSE tm \in Timings : TRUE) \in Timings
  BY SchedulerAssumption
<1> QED
  BY <1>1 DEF Row0, Row

LEMMA DefaultSnapshot == NoSnapshot \in [Schedules -> Row]
  BY DefaultRow DEF NoSnapshot

(***************************************************************************)
(* Every variable keeps its type; in particular last_status never holds    *)
(* anything but "success".                                                 *)
(***************************************************************************)
LEMMA TypeInit == Init => TypeOK
<1> SUFFICES ASSUME Init PROVE TypeOK
  OBVIOUS
<1>1. (CHOOSE s \in Schedules : TRUE) \in Schedules
  BY SchedulerAssumption
<1>2. Row0.timing \in Timings
  BY DefaultRow DEF Row
<1>3. Horizon \in Nat /\ MaxEdits \in Nat
  BY SchedulerAssumption
<1>4. timing \in [Schedules -> Timings] /\ snap \in [Schedules -> Row]
  BY <1>2, DefaultSnapshot DEF Init
<1>5. cur \in Schedules
  BY <1>1 DEF Init
<1>6. clock \in 0..Horizon /\ edits \in 0..MaxEdits /\ now \in 0..Horizon /\ wake \in Nat
  BY <1>3 DEF Init
<1>7. active \in [Schedules -> BOOLEAN] /\ calm \in BOOLEAN
  BY DEF Init
<1>8. /\ phase \in [Schedules -> {"new", "live", "deleted"}]
      /\ lastRun \in [Schedules -> {Null} \cup 0..Horizon]
      /\ lastStatus \in [Schedules -> {"none", "success"}]
      /\ nextRun \in [Schedules -> {Null} \cup Nat]
      /\ fired \in [Schedules -> {Null} \cup 0..Horizon]
  BY DEF Init
<1> QED
  BY <1>4, <1>5, <1>6, <1>7, <1>8 DEF Init, TypeOK

LEMMA TypeStep == TypeOK /\ [Next]_vars => TypeOK'
<1> SUFFICES ASSUME TypeOK, [Next]_vars PROVE TypeOK'
  OBVIOUS
<1>0. Horizon \in Nat /\ MaxEdits \in Nat /\ TicksPerMinute \in Nat
  BY SchedulerAssumption, CalendarAssumption
<1>1. CASE Tick
  BY <1>0, <1>1 DEF Tick, TypeOK, tableVars, workerVars, historyVars
<1>2. ASSUME NEW s \in Schedules, CreateSchedule(s) PROVE TypeOK'
  <2>1. timing' \in [Schedules -> Timings]
    BY <1>2 DEF CreateSchedule, TypeOK
  <2> QED
    BY <1>2, <2>1 DEF CreateSchedule, TypeOK, workerVars
<1>3. ASSUME NEW s \in Schedules, UpdateSchedule(s) PROVE TypeOK'
  <2>1. PICK tm \in Timings, on \in BOOLEAN :
           /\ timing' = [timing EXCEPT ![s] = tm]
           /\ active' = [active EXCEPT ![s] = on]
           /\ offSince' = IF on THEN offSince \ {s} ELSE offSince
    BY <1>3 DEF UpdateSchedule
  <2>2. timing' \in [Schedules -> Timings] /\ offSince' \subseteq Schedules
    BY <2>1 DEF TypeOK
  <2>3. active' \in [Schedules -> BOOLEAN]
    BY <2>1 DEF TypeOK
  <2>4. edits' \in 0..MaxEdits
    <3>1. edits < MaxEdits /\ edits' = edits + 1 /\ edits \in 0..MaxEdits
      BY <1>3 DEF UpdateSchedule, TypeOK
    <3> QED
      BY <1>0, <3>1
  <2>5. calm' \in BOOLEAN
    BY <1>3 DEF UpdateSchedule, TypeOK
  <2> QED
    BY <1>3, <2>2, <2>3, <2>4, <2>5 DEF UpdateSchedule, TypeOK, workerVars
<1>4. ASSUME NEW s \in Schedules, DeleteSchedule(s) PROVE TypeOK'
  <2>1. edits' \in 0..MaxEdits
    <3>1. edits < MaxEdits /\ edits' = edits + 1 /\ edits \in 0..MaxEdits
      BY <1>4 DEF DeleteSchedule, TypeOK
    <3> QED
      BY <1>0, <3>1
  <2>2. phase' \in [Schedules -> {"new", "live", "deleted"}]
    BY <1>4 DEF DeleteSchedule, TypeOK
  <2>3. calm' \in BOOLEAN
    BY <1>4 DEF DeleteSchedule, TypeOK
  <2> QED
    BY <1>4, <2>1, <2>2, <2>3 DEF DeleteSchedule, TypeOK, workerVars
<1>5. CASE StartScheduler
  BY <1>0, <1>5 DEF StartScheduler, TypeOK, tableVars, historyVars
<1>6. CASE Crash
  BY <1>0, <1>6, DefaultSnapshot DEF Crash, TypeOK, tableVars
<1>7. CASE BeginCycle
  BY <1>0, <1>7 DEF BeginCycle, TypeOK, tableVars
<1>8. CASE FetchActiveSchedules
  <2>1. \A s \in Schedules : [timing |-> timing[s], lastRun |-> lastRun[s]] \in Row
    BY <1>0 DEF TypeOK, Row
  <2>2. snap' \in [Schedules -> Row]
    BY <1>8, <2>1, DefaultRow DEF FetchActiveSchedules
  <2> QED
    BY <1>0, <1>8, <2>2 DEF FetchActiveSchedules, TypeOK, tableVars, historyVars
<1>9. CASE FetchFails
  BY <1>0, <1>9 DEF FetchFails, TypeOK, tableVars
<1>10. ASSUME NEW s \in Schedules, SkipSchedule(s) PROVE TypeOK'
  BY <1>0, <1>10 DEF SkipSchedule, TypeOK, tableVars, historyVars
<1>11. ASSUME NEW s \in Schedules PROVE NextRun(snap[s].timing, now) \in {Null} \cup Nat
  BY ProjectionTyped DEF TypeOK, Row
<1>12. ASSUME NEW s \in Schedules, RefreshSchedule(s) PROVE TypeOK'
  <2>1. nextRun' \in [Schedules -> {Null} \cup Nat]
    BY <1>11, <1>12 DEF RefreshSchedule, TypeOK
  <2>2. calm' \in BOOLEAN
    BY <1>12 DEF RefreshSchedule, TypeOK
  <2> QED
    BY <1>12, <2>1, <2>2 DEF RefreshSchedule, TypeOK
<1>13. ASSUME NEW s \in Schedules, TriggerSchedule(s) PROVE TypeOK'
  <2>1. jobs' \subseteq Businesses
    BY <1>13, SchedulerAssumption DEF TriggerSchedule
  <2> QED
    BY <1>0, <1>13, <2>1 DEF TriggerSchedule, TypeOK, tableVars
<1>14. ASSUME NEW b \in Businesses, RunJob(b) PROVE TypeOK'
  BY <1>14 DEF RunJob, TypeOK, tableVars
<1>15. CASE RecordRun
  <2>1. NextRun(snap[cur].timing, now) \in {Null} \cup Nat
    BY <1>11 DEF TypeOK
  <2>2. /\ nextRun' \in [Schedules -> {Null} \cup Nat]
        /\ lastRun' \in [Schedules -> {Null} \cup 0..Horizon]
        /\ lastStatus' \in [Schedules -> {"none", "success"}]
    BY <1>15, <2>1 DEF RecordRun, TypeOK
  <2>3. calm' \in BOOLEAN /\ unrecorded' \subseteq Schedules
    BY <1>15 DEF RecordRun, TypeOK
  <2> QED
    BY <1>15, <2>2, <2>3 DEF RecordRun, TypeOK
<1>16. CASE EndCycle
  BY <1>0, <1>16, DefaultSnapshot DEF EndCycle, TypeOK, tableVars, historyVars
<1>17. CASE UNCHANGED vars
  BY <1>17 DEF TypeOK, vars, tableVars, workerVars, historyVars
<1> QED
  BY <1>1, <1>2, <1>3, <1>4, <1>5, <1>6, <1>7, <1>8, <1>9, <1>10, <1>12, <1>13, <1>14,
     <1>15, <1>16, <1>17 DEF Next, Handlers, Cycle

THEOREM TypeCorrect == Spec => []TypeOK
  BY TypeInit, TypeStep, PTL DEF Spec

-----------------------------------------------------------------------------
(***************************************************************************)
(* The dedupe check works: FiringInv is inductive relative to the types.   *)
(***************************************************************************)
LEMMA FiringInit == Init => FiringInv
  BY DEF Init, FiringInv, RecordMatches, SnapshotMatches, ListedExist, TimesInOrder,
         PauseKept, Null

LEMMA FiringStep == TypeOK /\ FiringInv /\ [Next]_vars => FiringInv'
<1> SUFFICES ASSUME TypeOK, FiringInv, [Next]_vars PROVE FiringInv'
  OBVIOUS
<1> USE DEF FiringInv, RecordMatches, SnapshotMatches, ListedExist, TimesInOrder,
            PauseKept, tableVars, workerVars, historyVars
<1>0. /\ TicksPerMinute \in Nat /\ clock \in Int /\ now \in Int /\ wake \in Int
      /\ \A s \in Schedules : lastRun[s] \in Int /\ fired[s] \in Int
      /\ cur \in Schedules /\ todo \subseteq Schedules /\ firedHere \subseteq Schedules
  BY CalendarAssumption, SchedulerAssumption DEF TypeOK, Null
<1>1. CASE Tick
  BY <1>0, <1>1 DEF Tick
<1>2. ASSUME NEW s \in Schedules, CreateSchedule(s) PROVE FiringInv'
  BY <1>0, <1>2 DEF CreateSchedule, TypeOK
<1>3. ASSUME NEW s \in Schedules, UpdateSchedule(s) PROVE FiringInv'
  BY <1>0, <1>3 DEF UpdateSchedule
<1>4. ASSUME NEW s \in Schedules, DeleteSchedule(s) PROVE FiringInv'
  BY <1>0, <1>4 DEF DeleteSchedule, TypeOK
<1>5. CASE StartScheduler
  BY <1>0, <1>5 DEF StartScheduler
<1>6. CASE Crash
  BY <1>0, <1>6 DEF Crash
<1>7. CASE BeginCycle
  BY <1>0, <1>7 DEF BeginCycle
<1>8. CASE FetchActiveSchedules
  BY <1>0, <1>8 DEF FetchActiveSchedules, On
<1>9. CASE FetchFails
  BY <1>0, <1>9 DEF FetchFails
<1>10. ASSUME NEW s \in Schedules, SkipSchedule(s) PROVE FiringInv'
  BY <1>0, <1>10 DEF SkipSchedule
<1>11. ASSUME NEW s \in Schedules, RefreshSchedule(s) PROVE FiringInv'
  BY <1>0, <1>11 DEF RefreshSchedule
<1>12. ASSUME NEW s \in Schedules, TriggerSchedule(s) PROVE FiringInv'
  <2>1. /\ pc = "cycle" /\ pc' = "run" /\ s \in todo
        /\ cur' = s /\ todo' = todo \ {s}
        /\ fired' = [fired EXCEPT ![s] = now]
        /\ unrecorded' = unrecorded \cup {s} /\ firedHere' = firedHere \cup {s}
        /\ UNCHANGED <<clock, phase, lastRun, now, wake, snap>>
    BY <1>12 DEF TriggerSchedule
  <2>2. fired'[s] = now /\ \A r \in Schedules \ {s} : fired'[r] = fired[r]
    BY <2>1 DEF TypeOK
  <2>3. now # Null
    BY DEF TypeOK, Null
  <2>4. RecordMatches'
    BY <1>0, <2>1, <2>2
  <2>5. SnapshotMatches'
    BY <1>0, <2>1, <2>2
  <2>6. ListedExist'
    BY <1>0, <2>1
  <2>7. TimesInOrder'
    BY <1>0, <2>1, <2>2
  <2>8. PauseKept'
    BY <1>0, <2>1, <2>2, <2>3
  <2> QED
    BY <2>4, <2>5, <2>6, <2>7, <2>8
<1>13. ASSUME NEW b \in Businesses, RunJob(b) PROVE FiringInv'
  BY <1>0, <1>13 DEF RunJob
<1>14. CASE RecordRun
  BY <1>0, <1>14 DEF RecordRun, TypeOK
<1>15. CASE EndCycle
  BY <1>0, <1>15 DEF EndCycle
<1>16. CASE UNCHANGED vars
  BY <1>0, <1>16 DEF vars
<1> QED
  BY <1>1, <1>2, <1>3, <1>4, <1>5, <1>6, <1>7, <1>8, <1>9, <1>10, <1>11, <1>12, <1>13,
     <1>14, <1>15, <1>16 DEF Next, Handlers, Cycle

THEOREM FiringInvariant == Spec => []FiringInv
  BY TypeInit, TypeStep, FiringInit, FiringStep, PTL DEF Spec

-----------------------------------------------------------------------------
(***************************************************************************)
(* The worker implements WindowedFiring: a trigger is a Fire, the stored   *)
(* record a Recorded, a crash a Restart, and nothing else shows.           *)
(***************************************************************************)
LEMMA PromiseInit == Init => Promise!Init
  BY DEF Init, Promise!Init, Promise!None, Null

LEMMA PromiseStep ==
    TypeOK /\ FiringInv /\ [Next]_vars
        => [Promise!Next]_<<fired, unrecorded, firedHere>>
<1> SUFFICES ASSUME TypeOK, FiringInv, [Next]_vars
             PROVE  \/ Promise!Next
                    \/ UNCHANGED <<fired, unrecorded, firedHere>>
  BY Zenon
<1> USE DEF tableVars, workerVars, historyVars
<1>1. CASE Tick
  BY <1>1 DEF Tick
<1>2. CASE Handlers
  BY <1>2 DEF Handlers, CreateSchedule, UpdateSchedule, DeleteSchedule
<1>3. CASE StartScheduler
  BY <1>3 DEF StartScheduler
<1>4. CASE Crash
  BY <1>4 DEF Crash, Promise!Next, Promise!Restart
<1>5. CASE BeginCycle \/ FetchActiveSchedules \/ FetchFails \/ EndCycle
  BY <1>5 DEF BeginCycle, FetchActiveSchedules, FetchFails, EndCycle
<1>6. ASSUME NEW s \in Schedules, SkipSchedule(s) \/ RefreshSchedule(s)
      PROVE  UNCHANGED <<fired, unrecorded, firedHere>>
  BY <1>6 DEF SkipSchedule, RefreshSchedule
<1>7. ASSUME NEW s \in Schedules, TriggerSchedule(s) PROVE Promise!Next
  <2>1. /\ fired' = [fired EXCEPT ![s] = now]
        /\ unrecorded' = unrecorded \cup {s}
        /\ firedHere' = firedHere \cup {s}
        /\ pc = "cycle" /\ s \in todo /\ ~AlreadyRanInWindow(s)
    BY <1>7 DEF TriggerSchedule
  <2>2. /\ now \in 0..Horizon /\ now \in Int /\ fired[s] \in Int
        /\ TicksPerMinute \in Nat /\ DedupeWindow \in Nat
    BY SchedulerAssumption, CalendarAssumption DEF TypeOK, Null
  <2>3. fired[s] <= now
    BY DEF FiringInv, TimesInOrder
  <2>4. fired[s] = Null \/ s \in unrecorded \/ now - fired[s] >= DedupeWindow
    <3>1. s \notin unrecorded => snap[s].lastRun = fired[s]
      BY <2>1 DEF FiringInv, SnapshotMatches
    <3> QED
      BY <2>1, <2>2, <3>1 DEF AlreadyRanInWindow
  <2>5. s \in firedHere => now - fired[s] >= TicksPerMinute
    BY <2>1, <2>2 DEF FiringInv, PauseKept
  <2>6. Promise!Fire(s, now)
    BY <2>1, <2>3, <2>4, <2>5 DEF Promise!Fire, Promise!None, Null
  <2> QED
    BY <2>2, <2>6 DEF Promise!Next
<1>8. ASSUME NEW b \in Businesses, RunJob(b)
      PROVE  UNCHANGED <<fired, unrecorded, firedHere>>
  BY <1>8 DEF RunJob
<1>9. CASE RecordRun
  <2>1. \/ unrecorded' = unrecorded \ {cur} /\ UNCHANGED <<fired, firedHere>>
        \/ UNCHANGED <<fired, unrecorded, firedHere>>
    BY <1>9 DEF RecordRun
  <2>2. cur \in Schedules
    BY DEF TypeOK
  <2> QED
    BY <2>1, <2>2 DEF Promise!Next, Promise!Recorded
<1>10. CASE UNCHANGED vars
  BY <1>10 DEF vars
<1> QED
  BY <1>1, <1>2, <1>3, <1>4, <1>5, <1>6, <1>7, <1>8, <1>9, <1>10 DEF Next, Cycle

THEOREM ImplementsPromise == Spec => FiringPromise
<1>1. TypeOK /\ FiringInv /\ [Next]_vars
        => [Promise!Next]_<<fired, unrecorded, firedHere>>
  BY PromiseStep
<1> QED
  BY <1>1, PromiseInit, TypeCorrect, FiringInvariant, PTL
     DEF Spec, FiringPromise, Promise!Spec

-----------------------------------------------------------------------------
(***************************************************************************)
(* A schedule stopped before a cycle began is not triggered in it: only    *)
(* schedules that were on at some time since are in the cycle's snapshot.  *)
(***************************************************************************)
SnapshotOn ==
    /\ pc = "fetch" => \A s \in Schedules : On(s) => s \notin offSince
    /\ todo \cap offSince = {}
    /\ pc \notin {"cycle", "run"} => todo = {}

LEMMA SnapshotOnStep == SnapshotOn /\ [Next]_vars => SnapshotOn'
<1> SUFFICES ASSUME SnapshotOn, [Next]_vars PROVE SnapshotOn'
  OBVIOUS
<1> USE DEF SnapshotOn, On, tableVars, workerVars, historyVars
<1>1. CASE Tick \/ StartScheduler \/ Crash \/ BeginCycle
  BY <1>1 DEF Tick, StartScheduler, Crash, BeginCycle
<1>2. ASSUME NEW s \in Schedules, CreateSchedule(s) PROVE SnapshotOn'
  BY <1>2 DEF CreateSchedule
<1>3. ASSUME NEW s \in Schedules, UpdateSchedule(s) PROVE SnapshotOn'
  BY <1>3 DEF UpdateSchedule
<1>4. ASSUME NEW s \in Schedules, DeleteSchedule(s) PROVE SnapshotOn'
  BY <1>4 DEF DeleteSchedule
<1>5. CASE FetchActiveSchedules \/ FetchFails \/ RecordRun \/ EndCycle
  BY <1>5 DEF FetchActiveSchedules, FetchFails, RecordRun, EndCycle
<1>6. ASSUME NEW s \in Schedules,
             SkipSchedule(s) \/ RefreshSchedule(s) \/ TriggerSchedule(s)
      PROVE  SnapshotOn'
  BY <1>6 DEF SkipSchedule, RefreshSchedule, TriggerSchedule
<1>7. ASSUME NEW b \in Businesses, RunJob(b) PROVE SnapshotOn'
  BY <1>7 DEF RunJob
<1>8. CASE UNCHANGED vars
  BY <1>8 DEF vars
<1> QED
  BY <1>1, <1>2, <1>3, <1>4, <1>5, <1>6, <1>7, <1>8 DEF Next, Handlers, Cycle

THEOREM StoppedSchedules == Spec => StoppedNeverFires
<1>1. Init => SnapshotOn
  BY DEF Init, SnapshotOn
<1>2. SnapshotOn /\ [Next]_vars
        => [\A s \in Schedules : Fires(s) => s \notin offSince]_vars
  <2> SUFFICES ASSUME SnapshotOn, [Next]_vars, NEW s \in Schedules, Fires(s)
               PROVE  s \notin offSince
    OBVIOUS
  <2>1. CASE \E r \in Schedules : TriggerSchedule(r)
    BY <2>1 DEF TriggerSchedule, Fires, SnapshotOn
  <2>2. CASE ~\E r \in Schedules : TriggerSchedule(r)
    BY <2>2 DEF Fires, Next, Handlers, Cycle, Tick, CreateSchedule, UpdateSchedule,
       DeleteSchedule, StartScheduler, Crash, BeginCycle, FetchActiveSchedules,
       FetchFails, SkipSchedule, RefreshSchedule, RunJob, RecordRun, EndCycle, vars,
       tableVars, workerVars, historyVars
  <2> QED
    BY <2>1, <2>2
<1> QED
  BY <1>1, <1>2, SnapshotOnStep, PTL DEF Spec, StoppedNeverFires

-----------------------------------------------------------------------------
(***************************************************************************)
(* The projection stored beside a last run is later than that run.         *)
(***************************************************************************)
LEMMA ProjectionStep ==
    TypeOK /\ FiringInv /\ ProjectionAfterLastRun /\ [Next]_vars => ProjectionAfterLastRun'
<1> SUFFICES ASSUME TypeOK, FiringInv, ProjectionAfterLastRun, [Next]_vars
             PROVE  ProjectionAfterLastRun'
  OBVIOUS
<1> USE DEF tableVars
<1>1. ASSUME NEW s \in Schedules
      PROVE  /\ NextRun(snap[s].timing, now) \in {Null} \cup Nat
             /\ NextRun(snap[s].timing, now) # Null => now < NextRun(snap[s].timing, now)
  BY ProjectionTyped DEF TypeOK, Row
<1>2. \A s \in Schedules : lastRun[s] <= now
  <2>1. \A s \in Schedules : lastRun[s] <= fired[s] /\ fired[s] <= now
    BY DEF FiringInv, RecordMatches, TimesInOrder
  <2>2. now \in Int /\ \A s \in Schedules : lastRun[s] \in Int /\ fired[s] \in Int
    BY SchedulerAssumption DEF TypeOK, Null
  <2> QED
    BY <2>1, <2>2
<1>3. ASSUME NEW s \in Schedules, RefreshSchedule(s) PROVE ProjectionAfterLastRun'
  <2>1. lastRun' = lastRun
    BY <1>3 DEF RefreshSchedule
  <2>2. nextRun' = nextRun \/ nextRun' = [nextRun EXCEPT ![s] = NextRun(snap[s].timing, now)]
    BY <1>3 DEF RefreshSchedule
  <2>3. /\ now \in Int /\ nextRun \in [Schedules -> {Null} \cup Nat]
        /\ \A r \in Schedules : lastRun[r] \in Int
    BY SchedulerAssumption DEF TypeOK, Null
  <2> QED
    BY <1>1, <1>2, <2>1, <2>2, <2>3 DEF ProjectionAfterLastRun
<1>4. CASE RecordRun
  <2>1. \/ UNCHANGED <<lastRun, nextRun>>
        \/ /\ lastRun' = [lastRun EXCEPT ![cur] = now]
           /\ nextRun' = [nextRun EXCEPT ![cur] = NextRun(snap[cur].timing, now)]
    BY <1>4 DEF RecordRun
  <2>2. cur \in Schedules /\ lastRun \in [Schedules -> {Null} \cup 0..Horizon]
        /\ nextRun \in [Schedules -> {Null} \cup Nat]
    BY DEF TypeOK
  <2> QED
    BY <1>1, <2>1, <2>2 DEF ProjectionAfterLastRun
<1>5. CASE UNCHANGED <<lastRun, nextRun>>
  BY <1>5 DEF ProjectionAfterLastRun
<1>6. ASSUME Next, ~RecordRun, \A s \in Schedules : ~RefreshSchedule(s)
      PROVE  UNCHANGED <<lastRun, nextRun>>
  BY <1>6 DEF Next, Handlers, Cycle, Tick, CreateSchedule, UpdateSchedule,
     DeleteSchedule, StartScheduler, Crash, BeginCycle, FetchActiveSchedules,
     FetchFails, SkipSchedule, TriggerSchedule, RunJob, EndCycle
<1> QED
  BY <1>3, <1>4, <1>5, <1>6 DEF vars

THEOREM ProjectionTheorem == Spec => []ProjectionAfterLastRun
<1>1. Init => ProjectionAfterLastRun
  BY DEF Init, ProjectionAfterLastRun
<1> QED
  BY <1>1, ProjectionStep, TypeCorrect, FiringInvariant, PTL DEF Spec
-----------------------------------------------------------------------------
(***************************************************************************)
(* A cycle that nothing disturbed leaves every projection as it should be. *)
(***************************************************************************)

\* The row of s is treated: nothing is owed to it in this cycle.
Refreshed(s) == On(s) /\ ~InWindow(s) => nextRun[s] = NextRun(timing[s], now)

\* While nothing disturbs a cycle its snapshot agrees with the table for all it
\* has yet to treat, and what is neither listed nor being run is refreshed.
CalmInv ==
    /\ pc = "down" => ~calm
    /\ pc = "idle" /\ calm => \A s \in Schedules : Refreshed(s)
    /\ pc \in {"cycle", "run"} /\ calm =>
           /\ \A s \in todo : snap[s].timing = timing[s] /\ snap[s].lastRun = lastRun[s]
           /\ pc = "run" => cur \notin todo /\ snap[cur].timing = timing[cur]
           /\ \A s \in Schedules :
                  s \notin todo /\ ~(pc = "run" /\ cur = s) => Refreshed(s)

LEMMA CalmStep == TypeOK /\ CalmInv /\ [Next]_vars => CalmInv'
<1> SUFFICES ASSUME TypeOK, CalmInv, [Next]_vars PROVE CalmInv'
  OBVIOUS
<1> USE DEF CalmInv, tableVars, workerVars, historyVars
<1>0. /\ calm \in BOOLEAN /\ cur \in Schedules /\ todo \subseteq Schedules
      /\ nextRun \in [Schedules -> {Null} \cup Nat]
      /\ lastRun \in [Schedules -> {Null} \cup 0..Horizon]
      /\ lastStatus \in [Schedules -> {"none", "success"}]
  BY DEF TypeOK
<1>1. CASE Tick \/ StartScheduler
  BY <1>1 DEF Tick, StartScheduler, Refreshed, On, InWindow
<1>2. CASE Handlers \/ Crash \/ FetchFails
  BY <1>2 DEF Handlers, CreateSchedule, UpdateSchedule, DeleteSchedule, Crash, FetchFails
<1>3. CASE BeginCycle
  BY <1>3 DEF BeginCycle
<1>4. CASE FetchActiveSchedules
  BY <1>4 DEF FetchActiveSchedules, Refreshed, On
<1>5. ASSUME NEW s \in Schedules, SkipSchedule(s) PROVE CalmInv'
  <2>1. calm => snap[s].lastRun = lastRun[s]
    BY <1>5 DEF SkipSchedule
  <2>2. calm => InWindow(s)
    BY <1>5, <2>1 DEF SkipSchedule, AlreadyRanInWindow, InWindow
  <2> QED
    BY <1>5, <2>2 DEF SkipSchedule, Refreshed, On, InWindow
<1>6. ASSUME NEW s \in Schedules, RefreshSchedule(s) PROVE CalmInv'
  <2>1. calm => snap[s].timing = timing[s]
    BY <1>6 DEF RefreshSchedule
  <2> QED
    BY <1>0, <1>6, <2>1 DEF RefreshSchedule, Refreshed, On, InWindow
<1>7. ASSUME NEW s \in Schedules, TriggerSchedule(s) PROVE CalmInv'
  <2>1. calm => snap[s].timing = timing[s]
    BY <1>7 DEF TriggerSchedule
  <2> QED
    BY <1>7, <2>1 DEF TriggerSchedule, Refreshed, On, InWindow
<1>8. ASSUME NEW b \in Businesses, RunJob(b) PROVE CalmInv'
  BY <1>8 DEF RunJob, Refreshed, On, InWindow
<1>9. CASE RecordRun
  BY <1>0, <1>9 DEF RecordRun, Refreshed, On, InWindow
<1>10. CASE EndCycle
  BY <1>10 DEF EndCycle, Refreshed, On, InWindow
<1>11. CASE UNCHANGED vars
  BY <1>11 DEF vars, Refreshed, On, InWindow
<1> QED
  BY <1>1, <1>2, <1>3, <1>4, <1>5, <1>6, <1>7, <1>8, <1>9, <1>10, <1>11 DEF Next, Cycle

\* When an undisturbed cycle ends, the page shows the projection of its own
\* timing for every active schedule outside its dedupe window.
THEOREM RefreshTheorem == Spec => []CalmCycleRefreshes
<1>1. Init => CalmInv
  BY DEF Init, CalmInv
<1>2. CalmInv => CalmCycleRefreshes
  BY DEF CalmInv, CalmCycleRefreshes, Refreshed
<1> QED
  BY <1>1, <1>2, CalmStep, TypeCorrect, PTL DEF Spec
-----------------------------------------------------------------------------
(***************************************************************************)
(* The announced next run is the first firing.                             *)
(***************************************************************************)

\* An instant that starts a minute of a day reads back as that day and minute.
LEMMA ReadBack ==
    ASSUME NEW day \in Nat, NEW minute \in 0..(MinutesPerDay - 1)
    PROVE  /\ DayOf(StartOf(day, minute)) = day
           /\ MinuteOf(StartOf(day, minute)) = minute
<1> DEFINE d == TicksPerDay
           p == TicksPerMinute
           b == minute * TicksPerMinute
           u == StartOf(day, minute)
<1>1. d \in Nat \ {0} /\ p \in Nat \ {0} /\ MinutesPerDay \in Nat \ {0} /\ b \in Nat
  BY DayLength, CalendarAssumption, TimesMonotone
<1>2. b + p <= d
  <2>1. minute + 1 \in Nat /\ minute + 1 <= MinutesPerDay
    BY <1>1
  <2>2. (minute + 1) * p <= MinutesPerDay * p
    BY <2>1, <1>1, TimesMonotone
  <2> QED
    BY <2>2, <1>1, SMT DEF TicksPerDay
<1>3. u = day * d + b /\ day * d \in Nat /\ u \in Nat
  BY <1>1, TimesMonotone DEF StartOf
<1> HIDE DEF d, u, b
<1>4. /\ u \div d \in Nat /\ u % d \in 0..(d - 1) /\ u = (u \div d) * d + (u % d)
  BY <1>1, <1>3, DivMod
<1>5. u \div d = day
  <2>1. CASE u \div d < day
    <3>1. (u \div d) * d + d <= day * d /\ (u \div d) * d \in Nat
      BY <1>1, <1>4, <2>1, TimesMonotone
    <3> QED
      BY <3>1, <1>1, <1>3, <1>4
  <2>2. CASE day < u \div d
    <3>1. day * d + d <= (u \div d) * d /\ (u \div d) * d \in Nat
      BY <1>1, <1>4, <2>2, TimesMonotone
    <3> QED
      BY <3>1, <1>1, <1>2, <1>3, <1>4
  <2> QED
    BY <2>1, <2>2, <1>4
<1>6. u % d = b
  BY <1>1, <1>3, <1>4, <1>5
<1>7. b \div p = minute
  BY <1>1, SMT DEF b, p
<1> QED
  BY <1>5, <1>6, <1>7 DEF DayOf, MinuteOf, d, u, p

\* The starts of one minute of the day are in the order of their days.
LEMMA StartOrder ==
    ASSUME NEW a \in Nat, NEW b \in Nat, NEW minute \in 0..(MinutesPerDay - 1)
    PROVE  a <= b <=> StartOf(a, minute) <= StartOf(b, minute)
<1>1. /\ a * TicksPerDay \in Nat /\ b * TicksPerDay \in Nat /\ TicksPerDay \in Nat \ {0}
      /\ minute * TicksPerMinute \in Nat
  BY DayLength, CalendarAssumption, TimesMonotone
<1>2. a <= b => a * TicksPerDay <= b * TicksPerDay
  BY <1>1, TimesMonotone
<1>3. b < a => b * TicksPerDay < a * TicksPerDay
  BY <1>1, TimesMonotone
<1> QED
  BY <1>1, <1>2, <1>3 DEF StartOf

\* A firing on a later day is still to come, one on an earlier day is not.
LEMMA LaterDay ==
    ASSUME NEW t \in Nat, NEW day \in Nat, NEW minute \in 0..(MinutesPerDay - 1)
    PROVE  /\ DayOf(t) < day => t < StartOf(day, minute)
           /\ t < StartOf(day, minute) => DayOf(t) <= day
<1>1. /\ DayOf(t) \in Nat /\ DayOf(t) * TicksPerDay \in Nat
      /\ DayOf(t) * TicksPerDay <= t /\ t < DayOf(t) * TicksPerDay + TicksPerDay
      /\ TicksPerDay \in Nat \ {0}
  BY DayBounds, DayLength
<1>2. StartOf(day, minute) \in Nat /\ day * TicksPerDay <= StartOf(day, minute)
  BY StartBounds
<1>3. ASSUME DayOf(t) < day PROVE t < StartOf(day, minute)
  <2>1. DayOf(t) * TicksPerDay + TicksPerDay <= day * TicksPerDay /\ day * TicksPerDay \in Nat
    BY <1>1, <1>3, TimesMonotone
  <2> QED
    BY <1>1, <1>2, <2>1
<1>4. ASSUME day < DayOf(t) PROVE StartOf(day, minute) <= t
  <2>1. StartOf(day, minute) <= StartOf(DayOf(t), minute)
    BY <1>1, <1>4, StartOrder
  <2>2. day + 1 \in Nat /\ day + 1 <= DayOf(t)
    BY <1>1, <1>4
  <2>3. StartOf(day, minute) < (day + 1) * TicksPerDay
    <3>1. DayOf(StartOf(day, minute)) = day
      BY ReadBack
    <3>2. StartOf(day, minute) < day * TicksPerDay + TicksPerDay /\ day * TicksPerDay \in Nat
      BY <3>1, <1>2, DayBounds
    <3> QED
      BY <3>2, <1>1, SMT
  <2>4. (day + 1) * TicksPerDay <= DayOf(t) * TicksPerDay /\ (day + 1) * TicksPerDay \in Nat
    BY <2>2, <1>1, TimesMonotone
  <2> QED
    BY <2>3, <2>4, <1>1, <1>2
<1> QED
  BY <1>1, <1>2, <1>3, <1>4

\* The days a schedule fires on, its dates apart, and the first of them with a
\* minute still to come.
DueDay(tm, day) ==
    \/ tm.frequency = "daily"
    \/ tm.frequency = "weekly" /\ WeekdayOf(day) = TargetDow(tm)
    \/ tm.frequency = "monthly" /\ DayOfMonth(day) = TargetDom(tm)

Days(t) == DayOf(t)..(MonthStart[MonthCount] - 1)

IsFirst(tm, t, day) ==
    /\ day \in Days(t) /\ DueDay(tm, day) /\ t < StartOf(day, tm.minute)
    /\ \A e \in Days(t) : DueDay(tm, e) /\ t < StartOf(e, tm.minute) => day <= e

\* The worker looks within the calendar.
LEMMA LookBounds ==
    ASSUME NEW t \in 0..LastLook
    PROVE  /\ t \in Nat /\ DayOf(t) \in Nat /\ MonthStart[MonthCount] \in Nat
           /\ DayOf(t) + DaysPerWeek < MonthStart[MonthCount]
           /\ MonthCount - 1 \in 0..(MonthCount - 1)
           /\ MonthStart[MonthCount - 1] \in Nat
           /\ DayOf(t) < MonthStart[MonthCount - 1]
<1>1. t \in Nat /\ LastLook \in Nat /\ t <= LastLook
  BY LookAssumption
<1>2. /\ DayOf(t) \in Nat /\ DayOf(t) * TicksPerDay \in Nat /\ DayOf(t) * TicksPerDay <= t
      /\ DayOf(LastLook) \in Nat
      /\ DayOf(LastLook) * TicksPerDay \in Nat
      /\ LastLook < DayOf(LastLook) * TicksPerDay + TicksPerDay
      /\ TicksPerDay \in Nat \ {0}
  BY <1>1, DayBounds, DayLength
<1>3. DayOf(t) <= DayOf(LastLook)
  <2>1. SUFFICES ASSUME DayOf(LastLook) < DayOf(t) PROVE FALSE
    BY <1>2
  <2>2. DayOf(LastLook) * TicksPerDay + TicksPerDay <= DayOf(t) * TicksPerDay
    BY <1>2, <2>1, TimesMonotone
  <2> QED
    BY <1>1, <1>2, <2>2
<1>4. /\ MonthStart[MonthCount] \in Nat /\ MonthCount - 1 \in 0..(MonthCount - 1)
      /\ MonthStart[MonthCount - 1] \in Nat /\ DaysPerWeek \in Nat
  BY CalendarAssumption
<1>5. MonthStart[MonthCount - 1] * TicksPerDay \in Nat
  BY <1>2, <1>4, TimesMonotone
<1>6. DayOf(t) * TicksPerDay < MonthStart[MonthCount - 1] * TicksPerDay
  BY <1>1, <1>2, <1>5, LookAssumption
<1>7. DayOf(t) < MonthStart[MonthCount - 1]
  BY <1>2, <1>4, <1>6, TimesMonotone
<1> QED
  BY <1>1, <1>2, <1>3, <1>4, <1>7, LookAssumption

\* The daily firing.
LEMMA DailyFirst ==
    ASSUME NEW tm \in Timing, NEW t \in 0..LastLook, tm.frequency = "daily"
    PROVE  \E day \in Nat : IsFirst(tm, t, day) /\ DailyCandidate(tm, t) = StartOf(day, tm.minute)
<1> DEFINE today == DayOf(t)
<1>1. tm.minute \in 0..(MinutesPerDay - 1)
  BY DEF Timing
<1>2. /\ t \in Nat /\ today \in Nat /\ MonthStart[MonthCount] \in Nat
      /\ today + 1 < MonthStart[MonthCount] /\ today + 1 \in Nat
  BY LookBounds, CalendarAssumption
<1>3. today \in Days(t) /\ today + 1 \in Days(t) /\ \A e \in Days(t) : e \in Nat /\ today <= e
  BY <1>2 DEF Days
<1>4. StartOf(today, tm.minute) \in Nat /\ t < StartOf(today + 1, tm.minute)
  BY <1>1, <1>2, StartBounds, LaterDay
<1>5. StartOf(today + 1, tm.minute) = StartOf(today, tm.minute) + TicksPerDay
  <2>1. /\ today * TicksPerDay \in Nat /\ tm.minute * TicksPerMinute \in Nat
        /\ TicksPerDay \in Nat
    BY <1>1, <1>2, DayLength, CalendarAssumption, TimesMonotone
  <2>2. (today + 1) * TicksPerDay = today * TicksPerDay + TicksPerDay
    BY <1>2, <2>1, SMT
  <2> QED
    BY <2>1, <2>2 DEF StartOf
<1>6. CASE StartOf(today, tm.minute) <= t
  <2>1. \A e \in Days(t) : t < StartOf(e, tm.minute) => today + 1 <= e
    BY <1>2, <1>3, <1>4, <1>6
  <2>2. IsFirst(tm, t, today + 1)
    BY <1>3, <1>4, <2>1 DEF IsFirst, DueDay
  <2>3. DailyCandidate(tm, t) = StartOf(today + 1, tm.minute)
    BY <1>5, <1>6 DEF DailyCandidate
  <2> QED
    BY <1>2, <2>2, <2>3
<1>7. CASE t < StartOf(today, tm.minute)
  <2>1. IsFirst(tm, t, today)
    BY <1>3, <1>7 DEF IsFirst, DueDay
  <2>2. DailyCandidate(tm, t) = StartOf(today, tm.minute)
    BY <1>2, <1>4, <1>7 DEF DailyCandidate
  <2> QED
    BY <1>2, <2>1, <2>2
<1> QED
  BY <1>2, <1>4, <1>6, <1>7

\* The remainder of a multiple and a rest is the rest.
LEMMA RemainderOf ==
    ASSUME NEW w \in Nat \ {0}, NEW n \in Nat, NEW k \in 0..(w - 1)
    PROVE  (n * w + k) % w = k
<1> DEFINE x == n * w + k
<1>1. x \in Nat /\ n * w \in Nat
  BY TimesMonotone
<1>2. /\ x \div w \in Nat /\ x % w \in 0..(w - 1) /\ x = (x \div w) * w + (x % w)
      /\ (x \div w) * w \in Nat
  BY <1>1, DivMod, TimesMonotone
<1>3. x = n * w + k
  OBVIOUS
<1> HIDE DEF x
<1>4. CASE x \div w < n
  <2>1. (x \div w) * w + w <= n * w
    BY <1>2, <1>4, TimesMonotone
  <2> QED
    BY <2>1, <1>1, <1>2, <1>3
<1>5. CASE n < x \div w
  <2>1. n * w + w <= (x \div w) * w
    BY <1>2, <1>5, TimesMonotone
  <2> QED
    BY <2>1, <1>1, <1>2, <1>3
<1>6. CASE x \div w = n
  BY <1>1, <1>2, <1>3, <1>6 DEF x
<1> QED
  BY <1>2, <1>4, <1>5, <1>6

\* Two days of the same weekday are a week apart.
LEMMA WeekApart ==
    ASSUME NEW a \in Nat, NEW b \in Nat, a < b, WeekdayOf(a) = WeekdayOf(b)
    PROVE  a + DaysPerWeek <= b
<1> DEFINE w == DaysPerWeek
<1>1. w \in Nat \ {0}
  BY CalendarAssumption
<1> HIDE DEF w
<1>2. /\ a \div w \in Nat /\ a % w \in 0..(w - 1) /\ a = (a \div w) * w + (a % w)
      /\ b \div w \in Nat /\ b % w \in 0..(w - 1) /\ b = (b \div w) * w + (b % w)
      /\ (a \div w) * w \in Nat /\ (b \div w) * w \in Nat
  BY <1>1, DivMod, TimesMonotone
<1>3. a % w = b % w
  BY DEF WeekdayOf, w
<1>4. (a \div w) * w < (b \div w) * w
  BY <1>1, <1>2, <1>3
<1>5. (a \div w) * w + w <= (b \div w) * w
  BY <1>1, <1>2, <1>4, TimesMonotone
<1> QED
  BY <1>1, <1>2, <1>3, <1>5 DEF w

\* A week later it is the same weekday.
LEMMA WeekLater ==
    ASSUME NEW day \in Nat
    PROVE  WeekdayOf(day + DaysPerWeek) = WeekdayOf(day)
<1> DEFINE w == DaysPerWeek
           q == day \div w
           r == day % w
<1>1. w \in Nat \ {0}
  BY CalendarAssumption
<1>2. q \in Nat /\ r \in 0..(w - 1) /\ day = q * w + r /\ q * w \in Nat
  BY <1>1, DivMod, TimesMonotone
<1> HIDE DEF w, q
<1>3. (q + 1) * w = q * w + w /\ q + 1 \in Nat
  BY <1>1, <1>2, SMT
<1>4. day + w = (q + 1) * w + r
  BY <1>1, <1>2, <1>3
<1>5. (day + w) % w = r
  BY <1>1, <1>2, <1>3, <1>4, RemainderOf
<1> QED
  BY <1>5 DEF WeekdayOf, w

\* (target - weekday) % 7 days ahead lies the next day of that weekday.
LEMMA WeekAhead ==
    ASSUME NEW day \in Nat, NEW target \in 0..(DaysPerWeek - 1),
           NEW ahead, ahead = (target - WeekdayOf(day)) % DaysPerWeek
    PROVE  ahead \in 0..(DaysPerWeek - 1) /\ WeekdayOf(day + ahead) = target
<1> DEFINE w == DaysPerWeek
           q == day \div w
           r == day % w
<1>1. w \in Nat \ {0}
  BY CalendarAssumption
<1>2. q \in Nat /\ r \in 0..(w - 1) /\ day = q * w + r /\ q * w \in Nat
  BY <1>1, DivMod, TimesMonotone
<1> HIDE DEF w, q, r
<1>3. \A n \in Nat, k \in 0..(w - 1) : (n * w + k) % w = k
  BY <1>1, RemainderOf
<1>4. ahead = (target - r) % w /\ target \in 0..(w - 1)
  BY DEF WeekdayOf, w, r
<1>5. CASE r <= target
  <2>1. target - r \in 0..(w - 1) /\ 0 * w + (target - r) = target - r
    BY <1>1, <1>2, <1>4, <1>5
  <2>2. ahead = target - r
    BY <1>3, <1>4, <2>1
  <2>3. day + ahead = q * w + target
    BY <1>1, <1>2, <1>4, <2>2
  <2> QED
    BY <1>2, <1>3, <1>4, <2>1, <2>2, <2>3 DEF WeekdayOf, w
<1>6. CASE target < r
  <2>1. (target - r) % w = (target - r + w) % w
    BY <1>1, <1>2, <1>4, SMT
  <2>2. target - r + w \in 0..(w - 1) /\ 0 * w + (target - r + w) = target - r + w
    BY <1>1, <1>2, <1>4, <1>6
  <2>3. ahead = target - r + w
    BY <1>3, <1>4, <2>1, <2>2
  <2>4. (q + 1) * w = q * w + w /\ q + 1 \in Nat
    BY <1>1, <1>2, SMT
  <2>5. day + ahead = (q + 1) * w + target
    BY <1>1, <1>2, <1>4, <2>3, <2>4
  <2> QED
    BY <1>3, <1>4, <2>2, <2>3, <2>4, <2>5 DEF WeekdayOf, w
<1> QED
  BY <1>2, <1>4, <1>5, <1>6

\* The weekly firing.
LEMMA WeeklyFirst ==
    ASSUME NEW tm \in Timing, NEW t \in 0..LastLook, tm.frequency = "weekly"
    PROVE  \E day \in Nat : IsFirst(tm, t, day) /\ WeeklyCandidate(tm, t) = StartOf(day, tm.minute)
<1> DEFINE today == DayOf(t)
           ahead == (TargetDow(tm) - WeekdayOf(today)) % DaysPerWeek
           first == today + ahead
           next == first + DaysPerWeek
<1>1. tm.minute \in 0..(MinutesPerDay - 1)
  BY DEF Timing
<1>2. /\ t \in Nat /\ today \in Nat /\ MonthStart[MonthCount] \in Nat
      /\ today + DaysPerWeek < MonthStart[MonthCount] /\ DaysPerWeek \in Nat \ {0}
  BY LookBounds, CalendarAssumption
<1>3. TargetDow(tm) \in 0..(DaysPerWeek - 1)
  BY <1>2 DEF Timing, TargetDow, Null
<1>4. ahead \in 0..(DaysPerWeek - 1) /\ WeekdayOf(first) = TargetDow(tm)
  BY <1>2, <1>3, WeekAhead
<1>5. WeekdayOf(next) = TargetDow(tm)
  <2>1. first \in Nat
    BY <1>2, <1>4
  <2> HIDE DEF first
  <2> QED
    BY <1>4, <2>1, WeekLater
<1>6. WeeklyCandidate(tm, t) = IF StartOf(first, tm.minute) <= t
                               THEN StartOf(first, tm.minute) + DaysPerWeek * TicksPerDay
                               ELSE StartOf(first, tm.minute)
  BY DEF WeeklyCandidate
<1> HIDE DEF today, ahead
<1>7. first \in Nat /\ next \in Nat /\ today <= first /\ first <= today + DaysPerWeek
  BY <1>2, <1>4
<1>8. \A e \in Days(t) : e \in Nat /\ today <= e
  BY <1>2 DEF Days, today
<1>9. \A e \in Days(t) : DueDay(tm, e) => first <= e
  <2> SUFFICES ASSUME NEW e \in Days(t), WeekdayOf(e) = TargetDow(tm), e < first PROVE FALSE
    BY <1>7, <1>8 DEF DueDay
  <2>1. e + DaysPerWeek <= first
    BY <1>4, <1>7, <1>8, WeekApart
  <2> QED
    BY <2>1, <1>2, <1>4, <1>8
<1>10. StartOf(first, tm.minute) \in Nat
  BY <1>1, <1>7, StartBounds
<1>11. StartOf(next, tm.minute) = StartOf(first, tm.minute) + DaysPerWeek * TicksPerDay
  <2>1. /\ first * TicksPerDay \in Nat /\ tm.minute * TicksPerMinute \in Nat
        /\ DaysPerWeek * TicksPerDay \in Nat /\ TicksPerDay \in Nat
    BY <1>1, <1>2, <1>7, DayLength, CalendarAssumption, TimesMonotone
  <2> HIDE DEF first
  <2>2. (first + DaysPerWeek) * TicksPerDay = first * TicksPerDay + DaysPerWeek * TicksPerDay
    BY <1>2, <1>7, <2>1, SMT
  <2> QED
    BY <2>1, <2>2 DEF StartOf
<1>12. CASE StartOf(first, tm.minute) <= t
  <2>1. first <= today
    BY <1>1, <1>2, <1>7, <1>10, <1>12, LaterDay DEF today
  <2>2. next \in Days(t) /\ today < next
    BY <1>2, <1>7, <2>1 DEF Days, today
  <2>3. \A e \in Days(t) : DueDay(tm, e) /\ t < StartOf(e, tm.minute) => next <= e
    <3> SUFFICES ASSUME NEW e \in Days(t), WeekdayOf(e) = TargetDow(tm), t < StartOf(e, tm.minute)
                 PROVE  next <= e
      BY DEF DueDay
    <3>1. first <= e /\ first # e
      BY <1>9, <1>12, <1>2, <1>10 DEF DueDay
    <3> QED
      BY <3>1, <1>4, <1>7, <1>8, WeekApart
  <2>4. t < StartOf(next, tm.minute)
    BY <1>1, <1>2, <1>7, <2>2, LaterDay DEF today
  <2>5. IsFirst(tm, t, next)
    BY <1>5, <2>2, <2>3, <2>4 DEF IsFirst, DueDay
  <2> QED
    BY <1>6, <1>7, <1>11, <1>12, <2>5
<1>13. CASE t < StartOf(first, tm.minute)
  <2>1. first \in Days(t)
    BY <1>2, <1>4, <1>7 DEF Days, today
  <2>2. IsFirst(tm, t, first)
    BY <1>4, <1>9, <1>13, <2>1 DEF IsFirst, DueDay
  <2>3. WeeklyCandidate(tm, t) = StartOf(first, tm.minute)
    BY <1>2, <1>6, <1>10, <1>13
  <2> QED
    BY <1>7, <2>2, <2>3
<1> QED
  BY <1>2, <1>10, <1>12, <1>13

\* The months follow one another: by the least month that breaks the order.
LEMMA MonthsOrdered ==
    ASSUME NEW a \in 0..MonthCount, NEW b \in 0..MonthCount, a <= b
    PROVE  MonthStart[a] <= MonthStart[b]
<1> DEFINE Bad == {m \in Nat : m \in a..MonthCount /\ ~(MonthStart[a] <= MonthStart[m])}
<1>1. SUFFICES ASSUME Bad # {} PROVE FALSE
  <2>1. b \in Nat /\ b \in a..MonthCount
    BY CalendarAssumption
  <2> QED
    BY <2>1
<1>2. PICK m \in Bad : \A k \in Bad : m <= k
  BY <1>1, LeastNat
<1>3. a # m /\ m \in a..MonthCount /\ MonthCount \in Nat /\ a \in Nat /\ MonthStart[a] \in Nat
  BY <1>2, CalendarAssumption
<1>4. m - 1 \in Nat /\ m - 1 \in a..MonthCount /\ m - 1 \in 0..(MonthCount - 1)
  BY <1>3
<1>5. m - 1 \notin Bad
  BY <1>2, <1>3, <1>4
<1>6. MonthStart[a] <= MonthStart[m - 1]
  BY <1>4, <1>5
<1>7. MonthStart[m - 1] < MonthStart[(m - 1) + 1] /\ (m - 1) + 1 = m
  BY <1>3, <1>4, CalendarAssumption
<1>8. MonthStart[m - 1] \in Nat /\ MonthStart[m] \in Nat
  BY <1>3, <1>4, CalendarAssumption
<1> QED
  BY <1>2, <1>3, <1>6, <1>7, <1>8

\* A day lies in one month only.
LEMMA MonthOnly ==
    ASSUME NEW m \in 0..(MonthCount - 1), NEW n \in 0..(MonthCount - 1), NEW day \in Nat,
           MonthStart[m] <= day, day < MonthStart[n + 1]
    PROVE  m <= n
<1>1. SUFFICES ASSUME n < m PROVE FALSE
  BY CalendarAssumption
<1>2. /\ n + 1 \in 0..MonthCount /\ m \in 0..MonthCount /\ n + 1 <= m
      /\ MonthStart[n + 1] \in Nat /\ MonthStart[m] \in Nat
  BY <1>1, CalendarAssumption
<1>3. MonthStart[n + 1] <= MonthStart[m]
  BY <1>2, MonthsOrdered
<1> QED
  BY <1>2, <1>3

\* The day of a month with that number, and that it is the only one.
LEMMA DayInMonth ==
    ASSUME NEW m \in 0..(MonthCount - 1), NEW dom \in Nat \ {0}, dom <= LastDay(m)
    PROVE  /\ MonthStart[m] + dom - 1 \in Nat
           /\ MonthStart[m] <= MonthStart[m] + dom - 1
           /\ MonthStart[m] + dom - 1 < MonthStart[m + 1]
           /\ MonthStart[m + 1] <= MonthStart[MonthCount]
           /\ MonthOf(MonthStart[m] + dom - 1) = m
           /\ DayOfMonth(MonthStart[m] + dom - 1) = dom
<1> DEFINE day == MonthStart[m] + dom - 1
<1>1. /\ m + 1 \in 0..MonthCount /\ m \in 0..MonthCount /\ MonthCount \in 0..MonthCount
      /\ MonthStart[m] \in Nat /\ MonthStart[m + 1] \in Nat /\ MonthStart[MonthCount] \in Nat
  BY CalendarAssumption
<1>2. day \in Nat /\ MonthStart[m] <= day /\ day < MonthStart[m + 1]
  BY <1>1 DEF LastDay
<1>3. MonthStart[m + 1] <= MonthStart[MonthCount]
  BY <1>1, MonthsOrdered
<1>4. MonthOf(day) = m
  <2> HIDE DEF day
  <2>1. /\ MonthOf(day) \in 0..(MonthCount - 1)
        /\ MonthStart[MonthOf(day)] <= day /\ day < MonthStart[MonthOf(day) + 1]
    BY <1>1, <1>2, <1>3, MonthBounds
  <2>2. m <= MonthOf(day) /\ MonthOf(day) <= m
    BY <1>2, <2>1, MonthOnly
  <2> QED
    BY <2>1, <2>2
<1>5. DayOfMonth(day) = dom
  BY <1>1, <1>4 DEF DayOfMonth
<1> QED
  BY <1>2, <1>3, <1>4, <1>5

\* The monthly firing, of a day that every month has.
LEMMA MonthlyFirst ==
    ASSUME NEW tm \in Timing, NEW t \in 0..LastLook, tm.frequency = "monthly",
           InEveryMonth(tm)
    PROVE  \E day \in Nat : IsFirst(tm, t, day) /\ MonthlyCandidate(tm, t) = StartOf(day, tm.minute)
<1> DEFINE today == DayOf(t)
           m == MonthOf(today)
           dom == TargetDom(tm)
           Nth(k) == MonthStart[k] + dom - 1
<1>1. tm.minute \in 0..(MinutesPerDay - 1)
  BY DEF Timing
<1>2. /\ t \in Nat /\ today \in Nat /\ MonthStart[MonthCount] \in Nat
      /\ MonthCount \in Nat \ {0} /\ today < MonthStart[MonthCount - 1]
      /\ today < MonthStart[MonthCount]
  <2>1. MonthStart[MonthCount - 1] < MonthStart[(MonthCount - 1) + 1]
        /\ (MonthCount - 1) + 1 = MonthCount
    BY LookBounds, CalendarAssumption
  <2> QED
    BY <2>1, LookBounds, CalendarAssumption
<1>3. m \in 0..(MonthCount - 1) /\ MonthStart[m] <= today /\ today < MonthStart[m + 1]
  BY <1>2, MonthBounds
<1>4. dom \in Nat \ {0}
  BY DEF Timing, TargetDom, Null
<1>5. \A k \in 0..(MonthCount - 1) : dom <= LastDay(k)
  BY DEF InEveryMonth
<1>6. \A k \in 0..(MonthCount - 1) :
        /\ Nth(k) \in Nat /\ MonthStart[k] <= Nth(k) /\ Nth(k) < MonthStart[k + 1]
        /\ MonthStart[k + 1] <= MonthStart[MonthCount] /\ DayOfMonth(Nth(k)) = dom
        /\ MonthStart[k] \in Nat /\ MonthStart[k + 1] \in Nat
        /\ MonthlyFiring(tm, k) = StartOf(Nth(k), tm.minute)
  <2> SUFFICES ASSUME NEW k \in 0..(MonthCount - 1)
               PROVE  /\ Nth(k) \in Nat /\ MonthStart[k] <= Nth(k) /\ Nth(k) < MonthStart[k + 1]
                      /\ MonthStart[k + 1] <= MonthStart[MonthCount] /\ DayOfMonth(Nth(k)) = dom
                      /\ MonthStart[k] \in Nat /\ MonthStart[k + 1] \in Nat
                      /\ MonthlyFiring(tm, k) = StartOf(Nth(k), tm.minute)
    OBVIOUS
  <2>1. k \in 0..MonthCount /\ k + 1 \in 0..MonthCount
    BY <1>2
  <2>2. MonthlyFiring(tm, k) = StartOf(Nth(k), tm.minute)
    BY <1>5 DEF MonthlyFiring
  <2> QED
    BY <1>4, <1>5, <2>1, <2>2, DayInMonth, CalendarAssumption
<1>7. m + 1 \in 0..(MonthCount - 1)
  <2>1. m # MonthCount - 1
    BY <1>2, <1>3, <1>6
  <2> QED
    BY <1>2, <1>3, <2>1
<1>8. MonthlyCandidate(tm, t) = IF MonthlyFiring(tm, m) <= t
                                THEN MonthlyFiring(tm, m + 1) ELSE MonthlyFiring(tm, m)
  BY DEF MonthlyCandidate
<1>9. \A e \in Days(t) : e \in Nat /\ today <= e /\ e < MonthStart[MonthCount]
  BY <1>2 DEF Days
<1>10. ASSUME NEW e \in Days(t), DueDay(tm, e)
       PROVE  \E k \in 0..(MonthCount - 1) : m <= k /\ e = Nth(k)
  <2>1. /\ MonthOf(e) \in 0..(MonthCount - 1)
        /\ MonthStart[MonthOf(e)] <= e /\ e < MonthStart[MonthOf(e) + 1]
    BY <1>9, MonthBounds
  <2>2. MonthStart[m] <= e
    BY <1>2, <1>3, <1>6, <1>9
  <2>3. m <= MonthOf(e)
    BY <1>3, <1>9, <2>1, <2>2, MonthOnly
  <2>4. DayOfMonth(e) = dom
    BY <1>10 DEF DueDay
  <2>5. e = Nth(MonthOf(e))
    BY <1>4, <1>6, <1>9, <2>1, <2>4 DEF DayOfMonth
  <2> QED
    BY <2>1, <2>3, <2>5
<1>11. ASSUME NEW k \in 0..(MonthCount - 1), NEW l \in 0..(MonthCount - 1), k <= l
       PROVE  Nth(k) <= Nth(l)
  <2>1. k \in 0..MonthCount /\ l \in 0..MonthCount
    BY <1>2
  <2>2. MonthStart[k] <= MonthStart[l]
    BY <1>11, <2>1, MonthsOrdered
  <2> QED
    BY <1>4, <1>6, <2>2
<1> HIDE DEF m, dom, today, Nth
<1>12. StartOf(Nth(m), tm.minute) \in Nat
  BY <1>1, <1>3, <1>6, StartBounds
<1>13. CASE StartOf(Nth(m), tm.minute) <= t
  <2>1. today < Nth(m + 1)
    BY <1>2, <1>3, <1>6, <1>7
  <2>2. t < StartOf(Nth(m + 1), tm.minute)
    BY <1>1, <1>2, <1>6, <1>7, <2>1, LaterDay DEF today
  <2>3. Nth(m + 1) \in Days(t)
    BY <1>2, <1>6, <1>7, <2>1 DEF Days, today
  <2>4. ASSUME NEW e \in Days(t), DueDay(tm, e), t < StartOf(e, tm.minute)
        PROVE  Nth(m + 1) <= e
    <3>1. PICK k \in 0..(MonthCount - 1) : m <= k /\ e = Nth(k)
      BY <1>10, <2>4
    <3>2. k # m
      BY <1>2, <1>12, <1>13, <2>4, <3>1
    <3>3. m + 1 <= k
      BY <1>3, <3>1, <3>2
    <3> QED
      BY <1>7, <1>11, <3>1, <3>3
  <2>5. IsFirst(tm, t, Nth(m + 1))
    BY <1>6, <1>7, <2>2, <2>3, <2>4 DEF IsFirst, DueDay, dom
  <2> QED
    BY <1>3, <1>6, <1>7, <1>8, <1>13, <2>5
<1>14. CASE t < StartOf(Nth(m), tm.minute)
  <2>1. Nth(m) \in Days(t)
    <3>1. today <= Nth(m)
      BY <1>1, <1>2, <1>3, <1>6, <1>14, LaterDay DEF today
    <3> QED
      BY <1>2, <1>3, <1>6, <3>1 DEF Days, today
  <2>2. ASSUME NEW e \in Days(t), DueDay(tm, e) PROVE Nth(m) <= e
    BY <1>3, <1>10, <1>11, <2>2
  <2>3. IsFirst(tm, t, Nth(m))
    BY <1>3, <1>6, <1>14, <2>1, <2>2 DEF IsFirst, DueDay, dom
  <2>4. MonthlyCandidate(tm, t) = StartOf(Nth(m), tm.minute)
    BY <1>2, <1>3, <1>6, <1>8, <1>12, <1>14
  <2> QED
    BY <1>3, <1>6, <2>3, <2>4
<1> QED
  BY <1>2, <1>12, <1>13, <1>14

\* What is announced, for a schedule that has started: the start of the first day
\* it fires on, unless it ends before.
LEMMA AnnouncedFirst ==
    ASSUME NEW tm \in Timing, NEW t \in 0..LastLook, Started(tm, t),
           tm.frequency = "monthly" => InEveryMonth(tm)
    PROVE  NextRun(tm, t) = FirstDue(tm, t)
<1>1. /\ tm.minute \in 0..(MinutesPerDay - 1) /\ tm.end \in {Null} \cup Nat /\ tm.start \in Nat
      /\ tm.frequency \in {"daily", "weekly", "monthly", "other"}
  BY DEF Timing
<1>2. t \in Nat /\ DayOf(t) \in Nat /\ MonthStart[MonthCount] \in Nat
  BY LookBounds
<1>3. ASSUME NEW d \in Days(t)
      PROVE  /\ d \in Nat /\ tm.start <= d /\ StartOf(d, tm.minute) \in Nat
             /\ DayOf(StartOf(d, tm.minute)) = d
             /\ ShouldRun(tm, StartOf(d, tm.minute)) <=>
                    (tm.end = Null \/ d <= tm.end) /\ DueDay(tm, d)
  <2>1. d \in Nat /\ DayOf(t) <= d
    BY <1>2 DEF Days
  <2>2. DayOf(StartOf(d, tm.minute)) = d /\ MinuteOf(StartOf(d, tm.minute)) = tm.minute
    BY <1>1, <2>1, ReadBack
  <2>3. tm.start <= d
    BY <1>1, <1>2, <2>1 DEF Started
  <2> QED
    BY <1>1, <2>1, <2>2, <2>3, StartBounds DEF ShouldRun, DueDay
<1>4. \A u : u \in DueStarts(tm, t) <=>
        \E d \in Days(t) : /\ u = StartOf(d, tm.minute) /\ t < u
                           /\ tm.end = Null \/ d <= tm.end
                           /\ DueDay(tm, d)
  BY <1>3 DEF DueStarts, Days
<1>5. CASE tm.frequency = "other"
  <2>1. DueStarts(tm, t) = {}
    BY <1>4, <1>5 DEF DueDay
  <2>2. NextRun(tm, t) = Null
    BY <1>5 DEF NextRun, Candidate
  <2> QED
    BY <2>1, <2>2 DEF FirstDue
<1>6. CASE tm.frequency # "other"
  <2>1. PICK day \in Nat : IsFirst(tm, t, day) /\ Candidate(tm, t) = StartOf(day, tm.minute)
    BY <1>1, <1>6, DailyFirst, WeeklyFirst, MonthlyFirst DEF Candidate
  <2> DEFINE next == StartOf(day, tm.minute)
  <2>2. /\ next \in Nat /\ next # Null /\ DayOf(next) = day /\ t < next
        /\ day \in Days(t) /\ DueDay(tm, day)
    BY <1>3, <2>1 DEF IsFirst, Null
  <2>3. \A d \in Days(t) : DueDay(tm, d) /\ t < StartOf(d, tm.minute) => day <= d
    BY <2>1 DEF IsFirst
  <2>4. CASE tm.end = Null \/ day <= tm.end
    <3>1. next \in DueStarts(tm, t)
      BY <1>4, <2>2, <2>4
    <3>2. ASSUME NEW u \in DueStarts(tm, t) PROVE next <= u /\ u \in Nat
      <4>1. PICK d \in Days(t) : u = StartOf(d, tm.minute) /\ t < u /\ DueDay(tm, d)
        BY <1>4
      <4>2. day <= d /\ d \in Nat /\ u \in Nat
        BY <1>3, <2>3, <4>1
      <4> QED
        BY <1>1, <4>1, <4>2, StartOrder
    <3>3. Min(DueStarts(tm, t)) = next
      <4> HIDE DEF next
      <4>1. \A x \in DueStarts(tm, t) :
              (\A y \in DueStarts(tm, t) : x <= y) => x = next
        BY <2>2, <3>1, <3>2
      <4> QED
        BY <3>1, <3>2, <4>1 DEF Min
    <3>4. NextRun(tm, t) = next
      BY <1>1, <2>1, <2>2, <2>4 DEF NextRun
    <3> QED
      BY <3>1, <3>3, <3>4 DEF FirstDue
  <2>5. CASE tm.end # Null /\ tm.end < day
    <3>1. DueStarts(tm, t) = {}
      <4> SUFFICES ASSUME NEW d \in Days(t), t < StartOf(d, tm.minute), d <= tm.end,
                          DueDay(tm, d)
                   PROVE  FALSE
        BY <1>4, <2>5
      <4> QED
        BY <1>1, <1>3, <2>3, <2>5
    <3>2. NextRun(tm, t) = Null
      BY <1>1, <2>1, <2>2, <2>5 DEF NextRun
    <3> QED
      BY <3>1, <3>2 DEF FirstDue
  <2> QED
    BY <1>1, <2>4, <2>5
<1> QED
  BY <1>5, <1>6

\* Whenever the worker looks at a schedule that has started, and whose day every
\* month has, it announces the first later minute in which _should_run holds,
\* and nothing exactly when there is none: for every calendar and timing.
THEOREM FirstDueTheorem == LookSpec => []NextRunIsFirstDue
<1> DEFINE Looking == schedule \in LookedAt /\ instant \in 0..LastLook
<1>1. LookInit => Looking
  BY LookAssumption DEF LookInit
<1>2. Looking /\ [Look]_lookVars => Looking'
  BY LookAssumption DEF Look, lookVars
<1>3. Looking => NextRunIsFirstDue
  BY LookAssumption, AnnouncedFirst DEF NextRunIsFirstDue
<1> QED
  BY <1>1, <1>2, <1>3, PTL DEF LookSpec
=============================================================================
