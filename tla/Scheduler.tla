------------------------------ MODULE Scheduler ------------------------------
(***************************************************************************)
(* The background worker of backend/scheduler.py beside the /schedules     *)
(* endpoints of backend/routes/schedules.py, both working on the table     *)
(* report_schedules.                                                       *)
(*                                                                         *)
(* The worker is one thread of one backend process (RUN_SCHEDULER is set on*)
(* one instance).  A cycle takes the time once, reads a snapshot of the    *)
(* active schedules, and treats them one by one; every database statement  *)
(* is a transaction of its own and may fail, a failure is logged and       *)
(* swallowed.  The process may die at any step and be started again.       *)
(* Request handlers interleave with the cycle.                             *)
(***************************************************************************)
EXTENDS ScheduleCalendar

CONSTANTS
    Schedules,      \* schedule ids (uuid4: an id is never used twice)
    Businesses,
    Target,         \* Target[s] = the businesses s reports on
    OrgWide,        \* schedules without a business_id: businesses are looked up
    Timings,        \* the timings requests carry
    DedupeWindow,   \* _DEDUPE_WINDOW in ticks
    MaxEdits,       \* bound: PATCH and DELETE requests in a behaviour
    Horizon         \* bound: last instant of a behaviour

ASSUME SchedulerAssumption ==
    /\ Schedules # {}
    /\ Timings # {} /\ Timings \subseteq Timing
    /\ Target \in [Schedules -> SUBSET Businesses]
    /\ OrgWide \subseteq Schedules
    /\ DedupeWindow \in Nat
    /\ MaxEdits \in Nat
    /\ Horizon \in Nat

\* The calendar reaches one whole month beyond the horizon.
ASSUME HorizonAssumption ==
    MonthCount > 1 /\ Horizon < MonthStart[MonthCount - 1] * TicksPerDay

VARIABLES
    clock,
    \* the table: one row per schedule
    phase, active, timing, lastRun, lastStatus, nextRun,
    edits,
    \* the worker thread
    pc, now, wake, todo, snap, cur, jobs,
    \* history, read by the properties only
    fired,          \* fired[s] = cycle time of the latest trigger of s
    unrecorded,     \* triggered, last_run_at of that trigger not stored
    firedHere,      \* triggered by the process that is running now
    offSince,       \* not live and active at any time since the cycle began
    calm            \* no edit, failure or crash since the cycle began

tableVars == <<phase, active, timing, lastRun, lastStatus, nextRun>>
workerVars == <<pc, now, wake, todo, snap, cur, jobs>>
historyVars == <<fired, unrecorded, firedHere, offSince, calm>>
vars == <<clock, tableVars, edits, workerVars, historyVars>>

\* A row of the snapshot: the columns _fetch_active_schedules selects.
Row == [timing : Timings, lastRun : {Null} \cup Nat]
Row0 == [timing |-> CHOOSE tm \in Timings : TRUE, lastRun |-> Null]
NoSnapshot == [s \in Schedules |-> Row0]

On(s) == phase[s] = "live" /\ active[s]

TypeOK ==
    /\ clock \in 0..Horizon
    /\ phase \in [Schedules -> {"new", "live", "deleted"}]
    /\ active \in [Schedules -> BOOLEAN]
    /\ timing \in [Schedules -> Timings]
    /\ lastRun \in [Schedules -> {Null} \cup 0..Horizon]
    /\ lastStatus \in [Schedules -> {"none", "success"}]
    /\ nextRun \in [Schedules -> {Null} \cup Nat]
    /\ edits \in 0..MaxEdits
    /\ pc \in {"down", "idle", "fetch", "cycle", "run"}
    /\ now \in 0..Horizon
    /\ wake \in Nat
    /\ todo \subseteq Schedules
    /\ snap \in [Schedules -> Row]
    /\ cur \in Schedules
    /\ jobs \subseteq Businesses
    /\ fired \in [Schedules -> {Null} \cup 0..Horizon]
    /\ unrecorded \subseteq Schedules
    /\ firedHere \subseteq Schedules
    /\ offSince \subseteq Schedules
    /\ calm \in BOOLEAN

Init ==
    /\ clock = 0
    /\ phase = [s \in Schedules |-> "new"]
    /\ active = [s \in Schedules |-> FALSE]
    /\ timing = [s \in Schedules |-> Row0.timing]
    /\ lastRun = [s \in Schedules |-> Null]
    /\ lastStatus = [s \in Schedules |-> "none"]
    /\ nextRun = [s \in Schedules |-> Null]
    /\ edits = 0
    /\ pc = "down" /\ now = 0 /\ wake = 0
    /\ todo = {} /\ snap = NoSnapshot
    /\ cur = (CHOOSE s \in Schedules : TRUE) /\ jobs = {}
    /\ fired = [s \in Schedules |-> Null]
    /\ unrecorded = {} /\ firedHere = {} /\ offSince = Schedules
    /\ calm = FALSE

Tick == /\ clock < Horizon
        /\ clock' = clock + 1
        /\ UNCHANGED <<tableVars, edits, workerVars, historyVars>>

-----------------------------------------------------------------------------
(***************************************************************************)
(* The request handlers.                                                   *)
(***************************************************************************)

\* The checks of create_schedule on the day a frequency needs.
ValidNew(tm) == /\ tm.frequency # "other"
                /\ tm.frequency = "weekly" => tm.dow # Null
                /\ tm.frequency = "monthly" => tm.dom # Null

\* update_schedule sets the fields that are not None, so none becomes NULL.
CanPatch(old, new) == /\ new.dow = Null => old.dow = Null
                      /\ new.dom = Null => old.dom = Null
                      /\ new.end = Null => old.end = Null

CreateSchedule(s) ==
    /\ phase[s] = "new"
    /\ \E tm \in Timings : ValidNew(tm) /\ timing' = [timing EXCEPT ![s] = tm]
    /\ phase' = [phase EXCEPT ![s] = "live"]
    /\ active' = [active EXCEPT ![s] = TRUE]
    /\ offSince' = offSince \ {s}
    /\ calm' = FALSE
    /\ UNCHANGED <<clock, lastRun, lastStatus, nextRun, edits, workerVars,
                   fired, unrecorded, firedHere>>

\* next_run_at keeps the projection of the old timing.
UpdateSchedule(s) ==
    /\ phase[s] = "live" /\ edits < MaxEdits
    /\ \E tm \in Timings, on \in BOOLEAN :
        /\ CanPatch(timing[s], tm)
        /\ timing' = [timing EXCEPT ![s] = tm]
        /\ active' = [active EXCEPT ![s] = on]
        /\ offSince' = IF on THEN offSince \ {s} ELSE offSince
    /\ edits' = edits + 1
    /\ calm' = FALSE
    /\ UNCHANGED <<clock, phase, lastRun, lastStatus, nextRun, workerVars,
                   fired, unrecorded, firedHere>>

DeleteSchedule(s) ==
    /\ phase[s] = "live" /\ edits < MaxEdits
    /\ phase' = [phase EXCEPT ![s] = "deleted"]
    /\ edits' = edits + 1
    /\ calm' = FALSE
    /\ UNCHANGED <<clock, active, timing, lastRun, lastStatus, nextRun, workerVars,
                   fired, unrecorded, firedHere, offSince>>

-----------------------------------------------------------------------------
(***************************************************************************)
(* The worker thread.                                                      *)
(***************************************************************************)

\* The startup hook starts the thread, whose first cycle begins at once.
StartScheduler ==
    /\ pc = "down"
    /\ pc' = "idle" /\ wake' = clock
    /\ UNCHANGED <<clock, tableVars, edits, now, todo, snap, cur, jobs, historyVars>>

\* The process dies; what it held in memory is gone.
Crash ==
    /\ pc # "down"
    /\ pc' = "down" /\ todo' = {} /\ jobs' = {} /\ snap' = NoSnapshot
    /\ firedHere' = {} /\ calm' = FALSE
    /\ UNCHANGED <<clock, tableVars, edits, now, wake, cur,
                   fired, unrecorded, offSince>>

\* run_scheduled_reports takes the time once, for the whole cycle.
BeginCycle ==
    /\ pc = "idle" /\ wake <= clock
    /\ pc' = "fetch" /\ now' = clock
    /\ offSince' = {s \in Schedules : ~On(s)}
    /\ calm' = TRUE
    /\ UNCHANGED <<clock, tableVars, edits, wake, todo, snap, cur, jobs,
                   fired, unrecorded, firedHere>>

\* Faulty variant: the SELECT lacks its WHERE is_active = TRUE.
FetchAllSchedules ==
    /\ pc = "fetch"
    /\ todo' = {s \in Schedules : phase[s] = "live"}
    /\ snap' = [s \in Schedules |->
                  IF phase[s] = "live" THEN [timing |-> timing[s], lastRun |-> lastRun[s]]
                                       ELSE Row0]
    /\ pc' = "cycle"
    /\ UNCHANGED <<clock, tableVars, edits, now, wake, cur, jobs, historyVars>>

FetchActiveSchedules ==
    /\ pc = "fetch"
    /\ todo' = {s \in Schedules : On(s)}
    /\ snap' = [s \in Schedules |->
                  IF On(s) THEN [timing |-> timing[s], lastRun |-> lastRun[s]]
                           ELSE Row0]
    /\ pc' = "cycle"
    /\ UNCHANGED <<clock, tableVars, edits, now, wake, cur, jobs, historyVars>>

\* A failed SELECT is a cycle without schedules.
FetchFails ==
    /\ pc = "fetch"
    /\ todo' = {}
    /\ pc' = "cycle"
    /\ calm' = FALSE
    /\ UNCHANGED <<clock, tableVars, edits, now, wake, snap, cur, jobs,
                   fired, unrecorded, firedHere, offSince>>

\* Faulty variant: the window is compared with the projected run, not the last one.
RanBeforeProjection(s) == nextRun[s] # Null /\ nextRun[s] - now < 0

AlreadyRanInWindow(s) ==
    snap[s].lastRun # Null /\ now - snap[s].lastRun < DedupeWindow

Due(s) == ShouldRun(snap[s].timing, now)

SkipSchedule(s) ==
    /\ pc = "cycle" /\ s \in todo
    /\ AlreadyRanInWindow(s)
    /\ todo' = todo \ {s}
    /\ UNCHANGED <<clock, tableVars, edits, pc, now, wake, snap, cur, jobs, historyVars>>

\* Faulty variant: the projection is written only while there is none.
RefreshOnce(s) ==
    /\ pc = "cycle" /\ s \in todo
    /\ ~AlreadyRanInWindow(s) /\ ~Due(s)
    /\ todo' = todo \ {s}
    /\ nextRun' = IF phase[s] = "live" /\ nextRun[s] = Null
                  THEN [nextRun EXCEPT ![s] = NextRun(snap[s].timing, now)]
                  ELSE nextRun
    /\ UNCHANGED <<clock, phase, active, timing, lastRun, lastStatus, edits, calm,
                   pc, now, wake, snap, cur, jobs,
                   fired, unrecorded, firedHere, offSince>>

\* _record_next_run of a schedule that is not due.
RefreshSchedule(s) ==
    /\ pc = "cycle" /\ s \in todo
    /\ ~AlreadyRanInWindow(s) /\ ~Due(s)
    /\ todo' = todo \ {s}
    /\ \/ /\ nextRun' = IF phase[s] = "live"
                        THEN [nextRun EXCEPT ![s] = NextRun(snap[s].timing, now)]
                        ELSE nextRun
          /\ UNCHANGED calm
       \/ /\ calm' = FALSE    \* the UPDATE fails
          /\ UNCHANGED nextRun
    /\ UNCHANGED <<clock, phase, active, timing, lastRun, lastStatus, edits,
                   pc, now, wake, snap, cur, jobs,
                   fired, unrecorded, firedHere, offSince>>

\* _trigger_schedule starts: businesses it will report on.  A failed lookup
\* of an organization's businesses is an empty list.
TriggerSchedule(s) ==
    /\ pc = "cycle" /\ s \in todo
    /\ ~AlreadyRanInWindow(s) /\ Due(s)
    /\ todo' = todo \ {s}
    /\ cur' = s
    /\ jobs' \in {Target[s]} \cup (IF s \in OrgWide THEN {{}} ELSE {})
    /\ pc' = "run"
    /\ fired' = [fired EXCEPT ![s] = now]
    /\ unrecorded' = unrecorded \cup {s}
    /\ firedHere' = firedHere \cup {s}
    /\ UNCHANGED <<clock, tableVars, edits, now, wake, snap, offSince, calm>>

\* _create_scheduled_job of one business: whatever fails in it ends in the job.
RunJob(b) ==
    /\ pc = "run" /\ b \in jobs
    /\ jobs' = jobs \ {b}
    /\ UNCHANGED <<clock, tableVars, edits, pc, now, wake, todo, snap, cur,
                   fired, unrecorded, firedHere, offSince, calm>>

\* Faulty variant: the run is recorded with the outcome of its jobs.
RecordRunOutcome ==
    /\ pc = "run" /\ jobs = {}
    /\ pc' = "cycle"
    /\ lastRun' = [lastRun EXCEPT ![cur] = now]
    /\ \E outcome \in {"success", "failed"} : lastStatus' = [lastStatus EXCEPT ![cur] = outcome]
    /\ nextRun' = [nextRun EXCEPT ![cur] = NextRun(snap[cur].timing, now)]
    /\ unrecorded' = unrecorded \ {cur}
    /\ UNCHANGED <<clock, phase, active, timing, edits, now, wake, todo, snap, cur,
                   jobs, fired, firedHere, offSince, calm>>

\* Faulty variant: a run that could not be recorded goes back on the list.
RecordRunOrRepeat ==
    /\ pc = "run" /\ jobs = {}
    /\ pc' = "cycle"
    /\ \/ /\ lastRun' = [lastRun EXCEPT ![cur] = now]
          /\ lastStatus' = [lastStatus EXCEPT ![cur] = "success"]
          /\ nextRun' = [nextRun EXCEPT ![cur] = NextRun(snap[cur].timing, now)]
          /\ unrecorded' = unrecorded \ {cur}
          /\ UNCHANGED todo
       \/ /\ todo' = todo \cup {cur}
          /\ UNCHANGED <<lastRun, lastStatus, nextRun, unrecorded>>
    /\ UNCHANGED <<clock, phase, active, timing, edits, now, wake, snap, cur,
                   jobs, fired, firedHere, offSince, calm>>

\* _record_run.  Nothing _trigger_schedule calls lets an exception out, so the
\* status it stores is always "success".
RecordRun ==
    /\ pc = "run" /\ jobs = {}
    /\ pc' = "cycle"
    /\ \/ /\ IF phase[cur] = "live"
             THEN /\ lastRun' = [lastRun EXCEPT ![cur] = now]
                  /\ lastStatus' = [lastStatus EXCEPT ![cur] = "success"]
                  /\ nextRun' = [nextRun EXCEPT ![cur] = NextRun(snap[cur].timing, now)]
             ELSE UNCHANGED <<lastRun, lastStatus, nextRun>>
          /\ unrecorded' = unrecorded \ {cur}
          /\ UNCHANGED calm
       \/ /\ calm' = FALSE  \* the UPDATE fails
          /\ UNCHANGED <<lastRun, lastStatus, nextRun, unrecorded>>
    /\ UNCHANGED <<clock, phase, active, timing, edits, now, wake, todo, snap, cur,
                   jobs, fired, firedHere, offSince>>

\* _STOP_EVENT.wait(timeout=60) counts from the end of the cycle.
EndCycle ==
    /\ pc = "cycle" /\ todo = {}
    /\ pc' = "idle"
    /\ wake' = clock + TicksPerMinute
    /\ snap' = NoSnapshot
    /\ UNCHANGED <<clock, tableVars, edits, now, todo, cur, jobs, historyVars>>

-----------------------------------------------------------------------------
Handlers == \E s \in Schedules : CreateSchedule(s) \/ UpdateSchedule(s) \/ DeleteSchedule(s)

Cycle ==
    \/ BeginCycle \/ FetchActiveSchedules \/ FetchFails
    \/ \E s \in Schedules : SkipSchedule(s) \/ RefreshSchedule(s) \/ TriggerSchedule(s)
    \/ \E b \in Businesses : RunJob(b)
    \/ RecordRun \/ EndCycle

Next == Tick \/ Handlers \/ StartScheduler \/ Crash \/ Cycle

Spec == Init /\ [][Next]_vars

\* The thread runs, time passes and a dead process is started again.
FairSpec == Spec /\ WF_vars(Tick) /\ WF_vars(Cycle) /\ WF_vars(StartScheduler)
-----------------------------------------------------------------------------
(***************************************************************************)
(* Properties.                                                             *)
(***************************************************************************)

Fires(s) == pc = "cycle" /\ pc' = "run" /\ cur' = s

\* What the worker promises about the instants at which it triggers schedules.
Promise == INSTANCE WindowedFiring
    WITH Instants <- 0..Horizon, Window <- DedupeWindow, Pause <- TicksPerMinute,
         last <- fired, owed <- unrecorded, here <- firedHere

(***************************************************************************)
(* The worker implements WindowedFiring: the comment on _DEDUPE_WINDOW, for*)
(* every interleaving with requests, failed statements and restarts.       *)
(***************************************************************************)
FiringPromise == Promise!Spec

Busy == pc \in {"fetch", "cycle", "run"}

\* last_run_at is the latest trigger, unless its record was lost.
RecordMatches ==
    \A s \in Schedules :
        /\ lastRun[s] <= fired[s]
        /\ phase[s] # "deleted" /\ s \notin unrecorded => lastRun[s] = fired[s]

\* So is the copy in the snapshot, for the schedules the cycle has yet to treat.
SnapshotMatches ==
    pc \in {"cycle", "run"} =>
        \A s \in todo : s \notin unrecorded => snap[s].lastRun = fired[s]

\* What a cycle still has to treat, or treats, has been created.
ListedExist == (\A s \in todo : phase[s] # "new") /\ (pc = "run" => phase[cur] # "new")

\* A trigger carries the time of its cycle.
TimesInOrder ==
    /\ now <= clock
    /\ \A s \in Schedules : fired[s] <= now
    /\ pc = "run" => fired[cur] = now /\ cur \notin todo

\* The process that runs has paused since it triggered what it may trigger next.
PauseKept ==
    \A s \in firedHere :
        /\ pc # "down" /\ fired[s] # Null
        /\ pc = "idle" => fired[s] + TicksPerMinute <= wake
        /\ pc = "fetch" => fired[s] + TicksPerMinute <= now
        /\ pc \in {"cycle", "run"} /\ s \in todo => fired[s] + TicksPerMinute <= now

(***************************************************************************)
(* Why the worker keeps its promise: the dedupe check reads the instant of *)
(* the latest trigger although it reads it from a snapshot, and the loop's *)
(* wait keeps two cycles of a process apart.                               *)
(***************************************************************************)
FiringInv == RecordMatches /\ SnapshotMatches /\ ListedExist /\ TimesInOrder /\ PauseKept

(***************************************************************************)
(* A schedule that was deleted or inactive when the cycle took its time,   *)
(* and was not switched on since, is not triggered in that cycle: requests *)
(* that stop a schedule act on the next cycle at the latest, although a    *)
(* cycle works on a snapshot.                                              *)
(***************************************************************************)
StoppedNeverFires == [][\A s \in Schedules : Fires(s) => s \notin offSince]_vars

(***************************************************************************)
(* The next run shown beside the last run of a schedule is later than it,  *)
(* in whatever order runs, refreshes from an old snapshot and PATCHes      *)
(* write the row.                                                          *)
(***************************************************************************)
ProjectionAfterLastRun ==
    \A s \in Schedules : lastRun[s] # Null /\ nextRun[s] # Null => lastRun[s] < nextRun[s]

InWindow(s) == lastRun[s] # Null /\ now - lastRun[s] < DedupeWindow

(***************************************************************************)
(* When a cycle ends that no request, failure or restart disturbed, every  *)
(* active schedule outside its dedupe window shows the projection of its   *)
(* own timing: what an earlier, disturbed cycle left behind is repaired.   *)
(***************************************************************************)
CalmCycleRefreshes ==
    pc = "idle" /\ calm =>
        \A s \in Schedules : On(s) /\ ~InWindow(s) => nextRun[s] = NextRun(timing[s], now)

\* A cycle always comes to its end, or the process does.
CycleEnds == pc \in {"fetch", "cycle", "run"} ~> pc \in {"idle", "down"}
=============================================================================
