--------------------------- MODULE WindowedFiring ---------------------------
(***************************************************************************)
(* What the scheduler promises about when it triggers a schedule.  Two     *)
(* triggers of a schedule are at least Window apart, unless the record of  *)
(* the earlier one never reached the database; and even then one process   *)
(* leaves a pause between them, so a run can be repeated within a minute   *)
(* only by a process started after it.                                     *)
(***************************************************************************)
EXTENDS Integers

CONSTANTS
    Schedules,
    Instants,       \* instants at which a cycle may begin
    Window,         \* the dedupe window
    Pause           \* the pause between two cycles of a process

VARIABLES
    last,   \* last[s] = instant of the latest trigger of s, None before it
    owed,   \* schedules whose latest trigger is not in the database
    here    \* schedules triggered by the running process

None == -1

Init == last = [s \in Schedules |-> None] /\ owed = {} /\ here = {}

Fire(s, t) ==
    /\ last[s] <= t
    /\ last[s] = None \/ s \in owed \/ t - last[s] >= Window
    /\ s \in here => t - last[s] >= Pause
    /\ last' = [last EXCEPT ![s] = t]
    /\ owed' = owed \cup {s}
    /\ here' = here \cup {s}

Recorded(s) == owed' = owed \ {s} /\ UNCHANGED <<last, here>>

Restart == here' = {} /\ UNCHANGED <<last, owed>>

Next ==
    \/ \E s \in Schedules : Recorded(s) \/ \E t \in Instants : Fire(s, t)
    \/ Restart

Spec == Init /\ [][Next]_<<last, owed, here>>
=============================================================================
