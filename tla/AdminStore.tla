------------------------------- MODULE AdminStore -------------------------------
(***************************************************************************)
(* What the two halves of AdminSettingsStore share: requests that run in   *)
(* threads of backend processes, statements that fail, and processes that  *)
(* are replaced.  A half adds what it stores and what its threads do.      *)
(***************************************************************************)
EXTENDS Naturals, FiniteSets

CONSTANTS
    Procs,          \* backend processes
    Requests,       \* each is used once
    MaxFails,       \* bound: statements that fail
    MaxRestarts     \* bound

ASSUME StoreAssumption == MaxFails \in Nat /\ MaxRestarts \in Nat

VARIABLES
    at,         \* where the thread of a request is
    host,       \* the process a request runs in
    restarts,
    fails,      \* statements that have failed
    overlapped  \* two PUTs have been in flight together; any two requests, for secrets

threads == <<at, host, restarts, fails, overlapped>>

ThreadsInit ==
    /\ at = [r \in Requests |-> "idle"]
    /\ host \in [Requests -> Procs]
    /\ restarts = 0 /\ fails = 0 /\ overlapped = FALSE

ThreadsTypeOK ==
    /\ host \in [Requests -> Procs]
    /\ restarts \in Nat /\ fails \in Nat /\ overlapped \in BOOLEAN

InFlight(r) == at[r] \notin {"idle", "answered", "gone"}

\* A statement fails.
Fault == fails < MaxFails /\ fails' = fails + 1

\* A process dies or is replaced: its threads go.
Replaced(p) ==
    /\ restarts < MaxRestarts
    /\ restarts' = restarts + 1
    /\ at' = [r \in Requests |-> IF host[r] = p /\ InFlight(r) THEN "gone" ELSE at[r]]
    /\ UNCHANGED <<host, fails, overlapped>>
=============================================================================
