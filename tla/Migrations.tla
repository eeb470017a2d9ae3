------------------------------ MODULE Migrations ------------------------------
(***************************************************************************)
(* The start of a backend container: startup.sh runs the migration runner  *)
(* and starts the application whatever became of it; the startup hook of   *)
(* the application runs the migrations once more if the first table is     *)
(* missing.  Several containers start against one database, and an         *)
(* application that already serves writes users meanwhile.                 *)
(*                                                                         *)
(* A migration and its row in schema_migrations are one transaction, which *)
(* takes locks on the tables of the migration one by one and keeps them    *)
(* until it ends; the server breaks a circle of transactions that wait for *)
(* each other.  Migration 005 commits by itself; 006 renames the role      *)
(* admin to super_admin and is the one that must not run twice.            *)
(***************************************************************************)
EXTENDS Naturals, FiniteSets, Sequences

CONSTANTS
    Instances,      \* containers
    Users,
    Last,           \* migrations are 1..Last, in the order of their file names
    SelfCommitting, \* migrations that commit inside run(): 005
    Split,          \* the roles split: 006
    Tables,         \* the tables whose locks two transactions can want
    Locks,          \* of a migration: its tables, in the order it comes to them
    UsersTable,     \* users
    MaxFaults,      \* bound: statements, commits and containers that fail
    MaxStarts       \* bound: container starts

ASSUME MigrationsAssumption ==
    /\ Last \in Nat \ {0} /\ Split \in 2..Last
    /\ SelfCommitting \subseteq (2..Last) \ {Split}
    /\ Locks \in [1..Last -> Seq(Tables)]
    /\ \E n \in 1..Len(Locks[Split]) : Locks[Split][n] = UsersTable
    /\ MaxFaults \in Nat /\ MaxStarts \in Nat

VARIABLES
    tracking,       \* schema_migrations exists
    applied,        \* its committed rows
    runs,           \* how often each migration's effects were committed
    stage,          \* where the start of an instance is
    next,           \* the migration its runner is at
    got,            \* how many of its tables a migration that runs has locked
    net,            \* instances whose runner is the startup hook's
    scripted,       \* instances whose runner startup.sh called
    role,           \* of each user; "none" before the user is created
    starts,
    circled,        \* the server has broken a circle of waiting runners (history)
    faults          \* statements, commits and containers that have failed

runnerVars == <<stage, next, got, net, scripted, starts, circled>>
schemaVars == <<tracking, applied, runs>>
vars == <<runnerVars, schemaVars, role, faults>>

All == 1..Last
Roles == {"super_admin", "admin", "sme_user"}  \* and sme, the old name of sme_user

TypeOK ==
    /\ tracking \in BOOLEAN
    /\ applied \subseteq All
    /\ runs \in [All -> Nat]
    /\ stage \in [Instances -> {"off", "ensure", "create", "check", "run", "record", "commit",
                                "done", "failed", "serving"}]
    /\ next \in [Instances -> 1..(Last + 1)]
    /\ got \in [Instances -> Nat] /\ circled \in BOOLEAN
    /\ net \subseteq Instances /\ scripted \subseteq Instances
    /\ role \in [Users -> Roles \cup {"none"}]
    /\ starts \in Nat /\ faults \in Nat

\* A fresh database, or one of the release before the split with its users.
Init ==
    /\ stage = [i \in Instances |-> "off"]
    /\ next = [i \in Instances |-> 1]
    /\ got = [i \in Instances |-> 0] /\ circled = FALSE
    /\ net = {} /\ scripted = {} /\ starts = 0 /\ faults = 0
    /\ \/ tracking = FALSE /\ applied = {} /\ role = [u \in Users |-> "none"]
       \/ tracking = TRUE /\ applied = 1..(Split - 1)
          /\ role \in [Users -> {"none", "admin", "sme_user"}]
    /\ runs = [m \in All |-> IF m \in applied THEN 1 ELSE 0]

-----------------------------------------------------------------------------
(***************************************************************************)
(* The runner, one instance's.                                             *)
(***************************************************************************)

\* A transaction that has run its migration, or written its row, and is not over.
HasRun(i) == stage[i] \in {"record", "commit"} /\ next[i] \notin SelfCommitting

\* The tables a runner has locked.  Of two migrations that come to one table one
\* alters it, so a lock is exclusive.
Held(i) ==
    LET locked == IF HasRun(i) THEN Len(Locks[next[i]])
                  ELSE IF stage[i] = "run" THEN got[i] ELSE 0
    IN {Locks[next[i]][n] : n \in 1..locked}

\* The next table a migration comes to is locked by another runner.
Waits(i, k) == /\ i # k /\ stage[i] = "run" /\ got[i] < Len(Locks[next[i]])
               /\ Locks[next[i]][got[i] + 1] \in Held(k)

\* Each of them waits for another of them and is waited for.
Circle(some) == \A i \in some : /\ \E k \in some : Waits(i, k)
                               /\ \E k \in some : Waits(k, i)

Active(i) == stage[i] \in {"ensure", "create", "check", "run", "record", "commit"}

Goto(i, s) == /\ stage' = [stage EXCEPT ![i] = s]
              /\ got' = [got EXCEPT ![i] = 0]
              /\ UNCHANGED <<next, net, scripted, starts, circled>>

\* Something fails.
Fault == faults < MaxFaults /\ faults' = faults + 1

\* CREATE TABLE IF NOT EXISTS: when the table is missing it is created; of two
\* transactions that create it one raises.
Ensure(i) ==
    /\ stage[i] = "ensure"
    /\ Goto(i, IF tracking THEN "check" ELSE "create")
    /\ UNCHANGED <<schemaVars, role, faults>>

CreateTracking(i) ==
    /\ stage[i] = "create"
    /\ tracking' = TRUE
    /\ Goto(i, IF tracking THEN "failed" ELSE "check")
    /\ UNCHANGED <<applied, runs, role, faults>>

\* A plausible slip: a migration that is applied already ends the run.
CheckRaises(i) ==
    /\ stage[i] = "check"
    /\ Goto(i, IF next[i] > Last THEN "done"
               ELSE IF next[i] \in applied THEN "failed" ELSE "run")
    /\ UNCHANGED <<schemaVars, role, faults>>

\* The row is read in the transaction that may run the migration later.
Check(i) ==
    /\ stage[i] = "check"
    /\ \/ /\ next[i] \in applied
          /\ next' = [next EXCEPT ![i] = @ + 1]
          /\ UNCHANGED <<stage, got, net, scripted, starts, circled>>
       \/ /\ next[i] \notin applied
          /\ Goto(i, IF next[i] > Last THEN "done" ELSE "run")
    /\ UNCHANGED <<schemaVars, role, faults>>

\* mod.run comes to its next table, once no other transaction has it locked.
Lock(i) ==
    /\ stage[i] = "run" /\ got[i] < Len(Locks[next[i]])
    /\ \A k \in Instances : ~Waits(i, k)
    /\ got' = [got EXCEPT ![i] = @ + 1]
    /\ UNCHANGED <<stage, next, net, scripted, starts, circled, schemaVars, role, faults>>

\* mod.run is through.  If the migration was committed since the check, CREATE
\* TABLE IF NOT EXISTS may raise or its statements find nothing to do; 005
\* commits, its errors swallowed.
Run(i) ==
    /\ stage[i] = "run"
    /\ \/ /\ got[i] >= Len(Locks[next[i]])
          /\ Goto(i, "record")
          /\ \/ /\ next[i] \in SelfCommitting
                /\ runs' = [runs EXCEPT ![next[i]] = @ + 1]
                /\ UNCHANGED faults
             \/ /\ next[i] \in SelfCommitting
                /\ Fault
                /\ UNCHANGED runs
             \/ next[i] \notin SelfCommitting /\ UNCHANGED <<runs, faults>>
       \/ /\ next[i] \in applied
          /\ Goto(i, "failed")
          /\ UNCHANGED <<runs, faults>>
    /\ UNCHANGED <<tracking, applied, role>>

\* A plausible slip: the migration of a victim is run again.
VictimTriesAgain(i) ==
    /\ \E some \in SUBSET Instances : i \in some /\ Circle(some)
    /\ got' = [got EXCEPT ![i] = 0]
    /\ circled' = TRUE
    /\ UNCHANGED <<stage, next, net, scripted, starts, schemaVars, role, faults>>

\* "deadlock detected": PostgreSQL lets the statement of one runner of a circle
\* raise, whichever it is, and the runner ends like with any other error.
Victim(i) ==
    /\ \E some \in SUBSET Instances : i \in some /\ Circle(some)
    /\ stage' = [stage EXCEPT ![i] = "failed"]
    /\ got' = [got EXCEPT ![i] = 0]
    /\ circled' = TRUE
    /\ UNCHANGED <<next, net, scripted, starts, schemaVars, role, faults>>

\* A plausible slip: ON CONFLICT DO NOTHING.
RecordAnyway(i) ==
    /\ stage[i] = "record"
    /\ \A k \in Instances \ {i} : ~(stage[k] = "commit" /\ next[k] = next[i])
    /\ Goto(i, "commit")
    /\ UNCHANGED <<schemaVars, role, faults>>

\* The row's primary key: waits for a transaction that has inserted it, raises
\* if it is there, and the migration is rolled back with it.
Record(i) ==
    /\ stage[i] = "record"
    /\ \A k \in Instances \ {i} : ~(stage[k] = "commit" /\ next[k] = next[i])
    /\ Goto(i, IF next[i] \in applied THEN "failed" ELSE "commit")
    /\ UNCHANGED <<schemaVars, role, faults>>

\* What a transaction that commits leaves: the row, the effects, and for 006
\* the renamed roles, whose table it has locked since it ran.
Committed(m) ==
    /\ applied' = applied \cup {m}
    /\ runs' = IF m \in SelfCommitting THEN runs ELSE [runs EXCEPT ![m] = @ + 1]
    /\ role' = IF m = Split
               THEN [u \in Users |-> IF role[u] = "admin" THEN "super_admin" ELSE role[u]]
               ELSE role
    /\ UNCHANGED tracking

Commit(i) ==
    /\ stage[i] = "commit"
    /\ Committed(next[i])
    /\ stage' = [stage EXCEPT ![i] = "check"]
    /\ next' = [next EXCEPT ![i] = @ + 1]
    /\ UNCHANGED <<got, net, scripted, starts, circled, faults>>

\* A plausible slip: the exception is logged and not raised again.
FailContinues(i) ==
    /\ Fault /\ stage[i] \in {"run", "record", "commit"}
    /\ stage' = [stage EXCEPT ![i] = "check"]
    /\ next' = [next EXCEPT ![i] = @ + 1]
    /\ got' = [got EXCEPT ![i] = 0]
    /\ UNCHANGED <<net, scripted, starts, circled, schemaVars, role>>

\* A statement or a commit raises; the commit may have reached the server.
Fail(i) ==
    /\ Fault /\ Active(i)
    /\ \/ UNCHANGED <<schemaVars, role>>
       \/ stage[i] = "commit" /\ Committed(next[i])
    /\ Goto(i, "failed")

-----------------------------------------------------------------------------
(***************************************************************************)
(* The container.                                                          *)
(***************************************************************************)

\* startup.sh, or the application started directly.
Start(i) ==
    /\ stage[i] = "off" /\ starts < MaxStarts
    /\ starts' = starts + 1
    /\ next' = [next EXCEPT ![i] = 1]
    /\ \/ stage' = [stage EXCEPT ![i] = "ensure"] /\ scripted' = scripted \cup {i}
       \/ stage' = [stage EXCEPT ![i] = "failed"] /\ UNCHANGED scripted
    /\ net' = net \ {i}
    /\ UNCHANGED <<got, circled, schemaVars, role, faults>>

\* The application starts whatever the runner's exit code.  Its hook looks for
\* the table organizations, which migration 1 creates, and serves whatever the
\* hook's own run leads to.
Boot(i) ==
    /\ stage[i] \in {"done", "failed"}
    /\ IF i \in net \/ 1 \in applied
       THEN /\ stage' = [stage EXCEPT ![i] = "serving"]
            /\ UNCHANGED <<net, next>>
       ELSE /\ stage' = [stage EXCEPT ![i] = "ensure"]
            /\ next' = [next EXCEPT ![i] = 1]
            /\ net' = net \cup {i}
    /\ UNCHANGED <<got, scripted, starts, circled, schemaVars, role, faults>>

\* The container is gone, the open transaction rolled back.
Crash(i) ==
    /\ Fault /\ stage[i] # "off"
    /\ Goto(i, "off")
    /\ UNCHANGED <<schemaVars, role>>

-----------------------------------------------------------------------------
(***************************************************************************)
(* The users table, as far as the split changes it.                        *)
(***************************************************************************)
Serving == \E i \in Instances : stage[i] = "serving"

\* POST /users, POST /auth/register, POST /auth/bootstrap and PATCH /users/{id}.
\* ADMIN_TOKEN is a super admin in every database.  The CHECK of the table admits
\* super_admin and sme_user after the split only; a request waits for the lock on
\* the table.
WriteRole(u, r) ==
    /\ Serving
    /\ \A i \in Instances : UsersTable \notin Held(i)
    /\ r = "admin" \/ Split \in applied
    /\ role' = [role EXCEPT ![u] = r]
    /\ UNCHANGED <<runnerVars, schemaVars, faults>>

RunnerStep(i) == \/ Ensure(i) \/ CreateTracking(i) \/ Check(i) \/ Lock(i) \/ Run(i)
                 \/ Victim(i) \/ Record(i) \/ Commit(i)

Next ==
    \/ \E i \in Instances : RunnerStep(i) \/ Fail(i) \/ Start(i) \/ Boot(i) \/ Crash(i)
    \/ \E u \in Users, r \in Roles : WriteRole(u, r)

Spec == Init /\ [][Next]_vars

\* Runners and startups run on; a lock is granted to a runner that waits for it,
\* and a circle is found.
FairSpec == Spec /\ \A i \in Instances : WF_vars(RunnerStep(i) \/ Boot(i))

-----------------------------------------------------------------------------
(***************************************************************************)
(* Properties.                                                             *)
(***************************************************************************)

\* Migrations are applied in order without a gap, however many runners there are
\* and wherever they stop; and a run that ends well has applied them all
\* (run_migrations).
AppliedInOrder ==
    /\ \E k \in 0..Last : applied = 1..k
    /\ \A i \in Instances : stage[i] = "done" => applied = All

\* The effects of a migration are committed exactly when it is recorded, and
\* once; 005 is the exception.
ExactlyOnce ==
    \A m \in All \ SelfCommitting : runs[m] = IF m \in applied THEN 1 ELSE 0

\* "The new 'admin' role is ... created by API flows, not by backfill"
\* (migration_006): once the split is recorded no runner touches a role.
AdminsKept ==
    [][(Split \in applied) /\ runnerVars' # runnerVars => role' = role]_vars

\* When nothing fails and no circle had to be broken, runners that start together
\* disturb each other, yet once all have ended every migration is applied
\* ("Idempotent everything", docs/architecture.md).
SomebodyCompletes ==
    faults = 0 /\ ~circled /\ (\E i \in scripted : TRUE) /\ (\A i \in Instances : ~Active(i)) => applied = All

\* Every start leads to an application that serves, although runners wait for each
\* other's locks and may do so in a circle: 001 comes to businesses before the
\* payloads, 008 to the payloads before businesses ("Fail open on startup",
\* architecture.md).
StartsServe == \A i \in Instances : stage[i] = "ensure" ~> stage[i] \in {"serving", "off"}

\* Why a migration is applied once: a runner has seen the rows before its own,
\* and a transaction that is about to commit a row is the only one and finds it
\* missing.
RunnerInv ==
    /\ \A i \in Instances : Active(i) => 1..(next[i] - 1) \subseteq applied
    /\ \A i \in Instances : stage[i] \in {"run", "record", "commit"} => next[i] <= Last
    /\ \A i \in Instances : stage[i] = "commit" => next[i] \notin applied
    /\ \A i, k \in Instances :
           stage[i] = "commit" /\ stage[k] = "commit" /\ next[i] = next[k] => i = k
=============================================================================
