--------------------------- MODULE MigrationsProofs ---------------------------
(***************************************************************************)
(* Theorems of Migrations, for any containers, users, list of migrations   *)
(* and faults.                                                             *)
(***************************************************************************)
EXTENDS Migrations, TLAPS

LEMMA CommittedType ==
    ASSUME TypeOK, NEW m \in All, Committed(m)
    PROVE  /\ applied' \subseteq All /\ runs' \in [All -> Nat] /\ tracking' \in BOOLEAN
           /\ role' \in [Users -> Roles \cup {"none"}]
<1>1. applied' \subseteq All /\ tracking' \in BOOLEAN
  BY DEF Committed, TypeOK
<1>2. runs' \in [All -> Nat]
  <2>1. runs \in [All -> Nat]
    BY DEF TypeOK
  <2> QED
    BY <2>1 DEF Committed
<1>3. role' \in [Users -> Roles \cup {"none"}]
  <2>1. role \in [Users -> Roles \cup {"none"}]
    BY DEF TypeOK
  <2> QED
    BY <2>1 DEF Committed, Roles
<1> QED
  BY <1>1, <1>2, <1>3

\* A runner that is at a migration to run is at one of the list.
LEMMA AtMigration ==
    ASSUME TypeOK, RunnerInv, NEW i \in Instances, stage[i] \in {"run", "record", "commit"}
    PROVE  next[i] \in All
BY MigrationsAssumption DEF TypeOK, RunnerInv, All

LEMMA TypeStep == TypeOK /\ RunnerInv /\ [Next]_vars => TypeOK'
<1> SUFFICES ASSUME TypeOK, RunnerInv, [Next]_vars PROVE TypeOK'
  OBVIOUS
<1>0. Last \in Nat
  BY MigrationsAssumption
<1>1. ASSUME NEW i \in Instances, Ensure(i) \/ Record(i) \/ Crash(i) PROVE TypeOK'
  BY <1>1 DEF Ensure, Record, Crash, Fault, Goto, TypeOK, schemaVars
<1>2. ASSUME NEW i \in Instances, CreateTracking(i) PROVE TypeOK'
  BY <1>2 DEF CreateTracking, Goto, TypeOK
<1>3. ASSUME NEW i \in Instances, Check(i) PROVE TypeOK'
  <2>1. next[i] \in applied => next[i] + 1 \in 1..(Last + 1)
    BY <1>0 DEF TypeOK, All
  <2> QED
    BY <1>3, <2>1 DEF Check, Goto, TypeOK, schemaVars
<1>10. ASSUME NEW i \in Instances, Lock(i) PROVE TypeOK'
  <2>1. got \in [Instances -> Nat]
    BY DEF TypeOK
  <2>2. got' \in [Instances -> Nat]
    BY <1>10, <2>1 DEF Lock
  <2> QED
    BY <1>10, <2>2 DEF Lock, TypeOK, schemaVars
<1>11. ASSUME NEW i \in Instances, Victim(i) PROVE TypeOK'
  <2>1. got' \in [Instances -> Nat]
    BY <1>11 DEF Victim, TypeOK
  <2> QED
    BY <1>11, <2>1 DEF Victim, TypeOK, schemaVars
<1>4. ASSUME NEW i \in Instances, Run(i) PROVE TypeOK'
  <2>1. runs' \in [All -> Nat]
    <3>1. runs \in [All -> Nat] /\ next[i] \in All
      BY <1>4, AtMigration DEF Run, TypeOK
    <3> QED
      BY <1>4, <3>1 DEF Run
  <2>2. /\ stage' = [stage EXCEPT ![i] = "record"] \/ stage' = [stage EXCEPT ![i] = "failed"]
        /\ got' = [got EXCEPT ![i] = 0]
        /\ UNCHANGED <<next, net, scripted, starts, circled, tracking, applied, role>>
    BY <1>4 DEF Run, Goto
  <2>3. faults' \in Nat
    BY <1>4 DEF Run, Fault, TypeOK
  <2> QED
    BY <2>1, <2>2, <2>3 DEF TypeOK
<1>5. ASSUME NEW i \in Instances, Commit(i) PROVE TypeOK'
  <2>1. next[i] \in All
    BY <1>5, AtMigration DEF Commit
  <2>2. next[i] + 1 \in 1..(Last + 1)
    BY <1>0, <2>1 DEF All
  <2> QED
    BY <1>5, <2>1, <2>2, CommittedType DEF Commit, TypeOK
<1>6. ASSUME NEW i \in Instances, Fail(i) PROVE TypeOK'
  <2>1. CASE UNCHANGED <<schemaVars, role>>
    BY <1>6, <2>1 DEF Fail, Fault, Goto, TypeOK, schemaVars
  <2>2. CASE stage[i] = "commit" /\ Committed(next[i])
    <3>1. next[i] \in All
      BY <2>2, AtMigration
    <3> QED
      BY <1>6, <2>2, <3>1, CommittedType DEF Fail, Fault, Goto, TypeOK
  <2> QED
    BY <1>6, <2>1, <2>2 DEF Fail
<1>7. ASSUME NEW i \in Instances, Start(i) \/ Boot(i) PROVE TypeOK'
  BY <1>0, <1>7 DEF Start, Boot, TypeOK, schemaVars
<1>8. ASSUME NEW u \in Users, NEW r \in Roles, WriteRole(u, r) PROVE TypeOK'
  BY <1>8 DEF WriteRole, TypeOK, runnerVars, schemaVars
<1>9. CASE UNCHANGED vars
  BY <1>9 DEF TypeOK, vars, runnerVars, schemaVars
<1> QED
  BY <1>1, <1>2, <1>3, <1>4, <1>5, <1>6, <1>7, <1>8, <1>9, <1>10, <1>11 DEF Next, RunnerStep

-----------------------------------------------------------------------------
\* The tables when a transaction of an instance commits: no other instance is
\* about to commit the same migration.
LEMMA CommitsAlone ==
    ASSUME TypeOK, RunnerInv, NEW i \in Instances, stage[i] = "commit"
    PROVE  /\ next[i] \in All /\ next[i] \notin applied
           /\ \A k \in Instances \ {i} : stage[k] = "commit" => next[k] # next[i]
<1>1. next[i] \in All
  BY AtMigration
<1> QED
  BY <1>1 DEF RunnerInv

LEMMA RunnerInvStep == TypeOK /\ RunnerInv /\ [Next]_vars => RunnerInv'
<1> SUFFICES ASSUME TypeOK, RunnerInv, [Next]_vars PROVE RunnerInv'
  OBVIOUS
<1>0. /\ Last \in Nat
      /\ next \in [Instances -> 1..(Last + 1)]
      /\ stage \in [Instances -> {"off", "ensure", "create", "check", "run", "record", "commit",
                                  "done", "failed", "serving"}]
  BY MigrationsAssumption DEF TypeOK
<1>1. ASSUME NEW i \in Instances, Ensure(i) \/ CreateTracking(i) PROVE RunnerInv'
  BY <1>0, <1>1 DEF RunnerInv, Active, Ensure, CreateTracking, Goto, schemaVars
<1>2. ASSUME NEW i \in Instances, Crash(i) PROVE RunnerInv'
  BY <1>0, <1>2 DEF RunnerInv, Active, Crash, Goto, schemaVars
<1>3. ASSUME NEW i \in Instances, Check(i) PROVE RunnerInv'
  BY <1>0, <1>3 DEF Check, Goto, RunnerInv, Active, schemaVars
<1>4. ASSUME NEW i \in Instances, Run(i) PROVE RunnerInv'
  BY <1>0, <1>4 DEF Run, Goto, RunnerInv, Active
<1>5. ASSUME NEW i \in Instances, Record(i) PROVE RunnerInv'
  BY <1>0, <1>5 DEF Record, Goto, RunnerInv, Active, schemaVars
<1>6. ASSUME NEW i \in Instances, Commit(i) PROVE RunnerInv'
  BY <1>0, <1>6, CommitsAlone DEF Commit, Committed, RunnerInv, Active
<1>7. ASSUME NEW i \in Instances, Fail(i) PROVE RunnerInv'
  BY <1>0, <1>7, CommitsAlone DEF Fail, Goto, Committed, RunnerInv, Active, schemaVars
<1>8. ASSUME NEW i \in Instances, Start(i) \/ Boot(i) PROVE RunnerInv'
  BY <1>0, <1>8 DEF Start, Boot, RunnerInv, Active, schemaVars
<1>9. ASSUME NEW u \in Users, NEW r \in Roles, WriteRole(u, r) PROVE RunnerInv'
  BY <1>9 DEF WriteRole, RunnerInv, Active, runnerVars, schemaVars
<1>10. CASE UNCHANGED vars
  BY <1>10 DEF RunnerInv, Active, vars, runnerVars, schemaVars
<1>11. ASSUME NEW i \in Instances, Lock(i) PROVE RunnerInv'
  BY <1>11 DEF Lock, RunnerInv, Active, schemaVars
<1>12. ASSUME NEW i \in Instances, Victim(i) PROVE RunnerInv'
  BY <1>0, <1>12 DEF Victim, RunnerInv, Active, schemaVars
<1> QED
  BY <1>1, <1>2, <1>3, <1>4, <1>5, <1>6, <1>7, <1>8, <1>9, <1>10, <1>11, <1>12
     DEF Next, RunnerStep

LEMMA RunnerInitially == Init => TypeOK /\ RunnerInv
<1> SUFFICES ASSUME Init PROVE TypeOK /\ RunnerInv
  OBVIOUS
<1>1. Last \in Nat \ {0} /\ Split \in 2..Last
  BY MigrationsAssumption
<1>2. applied \subseteq All
  BY <1>1 DEF Init, All
<1>3. role \in [Users -> Roles \cup {"none"}]
  BY DEF Init, Roles
<1>4. TypeOK
  <2>1. runs \in [All -> Nat]
    BY DEF Init
  <2>2. next \in [Instances -> 1..(Last + 1)]
    BY <1>1 DEF Init
  <2>3. tracking \in BOOLEAN
    BY DEF Init
  <2> QED
    BY <1>2, <1>3, <2>1, <2>2, <2>3 DEF Init, TypeOK
<1>5. RunnerInv
  <2>1. \A i \in Instances : stage[i] = "off"
    BY DEF Init
  <2> QED
    BY <2>1 DEF RunnerInv, Active
<1> QED
  BY <1>4, <1>5

\* Every variable keeps its type: no runner steps past the end of the list.
THEOREM TypeCorrect == Spec => []TypeOK
BY RunnerInitially, TypeStep, RunnerInvStep, PTL DEF Spec

\* The place a runner is at tells which rows are there, and which one is not.
THEOREM RunnerTheorem == Spec => []RunnerInv
BY RunnerInitially, TypeStep, RunnerInvStep, PTL DEF Spec

-----------------------------------------------------------------------------
(***************************************************************************)
(* Migrations are applied in order and once.                               *)
(***************************************************************************)

\* Only commits write the tables: the row of the next migration with its
\* effects, and no row that is there.
LEMMA RowsStep ==
    ASSUME TypeOK, RunnerInv, [Next]_vars
    PROVE  \/ applied' = applied
           \/ \E m \in All \ applied : 1..(m - 1) \subseteq applied /\ Committed(m)
<1>1. ASSUME NEW i \in Instances, stage[i] = "commit", Committed(next[i])
      PROVE  \E m \in All \ applied : 1..(m - 1) \subseteq applied /\ Committed(m)
  <2>1. next[i] \in All \ applied
    BY <1>1, CommitsAlone
  <2>2. 1..(next[i] - 1) \subseteq applied
    BY <1>1 DEF RunnerInv, Active
  <2> QED
    BY <1>1, <2>1, <2>2
<1>2. ASSUME NEW i \in Instances, RunnerStep(i) \/ Fail(i) \/ Start(i) \/ Boot(i) \/ Crash(i)
      PROVE  applied' = applied \/ (stage[i] = "commit" /\ Committed(next[i]))
  BY <1>2 DEF RunnerStep, Ensure, CreateTracking, Check, Lock, Run, Victim, Record, Commit, Fail,
     Start, Boot, Crash, schemaVars
<1>3. ASSUME NEW u \in Users, NEW r \in Roles, WriteRole(u, r) PROVE applied' = applied
  BY <1>3 DEF WriteRole, schemaVars
<1>4. CASE UNCHANGED vars
  BY <1>4 DEF vars, schemaVars
<1> QED
  BY <1>1, <1>2, <1>3, <1>4 DEF Next

InOrder == \E k \in 0..Last : applied = 1..k

LEMMA InOrderStep == TypeOK /\ RunnerInv /\ InOrder /\ [Next]_vars => InOrder'
<1> SUFFICES ASSUME TypeOK, RunnerInv, InOrder, [Next]_vars PROVE InOrder'
  OBVIOUS
<1>1. CASE applied' = applied
  BY <1>1 DEF InOrder
<1>2. ASSUME NEW m \in All \ applied, 1..(m - 1) \subseteq applied, Committed(m) PROVE InOrder'
  <2>1. Last \in Nat /\ m \in 1..Last /\ applied' = applied \cup {m}
    BY <1>2, MigrationsAssumption DEF All, Committed
  <2>2. PICK k \in 0..Last : applied = 1..k
    BY DEF InOrder
  <2>3. k = m - 1
    BY <1>2, <2>1, <2>2
  <2>4. applied' = 1..m
    BY <2>1, <2>2, <2>3
  <2> QED
    BY <2>1, <2>4 DEF InOrder
<1> QED
  BY <1>1, <1>2, RowsStep

\* A runner that ends well has seen the last row.
DoneInv == \A i \in Instances : stage[i] = "done" => applied = All

LEMMA DoneStep == TypeOK /\ RunnerInv /\ DoneInv /\ [Next]_vars => DoneInv'
<1> SUFFICES ASSUME TypeOK, RunnerInv, DoneInv, [Next]_vars, NEW i \in Instances,
                    stage'[i] = "done"
             PROVE  applied' = All
  BY DEF DoneInv
<1>1. applied \subseteq applied' /\ applied' \subseteq All
  BY RowsStep, TypeStep DEF Committed, TypeOK
<1>2. CASE stage[i] = "done"
  BY <1>1, <1>2 DEF DoneInv
<1>3. CASE stage[i] # "done"
  <2>1. stage[i] = "check" /\ next[i] > Last
    <3>1. ASSUME NEW k \in Instances, Check(k) PROVE <2>1
      BY <1>3, <3>1 DEF Check, Goto, TypeOK
    <3>2. ASSUME NEW k \in Instances,
                 \/ Ensure(k) \/ CreateTracking(k) \/ Lock(k) \/ Run(k) \/ Victim(k)
                 \/ Record(k) \/ Commit(k) \/ Fail(k)
          PROVE  FALSE
      BY <1>3, <3>2 DEF Ensure, CreateTracking, Lock, Run, Victim, Record, Commit, Fail, Goto, TypeOK
    <3>3. ASSUME NEW k \in Instances, Start(k) \/ Boot(k) \/ Crash(k) PROVE FALSE
      BY <1>3, <3>3 DEF Start, Boot, Crash, Goto, TypeOK
    <3>4. ASSUME NEW u \in Users, NEW r \in Roles, WriteRole(u, r) PROVE FALSE
      BY <1>3, <3>4 DEF WriteRole, runnerVars
    <3>5. CASE UNCHANGED vars
      BY <1>3, <3>5 DEF vars, runnerVars
    <3> QED
      BY <3>1, <3>2, <3>3, <3>4, <3>5 DEF Next, RunnerStep
  <2>2. 1..(next[i] - 1) \subseteq applied
    BY <2>1 DEF RunnerInv, Active
  <2>3. All \subseteq applied
    <3>1. Last \in Nat /\ next[i] \in 1..(Last + 1)
      BY MigrationsAssumption DEF TypeOK
    <3> QED
      BY <2>1, <2>2, <3>1 DEF All
  <2> QED
    BY <1>1, <2>3
<1> QED
  BY <1>2, <1>3

\* Migrations are applied in order without a gap, for any number of containers
\* and whatever fails, and a run that ends well has applied all of them.
THEOREM OrderTheorem == Spec => []AppliedInOrder
<1>1. Init => InOrder /\ DoneInv
  <2> SUFFICES ASSUME Init PROVE InOrder /\ DoneInv
    OBVIOUS
  <2>1. applied = 1..0 \/ applied = 1..(Split - 1)
    BY DEF Init
  <2>2. Last \in Nat \ {0} /\ Split - 1 \in 0..Last /\ 0 \in 0..Last
    BY MigrationsAssumption
  <2>3. InOrder
    BY <2>1, <2>2 DEF InOrder
  <2> QED
    BY <2>3 DEF Init, DoneInv
<1>2. InOrder /\ DoneInv => AppliedInOrder
  BY DEF InOrder, DoneInv, AppliedInOrder
<1> QED
  BY <1>1, <1>2, RunnerInitially, TypeStep, RunnerInvStep, InOrderStep, DoneStep, PTL DEF Spec

\* The effects of a migration are committed exactly when it is recorded, and once.
THEOREM OnceTheorem == Spec => []ExactlyOnce
<1>1. Init => ExactlyOnce
  BY DEF Init, ExactlyOnce
<1>2. TypeOK /\ RunnerInv /\ ExactlyOnce /\ [Next]_vars => ExactlyOnce'
  <2> SUFFICES ASSUME TypeOK, RunnerInv, ExactlyOnce, [Next]_vars PROVE ExactlyOnce'
    OBVIOUS
  <2>0. runs \in [All -> Nat]
    BY DEF TypeOK
  <2>1. CASE applied' = applied
    <3>1. \A m \in All \ SelfCommitting : runs'[m] = runs[m]
      <4>1. ASSUME NEW i \in Instances, Run(i) PROVE <3>1
        BY <2>0, <4>1 DEF Run
      <4>2. ASSUME NEW i \in Instances, Commit(i) \/ (stage[i] = "commit" /\ Committed(next[i]))
            PROVE  FALSE
        BY <2>1, <4>2, CommitsAlone DEF Commit, Committed
      <4>3. ASSUME NEW i \in Instances,
                   \/ Ensure(i) \/ CreateTracking(i) \/ Check(i) \/ Lock(i) \/ Victim(i)
                   \/ Record(i) \/ Fail(i) \/ Start(i) \/ Boot(i) \/ Crash(i)
            PROVE  <3>1
        BY <4>2, <4>3 DEF Ensure, CreateTracking, Check, Lock, Victim, Record, Fail, Start, Boot,
           Crash, schemaVars
      <4>4. ASSUME NEW u \in Users, NEW r \in Roles, WriteRole(u, r) PROVE <3>1
        BY <4>4 DEF WriteRole, schemaVars
      <4>5. CASE UNCHANGED vars
        BY <4>5 DEF vars, schemaVars
      <4> QED
        BY <4>1, <4>2, <4>3, <4>4, <4>5 DEF Next, RunnerStep
    <3> QED
      BY <2>1, <3>1 DEF ExactlyOnce
  <2>2. ASSUME NEW m \in All \ applied, Committed(m) PROVE ExactlyOnce'
    BY <2>0, <2>2 DEF Committed, ExactlyOnce
  <2> QED
    BY <2>1, <2>2, RowsStep
<1> QED
  BY <1>1, <1>2, RunnerInitially, TypeStep, RunnerInvStep, PTL DEF Spec

\* Once the split is recorded, no runner touches a role again.
THEOREM AdminsTheorem == Spec => AdminsKept
<1>1. TypeOK /\ RunnerInv /\ [Next]_vars =>
          [(Split \in applied) /\ runnerVars' # runnerVars => role' = role]_vars
  <2> SUFFICES ASSUME TypeOK, RunnerInv, [Next]_vars, Split \in applied, runnerVars' # runnerVars
               PROVE  role' = role
    OBVIOUS
  <2>1. ASSUME NEW i \in Instances, stage[i] = "commit", Committed(next[i]) PROVE role' = role
    BY <2>1, CommitsAlone DEF Committed
  <2>2. ASSUME NEW i \in Instances, RunnerStep(i) \/ Fail(i) \/ Start(i) \/ Boot(i) \/ Crash(i)
        PROVE  role' = role
    BY <2>1, <2>2 DEF RunnerStep, Ensure, CreateTracking, Check, Lock, Run, Victim, Record, Commit,
       Fail, Start, Boot, Crash
  <2>3. ASSUME NEW u \in Users, NEW r \in Roles, WriteRole(u, r) PROVE FALSE
    BY <2>3 DEF WriteRole
  <2> QED
    BY <2>2, <2>3 DEF Next, vars
<1> QED
  BY <1>1, RunnerInitially, TypeStep, RunnerInvStep, PTL DEF Spec, AdminsKept
-----------------------------------------------------------------------------
(***************************************************************************)
(* Runners that start together disturb each other, and one completes.      *)
(***************************************************************************)

\* A runner that no row and no table of another one will stop.
Leads(i) == \/ stage[i] \in {"ensure", "check"}
            \/ stage[i] = "create" /\ ~tracking
            \/ stage[i] \in {"run", "record", "commit"} /\ next[i] \notin applied

\* While nothing has failed and no circle was broken, a runner loses its lead only
\* to one that takes it.
LeaderInv == faults = 0 /\ ~circled /\ scripted # {} /\ applied # All => \E i \in Instances : Leads(i)

\* A step of a runner that leads leaves it in the lead, or the list is complete.
LEMMA LeaderRuns ==
    ASSUME TypeOK, RunnerInv, NEW i \in Instances, Leads(i), RunnerStep(i), ~circled',
           applied # All
    PROVE  Leads(i)'
<1>0. stage \in [Instances -> {"off", "ensure", "create", "check", "run", "record", "commit",
                               "done", "failed", "serving"}]
  BY DEF TypeOK
<1>1. CASE Ensure(i)
  BY <1>0, <1>1 DEF Ensure, Goto, Leads, schemaVars
<1>2. CASE CreateTracking(i)
  BY <1>0, <1>2 DEF CreateTracking, Goto, Leads
<1>3. CASE Check(i)
  <2>1. next[i] <= Last
    <3>1. SUFFICES ASSUME next[i] > Last PROVE FALSE
      BY MigrationsAssumption DEF TypeOK
    <3>2. 1..(next[i] - 1) \subseteq applied
      BY <1>3 DEF Check, RunnerInv, Active
    <3>3. All \subseteq applied
      <4>1. Last \in Nat /\ next[i] \in 1..(Last + 1)
        BY MigrationsAssumption DEF TypeOK
      <4> QED
        BY <3>1, <3>2, <4>1 DEF All
    <3> QED
      BY <3>3 DEF TypeOK
  <2>2. ~(next[i] > Last)
    BY <2>1, MigrationsAssumption DEF TypeOK
  <2> QED
    BY <1>0, <1>3, <2>2 DEF Check, Goto, Leads, schemaVars
<1>4. CASE Run(i)
  BY <1>0, <1>4 DEF Run, Goto, Leads
<1>5. CASE Record(i)
  BY <1>0, <1>5 DEF Record, Goto, Leads, schemaVars
<1>6. CASE Commit(i)
  BY <1>0, <1>6 DEF Commit, Leads
<1>7. CASE Lock(i)
  BY <1>7 DEF Lock, Leads, schemaVars
<1>8. CASE Victim(i)
  BY <1>8 DEF Victim
<1> QED
  BY <1>1, <1>2, <1>3, <1>4, <1>5, <1>6, <1>7, <1>8 DEF RunnerStep

\* The step of another: only the one that creates the table, or commits the
\* migration the leader is at, takes the lead.
LEMMA LeaderYields ==
    ASSUME TypeOK, NEW i \in Instances, Leads(i), NEW k \in Instances \ {i},
           RunnerStep(k) \/ Start(k) \/ Boot(k), ~circled'
    PROVE  Leads(i)' \/ Leads(k)'
<1>0. /\ stage \in [Instances -> {"off", "ensure", "create", "check", "run", "record", "commit",
                                  "done", "failed", "serving"}]
      /\ next \in [Instances -> 1..(Last + 1)]
  BY DEF TypeOK
<1>1. CASE Ensure(k) \/ Check(k) \/ Record(k)
  BY <1>0, <1>1 DEF Ensure, Check, Record, Goto, Leads, schemaVars
<1>2. CASE Run(k)
  BY <1>0, <1>2 DEF Run, Goto, Leads
<1>3. CASE CreateTracking(k)
  BY <1>0, <1>3 DEF CreateTracking, Goto, Leads
<1>4. CASE Commit(k)
  BY <1>0, <1>4 DEF Commit, Leads
<1>5. CASE Start(k) \/ Boot(k)
  BY <1>0, <1>5 DEF Start, Boot, Leads, schemaVars
<1>6. CASE Lock(k)
  BY <1>6 DEF Lock, Leads, schemaVars
<1>7. CASE Victim(k)
  BY <1>7 DEF Victim
<1> QED
  BY <1>1, <1>2, <1>3, <1>4, <1>5, <1>6, <1>7 DEF RunnerStep

LEMMA LeaderStep == TypeOK /\ RunnerInv /\ LeaderInv /\ [Next]_vars => LeaderInv'
<1> SUFFICES ASSUME TypeOK, RunnerInv, LeaderInv, [Next]_vars,
                    faults' = 0, ~circled', scripted' # {}, applied' # All
             PROVE  (\E i \in Instances : Leads(i))'
  BY DEF LeaderInv
<1>0. stage \in [Instances -> {"off", "ensure", "create", "check", "run", "record", "commit",
                               "done", "failed", "serving"}]
  BY DEF TypeOK
<1>1. applied # All
  BY RowsStep, TypeStep DEF Committed, TypeOK
<1>2. ASSUME NEW i \in Instances, RunnerStep(i) \/ Start(i) \/ Boot(i), scripted' = scripted
      PROVE  (\E k \in Instances : Leads(k))'
  <2>1. faults = 0 /\ ~circled
    <3>1. \A m \in Nat : faults = m => faults' = m \/ faults' = m + 1
      BY <1>2 DEF RunnerStep, Ensure, CreateTracking, Check, Lock, Run, Victim, Record, Commit,
         Start, Boot, Fault
    <3>2. circled' = circled
      BY <1>2 DEF RunnerStep, Ensure, CreateTracking, Check, Lock, Run, Victim, Record, Commit,
         Start, Boot, Goto
    <3> QED
      BY <3>1, <3>2 DEF TypeOK
  <2>2. PICK k \in Instances : Leads(k)
    BY <1>1, <1>2, <2>1 DEF LeaderInv
  <2>3. CASE k # i
    BY <1>2, <2>2, <2>3, LeaderYields
  <2>4. CASE k = i /\ RunnerStep(i)
    BY <1>1, <2>2, <2>4, LeaderRuns
  <2>5. CASE k = i /\ (Start(i) \/ Boot(i))
    BY <2>2, <2>5 DEF Start, Boot, Leads
  <2> QED
    BY <1>2, <2>3, <2>4, <2>5
<1>3. ASSUME NEW i \in Instances, Start(i), scripted' # scripted
      PROVE  (\E k \in Instances : Leads(k))'
  <2>1. stage'[i] = "ensure"
    BY <1>0, <1>3 DEF Start
  <2> QED
    BY <2>1 DEF Leads
<1>4. ASSUME NEW i \in Instances, RunnerStep(i) \/ Boot(i) PROVE scripted' = scripted
  BY <1>4 DEF RunnerStep, Ensure, CreateTracking, Check, Lock, Run, Victim, Record, Commit, Boot,
     Goto
<1>5. ASSUME NEW i \in Instances, Fail(i) \/ Crash(i) PROVE FALSE
  BY <1>5 DEF Fail, Crash, Fault, TypeOK
<1>6. ASSUME NEW u \in Users, NEW r \in Roles, WriteRole(u, r)
      PROVE  (\E k \in Instances : Leads(k))'
  BY <1>1, <1>6 DEF WriteRole, runnerVars, schemaVars, LeaderInv, Leads
<1>7. CASE UNCHANGED vars
  BY <1>1, <1>7 DEF vars, runnerVars, schemaVars, LeaderInv, Leads
<1> QED
  BY <1>2, <1>3, <1>4, <1>5, <1>6, <1>7 DEF Next

\* When nothing fails, no circle of waiting runners had to be broken and the
\* script of one container ran the migrations, every migration is applied once all
\* runners have ended, however many there were.
THEOREM CompletesTheorem == Spec => []SomebodyCompletes
<1>1. Init => LeaderInv
  BY DEF Init, LeaderInv
<1>2. LeaderInv => SomebodyCompletes
  BY DEF LeaderInv, SomebodyCompletes, Leads, Active
<1> QED
  BY <1>1, <1>2, RunnerInitially, TypeStep, RunnerInvStep, LeaderStep, PTL DEF Spec
=============================================================================
