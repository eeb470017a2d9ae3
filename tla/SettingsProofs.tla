---------------------------- MODULE SettingsProofs ----------------------------
(***************************************************************************)
(* Theorems of SettingsStore and SecretStore, for any processes, requests, *)
(* settings, secrets and keys.                                             *)
(***************************************************************************)
EXTENDS SettingsStore, SecretStore, TLAPS

LEMMA MergeType == ASSUME NEW base \in Settings, NEW u \in Updates PROVE Merge(base, u) \in Settings
BY DEF Merge, Settings, Updates

LEMMA TypeStep == TypeOK /\ [Next]_vars => TypeOK'
<1> SUFFICES ASSUME TypeOK, [Next]_vars PROVE TypeOK'
  OBVIOUS
<1> USE DEF TypeOK, ThreadsTypeOK, threads
<1>1. ASSUME NEW r \in Requests, BeginPut(r) PROVE TypeOK'
  BY <1>1 DEF BeginPut
<1>2. ASSUME NEW r \in Requests, BeginGet(r) PROVE TypeOK'
  BY <1>2 DEF BeginGet
<1>3. ASSUME NEW r \in Requests, LoadRow(r) PROVE TypeOK'
  BY <1>3 DEF LoadRow, Fault
<1>4. ASSUME NEW r \in Requests, CacheRow(r) PROVE TypeOK'
  BY <1>4 DEF CacheRow, AfterLoad
<1>5. ASSUME NEW r \in Requests, Recall(r) \/ Reread(r) PROVE TypeOK'
  BY <1>5 DEF Recall, Reread, ReadMemory, AfterLoad
<1>6. ASSUME NEW r \in Requests, Restore(r) PROVE TypeOK'
  BY <1>6 DEF Restore
<1>7. ASSUME NEW r \in Requests, Save(r) PROVE TypeOK'
  <2>1. Merge(local[r], update[r]) \in Settings
    BY MergeType
  <2> QED
    BY <1>7, <2>1 DEF Save, Fault
<1>8. ASSUME NEW r \in Requests, Hold(r) PROVE TypeOK'
  BY <1>8 DEF Hold
<1>9. ASSUME NEW p \in Procs, Restart(p) PROVE TypeOK'
  BY <1>9, SettingsAssumption DEF Restart, Settings, Replaced
<1>10. CASE UNCHANGED vars
  BY <1>10 DEF vars, threads
<1> QED
  BY <1>1, <1>2, <1>3, <1>4, <1>5, <1>6, <1>7, <1>8, <1>9, <1>10 DEF Next, Step

LEMMA TypeInitially == Init => TypeOK
<1> SUFFICES ASSUME Init PROVE TypeOK
  OBVIOUS
<1>1. /\ row = {} /\ restarts \in Nat /\ fails \in Nat /\ overlapped \in BOOLEAN
      /\ host \in [Requests -> Procs]
  BY DEF Init, ThreadsInit
<1>2. memory \in [Procs -> Settings] /\ local \in [Requests -> Settings]
  BY SettingsAssumption DEF Init, Settings, ThreadsInit
<1>3. update \in [Requests -> Updates]
  BY DEF Init, Updates, ThreadsInit
<1> QED
  BY <1>1, <1>2, <1>3 DEF Init, TypeOK, ThreadsInit, ThreadsTypeOK

\* Every variable keeps its type, whatever fails and whoever overlaps: the row
\* and every copy are complete settings, never an update with fields missing.
THEOREM TypeCorrect == Spec => []TypeOK
BY TypeInitially, TypeStep, PTL DEF Spec

-----------------------------------------------------------------------------
(***************************************************************************)
(* As long as the database answers and PUTs come one at a time.            *)
(***************************************************************************)
Updating(r) == InFlight(r) /\ r \notin answering

\* A request is a PUT before it answers, and the only one; while the row is
\* missing everybody holds the defaults; the thread that will save holds what is
\* stored.
RowInv ==
    /\ \A r \in Requests : Updating(r) => r \in put
    /\ \A r \in Requests : at[r] = "idle" => r \notin put /\ r \notin answering
    /\ \A r, s \in put : InFlight(r) /\ InFlight(s) => r = s
    /\ \A r \in Requests : at[r] \in {"save", "hold"} => r \notin answering
    /\ \A r \in Requests : at[r] = "answered" => r \in answering
    /\ row = {} => /\ \A p \in Procs : memory[p] = Default
                   /\ \A r \in Requests : at[r] = "restore" => local[r] = Default
    /\ \A r \in Requests : at[r] \in {"found", "hold"} => row # {}
    /\ \A r \in Requests : Updating(r) /\ at[r] \in {"recall", "restore", "reread"} => row = {}
    /\ \A r \in Requests \ answering : at[r] \in {"found", "save"} => local[r] = Stored

\* The updates of the PUTs that have saved are stored where nobody else wrote.
Saved(r) == at[r] = "hold" \/ r \in answering
KeptInv == \A r \in put : Saved(r) =>
               \A f \in Fields : update[r][f] # Keep /\ Alone(r, f) => Stored[f] = update[r][f]

LEMMA StoredRow == ASSUME NEW payload, row = {payload} PROVE Stored = payload
BY DEF Stored

LEMMA StoredType == ASSUME TypeOK PROVE Stored \in Settings
BY SettingsAssumption DEF TypeOK, Stored, Settings, ThreadsTypeOK

\* What is calm was calm before.
LEMMA CalmStep ==
    ASSUME TypeOK, [Next]_vars, Calm'
    PROVE  /\ Calm /\ fails' = fails
           /\ \A r \in Requests : BeginPut(r) => \A s \in put : ~InFlight(s)
<1>1. ASSUME NEW r \in Requests, BeginPut(r)
      PROVE  Calm /\ fails' = fails /\ \A s \in put : ~InFlight(s)
  BY <1>1 DEF BeginPut, Calm
<1>2. ASSUME NEW r \in Requests, LoadRow(r) \/ Save(r) PROVE Calm /\ fails' = fails
  <2>1. overlapped' = overlapped /\ (fails' = fails \/ fails' = fails + 1)
    BY <1>2 DEF LoadRow, Save, Fault
  <2>2. fails' # fails + 1
    BY DEF Calm, TypeOK, ThreadsTypeOK
  <2> QED
    BY <2>1, <2>2 DEF Calm
<1>3. ASSUME NEW r \in Requests,
             BeginGet(r) \/ CacheRow(r) \/ Recall(r) \/ Restore(r) \/ Reread(r) \/ Hold(r)
      PROVE  Calm /\ fails' = fails
  BY <1>3 DEF BeginGet, CacheRow, Recall, Reread, ReadMemory, Restore, Hold, Calm
<1>4. ASSUME NEW p \in Procs, Restart(p) PROVE Calm /\ fails' = fails
  BY <1>4 DEF Restart, Calm, Replaced
<1>5. ASSUME UNCHANGED vars PROVE Calm /\ fails' = fails
  BY <1>5 DEF vars, Calm, threads
<1>6. Calm /\ fails' = fails
  BY <1>1, <1>2, <1>3, <1>4, <1>5 DEF Next, Step
<1> QED
  BY <1>1, <1>6

LEMMA RowStep == Calm' /\ TypeOK /\ RowInv /\ [Next]_vars => RowInv'
<1> SUFFICES ASSUME Calm', TypeOK, RowInv, [Next]_vars PROVE RowInv'
  OBVIOUS
<1>0. /\ fails \in Nat /\ fails' = fails
      /\ \A r \in Requests : BeginPut(r) => \A s \in put : ~InFlight(s)
  BY CalmStep DEF TypeOK, ThreadsTypeOK
<1> USE DEF TypeOK, RowInv, Updating, InFlight, ThreadsTypeOK
<1>1. ASSUME NEW r \in Requests, BeginPut(r) PROVE RowInv'
  <2>1. \A s \in put : ~InFlight(s)
    BY <1>0, <1>1
  <2> QED
    BY <1>1, <2>1 DEF BeginPut, Stored
<1>2. ASSUME NEW r \in Requests, BeginGet(r) PROVE RowInv'
  BY <1>2 DEF BeginGet, Stored
<1>3. ASSUME NEW r \in Requests, LoadRow(r) PROVE RowInv'
  <2>1. CASE /\ local' = [local EXCEPT ![r] = Stored] /\ row # {}
             /\ at' = [at EXCEPT ![r] = "found"]
    BY <1>3, <2>1 DEF LoadRow, Stored
  <2>2. CASE row = {} /\ at' = [at EXCEPT ![r] = "recall"] /\ local' = local
    BY <1>3, <2>2 DEF LoadRow, Stored
  <2> QED
    BY <1>0, <1>3, <2>1, <2>2, StoredRow DEF LoadRow, Fault
<1>4. ASSUME NEW r \in Requests, CacheRow(r) PROVE RowInv'
  BY <1>4 DEF CacheRow, AfterLoad, Stored
<1>5. ASSUME NEW r \in Requests, Recall(r) \/ Reread(r) PROVE RowInv'
  BY <1>5 DEF Recall, Reread, ReadMemory, AfterLoad, Stored
<1>6. ASSUME NEW r \in Requests, Restore(r) PROVE RowInv'
  BY <1>6 DEF Restore, Stored
<1>7. ASSUME NEW r \in Requests, Save(r) PROVE RowInv'
  <2>1. /\ at[r] = "save" /\ at' = [at EXCEPT ![r] = "hold"]
        /\ row' = {Merge(local[r], update[r])}
        /\ local' = [local EXCEPT ![r] = Merge(local[r], update[r])]
        /\ UNCHANGED <<memory, put, answering, host, update>>
    BY <1>0, <1>7 DEF Save, Fault
  <2>2. \A s \in Requests : Updating(s) => s = r
    BY <2>1
  <2> QED
    BY <2>1, <2>2
<1>8. ASSUME NEW r \in Requests, Hold(r) PROVE RowInv'
  BY <1>8 DEF Hold, Stored
<1>9. ASSUME NEW p \in Procs, Restart(p) PROVE RowInv'
  BY <1>9 DEF Restart, Stored, Replaced
<1>10. CASE UNCHANGED vars
  BY <1>10 DEF vars, Stored, threads
<1> QED
  BY <1>1, <1>2, <1>3, <1>4, <1>5, <1>6, <1>7, <1>8, <1>9, <1>10 DEF Next, Step

LEMMA RowInitially == Init => TypeOK /\ RowInv /\ KeptInv
<1>1. Init => TypeOK
  BY TypeInitially
<1>2. Init => RowInv /\ KeptInv
  BY DEF Init, RowInv, KeptInv, Saved, Updating, InFlight, ThreadsInit
<1> QED
  BY <1>1, <1>2

\* A save applies its update to what is stored.
LEMMA SaveApplies ==
    ASSUME TypeOK, Calm', RowInv, NEW r \in Requests, Save(r), [Next]_vars
    PROVE  /\ at[r] = "save" /\ r \in put
           /\ at' = [at EXCEPT ![r] = "hold"]
           /\ UNCHANGED <<put, answering, update>>
           /\ Stored' = Merge(Stored, update[r])
<1>1. at[r] = "save" /\ r \in put /\ local[r] = Stored
  BY DEF Save, RowInv, Updating, InFlight
<1>2. row' = {Merge(local[r], update[r])}
  <2>1. fails \in Nat /\ fails' = fails
    BY CalmStep DEF TypeOK, ThreadsTypeOK
  <2> QED
    BY <2>1 DEF Save, Fault
<1>3. Stored' = Merge(local[r], update[r])
  BY <1>2 DEF Stored
<1>4. at' = [at EXCEPT ![r] = "hold"] /\ UNCHANGED <<put, answering, update>>
  BY DEF Save
<1> QED
  BY <1>1, <1>3, <1>4

\* Nothing else writes the row.
LEMMA OnlySaves ==
    ASSUME [Next]_vars, \A r \in Requests : ~Save(r)
    PROVE  row' = row
BY DEF Next, Step, BeginPut, BeginGet, LoadRow, CacheRow, Recall, Reread, ReadMemory, Restore,
       Hold, Restart, vars, Replaced, threads

LEMMA KeptStep == Calm' /\ TypeOK /\ RowInv /\ KeptInv /\ [Next]_vars => KeptInv'
<1> SUFFICES ASSUME Calm', TypeOK, RowInv, KeptInv, [Next]_vars,
                    NEW r \in put', Saved(r)', NEW f \in Fields,
                    update'[r][f] # Keep, Alone(r, f)'
             PROVE  Stored'[f] = update'[r][f]
  BY DEF KeptInv
<1>0. /\ r \in Requests /\ put \subseteq Requests /\ DOMAIN at = Requests
      /\ update \in [Requests -> Updates]
  <2>1. TypeOK'
    BY TypeStep
  <2> QED
    BY <2>1 DEF TypeOK, ThreadsTypeOK
<1>1. ASSUME NEW s \in Requests, Save(s) PROVE Stored'[f] = update'[r][f]
  <2>1. /\ at[s] = "save" /\ s \in put
        /\ at' = [at EXCEPT ![s] = "hold"]
        /\ UNCHANGED <<put, answering, update>>
        /\ Stored' = Merge(Stored, update[s])
    BY <1>1, SaveApplies
  <2>2. CASE r = s
    BY <1>0, <2>1, <2>2 DEF Merge
  <2>3. CASE r # s
    <3>1. Saved(r) /\ r \in put /\ Alone(r, f) /\ update[r][f] # Keep
      BY <1>0, <2>1, <2>3 DEF Saved, Alone
    <3>2. update[s][f] = Keep
      BY <2>1, <2>3, <3>1 DEF Alone
    <3> QED
      BY <2>1, <3>1, <3>2 DEF KeptInv, Merge
  <2> QED
    BY <2>2, <2>3
<1>2. CASE \A s \in Requests : ~Save(s)
  <2>1. Stored' = Stored
    <3>1. row' = row
      BY <1>2, OnlySaves
    <3> QED
      BY <3>1 DEF Stored
  <2>2. ASSUME NEW s \in Requests, BeginPut(s) PROVE r # s
    BY <1>0, <2>2 DEF BeginPut, Saved, RowInv
  <2>3. r \in put /\ Saved(r) /\ update'[r] = update[r] /\ Alone(r, f)
    <3>1. ASSUME NEW s \in Requests, BeginPut(s) PROVE <2>3
      <4>1. r # s /\ s \notin put
        BY <2>2, <3>1 DEF BeginPut, RowInv
      <4> QED
        BY <1>0, <3>1, <4>1 DEF BeginPut, Saved, Alone
    <3>2. ASSUME NEW s \in Requests, BeginGet(s) PROVE <2>3
      BY <1>0, <3>2 DEF BeginGet, Saved, Alone, RowInv
    <3>3. ASSUME NEW s \in Requests, \/ LoadRow(s) \/ CacheRow(s) \/ Recall(s) \/ Restore(s)
                                     \/ Reread(s)
          PROVE  <2>3
      <4>1. UNCHANGED <<put, answering, update>>
        BY <3>3 DEF LoadRow, CacheRow, Recall, Restore, Reread, ReadMemory
      <4>2. at'[r] = "hold" => at[r] = "hold"
        BY <1>0, <3>3 DEF LoadRow, CacheRow, Recall, Restore, Reread, ReadMemory, AfterLoad
      <4> QED
        BY <4>1, <4>2 DEF Saved, Alone
    <3>4. ASSUME NEW s \in Requests, Hold(s) PROVE <2>3
      BY <1>0, <3>4 DEF Hold, Saved, Alone
    <3>5. ASSUME NEW p \in Procs, Restart(p) PROVE <2>3
      BY <1>0, <3>5 DEF Restart, Saved, Alone, Replaced
    <3>6. CASE UNCHANGED vars
      BY <3>6 DEF vars, Saved, Alone, threads
    <3> QED
      BY <1>2, <3>1, <3>2, <3>3, <3>4, <3>5, <3>6 DEF Next, Step
  <2> QED
    BY <2>1, <2>3 DEF KeptInv
<1> QED
  BY <1>1, <1>2

\* A PUT that is being answered has its row, so that it loads what is stored; what
\* it has loaded shows its update.
AnswerInv ==
    \A r \in put \cap answering :
        /\ row # {} /\ at[r] \notin {"recall", "restore", "reread"}
        /\ at[r] \in {"found", "answered"} =>
               \A f \in Fields : update[r][f] # Keep /\ Alone(r, f) => local[r][f] = update[r][f]

\* Once the update of a request has been stored, it keeps it and its fields alone.
LEMMA AnswerKeeps ==
    ASSUME TypeOK, RowInv, [Next]_vars, NEW r \in put \cap answering
    PROVE  /\ update'[r] = update[r]
           /\ \A f \in Fields : Alone(r, f)' => Alone(r, f)
<1>0. r \in put /\ r \in answering /\ r \in Requests /\ update \in [Requests -> Updates]
  BY DEF TypeOK
<1>1. ASSUME NEW s \in Requests, BeginPut(s)
      PROVE  /\ r # s /\ s \notin put /\ put' = put \cup {s}
             /\ \A q \in put : update'[q] = update[q]
  <2>1. s \notin put /\ put' = put \cup {s}
    BY <1>1 DEF BeginPut, RowInv
  <2>2. \A q \in Requests : q # s => update'[q] = update[q]
    BY <1>0, <1>1 DEF BeginPut
  <2> QED
    BY <1>0, <2>1, <2>2 DEF TypeOK
<1>2. CASE \A s \in Requests : ~BeginPut(s)
  <2>1. update' = update /\ put' = put
    BY <1>2 DEF Next, Step, BeginGet, LoadRow, CacheRow, Recall, Reread, ReadMemory, Restore,
                Save, Hold, Restart, vars
  <2> QED
    BY <2>1 DEF Alone
<1>3. ASSUME NEW s \in Requests, BeginPut(s), NEW f \in Fields, Alone(r, f)' PROVE Alone(r, f)
  BY <1>1, <1>3 DEF Alone
<1> QED
  BY <1>0, <1>1, <1>2, <1>3

LEMMA AnswerStep ==
    ASSUME Calm', TypeOK, RowInv, KeptInv, AnswerInv, [Next]_vars
    PROVE  AnswerInv'
<1>0. /\ fails \in Nat /\ fails' = fails
      /\ put \subseteq Requests /\ local \in [Requests -> Settings]
      /\ at \in [Requests -> {"idle", "load", "found", "recall", "restore", "reread",
                              "save", "hold", "answered", "gone"}]
  BY CalmStep DEF TypeOK, ThreadsTypeOK
<1> DEFINE Shows(r) == \A f \in Fields : update[r][f] # Keep /\ Alone(r, f)
                                           => local[r][f] = update[r][f]
<1>1. row # {} => row' # {}
  BY <1>0 DEF Next, Step, BeginPut, BeginGet, LoadRow, CacheRow, Recall, Reread, ReadMemory,
              Restore, Save, Fault, Hold, Restart, vars
\* Who answers has answered before, or has just saved.
<1>2. ASSUME NEW r \in put' \cap answering'
      PROVE  \/ r \in put \cap answering
             \/ Hold(r) /\ r \in put
  <2>1. CASE \E s \in Requests : BeginPut(s) \/ BeginGet(s)
    BY <2>1 DEF BeginPut, BeginGet, RowInv
  <2>2. CASE \E s \in Requests : Hold(s)
    BY <2>2 DEF Hold
  <2>3. CASE UNCHANGED <<put, answering>>
    BY <2>3
  <2> QED
    BY <2>1, <2>2, <2>3 DEF Next, Step, LoadRow, CacheRow, Recall, Reread, ReadMemory, Restore,
                            Save, Restart, vars
<1>3. ASSUME NEW r \in Requests, Hold(r)
      PROVE  row' # {} /\ at'[r] = "load"
  BY <1>0, <1>3 DEF Hold, RowInv
<1>4. ASSUME NEW r \in put \cap answering
      PROVE  /\ at'[r] \notin {"recall", "restore", "reread"}
             /\ at'[r] \in {"found", "answered"} => Shows(r)'
  <2>0. r \in Requests /\ row # {} /\ at[r] \notin {"recall", "restore", "reread", "save", "hold"}
    BY <1>0 DEF AnswerInv, RowInv
  <2>1. update'[r] = update[r] /\ \A f \in Fields : Alone(r, f)' => Alone(r, f)
    BY AnswerKeeps
  <2>2. CASE LoadRow(r)
    <3>1. local'[r] = Stored /\ at'[r] = "found"
      BY <1>0, <2>0, <2>2 DEF LoadRow, Fault, TypeOK, Stored
    <3>2. Saved(r)
      BY DEF Saved
    <3> QED
      BY <2>1, <3>1, <3>2 DEF KeptInv
  <2>3. CASE CacheRow(r)
    <3>1. at[r] = "found" /\ at'[r] = "answered" /\ local' = local
      BY <1>0, <2>3 DEF CacheRow, AfterLoad
    <3> QED
      BY <2>1, <3>1 DEF AnswerInv
  <2>4. CASE ~LoadRow(r) /\ ~CacheRow(r)
    <3>1. local'[r] = local[r] /\ at'[r] \in {at[r], "load", "gone"}
      <4>1. ~Recall(r) /\ ~Reread(r) /\ ~Restore(r) /\ ~Save(r) /\ ~Hold(r)
        BY <2>0 DEF Recall, Reread, ReadMemory, Restore, Save, Hold
      <4>2. ASSUME NEW s \in Requests, s # r, Step(s) PROVE <3>1
        BY <1>0, <2>0, <4>2 DEF Step, LoadRow, CacheRow, Recall, Reread, ReadMemory, Restore,
                                Save, Hold
      <4>3. ASSUME NEW s \in Requests, BeginPut(s) \/ BeginGet(s) PROVE <3>1
        BY <1>0, <2>0, <4>3 DEF BeginPut, BeginGet
      <4>4. ASSUME NEW p \in Procs, Restart(p) PROVE <3>1
        BY <1>0, <2>0, <4>4 DEF Restart, Replaced
      <4>5. CASE UNCHANGED vars
        BY <4>5 DEF vars, threads
      <4> QED
        BY <2>4, <4>1, <4>2, <4>3, <4>4, <4>5 DEF Next, Step
    <3> QED
      BY <2>0, <2>1, <3>1 DEF AnswerInv
  <2> QED
    BY <2>2, <2>3, <2>4
<1> QED
  BY <1>0, <1>1, <1>2, <1>3, <1>4 DEF AnswerInv

CalmInv == Calm => RowInv /\ KeptInv /\ AnswerInv

LEMMA CalmInitially == Init => CalmInv
<1>1. Init => AnswerInv
  BY DEF Init, AnswerInv
<1> QED
  BY <1>1, RowInitially DEF CalmInv

LEMMA CalmInvStep == TypeOK /\ CalmInv /\ [Next]_vars => CalmInv'
BY CalmStep, RowStep, KeptStep, AnswerStep DEF CalmInv

\* A PUT about to save holds what is stored, whatever GETs and restarts do.
THEOREM HoldsTheorem == Spec => []HoldsStored
<1>1. CalmInv => HoldsStored
  BY DEF CalmInv, RowInv, HoldsStored
<1> QED
  BY <1>1, TypeInitially, CalmInitially, TypeStep, CalmInvStep, PTL DEF Spec

\* No answered update is lost.
THEOREM KeptTheorem == Spec => []UpdatesKept
<1>1. TypeOK /\ CalmInv => UpdatesKept
  BY DEF CalmInv, RowInv, KeptInv, Saved, UpdatesKept, ShownIn, TypeOK, ThreadsTypeOK
<1> QED
  BY <1>1, TypeInitially, CalmInitially, TypeStep, CalmInvStep, PTL DEF Spec

\* An answered PUT has been shown its own update.
THEOREM AnswerTheorem == Spec => []AnswerShowsUpdate
<1>1. TypeOK /\ CalmInv => AnswerShowsUpdate
  <2> SUFFICES ASSUME TypeOK, Calm, RowInv, AnswerInv PROVE ShownIn(local)
    BY DEF CalmInv, AnswerShowsUpdate
  <2>1. \A r \in put : at[r] = "answered" => r \in put \cap answering
    BY DEF RowInv, TypeOK
  <2> QED
    BY <2>1 DEF AnswerInv, ShownIn
<1> QED
  BY <1>1, TypeInitially, CalmInitially, TypeStep, CalmInvStep, PTL DEF Spec

\* And the row is one register: every step of the store applies the update of one
\* PUT that has not saved, or leaves the register alone.
THEOREM RegisterTheorem == Spec => RegisterPromise
<1>1. Init => Register!Init
  BY DEF Init, Register!Init, Stored, Pending, Updates, ThreadsInit
<1>2. TypeOK /\ CalmInv /\ [Next]_vars => [Calm' => Register!Next]_(Register!vars)
  <2> SUFFICES ASSUME TypeOK, RowInv, Calm', [Next]_vars PROVE [Register!Next]_(Register!vars)
    BY CalmStep DEF CalmInv
  <2>0. /\ put \subseteq Requests /\ update \in [Requests -> Updates]
        /\ at \in [Requests -> {"idle", "load", "found", "recall", "restore", "reread",
                                "save", "hold", "answered", "gone"}]
    BY DEF TypeOK, ThreadsTypeOK
  <2>1. ASSUME NEW r \in Requests, Save(r) PROVE Register!Apply(r)
    <3>1. /\ at[r] = "save" /\ r \in put
          /\ at' = [at EXCEPT ![r] = "hold"]
          /\ UNCHANGED <<put, answering, update>>
          /\ Stored' = Merge(Stored, update[r])
      BY <2>1, SaveApplies
    <3>2. r \notin answering
      BY <3>1 DEF RowInv
    <3>3. r \in Pending /\ Pending' = Pending \ {r}
      BY <2>0, <3>1, <3>2 DEF Pending, InFlight
    <3> QED
      BY <3>1, <3>3 DEF Register!Apply
  <2>2. CASE \A r \in Requests : ~Save(r)
    <3>1. Stored' = Stored
      <4>1. row' = row
        BY <2>2, OnlySaves
      <4> QED
        BY <4>1 DEF Stored
    <3>2. ASSUME NEW r \in Requests, BeginPut(r) PROVE Register!Ask(r)
      <4>1. PICK u \in Updates : update' = [update EXCEPT ![r] = u]
        BY <3>2 DEF BeginPut
      <4>2. r \notin put /\ r \notin answering /\ put' = put \cup {r} /\ answering' = answering
            /\ at' = [at EXCEPT ![r] = "load"]
        BY <3>2 DEF BeginPut, RowInv
      <4>3. r \notin Pending /\ Pending' = Pending \cup {r}
        BY <2>0, <4>2 DEF Pending, InFlight
      <4> QED
        BY <3>1, <4>1, <4>3 DEF Register!Ask
    <3>3. ASSUME NEW r \in Requests, BeginGet(r) PROVE Register!Abandon
      <4>1. r \notin put /\ put' = put /\ update' = update /\ answering' = answering \cup {r}
            /\ at' = [at EXCEPT ![r] = "load"]
        BY <3>3 DEF BeginGet, RowInv
      <4>2. Pending' = Pending
        BY <2>0, <4>1 DEF Pending, InFlight
      <4> QED
        BY <3>1, <4>1, <4>2 DEF Register!Abandon
    <3>4. ASSUME NEW r \in Requests, \/ LoadRow(r) \/ CacheRow(r) \/ Recall(r) \/ Restore(r)
                                      \/ Reread(r)
          PROVE  Register!Abandon
      <4>1. UNCHANGED <<put, answering, update>>
        BY <3>4 DEF LoadRow, CacheRow, Recall, Restore, Reread, ReadMemory
      <4>2. \A s \in Requests : s # r => at'[s] = at[s]
        BY <2>0, <3>4 DEF LoadRow, CacheRow, Recall, Restore, Reread, ReadMemory
      <4>3. InFlight(r) /\ at[r] # "hold"
        BY <3>4 DEF LoadRow, CacheRow, Recall, Restore, Reread, ReadMemory, InFlight
      <4>4. Pending' \subseteq Pending
        BY <2>0, <4>1, <4>2, <4>3 DEF Pending, InFlight
      <4> QED
        BY <3>1, <4>1, <4>4 DEF Register!Abandon
    <3>5. ASSUME NEW r \in Requests, Hold(r) PROVE Register!Abandon
      <4>1. /\ UNCHANGED <<put, update>> /\ answering' = answering \cup {r}
            /\ at' = [at EXCEPT ![r] = "load"]
        BY <3>5 DEF Hold
      <4>2. Pending' \subseteq Pending
        BY <2>0, <4>1 DEF Pending, InFlight
      <4> QED
        BY <3>1, <4>1, <4>2 DEF Register!Abandon
    <3>6. ASSUME NEW p \in Procs, Restart(p) PROVE Register!Abandon
      <4>1. UNCHANGED <<put, answering, update>>
        BY <3>6 DEF Restart, Replaced
      <4>2. \A s \in Requests : at'[s] = at[s] \/ at'[s] = "gone"
        BY <2>0, <3>6 DEF Restart, Replaced
      <4>3. Pending' \subseteq Pending
        BY <2>0, <4>1, <4>2 DEF Pending, InFlight
      <4> QED
        BY <3>1, <4>1, <4>3 DEF Register!Abandon
    <3>7. CASE UNCHANGED vars
      BY <3>1, <3>7 DEF vars, Pending, InFlight, Register!vars, threads
    <3> QED
      BY <2>2, <3>2, <3>3, <3>4, <3>5, <3>6, <3>7 DEF Next, Step, Register!Next
  <2> QED
    BY <2>1, <2>2 DEF Register!Next
<1> QED
  BY <1>1, <1>2, TypeInitially, CalmInitially, TypeStep, CalmInvStep, PTL
     DEF Spec, RegisterPromise

-----------------------------------------------------------------------------
(***************************************************************************)
(* The secret half.                                                        *)
(***************************************************************************)
\* Where a secret may come from.
Origins == {Env} \cup {want[r] : r \in Requests}

\* What is sealed, held or cached was set by a PUT; a request wants nothing before
\* it begins.
OriginInv ==
    /\ \A sealed \in vault : sealed.secret \in Origins
    /\ \A p \in Procs : override[p] \in Origins \cup {None}
    /\ \A r \in Requests : found[r] \in Origins \cup {None}
    /\ \A r \in Requests : at[r] = "idle" => want[r] = None
    /\ \A r \in Requests : at[r] \in {"store", "hold"} => want[r] \in Secrets

SecretInv == SecretTypeOK /\ OriginInv

\* What opens is what was sealed.
LEMMA OpenSealed ==
    ASSUME NEW sealed \in Sealed, NEW k
    PROVE  Open(sealed, k) \in {sealed.secret, None} /\ Open(sealed, k) \in Secrets \cup {None}
BY DEF Open, Sealed

\* Nothing that was set is forgotten.
LEMMA OriginsGrow ==
    ASSUME SecretInv, NEW r \in Requests, NEW value, NEW first, Begin(r, value, first)
    PROVE  Origins \ {None} \subseteq Origins'
<1> SUFFICES ASSUME NEW s \in Requests, want[s] # None PROVE want'[s] = want[s]
  BY DEF Origins
<1> QED
  BY DEF SecretInv, OriginInv, SecretTypeOK, Begin, ThreadsTypeOK

LEMMA BeginStep ==
    ASSUME SecretInv, NEW r \in Requests, NEW value \in Secrets \cup {None, Blank},
           NEW first \in {"store", "drop", "look"}, Begin(r, value, first),
           first = "store" => value \in Secrets
    PROVE  SecretInv'
<1>1. SecretTypeOK'
  BY DEF SecretInv, SecretTypeOK, Begin, ThreadsTypeOK
<1>2. Origins \ {None} \subseteq Origins'
  BY OriginsGrow
<1>3. UNCHANGED <<vault, override, key, host, found>>
  BY DEF Begin
<1>4. \A sealed \in vault : sealed.secret # None
  <2>1. \A sealed \in vault : sealed.secret \in Secrets
    BY DEF SecretInv, SecretTypeOK, Sealed, ThreadsTypeOK
  <2> QED
    BY <2>1, SecretAssumption
<1>5. /\ \A s \in Requests : at'[s] = "idle" => want'[s] = None
      /\ \A s \in Requests : at'[s] \in {"store", "hold"} => want'[s] \in Secrets
  BY DEF SecretInv, OriginInv, SecretTypeOK, Begin, ThreadsTypeOK
<1> QED
  BY <1>1, <1>2, <1>3, <1>4, <1>5 DEF SecretInv, OriginInv

LEMMA WriteStep ==
    ASSUME SecretInv, NEW content, Write(content)
    PROVE  fails' \in Nat /\ vault' \in {vault, content}
BY DEF SecretInv, SecretTypeOK, Write, Fault, ThreadsTypeOK

LEMMA SecretInvStep == SecretInv /\ [SecretNext]_secretVars => SecretInv'
<1> SUFFICES ASSUME SecretInv, [SecretNext]_secretVars PROVE SecretInv'
  OBVIOUS
<1>1. ASSUME NEW r \in Requests, BeginSet(r) \/ BeginClear(r) \/ BeginLook(r) PROVE SecretInv'
  BY <1>1, BeginStep DEF BeginSet, BeginClear, BeginLook
<1>2. ASSUME NEW r \in Requests, Store(r) PROVE SecretInv'
  <2>1. /\ at[r] = "store" /\ at' = [at EXCEPT ![r] = "hold"]
        /\ UNCHANGED <<override, key, host, want, found, restarts, overlapped>>
    BY <1>2 DEF Store
  <2>2. fails' \in Nat /\ vault' \in {vault, {Seal(want[r], key[host[r]])}}
    BY <1>2, WriteStep DEF Store
  <2>3. want[r] \in Secrets /\ key[host[r]] \in Keys
    BY <2>1 DEF SecretInv, OriginInv, SecretTypeOK, ThreadsTypeOK
  <2>4. Seal(want[r], key[host[r]]) \in Sealed /\ Seal(want[r], key[host[r]]).secret = want[r]
    BY <2>3 DEF Seal, Sealed
  <2>5. Origins' = Origins /\ want[r] \in Origins
    BY <2>1 DEF Origins
  <2>6. SecretTypeOK'
    BY <2>1, <2>2, <2>4 DEF SecretInv, SecretTypeOK, ThreadsTypeOK
  <2>7. \A sealed \in vault' : sealed.secret \in Origins
    BY <2>2, <2>4, <2>5 DEF SecretInv, OriginInv
  <2>8. /\ \A s \in Requests : at'[s] = "idle" => want'[s] = None
        /\ \A s \in Requests : at'[s] \in {"store", "hold"} => want'[s] \in Secrets
    BY <2>1, <2>3 DEF SecretInv, OriginInv, SecretTypeOK, ThreadsTypeOK
  <2> QED
    BY <2>1, <2>5, <2>6, <2>7, <2>8 DEF SecretInv, OriginInv
<1>3. ASSUME NEW r \in Requests, HoldSecret(r) PROVE SecretInv'
  BY <1>3 DEF HoldSecret, SecretInv, OriginInv, SecretTypeOK, Origins, ThreadsTypeOK
<1>4. ASSUME NEW r \in Requests, Drop(r) PROVE SecretInv'
  BY <1>4 DEF Drop, SecretInv, OriginInv, SecretTypeOK, Origins, ThreadsTypeOK
<1>5. ASSUME NEW r \in Requests, Erase(r) PROVE SecretInv'
  <2>1. fails' \in Nat /\ vault' \in {vault, {}}
    BY <1>5, WriteStep DEF Erase
  <2> QED
    BY <1>5, <2>1 DEF Erase, SecretInv, OriginInv, SecretTypeOK, Origins, ThreadsTypeOK
<1>6. ASSUME NEW r \in Requests, Look(r) PROVE SecretInv'
  BY <1>6 DEF Look, SecretInv, OriginInv, SecretTypeOK, Origins, ThreadsTypeOK
<1>7. ASSUME NEW r \in Requests, Fetch(r) PROVE SecretInv'
  <2>1. \E value \in Origins \cup {None} :
          /\ value \in Secrets \cup {None} /\ found' = [found EXCEPT ![r] = value]
    <3>1. CASE found' = [found EXCEPT ![r] = Env]
      BY <3>1, SecretAssumption DEF Origins
    <3>2. ASSUME NEW sealed \in vault, found' = [found EXCEPT ![r] = Open(sealed, key[host[r]])]
          PROVE  <2>1
      <4>1. sealed \in Sealed
        BY DEF SecretInv, SecretTypeOK, ThreadsTypeOK
      <4>2. sealed.secret \in Origins
        BY DEF SecretInv, OriginInv
      <4> QED
        BY <3>2, <4>1, <4>2, OpenSealed
    <3> QED
      BY <1>7, <3>1, <3>2 DEF Fetch
  <2>2. /\ at' = [at EXCEPT ![r] = "cache"] \/ at' = [at EXCEPT ![r] = "answered"]
        /\ UNCHANGED <<vault, override, key, host, want, restarts, overlapped>>
    BY <1>7 DEF Fetch
  <2>3. fails' \in Nat
    BY <1>7 DEF Fetch, Fault, SecretInv, SecretTypeOK, ThreadsTypeOK
  <2> QED
    BY <2>1, <2>2, <2>3 DEF SecretInv, OriginInv, SecretTypeOK, Origins, ThreadsTypeOK
<1>8. ASSUME NEW r \in Requests, Cache(r) PROVE SecretInv'
  BY <1>8 DEF Cache, SecretInv, OriginInv, SecretTypeOK, Origins, ThreadsTypeOK
<1>9. ASSUME NEW p \in Procs, RestartWithKey(p) PROVE SecretInv'
  BY <1>9 DEF RestartWithKey, SecretInv, OriginInv, SecretTypeOK, Origins, InFlight, Replaced,
         ThreadsTypeOK
<1>10. CASE UNCHANGED secretVars
  BY <1>10 DEF secretVars, SecretInv, OriginInv, SecretTypeOK, Origins, threads, ThreadsTypeOK
<1> QED
  BY <1>1, <1>2, <1>3, <1>4, <1>5, <1>6, <1>7, <1>8, <1>9, <1>10 DEF SecretNext, SecretStep

LEMMA SecretInitially == SecretInit => SecretInv
<1> SUFFICES ASSUME SecretInit PROVE SecretInv
  OBVIOUS
<1>1. SecretTypeOK
  <2>1. /\ vault = {}
        /\ key \in [Procs -> Keys]
        /\ restarts \in Nat /\ fails \in Nat /\ overlapped \in BOOLEAN
    BY DEF SecretInit, ThreadsInit
  <2> QED
    BY <2>1 DEF SecretInit, SecretTypeOK, ThreadsInit, ThreadsTypeOK
<1>2. OriginInv
  BY SecretAssumption DEF SecretInit, OriginInv, ThreadsInit
<1> QED
  BY <1>1, <1>2 DEF SecretInv

\* Every variable keeps its type: no process ever holds anything but a plaintext,
\* and the vault nothing but sealed ones.
THEOREM SecretTypeCorrect == SecretSpec => []SecretTypeOK
<1>1. SecretInv => SecretTypeOK
  BY DEF SecretInv
<1> QED
  BY <1>1, SecretInitially, SecretInvStep, PTL DEF SecretSpec

\* get_secret returns a secret somebody set, or the environment's.
THEOREM AuthenticTheorem == SecretSpec => []SecretAuthentic
<1>1. SecretInv => SecretAuthentic
  BY DEF SecretInv, OriginInv, Origins, SecretAuthentic
<1> QED
  BY <1>1, SecretInitially, SecretInvStep, PTL DEF SecretSpec

-----------------------------------------------------------------------------
(***************************************************************************)
(* One request at a time.                                                  *)
(***************************************************************************)
Single == \A r, s \in Requests : InFlight(r) /\ InFlight(s) => r = s

\* Until two requests meet, the secret of a PUT that has set one is the override
\* of its process, which it finds before it asks for the row.
SetInv ==
    /\ Single
    /\ \A r \in Requests : want[r] \in Secrets =>
           /\ at[r] \notin {"drop", "erase", "fetch", "cache"}
           /\ at[r] = "look" => override[host[r]] = want[r]
           /\ at[r] = "answered" => found[r] = want[r]

\* What a process may hold as long as no statement fails and no other process has
\* served: what the vault holds, sealed with its key.
BackedInv ==
    /\ \A p \in Procs : override[p] # None => \E r \in Requests : host[r] = p /\ at[r] # "idle"
    /\ \A r \in Requests :
           /\ at[r] = "hold" => vault = {Seal(want[r], key[host[r]])}
           /\ at[r] = "erase" => override[host[r]] = None
           /\ at[r] = "cache" => vault = {Seal(found[r], key[host[r]])}
    /\ \A p \in Procs :
           \/ \E r \in Requests : host[r] = p /\ at[r] = "hold"
           \/ override[p] = None
           \/ vault = {Seal(override[p], key[p])}

Apart == ~overlapped => SetInv /\ (fails = 0 /\ OneHost => BackedInv)

\* A request that begins alone begins when nobody is in flight.
LEMMA BeginApart ==
    ASSUME SecretInv, Apart, NEW r \in Requests, NEW value \in Secrets \cup {None, Blank},
           NEW first \in {"store", "drop", "look"}, Begin(r, value, first),
           value \in Secrets => first = "store"
    PROVE  Apart'
<1> SUFFICES ASSUME ~overlapped' PROVE SetInv' /\ (fails' = 0 /\ OneHost' => BackedInv')
  BY DEF Apart
<1>1. ~overlapped /\ \A s \in Requests : ~InFlight(s)
  BY DEF Begin
<1>2. /\ at[r] = "idle" /\ at' = [at EXCEPT ![r] = first] /\ want' = [want EXCEPT ![r] = value]
      /\ UNCHANGED <<vault, override, key, host, found, fails>>
      /\ DOMAIN at = Requests /\ DOMAIN want = Requests
  BY DEF Begin, SecretInv, SecretTypeOK
<1>3. \A s \in Requests : s # r => ~InFlight(s) /\ at'[s] = at[s] /\ want'[s] = want[s]
  BY <1>1, <1>2
<1>4. at'[r] = first /\ want'[r] = value
  BY <1>2
<1>5. SetInv'
  BY <1>1, <1>2, <1>3, <1>4 DEF Apart, SetInv, Single, InFlight
<1>6. OneHost' => OneHost
  BY <1>2, <1>3, <1>4 DEF OneHost
<1>7. fails = 0 /\ OneHost => BackedInv'
  BY <1>1, <1>2, <1>3, <1>4 DEF Apart, BackedInv, InFlight
<1> QED
  BY <1>2, <1>5, <1>6, <1>7

\* What a thread does when no other is in flight.
LEMMA StepApart ==
    ASSUME SecretInv, Apart, NEW r \in Requests, SecretStep(r)
    PROVE  Apart'
<1> SUFFICES ASSUME ~overlapped' PROVE SetInv' /\ (fails' = 0 /\ OneHost' => BackedInv')
  BY DEF Apart
<1>0. /\ ~overlapped /\ SetInv /\ InFlight(r)
      /\ at \in [Requests -> {"idle", "store", "hold", "drop", "erase", "look", "fetch",
                              "cache", "answered", "gone"}]
      /\ want \in [Requests -> Secrets \cup {None, Blank}]
      /\ found \in [Requests -> Secrets \cup {None}] /\ override \in [Procs -> Secrets \cup {None}]
      /\ host \in [Requests -> Procs] /\ None \notin Secrets /\ Blank \notin Secrets
      /\ fails \in Nat
  BY SecretAssumption DEF Apart, SecretStep, Store, HoldSecret, Drop, Erase, Look, Fetch, Cache,
     InFlight, SecretInv, SecretTypeOK, ThreadsTypeOK
<1>1. /\ \A s \in Requests : s # r => ~InFlight(s) /\ at'[s] = at[s]
      /\ UNCHANGED <<key, host, want>>
  BY <1>0 DEF SetInv, Single, SecretStep, Store, HoldSecret, Drop, Erase, Look, Fetch, Cache
<1>2. fails' = 0 => fails = 0
  BY <1>0 DEF SecretStep, Store, HoldSecret, Drop, Erase, Look, Fetch, Cache, Write, Fault
<1>3. OneHost' => OneHost
  <2>1. at[r] # "idle" /\ at'[r] # "idle"
    BY <1>0 DEF SecretStep, Store, HoldSecret, Drop, Erase, Look, Fetch, Cache
  <2> QED
    BY <1>1, <2>1 DEF OneHost
<1>4. SetInv'
  <2>1. Single'
    BY <1>1 DEF Single, InFlight
  <2>2. ASSUME NEW s \in Requests, s # r, want[s] \in Secrets
        PROVE  /\ at'[s] \notin {"store", "hold", "drop", "erase", "look", "fetch", "cache"}
               /\ at'[s] = "answered" => found'[s] = want[s]
    <3>1. found'[s] = found[s]
      BY <1>0, <2>2 DEF SecretStep, Store, HoldSecret, Drop, Erase, Look, Fetch, Cache
    <3> QED
      BY <1>0, <1>1, <2>2, <3>1 DEF SetInv, InFlight
  <2>3. ASSUME want[r] \in Secrets
        PROVE  /\ at'[r] \notin {"drop", "erase", "fetch", "cache"}
               /\ at'[r] = "look" => override'[host[r]] = want[r]
               /\ at'[r] = "answered" => found'[r] = want[r]
    <3>1. ~Drop(r) /\ ~Erase(r) /\ ~Fetch(r) /\ ~Cache(r)
      BY <1>0, <2>3 DEF SetInv, Drop, Erase, Fetch, Cache
    <3>2. CASE Store(r)
      BY <1>0, <3>2 DEF Store
    <3>3. CASE HoldSecret(r)
      BY <1>0, <3>3 DEF HoldSecret
    <3>4. CASE Look(r)
      BY <1>0, <2>3, <3>4 DEF Look, SetInv
    <3> QED
      BY <3>1, <3>2, <3>3, <3>4 DEF SecretStep
  <2> QED
    BY <1>1, <2>1, <2>2, <2>3 DEF SetInv
<1>5. ASSUME fails' = 0, OneHost' PROVE BackedInv'
  <2>0. BackedInv /\ OneHost /\ fails = 0 /\ \A s \in Requests : at[s] # "idle" => host[s] = host[r]
    BY <1>0, <1>2, <1>3, <1>5 DEF Apart, OneHost, InFlight
  <2>1. ~Fault
    BY <1>0, <1>5, <2>0 DEF Fault
  <2>2. ASSUME NEW p \in Procs, p # host[r] PROVE override[p] = None
    BY <2>0, <2>2 DEF BackedInv
  <2>3. \A s \in Requests : s # r => at'[s] \notin {"hold", "erase", "cache"}
    BY <1>1 DEF InFlight
  <2>4. at'[r] # "idle"
    BY <1>0 DEF SecretStep, Store, HoldSecret, Drop, Erase, Look, Fetch, Cache
  <2> USE <1>0, <1>1, <2>0, <2>2, <2>3, <2>4 DEF BackedInv
  <2>5. CASE Store(r)
    BY <2>1, <2>5 DEF Store, Write
  <2>6. CASE HoldSecret(r)
    BY <2>6 DEF HoldSecret
  <2>7. CASE Drop(r)
    BY <2>7 DEF Drop
  <2>8. CASE Erase(r)
    BY <2>1, <2>8 DEF Erase, Write
  <2>9. CASE Look(r)
    BY <2>9 DEF Look
  <2>10. CASE Fetch(r)
    <3>1. UNCHANGED <<vault, override, key, host, want>> /\ at[r] = "fetch" /\ at'[r] # "hold"
      BY <2>10 DEF Fetch
    <3>2. at'[r] # "erase"
      BY <2>10 DEF Fetch
    <3>3. ASSUME at'[r] = "cache" PROVE vault = {Seal(found'[r], key[host[r]])}
      <4>1. PICK sealed \in vault : /\ Open(sealed, key[host[r]]) # None
                                   /\ found'[r] = Open(sealed, key[host[r]])
        BY <2>10, <3>3 DEF Fetch
      <4>2. vault = {sealed} /\ sealed \in Sealed
        BY <4>1 DEF SecretInv, SecretTypeOK
      <4>3. sealed.key = key[host[r]] /\ found'[r] = sealed.secret
        BY <4>1 DEF Open
      <4>4. sealed = [secret |-> sealed.secret, key |-> sealed.key]
        BY <4>2 DEF Sealed
      <4> QED
        BY <4>2, <4>3, <4>4 DEF Seal
    <3> QED
      BY <3>1, <3>2, <3>3
  <2>11. CASE Cache(r)
    BY <2>11 DEF Cache
  <2> QED
    BY <2>5, <2>6, <2>7, <2>8, <2>9, <2>10, <2>11 DEF SecretStep
<1> QED
  BY <1>4, <1>5

\* A process that is replaced takes its override and its threads along.
LEMMA RestartApart ==
    ASSUME SecretInv, Apart, NEW p \in Procs, RestartWithKey(p)
    PROVE  Apart'
<1>1. /\ UNCHANGED <<vault, want, found, host, fails, overlapped>>
      /\ override' = [override EXCEPT ![p] = None]
      /\ \A q \in Procs : q # p => key'[q] = key[q]
      /\ \A r \in Requests : at'[r] = IF host[r] = p /\ InFlight(r) THEN "gone" ELSE at[r]
      /\ DOMAIN override = Procs /\ host \in [Requests -> Procs]
  BY DEF RestartWithKey, Replaced, SecretInv, SecretTypeOK, ThreadsTypeOK
<1>2. SetInv => SetInv'
  BY <1>1 DEF SetInv, Single, InFlight
<1>3. OneHost' => OneHost
  BY <1>1 DEF OneHost, InFlight
<1>4. BackedInv => BackedInv'
  <2> SUFFICES ASSUME BackedInv PROVE BackedInv'
    OBVIOUS
  <2>1. \A q \in Procs : override'[q] # None => \E r \in Requests : host[r] = q /\ at'[r] # "idle"
    BY <1>1 DEF BackedInv, InFlight
  <2>2. \A r \in Requests : at'[r] \in {"hold", "erase", "cache"} => at'[r] = at[r] /\ host[r] # p
    BY <1>1 DEF InFlight
  <2>3. \A q \in Procs : q # p => \A r \in Requests : host[r] = q => at'[r] = at[r]
    BY <1>1
  <2> QED
    BY <1>1, <2>1, <2>2, <2>3 DEF BackedInv
<1> QED
  BY <1>1, <1>2, <1>3, <1>4 DEF Apart

LEMMA ApartStep == SecretInv /\ Apart /\ [SecretNext]_secretVars => Apart'
<1> SUFFICES ASSUME SecretInv, Apart, [SecretNext]_secretVars PROVE Apart'
  OBVIOUS
<1>1. ASSUME NEW r \in Requests, BeginSet(r) \/ BeginClear(r) \/ BeginLook(r) PROVE Apart'
  BY <1>1, BeginApart, SecretAssumption DEF BeginSet, BeginClear, BeginLook
<1>2. CASE UNCHANGED secretVars
  BY <1>2 DEF secretVars, threads, Apart, SetInv, Single, InFlight, OneHost, BackedInv
<1> QED
  BY <1>1, <1>2, StepApart, RestartApart DEF SecretNext

LEMMA ApartInitially == SecretInit => Apart
BY SecretAssumption DEF SecretInit, ThreadsInit, Apart, SetInv, Single, InFlight, BackedInv

\* Until two requests meet, a PUT that sets a secret answers that it has it.
THEOREM SetTheorem == SecretSpec => []SetAnswered
<1>1. Apart => SetAnswered
  BY DEF Apart, SetInv, SetAnswered
<1> QED
  BY <1>1, SecretInitially, SecretInvStep, ApartInitially, ApartStep, PTL DEF SecretSpec

\* Until two requests meet or a statement fails, the one process that serves holds
\* what the vault holds, also when it is replaced in the middle of a clear.
THEOREM BackedTheorem == SecretSpec => []OverrideBacked
<1>1. Apart => OverrideBacked
  BY DEF Apart, BackedInv, OverrideBacked
<1> QED
  BY <1>1, SecretInitially, SecretInvStep, ApartInitially, ApartStep, PTL DEF SecretSpec
=============================================================================
