----------------------------- MODULE SettingsStore -----------------------------
(***************************************************************************)
(* The non-secret half of AdminSettingsStore: one JSONB row in PostgreSQL  *)
(* and, in every backend process, a copy in memory that stands in for the  *)
(* row when a statement fails.  PUT /admin/settings loads, merges and      *)
(* saves without a lock; every answer is a fresh load.                     *)
(*                                                                         *)
(* Requests run in threads of a process and interleave at each statement   *)
(* on the row and at each access to the copy in memory.                    *)
(***************************************************************************)
EXTENDS AdminStore

CONSTANTS
    Fields,         \* settings, whatever their section
    Values,
    Default,        \* default_non_secret_settings(), from the environment
    MaxPuts,        \* bound: PUTs in flight at a time
    MaxGets         \* bound: GETs in flight at a time

ASSUME SettingsAssumption ==
    /\ Default \in [Fields -> Values]
    /\ MaxPuts \in Nat /\ MaxGets \in Nat

Keep == "keep"      \* a field the update leaves out
ASSUME KeepAssumption == Keep \notin Values

VARIABLES
    row,        \* admin_settings: {} before the first save, {payload} after
    memory,     \* _memory_non_secret of each process
    put,        \* the requests that are PUTs
    answering,  \* the requests already in _settings_response
    update,     \* the payload of a PUT, sections flattened
    local       \* the settings a thread holds

vars == <<row, memory, put, answering, update, local, threads>>

Settings == [Fields -> Values]
Updates == [Fields -> Values \cup {Keep}]

TypeOK ==
    /\ row = {} \/ \E payload \in Settings : row = {payload}
    /\ memory \in [Procs -> Settings]
    /\ at \in [Requests -> {"idle", "load", "found", "recall", "restore", "reread",
                            "save", "hold", "answered", "gone"}]
    /\ put \subseteq Requests
    /\ answering \subseteq Requests
    /\ update \in [Requests -> Updates]
    /\ local \in [Requests -> Settings]
    /\ ThreadsTypeOK

Init ==
    /\ row = {}
    /\ memory = [p \in Procs |-> Default]
    /\ put = {} /\ answering = {}
    /\ update = [r \in Requests |-> [f \in Fields |-> Keep]]
    /\ local = [r \in Requests |-> Default]
    /\ ThreadsInit

\* deep_merge: the fields the update names, the others as they were.
Merge(base, u) == [f \in Fields |-> IF u[f] = Keep THEN base[f] ELSE u[f]]

-----------------------------------------------------------------------------
BeginPut(r) ==
    /\ at[r] = "idle"
    /\ Cardinality({s \in put : InFlight(s)}) < MaxPuts
    /\ overlapped' = (overlapped \/ \E s \in put : InFlight(s))
    /\ put' = put \cup {r}
    /\ \E u \in Updates : update' = [update EXCEPT ![r] = u]
    /\ at' = [at EXCEPT ![r] = "load"]
    /\ UNCHANGED <<row, memory, answering, host, local, restarts, fails>>

\* GET /admin/settings, and a PUT without a section.
BeginGet(r) ==
    /\ at[r] = "idle"
    /\ Cardinality({s \in Requests \ put : InFlight(s)}) < MaxGets
    /\ answering' = answering \cup {r}
    /\ at' = [at EXCEPT ![r] = "load"]
    /\ UNCHANGED <<row, memory, put, host, update, local, restarts, fails, overlapped>>

\* A plausible slip: a process that has a copy does not ask the database.
LoadCached(r) ==
    /\ at[r] = "load"
    /\ IF row = {} THEN at' = [at EXCEPT ![r] = "recall"] /\ UNCHANGED local
       ELSE /\ local' = [local EXCEPT ![r] = memory[host[r]]]
            /\ at' = [at EXCEPT ![r] = "found"]
    /\ UNCHANGED <<row, memory, put, answering, host, update, restarts, fails, overlapped>>

\* _load_from_postgres: a failing statement and a missing row both read None.
LoadRow(r) ==
    /\ at[r] = "load"
    /\ \/ /\ \E payload \in row : /\ local' = [local EXCEPT ![r] = payload]
                                  /\ at' = [at EXCEPT ![r] = "found"]
          /\ UNCHANGED fails
       \/ /\ Fault \/ (row = {} /\ UNCHANGED fails)
          /\ at' = [at EXCEPT ![r] = "recall"]
          /\ UNCHANGED local
    /\ UNCHANGED <<row, memory, put, answering, host, update, restarts, overlapped>>

\* Where get_non_secret_settings returns to.
AfterLoad(r) == IF r \in answering THEN "answered" ELSE "save"

\* The row goes to memory.
CacheRow(r) ==
    /\ at[r] = "found"
    /\ memory' = [memory EXCEPT ![host[r]] = local[r]]
    /\ at' = [at EXCEPT ![r] = AfterLoad(r)]
    /\ UNCHANGED <<row, put, answering, host, update, local, restarts, fails, overlapped>>

\* Without a row: memory is read, merged over the defaults, written back and
\* read again.  The copy is complete, so the merge changes nothing.
ReadMemory(r, from, to) ==
    /\ at[r] = from
    /\ local' = [local EXCEPT ![r] = memory[host[r]]]
    /\ at' = [at EXCEPT ![r] = to]
    /\ UNCHANGED <<row, memory, put, answering, host, update, restarts, fails, overlapped>>

Recall(r) == ReadMemory(r, "recall", "restore")
Reread(r) == ReadMemory(r, "reread", AfterLoad(r))

Restore(r) ==
    /\ at[r] = "restore"
    /\ memory' = [memory EXCEPT ![host[r]] = local[r]]
    /\ at' = [at EXCEPT ![r] = "reread"]
    /\ UNCHANGED <<row, put, answering, host, update, local, restarts, fails, overlapped>>

\* A plausible slip: the update is saved without what was loaded.
SaveUpdateOnly(r) ==
    /\ at[r] = "save"
    /\ row' = {Merge(Default, update[r])}
    /\ local' = [local EXCEPT ![r] = Merge(Default, update[r])]
    /\ at' = [at EXCEPT ![r] = "hold"]
    /\ UNCHANGED <<memory, put, answering, host, update, restarts, fails, overlapped>>

\* _save_to_postgres.  A save that fails may have been committed.
Save(r) ==
    /\ at[r] = "save"
    /\ LET merged == Merge(local[r], update[r]) IN
         /\ \/ row' = {merged} /\ UNCHANGED fails
            \/ Fault /\ row' \in {row, {merged}}
         /\ local' = [local EXCEPT ![r] = merged]
    /\ at' = [at EXCEPT ![r] = "hold"]
    /\ UNCHANGED <<memory, put, answering, host, update, restarts, overlapped>>

\* Saved or not, memory has the update; the answer is loaded next.
Hold(r) ==
    /\ at[r] = "hold"
    /\ memory' = [memory EXCEPT ![host[r]] = local[r]]
    /\ answering' = answering \cup {r}
    /\ at' = [at EXCEPT ![r] = "load"]
    /\ UNCHANGED <<row, put, host, update, local, restarts, fails, overlapped>>

\* The copy of a process that is replaced goes with it.
Restart(p) ==
    /\ Replaced(p)
    /\ memory' = [memory EXCEPT ![p] = Default]
    /\ UNCHANGED <<row, put, answering, update, local>>

Step(r) == \/ LoadRow(r) \/ CacheRow(r) \/ Recall(r) \/ Restore(r) \/ Reread(r)
           \/ Save(r) \/ Hold(r)

Next ==
    \/ \E r \in Requests : BeginPut(r) \/ BeginGet(r) \/ Step(r)
    \/ \E p \in Procs : Restart(p)

Spec == Init /\ [][Next]_vars

-----------------------------------------------------------------------------
(***************************************************************************)
(* Properties.                                                             *)
(***************************************************************************)

\* What the row stands for: the defaults until it is written.
Stored == IF row = {} THEN Default ELSE CHOOSE payload \in row : TRUE

\* The PUTs that have not saved.
Pending == {r \in put \ answering : InFlight(r) /\ at[r] # "hold"}

\* The database has answered so far and no two PUTs have been in flight together.
Calm == fails = 0 /\ ~overlapped

\* As long as that is so, the row is one register to which each PUT applies its
\* own update, once and whole, however many GETs, processes and restarts there
\* are (update_non_secret_settings).
Register == INSTANCE SettingsRegister WITH value <- Stored, asked <- update, open <- Pending
RegisterPromise == Register!Init /\ [][Calm' => Register!Next]_(Register!vars)

\* Nobody else has written the field.
Alone(r, f) == \A s \in put \ {r} : update[s][f] = Keep

\* The answered PUTs whose field nobody else writes are in these settings.
ShownIn(settings) ==
    \A r \in put : at[r] = "answered" =>
        \A f \in Fields : update[r][f] # Keep /\ Alone(r, f) =>
            settings[r][f] = update[r][f]

\* "test_update_settings_persists_non_secret_values" (tests): a field of an
\* answered PUT stays in the row, as long as no other PUT writes that field.
UpdatesKept == Calm => ShownIn([r \in Requests |-> Stored])

\* response["operational"]["default_business_id"] is what the PUT has just set
\* (tests/test_admin_settings_api.py), unless another PUT writes it too.
AnswerShowsUpdate == Calm => ShownIn(local)

\* Why the row is a register: a PUT that is about to save holds what is stored,
\* because nobody saved since it loaded.
HoldsStored ==
    Calm => \A r \in Requests \ answering : at[r] \in {"found", "save"} => local[r] = Stored
=============================================================================
