------------------------------ MODULE SecretStore ------------------------------
(***************************************************************************)
(* The secret half of AdminSettingsStore, for one secret (the four secrets *)
(* share nothing but the code): an encrypted row in PostgreSQL, an override*)
(* in the memory of every process, which is also the cache of the row, and *)
(* the environment.  set_secret and get_secret run in the threads of       *)
(* PUT and GET /admin/settings, without a lock.                            *)
(*                                                                         *)
(* Ciphertext is the plaintext and the key it was sealed with; opening it  *)
(* with another key fails the MAC.                                         *)
(***************************************************************************)
EXTENDS AdminStore

CONSTANTS
    Secrets,        \* plaintexts
    Env,            \* the environment variable: a plaintext, or None
    Keys,           \* SETTINGS_ENCRYPTION_KEY or ADMIN_TOKEN
    MaxInFlight     \* bound: requests at a time

None == "none"
Blank == "blank"
Garbage == "garbage"    \* ciphertext opened with another key

ASSUME SecretAssumption ==
    /\ {None, Blank, Garbage} \cap Secrets = {}
    /\ Env \in Secrets \cup {None}
    /\ MaxInFlight \in Nat

VARIABLES
    vault,      \* admin_secret_settings: the sealed secret, if there is one
    override,   \* _secret_overrides of each process
    key,        \* the key of each process, read from its environment
    want,       \* what the request sets: a plaintext, Blank, or None
    found       \* what its get_secret returns

secretVars == <<vault, override, key, want, found, threads>>

Sealed == [secret : Secrets, key : Keys]

SecretTypeOK ==
    /\ vault = {} \/ \E sealed \in Sealed : vault = {sealed}
    /\ override \in [Procs -> Secrets \cup {None}]
    /\ key \in [Procs -> Keys]
    /\ at \in [Requests -> {"idle", "store", "hold", "drop", "erase", "look", "fetch",
                            "cache", "answered", "gone"}]
    /\ want \in [Requests -> Secrets \cup {None, Blank}]
    /\ found \in [Requests -> Secrets \cup {None}]
    /\ ThreadsTypeOK

SecretInit ==
    /\ vault = {}
    /\ override = [p \in Procs |-> None]
    /\ \E k \in Keys : key = [p \in Procs |-> k]
    /\ want = [r \in Requests |-> None]
    /\ found = [r \in Requests |-> None]
    /\ ThreadsInit

\* encrypt_secret, decrypt_secret.
Seal(secret, k) == [secret |-> secret, key |-> k]
\* A plausible slip: the MAC is not compared.
OpenUnchecked(sealed, k) == IF sealed.key = k THEN sealed.secret ELSE Garbage
Open(sealed, k) == IF sealed.key = k THEN sealed.secret ELSE None

-----------------------------------------------------------------------------
\* PUT: set_secret returns at once without a value; blank clears.
Begin(r, value, first) ==
    /\ at[r] = "idle"
    /\ Cardinality({s \in Requests : InFlight(s)}) < MaxInFlight
    /\ want' = [want EXCEPT ![r] = value]
    /\ at' = [at EXCEPT ![r] = first]
    /\ overlapped' = (overlapped \/ \E s \in Requests : InFlight(s))
    /\ UNCHANGED <<vault, override, key, host, found, restarts, fails>>

BeginSet(r) == \E secret \in Secrets : Begin(r, secret, "store")
BeginClear(r) == Begin(r, Blank, "drop")
BeginLook(r) == Begin(r, None, "look")

\* A statement on the vault.  One that fails may have been committed.
Write(row) ==
    \/ vault' = row /\ UNCHANGED fails
    \/ Fault /\ vault' \in {vault, row}

\* _save_secret_to_postgres.
Store(r) ==
    /\ at[r] = "store"
    /\ Write({Seal(want[r], key[host[r]])})
    /\ at' = [at EXCEPT ![r] = "hold"]
    /\ UNCHANGED <<override, key, host, want, found, restarts, overlapped>>

\* A plausible slip: the override is set only when the row was not saved.
HoldUnsaved(r) ==
    /\ at[r] = "hold"
    /\ override' = [override EXCEPT ![host[r]] = IF vault = {} THEN want[r] ELSE @]
    /\ at' = [at EXCEPT ![r] = "look"]
    /\ UNCHANGED <<vault, key, host, want, found, restarts, fails, overlapped>>

\* Saved or not, the process uses the new secret.
HoldSecret(r) ==
    /\ at[r] = "hold"
    /\ override' = [override EXCEPT ![host[r]] = want[r]]
    /\ at' = [at EXCEPT ![r] = "look"]
    /\ UNCHANGED <<vault, key, host, want, found, restarts, fails, overlapped>>

\* A plausible slip: the row goes and the override stays.
DropNothing(r) ==
    /\ at[r] = "drop"
    /\ at' = [at EXCEPT ![r] = "erase"]
    /\ UNCHANGED <<vault, override, key, host, want, found, restarts, fails, overlapped>>

Drop(r) ==
    /\ at[r] = "drop"
    /\ override' = [override EXCEPT ![host[r]] = None]
    /\ at' = [at EXCEPT ![r] = "erase"]
    /\ UNCHANGED <<vault, key, host, want, found, restarts, fails, overlapped>>

\* _delete_secret_in_postgres; its result is ignored.
Erase(r) ==
    /\ at[r] = "erase"
    /\ Write({})
    /\ at' = [at EXCEPT ![r] = "look"]
    /\ UNCHANGED <<override, key, host, want, found, restarts, overlapped>>

\* get_secret: the override if there is one.
Look(r) ==
    /\ at[r] = "look"
    /\ found' = [found EXCEPT ![r] = override[host[r]]]
    /\ at' = [at EXCEPT ![r] = IF override[host[r]] = None THEN "fetch" ELSE "answered"]
    /\ UNCHANGED <<vault, override, key, host, want, restarts, fails, overlapped>>

\* The row, if it can be read and opened; else the environment.
Fetch(r) ==
    /\ at[r] = "fetch"
    /\ \/ \E sealed \in vault :
            /\ Open(sealed, key[host[r]]) # None
            /\ found' = [found EXCEPT ![r] = Open(sealed, key[host[r]])]
            /\ at' = [at EXCEPT ![r] = "cache"]
            /\ UNCHANGED fails
       \/ /\ \/ Fault
             \/ (\A sealed \in vault : Open(sealed, key[host[r]]) = None) /\ UNCHANGED fails
          /\ found' = [found EXCEPT ![r] = Env]
          /\ at' = [at EXCEPT ![r] = "answered"]
    /\ UNCHANGED <<vault, override, key, host, want, restarts, overlapped>>

Cache(r) ==
    /\ at[r] = "cache"
    /\ override' = [override EXCEPT ![host[r]] = found[r]]
    /\ at' = [at EXCEPT ![r] = "answered"]
    /\ UNCHANGED <<vault, key, host, want, found, restarts, fails, overlapped>>

\* The override of a process that is replaced goes with it, its key may change.
RestartWithKey(p) ==
    /\ Replaced(p)
    /\ override' = [override EXCEPT ![p] = None]
    /\ \E k \in Keys : key' = [key EXCEPT ![p] = k]
    /\ UNCHANGED <<vault, want, found>>

SecretStep(r) == Store(r) \/ HoldSecret(r) \/ Drop(r) \/ Erase(r) \/ Look(r) \/ Fetch(r) \/ Cache(r)

SecretNext ==
    \/ \E r \in Requests : BeginSet(r) \/ BeginClear(r) \/ BeginLook(r) \/ SecretStep(r)
    \/ \E p \in Procs : RestartWithKey(p)

SecretSpec == SecretInit /\ [][SecretNext]_secretVars

-----------------------------------------------------------------------------
(***************************************************************************)
(* Properties.                                                             *)
(***************************************************************************)

\* Whatever is lost, rotated or overlapped, get_secret returns the environment's
\* secret or one that a PUT has set, never something else made from the
\* ciphertext (decrypt_secret, get_secret).
SecretAuthentic ==
    \A secret \in {found[r] : r \in Requests} \cup {override[p] : p \in Procs} :
        secret \in {None, Env} \cup {want[r] : r \in Requests}

\* As long as requests come one at a time: a PUT that sets a secret answers that
\* it has it, even when nothing could be stored (set_secret).
SetAnswered ==
    ~overlapped =>
        \A r \in Requests : want[r] \in Secrets /\ at[r] = "answered" => found[r] = want[r]

OneHost == \A r, s \in Requests : at[r] # "idle" /\ at[s] # "idle" => host[r] = host[s]

\* As long as one process serves the requests, one at a time, and no statement
\* fails: its override is what the vault holds, except between the two halves of
\* set_secret.  A clear that stopped halfway has dropped the override first, so
\* that a restart at any step leaves no override without a row.
OverrideBacked ==
    ~overlapped /\ fails = 0 /\ OneHost =>
        \A p \in Procs :
            \/ \E r \in Requests : host[r] = p /\ at[r] = "hold"
            \/ override[p] = None
            \/ vault = {Seal(override[p], key[p])}
=============================================================================
