# Datasoko: specifications, checks and proofs

Datasoko turns the weekly sales files of small businesses into reports on
WhatsApp. A FastAPI backend (`src/backend`) keeps organizations, businesses,
users, uploaded weeks, schedules and logs in PostgreSQL; a Next.js frontend
(`src/frontend`) drives it; OpenAI or Azure writes the narration; Twilio
delivers the messages. This directory holds TLA+ modules of the parts whose
behaviour depends on order, failure and concurrency, the TLC configurations that
check them, and theorems about them that TLAPS has checked.

## 1. The system

### Where concurrency comes from

* Endpoints are `def` functions, so FastAPI runs each request in a thread of a
  pool. Two requests to one process interleave at every statement on shared
  memory and at every call that leaves the process. (`/admin/upload/weekly` is
  `async def` with blocking code and holds the event loop.)
* gunicorn may run several worker processes, and a deployment several
  containers. They share PostgreSQL (READ COMMITTED, one transaction per
  statement group) and nothing else: `JOBS`, `LAST_RUN_SUMMARY`, the settings
  copy and the secret overrides are memory of one process.
* The report worker is one daemon thread of the process that has
  `RUN_SCHEDULER=true`. `stop_scheduler` is never called.
* Almost every database error outside request bodies is logged and swallowed:
  a failing statement is a normal event, after which the program goes on.
* A process may be replaced at any moment. What it had in memory is gone, what
  it had sent to PostgreSQL or Twilio is not.

### Components

| component | code | state | operations | meets | what makes it correct |
|---|---|---|---|---|---|
| report worker | `scheduler.py` | `report_schedules` (last/next run), the cycle's snapshot | loop, cycle, trigger, record, refresh | schedule API (same rows), delivery | fires when due, not twice in the dedupe window, never after a stop; shows a next run that comes true |
| schedule API | `routes/schedules.py` | `report_schedules` | create, update, delete, list | worker | a change acts on the next cycle; the next run is recomputed |
| report generation and delivery | `main.py` 322–484, 938–1067, 1187–1265; `routes/analytics.py` | `JOBS`, `whatsapp_message_log`, `activity_log` | generate, scheduled job, send with retry, log, test send, job status | worker, Twilio, cost and WhatsApp statistics | charged means accepted, once; a job writes with the organization of its business; a completed job says what became of its delivery; each organization sees its own |
| admin settings store | `admin_settings_store.py`; `main.py` 487–505, 1070–1101 | `admin_settings`, `admin_secret_settings`, copy and overrides per process | PUT and GET settings, get/set/clear a secret | narrator, every settings page | an answered update is there; a secret reported present is one somebody set |
| migrations and container start | `migrations/`, `startup.sh`, `main.py` 80–118 | schema, `schema_migrations`, roles | run all, startup hook | every other container, users API | in order, once, complete; the application starts anyway |
| tenant payload store, ingestion | `storage/`, `ingestion/`, `main.py` 535–592, 721–891 | `ingestion_weekly_payloads`, `LAST_RUN_SUMMARY` | upload, ingest, upsert per range, read by range | weekly metrics, trends | what was answered is stored; the worker and the owner read the same |
| weekly metrics | `metrics/`, `main.py` 1268–1342 | none | compute from the stored payloads | payload store | each sale once, the right windows |
| normalizer | `validation/`, `ingestion/loaders.py` | none beyond the file at hand | headers and rows to canonical records, duplicates, quality score | ingestion | every row of a reported file accounted for, the first of each key kept |
| narrator | `ai/narrator.py` | none | call a provider, validate, fall back | settings store | numbers only from the metrics |
| analytics trends | `routes/analytics.py` 100–207 | none | revenue, expenses and profit per week | payload store | the latest weeks, profit = revenue − expenses |
| authentication, users | `auth.py`, `routes/auth.py`, `routes/users.py` | `users`, tokens | bootstrap, register, login, create, patch, disable | every guard | one first administrator; tenants do not reach each other; a disabled account runs out |
| organizations, businesses, billing, onboarding | `routes/` | three tables | check-then-insert, list | users, schedules | an organization is stored whole, and once |
| frontend session | `auth-provider`, `org-provider`, `routing.ts` | localStorage, React state | restore, login, logout, switch context | `/auth/me` | memory and storage tell of one session, and the headers once the effects have run; nobody sends the organization somebody else has chosen; the context survives a reload |
| frontend job polling | `app/jobs/page.tsx` | timer, job shown, polls under way | generate, poll | job status, session | follows one job, and shows how it ended |
| scripts, formatting, pages, build | various | – | – | – | not modelled, section 7 |

### What is hard here

The list with its source lines is `hazards` in `PROJECT.json`. The groups:
at-least-once calls without idempotency (Twilio, schedule triggers);
read-modify-write without locks (settings, secrets, bootstrap); snapshots that
age (schedules in a cycle, claims of a token, memory copies); several places written
by one
operation, each of which may fail alone (job, ledger, timeline; row and
override; migration and its row; organization and administrator); two pieces of code
that must agree
(`_should_run` and `_compute_next_run`; costs and WhatsApp statistics); runners
that start together; answers that arrive after a later question (frontend).

## 2. Modules

| module | models | checked with | proofs |
|---|---|---|---|
| `ScheduleCalendar` | `_should_run`, `_compute_next_run` as operators | `MCCalendarCheck` | `SchedulerProofs` |
| `CalendarCheck` | the worker looking at one schedule, and the first firing by definition | `MCCalendarCheck` | `SchedulerProofs` |
| `WindowedFiring` | abstract: what the worker promises about triggers | refinement | – |
| `Scheduler` | worker thread, table, schedule API, crashes | `MCScheduler` | `SchedulerProofs` |
| `ReportDelivery` | jobs, send with retry, ledger, timeline, statistics | `MCReportDelivery` | `DeliveryProofs` |
| `AdminStore` | requests, failures and restarts, shared by the two below | with them | `SettingsProofs` |
| `SettingsRegister` | abstract: a register of settings | refinement | – |
| `SettingsStore` | non-secret settings, row and memory copies | `MCSettingsStore` | `SettingsProofs` |
| `SecretStore` | one secret: vault, override, key | `MCSecretStore` | `SettingsProofs` |
| `Migrations` | runners, startup.sh, startup hook, roles | `MCMigrations` | `MigrationsProofs` |
| `WeeklyPayloads` | stored payloads, upload and ingest, report figures, trends | `MCWeeklyPayloads` | `IngestionProofs` |
| `Accounts` | users, tokens, organizations, subscriptions, businesses | `MCAccounts` | `AccountsProofs` |
| `Normalizer` | one file from the loader to records and quality report | `MCNormalizer` | `IngestionProofs` |
| `FrontendSession` | session, storage and chosen context of a tab | `MCFrontend` | `FrontendProofs` |
| `JobPolling` | the page that makes and follows a job | `MCFrontend` | `FrontendProofs` |
| `Frontend` | composes the two: guards, 401, reload | `MCFrontend` | `FrontendProofs` |

`SumTheorems` holds lemmas about sums over finite sets, for the figures of
`WeeklyPayloads` and the statistics of `ReportDelivery`; it models nothing.

The `MC…` modules give the constants values and define the symmetry. In every
module an action carries the name of the function it stands for where there is
one. Operators headed "A plausible slip" are no part of the specification: each
is an action or operator as a small mistake would make it, kept to see that the
properties notice.

### Report worker (`ScheduleCalendar`, `Scheduler`, `WindowedFiring`)

Time is counted in ticks; a minute has `TicksPerMinute` of them, so that a cycle
may begin within the minute and the wait of 60 seconds is a minute of ticks. The
calendar is a constant (`MonthStart`), for real months in `CalendarCheck` and
for tiny ones elsewhere. `Scheduler` follows the thread through `pc`: *idle*
(`_STOP_EVENT.wait`), *fetch* (`_fetch_active_schedules`), *cycle* (the for loop,
one schedule at a time, in any order the query may return), *run*
(`_trigger_schedule`, one step per job, then `_record_run`). `snap` is the list
the query returned; it ages while `/schedules` requests (`CreateSchedule`,
`UpdateSchedule`, `DeleteSchedule`) and crashes interleave. Each statement may
fail, alone. `fired`, `unrecorded`, `firedHere`, `offSince` and `calm`
are history for the properties and never decide what an action does.

`WindowedFiring` is the promise behind `_DEDUPE_WINDOW`: two triggers of a
schedule are a window apart unless the record of the earlier one was lost, and
even then one process leaves a minute. `Scheduler` implements it with the
mapping `last <- fired, owed <- unrecorded, here <- firedHere`.

### Report delivery (`ReportDelivery`)

A job is the thread that runs it; `at` is the call it is about to make. Which
organization a job works for is settled when it is made: `Resolved` is
`_resolve_business_org_for_context` with its guard, asked by an administrator or a
platform user, in the context of any organization or of none; `owner` is the
organization column of `businesses`, which `Register` fills once. A job keeps what
was found (`org`), while the phone is looked up again later. `legacy` is history:
the jobs that found no owner. A requested job (`GenerateReport`) and a scheduled one
(`ScheduleJob`) run the same
`_send_whatsapp_report` but differ in what they log and in the organization they
log for (`SendOrg`). `Send` and `SendRaises` are the provider's three outcomes:
accepted, refused, accepted with the answer lost. Rows of the ledger have an id of
their own, like the BIGSERIAL of the table, numbered within their job (`Numbered`):
a second row for a job is a second row, whatever it says. A row of the ledger or
timeline may fail to be written; the job goes on. `Restart` loses `JOBS` and all
threads. `CanRead`, `MessagesSent` and `SuccessCount` are what the endpoints
compute from the tables.

### Settings (`AdminStore`, `SettingsStore`, `SettingsRegister`, `SecretStore`)

`AdminStore` has what both halves of the store share: the thread of a request
(`at`, `host`), statements that fail, processes that are replaced.

A request's thread stops at each statement on the row and each access to the
memory of the process, because those are the points at which another thread can
come in. `LoadRow` ends in *found* or *recall*; line 340 of the store, a read, a
merge and an assignment of the same attribute, is three steps (`Recall`,
`Restore`, `Reread`). A save whose commit's answer is lost counts as failed and
may have happened. Sections and fields are flattened: `deep_merge` of two levels
is a merge of fields.

`SettingsRegister` is one register: a request asks for an update, the update is
applied at one instant, at most once, to the value of that instant, or never.
The mapping is `value <- Stored, asked <- update, open <- Pending`. The store
keeps this promise as long as it is `Calm`: no statement has failed (`fails`) and
no two PUTs have overlapped (`overlapped`). Afterwards it does not: two PUTs that
overlap lose an update, and a load that fails makes the next save write the copy
in memory over the row.

`SecretStore` models one secret, since the four share nothing. Ciphertext is the
pair of plaintext and key; opening it with another key fails the MAC. The key
belongs to the process, because it is read from the environment and may change
with a restart.

### Migrations (`Migrations`)

Each container starts through `startup.sh` or with the application directly
(`Start`); its runner goes through `ensure, create, check, run, record, commit`;
`Boot` starts the application whatever came out, and the startup hook runs the
migrations again if the table of migration 001 is missing. A migration with its
row is one transaction. It comes to its tables one by one (`Lock`, constant
`Locks`), keeps their locks until it ends (`Held`), and waits for a table that
another one has locked (`Waits`) and for its row (`Record`). Migration 001 alters
`businesses` and then reads the payloads, 008 alters the payloads and then reads
`businesses`, so a late runner of 001 and one of 008 can wait for each other;
PostgreSQL then lets the statement of either raise (`Victim`), which ends that
runner like any other error. Migration 005 commits inside `run()` and swallows errors, so
its effects and its row are two events. 006 is modelled by what it does to roles:
every `admin` becomes `super_admin`, under a lock; before it, the CHECK admits
only `admin`. `WriteRole` is the users API of any container that serves.
`runs[m]` counts how often the effects of `m` were committed, `faults` what has
failed so far; `circled` is history.

### Stored payloads and figures (`WeeklyPayloads`)

The module follows one business: figures are computed per business and its rows
meet no others. `rows` is its part of the table, a set with one row per dataset
and range; `owner` is the organization column of its own row, which does not
exist before `Register`. A request resolves the organization (`org`), then stores
sales and outflows in two transactions (`at` is the next one), then writes
`LAST_RUN_SUMMARY`. An upload excludes uploads because its `async` handler never
yields the event loop; ingests run in the thread pool and interleave with
everything. A file is the set of entries the normalizer keeps of it; a file that
cannot be read is stored as a payload without records, as the loaders make it.
`Init` admits a row from before the column `organization_id`. The timeline entry
of an upload is left out.

A report or a trend reads each dataset in one statement, so what they compute
(`WeeklyRevenue`, `SlowMovers`, `TrendRows`, `ProfitPoint` and so on) are
operators on `rows`. The two SELECTs of the trends are taken at one instant. The
worker's reports ask without an organization (`Null`), requests ask with one;
`SameForWorker` is about that difference. `CountedOnce` and `TrendMatchesReport`
are stated for `Tidy` payloads, which hold sales of their own range and do not
overlap: the handlers accept any range, and for payloads that are not tidy
neither holds (section 6).

### Accounts (`Accounts`)

Every handler of these routes checks first and writes later. A request is taken
by a thread when its checks pass (`Bootstrap`, `RegisterFirst`, `Register`,
`Login`, `CreateUser`, `UpdateUser`, `DeleteUser`, `CreateOrganization`,
`Onboard`, `CreateBusiness`) and what it is about to write waits in `job`; then
one transaction writes it (`InsertUser`, `UpdateRow`, `FoundOrganization`,
`Subscribe`, `InsertBusiness`), or `IssueToken` answers. Between the two anything
may happen. `Ends` has the outcomes of a transaction: committed, committed with
the answer lost, refused by a key or a WHERE clause, or failed. Requests that
fail their checks change nothing and are left out.

A token is its claims and the ticks it has left. The guards look at the claims,
not at the row, so `Actors` is what valid tokens say, beside `ADMIN_TOKEN`. What
the claims still bind is the WHERE clause of `update_user` and `delete_user`
(`Matches`). `founder`, `public`, `contended` and `quiet` are history.

### Normalizer (`Normalizer`)

The two loops of a file are steps: `ReadRow` is one turn of the first, with the
`continue` at which the row leaves it (`SalesError`, `MpesaError`),
`Deduplicate` one of the second. A cell is what the parsing helpers make of it,
or `None`. `_apply_alias_map` takes the first of a list made from a set, so
`ApplyAliasMap` takes any. A column that had the canonical name keeps it, so that
two columns may have one name: `row.get` is then a Series, of which
`_parse_decimal` makes no number, `_clean_string` a text with both cells and the
number of the row, and `_parse_date` an exception (`Twice`, `RowCells`, `Raises`).
`quantize` raises for numbers of more digits than the decimal context has
(`TooLong`, `Limit`). Nobody catches these (`RowRaises`): the file has no report.
Warnings are counted as the code counts them, an
empty phone cell included. The score (`Penalty`, `Score`, `Band`) is the table of
`_derive_quality`; an unreadable file has the constant report of the loader.

### Frontend (`FrontendSession`, `JobPolling`, `Frontend`)

A handler is a step, and the effects of `OrgProvider` are another: React runs them
after it has rendered what the handler changed, and until then requests, those of
the pages' own effects among them, take the headers there are. `pending` says what
they still have to see: a new user, for which both run, the first of them choosing
from `localStorage` what the second sees after the next render, or a new selection.
`stored` is `localStorage`; `api` is the variable of the API layer that the headers
are made from; `asked` is the token `/auth/me` is being asked about, which may be
answered after a login or logout. A login may be under way meanwhile (`Submit`) and
answered when the session is there (`Login`); elsewhere nothing can come before its
answer, and the two are one step. One login is under way at a time, and nobody
clicks before the effects of the screen have run.

The page of jobs keeps the polls under way in the order they were sent, with what
the server read for each, because the interval does not wait for answers. Jobs are
numbered in the order they are made. Late
answers set the status shown and stop whichever interval is running (`Answer`).
Leaving the page clears the interval and nothing else; a page that is opened
again has refs of its own, so `OpenJobs` waits until nothing of the last visit is
under way. `Frontend` adds the guards, which take the page away when the session
no longer allows it (`Guarded`), and the 401 of a poll, which logs out
(`Unauthorized`). `chosen`, `overlapped` and `crossed` are history.

## 3. Runs

Each "pass" run is exhaustive for its bounds; each "violation" run shows one
disagreement between a doc, comment or test and the code (section 6).

| run | bounds | shows |
|---|---|---|
| `calendar` | Jan–July, 30-odd timings per frequency, all instants | the announced next run is the first later minute that is due |
| `scheduler_one` | 1 schedule of every frequency, 2 businesses, 9 ticks (a day is 6), 1 edit, failures and crashes | refinement, stop is respected, the projection, each cycle ends |
| `delivery_two` | 2 jobs, 2 organizations, one of them the default, requests in either's context or in none, 2 attempts, a business without phone and one that is registered late, test send, restart | ledger, failed jobs, tenants, statistics, every completed job concludes |
| `settings_reliable` | 2 processes, 3 requests, 2 fields, 1 PUT and 1 GET at a time, 1 failure, 1 restart | register refinement, answers |
| `secret_overlap` | 2 processes, 3 requests, 2 at a time, 1 failure, 1 restart, 2 keys | nothing but set secrets is ever returned; override and vault agree |
| `migrations_two` | 4 migrations (001, 005, 006, 008 with the order of their locks), 2 containers, 3 starts, 2 faults | order, once, roles, somebody completes, every start serves, circles of waiting runners included |
| `payloads_two` | 2 requests, 5 bundles over 3 ranges of which two overlap, an old payload, 2 organizations, windows of 2, 3 and 7 days, slow days 7, 14 and 20, 2 trend weeks, restarts and failures | answered payloads are kept, each sale counts once, report and trend agree, slow movers are slow, the worker reads what the owner reads |
| `accounts` | 2 people, 2 organizations, 1 business, 2 threads, 3 requests, tokens of 1 tick, an empty database and two that are in use | tenants stay apart, a disabled account runs out, one first administrator, whole organizations |
| `normalizer` | up to 3 rows of sales or M-Pesa, columns missing, there twice, or beside their canonical name, numbers too long, empty and unreadable files | rows accounted for, first of each key |
| `frontend` | a platform administrator and a tenant in one tab, 1 organization, 2 jobs, 2 polls under way | one session, no tenant sends an organization, one job followed, its end shown |
| `trends_profit`, `context_reload` | as `payloads_two`, as `frontend` | section 6 |

A configuration names the properties that its question is about. Type invariants
and inductive invariants that are theorems (section 4) are not repeated in every
configuration; all were checked by TLC before they were proved.

Why the bounds suffice. Scheduler: the hazards are pairs of events (trigger and
lost record, snapshot and edit, crash and restart); 9 ticks reach the firing of
the second day, so that a schedule fires, is edited or restarted, and fires
again; the window (5 ticks) lies between a minute (2) and a day (6), as 55
minutes do. Delivery: jobs share only tables and rows carry their job, so a third
job adds nothing to pairwise properties; two attempts are `max_attempts`'
default; of the organizations one is the default one, and a business of nobody is the
one that can change hands between two jobs. Settings: two fields tell a lost update
from an overwritten one, three
requests allow two PUTs and a GET. Secrets: one is set, one is replaced, one is
cleared. Migrations: collisions are pairwise, circles of 001 and 008 have two members, and
the two special migrations stand between them. Payloads: two requests
collide or follow each other on one range, and the old payload gives a third row,
one more than `TrendWeeks`, so that the limit of the trends cuts; sales lie on the
first and the last day of a week, and a window of two days is shorter than the
week before it. Accounts: what a check saw and another request changed is a pair of
requests, and a third makes the state they meet in; the two databases in use hold
the accounts it would take more requests to make; a token of one tick is still
valid after the change and expired after the next tick. Normalizer: a duplicate, a
row between and its original are three rows; the limit of digits is set low (10.00)
so that single cells and a product of two exceed it. Frontend: an answer of an older job
beside one of the newer are two jobs and two polls. What the bounds cut off is
covered by the theorems, which have no bounds, except for liveness.

Bounds are constants with the comment "bound": `MaxEdits`, `Horizon`,
`MaxPuts`, `MaxGets`, `MaxInFlight`, `MaxRestarts`, `MaxFails`, `MaxFaults`,
`MaxStarts`, `MaxRequests`, `MaxPolls`. Deadlock
checking is off in all configurations because every behaviour ends at its bounds.

Each property of each pass run has a mutant in `PROJECT.json`: the specification
with one of the plausible slips in place, under which TLC finds the property
violated.

### Fairness

`Scheduler!FairSpec`: weak fairness of the thread's steps, of time, and of
starting the process again; a Python thread runs and its calls return or raise.
`Migrations!FairSpec`: weak fairness of
each container's runner and startup; a lock wait ends when its holder's
transaction does or the server's deadlock detector breaks the circle, which it runs
after `deadlock_timeout`, and no fairness is assumed of failures, crashes or requests.
Nothing is assumed about which of two waiting runners wins.
`Frontend!FairSpec`: weak fairness of the interval, which the browser fires, and
of the first poll under way, which is answered or given up: `apiRequest` aborts a
request that is not answered in time. Nothing is assumed of the server or the
person at the screen.

## 4. Theorems

All are checked by TLAPS, for every value of the constants that satisfies the
named ASSUMEs of the module (a calendar of positive months, a split among the
migrations, and the like).

Every invariant and every action property that a run checks is one of them.

* `SchedulerProofs`: `TypeCorrect`, `FiringInvariant`, `ImplementsPromise`
  (refinement of `WindowedFiring`), `StoppedSchedules`, `ProjectionTheorem`,
  `RefreshTheorem`, and about the calendar `NextRunLater` and `FirstDueTheorem`.
  The promise is not inductive: the dedupe check reads a snapshot. `FiringInv`
  adds that what is stored, and what the snapshot holds for schedules still to be
  treated, is the latest trigger unless its record was lost, that a schedule
  leaves `todo` before it is triggered, and that the wake-up time keeps a minute
  from every trigger of this process. `RefreshTheorem` needs `CalmInv`: in a cycle
  nothing disturbs, the snapshot agrees with the table for what is still to be
  treated, and the rest is refreshed. `FirstDueTheorem` holds for every calendar,
  every length of a week and every timing. Its lemmas say that `StartOf` reads back
  as day and minute and keeps the order of days, that the days of one weekday are a
  week apart, and that a day lies in one month only; a candidate is then the start
  of the first day the schedule fires on (`IsFirst`), for each frequency. It keeps
  the two hypotheses of the property: `_compute_next_run` ignores `start_date`, and
  clamps days that a month does not have (section 6).
* `DeliveryProofs`: `TypeCorrect`, `DeliveryInvariant`, `LedgerTheorem`,
  `FailedJobsTheorem`, `TenantInvariant`, `TenantTheorem`, `ConcludeTheorem`,
  `StatsTheorem`. `DeliveryInv` says for each place in the code what the provider can
  have accepted and that the row is not written yet; that a job is charged once, by
  one row with one id, follows, because every place at which a row is written is left
  by writing it. `TenantInv` says what the guard at the creation has found: the
  organization of a job is that of its business, or the default one of a business
  that was nobody's; a job of the latter kind finds no phone as long as its
  organization does not own the business, so it reaches the timeline and never the
  ledger. It is kept by `Register` because an organization once given does not
  change (`Settled`). `StatsTheorem` adds up the ledger by business: the same
  invariant gives every row of an organization one of its businesses, the rows are
  finitely many, and `SentAddsUp` takes the businesses one by one.
* `SettingsProofs`, non-secret settings: `TypeCorrect` whatever happens;
  `HoldsTheorem`, `KeptTheorem`, `AnswerTheorem` and `RegisterTheorem` as long as the
  store is `Calm`, with any number of processes, GETs and restarts. `HoldsStored`,
  the thread about to save holds what is stored, is strengthened by `RowInv`: one
  PUT is in flight, and while there is no row every copy is the defaults.
  `AnswerInv` adds that a PUT whose answer is being prepared has its row, so that it
  never falls back to the copy in memory.
* `SettingsProofs`, secrets: `SecretTypeCorrect` and `AuthenticTheorem` with no
  assumption about failures or overlap, by an invariant about where each secret came
  from; `SetTheorem` and `BackedTheorem` until requests overlap. `SetInv` says that
  a PUT finds its own override before it would ask for the row. `BackedInv` needs
  one process and no failure: an override is what the vault holds, except between
  the two writes of the request that is changing them.
* `MigrationsProofs`: `TypeCorrect`, `RunnerTheorem`, `OrderTheorem`,
  `OnceTheorem`, `AdminsTheorem`, `CompletesTheorem`, for any number of containers,
  any list of migrations, failures and crashes. `RunnerInv` says that a runner has
  seen every row before its own, and that a transaction about to commit is alone and
  finds its row missing. `CompletesTheorem` (two runners that collide do not both
  give up) holds because some runner always leads (`Leads`): nothing that another
  one has committed will stop it, and it loses the lead only to the runner that
  commits before it. It leaves out the runs in which a circle was broken, for which it
  does not hold (section 6).
* `IngestionProofs`, payloads and figures: `TypeCorrect`, `StoredTheorem`,
  `AnsweredTheorem`, `CountedTheorem`, `TrendTheorem`, `SlowTheorem`,
  `WorkerTheorem`, for any number of requests, any files, ranges, windows and
  lookbacks. `AnsweredKept` is not inductive, because an answer is given steps after
  the payload was stored; `StoredInv` says for each place in the handler which
  datasets are already in the table. `CountedTheorem` rests on the payload of a sale
  being loaded with it: a tidy payload that holds a day of the window or of the week
  before overlaps the range that is loaded. In `TrendTheorem` the report adds up all
  payloads it has loaded and the trend one row: of tidy payloads all but that one
  contribute nothing (`OnlyOne`).
* `IngestionProofs`, normalizer: `SheetTypeCorrect`, `FirstTheorem`,
  `AccountingTheorem`, for any sheet. `SplitInv` says for each
  loop which of the rows reached so far are records and which are kept, `CountInv`
  that the counters are the cardinalities of the rest, and `Accounting` adds them
  up.
* `AccountsProofs`: `TypeCorrect`, `TenantsTheorem`, `OrganizationsTheorem`,
  `DisabledTheorem`, `FirstTheorem`, for any people, organizations, requests in
  flight and token lifetime. None of the four stands alone. `JobInv` says what the
  checks have established for what a thread is about to write: a job of an
  organization's administrator holds no change beyond that organization.
  `PlacedInv` adds that a business waits for an organization that exists,
  `QuietInv` that what a token has left and how long its account has been quiet
  add up to no more than its lifetime, and `FirstInv` that without contention at
  most one public request is under way, and then nobody has been made by one.
* `FrontendProofs`: `TypeCorrect`, `SessionTheorem`, `TenantsTheorem`,
  `FollowsTheorem`, for any people, jobs and number of polls under way. `SessionInv`
  says that a stored token is asked about exactly while the tab is not ready, and that
  until the answer there is no user, no organization in the headers and nothing left
  for the effects, unless somebody has logged in over it: which is why a tenant whose
  session is restored finds no headers of somebody else. `FollowInv` says of a page on
  which no answer has
  crossed that the polls under way read the statuses in order, that an end once read
  is what every later poll reads, and that nothing is shown or polled before there
  is a job. Its lemmas say what taking one poll out of the list leaves.
* `SumTheorems`: the sum over a set takes one element and leaves the sum over the
  rest, is an integer, and is that of the only element that counts. The induction
  theorems of the library take an operator as parameter, which no installed prover
  can instantiate; here, and for the order of months and the count of the ledger, the
  induction is a least counterexample (`LeastNat`, `LeastSet`), from the
  well-foundedness of `<`.

`FiringInv`, `DeliveryInv`, `RunnerInv`, `StoredInv` and the register's `HoldsStored`
and `UpdatesKept` are theorems and no longer part of a run.

Only model-checked: liveness (`CycleEnds`, `StartsServe`, `EndIsShown`), which is out
of the prover's reach.

## 5. Assumptions of the models

* PostgreSQL: statements of READ COMMITTED transactions are atomic; a failing
  commit may have happened; a unique key lets one of two concurrent inserts wait
  and then fail; `ALTER TABLE` locks to the end of its transaction, against every
  other use of the table; in a circle of waiting transactions the server makes the
  statement of one raise.
* Ids from `uuid4` never repeat.
* A token is forged by nobody, and `localStorage` is written by one tab.
* One process runs the worker (`docs/deployment.md`). Two are outside the model.
* A file has finitely many entries, and there are finitely many businesses
  (`PayloadAssumption`, `DeliveryAssumption`).
* The calendar of `CalendarCheck` reaches a month and a week beyond the last look
  (`LookAssumption`).
* A cell of a number column is a number or `None`, which is all `_parse_decimal`
  returns (`NumberFields`, in `IsSheet`).
* Clocks do not go backwards; daylight saving is not modelled (the default zone
  has none).

## 6. Where code and documentation disagree

Each is a run that TLC finds violated; `findings` in `PROJECT.json` has the
quotes.

* `trends_profit`: the profit trend never subtracts expenses, because the point it
  is computed from has had the expense added to it; the total profit does.
* `context_reload`: the organization a platform administrator has chosen is erased
  by a reload, although `org-provider.tsx:49` says that it survives: the effect
  that clears it runs before the stored user is there.

Met while modelling, visible in the definitions, without a run of their own.

Worker, delivery, migrations, settings, figures:

* A monthly schedule on day 29–31 is announced for the last day of a shorter month
  and does not fire there (`ShouldRun`, `MonthlyFiring`).
* The loop waits a minute after a cycle of any length and can step over the minute
  of a firing.
* The schedule form numbers the days of a week from Sunday (`schedule-manager.tsx:22`),
  the worker from Monday (`weekday()`, `scheduler.py:154`), so a weekly report comes a
  day later than the form says. `NextRunIsFirstDue` compares two functions of the
  worker, which agree with each other.
* Scheduled deliveries are booked to `system`, not to the organization that owns
  the business (`SendOrg`, `scheduler.py:348`): its costs and statistics miss them.
* A platform user's report on a business of nobody is booked to `default_org`, and that
  organization still reads job and timeline entry when the business has been registered
  for another one (`legacy`).
* Migration 005 is recorded although its statements failed (`Commit`).
* `_compute_next_run` never reads `start_date` (`Candidate`), so a schedule is
  announced for days before it starts.
* A schedule skipped inside its dedupe window keeps the next run of its old timing
  (`SkipSchedule`; the comment at `scheduler.py:74` says otherwise).
* `last_status` is never anything but `success` (`RecordRun`).
* `total_sent` counts failed attempts too (`analytics.py:77`); `StatsAgree` compares
  the count behind the success rate.
* A restart forgets the jobs under way (`JOBS`): what they would have said is lost, and
  a message may have been accepted without a row (`Restart`).
* Two overlapping PUTs of different fields lose an update, and a PUT whose save
  failed is answered with the old row when the next load succeeds (`Calm` in
  `SettingsStore`).
* A clear of a secret that overlaps a set or a get leaves an override with nothing
  stored (`OverrideBacked` is stated for requests that do not overlap).
* Every `admin` there is when 006 runs becomes a platform admin, those that were
  appointed for an organization included.
* A late runner of 001 and a runner of 008 may wait for each other; if the server makes
  the second the victim and the first then finds its row there, both have failed and
  008 is not applied before the next start (`Victim`, `circled`).
* The startup hook takes the table of migration 001 for the whole schema (`Boot`).
* An unreadable file replaces the stored week by one without records (`Read`;
  `docs/SCHEMAS.md` 3.1 says that it is rejected).
* With the default of 14 days no product of a whole-week payload is ever a slow
  mover: payloads that end before the previous week are not loaded (`Loaded`,
  `SlowMovers`; `weekly_metrics.py:124`).
* Overlapping ranges are stored side by side and their common sales count twice.
* The trends take the oldest 52 rows of a business (`analytics.py:55`), so once there are
  more the latest weeks are missing; `TrendMatchesReport` is about the rows shown.
* A payload ingested before its business is registered belongs to `system`: the
  worker's reports include it, the owner's do not (`SameForWorker`).

Accounts:

* Two bootstraps, or two first registrations, that overlap can make two first
  administrators (`contended`). After the last platform administrator has lost
  that role the public first registration opens again, as long as
  `ALLOW_BOOTSTRAP_ADMIN` is set.
* PATCH can make combinations of role and organization that POST refuses and
  `docs/database.md:100` excludes; `/auth/register` accepts an `sme_user` without
  an organization; accounts may be placed in organizations that do not exist.
* DELETE refuses one's own account, PATCH with `is_active` false does not.

Normalizer:

* Which of several columns of one meaning is read depends on the order of a set
  (`ApplyAliasMap`; `docs/SCHEMAS.md:4` says deterministic). With the canonical name
  among them two columns of one name may result: dates raise, quantities and prices
  are refused, totals are recomputed without a word, and product, invoice or code become
  texts that name their row, so that equal rows are no duplicates any more, against
  `docs/SCHEMAS.md:108`.
* A number of more than 26 digits before the point, 1E30 say, and a quantity and price
  whose product has as many, make `quantize` raise outside every `try`
  (`normalizers.py:125`, `313`): the upload ends in an error of the server, without a
  report (`RowRaises`).
* `_clean_string` strips before it cuts to 255 characters (`normalizers.py:103`), so a
  text cut at a space is another one when it is read again. No property is about reading
  a record twice.
* An empty phone cell counts as one that cannot be normalized.
* Range, product and direction errors carry no penalty, so a file of which every
  row is rejected may score 99, "High" (`docs/SCHEMAS.md:159`); a row more that is
  invalid may raise a score, because it lowers a rate. Band "Low" stops nothing
  (`docs/SCHEMAS.md:161`).
* The key of M-Pesa without a code and `VALUE_RANGE_003` are never reached. Without
  an invoice number equal sales of one day merge.

Frontend:

* A login while a stored session is being restored may be overwritten by the late
  answer, or leave memory and storage with one session each (`overlapped`).
* "View as user" stores the organization selected before with the new business
  (`ViewAs`).
* A second tab erases the context the first has stored.
* Effects of children run before those of `OrgProvider` and take the headers at once
  (`app/page.tsx:180-186`, `api.ts:414`), so the first requests after a switch carry the
  organization selected before (`pending`; `SessionWhole` speaks of the time after the
  effects). A logout leaves the selection in memory, so the first requests of the next
  platform administrator may carry that of the last one.
* A late answer about an earlier job is shown as the status of the newer one and
  stops its interval; an overtaken "running" may stay on the screen; an answer
  after the page was left starts an interval that nobody clears; a late 401 of a
  poll logs out whoever is logged in by then (`crossed`, `Unauthorized`).
* The dashboard's requests (`app/page.tsx` 101–178) are not cancelled, and the last
  answer wins.

Narrator: `TimeoutError`, `IndexError` and `KeyError` of a provider escape the
fallback that `docs/UI_SPEC.md` promises.

## 7. Not modelled

Planned, in this order:

1. A composition of `Scheduler` and `ReportDelivery` (a trigger creates jobs), to
   carry the promise about triggers through to messages.
2. Repeat customers and top products, beside the figures of `WeeklyPayloads`.
3. `Narrator`: stateless; its fallback and validation as operators checked against
   a reference definition.

Partly modelled: of the tenant guards, those of the routes whose handlers are
actions; of Twilio, what `main.py` can observe of it; of the frontend, the session
and the job page, whose shape the other pages share.

Left out: parsing and formatting of cells, numbers and messages; rendering;
`run_sql_file.py`, `clear_tenant_data.py` and the manual SQL file (single
transactions run by hand); the arithmetic of encryption; build, deployment and
sample files.
