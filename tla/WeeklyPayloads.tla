---------------------------- MODULE WeeklyPayloads ----------------------------
(***************************************************************************)
(* The normalized payloads of a business: the two handlers that store them *)
(* (POST /admin/upload/weekly and POST /ingest/weekly), the table          *)
(* ingestion_weekly_payloads, the weekly figures that reports compute from *)
(* it and the trends of GET /analytics/metrics.                            *)
(*                                                                         *)
(* A request resolves the organization of the business, stores its sales   *)
(* and then its M-Pesa payload, each in a transaction of its own, and      *)
(* writes LAST_RUN_SUMMARY.  An upload occupies the event loop from start  *)
(* to end and excludes other uploads; ingests run in the thread pool and   *)
(* interleave with everything.  Reports read the table in one statement,   *)
(* so they are operators on it.                                            *)
(***************************************************************************)
EXTENDS Integers, FiniteSetsExt

CONSTANTS
    Requests,
    Orgs,
    Default,        \* DEFAULT_ORG_ID, for a business nobody has registered
    Null,           \* SQL NULL: no organization, no business row, no request
    Platform,       \* a super_admin without an organization selected
    Ranges,         \* [start, end], days as integers
    Entries,        \* rows of files: sales with day, amount and product, or outflows
    Day, Amount, Product,
    Files,
    Content,        \* [Files -> the entries the normalizer keeps of a file]
    Readable,       \* the files the loaders can read
    Bundles,        \* what is sent: a range, and a file or Absent for each dataset
    Absent,
    TrendWeeks,     \* LIMIT 52
    Windows,        \* the week_start and week_end reports are asked for
    SlowDays        \* slow_mover_days

Datasets == {"excel_sales", "mpesa"}

ASSUME PayloadAssumption ==
    /\ Orgs \cap {Default, Null, Platform} = {} /\ Default # Null
    /\ Null \notin Requests
    /\ Ranges \subseteq [start : Int, end : Int]
    /\ \A range \in Ranges : range.start <= range.end
    /\ Day \in [Entries -> Int] /\ Amount \in [Entries -> Nat]
    /\ Content \in [Files -> SUBSET Entries] /\ Absent \notin Files
    /\ \A f \in Files : IsFiniteSet(Content[f])
    /\ Bundles # {}
    /\ Bundles \subseteq [range : Ranges, file : [Datasets -> Files \cup {Absent}]]
    /\ \A b \in Bundles : \E d \in Datasets : b.file[d] # Absent
    /\ TrendWeeks \in Nat
    /\ Windows \subseteq [start : Int, end : Int]
    /\ \A w \in Windows : w.start <= w.end
    /\ SlowDays \subseteq Nat \ {0}

VARIABLES
    owner,      \* businesses.organization_id; Null until it is registered
    rows,       \* ingestion_weekly_payloads, the rows of the business
    kind,       \* [Requests -> which endpoint]
    bundle,     \* [Requests -> what it was sent]
    org,        \* [Requests -> organization_id, as resolved]
    at,         \* [Requests -> where it is]
    lastRun     \* LAST_RUN_SUMMARY: the request that wrote it

asked == <<kind, bundle, org>>
vars == <<owner, rows, asked, at, lastRun>>

Row == [dataset : Datasets, range : Ranges, org : Orgs \cup {Default, Null},
        by : Requests \cup {Null}, records : SUBSET Entries]

InFlight(r) == at[r] \in Datasets \cup {"close"}

\* UNIQUE (business_id, dataset, week_start, week_end).
SameKey(x, y) == x.dataset = y.dataset /\ x.range = y.range

TypeOK ==
    /\ owner \in Orgs \cup {Null}
    /\ rows \subseteq Row
    /\ \A x, y \in rows : SameKey(x, y) => x = y
    /\ kind \in [Requests -> {"upload", "ingest"}]
    /\ bundle \in [Requests -> Bundles]
    /\ org \in [Requests -> Orgs \cup {Default}]
    /\ at \in [Requests -> Datasets \cup {"idle", "close", "answered", "failed", "lost"}]
    /\ lastRun \in Requests \cup {Null}

\* A new table, or one with a payload of the time before organization_id.
Init ==
    /\ owner \in {Null} \cup Orgs
    /\ rows \in {{}} \cup {{x} : x \in {y \in Row : /\ y.dataset = "excel_sales"
                                                    /\ y.org = Null /\ y.by = Null
                                                    /\ IsFiniteSet(y.records)
                                                    /\ \A e \in y.records :
                                                          Day[e] \in y.range.start..y.range.end}}
    /\ kind = [r \in Requests |-> "upload"]
    /\ bundle = [r \in Requests |-> CHOOSE b \in Bundles : TRUE]
    /\ org = [r \in Requests |-> Default]
    /\ at = [r \in Requests |-> "idle"]
    /\ lastRun = Null

-----------------------------------------------------------------------------
(***************************************************************************)
(* Storing.                                                                *)
(***************************************************************************)

\* POST /businesses: the business gets its organization, once.
Register(o) ==
    /\ owner = Null
    /\ owner' = o
    /\ UNCHANGED <<rows, asked, at, lastRun>>

\* An organization passes for its own business only; the platform without one
\* works for the owner, or for Default as long as there is none.
Allowed(actor) == actor \in {Platform, owner}
Resolved == IF owner = Null THEN Default ELSE owner

\* The datasets a bundle has a file for, and where its request goes after one.
Given(b) == {d \in Datasets : b.file[d] # Absent}
First(b) == IF b.file["excel_sales"] # Absent THEN "excel_sales" ELSE "mpesa"
After(b, d) == IF d = "excel_sales" /\ b.file["mpesa"] # Absent THEN "mpesa" ELSE "close"

\* The handler starts: it is let through by _resolve_business_org_for_context, or
\* refused, or gets no connection.
Begin(r, k, actor, b) ==
    /\ at[r] = "idle"
    /\ kind' = [kind EXCEPT ![r] = k]
    /\ bundle' = [bundle EXCEPT ![r] = b]
    /\ org' = [org EXCEPT ![r] = Resolved]
    /\ \/ Allowed(actor) /\ at' = [at EXCEPT ![r] = First(b)]
       \/ at' = [at EXCEPT ![r] = "failed"]
    /\ UNCHANGED <<owner, rows, lastRun>>

\* POST /admin/upload/weekly: one after the other on the event loop.
Upload(r, actor, b) ==
    /\ \A s \in Requests : InFlight(s) => kind[s] # "upload"
    /\ Begin(r, "upload", actor, b)

\* POST /ingest/weekly: in the thread pool.
Ingest(r, actor, b) == Begin(r, "ingest", actor, b)

\* The loaders turn a file they cannot read into a result without records.
Read(file) == IF file \in Readable THEN Content[file] ELSE {}

Payload(r, d) == [dataset |-> d, range |-> bundle[r].range, org |-> org[r], by |-> r,
                  records |-> Read(bundle[r].file[d])]

\* A plausible slip: ON CONFLICT DO NOTHING.
InsertOnly(x) == IF \E y \in rows : SameKey(x, y) THEN rows ELSE rows \cup {x}

\* Another: the UNIQUE key is not the conflict target.
Appended(x) == rows \cup {x}

\* INSERT ... ON CONFLICT DO UPDATE: the organization is never NULL here, so
\* COALESCE takes the new one.
Upserted(x) == {y \in rows : ~SameKey(x, y)} \cup {x}

Store(r, d) ==
    /\ at[r] = d
    /\ rows' = Upserted(Payload(r, d))
    /\ at' = [at EXCEPT ![r] = After(bundle[r], d)]
    /\ UNCHANGED <<owner, asked, lastRun>>

\* The upsert raises: rolled back, or committed and the answer lost.  What was
\* stored before stays.
StoreFails(r, d) ==
    /\ at[r] = d
    /\ rows' \in {rows, Upserted(Payload(r, d))}
    /\ at' = [at EXCEPT ![r] = "failed"]
    /\ UNCHANGED <<owner, asked, lastRun>>

\* _update_last_run and the answer.  The timeline entry of an upload is like
\* those of ReportDelivery and left out.
Close(r) ==
    /\ at[r] = "close"
    /\ lastRun' = r
    /\ at' = [at EXCEPT ![r] = "answered"]
    /\ UNCHANGED <<owner, rows, asked>>

\* The process ends, its requests and LAST_RUN_SUMMARY with it.
Restart ==
    /\ lastRun # Null \/ \E r \in Requests : InFlight(r)
    /\ lastRun' = Null
    /\ at' = [r \in Requests |-> IF InFlight(r) THEN "lost" ELSE at[r]]
    /\ UNCHANGED <<owner, rows, asked>>

Next ==
    \/ \E o \in Orgs : Register(o)
    \/ \E r \in Requests :
         \/ \E actor \in Orgs \cup {Platform}, b \in Bundles :
              Upload(r, actor, b) \/ Ingest(r, actor, b)
         \/ \E d \in Datasets : Store(r, d) \/ StoreFails(r, d)
         \/ Close(r)
    \/ Restart

Spec == Init /\ [][Next]_vars

-----------------------------------------------------------------------------
(***************************************************************************)
(* What a report computes from the table.                                  *)
(***************************************************************************)

\* A plausible slip: payloads without an organization are forgotten.
VisibleStrict(asker, d) ==
    {x \in rows : x.dataset = d /\ (asker = Null \/ x.org = asker)}

\* The WHERE clause: the worker's reports ask without an organization (Null).
Visible(asker, d) ==
    {x \in rows : x.dataset = d /\ (asker = Null \/ x.org \in {asker, Null})}

\* The previous week of a report is the seven days before its window, whatever
\* the length of the window (_compute_weekly_metrics).
PrevStart(w) == w.start - 7

Overlap(x, first, last) == x.range.end >= first /\ x.range.start <= last

\* Plausible slips: the boundary days are left out; the previous week is not loaded.
LoadedInside(asker, w) ==
    {x \in Visible(asker, "excel_sales") :
        x.range.end > PrevStart(w) /\ x.range.start < w.end}
LoadedWindow(asker, w) ==
    {x \in Visible(asker, "excel_sales") : Overlap(x, w.start, w.end)}

\* get_payloads_in_range.
Loaded(asker, w) ==
    {x \in Visible(asker, "excel_sales") : Overlap(x, PrevStart(w), w.end)}

\* The records of all loaded payloads are put one after the other: a record is
\* counted once for every payload it is in.
Counted(x, first, last) == {e \in x.records : Day[e] \in first..last}
Sum(payloads, first, last) ==
    SumFunctionOnSet([x \in payloads |-> SumFunctionOnSet(Amount, Counted(x, first, last))],
                     payloads)
WeeklyRevenue(asker, w) == Sum(Loaded(asker, w), w.start, w.end)
PreviousRevenue(asker, w) == Sum(Loaded(asker, w), PrevStart(w), w.start - 1)

\* A plausible slip: the last sale within the window counts, not the last of all.
SlowMoversFirst(asker, w, days) ==
    LET sold == UNION {x.records : x \in Loaded(asker, w)}
    IN  {Product[e] : e \in {s \in sold : Day[s] < w.end - (days - 1)}}

\* Products whose last loaded sale is before the lookback starts.
SlowMovers(asker, w, days) ==
    LET sold == UNION {x.records : x \in Loaded(asker, w)}
    IN  {Product[e] : e \in {s \in sold :
            \A t \in sold : Product[t] = Product[s] => Day[t] < w.end - (days - 1)}}

-----------------------------------------------------------------------------
(***************************************************************************)
(* The trends: the oldest TrendWeeks payloads (payloads that start on the  *)
(* same day as the last of them included), every record whatever its day.  *)
(***************************************************************************)
TrendRows(asker, d) ==
    {x \in Visible(asker, d) :
        Cardinality({y \in Visible(asker, d) : y.range.start < x.range.start}) < TrendWeeks}

RecordsTotal(x) == SumFunctionOnSet(Amount, x.records)

\* mpesa_by_date: of two payloads with one week_start the last read stays.
Outflow(asker, x) ==
    LET same == {y \in TrendRows(asker, "mpesa") : y.range.start = x.range.start}
    IN  IF same = {} THEN 0 ELSE RecordsTotal(CHOOSE y \in same : TRUE)

\* _enrich_expenses adds the outflow to the point of the week, and then takes
\* both terms of the profit from the point it has changed.
ExpensesPoint(asker, x) == 0 + Outflow(asker, x)
ProfitPoint(asker, x) ==
    LET restored == RecordsTotal(x) + ExpensesPoint(asker, x)
    IN  restored - ExpensesPoint(asker, x)

Total(Point(_), payloads) == MapThenSumSet(Point, payloads)
TotalProfit(asker) ==
    LET weeks == TrendRows(asker, "excel_sales")
    IN  Total(RecordsTotal, weeks) - Total(LAMBDA x : ExpensesPoint(asker, x), weeks)

-----------------------------------------------------------------------------
(***************************************************************************)
(* Properties.  Askers are the requests for the owner (or for Default) and *)
(* the worker.                                                             *)
(***************************************************************************)
Askers == {Resolved, Null}

Within(x) == \A e \in x.records : Day[e] \in x.range.start..x.range.end
Apart(x, y) == x.range.end < y.range.start \/ y.range.end < x.range.start

\* Every payload holds sales of its own range, and the ranges do not overlap.
\* Nothing in the handlers makes users keep to that.
Tidy(asker) ==
    \A x \in Visible(asker, "excel_sales") :
        /\ Within(x)
        /\ \A y \in Visible(asker, "excel_sales") : x = y \/ Apart(x, y)

\* Of tidy payloads, a report on any window counts each sale of its week and of
\* the week before once, wherever the bounds of payloads and window fall
\* (_compute_weekly_metrics, get_payloads_in_range).
CountedOnce ==
    \A asker \in Askers : Tidy(asker) =>
        \A w \in Windows, e \in Entries : Day[e] \in PrevStart(w)..w.end =>
            LET holding == {x \in Visible(asker, "excel_sales") : e \in x.records}
            IN  /\ holding \subseteq Loaded(asker, w)
                /\ \A x, y \in holding : x = y

\* The trends and the weekly report derive the revenue of a week in two ways, from
\* all records of a payload and from the records of all payloads by day: of tidy
\* payloads they agree, for the week and for the week before it.
TrendMatchesReport ==
    \A asker \in Askers : Tidy(asker) =>
        \A x, y \in TrendRows(asker, "excel_sales") :
            /\ WeeklyRevenue(asker, x.range) = RecordsTotal(x)
            /\ y.range.start = PrevStart(x.range) /\ y.range.end = x.range.start - 1 =>
                   PreviousRevenue(asker, x.range) = RecordsTotal(y)

\* A slow mover has not been sold in the last N days up to the end of the window,
\* also when N reaches back further than the payloads that were loaded.
SlowMoversSlow ==
    \A asker \in Askers : Tidy(asker) =>
        \A w \in Windows, days \in SlowDays, x \in Visible(asker, "excel_sales") :
            \A e \in x.records : Day[e] \in (w.end - (days - 1))..w.end =>
                Product[e] \notin SlowMovers(asker, w, days)

\* The worker asks without an organization and everybody else with one: they read
\* the same payloads, old ones without an organization included, as long as every
\* request has found the organization the business has now.
SameForWorker ==
    (\A r \in Requests : at[r] = "idle" \/ org[r] = Resolved) =>
        \A d \in Datasets : Visible(Resolved, d) = Visible(Null, d)

\* No other request has a file for this range and dataset.
Alone(r, d) ==
    \A s \in Requests \ {r} : at[s] = "idle" \/ bundle[s].range # bundle[r].range
                                \/ d \notin Given(bundle[s])

\* What an answer, or LAST_RUN_SUMMARY, says was persisted is in the table, both
\* datasets of it, until another request stores the same range.
AnsweredKept ==
    \A r \in Requests : at[r] = "answered" \/ lastRun = r =>
        \A d \in Given(bundle[r]) : Alone(r, d) => Payload(r, d) \in rows

\* Why: where a request is tells which datasets it has stored.
Stored(r) == IF at[r] \in {"close", "answered"} THEN Given(bundle[r])
             ELSE IF at[r] = "mpesa" THEN Given(bundle[r]) \ {"mpesa"} ELSE {}
StoredInv ==
    /\ lastRun # Null => at[lastRun] = "answered"
    /\ \A r \in Requests : at[r] \in Datasets => at[r] \in Given(bundle[r])
    /\ \A r \in Requests, d \in Datasets :
           d \in Stored(r) /\ Alone(r, d) => Payload(r, d) \in rows

\* "Revenue, expense, profit trends and totals" (docs/api.md): the profit of the
\* weeks adds up to the total profit.
ProfitAgrees ==
    Total(LAMBDA x : ProfitPoint(Resolved, x), TrendRows(Resolved, "excel_sales"))
        = TotalProfit(Resolved)
=============================================================================
