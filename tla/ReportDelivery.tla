---------------------------- MODULE ReportDelivery ----------------------------
(***************************************************************************)
(* A report job from its request to the delivery ledger: the handler of    *)
(* POST /admin/reports/generate, the jobs the schedule worker creates,     *)
(* _send_whatsapp_report with its retry, the best-effort ledger and        *)
(* timeline of backend/routes/analytics.py, and what the endpoints read    *)
(* back from them.                                                         *)
(*                                                                         *)
(* Every job runs in one thread, its statements in program order, and      *)
(* interleaves with the other jobs at each call that leaves the process.   *)
(* JOBS lives in the memory of the process and is lost with it; the ledger,*)
(* the timeline and the messages the provider has accepted are not.        *)
(***************************************************************************)
EXTENDS Naturals, FiniteSetsExt

CONSTANTS
    JobIds,         \* uuid4: an id is never used twice
    Orgs,
    Businesses,
    Owned,          \* the organization of a business at first, None: not registered
    DefaultOrg,     \* DEFAULT_ORG_ID: an organization like any other
    HasPhone,       \* businesses registered with a whatsapp_phone
    Configured,     \* the three TWILIO_* variables are set
    MaxAttempts,    \* max_attempts
    System          \* "system": default organization of the log functions, and
                    \* the business /reports/send-test writes

None == "none"
NoJob == "no job"       \* a row that belongs to no job

ASSUME DeliveryAssumption ==
    /\ Businesses # {} /\ IsFiniteSet(Businesses)
    /\ Owned \in [Businesses -> Orgs \cup {None}] /\ DefaultOrg \in Orgs
    /\ HasPhone \subseteq Businesses
    /\ Configured \in BOOLEAN
    /\ MaxAttempts \in Nat \ {0}
    /\ System \notin Orgs \cup Businesses

ASSUME NamesAssumption == NoJob \notin JobIds /\ None \notin Orgs

VARIABLES
    owner,      \* businesses.organization_id; once given it does not change
    source,     \* [JobIds -> who created the job, None before]
    business,   \* job["business_id"]
    org,        \* organization_id of the code that runs the job
    legacy,     \* the jobs whose business was not registered when they began
    send,       \* the jobs with send_whatsapp
    status,     \* job["status"]; "lost" once the process is gone
    whatsapp,   \* job["whatsapp"]: None until it is assigned
    at,         \* where the job's thread is
    tries,      \* attempts of _send_whatsapp_report that have failed
    accepted,   \* messages the provider has accepted for the job
    ledger,     \* rows of whatsapp_message_log, each with an id of its own
    timeline    \* what activity_log tells; nothing counts its rows

\* What a job is about, settled when it is created.
orderVars == <<owner, source, business, org, legacy, send>>
jobVars == <<orderVars, status, whatsapp, at, tries>>
vars == <<jobVars, accepted, ledger, timeline>>

Results == {None, "disabled", "no phone", "sent", "failed"}
\* The model tags rows with their job; the tables have no such column.
Row == [id : Nat \ {0}, job : JobIds \cup {NoJob}, org : Orgs \cup {System},
        business : Businesses \cup {System}, status : {"sent", "failed"}]
Event == [job : JobIds \cup {NoJob}, org : Orgs \cup {System},
          business : Businesses \cup {System},
          type : {"report", "whatsapp", "error"}, status : {"success", "failed"}]

TypeOK ==
    /\ owner \in [Businesses -> Orgs \cup {None}]
    /\ source \in [JobIds -> {None, "admin", "scheduler"}]
    /\ business \in [JobIds -> Businesses]
    /\ org \in [JobIds -> Orgs \cup {None}]
    /\ legacy \subseteq JobIds
    /\ send \subseteq JobIds
    /\ status \in [JobIds -> {None, "queued", "running", "completed", "failed", "lost"}]
    /\ whatsapp \in [JobIds -> Results]
    /\ at \in [JobIds -> {None, "start", "compute", "report", "phone", "send",
                          "sent", "note", "gave up", "tell", "close", "error", "end"}]
    /\ tries \in [JobIds -> 0..MaxAttempts]
    /\ accepted \in [JobIds -> 0..MaxAttempts]
    /\ ledger \subseteq Row /\ IsFiniteSet(ledger)
    /\ timeline \subseteq Event

Init ==
    /\ owner = Owned
    /\ source = [j \in JobIds |-> None]
    /\ business = [j \in JobIds |-> CHOOSE b \in Businesses : TRUE]
    /\ org = [j \in JobIds |-> None]
    /\ legacy = {} /\ send = {}
    /\ status = [j \in JobIds |-> None]
    /\ whatsapp = [j \in JobIds |-> None]
    /\ at = [j \in JobIds |-> None]
    /\ tries = [j \in JobIds |-> 0]
    /\ accepted = [j \in JobIds |-> 0]
    /\ ledger = {} /\ timeline = {}

-----------------------------------------------------------------------------
(***************************************************************************)
(* The organization a job writes with, and the two log functions: an       *)
(* INSERT in a transaction of its own, every error swallowed.              *)
(***************************************************************************)

\* job["organization_id"]: a scheduled job has none.
JobOrg(j) == IF source[j] = "admin" THEN org[j] ELSE None

\* The scheduler calls _send_whatsapp_report without an organization.
SendOrg(j) == IF source[j] = "admin" THEN org[j] ELSE System

\* The row as BIGSERIAL numbers it: here by job, which tells the rows of one
\* job apart and leaves out the order of rows of different ones.
Numbered(row) == [id |-> Cardinality({r \in ledger : r.job = row.job}) + 1,
                  job |-> row.job, org |-> row.org, business |-> row.business,
                  status |-> row.status]

\* A plausible slip: an INSERT whose answer is lost is sent again.
LogWhatsappRetried(row) ==
    ledger' \in {ledger, ledger \cup {Numbered(row)},
                 ledger \cup {Numbered(row), [Numbered(row) EXCEPT !.id = @ + 1]}}

\* The row is written, or the statement or the connection has failed.
LogWhatsapp(row) == ledger' \in {ledger, ledger \cup {Numbered(row)}}
LogActivity(event) == timeline' \in {timeline, timeline \cup {event}}

SendRow(j, outcome) == [job |-> j, org |-> SendOrg(j), business |-> business[j],
                        status |-> outcome]
SendEvent(j, outcome) == [job |-> j, org |-> SendOrg(j), business |-> business[j],
                          type |-> "whatsapp", status |-> outcome]

-----------------------------------------------------------------------------
(***************************************************************************)
(* Creating a job.  Requests run side by side in the thread pool; the      *)
(* worker is one thread and creates its next job when the last has ended.  *)
(***************************************************************************)

\* A plausible slip: the selected organization is taken without a look at the
\* business.
ResolvedUnchecked(context, b) ==
    IF context # None THEN context
    ELSE IF owner[b] = None THEN DefaultOrg ELSE owner[b]

\* The organization _resolve_business_org_for_context finds for a request that
\* works for `context`: that of an administrator, or the one a platform user has
\* selected.  None: the business does not belong to it, the answer is 403.  A
\* platform user without one works for the owner, or else for DEFAULT_ORG_ID.
Resolved(context, b) ==
    IF context = None THEN IF owner[b] = None THEN DefaultOrg ELSE owner[b]
    ELSE IF owner[b] = context THEN context ELSE None

Create(j, who, b, o) ==
    /\ source[j] = None
    /\ source' = [source EXCEPT ![j] = who]
    /\ business' = [business EXCEPT ![j] = b]
    /\ org' = [org EXCEPT ![j] = o]
    /\ legacy' = IF owner[b] = None THEN legacy \cup {j} ELSE legacy
    /\ send' \in {send, send \cup {j}}
    /\ status' = [status EXCEPT ![j] = "queued"]
    /\ at' = [at EXCEPT ![j] = "start"]
    /\ UNCHANGED <<owner, whatsapp, tries, accepted, ledger, timeline>>

\* The guard comes first: without an organization there is no job.
GenerateReport(j) ==
    \E b \in Businesses, context \in Orgs \cup {None} :
        /\ Resolved(context, b) # None
        /\ Create(j, "admin", b, Resolved(context, b))

\* A schedule names a business of its organization, or means all it has.
ScheduleJob(j) ==
    /\ \A k \in JobIds : source[k] = "scheduler" => at[k] = "end"
    /\ \E b \in Businesses : owner[b] # None /\ Create(j, "scheduler", b, owner[b])

\* POST /businesses: an id that is in use is refused.
Register(b) ==
    /\ owner[b] = None
    /\ \E o \in Orgs : owner' = [owner EXCEPT ![b] = o]
    /\ UNCHANGED <<source, business, org, legacy, send, status, whatsapp, at, tries,
                   accepted, ledger, timeline>>

Start(j) ==
    /\ at[j] = "start"
    /\ status' = [status EXCEPT ![j] = "running"]
    /\ at' = [at EXCEPT ![j] = "compute"]
    /\ UNCHANGED <<orderVars, whatsapp, tries, accepted, ledger, timeline>>

\* _compute_and_format_report returns: a failing narration is replaced inside.
Computed(j) ==
    /\ at[j] = "compute"
    /\ status' = [status EXCEPT ![j] = "completed"]
    /\ at' = [at EXCEPT ![j] = IF source[j] = "admin" THEN "report" ELSE "phone"]
    /\ UNCHANGED <<orderVars, whatsapp, tries, accepted, ledger, timeline>>

\* A plausible slip: the exception does not end the job.
ComputeFailsAndSends(j) ==
    /\ at[j] = "compute"
    /\ status' = [status EXCEPT ![j] = "failed"]
    /\ at' = [at EXCEPT ![j] = "phone"]
    /\ UNCHANGED <<orderVars, whatsapp, tries, accepted, ledger, timeline>>

\* No payload for the range, or the database is out of reach.
ComputeFails(j) ==
    /\ at[j] = "compute"
    /\ status' = [status EXCEPT ![j] = "failed"]
    /\ at' = [at EXCEPT ![j] = IF source[j] = "admin" THEN "error" ELSE "end"]
    /\ UNCHANGED <<orderVars, whatsapp, tries, accepted, ledger, timeline>>

\* The timeline entries of the job itself carry its organization in both
\* paths; the request writes "report" before the delivery, the worker after it.
LogJob(j, from, type, outcome, to) ==
    /\ at[j] = from
    /\ LogActivity([job |-> j, org |-> org[j], business |-> business[j],
                    type |-> type, status |-> outcome])
    /\ at' = [at EXCEPT ![j] = to]
    /\ UNCHANGED <<orderVars, status, whatsapp, tries, accepted, ledger>>

LogReport(j) == \/ LogJob(j, "report", "report", "success", "phone")
                \/ LogJob(j, "close", "report", "success", "end")
LogError(j) == LogJob(j, "error", "error", "failed", "end")

-----------------------------------------------------------------------------
(***************************************************************************)
(* The delivery.                                                           *)
(***************************************************************************)

AfterDelivery(j) == IF source[j] = "admin" THEN "end" ELSE "close"

\* A plausible slip: the result is returned and not kept in the job.
ConcludeUnsaid(j, result) ==
    /\ at' = [at EXCEPT ![j] = AfterDelivery(j)]
    /\ UNCHANGED <<orderVars, status, whatsapp, tries, accepted, ledger>>

Conclude(j, result) ==
    /\ whatsapp' = [whatsapp EXCEPT ![j] = result]
    /\ at' = [at EXCEPT ![j] = AfterDelivery(j)]
    /\ UNCHANGED <<orderVars, status, tries, accepted, ledger>>

DeliveryDisabled(j) ==
    /\ at[j] = "phone" /\ j \notin send
    /\ Conclude(j, "disabled")
    /\ UNCHANGED timeline

\* A failing lookup reads like a missing phone number.  Only the request
\* leaves a timeline entry.
NoPhone(j) ==
    /\ at[j] = "phone" /\ j \in send
    /\ Conclude(j, "no phone")
    /\ IF source[j] = "admin" THEN LogActivity(SendEvent(j, "failed"))
                              ELSE UNCHANGED timeline

\* A request looks for a business of its organization, the worker for any.
PhoneFound(j) ==
    /\ at[j] = "phone" /\ j \in send /\ business[j] \in HasPhone
    /\ source[j] = "admin" => owner[business[j]] = org[j]
    /\ at' = [at EXCEPT ![j] = IF Configured THEN "send" ELSE "gave up"]
    /\ UNCHANGED <<orderVars, status, whatsapp, tries, accepted,
                   ledger, timeline>>

\* client.messages.create returns.
Send(j) ==
    /\ at[j] = "send"
    /\ accepted' = [accepted EXCEPT ![j] = @ + 1]
    /\ at' = [at EXCEPT ![j] = "sent"]
    /\ UNCHANGED <<orderVars, status, whatsapp, tries, ledger, timeline>>

\* A plausible slip: one attempt too many.
SendRaisesOnceMore(j) ==
    /\ at[j] = "send"
    /\ accepted' \in {accepted, [accepted EXCEPT ![j] = @ + 1]}
    /\ tries' = [tries EXCEPT ![j] = @ + 1]
    /\ at' = [at EXCEPT ![j] = IF tries[j] < MaxAttempts THEN "send" ELSE "gave up"]
    /\ UNCHANGED <<orderVars, status, whatsapp, ledger, timeline>>

\* It raises: refused, or accepted and the answer lost.
SendRaises(j) ==
    /\ at[j] = "send"
    /\ accepted' \in {accepted, [accepted EXCEPT ![j] = @ + 1]}
    /\ tries' = [tries EXCEPT ![j] = @ + 1]
    /\ at' = [at EXCEPT ![j] = IF tries[j] + 1 < MaxAttempts THEN "send" ELSE "gave up"]
    /\ UNCHANGED <<orderVars, status, whatsapp, ledger, timeline>>

\* The ledger row of a delivery, by the outcome.
LogDelivery(j, from, outcome, to) ==
    /\ at[j] = from
    /\ LogWhatsapp(SendRow(j, outcome))
    /\ at' = [at EXCEPT ![j] = to]
    /\ UNCHANGED <<orderVars, status, whatsapp, tries, accepted, timeline>>

RecordSent(j) == LogDelivery(j, "sent", "sent", "note")
RecordFailed(j) == LogDelivery(j, "gave up", "failed", "tell")

\* The timeline entry; the result goes to job["whatsapp"].
Told(j, from, outcome, result) ==
    /\ at[j] = from
    /\ LogActivity(SendEvent(j, outcome))
    /\ Conclude(j, result)

TellSent(j) == Told(j, "note", "success", "sent")
TellFailed(j) == Told(j, "tell", "failed", "failed")

\* POST /reports/send-test writes with the default organization.  Bound: one
\* test that left a row.
SendTest ==
    /\ Configured
    /\ \A row \in ledger \cup timeline : row.job # NoJob
    /\ \E ok \in BOOLEAN :
         /\ LogWhatsapp([job |-> NoJob, org |-> System, business |-> System,
                         status |-> IF ok THEN "sent" ELSE "failed"])
         /\ LogActivity([job |-> NoJob, org |-> System, business |-> System,
                         type |-> "whatsapp",
                         status |-> IF ok THEN "success" ELSE "failed"])
    /\ UNCHANGED <<jobVars, accepted>>

\* The process ends: its threads and JOBS with it.
Restart ==
    /\ \E j \in JobIds : status[j] \notin {None, "lost"}
    /\ status' = [j \in JobIds |-> IF source[j] = None THEN None ELSE "lost"]
    /\ at' = [j \in JobIds |-> IF source[j] = None THEN None ELSE "end"]
    /\ UNCHANGED <<orderVars, whatsapp, tries, accepted, ledger, timeline>>

Step(j) ==
    \/ Start(j) \/ Computed(j) \/ ComputeFails(j) \/ LogReport(j) \/ LogError(j)
    \/ DeliveryDisabled(j) \/ NoPhone(j) \/ PhoneFound(j)
    \/ Send(j) \/ SendRaises(j) \/ RecordSent(j) \/ RecordFailed(j)
    \/ TellSent(j) \/ TellFailed(j)

Next ==
    \/ \E j \in JobIds : GenerateReport(j) \/ ScheduleJob(j) \/ Step(j)
    \/ \E b \in Businesses : Register(b)
    \/ SendTest \/ Restart

Spec == Init /\ [][Next]_vars

-----------------------------------------------------------------------------
(***************************************************************************)
(* What the endpoints read.                                                *)
(***************************************************************************)

Billable(rows) == {row \in rows : row.status = "sent"}
RowsOf(o, b) == {row \in ledger : row.org = o /\ row.business = b}

\* A plausible slip: the status filter is dropped.
MessagesLogged(o) == Cardinality({row \in ledger : row.org = o})

\* /analytics/costs, messages_sent.
MessagesSent(o) == Cardinality(Billable({row \in ledger : row.org = o}))

\* /analytics/whatsapp, the numerator of success_rate.
SuccessCount(o, b) == Cardinality(Billable(RowsOf(o, b)))

\* GET /admin/jobs/{job_id} answers an admin of organization o.
CanRead(o, j) == /\ status[j] \notin {None, "lost"}
                 /\ JobOrg(j) = o

BusinessesOf(o) == {b \in Businesses : owner[b] = o}

-----------------------------------------------------------------------------
(***************************************************************************)
(* Properties.                                                             *)
(***************************************************************************)

\* Nothing is charged that the provider did not accept, no job is charged
\* twice however often it was retried, and a job that reports "sent" was
\* accepted (_send_whatsapp_report, log_whatsapp_message).
LedgerHonest ==
    /\ \A row \in ledger : row.job # NoJob /\ row.status = "sent" => accepted[row.job] > 0
    /\ \A r1, r2 \in ledger : r1.job = r2.job /\ r1.job # NoJob => r1 = r2
    /\ \A j \in JobIds : whatsapp[j] = "sent" => accepted[j] > 0

\* Where nothing has been sent yet, and where nothing has been recorded yet.
Unsent == {None, "start", "compute", "report", "phone", "error"}
Unlogged == Unsent \cup {"send", "sent", "gave up"}

\* Why the ledger is honest: the place a thread is at tells what the provider has
\* accepted, how often it was asked, that the row is not written yet, and whether
\* the job has its result.
JobInv(j) ==
    /\ source[j] = None <=> at[j] = None
    /\ source[j] # None => org[j] \in Orgs
    /\ at[j] \in Unsent => accepted[j] = 0 /\ tries[j] = 0
    /\ at[j] = "send" => accepted[j] <= tries[j] /\ tries[j] < MaxAttempts
    /\ at[j] \in {"sent", "note"} => accepted[j] > 0
    /\ at[j] \in Unlogged => \A row \in ledger : row.job # j
    /\ at[j] \in {"report", "phone", "send", "sent", "gave up", "note", "tell"} =>
          status[j] = "completed"
    /\ at[j] = "error" => status[j] = "failed"
    /\ at[j] \in {"close", "end"} /\ status[j] = "completed" => whatsapp[j] # None
DeliveryInv == \A j \in JobIds : JobInv(j)

\* A message leaves only for a report that was computed: a job that failed has
\* sent nothing (admin_generate_report, _create_scheduled_job).
FailedJobsSendNothing ==
    \A j \in JobIds : accepted[j] > 0 => status[j] \in {"completed", "lost"}

\* A business is that of organization o, or it was nobody's when the job began
\* and the job was left to the default organization.
Mine(o, b, j) == owner[b] = o \/ (o = DefaultOrg /\ j \in legacy)

\* What an organization is charged for is about its own businesses, whoever asked
\* for the report, in whatever context, and whenever the business was registered;
\* what its timeline and its jobs tell is too, save what a platform user had made
\* for a business of nobody (_resolve_business_org_for_context, the lookup of the
\* phone, the organization arguments of the log functions).
TenantView ==
    /\ \A row \in ledger : row.org \in Orgs =>
          row.business \in Businesses /\ owner[row.business] = row.org
    /\ \A event \in timeline : event.org \in Orgs =>
          event.business \in Businesses /\ Mine(event.org, event.business, event.job)
    /\ \A o \in Orgs, j \in JobIds : CanRead(o, j) => Mine(o, business[j], j)

\* "/analytics/costs and /analytics/whatsapp agree on which messages were
\* billable" (log_whatsapp_message): the messages an organization pays for are
\* those its businesses see delivered.
StatsAgree ==
    \A o \in Orgs :
        MessagesSent(o) = SumFunctionOnSet([b \in Businesses |-> SuccessCount(o, b)], BusinessesOf(o))

\* A job that has ended and completed says what became of its delivery, whatever
\* the provider and the database answered (job["whatsapp"]).
JobsConclude ==
    \A j \in JobIds : at[j] = "end" /\ status[j] = "completed" => whatsapp[j] # None
================================================================================
