------------------------------ MODULE JobPolling ------------------------------
(***************************************************************************)
(* The page that asks for a report job and follows it: one request to make *)
(* the job, then a poll at once and every two seconds until the job has    *)
(* ended or a poll fails.  The interval does not wait for answers, so      *)
(* polls overlap, and nothing tells whose answer it is that arrives.       *)
(***************************************************************************)
EXTENDS Naturals, SequencesExt

CONSTANTS
    Jobs,       \* numbered as they are made
    Nobody,     \* null
    MaxPolls    \* bound: polls under way

Ended == {"completed", "failed"}
Statuses == {"queued", "running"} \cup Ended
Shown == [job : Jobs, status : Statuses]

ASSUME PollingAssumption ==
    Jobs \subseteq Nat /\ Nobody \notin Jobs \cup Shown /\ MaxPolls \in Nat \ {0}

VARIABLES
    mounted,    \* the page is on the screen
    submitting, \* POST /admin/reports/generate is under way
    followed,   \* jobId
    shown,      \* job: the last status that was set
    interval,   \* pollingRef: the job the running interval polls
    polls,      \* polls under way in the order they were sent, and what they read
    error,
    status,     \* of the jobs, on the server
    crossed     \* history: an answer has overtaken another or its own job

page == <<mounted, submitting, followed, shown, interval, polls, error, status, crossed>>

Poll == [job : Jobs, read : Statuses \cup {"none"}]

PageTypeOK ==
    /\ mounted \in BOOLEAN /\ submitting \in BOOLEAN /\ error \in BOOLEAN /\ crossed \in BOOLEAN
    /\ followed \in Jobs \cup {Nobody} /\ interval \in Jobs \cup {Nobody}
    /\ shown \in Shown \cup {Nobody}
    /\ status \in [Jobs -> Statuses \cup {"none"}]
    /\ polls \in Seq(Poll) /\ Len(polls) <= MaxPolls

\* A page that has just been opened.
Fresh ==
    /\ submitting' = FALSE /\ followed' = Nobody /\ shown' = Nobody
    /\ interval' = Nobody /\ polls' = <<>> /\ error' = FALSE /\ crossed' = FALSE

PageInit ==
    /\ mounted = FALSE /\ submitting = FALSE /\ followed = Nobody /\ shown = Nobody
    /\ interval = Nobody /\ polls = <<>> /\ error = FALSE /\ crossed = FALSE
    /\ status = [j \in Jobs |-> "none"]

Open == ~mounted /\ mounted' = TRUE /\ Fresh /\ UNCHANGED status

\* What the page holds goes with it.
Unmount ==
    /\ mounted' = FALSE
    /\ followed' = Nobody /\ shown' = Nobody /\ error' = FALSE /\ crossed' = FALSE

\* The cleanup of the page clears the interval; what is under way goes on.
Leave == Unmount /\ interval' = Nobody /\ UNCHANGED <<submitting, polls, status>>

\* A reload ends everything.
Gone == mounted' = FALSE /\ Fresh /\ UNCHANGED status

-----------------------------------------------------------------------------
\* onGenerate up to the request.
Generate ==
    /\ mounted /\ ~submitting
    /\ submitting' = TRUE /\ error' = FALSE /\ shown' = Nobody /\ followed' = Nobody
    /\ interval' = Nobody
    /\ crossed' = (crossed /\ polls # <<>>)
    /\ UNCHANGED <<mounted, polls, status>>

Sent(j) == Append(polls, [job |-> j, read |-> "none"])

\* The job is made; pollJob starts, also if the page has been left meanwhile.
Queued(j) ==
    /\ submitting /\ status[j] = "none" /\ Len(polls) < MaxPolls
    /\ \A k \in Jobs : k < j => status[k] # "none"
    /\ submitting' = FALSE
    /\ status' = [status EXCEPT ![j] = "queued"]
    /\ followed' = IF mounted THEN j ELSE followed
    /\ interval' = j /\ polls' = Sent(j)
    /\ UNCHANGED <<mounted, shown, error, crossed>>

RequestEnds ==
    /\ submitting /\ submitting' = FALSE
    /\ UNCHANGED <<interval, polls, status>>

\* The request for the job is refused, or not answered in time.
NotQueued ==
    /\ RequestEnds
    /\ error' = (error \/ mounted)
    /\ UNCHANGED <<mounted, followed, shown, crossed>>

\* The interval fires.
PollAgain ==
    /\ interval # Nobody /\ Len(polls) < MaxPolls
    /\ polls' = Sent(interval)
    /\ UNCHANGED <<mounted, submitting, followed, shown, interval, error, status, crossed>>

\* The server works on the job (ReportDelivery) and reads it for a poll.
Work(j) ==
    /\ \/ status[j] = "queued" /\ status' = [status EXCEPT ![j] = "running"]
       \/ status[j] = "running" /\ \E s \in Ended : status' = [status EXCEPT ![j] = s]
    /\ UNCHANGED <<mounted, submitting, followed, shown, interval, polls, error, crossed>>

Crossed(now) == mounted /\ (crossed \/ now)

Read(i) ==
    /\ polls[i].read = "none"
    /\ polls' = [polls EXCEPT ![i].read = status[polls[i].job]]
    /\ crossed' = Crossed(\E k \in 1..(i - 1) : polls[k].read = "none")
    /\ UNCHANGED <<mounted, submitting, followed, shown, interval, error, status>>

\* Overtaken, or of another job than the page is about.
Late(i) == i > 1 \/ polls[i].job # followed

\* Plausible slip: the answer is not waited for.
AnswerUnread(i) ==
    /\ shown' = IF mounted THEN [job |-> polls[i].job, status |-> polls[i].read] ELSE shown
    /\ interval' = IF polls[i].read \in Ended THEN Nobody ELSE interval
    /\ polls' = RemoveAt(polls, i)
    /\ crossed' = Crossed(Late(i))
    /\ UNCHANGED <<mounted, submitting, followed, error, status>>

\* Plausible slip: the interval ends with the first answer that is not queued.
AnswerStops(i) ==
    /\ polls[i].read # "none"
    /\ shown' = IF mounted THEN [job |-> polls[i].job, status |-> polls[i].read] ELSE shown
    /\ interval' = IF polls[i].read # "queued" THEN Nobody ELSE interval
    /\ polls' = RemoveAt(polls, i)
    /\ crossed' = Crossed(Late(i))
    /\ UNCHANGED <<mounted, submitting, followed, error, status>>

\* setJob, and stopPolling whichever interval is running.
Answer(i) ==
    /\ polls[i].read # "none"
    /\ shown' = IF mounted THEN [job |-> polls[i].job, status |-> polls[i].read] ELSE shown
    /\ interval' = IF polls[i].read \in Ended THEN Nobody ELSE interval
    /\ polls' = RemoveAt(polls, i)
    /\ crossed' = Crossed(Late(i))
    /\ UNCHANGED <<mounted, submitting, followed, error, status>>

PollEnds(i) ==
    /\ interval' = Nobody
    /\ polls' = RemoveAt(polls, i)
    /\ UNCHANGED <<submitting, status>>

\* Plausible slip: polling ends and nothing is said.
PollFailsSilently(i) ==
    /\ PollEnds(i)
    /\ crossed' = Crossed(Late(i))
    /\ UNCHANGED <<mounted, followed, shown, error>>

\* Refused, or not answered in time.
PollFails(i) ==
    /\ PollEnds(i)
    /\ error' = (error \/ mounted)
    /\ crossed' = Crossed(Late(i))
    /\ UNCHANGED <<mounted, followed, shown>>

\* Answered 401: the caller logs out, and the page goes.
Rejected ==
    /\ RequestEnds \/ \E i \in DOMAIN polls : PollEnds(i)
    /\ Unmount

-----------------------------------------------------------------------------
(***************************************************************************)
(* Properties.  An answer crosses if it overtakes an earlier poll, on its  *)
(* way or at the server, or arrives when the page is about another job.    *)
(***************************************************************************)
HasEnded == shown # Nobody /\ shown.job = followed /\ shown.status \in Ended

\* As long as no answer crosses, the status on the screen is that of the job the
\* page is about, the interval polls that job, and it has stopped only because the
\* screen says how the job ended or that polling failed.
FollowsOneJob ==
    mounted /\ ~crossed /\ followed # Nobody =>
        /\ shown # Nobody => shown.job = followed
        /\ interval \in {followed, Nobody}
        /\ interval = Nobody => HasEnded \/ error

\* Once the job has ended, somebody who stays on the page is told how, or that
\* polling failed, unless answers cross or the next job is asked for.
EndIsShown ==
    (mounted /\ followed # Nobody /\ status[followed] \in Ended)
        ~> (HasEnded \/ error \/ crossed \/ submitting \/ ~mounted)
=============================================================================
