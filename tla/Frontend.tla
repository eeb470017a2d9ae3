------------------------------- MODULE Frontend -------------------------------
(***************************************************************************)
(* A tab of the frontend: its session and the page that follows a job.     *)
(* RouteGuard and AuthGuard take the page off the screen when the session  *)
(* no longer allows it, and a poll that is answered 401 ends the session.  *)
(***************************************************************************)
EXTENDS FrontendSession, JobPolling

vars == <<session, page>>

TypeOK == SessionTypeOK /\ PageTypeOK

Init == SessionInit /\ PageInit

-----------------------------------------------------------------------------
\* After a change of the session the guards keep the page or take it away.
Guarded == IF mounted /\ ~TenantPageShown' THEN Leave ELSE UNCHANGED page

SessionStep ==
    /\ \/ Restored \/ NotRestored \/ Logout \/ Effects \/ Submit \/ LoginFails
       \/ \E u \in Users : Login(u)
       \/ \E o \in Orgs \cup {None} : SelectOrg(o)
       \/ \E o \in Orgs : ViewAs(o)
    /\ Guarded

ReloadPage == Reload /\ Gone

\* The page is opened, when nothing of an earlier visit is under way.
OpenJobs ==
    /\ TenantPageShown
    /\ polls = <<>> /\ ~submitting /\ interval = Nobody
    /\ Open
    /\ UNCHANGED session

LeaveJobs == mounted /\ Leave /\ UNCHANGED session

\* logout() of the page, then the guards.
LoggedOut == IF user # None THEN Logout ELSE UNCHANGED session

Unauthorized == Rejected /\ LoggedOut

\* What the page and the server do without the session.
PageStep ==
    /\ \/ Generate
       \/ NotQueued
       \/ PollAgain
       \/ \E j \in Jobs : Queued(j) \/ Work(j)
       \/ \E i \in DOMAIN polls : Read(i) \/ Answer(i) \/ PollFails(i)
    /\ UNCHANGED session

Next ==
    \/ SessionStep
    \/ ReloadPage
    \/ OpenJobs
    \/ LeaveJobs
    \/ Unauthorized
    \/ PageStep

-----------------------------------------------------------------------------
\* The first poll under way is answered or given up.
Settled == polls # <<>> /\ (Answer(1) \/ PollFails(1)) /\ UNCHANGED session

Spec == Init /\ [][Next]_vars

\* The timer of the browser fires, and a request ends: apiRequest aborts one that
\* is not answered in time.  Nothing is assumed of the server or of the user.
FairSpec ==
    /\ Spec
    /\ WF_vars(PollAgain /\ UNCHANGED session)
    /\ WF_vars(Settled)
=============================================================================
