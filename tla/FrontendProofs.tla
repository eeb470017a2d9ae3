---------------------------- MODULE FrontendProofs ----------------------------
(***************************************************************************)
(* Theorems of Frontend, FrontendSession and JobPolling, for any users,    *)
(* organizations and jobs and any number of polls under way.               *)
(***************************************************************************)
EXTENDS Frontend, SequenceTheorems, TLAPS

-----------------------------------------------------------------------------
(***************************************************************************)
(* The session.                                                            *)
(***************************************************************************)

\* Each change of the session, whatever the page does.
SessionChange == \/ Restored \/ NotRestored \/ Logout \/ Reload \/ Effects \/ Submit \/ LoginFails
                 \/ \E u \in Users : Login(u)
                 \/ \E o \in Orgs \cup {None} : SelectOrg(o)
                 \/ \E o \in Orgs : ViewAs(o)

LEMMA SessionMoves == [Next]_vars => SessionChange \/ UNCHANGED session
BY DEF Next, SessionStep, ReloadPage, OpenJobs, LeaveJobs, Unauthorized, LoggedOut, PageStep,
   SessionChange, vars

LEMMA EffectsType ==
    ASSUME SessionTypeOK, Effects
    PROVE  SessionTypeOK'
<1> USE DEF SessionTypeOK
<1>1. stored.context \in Orgs \cup {None}
  BY DEF Storage
<1>2. selected' \in Orgs \cup {None} /\ api' \in Orgs \cup {None} /\ pending' \in {"user", "selected", "none"}
  BY <1>1 DEF Effects, Synced
<1>3. \A c \in Orgs \cup {None} : [stored EXCEPT !.context = c] \in Storage
  BY DEF Storage
<1>4. stored' \in Storage
  BY <1>1, <1>3 DEF Effects, Synced
<1> QED
  BY <1>2, <1>4 DEF Effects, memory

LEMMA SessionTypeStep ==
    ASSUME SessionTypeOK, SessionChange
    PROVE  SessionTypeOK'
<1> USE DEF SessionTypeOK
<1>1. CASE Restored
  <2>1. [stored EXCEPT !.user = asked] \in Storage
    BY <1>1 DEF Restored, Storage
  <2> QED
    BY <1>1, <2>1 DEF Restored
<1>2. [stored EXCEPT !.token = None, !.user = None] \in Storage
  BY DEF Storage
<1>3. CASE NotRestored \/ Logout
  <2>1. ready' \in BOOLEAN /\ overlapped' \in BOOLEAN /\ asked' \in {asked, None}
    BY <1>3 DEF NotRestored, Logout
  <2>2. Cleared /\ stored' \in Storage
    BY <1>2, <1>3 DEF NotRestored, Logout
  <2> QED
    BY <2>1, <2>2 DEF Cleared
<1>4. CASE Reload
  <2>1. stored' \in Storage /\ asked' \in Users \cup {None}
    BY <1>4 DEF Reload, Load, NoSession, Storage
  <2>2. ready' \in BOOLEAN /\ overlapped' \in BOOLEAN /\ submitted' \in BOOLEAN
    BY <1>4 DEF Reload, Load
  <2> QED
    BY <1>4, <2>1, <2>2 DEF Reload, Load
<1>5. ASSUME NEW u \in Users, Login(u) PROVE SessionTypeOK'
  <2>1. [stored EXCEPT !.token = u, !.user = u] \in Storage
    BY DEF Storage
  <2>2. overlapped' \in BOOLEAN /\ submitted' \in BOOLEAN
    BY <1>5 DEF Login
  <2> QED
    BY <1>5, <2>1, <2>2 DEF Login
<1>6. ASSUME NEW o \in Orgs \cup {None}, SelectOrg(o) \/ ViewAs(o) PROVE SessionTypeOK'
  <2>1. \A c \in Orgs \cup {None} : [stored EXCEPT !.context = c] \in Storage
    BY DEF Storage
  <2>2. stored' \in Storage
    BY <1>6, <2>1 DEF SelectOrg, ViewAs
  <2> QED
    BY <1>6, <2>2 DEF SelectOrg, ViewAs, Reselected, memory
<1>7. CASE Submit \/ LoginFails
  BY <1>7 DEF Submit, LoginFails, memory
<1>8. CASE Effects
  BY <1>8, EffectsType
<1> QED
  BY <1>1, <1>3, <1>4, <1>5, <1>6, <1>7, <1>8 DEF SessionChange

\* Why the session is whole: a stored token is asked about exactly while the tab is
\* not ready, and until its answer there is neither a user nor an organization in
\* the headers nor anything left for the effects, unless somebody has logged in over it.
SessionInv ==
    /\ ready <=> asked = None
    /\ asked # None /\ ~overlapped => user = None /\ api = None /\ pending = "none"
    /\ SessionWhole
    /\ TenantsSendNone

LEMMA SessionStepInv ==
    ASSUME SessionTypeOK, SessionInv, SessionChange
    PROVE  SessionInv'
<1>0. /\ SuperAdmins \subseteq Users /\ None \notin Users
      /\ stored \in Storage /\ token \in Users \cup {None} /\ user \in Users \cup {None}
      /\ ready \in BOOLEAN /\ overlapped \in BOOLEAN
  BY SessionAssumption DEF SessionTypeOK
<1> USE DEF SessionInv, SessionWhole, TenantsSendNone
<1>1. CASE Restored
  BY <1>0, <1>1 DEF Restored, Storage
<1>2. CASE NotRestored
  BY <1>0, <1>2 DEF NotRestored, Cleared, Storage
<1>3. CASE Logout
  BY <1>0, <1>3 DEF Logout, Cleared, Storage
<1>4. CASE Reload
  BY <1>0, <1>4 DEF Reload, Load, NoSession, Storage
<1>5. ASSUME NEW u \in Users, Login(u) PROVE SessionInv'
  BY <1>0, <1>5 DEF Login, Storage
<1>6. ASSUME NEW o \in Orgs \cup {None}, SelectOrg(o) \/ ViewAs(o) PROVE SessionInv'
  BY <1>0, <1>6 DEF SelectOrg, ViewAs, Reselected, memory, Storage
<1>7. CASE Submit \/ LoginFails
  BY <1>7 DEF Submit, LoginFails, memory
<1>8. CASE Effects
  <2>1. \A c : [stored EXCEPT !.context = c].token = stored.token /\ [stored EXCEPT !.context = c].user = stored.user
    BY <1>0 DEF Storage
  <2>2. stored'.token = stored.token /\ stored'.user = stored.user
    BY <1>8, <2>1 DEF Effects, Synced
  <2>3. /\ api' = IF user \in SuperAdmins THEN selected ELSE None
        /\ pending' = "none" => selected' = selected
        /\ UNCHANGED <<memory, overlapped>> /\ pending # "none"
    BY <1>8 DEF Effects, Synced
  <2> QED
    BY <1>0, <2>2, <2>3 DEF memory
<1> QED
  BY <1>1, <1>2, <1>3, <1>4, <1>5, <1>6, <1>7, <1>8 DEF SessionChange

LEMMA SessionInitially == SessionInit => SessionTypeOK /\ SessionInv
<1>1. SessionInit => SessionTypeOK
  <2>1. NoSession \in Storage
    BY DEF NoSession, Storage
  <2>2. SessionInit => ready \in BOOLEAN /\ overlapped \in BOOLEAN /\ submitted \in BOOLEAN
    BY DEF SessionInit
  <2> QED
    BY <2>1, <2>2 DEF SessionInit, SessionTypeOK
<1>2. SessionInit => SessionInv
  BY SessionAssumption DEF SessionInit, SessionInv, SessionWhole, TenantsSendNone, NoSession
<1> QED
  BY <1>1, <1>2

LEMMA SessionAlways == Spec => [](SessionTypeOK /\ SessionInv)
<1>1. Init => SessionTypeOK /\ SessionInv
  BY SessionInitially DEF Init
<1>2. SessionTypeOK /\ SessionInv /\ [Next]_vars => (SessionTypeOK /\ SessionInv)'
  <2> SUFFICES ASSUME SessionTypeOK, SessionInv, [Next]_vars
               PROVE  (SessionTypeOK /\ SessionInv)'
    OBVIOUS
  <2>1. CASE SessionChange
    BY <2>1, SessionTypeStep, SessionStepInv
  <2>2. CASE UNCHANGED session
    BY <2>2 DEF session, memory, SessionTypeOK, SessionInv, SessionWhole, TenantsSendNone
  <2> QED
    BY <2>1, <2>2, SessionMoves
<1> QED
  BY <1>1, <1>2, PTL DEF Spec

\* The user on the screen and the stored session are of one user, and the headers
\* too once the effects have run, whatever the order of reloads, answers, effects,
\* logins and logouts, for any users.
THEOREM SessionTheorem == Spec => []SessionWhole
<1>1. SessionInv => SessionWhole
  BY DEF SessionInv
<1> QED
  BY <1>1, SessionAlways, PTL

\* Also before the effects have run, a user of an organization sends no organization
\* an administrator of the tab has looked at, for any users and organizations.
THEOREM TenantsTheorem == Spec => []TenantsSendNone
<1>1. SessionInv => TenantsSendNone
  BY DEF SessionInv
<1> QED
  BY <1>1, SessionAlways, PTL

-----------------------------------------------------------------------------
(***************************************************************************)
(* The page: types.                                                        *)
(***************************************************************************)

\* A list without its element at i.
LEMMA RemoveAtProperties ==
    ASSUME NEW S, NEW s \in Seq(S), NEW i \in 1..Len(s)
    PROVE  /\ RemoveAt(s, i) \in Seq(S)
           /\ Len(RemoveAt(s, i)) = Len(s) - 1
           /\ \A k \in 1..(Len(s) - 1) : RemoveAt(s, i)[k] = IF k < i THEN s[k] ELSE s[k + 1]
<1> DEFINE a == SubSeq(s, 1, i - 1)
           b == SubSeq(s, i + 1, Len(s))
<1>0. Len(s) \in Nat /\ i \in Int /\ \A k \in 1..Len(s) : s[k] \in S
  BY ElementOfSeq, LenProperties
<1>1. /\ a \in Seq(S) /\ Len(a) = i - 1
      /\ \A k \in 1..(i - 1) : a[k] = s[k]
  <2>1. /\ a \in Seq(S) /\ Len(a) = IF 1 <= i - 1 THEN i - 1 - 1 + 1 ELSE 0
        /\ \A k \in 1..(i - 1 - 1 + 1) : a[k] = s[1 + k - 1]
    BY <1>0, SubSeqProperties
  <2> HIDE DEF a
  <2> QED
    BY <1>0, <2>1
<1>2. /\ b \in Seq(S) /\ Len(b) = Len(s) - i
      /\ \A k \in 1..(Len(s) - i) : b[k] = s[i + k]
  <2>1. /\ b \in Seq(S) /\ Len(b) = IF i + 1 <= Len(s) THEN Len(s) - (i + 1) + 1 ELSE 0
        /\ \A k \in 1..(Len(s) - (i + 1) + 1) : b[k] = s[(i + 1) + k - 1]
    BY <1>0, SubSeqProperties
  <2> HIDE DEF b
  <2> QED
    BY <1>0, <2>1
<1>3. RemoveAt(s, i) = a \o b
  BY DEF RemoveAt
<1> HIDE DEF a, b
<1>4. /\ a \o b \in Seq(S) /\ Len(a \o b) = Len(a) + Len(b)
      /\ \A k \in 1..(Len(a) + Len(b)) : (a \o b)[k] = IF k <= Len(a) THEN a[k] ELSE b[k - Len(a)]
  BY <1>1, <1>2, ConcatProperties
<1>5. Len(a) + Len(b) = Len(s) - 1
  BY <1>0, <1>1, <1>2
<1>6. ASSUME NEW k \in 1..(Len(s) - 1)
      PROVE  RemoveAt(s, i)[k] = IF k < i THEN s[k] ELSE s[k + 1]
  <2>1. RemoveAt(s, i)[k] = IF k <= Len(a) THEN a[k] ELSE b[k - Len(a)]
    BY <1>3, <1>4, <1>5
  <2>2. CASE k < i
    BY <1>0, <1>1, <2>1, <2>2
  <2>3. CASE ~(k < i)
    <3>1. k - (i - 1) \in 1..(Len(s) - i) /\ i + (k - (i - 1)) = k + 1
      BY <1>0, <2>3
    <3>2. ~(k <= Len(a)) /\ k - Len(a) = k - (i - 1)
      BY <1>0, <1>1, <2>3
    <3> QED
      BY <1>2, <2>1, <2>3, <3>1, <3>2
  <2> QED
    BY <2>2, <2>3
<1> QED
  BY <1>3, <1>4, <1>5, <1>6

\* The polls under way, one at a time.
LEMMA PollsProperties ==
    ASSUME PageTypeOK
    PROVE  /\ Len(polls) \in Nat /\ DOMAIN polls = 1..Len(polls)
           /\ \A i \in DOMAIN polls : polls[i] \in Poll
           /\ \A i \in DOMAIN polls : polls[i].job \in Jobs /\ polls[i].read \in Statuses \cup {"none"}
<1>1. polls \in Seq(Poll)
  BY DEF PageTypeOK
<1>2. Len(polls) \in Nat /\ DOMAIN polls = 1..Len(polls)
  BY <1>1, LenProperties
<1>3. \A i \in DOMAIN polls : polls[i] \in Poll
  BY <1>1, <1>2, ElementOfSeq
<1> QED
  BY <1>2, <1>3 DEF Poll

LEMMA PollSent ==
    ASSUME PageTypeOK, NEW j \in Jobs, Len(polls) < MaxPolls
    PROVE  /\ Sent(j) \in Seq(Poll) /\ Len(Sent(j)) <= MaxPolls
           /\ DOMAIN Sent(j) = 1..(Len(polls) + 1)
           /\ \A i \in 1..Len(polls) : Sent(j)[i] = polls[i]
           /\ Sent(j)[Len(polls) + 1] = [job |-> j, read |-> "none"]
<1> DEFINE e == [job |-> j, read |-> "none"]
<1>1. e \in Poll
  BY DEF Poll
<1>2. polls \in Seq(Poll) /\ MaxPolls \in Nat /\ Len(polls) \in Nat
  BY PollingAssumption, PollsProperties DEF PageTypeOK
<1> HIDE DEF e
<1>3. /\ Append(polls, e) \in Seq(Poll) /\ Len(Append(polls, e)) = Len(polls) + 1
      /\ DOMAIN Append(polls, e) = 1..(Len(polls) + 1)
      /\ \A i \in 1..Len(polls) : Append(polls, e)[i] = polls[i]
      /\ Append(polls, e)[Len(polls) + 1] = e
  BY <1>1, <1>2, AppendProperties
<1>4. Sent(j) = Append(polls, e)
  BY DEF Sent, e
<1> QED
  BY <1>2, <1>3, <1>4 DEF e

LEMMA PollRemoved ==
    ASSUME PageTypeOK, NEW i \in DOMAIN polls
    PROVE  /\ RemoveAt(polls, i) \in Seq(Poll) /\ Len(RemoveAt(polls, i)) <= MaxPolls
           /\ DOMAIN RemoveAt(polls, i) = 1..(Len(polls) - 1)
           /\ \A k \in 1..(Len(polls) - 1) :
                  RemoveAt(polls, i)[k] = IF k < i THEN polls[k] ELSE polls[k + 1]
<1>1. polls \in Seq(Poll) /\ i \in 1..Len(polls) /\ Len(polls) \in Nat
  BY PollsProperties DEF PageTypeOK
<1>2. /\ RemoveAt(polls, i) \in Seq(Poll) /\ Len(RemoveAt(polls, i)) = Len(polls) - 1
      /\ \A k \in 1..(Len(polls) - 1) :
             RemoveAt(polls, i)[k] = IF k < i THEN polls[k] ELSE polls[k + 1]
  BY <1>1, RemoveAtProperties
<1>3. DOMAIN RemoveAt(polls, i) = 1..(Len(polls) - 1)
  BY <1>2, LenProperties
<1>4. Len(polls) <= MaxPolls /\ MaxPolls \in Nat
  BY PollingAssumption DEF PageTypeOK
<1> QED
  BY <1>1, <1>2, <1>3, <1>4
\* Each change of the page, whatever the session does.
PageChange == \/ Leave \/ Gone \/ Open \/ Generate \/ NotQueued \/ PollAgain \/ Rejected
              \/ \E j \in Jobs : Queued(j) \/ Work(j)
              \/ \E i \in DOMAIN polls : Read(i) \/ Answer(i) \/ PollFails(i)

LEMMA PageMoves == [Next]_vars => PageChange \/ UNCHANGED page
BY DEF Next, SessionStep, Guarded, ReloadPage, OpenJobs, LeaveJobs, Unauthorized, PageStep,
   PageChange, vars

LEMMA PageTypeStep ==
    ASSUME PageTypeOK, PageChange
    PROVE  PageTypeOK'
<1>0. /\ mounted \in BOOLEAN /\ submitting \in BOOLEAN /\ error \in BOOLEAN /\ crossed \in BOOLEAN
      /\ followed \in Jobs \cup {Nobody} /\ interval \in Jobs \cup {Nobody}
      /\ shown \in Shown \cup {Nobody} /\ status \in [Jobs -> Statuses \cup {"none"}]
      /\ polls \in Seq(Poll) /\ Len(polls) <= MaxPolls
  BY DEF PageTypeOK
<1>1. CASE Leave
  BY <1>1 DEF Leave, Unmount, PageTypeOK
<1>2. CASE Gone \/ Open
  <2>1. <<>> \in Seq(Poll) /\ Len(<<>>) <= MaxPolls
    BY PollingAssumption, EmptySeq
  <2>2. mounted' \in BOOLEAN
    BY <1>2 DEF Gone, Open
  <2> QED
    BY <1>0, <1>2, <2>1, <2>2 DEF Gone, Open, Fresh, PageTypeOK
<1>3. CASE Generate
  <2>1. crossed' \in BOOLEAN
    BY <1>3 DEF Generate
  <2> QED
    BY <1>0, <1>3, <2>1 DEF Generate, PageTypeOK
<1>4. CASE NotQueued
  <2>1. error' \in BOOLEAN
    BY <1>4 DEF NotQueued
  <2> QED
    BY <1>0, <1>4, <2>1 DEF NotQueued, RequestEnds, PageTypeOK
<1>5. CASE PollAgain
  <2>1. interval \in Jobs
    BY <1>0, <1>5 DEF PollAgain
  <2>2. polls' \in Seq(Poll) /\ Len(polls') <= MaxPolls
    BY <1>5, <2>1, PollSent DEF PollAgain
  <2> QED
    BY <1>0, <1>5, <2>2 DEF PollAgain, PageTypeOK
<1>6. CASE Rejected
  <2>1. polls' \in Seq(Poll) /\ Len(polls') <= MaxPolls
    BY <1>0, <1>6, PollRemoved DEF Rejected, RequestEnds, PollEnds
  <2>2. /\ interval' \in Jobs \cup {Nobody} /\ submitting' \in BOOLEAN /\ status' = status
        /\ mounted' = FALSE /\ followed' = Nobody /\ shown' = Nobody /\ error' = FALSE
        /\ crossed' = FALSE
    BY <1>0, <1>6 DEF Rejected, RequestEnds, PollEnds, Unmount
  <2> QED
    BY <1>0, <2>1, <2>2 DEF PageTypeOK
<1>7. ASSUME NEW j \in Jobs, Queued(j) PROVE PageTypeOK'
  <2>1. polls' \in Seq(Poll) /\ Len(polls') <= MaxPolls
    BY <1>7, PollSent DEF Queued
  <2>2. status' \in [Jobs -> Statuses \cup {"none"}]
    BY <1>0, <1>7 DEF Queued, Statuses
  <2> QED
    BY <1>0, <1>7, <2>1, <2>2 DEF Queued, PageTypeOK
<1>8. ASSUME NEW j \in Jobs, Work(j) PROVE PageTypeOK'
  <2>1. status' \in [Jobs -> Statuses \cup {"none"}]
    BY <1>0, <1>8 DEF Work, Statuses
  <2> QED
    BY <1>0, <1>8, <2>1 DEF Work, PageTypeOK
<1>9. ASSUME NEW i \in DOMAIN polls, Read(i) PROVE PageTypeOK'
  <2>1. polls[i] \in Poll /\ polls[i].job \in Jobs
    BY PollsProperties
  <2>2. [polls[i] EXCEPT !.read = status[polls[i].job]] \in Poll
    BY <1>0, <2>1 DEF Poll
  <2>3. polls' = [polls EXCEPT ![i] = [polls[i] EXCEPT !.read = status[polls[i].job]]]
    BY <1>9 DEF Read
  <2>4. polls' \in Seq(Poll) /\ Len(polls') = Len(polls)
    BY <1>0, <2>2, <2>3, PollsProperties, ExceptSeq
  <2>5. crossed' \in BOOLEAN
    BY <1>9 DEF Read, Crossed
  <2> QED
    BY <1>0, <1>9, <2>4, <2>5 DEF Read, PageTypeOK
<1>10. ASSUME NEW i \in DOMAIN polls, Answer(i) PROVE PageTypeOK'
  <2>1. polls' \in Seq(Poll) /\ Len(polls') <= MaxPolls
    BY <1>10, PollRemoved DEF Answer
  <2>2. crossed' \in BOOLEAN
    BY <1>10 DEF Answer, Crossed
  <2>3. shown' \in Shown \cup {Nobody}
    <3>1. polls[i].job \in Jobs /\ polls[i].read \in Statuses
      BY <1>10, PollsProperties DEF Answer
    <3>2. [job |-> polls[i].job, status |-> polls[i].read] \in Shown
      BY <3>1 DEF Shown
    <3> QED
      BY <1>0, <1>10, <3>2 DEF Answer
  <2> QED
    BY <1>0, <1>10, <2>1, <2>2, <2>3 DEF Answer, PageTypeOK
<1>11. ASSUME NEW i \in DOMAIN polls, PollFails(i) PROVE PageTypeOK'
  <2>1. polls' \in Seq(Poll) /\ Len(polls') <= MaxPolls
    BY <1>11, PollRemoved DEF PollFails, PollEnds
  <2>2. crossed' \in BOOLEAN /\ error' \in BOOLEAN
    BY <1>11 DEF PollFails, Crossed
  <2> QED
    BY <1>0, <1>11, <2>1, <2>2 DEF PollFails, PollEnds, PageTypeOK
<1> QED
  BY <1>1, <1>2, <1>3, <1>4, <1>5, <1>6, <1>7, <1>8, <1>9, <1>10, <1>11 DEF PageChange

LEMMA PageInitially == PageInit => PageTypeOK
<1>1. <<>> \in Seq(Poll) /\ Len(<<>>) <= MaxPolls
  BY PollingAssumption, EmptySeq
<1> QED
  BY <1>1 DEF PageInit, PageTypeOK

LEMMA PageTypeAlways == Spec => []PageTypeOK
<1>1. Init => PageTypeOK
  BY PageInitially DEF Init
<1>2. PageTypeOK /\ [Next]_vars => PageTypeOK'
  <2> SUFFICES ASSUME PageTypeOK, [Next]_vars PROVE PageTypeOK'
    OBVIOUS
  <2>1. CASE UNCHANGED page
    BY <2>1 DEF page, PageTypeOK
  <2> QED
    BY <2>1, PageMoves, PageTypeStep
<1> QED
  BY <1>1, <1>2, PTL DEF Spec

\* Every variable of the tab keeps its type, and the polls under way their bound.
THEOREM TypeCorrect == Spec => []TypeOK
<1>1. SessionTypeOK /\ PageTypeOK => TypeOK
  BY DEF TypeOK
<1> QED
  BY <1>1, SessionAlways, PageTypeAlways, PTL
-----------------------------------------------------------------------------
(***************************************************************************)
(* The page: it follows one job.                                           *)
(***************************************************************************)

\* The polls were read in the order they were sent, so that of one job none that
\* was sent after one that read its end reads less.
InOrder ==
    \A i, k \in DOMAIN polls :
        i < k /\ polls[k].read # "none" =>
            /\ polls[i].read # "none"
            /\ polls[i].job = polls[k].job /\ polls[i].read \in Ended => polls[k].read \in Ended

\* A job that was read as ended has ended.
Truthful == \A i \in DOMAIN polls : polls[i].read \in Ended => status[polls[i].job] \in Ended

\* Once its end is shown, no poll of the job has read anything else.
EndStays ==
    HasEnded => /\ status[followed] \in Ended
                /\ \A i \in DOMAIN polls :
                       polls[i].job = followed /\ polls[i].read # "none" => polls[i].read \in Ended

\* Before there is a job to follow nothing is shown and nothing polled.
Waiting == /\ followed = Nobody => shown = Nobody /\ interval = Nobody
           /\ submitting => followed = Nobody

\* What holds of a page while no answer crosses.
FollowInv == Truthful /\ (mounted /\ ~crossed => InOrder /\ EndStays /\ Waiting /\ FollowsOneJob)

\* A job that has ended stays as it is.
LEMMA EndsStay ==
    ASSUME PageTypeOK, PageChange, NEW j \in Jobs, status[j] \in Ended
    PROVE  status'[j] \in Ended
<1>1. status \in [Jobs -> Statuses \cup {"none"}]
  BY DEF PageTypeOK
<1>2. ASSUME NEW k \in Jobs, Queued(k) \/ Work(k) PROVE status'[j] \in Ended
  BY <1>1, <1>2 DEF Queued, Work, Ended
<1>3. CASE \/ Leave \/ Gone \/ Open \/ Generate \/ NotQueued \/ PollAgain \/ Rejected
           \/ \E i \in DOMAIN polls : Read(i) \/ Answer(i) \/ PollFails(i)
  BY <1>3 DEF Leave, Gone, Open, Generate, NotQueued, PollAgain, Rejected, RequestEnds, PollEnds,
     Read, Answer, PollFails
<1> QED
  BY <1>2, <1>3 DEF PageChange

\* A list of polls that has lost one keeps their order.
LEMMA RemovalKeepsOrder ==
    ASSUME PageTypeOK, NEW i \in DOMAIN polls, polls' = RemoveAt(polls, i), InOrder
    PROVE  InOrder'
<1>1. /\ Len(polls) \in Nat /\ DOMAIN polls = 1..Len(polls) /\ i \in 1..Len(polls)
      /\ DOMAIN polls' = 1..(Len(polls) - 1)
      /\ \A k \in 1..(Len(polls) - 1) : polls'[k] = IF k < i THEN polls[k] ELSE polls[k + 1]
  BY PollsProperties, PollRemoved
<1> DEFINE old(k) == IF k < i THEN k ELSE k + 1
<1>2. \A k \in DOMAIN polls' : old(k) \in DOMAIN polls /\ polls'[k] = polls[old(k)]
  BY <1>1
<1>3. \A k, l \in DOMAIN polls' : k < l => old(k) < old(l)
  BY <1>1
<1> HIDE DEF old
<1> QED
  BY <1>2, <1>3 DEF InOrder

\* Whatever is done with a list, what it still holds it held before.
LEMMA Remaining ==
    ASSUME PageTypeOK, NEW i \in DOMAIN polls, polls' = RemoveAt(polls, i)
    PROVE  \A k \in DOMAIN polls' : \E l \in DOMAIN polls : polls'[k] = polls[l]
<1>1. /\ Len(polls) \in Nat /\ DOMAIN polls = 1..Len(polls) /\ i \in 1..Len(polls)
      /\ DOMAIN polls' = 1..(Len(polls) - 1)
      /\ \A k \in 1..(Len(polls) - 1) : polls'[k] = IF k < i THEN polls[k] ELSE polls[k + 1]
  BY PollsProperties, PollRemoved
<1>2. \A k \in 1..(Len(polls) - 1) : k \in DOMAIN polls /\ k + 1 \in DOMAIN polls
  BY <1>1
<1> QED
  BY <1>1, <1>2

\* Sending a poll disturbs neither the order nor the truth of those under way.
LEMMA SentKeepsOrder ==
    ASSUME PageTypeOK, NEW j \in Jobs, Len(polls) < MaxPolls, polls' = Sent(j), InOrder
    PROVE  InOrder'
<1>1. /\ Len(polls) \in Nat /\ DOMAIN polls = 1..Len(polls)
      /\ DOMAIN polls' = 1..(Len(polls) + 1)
      /\ \A k \in 1..Len(polls) : polls'[k] = polls[k]
      /\ polls'[Len(polls) + 1] = [job |-> j, read |-> "none"]
  BY PollsProperties, PollSent
<1>2. polls'[Len(polls) + 1].read = "none"
  BY <1>1
<1>3. ASSUME NEW i \in DOMAIN polls', NEW k \in DOMAIN polls', i < k, polls'[k].read # "none"
      PROVE  i \in DOMAIN polls /\ k \in DOMAIN polls /\ polls'[i] = polls[i] /\ polls'[k] = polls[k]
  BY <1>1, <1>2, <1>3
<1> QED
  BY <1>3 DEF InOrder

LEMMA SentPolls ==
    ASSUME PageTypeOK, NEW j \in Jobs, Len(polls) < MaxPolls, polls' = Sent(j)
    PROVE  \A k \in DOMAIN polls' : polls'[k].read = "none" \/ \E l \in DOMAIN polls : polls'[k] = polls[l]
<1>1. /\ Len(polls) \in Nat /\ DOMAIN polls = 1..Len(polls)
      /\ DOMAIN polls' = 1..(Len(polls) + 1)
      /\ \A k \in 1..Len(polls) : polls'[k] = polls[k]
      /\ polls'[Len(polls) + 1] = [job |-> j, read |-> "none"]
  BY PollsProperties, PollSent
<1>2. polls'[Len(polls) + 1].read = "none"
  BY <1>1
<1> QED
  BY <1>1, <1>2
\* A poll that is read.
LEMMA ReadPolls ==
    ASSUME PageTypeOK, NEW i \in DOMAIN polls, Read(i)
    PROVE  /\ DOMAIN polls' = DOMAIN polls /\ UNCHANGED status
           /\ \A k \in DOMAIN polls : k # i => polls'[k] = polls[k]
           /\ polls'[i].job = polls[i].job /\ polls'[i].read = status[polls[i].job]
<1>1. /\ polls \in Seq(Poll) /\ Len(polls) \in Nat /\ DOMAIN polls = 1..Len(polls)
      /\ polls[i] \in Poll
  BY PollsProperties DEF PageTypeOK
<1>2. polls' = [polls EXCEPT ![i] = [polls[i] EXCEPT !.read = status[polls[i].job]]]
  BY DEF Read
<1>3. polls'[i] = [polls[i] EXCEPT !.read = status[polls[i].job]]
  BY <1>1, <1>2
<1>4. [polls[i] EXCEPT !.read = status[polls[i].job]].job = polls[i].job
      /\ [polls[i] EXCEPT !.read = status[polls[i].job]].read = status[polls[i].job]
  BY <1>1 DEF Poll
<1> QED
  BY <1>1, <1>2, <1>3, <1>4 DEF Read

LEMMA TruthfulStep ==
    ASSUME PageTypeOK, Truthful, PageChange
    PROVE  Truthful'
<1>0. \A k \in DOMAIN polls : polls[k].job \in Jobs
  BY PollsProperties
<1>1. ASSUME \A k \in DOMAIN polls' : polls'[k].read = "none" \/ \E l \in DOMAIN polls : polls'[k] = polls[l]
      PROVE  Truthful'
  <2> SUFFICES ASSUME NEW k \in DOMAIN polls', polls'[k].read \in Ended
               PROVE  status'[polls'[k].job] \in Ended
    BY DEF Truthful, Ended
  <2>1. PICK l \in DOMAIN polls : polls'[k] = polls[l]
    BY <1>1 DEF Ended
  <2>2. status[polls[l].job] \in Ended /\ polls[l].job \in Jobs
    BY <1>0, <2>1 DEF Truthful
  <2> QED
    BY <2>1, <2>2, EndsStay
<1>2. CASE polls' = polls
  BY <1>1, <1>2
<1>3. CASE polls' = <<>>
  BY <1>3 DEF Truthful
<1>4. ASSUME NEW i \in DOMAIN polls, polls' = RemoveAt(polls, i) PROVE Truthful'
  BY <1>1, <1>4, Remaining
<1>5. ASSUME NEW j \in Jobs, Len(polls) < MaxPolls, polls' = Sent(j) PROVE Truthful'
  BY <1>1, <1>5, SentPolls
<1>6. ASSUME NEW i \in DOMAIN polls, Read(i) PROVE Truthful'
  BY <1>6, ReadPolls DEF Truthful
<1>7. CASE Leave \/ Generate \/ NotQueued \/ \E j \in Jobs : Work(j)
  BY <1>2, <1>7 DEF Leave, Generate, NotQueued, RequestEnds, Work
<1>8. CASE Gone \/ Open
  BY <1>3, <1>8 DEF Gone, Open, Fresh
<1>9. CASE PollAgain \/ \E j \in Jobs : Queued(j)
  BY <1>5, <1>9 DEF PollAgain, Queued, PageTypeOK
<1>10. CASE Rejected \/ \E i \in DOMAIN polls : Answer(i) \/ PollFails(i)
  BY <1>2, <1>4, <1>10 DEF Rejected, RequestEnds, PollEnds, Answer, PollFails
<1> QED
  BY <1>6, <1>7, <1>8, <1>9, <1>10 DEF PageChange

-----------------------------------------------------------------------------
\* The facts of a page on which no answer has crossed, under one name.
Following == InOrder /\ EndStays /\ Waiting /\ FollowsOneJob

LEMMA GenerateFollows ==
    ASSUME PageTypeOK, FollowInv, Generate, ~crossed'
    PROVE  Following'
<1>1. InOrder'
  <2>1. CASE polls = <<>>
    BY <2>1 DEF Generate, InOrder
  <2>2. CASE ~crossed
    BY <2>2 DEF Generate, FollowInv, InOrder
  <2> QED
    BY <2>1, <2>2 DEF Generate
<1>2. /\ followed' = Nobody /\ shown' = Nobody /\ interval' = Nobody
  BY DEF Generate
<1> QED
  BY <1>1, <1>2 DEF Following, EndStays, HasEnded, Waiting, FollowsOneJob

\* A new job: nothing has been shown, and its poll is the only one about it.
LEMMA QueuedFollows ==
    ASSUME PageTypeOK, FollowInv, NEW j \in Jobs, Queued(j), mounted, ~crossed
    PROVE  Following'
<1>0. InOrder /\ Waiting /\ submitting
  BY DEF FollowInv, Queued
<1>1. InOrder'
  BY <1>0, SentKeepsOrder DEF Queued
<1>2. followed' = j /\ shown' = Nobody /\ interval' = j /\ submitting' = FALSE /\ j # Nobody
  BY <1>0, PollingAssumption DEF Queued, Waiting
<1> QED
  BY <1>1, <1>2 DEF Following, EndStays, HasEnded, Waiting, FollowsOneJob

LEMMA PollAgainFollows ==
    ASSUME PageTypeOK, FollowInv, PollAgain, mounted, ~crossed
    PROVE  Following'
<1>0. Following /\ interval \in Jobs
  BY DEF FollowInv, Following, PollAgain, PageTypeOK
<1>1. InOrder'
  BY <1>0, SentKeepsOrder DEF PollAgain, Following
<1>2. UNCHANGED <<mounted, submitting, followed, shown, interval, error, status, crossed>>
  BY DEF PollAgain
<1>3. EndStays'
  <2>1. \A k \in DOMAIN polls' : polls'[k].read = "none" \/ \E l \in DOMAIN polls : polls'[k] = polls[l]
    BY <1>0, SentPolls DEF PollAgain
  <2> QED
    BY <1>0, <1>2, <2>1 DEF Following, EndStays, HasEnded
<1>4. Waiting' /\ FollowsOneJob'
  BY <1>0, <1>2 DEF Following, Waiting, FollowsOneJob, HasEnded
<1> QED
  BY <1>1, <1>3, <1>4 DEF Following

LEMMA WorkFollows ==
    ASSUME PageTypeOK, FollowInv, NEW j \in Jobs, Work(j), mounted, ~crossed
    PROVE  Following'
<1>0. Following
  BY DEF FollowInv, Following
<1>1. UNCHANGED <<mounted, submitting, followed, shown, interval, polls, error, crossed>>
  BY DEF Work
<1>2. EndStays'
  <2> SUFFICES ASSUME HasEnded' PROVE /\ status'[followed] \in Ended
                                      /\ \A i \in DOMAIN polls :
                                             polls[i].job = followed /\ polls[i].read # "none"
                                                 => polls[i].read \in Ended
    BY <1>1 DEF EndStays, Ended
  <2>1. HasEnded
    BY <1>1 DEF HasEnded, Ended
  <2>2. followed \in Jobs
    BY <2>1 DEF HasEnded, PageTypeOK, Shown
  <2> QED
    BY <1>0, <2>1, <2>2, EndsStay DEF Following, EndStays, PageChange
<1> QED
  BY <1>0, <1>1, <1>2 DEF Following, InOrder, Waiting, FollowsOneJob, HasEnded

\* A poll that is read after all that were sent before it.
LEMMA ReadFollows ==
    ASSUME PageTypeOK, FollowInv, NEW i \in DOMAIN polls, Read(i), mounted, ~crossed'
    PROVE  Following'
<1>0. Following /\ \A k \in 1..(i - 1) : polls[k].read # "none"
  BY DEF FollowInv, Following, Read, Crossed
<1>1. UNCHANGED <<mounted, submitting, followed, shown, interval, error, status>>
  BY DEF Read
<1>2. /\ DOMAIN polls' = DOMAIN polls
      /\ \A k \in DOMAIN polls : k # i => polls'[k] = polls[k]
      /\ polls'[i].job = polls[i].job /\ polls'[i].read = status[polls[i].job]
  BY ReadPolls
<1>3. DOMAIN polls = 1..Len(polls) /\ Len(polls) \in Nat /\ polls[i].read = "none"
  BY PollsProperties DEF Read
<1>4. InOrder'
  <2> SUFFICES ASSUME NEW k \in DOMAIN polls, NEW l \in DOMAIN polls, k < l, polls'[l].read # "none"
               PROVE  /\ polls'[k].read # "none"
                      /\ polls'[k].job = polls'[l].job /\ polls'[k].read \in Ended
                             => polls'[l].read \in Ended
    BY <1>2 DEF InOrder, Ended
  <2>1. CASE k # i /\ l # i
    BY <1>0, <1>2, <2>1 DEF Following, InOrder
  <2>2. CASE k = i
    BY <1>0, <1>2, <1>3, <2>2 DEF Following, InOrder
  <2>3. CASE l = i
    <3>1. k \in 1..(i - 1)
      BY <1>3, <2>3
    <3>2. polls'[k] = polls[k] /\ polls[k].read # "none"
      BY <1>0, <1>2, <1>3, <3>1
    <3> QED
      BY <1>2, <2>3, <3>2 DEF FollowInv, Truthful
  <2> QED
    BY <2>1, <2>2, <2>3
<1>5. EndStays'
  BY <1>0, <1>1, <1>2 DEF Following, EndStays, HasEnded
<1>6. ~crossed
  BY DEF Read, Crossed
<1>7. Waiting'
  BY <1>0, <1>1 DEF Following, Waiting
<1>8. FollowsOneJob'
  <2>1. HasEnded' <=> HasEnded
    BY <1>1 DEF HasEnded
  <2> QED
    BY <1>0, <1>1, <1>6, <2>1 DEF Following, FollowsOneJob
<1> QED
  BY <1>4, <1>5, <1>7, <1>8 DEF Following

\* The answer of the first poll, about the job that is followed.
LEMMA AnswerFollows ==
    ASSUME PageTypeOK, FollowInv, NEW i \in DOMAIN polls, Answer(i), mounted, ~crossed'
    PROVE  Following'
<1>0. Following /\ ~(i > 1) /\ polls[i].job = followed
  BY DEF FollowInv, Following, Answer, Crossed, Late
<1>1. /\ DOMAIN polls = 1..Len(polls) /\ Len(polls) \in Nat
      /\ polls[i].job \in Jobs /\ polls[i].read \in Statuses
  BY PollsProperties DEF Answer
<1>2. i = 1
  BY <1>0, <1>1
<1>3. /\ shown' = [job |-> followed, status |-> polls[1].read]
      /\ interval' = IF polls[1].read \in Ended THEN Nobody ELSE interval
      /\ UNCHANGED <<mounted, submitting, followed, error, status>>
      /\ polls' = RemoveAt(polls, i)
  BY <1>0, <1>2 DEF Answer
<1>4. InOrder'
  BY <1>0, <1>3, RemovalKeepsOrder DEF Following
<1>5. polls[1].job = followed /\ polls[1].read # "none" /\ followed # Nobody
  BY <1>0, <1>1, <1>2, PollingAssumption DEF Statuses, Ended
<1>6. shown' # Nobody => shown'.job = followed' /\ shown'.status = polls[1].read
  BY <1>3
<1>7. ASSUME polls[1].read \in Ended
      PROVE  /\ status[followed] \in Ended
             /\ \A k \in DOMAIN polls' :
                    polls'[k].job = followed /\ polls'[k].read # "none" => polls'[k].read \in Ended
  <2>1. status[followed] \in Ended
    BY <1>2, <1>5, <1>7 DEF FollowInv, Truthful
  <2>2. ASSUME NEW k \in DOMAIN polls', polls'[k].job = followed, polls'[k].read # "none"
        PROVE  polls'[k].read \in Ended
    <3>1. k \in 1..(Len(polls) - 1) /\ polls'[k] = IF k < 1 THEN polls[k] ELSE polls[k + 1]
      BY <1>2, <1>3, PollRemoved
    <3>2. polls'[k] = polls[k + 1] /\ 1 \in DOMAIN polls /\ k + 1 \in DOMAIN polls /\ 1 < k + 1
      BY <1>1, <3>1
    <3> QED
      BY <1>0, <1>5, <1>7, <2>2, <3>2 DEF Following, InOrder
  <2> QED
    BY <2>1, <2>2
<1>8. EndStays'
  BY <1>3, <1>6, <1>7 DEF EndStays, HasEnded
<1>9. HasEnded => polls[1].read \in Ended
  BY <1>0, <1>2, <1>5 DEF Following, EndStays
<1>10. shown' \in Shown
  BY <1>0, <1>1, <1>2, <1>3 DEF Shown
<1>11. polls[1].read \in Ended => HasEnded'
  BY <1>3, <1>6, <1>10, PollingAssumption DEF HasEnded
<1>12. crossed = FALSE
  BY DEF Answer, Crossed, PageTypeOK
<1>13. FollowsOneJob'
  <2>1. interval \in {followed, Nobody} /\ (interval = Nobody => HasEnded \/ error)
    BY <1>0, <1>5, <1>12 DEF Following, FollowsOneJob
  <2>2. interval' \in {followed', Nobody} /\ (interval' = Nobody => HasEnded' \/ error')
    BY <1>3, <1>9, <1>11, <2>1
  <2> QED
    BY <1>3, <1>6, <2>2 DEF FollowsOneJob
<1>14. Waiting'
  BY <1>0, <1>3, <1>5 DEF Following, Waiting
<1> QED
  BY <1>4, <1>8, <1>13, <1>14 DEF Following
\* A poll that fails is owned up to.
LEMMA PollFailsFollows ==
    ASSUME PageTypeOK, FollowInv, NEW i \in DOMAIN polls, PollFails(i), mounted, ~crossed'
    PROVE  Following'
<1>0. Following /\ ~crossed
  BY DEF FollowInv, Following, PollFails, Crossed
<1>1. /\ interval' = Nobody /\ polls' = RemoveAt(polls, i) /\ error' = TRUE
      /\ UNCHANGED <<mounted, submitting, followed, shown, status>>
  BY DEF PollFails, PollEnds
<1>2. InOrder'
  BY <1>0, <1>1, RemovalKeepsOrder DEF Following
<1>3. HasEnded' <=> HasEnded
  BY <1>1 DEF HasEnded
<1>4. EndStays'
  BY <1>0, <1>1, <1>3, Remaining DEF Following, EndStays
<1>5. Waiting'
  BY <1>0, <1>1 DEF Following, Waiting
<1>6. FollowsOneJob'
  BY <1>0, <1>1 DEF Following, FollowsOneJob
<1> QED
  BY <1>2, <1>4, <1>5, <1>6 DEF Following

LEMMA FollowStep ==
    ASSUME PageTypeOK, FollowInv, PageChange
    PROVE  FollowInv'
<1> SUFFICES ASSUME mounted', ~crossed' PROVE Following'
  BY TruthfulStep DEF FollowInv, Following
<1>0. mounted /\ ~crossed => Following
  BY DEF FollowInv, Following
<1>1. CASE Leave \/ Gone \/ Rejected
  BY <1>1 DEF Leave, Gone, Rejected, Unmount
<1>2. CASE Open
  <2>1. InOrder'
    BY <1>2 DEF Open, Fresh, InOrder
  <2> QED
    BY <1>2, <2>1 DEF Open, Fresh, Following, EndStays, HasEnded, Waiting, FollowsOneJob
<1>3. CASE Generate
  BY <1>3, GenerateFollows
<1>4. CASE NotQueued
  <2>1. Following /\ UNCHANGED <<mounted, followed, shown, crossed, interval, polls, status>>
        /\ submitting' = FALSE /\ error' = TRUE
    BY <1>0, <1>4 DEF NotQueued, RequestEnds
  <2>2. HasEnded' <=> HasEnded
    BY <2>1 DEF HasEnded
  <2>3. InOrder' /\ EndStays' /\ Waiting'
    BY <2>1, <2>2 DEF Following, InOrder, EndStays, Waiting
  <2>4. FollowsOneJob'
    BY <2>1, <2>2 DEF Following, FollowsOneJob
  <2> QED
    BY <2>3, <2>4 DEF Following
<1>5. CASE PollAgain
  BY <1>5, PollAgainFollows DEF PollAgain
<1>6. ASSUME NEW j \in Jobs, Queued(j) PROVE Following'
  BY <1>6, QueuedFollows DEF Queued
<1>7. ASSUME NEW j \in Jobs, Work(j) PROVE Following'
  BY <1>7, WorkFollows DEF Work
<1>8. ASSUME NEW i \in DOMAIN polls, Read(i) PROVE Following'
  BY <1>8, ReadFollows DEF Read
<1>9. ASSUME NEW i \in DOMAIN polls, Answer(i) PROVE Following'
  BY <1>9, AnswerFollows DEF Answer
<1>10. ASSUME NEW i \in DOMAIN polls, PollFails(i) PROVE Following'
  BY <1>10, PollFailsFollows DEF PollFails
<1> QED
  BY <1>1, <1>2, <1>3, <1>4, <1>5, <1>6, <1>7, <1>8, <1>9, <1>10 DEF PageChange

\* As long as no answer crosses, the page shows and polls the job it is about, and
\* has stopped only at its end or at a failure: for any number of jobs, of polls
\* under way and of visits.
THEOREM FollowsTheorem == Spec => []FollowsOneJob
<1>1. Init => FollowInv
  BY DEF Init, PageInit, FollowInv, Truthful
<1>2. PageTypeOK /\ FollowInv /\ [Next]_vars => FollowInv'
  <2> SUFFICES ASSUME PageTypeOK, FollowInv, [Next]_vars PROVE FollowInv'
    OBVIOUS
  <2>1. CASE UNCHANGED page
    BY <2>1 DEF page, FollowInv, Truthful, InOrder, EndStays, HasEnded, Waiting, FollowsOneJob
  <2> QED
    BY <2>1, PageMoves, FollowStep
<1>3. FollowInv => FollowsOneJob
  BY DEF FollowInv, FollowsOneJob
<1> QED
  BY <1>1, <1>2, <1>3, PageTypeAlways, PTL DEF Spec
=============================================================================
