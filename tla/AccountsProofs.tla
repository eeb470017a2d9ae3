---------------------------- MODULE AccountsProofs ----------------------------
(***************************************************************************)
(* Theorems of Accounts, for any people, organizations, requests in        *)
(* flight, token lifetime and failing transactions.                        *)
(***************************************************************************)
EXTENDS Accounts, TLAPS

NewRows == [role : Roles, org : Orgs \cup {Null}, active : {TRUE}]

\* What the checks of a request leave behind in its thread.
Checked(j) ==
    /\ j.kind \in {"insert", "enroll", "found"} => j.user \in Users /\ j.change \in NewRows
    /\ j.kind = "issue" => j.user \in Users /\ j.change \in NewRows
    /\ j.kind = "update" => j.user \in Users /\ j.actor \in Claims /\ j.change.org # Null
    /\ j.kind \in {"found", "onboard", "business"} => j.change.org \in Orgs
    /\ j.kind = "business" => j.business \in Businesses
    /\ j.kind = "update" => Platform(j.actor) \/ j.actor.role = "admin"
    /\ j.kind \in {"enroll", "found"} => j.actor = Null \/ Platform(j.actor)
    /\ j.kind \in {"insert", "update"} /\ j.actor.role = "admin" =>
           /\ j.change.role # "super_admin"
           /\ j.change.org \in {Keep, j.actor.org}
           /\ j.kind = "insert" => j.change.org = j.actor.org
    /\ j.kind \in {"insert", "update"} => j.actor # Null
    /\ j.kind = "enroll" /\ j.actor = Null => j.change.role = "super_admin"

JobInv == \A r \in Requests : Checked(job[r])

LEMMA NullIsNothing ==
    /\ Null \notin Users /\ Null \notin Orgs /\ Null \notin Rows /\ Null \notin Claims
    /\ Keep \notin Orgs /\ Keep # Null /\ Keep \notin Roles /\ Keep \notin BOOLEAN
    /\ Expiry \in Nat
BY AccountsAssumption

LEMMA IdleChecked == Idle \in Jobs /\ Checked(Idle)
BY DEF Idle, Nothing, Jobs, Kinds, Changes, Checked

\* Those who ask are platform administrators or administrators with a row.
LEMMA ActorsType == TypeOK => Actors \subseteq Claims
<1> SUFFICES ASSUME TypeOK, NEW a \in Actors PROVE a \in Claims
  OBVIOUS
<1>1. CASE a = ServiceAdmin
  BY <1>1 DEF ServiceAdmin, Claims, Roles
<1>2. ASSUME NEW t \in tokens, a = [user |-> t.user, role |-> t.role, org |-> t.org]
      PROVE  a \in Claims
  BY <1>2 DEF TypeOK, Tokens, Claims
<1> QED
  BY <1>1, <1>2 DEF Actors

LEMMA TakeChecked ==
    ASSUME TypeOK, JobInv, NEW r \in Requests, NEW kind \in Kinds, NEW a \in Claims \cup {Null},
           NEW u \in Users \cup {Null}, NEW c \in Changes, NEW b \in Businesses \cup {Null},
           Take(r, kind, a, u, c, b),
           Checked([kind |-> kind, actor |-> a, user |-> u, change |-> c, business |-> b])
    PROVE  job' \in [Requests -> Jobs] /\ JobInv' /\ served' \in Nat
<1>1. [kind |-> kind, actor |-> a, user |-> u, change |-> c, business |-> b] \in Jobs
  BY DEF Jobs
<1>2. job' \in [Requests -> Jobs] /\ served' \in Nat
  BY <1>1 DEF Take, TypeOK
<1>3. ASSUME NEW s \in Requests PROVE Checked(job'[s])
  BY <1>3 DEF Take, TypeOK, JobInv
<1> QED
  BY <1>2, <1>3 DEF JobInv

\* Every request that is taken has been checked.
LEMMA AskChecked ==
    ASSUME TypeOK, JobInv, NEW r \in Requests, Ask(r)
    PROVE  job' \in [Requests -> Jobs] /\ JobInv' /\ served' \in Nat
<1>a. Actors \subseteq Claims
  BY ActorsType
<1>b. \A role \in Roles, o \in Orgs \cup {Null} :
          Placed(role, o) \in NewRows /\ Placed(role, o) \in Changes
  BY DEF Placed, NewRows, Changes
<1>1. ASSUME NEW none, AskPublic(r, none) PROVE job' \in [Requests -> Jobs] /\ JobInv' /\ served' \in Nat
  <2>1. PICK u \in Users : Take(r, "enroll", Null, u, Placed("super_admin", Null), Null)
    BY <1>1 DEF AskPublic
  <2>2. Placed("super_admin", Null) \in NewRows /\ Placed("super_admin", Null) \in Changes
    BY <1>b DEF Roles
  <2>3. Checked([kind |-> "enroll", actor |-> Null, user |-> u,
                 change |-> Placed("super_admin", Null), business |-> Null])
    BY <2>2 DEF Checked, Placed
  <2> QED
    BY <2>1, <2>2, <2>3, TakeChecked DEF Kinds
<1>2. CASE Register(r)
  <2>1. PICK a \in {x \in Actors : Platform(x)}, u \in Users, role \in Roles, o \in Orgs \cup {Null} :
            Take(r, "enroll", a, u, Placed(role, o), Null)
    BY <1>2 DEF Register
  <2>2. Checked([kind |-> "enroll", actor |-> a, user |-> u, change |-> Placed(role, o),
                 business |-> Null])
    BY <1>a, <1>b, NullIsNothing DEF Checked
  <2> QED
    BY <2>1, <2>2, <1>a, <1>b, TakeChecked DEF Kinds
<1>3. CASE CreateUser(r)
  <2>1. PICK a \in Actors, u \in Users, role \in {"admin", "sme_user"}, o \in Orgs :
            /\ Platform(a) \/ (OrgAdmin(a) /\ role = "sme_user" /\ o = a.org)
            /\ Take(r, "insert", a, u, Placed(role, o), Null)
    BY <1>3 DEF CreateUser
  <2>2. a # Null
    BY <1>a, NullIsNothing
  <2>3. Checked([kind |-> "insert", actor |-> a, user |-> u, change |-> Placed(role, o),
                 business |-> Null])
    BY <1>b, <2>1, <2>2 DEF Checked, Platform, OrgAdmin, Placed, Roles
  <2> QED
    BY <2>1, <2>3, <1>a, <1>b, TakeChecked DEF Kinds, Roles
<1>4. CASE UpdateUser(r)
  <2>1. PICK a \in Actors, u \in Users, c \in Patches :
            /\ Platform(a) \/ (OrgAdmin(a) /\ c.role # "super_admin" /\ c.org \in {Keep, a.org})
            /\ Take(r, "update", a, u, c, Null)
    BY <1>4 DEF UpdateUser
  <2>2. a # Null /\ c \in Changes /\ c.org # Null
    BY <1>a, NullIsNothing, AccountsAssumption
  <2>3. Checked([kind |-> "update", actor |-> a, user |-> u, change |-> c, business |-> Null])
    BY <1>a, <2>1, <2>2 DEF Checked, Platform, OrgAdmin
  <2> QED
    BY <2>1, <2>2, <2>3, <1>a, TakeChecked DEF Kinds
<1>5. CASE DeleteUser(r)
  <2> DEFINE c == [Nothing EXCEPT !.active = FALSE]
  <2>1. PICK a \in Actors, u \in Users :
            (Platform(a) \/ OrgAdmin(a)) /\ Take(r, "update", a, u, c, Null)
    BY <1>5 DEF DeleteUser
  <2>2. c \in Changes /\ c.org = Keep /\ c.role = Keep
    BY DEF Nothing, Changes
  <2>3. a # Null /\ Keep # "super_admin" /\ Keep # Null
    BY <1>a, NullIsNothing DEF Roles
  <2> HIDE DEF c
  <2>4. Checked([kind |-> "update", actor |-> a, user |-> u, change |-> c, business |-> Null])
    BY <1>a, <2>1, <2>2, <2>3 DEF Checked, Platform, OrgAdmin
  <2> QED
    BY <2>1, <2>2, <2>4, <1>a, TakeChecked DEF Kinds
<1>6. CASE CreateOrganization(r)
  <2>1. PICK a \in {x \in Actors : Platform(x)}, u \in Users, o \in Orgs :
            Take(r, "found", a, u, Placed("admin", o), Null)
    BY <1>6 DEF CreateOrganization
  <2>2. Checked([kind |-> "found", actor |-> a, user |-> u, change |-> Placed("admin", o),
                 business |-> Null])
    BY <1>b DEF Checked, Roles, Placed
  <2> QED
    BY <2>1, <2>2, <1>a, <1>b, TakeChecked DEF Kinds, Roles
<1>7. ASSUME NEW kind \in {"onboard", "business"}, NEW a \in Actors, NEW o \in Orgs,
             NEW b \in Businesses \cup {Null}, kind = "business" => b \in Businesses,
             Take(r, kind, a, Null, [Nothing EXCEPT !.org = o], b)
      PROVE  job' \in [Requests -> Jobs] /\ JobInv' /\ served' \in Nat
  <2> DEFINE c == [Nothing EXCEPT !.org = o]
  <2>1. c \in Changes /\ c.org = o
    BY DEF Nothing, Changes
  <2> HIDE DEF c
  <2>2. Checked([kind |-> kind, actor |-> a, user |-> Null, change |-> c, business |-> b])
    BY <1>7, <2>1 DEF Checked
  <2> QED
    BY <1>7, <2>1, <2>2, <1>a, TakeChecked DEF Kinds, c
<1>8. CASE Onboard(r)
  BY <1>7, <1>8 DEF Onboard
<1>9. CASE CreateBusiness(r)
  <2>1. orgs \subseteq Orgs
    BY DEF TypeOK
  <2> QED
    BY <1>7, <1>9, <2>1 DEF CreateBusiness
<1>10. CASE Login(r)
  <2>1. PICK u \in Users : Active(u) /\ Take(r, "issue", Null, u, account[u], Null)
    BY <1>10 DEF Login
  <2>2. account[u] \in Rows
    BY <2>1 DEF Active, Exists, TypeOK
  <2>3. account[u] \in NewRows /\ account[u] \in Changes
    BY <2>1, <2>2 DEF Active, Rows, NewRows, Changes
  <2>4. Checked([kind |-> "issue", actor |-> Null, user |-> u, change |-> account[u],
                 business |-> Null])
    BY <2>3 DEF Checked
  <2> QED
    BY <2>1, <2>3, <2>4, TakeChecked DEF Kinds
<1> QED
  BY <1>1, <1>2, <1>3, <1>4, <1>5, <1>6, <1>8, <1>9, <1>10 DEF Ask, Bootstrap, RegisterFirst

\* An answer or an end leaves the other threads alone.
LEMMA EndsChecked ==
    ASSUME TypeOK, JobInv, NEW r \in Requests, NEW then,
           then \in Jobs, Checked(then),
           job' = [job EXCEPT ![r] = then] \/ job' = [job EXCEPT ![r] = Idle]
    PROVE  job' \in [Requests -> Jobs] /\ JobInv'
<1>1. job' \in [Requests -> Jobs]
  BY IdleChecked DEF TypeOK
<1>2. ASSUME NEW s \in Requests PROVE Checked(job'[s])
  BY IdleChecked DEF TypeOK, JobInv
<1> QED
  BY <1>1, <1>2 DEF JobInv

\* Where a thread goes after INSERT INTO users.
LEMMA InsertChecked ==
    ASSUME TypeOK, JobInv, NEW r \in Requests, InsertUser(r)
    PROVE  job' \in [Requests -> Jobs] /\ JobInv'
<1> DEFINE j == job[r]
           then == IF j.kind = "insert" THEN Idle ELSE [j EXCEPT !.kind = "issue", !.actor = Null]
<1>1. j \in Jobs /\ Checked(j) /\ j.kind \in {"insert", "enroll"}
  BY DEF TypeOK, JobInv, InsertUser
<1>2. j.user \in Users /\ j.change \in NewRows
  BY <1>1 DEF Checked
<1>3. then \in Jobs /\ Checked(then)
  <2>1. CASE j.kind = "insert"
    BY <2>1, IdleChecked
  <2>2. CASE j.kind # "insert"
    <3>1. then \in Jobs
      BY <1>1, <2>2 DEF Jobs, Kinds
    <3>2. then.kind = "issue" /\ then.user = j.user /\ then.change = j.change
      BY <1>1, <2>2 DEF Jobs
    <3> QED
      BY <1>2, <3>1, <3>2 DEF Checked
  <2> QED
    BY <2>1, <2>2
<1>4. job' = [job EXCEPT ![r] = then] \/ job' = [job EXCEPT ![r] = Idle]
  BY DEF InsertUser, Ends
<1> HIDE DEF then
<1> QED
  BY <1>3, <1>4, EndsChecked

LEMMA FinishChecked ==
    ASSUME TypeOK, JobInv, NEW r \in Requests, Finish(r)
    PROVE  job' \in [Requests -> Jobs] /\ JobInv'
<1>1. CASE InsertUser(r)
  BY <1>1, InsertChecked
<1>2. CASE UpdateRow(r) \/ FoundOrganization(r) \/ Subscribe(r) \/ InsertBusiness(r) \/ IssueToken(r)
  <2>1. job' = [job EXCEPT ![r] = Idle]
    BY <1>2 DEF UpdateRow, FoundOrganization, Subscribe, InsertBusiness, IssueToken, Ends
  <2> QED
    BY <2>1, EndsChecked, IdleChecked
<1> QED
  BY <1>1, <1>2 DEF Finish

LEMMA AppliedType ==
    ASSUME NEW row \in Rows, NEW c \in Changes, c.org # Null
    PROVE  Apply(row, c) \in Rows
<1>1. Set(row.role, c.role) \in Roles
  BY DEF Set, Rows, Changes
<1>2. Set(row.org, c.org) \in Orgs \cup {Null}
  BY DEF Set, Rows, Changes
<1>3. Set(row.active, c.active) \in BOOLEAN
  BY DEF Set, Rows, Changes
<1> QED
  BY <1>1, <1>2, <1>3 DEF Apply, Rows

-----------------------------------------------------------------------------
\* What a request that is taken leaves alone.
LEMMA AskLeaves ==
    ASSUME TypeOK, NEW r \in Requests, Ask(r)
    PROVE  /\ UNCHANGED <<account, orgs, subscribed, owner, tokens, founder, public>>
           /\ contended' \in BOOLEAN /\ (contended => contended')
<1>1. CASE Bootstrap(r) \/ RegisterFirst(r)
  <2>1. UNCHANGED <<account, orgs, subscribed, owner, tokens, founder, public>>
    BY <1>1 DEF Bootstrap, RegisterFirst, AskPublic, tables
  <2>2. contended' = (contended \/ \E s \in Requests : job[s].kind = "enroll" /\ job[s].actor = Null)
    BY <1>1 DEF Bootstrap, RegisterFirst, AskPublic
  <2> QED
    BY <2>1, <2>2
<1>2. CASE Register(r) \/ CreateUser(r) \/ UpdateUser(r) \/ DeleteUser(r)
  BY <1>2 DEF Register, CreateUser, UpdateUser, DeleteUser, tables, history, TypeOK
<1>3. CASE CreateOrganization(r) \/ Onboard(r) \/ CreateBusiness(r) \/ Login(r)
  BY <1>3 DEF CreateOrganization, Onboard, CreateBusiness, Login, tables, history, TypeOK
<1> QED
  BY <1>1, <1>2, <1>3 DEF Ask

LEMMA FinishType ==
    ASSUME TypeOK, JobInv, NEW r \in Requests, Finish(r)
    PROVE  /\ account' \in [Users -> Rows \cup {Null}]
           /\ orgs' \subseteq Orgs /\ subscribed' \subseteq Orgs
           /\ owner' \in [Businesses -> Orgs \cup {Null}]
           /\ tokens' \subseteq Tokens
           /\ founder' \in [Orgs -> SUBSET Users]
           /\ public' \in Nat /\ contended' \in BOOLEAN /\ served' \in Nat
<1> DEFINE j == job[r]
<1>1. j \in Jobs /\ Checked(j)
  BY DEF TypeOK, JobInv
<1>2. NewRows \subseteq Rows
  BY DEF NewRows, Rows
<1> USE DEF TypeOK
<1>3. CASE InsertUser(r)
  <2>1. j.user \in Users /\ j.change \in Rows
    BY <1>1, <1>2, <1>3 DEF Checked, InsertUser
  <2> QED
    BY <1>3, <2>1 DEF InsertUser, Ends
<1>4. CASE UpdateRow(r)
  <2>1. j.user \in Users /\ j.change.org # Null /\ j.change \in Changes
    BY <1>1, <1>4 DEF Checked, UpdateRow, Jobs
  <2>2. CASE Matches(j.actor, j.user) /\ account' = [account EXCEPT ![j.user] = Apply(account[j.user], j.change)]
    <3>1. account[j.user] \in Rows
      BY <2>1, <2>2 DEF Matches, Exists
    <3>2. Apply(account[j.user], j.change) \in Rows
      BY <2>1, <3>1, AppliedType
    <3>3. account' \in [Users -> Rows \cup {Null}]
      BY <2>2, <3>2
    <3>4. contended' \in BOOLEAN
      BY <1>4 DEF UpdateRow, Ends
    <3> QED
      BY <1>4, <3>3, <3>4 DEF UpdateRow
  <2>3. CASE UNCHANGED <<account, contended>>
    BY <1>4, <2>3 DEF UpdateRow
  <2> QED
    BY <1>4, <2>2, <2>3 DEF UpdateRow, Ends
<1>5. CASE FoundOrganization(r)
  <2>1. j.user \in Users /\ j.change \in Rows /\ j.change.org \in Orgs
    BY <1>1, <1>2, <1>5 DEF Checked, FoundOrganization
  <2>2. founder' \in [Orgs -> SUBSET Users]
    BY <1>5, <2>1 DEF FoundOrganization, Ends
  <2> QED
    BY <1>5, <2>1, <2>2 DEF FoundOrganization, Ends
<1>6. CASE Subscribe(r)
  <2>1. j.change.org \in Orgs
    BY <1>1, <1>6 DEF Checked, Subscribe
  <2> QED
    BY <1>6, <2>1 DEF Subscribe, Ends, history
<1>7. CASE InsertBusiness(r)
  <2>1. j.change.org \in Orgs
    BY <1>1, <1>7 DEF Checked, InsertBusiness
  <2> QED
    BY <1>7, <2>1 DEF InsertBusiness, Ends, history
<1>8. CASE IssueToken(r)
  <2>1. j.user \in Users /\ j.change.role \in Roles /\ j.change.org \in Orgs \cup {Null}
    BY <1>1, <1>8 DEF Checked, IssueToken, NewRows
  <2>2. [user |-> j.user, role |-> j.change.role, org |-> j.change.org, left |-> Expiry] \in Tokens
    BY <2>1, NullIsNothing DEF Tokens
  <2> QED
    BY <1>8, <2>2 DEF IssueToken, tables, history
<1> QED
  BY <1>3, <1>4, <1>5, <1>6, <1>7, <1>8 DEF Finish

LEMMA TickType ==
    ASSUME TypeOK, Tick
    PROVE  tokens' \subseteq Tokens /\ quiet' \in [Users -> 0..(Expiry + 1)]
<1>0. Expiry \in Nat
  BY NullIsNothing
<1>1. ASSUME NEW t \in tokens, t.left > 0 PROVE [t EXCEPT !.left = @ - 1] \in Tokens
  <2>1. t \in Tokens
    BY <1>1 DEF TypeOK
  <2>2. t.left \in 0..Expiry /\ t.left - 1 \in 0..Expiry
    BY <1>0, <1>1, <2>1 DEF Tokens
  <2> QED
    BY <2>1, <2>2 DEF Tokens
<1>2. tokens' \subseteq Tokens
  BY <1>1 DEF Tick
<1>3. quiet' \in [Users -> 0..(Expiry + 1)]
  BY <1>0 DEF Tick, TypeOK
<1> QED
  BY <1>2, <1>3

LEMMA TypeStep == TypeOK /\ JobInv /\ [Next]_vars => TypeOK' /\ JobInv'
<1> SUFFICES ASSUME TypeOK, JobInv, [Next]_vars PROVE TypeOK' /\ JobInv'
  OBVIOUS
<1>1. ASSUME quiet' = [u \in Users |-> IF Fresh(u)' THEN 0 ELSE quiet[u]]
      PROVE  quiet' \in [Users -> 0..(Expiry + 1)]
  BY <1>1, NullIsNothing DEF TypeOK
<1>2. ASSUME Serve, NEW r \in Requests, Ask(r) PROVE TypeOK' /\ JobInv'
  BY <1>1, <1>2, AskChecked, AskLeaves DEF Serve, TypeOK
<1>3. ASSUME Serve, NEW r \in Requests, Finish(r) PROVE TypeOK' /\ JobInv'
  BY <1>1, <1>3, FinishChecked, FinishType DEF Serve, TypeOK
<1>4. CASE Tick
  BY <1>4, TickType DEF Tick, TypeOK, JobInv, tables, history
<1>5. CASE UNCHANGED vars
  BY <1>5 DEF vars, TypeOK, JobInv
<1> QED
  BY <1>2, <1>3, <1>4, <1>5 DEF Next, Serve

LEMMA TypeInitially == Init => TypeOK /\ JobInv
<1> SUFFICES ASSUME Init PROVE TypeOK /\ JobInv
  OBVIOUS
<1>1. account \in [Users -> Rows \cup {Null}] /\ orgs \subseteq Orgs
  <2>1. PICK d \in Deployments \cup {Empty} : orgs = d.orgs /\ account = d.account
    BY DEF Init
  <2>2. CASE d \in Deployments
    BY <2>1, <2>2, AccountsAssumption
  <2>3. CASE d = Empty
    BY <2>1, <2>3 DEF Empty
  <2> QED
    BY <2>2, <2>3
<1>2. tokens \subseteq Tokens
  BY <1>1, NullIsNothing DEF Init, Tokens, Rows
<1>3. job \in [Requests -> Jobs] /\ JobInv
  BY IdleChecked DEF Init, JobInv
<1>4. quiet \in [Users -> 0..(Expiry + 1)]
  BY NullIsNothing DEF Init
<1> QED
  BY <1>1, <1>2, <1>3, <1>4 DEF Init, TypeOK

\* Every variable keeps its type: no token outlives its expiry and no request gets
\* past its checks without them.
THEOREM TypeCorrect == Spec => []TypeOK
<1>1. Spec => [](TypeOK /\ JobInv)
  BY TypeInitially, TypeStep, PTL DEF Spec
<1> QED
  BY <1>1, PTL

-----------------------------------------------------------------------------
LEMMA TenantsStep ==
    ASSUME TypeOK, JobInv, Next, NEW r \in Requests, NEW u \in Users,
           job[r].actor # Null, job[r].actor.role = "admin",
           job'[r] # job[r], account'[u] # account[u]
    PROVE  /\ Exists(u) => account[u].org = job[r].actor.org
           /\ account'[u].org = job[r].actor.org
           /\ account'[u].role = "super_admin" => Exists(u) /\ account[u].role = "super_admin"
<1> DEFINE j == job[r]
<1>1. j \in Jobs /\ Checked(j) /\ ~Platform(j.actor)
  BY DEF TypeOK, JobInv, Platform
<1>2. PICK s \in Requests : Finish(s)
  BY AskLeaves DEF Next, Serve, Tick, tables
<1>3. s = r
  BY <1>2 DEF Finish, InsertUser, UpdateRow, FoundOrganization, Subscribe, InsertBusiness,
              IssueToken, Ends, TypeOK
<1>4. CASE InsertUser(r)
  <2>1. j.kind = "insert"
    BY <1>1, <1>4 DEF InsertUser, Checked
  <2>2. j.change.org = j.actor.org /\ j.change.role # "super_admin" /\ j.user \in Users
    BY <1>1, <2>1 DEF Checked
  <2>3. ~Exists(j.user) /\ account' = [account EXCEPT ![j.user] = j.change]
    BY <1>4 DEF InsertUser, Ends
  <2>4. u = j.user /\ account'[u] = j.change
    BY <2>2, <2>3 DEF TypeOK
  <2> QED
    BY <2>2, <2>3, <2>4
<1>5. CASE UpdateRow(r)
  <2>1. /\ Matches(j.actor, j.user)
        /\ account' = [account EXCEPT ![j.user] = Apply(account[j.user], j.change)]
    BY <1>5 DEF UpdateRow, Ends
  <2>2. /\ j.user \in Users /\ j.change.role # "super_admin"
        /\ j.change.org \in {Keep, j.actor.org}
    BY <1>1, <1>5 DEF UpdateRow, Checked
  <2>3. Exists(j.user) /\ account[j.user].org = j.actor.org
    BY <1>1, <2>1 DEF Matches
  <2>4. u = j.user /\ account'[u] = Apply(account[u], j.change)
    BY <2>1, <2>2 DEF TypeOK
  <2>5. account'[u].org = j.actor.org
    BY <2>2, <2>3, <2>4 DEF Apply, Set
  <2>6. account'[u].role \in {account[u].role, j.change.role}
    BY <2>4 DEF Apply, Set
  <2> QED
    BY <2>2, <2>3, <2>4, <2>5, <2>6
<1>6. CASE FoundOrganization(r)
  BY <1>1, <1>6 DEF FoundOrganization, Checked
<1>7. CASE Subscribe(r) \/ InsertBusiness(r) \/ IssueToken(r)
  BY <1>7 DEF Subscribe, InsertBusiness, IssueToken, tables
<1> QED
  BY <1>2, <1>3, <1>4, <1>5, <1>6, <1>7 DEF Finish

\* Administrators of an organization change the accounts of it, leave them there
\* and appoint no platform administrator, whatever happens between check and write.
THEOREM TenantsTheorem == Spec => TenantsApart
<1>1. Spec => [](TypeOK /\ JobInv)
  BY TypeInitially, TypeStep, PTL DEF Spec
<1>2. ASSUME TypeOK, JobInv, [Next]_vars
      PROVE  [\A r \in Requests, u \in Users :
                /\ job[r].actor # Null /\ job[r].actor.role = "admin"
                /\ job'[r] # job[r] /\ account'[u] # account[u]
                => /\ Exists(u) => account[u].org = job[r].actor.org
                   /\ account'[u].org = job[r].actor.org
                   /\ account'[u].role = "super_admin"
                        => Exists(u) /\ account[u].role = "super_admin"]_vars
  BY <1>2, TenantsStep
<1> QED
  BY <1>1, <1>2, PTL DEF Spec, TenantsApart

-----------------------------------------------------------------------------
\* What a thread is about to store has its organization.
PlacedInv == \A r \in Requests : job[r].kind = "business" => job[r].change.org \in orgs

OrgInv == OrganizationsWhole /\ PlacedInv

LEMMA AskPlaces ==
    ASSUME TypeOK, OrgInv, NEW r \in Requests, Ask(r)
    PROVE  OrgInv'
<1>1. UNCHANGED <<orgs, subscribed, owner, founder>>
  BY AskLeaves
<1>2. ASSUME NEW kind, NEW a, NEW u, NEW c, NEW b, Take(r, kind, a, u, c, b),
             kind = "business" => c.org \in orgs
      PROVE  PlacedInv'
  BY <1>1, <1>2 DEF Take, TypeOK, OrgInv, PlacedInv
<1>3. CASE CreateBusiness(r)
  <2>1. PICK a \in Actors, o \in orgs, b \in Businesses :
            Take(r, "business", a, Null, [Nothing EXCEPT !.org = o], b)
    BY <1>3 DEF CreateBusiness
  <2>2. [Nothing EXCEPT !.org = o].org = o
    BY DEF Nothing
  <2> QED
    BY <1>2, <2>1, <2>2, <1>1 DEF OrgInv, OrganizationsWhole
<1>4. CASE Bootstrap(r) \/ RegisterFirst(r) \/ Register(r) \/ Login(r)
  <2>1. PICK kind \in {"enroll", "issue"} : \E a, u, c : Take(r, kind, a, u, c, Null)
    BY <1>4 DEF Bootstrap, RegisterFirst, AskPublic, Register, Login
  <2> QED
    BY <1>1, <1>2, <2>1 DEF OrgInv, OrganizationsWhole
<1>5. CASE CreateUser(r) \/ UpdateUser(r) \/ DeleteUser(r) \/ CreateOrganization(r) \/ Onboard(r)
  <2>1. PICK kind \in {"insert", "update", "found", "onboard"} :
            \E a, u, c : Take(r, kind, a, u, c, Null)
    BY <1>5 DEF CreateUser, UpdateUser, DeleteUser, CreateOrganization, Onboard
  <2> QED
    BY <1>1, <1>2, <2>1 DEF OrgInv, OrganizationsWhole
<1> QED
  BY <1>3, <1>4, <1>5 DEF Ask

\* A thread that ends is about to store nothing; organizations stay.
LEMMA EndsPlaces ==
    ASSUME TypeOK, PlacedInv, NEW r \in Requests, orgs \subseteq orgs',
           job'[r].kind # "business", \A s \in Requests \ {r} : job'[s] = job[s]
    PROVE  PlacedInv'
BY DEF PlacedInv

LEMMA FinishLeaves ==
    ASSUME TypeOK, NEW r \in Requests, Finish(r)
    PROVE  job'[r].kind \in {"idle", "issue"} /\ \A s \in Requests \ {r} : job'[s] = job[s]
<1>1. CASE InsertUser(r)
  <2> DEFINE j == job[r]
             then == IF j.kind = "insert" THEN Idle ELSE [j EXCEPT !.kind = "issue", !.actor = Null]
  <2>1. then.kind \in {"idle", "issue"}
    BY DEF Idle, TypeOK, Jobs
  <2>2. job' = [job EXCEPT ![r] = then] \/ job' = [job EXCEPT ![r] = Idle]
    BY <1>1 DEF InsertUser, Ends
  <2> HIDE DEF then
  <2> QED
    BY <2>1, <2>2 DEF TypeOK, Idle
<1>2. CASE UpdateRow(r) \/ FoundOrganization(r) \/ Subscribe(r) \/ InsertBusiness(r) \/ IssueToken(r)
  <2>1. job' = [job EXCEPT ![r] = Idle]
    BY <1>2 DEF UpdateRow, FoundOrganization, Subscribe, InsertBusiness, IssueToken, Ends
  <2> QED
    BY <2>1 DEF TypeOK, Idle
<1> QED
  BY <1>1, <1>2 DEF Finish

LEMMA FinishPlaces ==
    ASSUME TypeOK, JobInv, OrgInv, NEW r \in Requests, Finish(r)
    PROVE  OrgInv'
<1> DEFINE j == job[r]
<1>1. orgs \subseteq orgs'
  BY DEF Finish, InsertUser, UpdateRow, FoundOrganization, Subscribe, InsertBusiness,
         IssueToken, Ends, tables
<1>2. PlacedInv'
  BY <1>1, FinishLeaves, EndsPlaces DEF OrgInv
<1>3. j \in Jobs /\ Checked(j)
  BY DEF TypeOK, JobInv
<1>4. CASE FoundOrganization(r) /\ orgs' # orgs
  <2>1. /\ j.change.org \in Orgs /\ j.change.org \notin orgs
        /\ orgs' = orgs \cup {j.change.org}
        /\ founder' = [founder EXCEPT ![j.change.org] = @ \cup {j.user}]
        /\ UNCHANGED <<subscribed, owner>>
    BY <1>3, <1>4 DEF FoundOrganization, Ends, Checked
  <2>2. founder[j.change.org] = {}
    BY <2>1 DEF OrgInv, OrganizationsWhole
  <2>3. founder'[j.change.org] = {j.user}
        /\ \A o \in Orgs \ {j.change.org} : founder'[o] = founder[o]
    BY <2>1, <2>2 DEF TypeOK
  <2>4. \A o \in Orgs : \A u, v \in founder'[o] : u = v
    BY <2>3 DEF OrgInv, OrganizationsWhole
  <2>5. \A o \in Orgs : founder'[o] # {} => o \in orgs'
    BY <2>1, <2>3 DEF OrgInv, OrganizationsWhole
  <2> QED
    BY <1>2, <2>1, <2>4, <2>5 DEF OrgInv, OrganizationsWhole
<1>5. CASE FoundOrganization(r) /\ orgs' = orgs
  <2>1. UNCHANGED <<founder, subscribed, owner>>
    BY <1>3, <1>5 DEF FoundOrganization, Ends
  <2> QED
    BY <1>2, <1>5, <2>1 DEF OrgInv, OrganizationsWhole
<1>6. CASE Subscribe(r)
  <2>1. \/ UNCHANGED <<orgs, subscribed>>
        \/ orgs' = orgs \cup {j.change.org} /\ subscribed' = subscribed \cup {j.change.org}
    BY <1>6 DEF Subscribe, Ends
  <2>2. UNCHANGED <<owner, founder>>
    BY <1>6 DEF Subscribe, history
  <2> QED
    BY <1>2, <2>1, <2>2 DEF OrgInv, OrganizationsWhole
<1>7. CASE InsertBusiness(r)
  <2>1. j.change.org \in orgs /\ j.business \in Businesses
    BY <1>3, <1>7 DEF InsertBusiness, OrgInv, PlacedInv, Checked
  <2>2. owner' = owner \/ owner' = [owner EXCEPT ![j.business] = j.change.org]
    BY <1>7 DEF InsertBusiness, Ends
  <2>3. UNCHANGED <<orgs, subscribed, founder>>
    BY <1>7 DEF InsertBusiness, history
  <2>4. \A b \in Businesses : owner'[b] # Null => owner'[b] \in orgs
    BY <2>1, <2>2 DEF TypeOK, OrgInv, OrganizationsWhole
  <2> QED
    BY <1>2, <2>3, <2>4 DEF OrgInv, OrganizationsWhole
<1>8. CASE InsertUser(r) \/ UpdateRow(r) \/ IssueToken(r)
  <2>1. UNCHANGED <<orgs, subscribed, owner, founder>>
    BY <1>8 DEF InsertUser, UpdateRow, IssueToken, tables, history
  <2> QED
    BY <1>2, <2>1 DEF OrgInv, OrganizationsWhole
<1> QED
  BY <1>4, <1>5, <1>6, <1>7, <1>8 DEF Finish

\* Organizations, their first administrators, subscriptions and businesses stay
\* together, although two routes make organizations.
THEOREM OrganizationsTheorem == Spec => []OrganizationsWhole
<1>1. Init => OrgInv
  BY DEF Init, OrgInv, OrganizationsWhole, PlacedInv, Idle
<1>2. TypeOK /\ JobInv /\ OrgInv /\ [Next]_vars => OrgInv'
  <2> SUFFICES ASSUME TypeOK, JobInv, OrgInv, [Next]_vars PROVE OrgInv'
    OBVIOUS
  <2>1. CASE Serve
    BY <2>1, AskPlaces, FinishPlaces DEF Serve
  <2>2. CASE Tick \/ UNCHANGED vars
    BY <2>2 DEF Tick, vars, tables, history, OrgInv, OrganizationsWhole, PlacedInv
  <2> QED
    BY <2>1, <2>2 DEF Next
<1>3. Spec => [](TypeOK /\ JobInv)
  BY TypeInitially, TypeStep, PTL DEF Spec
<1>4. OrgInv => OrganizationsWhole
  BY DEF OrgInv
<1> QED
  BY <1>1, <1>2, <1>3, <1>4, PTL DEF Spec

-----------------------------------------------------------------------------
\* A token and the quiet of its account never add up to more than a token's life.
QuietInv ==
    /\ \A t \in tokens : t.left + quiet[t.user] <= Expiry
    /\ \A u \in Users : Fresh(u) => quiet[u] = 0

LEMMA ServeQuiet ==
    ASSUME TypeOK, JobInv, QuietInv, Serve
    PROVE  QuietInv'
<1>1. quiet' = [u \in Users |-> IF Fresh(u)' THEN 0 ELSE quiet[u]]
  BY DEF Serve
<1>2. \A u \in Users : Fresh(u)' => quiet'[u] = 0
  BY <1>1
<1>3. \A u \in Users : quiet'[u] \in {0, quiet[u]}
  BY <1>1
<1>4. ASSUME NEW t \in tokens' PROVE t.left + quiet'[t.user] <= Expiry
  <2>1. CASE t \in tokens
    <3>1. t.user \in Users /\ t.left \in 0..Expiry /\ quiet[t.user] \in 0..(Expiry + 1)
      BY <2>1 DEF TypeOK, Tokens
    <3>2. t.left + quiet[t.user] <= Expiry
      BY <2>1 DEF QuietInv
    <3> QED
      BY <3>1, <3>2, <1>3, NullIsNothing
  <2>2. CASE t \notin tokens
    <3>1. PICK r \in Requests : IssueToken(r)
      BY <2>2, AskLeaves DEF Serve, Finish, InsertUser, UpdateRow, FoundOrganization, Subscribe,
                             InsertBusiness
    <3>2. t.user = job[r].user /\ t.left = Expiry
      BY <2>2, <3>1 DEF IssueToken
    <3>3. job[r].kind = "issue" /\ job[r].user \in Users /\ job[r].change \in NewRows
      BY <3>1 DEF IssueToken, JobInv, Checked
    <3>4. Fresh(job[r].user)
      BY <3>3 DEF Fresh, NewRows
    <3>5. quiet[t.user] = 0
      BY <3>2, <3>3, <3>4 DEF QuietInv
    <3> QED
      BY <1>3, <3>2, <3>3, <3>5, NullIsNothing
  <2> QED
    BY <2>1, <2>2
<1> QED
  BY <1>2, <1>4 DEF QuietInv

LEMMA TickQuiet ==
    ASSUME TypeOK, QuietInv, Tick
    PROVE  QuietInv'
<1>0. Expiry \in Nat
  BY NullIsNothing
<1>1. \A u \in Users : Fresh(u)' <=> Fresh(u)
  BY DEF Tick, tables, Fresh, Active, Exists
<1>2. \A u \in Users : /\ Fresh(u) => quiet'[u] = 0
                       /\ quiet[u] <= Expiry => quiet'[u] <= quiet[u] + 1
  BY <1>0 DEF Tick, TypeOK
<1>3. ASSUME NEW t \in tokens, t.left > 0
      PROVE  (t.left - 1) + quiet'[t.user] <= Expiry
  <2>1. t.user \in Users /\ t.left \in 0..Expiry /\ quiet[t.user] \in 0..(Expiry + 1)
    BY <1>3 DEF TypeOK, Tokens
  <2>2. t.left + quiet[t.user] <= Expiry
    BY <1>3 DEF QuietInv
  <2>3. quiet[t.user] <= Expiry
    BY <1>0, <2>1, <2>2
  <2>4. quiet'[t.user] <= quiet[t.user] + 1 /\ quiet'[t.user] \in 0..(Expiry + 1)
    BY <1>2, <2>1, <2>3, TickType
  <2> QED
    BY <1>0, <2>1, <2>2, <2>4
<1>4. ASSUME NEW s \in tokens' PROVE s.left + quiet'[s.user] <= Expiry
  <2>1. PICK t \in tokens : t.left > 0 /\ s = [t EXCEPT !.left = t.left - 1]
    BY <1>4 DEF Tick
  <2>2. t \in Tokens
    BY <2>1 DEF TypeOK
  <2>3. s.user = t.user /\ s.left = t.left - 1
    BY <2>1, <2>2 DEF Tokens
  <2> QED
    BY <1>3, <2>1, <2>3
<1> QED
  BY <1>1, <1>2, <1>4 DEF QuietInv

\* A disabled account keeps no valid token for longer than a token lives.
THEOREM DisabledTheorem == Spec => []DisabledRunsOut
<1>1. Init => QuietInv
  <2> SUFFICES ASSUME Init PROVE QuietInv
    OBVIOUS
  <2>1. \A u \in Users : quiet[u] = 0
    BY DEF Init
  <2>2. \A t \in tokens : t.left = Expiry /\ t.user \in Users
    BY DEF Init
  <2> QED
    BY <2>1, <2>2, NullIsNothing DEF QuietInv
<1>2. TypeOK /\ JobInv /\ QuietInv /\ [Next]_vars => QuietInv'
  <2> SUFFICES ASSUME TypeOK, JobInv, QuietInv, [Next]_vars PROVE QuietInv'
    OBVIOUS
  <2>1. CASE UNCHANGED vars
    BY <2>1 DEF vars, QuietInv, Fresh, Active, Exists
  <2> QED
    BY <2>1, ServeQuiet, TickQuiet DEF Next
<1>3. TypeOK /\ QuietInv => DisabledRunsOut
  <2> SUFFICES ASSUME TypeOK, QuietInv, NEW t \in tokens PROVE quiet[t.user] <= Expiry
    BY DEF DisabledRunsOut
  <2>1. t.user \in Users /\ t.left \in 0..Expiry /\ quiet[t.user] \in 0..(Expiry + 1)
    BY DEF TypeOK, Tokens
  <2> QED
    BY <2>1, NullIsNothing DEF QuietInv
<1>4. Spec => [](TypeOK /\ JobInv)
  BY TypeInitially, TypeStep, PTL DEF Spec
<1> QED
  BY <1>1, <1>2, <1>3, <1>4, PTL DEF Spec

-----------------------------------------------------------------------------
\* A request to make an administrator of the platform without asking one.
Unasked(r) == job[r].kind = "enroll" /\ job[r].actor = Null

\* Until such requests overlap or the role is lost: one under way means that none
\* has been made, one made means that the platform has an administrator.
FirstInv ==
    ~contended => /\ public <= 1
                  /\ public = 1 => PlatformAdmins # {}
                  /\ \A r \in Requests : Unasked(r) => public = 0
                  /\ \A r, s \in Requests : Unasked(r) /\ Unasked(s) => r = s

LEMMA AskFirst ==
    ASSUME TypeOK, FirstInv, NEW r \in Requests, Ask(r)
    PROVE  FirstInv'
<1>1. UNCHANGED <<account, public>> /\ (contended => contended')
  BY AskLeaves
<1>2. CASE Bootstrap(r) \/ RegisterFirst(r)
  <2>1. PlatformAdmins = {}
    BY <1>2 DEF Bootstrap, RegisterFirst, AskPublic, PlatformAdmins
  <2>2. contended' = (contended \/ \E s \in Requests : Unasked(s))
    BY <1>2 DEF Bootstrap, RegisterFirst, AskPublic, Unasked
  <2>3. \A s \in Requests \ {r} : job'[s] = job[s]
    BY <1>2 DEF Bootstrap, RegisterFirst, AskPublic, Take, TypeOK
  <2>4. ~contended' => public = 0
    BY <2>1, <2>2 DEF FirstInv, TypeOK
  <2>5. ~contended' => \A s \in Requests : Unasked(s)' => s = r
    BY <2>2, <2>3 DEF Unasked
  <2> QED
    BY <1>1, <2>4, <2>5 DEF FirstInv
<1>3. ASSUME ~Unasked(r)', \A s \in Requests \ {r} : job'[s] = job[s]
      PROVE  FirstInv'
  <2>1. \A s \in Requests : Unasked(s)' => Unasked(s)
    BY <1>3 DEF Unasked
  <2>2. PlatformAdmins' = PlatformAdmins
    BY <1>1 DEF PlatformAdmins, Exists
  <2> QED
    BY <1>1, <2>1, <2>2 DEF FirstInv
<1>4. ASSUME NEW kind, NEW a, NEW u, NEW c, NEW b, Take(r, kind, a, u, c, b),
             kind # "enroll" \/ a # Null
      PROVE  FirstInv'
  BY <1>3, <1>4 DEF Take, TypeOK, Unasked
<1>5. CASE Register(r)
  <2>1. PICK a \in Actors : \E u, c : Take(r, "enroll", a, u, c, Null)
    BY <1>5 DEF Register
  <2>2. a # Null
    BY ActorsType, NullIsNothing
  <2> QED
    BY <1>4, <2>1, <2>2
<1>6. CASE CreateUser(r) \/ UpdateUser(r) \/ DeleteUser(r) \/ CreateOrganization(r)
           \/ Onboard(r) \/ CreateBusiness(r) \/ Login(r)
  <2>1. PICK kind \in {"insert", "update", "found", "onboard", "business", "issue"} :
            \E a, u, c, b : Take(r, kind, a, u, c, b)
    BY <1>6 DEF CreateUser, UpdateUser, DeleteUser, CreateOrganization, Onboard, CreateBusiness, Login
  <2> QED
    BY <1>4, <2>1
<1> QED
  BY <1>2, <1>5, <1>6 DEF Ask

LEMMA FinishFirst ==
    ASSUME TypeOK, JobInv, FirstInv, NEW r \in Requests, Finish(r)
    PROVE  FirstInv'
<1> DEFINE j == job[r]
<1>1. j \in Jobs /\ Checked(j)
  BY DEF TypeOK, JobInv
<1>2. /\ ~Unasked(r)'
      /\ \A s \in Requests \ {r} : job'[s] = job[s]
  BY FinishLeaves DEF Unasked
<1>3. \A s \in Requests : Unasked(s)' => s # r /\ Unasked(s)
  BY <1>2 DEF Unasked
<1>4. ASSUME PlatformAdmins \subseteq PlatformAdmins', UNCHANGED public, contended => contended'
      PROVE  FirstInv'
  BY <1>3, <1>4 DEF FirstInv
<1>5. ASSUME j.user \in Users, ~Exists(j.user), account' = [account EXCEPT ![j.user] = j.change]
      PROVE  PlatformAdmins \subseteq PlatformAdmins'
  BY <1>5 DEF PlatformAdmins, Exists, TypeOK
<1>6. CASE InsertUser(r) /\ account' # account
  <2>1. /\ j.user \in Users /\ j.change \in NewRows
        /\ ~Exists(j.user) /\ account' = [account EXCEPT ![j.user] = j.change]
        /\ public' = IF j.actor = Null THEN public + 1 ELSE public
        /\ UNCHANGED contended
    BY <1>1, <1>6 DEF InsertUser, Ends, Checked
  <2>2. CASE j.actor = Null
    <3>1. Unasked(r) /\ j.change.role = "super_admin"
      BY <1>1, <1>6, <2>2 DEF InsertUser, Unasked, Checked
    <3>2. ~contended => public = 0 /\ \A s \in Requests : ~Unasked(s)'
      BY <1>3, <3>1 DEF FirstInv
    <3>3. j.change # Null
      BY <2>1, NullIsNothing DEF NewRows, Rows
    <3>4. j.user \in PlatformAdmins'
      BY <2>1, <3>1, <3>3 DEF PlatformAdmins, Exists, TypeOK
    <3> QED
      BY <2>1, <2>2, <3>2, <3>4 DEF FirstInv
  <2>3. CASE j.actor # Null
    BY <1>4, <1>5, <2>1, <2>3
  <2> QED
    BY <2>2, <2>3
<1>7. CASE InsertUser(r) /\ account' = account
  <2>1. UNCHANGED <<public, contended>> \/ (~Exists(j.user) /\ account' = [account EXCEPT ![j.user] = j.change])
    BY <1>7 DEF InsertUser, Ends
  <2>2. j.user \in Users /\ j.change # Null
    BY <1>1, <1>7, NullIsNothing DEF InsertUser, Checked, NewRows, Rows
  <2>3. UNCHANGED <<public, contended>>
    BY <1>7, <2>1, <2>2 DEF Exists, TypeOK
  <2>4. PlatformAdmins' = PlatformAdmins
    BY <1>7 DEF PlatformAdmins, Exists
  <2> QED
    BY <1>4, <2>3, <2>4
<1>8. CASE UpdateRow(r)
  <2>1. UNCHANGED public
    BY <1>8 DEF UpdateRow
  <2>2. CASE UNCHANGED <<account, contended>>
    BY <1>4, <2>1, <2>2 DEF PlatformAdmins, Exists
  <2>3. CASE /\ account' = [account EXCEPT ![j.user] = Apply(account[j.user], j.change)]
             /\ Matches(j.actor, j.user)
             /\ contended' = (contended \/ (/\ account[j.user].role = "super_admin"
                                            /\ j.change.role \notin {"super_admin", Keep}))
    <3>1. account[j.user] \in Rows /\ Apply(account[j.user], j.change) \in Rows
      BY <1>1, <1>8, <2>3, AppliedType DEF Matches, Exists, UpdateRow, Checked, Jobs, TypeOK
    <3>2. CASE contended'
      BY <3>2 DEF FirstInv
    <3>3. CASE ~contended'
      <4>1. account[j.user].role = "super_admin" => Apply(account[j.user], j.change).role = "super_admin"
        BY <2>3, <3>3 DEF Apply, Set
      <4>2. PlatformAdmins \subseteq PlatformAdmins'
        BY <2>3, <3>1, <4>1, NullIsNothing DEF PlatformAdmins, Exists, TypeOK
      <4> QED
        BY <1>4, <2>1, <2>3, <4>2
    <3> QED
      BY <3>2, <3>3
  <2> QED
    BY <1>8, <2>2, <2>3 DEF UpdateRow, Ends
<1>9. CASE FoundOrganization(r)
  <2>1. UNCHANGED <<public, contended>> /\ j.user \in Users
    BY <1>1, <1>9 DEF FoundOrganization, Checked
  <2>2. CASE UNCHANGED account
    BY <1>4, <2>1, <2>2 DEF PlatformAdmins, Exists
  <2>3. CASE ~Exists(j.user) /\ account' = [account EXCEPT ![j.user] = j.change]
    BY <1>4, <1>5, <2>1, <2>3
  <2> QED
    BY <1>9, <2>2, <2>3 DEF FoundOrganization, Ends
<1>10. CASE Subscribe(r) \/ InsertBusiness(r) \/ IssueToken(r)
  <2>1. UNCHANGED <<account, public, contended>>
    BY <1>10 DEF Subscribe, InsertBusiness, IssueToken, tables, history
  <2> QED
    BY <1>4, <2>1 DEF PlatformAdmins, Exists
<1> QED
  BY <1>6, <1>7, <1>8, <1>9, <1>10 DEF Finish

\* Bootstrap and the first registration together make one administrator of the
\* platform without asking one, unless they overlap or the role is lost.
THEOREM FirstTheorem == Spec => []OneFirstAdmin
<1>1. Init => FirstInv
  BY DEF Init, FirstInv, Unasked, Idle
<1>2. TypeOK /\ JobInv /\ FirstInv /\ [Next]_vars => FirstInv'
  <2> SUFFICES ASSUME TypeOK, JobInv, FirstInv, [Next]_vars PROVE FirstInv'
    OBVIOUS
  <2>1. CASE Serve
    BY <2>1, AskFirst, FinishFirst DEF Serve
  <2>2. CASE Tick \/ UNCHANGED vars
    BY <2>2 DEF Tick, vars, tables, history, FirstInv, Unasked, PlatformAdmins, Exists
  <2> QED
    BY <2>1, <2>2 DEF Next
<1>3. FirstInv => OneFirstAdmin
  BY DEF FirstInv, OneFirstAdmin
<1>4. Spec => [](TypeOK /\ JobInv)
  BY TypeInitially, TypeStep, PTL DEF Spec
<1> QED
  BY <1>1, <1>2, <1>3, <1>4, PTL DEF Spec
=============================================================================
