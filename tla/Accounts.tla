------------------------------- MODULE Accounts -------------------------------
(***************************************************************************)
(* Accounts, the tokens that speak for them, and the organizations,        *)
(* subscriptions and businesses around them.                               *)
(*                                                                         *)
(* Every handler checks first and writes later: it decodes a token, reads  *)
(* what it needs, and commits one transaction afterwards.  What a token    *)
(* says is what the row said when the token was issued.  The only thing    *)
(* that is checked again at the write is what the statement itself says:   *)
(* unique keys and the WHERE clause.                                       *)
(*                                                                         *)
(* An account is known by its email, which never changes and is unique.    *)
(* Passwords, names, plans and the business of an account are left out.    *)
(***************************************************************************)
EXTENDS Integers, FiniteSets

CONSTANTS
    Users,              \* emails
    Orgs,               \* organization ids
    Businesses,
    Requests,           \* threads, each serves one request after the other
    BootstrapEnabled,   \* ALLOW_BOOTSTRAP_ADMIN
    Expiry,             \* JWT_EXPIRY_SECONDS, in ticks
    Patches,            \* what PATCH /users/{id} may be asked to change
    Null,               \* no organization, no row, nobody
    Keep,               \* a field a PATCH leaves out
    Deployments,        \* databases to begin with, beside the empty one
    MaxRequests         \* bound: requests that pass their checks

Roles == {"super_admin", "admin", "sme_user"}
Rows == [role : Roles, org : Orgs \cup {Null}, active : BOOLEAN]
Claims == [user : Users \cup {Null}, role : Roles, org : Orgs \cup {Null}]
Tokens == [user : Users, role : Roles, org : Orgs \cup {Null}, left : 0..Expiry]
Changes == [role : Roles \cup {Keep}, org : Orgs \cup {Null, Keep}, active : BOOLEAN \cup {Keep}]

ASSUME AccountsAssumption ==
    /\ BootstrapEnabled \in BOOLEAN
    /\ Expiry \in Nat /\ MaxRequests \in Nat
    /\ Null \notin Users \cup Orgs \cup Rows \cup Claims
    /\ Keep \notin Orgs \cup {Null} /\ Keep \notin Roles /\ Keep \notin BOOLEAN
    /\ Patches \subseteq {c \in Changes : c.org # Null}
    /\ Deployments \subseteq [orgs : SUBSET Orgs, account : [Users -> Rows \cup {Null}]]

VARIABLES
    account,    \* the users table: Null or the row
    orgs,       \* the organizations table
    subscribed, \* the subscriptions table
    owner,      \* the businesses table: Null or the organization of the row
    tokens,     \* the tokens that have not expired
    job,        \* what the thread of a request is about to commit or to answer
    founder,    \* the first administrators /admin/organizations has made
    public,     \* platform administrators that were made without one
    contended,  \* such requests have overlapped, or one has lost the role
    quiet,      \* ticks since an account was active or was being logged in
    served      \* requests that have been taken

tables == <<account, orgs, subscribed, owner>>
history == <<founder, public, contended>>
vars == <<account, orgs, subscribed, owner, tokens, job, founder, public, contended, quiet, served>>

Kinds == {"idle", "insert", "enroll", "issue", "update", "found", "onboard", "business"}
Jobs == [kind : Kinds, actor : Claims \cup {Null}, user : Users \cup {Null},
         change : Changes, business : Businesses \cup {Null}]

TypeOK ==
    /\ account \in [Users -> Rows \cup {Null}]
    /\ orgs \subseteq Orgs /\ subscribed \subseteq Orgs
    /\ owner \in [Businesses -> Orgs \cup {Null}]
    /\ tokens \subseteq Tokens
    /\ job \in [Requests -> Jobs]
    /\ founder \in [Orgs -> SUBSET Users]
    /\ public \in Nat /\ contended \in BOOLEAN
    /\ quiet \in [Users -> 0..(Expiry + 1)]
    /\ served \in Nat

Nothing == [role |-> Keep, org |-> Keep, active |-> Keep]
Idle == [kind |-> "idle", actor |-> Null, user |-> Null, change |-> Nothing, business |-> Null]

\* Nobody, or people who have just logged in.
Empty == [orgs |-> {}, account |-> [u \in Users |-> Null]]

Init ==
    /\ \E d \in Deployments \cup {Empty} : orgs = d.orgs /\ account = d.account
    /\ subscribed = {} /\ owner = [b \in Businesses |-> Null]
    /\ tokens = {[user |-> u, role |-> account[u].role, org |-> account[u].org, left |-> Expiry] :
                    u \in {v \in Users : account[v] # Null}}
    /\ job = [r \in Requests |-> Idle]
    /\ founder = [o \in Orgs |-> {}] /\ public = 0 /\ contended = FALSE
    /\ quiet = [u \in Users |-> 0] /\ served = 0

-----------------------------------------------------------------------------
Exists(u) == account[u] # Null
Active(u) == Exists(u) /\ account[u].active
\* Plausible slip: administrators that have been disabled do not count.
ActivePlatformAdmins == {u \in Users : Active(u) /\ account[u].role = "super_admin"}
PlatformAdmins == {u \in Users : Exists(u) /\ account[u].role = "super_admin"}

\* get_current_user: what a valid token says, or ADMIN_TOKEN.
ServiceAdmin == [user |-> Null, role |-> "super_admin", org |-> Null]
Actors == {[user |-> t.user, role |-> t.role, org |-> t.org] : t \in tokens} \cup {ServiceAdmin}
Platform(a) == a.role = "super_admin"
\* An administrator whose token names an organization; without one every route
\* answers an error and every WHERE clause compares with NULL.
OrgAdmin(a) == a.role = "admin" /\ a.org # Null

Placed(role, org) == [role |-> role, org |-> org, active |-> TRUE]

\* A thread takes a request that passes its checks.
Take(r, kind, a, u, c, b) ==
    /\ job[r] = Idle
    /\ served < MaxRequests /\ served' = served + 1
    /\ job' = [job EXCEPT ![r] = [kind |-> kind, actor |-> a, user |-> u, change |-> c,
                                  business |-> b]]

\* POST /auth/bootstrap counts the users, POST /auth/register without a platform
\* administrator's token the platform administrators.
AskPublic(r, none) ==
    /\ BootstrapEnabled /\ none
    /\ \E u \in Users : Take(r, "enroll", Null, u, Placed("super_admin", Null), Null)
    /\ contended' = (contended \/ \E s \in Requests : job[s].kind = "enroll" /\ job[s].actor = Null)
    /\ UNCHANGED <<tables, tokens, founder, public>>

Bootstrap(r) == AskPublic(r, \A u \in Users : ~Exists(u))
RegisterFirstOfActive(r) == AskPublic(r, ActivePlatformAdmins = {})
RegisterFirst(r) == AskPublic(r, PlatformAdmins = {})

\* POST /auth/register with a platform administrator's token.  An organization
\* is required of administrators only, and not looked up.
Register(r) ==
    /\ \E a \in {x \in Actors : Platform(x)}, u \in Users, role \in Roles :
       \E org \in IF role = "super_admin" THEN {Null}
                  ELSE IF role = "admin" THEN Orgs ELSE Orgs \cup {Null} :
           Take(r, "enroll", a, u, Placed(role, org), Null)
    /\ UNCHANGED <<tables, tokens, history>>

\* POST /users: _validate_role_placement.
CreateUser(r) ==
    /\ \E a \in Actors, u \in Users, role \in {"admin", "sme_user"}, org \in Orgs :
           /\ Platform(a) \/ (OrgAdmin(a) /\ role = "sme_user" /\ org = a.org)
           /\ Take(r, "insert", a, u, Placed(role, org), Null)
    /\ UNCHANGED <<tables, tokens, history>>

\* PATCH /users/{id}.
UpdateUser(r) ==
    /\ \E a \in Actors, u \in Users, c \in Patches :
           /\ Platform(a) \/ (OrgAdmin(a) /\ c.role # "super_admin" /\ c.org \in {Keep, a.org})
           /\ c # Nothing
           /\ Take(r, "update", a, u, c, Null)
    /\ UNCHANGED <<tables, tokens, history>>

\* DELETE /users/{id} disables, but not oneself.
DeleteUser(r) ==
    /\ \E a \in Actors, u \in Users :
           /\ Platform(a) \/ OrgAdmin(a)
           /\ u # a.user
           /\ Take(r, "update", a, u, [Nothing EXCEPT !.active = FALSE], Null)
    /\ UNCHANGED <<tables, tokens, history>>

\* POST /admin/organizations takes an id nobody has (_unique_org_id).
CreateOrganization(r) ==
    /\ \E a \in {x \in Actors : Platform(x)}, u \in Users, o \in Orgs \ orgs :
           Take(r, "found", a, u, Placed("admin", o), Null)
    /\ UNCHANGED <<tables, tokens, history>>

\* POST /onboard, unless there is a subscription.
Onboard(r) ==
    /\ \E a \in Actors, o \in Orgs \ subscribed :
           /\ Platform(a) \/ (OrgAdmin(a) /\ o = a.org)
           /\ Take(r, "onboard", a, Null, [Nothing EXCEPT !.org = o], Null)
    /\ UNCHANGED <<tables, tokens, history>>

\* POST /businesses, for an organization that exists.
CreateBusiness(r) ==
    /\ \E a \in Actors, o \in orgs, b \in {x \in Businesses : owner[x] = Null} :
           /\ Platform(a) \/ (OrgAdmin(a) /\ o = a.org)
           /\ Take(r, "business", a, Null, [Nothing EXCEPT !.org = o], b)
    /\ UNCHANGED <<tables, tokens, history>>

\* POST /auth/login reads the row of an active account.
\* Plausible slip: is_active is not looked at.
LoginAnybody(r) ==
    /\ \E u \in Users : /\ Exists(u)
                        /\ Take(r, "issue", Null, u, account[u], Null)
    /\ UNCHANGED <<tables, tokens, history>>
Login(r) ==
    /\ \E u \in Users : /\ Active(u)
                        /\ Take(r, "issue", Null, u, account[u], Null)
    /\ UNCHANGED <<tables, tokens, history>>

-----------------------------------------------------------------------------
\* How a transaction ends: it is committed and the thread goes on, or its answer
\* is lost; it is refused, by a key or because no row matches, or fails.
Ends(r, done, same, then) ==
    \/ done /\ \E next \in {then, Idle} : job' = [job EXCEPT ![r] = next]
    \/ same /\ job' = [job EXCEPT ![r] = Idle]

\* INSERT INTO users of bootstrap, register and create_user.  Looking for the email
\* before only changes the error, so it is left out.
InsertUser(r) ==
    LET j == job[r]
        done == /\ ~Exists(j.user)
                /\ account' = [account EXCEPT ![j.user] = j.change]
                /\ public' = IF j.actor = Null THEN public + 1 ELSE public
        same == UNCHANGED <<account, public>>
        then == IF j.kind = "insert" THEN Idle ELSE [j EXCEPT !.kind = "issue", !.actor = Null]
    IN  /\ j.kind \in {"insert", "enroll"}
        /\ Ends(r, done, same, then)
        /\ UNCHANGED <<orgs, subscribed, owner, tokens, founder, contended, served>>

Set(old, new) == IF new = Keep THEN old ELSE new
Apply(row, c) == [role |-> Set(row.role, c.role), org |-> Set(row.org, c.org),
                  active |-> Set(row.active, c.active)]

\* Whose rows the WHERE clause of an UPDATE matches.
\* Plausible slip: id alone, the organization having been looked at before.
AnyRow(a, u) == Exists(u)
Matches(a, u) == Exists(u) /\ (Platform(a) \/ account[u].org = a.org)

\* UPDATE users of update_user and delete_user.
UpdateRow(r) ==
    LET j == job[r]
        done == /\ Matches(j.actor, j.user)
                /\ account' = [account EXCEPT ![j.user] = Apply(account[j.user], j.change)]
                /\ contended' = (contended \/ (/\ account[j.user].role = "super_admin"
                                               /\ j.change.role \notin {"super_admin", Keep}))
        same == UNCHANGED <<account, contended>>
    IN  /\ j.kind = "update"
        /\ Ends(r, done, same, Idle)
        /\ UNCHANGED <<orgs, subscribed, owner, tokens, founder, public, served>>

\* The organization and its first administrator, in one transaction.
\* Plausible slip: INSERT INTO organizations ... ON CONFLICT DO NOTHING.
FoundAnyway(r) ==
    LET j == job[r] IN
    /\ j.kind = "found" /\ ~Exists(j.user)
    /\ account' = [account EXCEPT ![j.user] = j.change]
    /\ orgs' = orgs \cup {j.change.org}
    /\ founder' = [founder EXCEPT ![j.change.org] = @ \cup {j.user}]
    /\ job' = [job EXCEPT ![r] = Idle]
    /\ UNCHANGED <<subscribed, owner, tokens, public, contended, served>>
FoundOrganization(r) ==
    LET j == job[r]
        free == j.change.org \notin orgs /\ ~Exists(j.user)
        done == /\ free
                /\ orgs' = orgs \cup {j.change.org}
                /\ account' = [account EXCEPT ![j.user] = j.change]
                /\ founder' = [founder EXCEPT ![j.change.org] = @ \cup {j.user}]
        same == UNCHANGED <<account, orgs, founder>>
    IN  /\ j.kind = "found"
        /\ Ends(r, done, same, Idle)
        /\ UNCHANGED <<subscribed, owner, tokens, public, contended, served>>

\* The organization if it is missing, and its subscription.
Subscribe(r) ==
    LET o == job[r].change.org
        done == /\ o \notin subscribed
                /\ orgs' = orgs \cup {o} /\ subscribed' = subscribed \cup {o}
        same == UNCHANGED <<orgs, subscribed>>
    IN  /\ job[r].kind = "onboard"
        /\ Ends(r, done, same, Idle)
        /\ UNCHANGED <<account, owner, tokens, history, served>>

InsertBusiness(r) ==
    LET j == job[r]
        done == owner[j.business] = Null /\ owner' = [owner EXCEPT ![j.business] = j.change.org]
        same == UNCHANGED owner
    IN  /\ j.kind = "business"
        /\ Ends(r, done, same, Idle)
        /\ UNCHANGED <<account, orgs, subscribed, tokens, history, served>>

\* issue_token, with what the row said when it was read or written.
IssueToken(r) ==
    LET j == job[r] IN
    /\ j.kind = "issue"
    /\ tokens' = tokens \cup {[user |-> j.user, role |-> j.change.role, org |-> j.change.org,
                               left |-> Expiry]}
    /\ job' = [job EXCEPT ![r] = Idle]
    /\ UNCHANGED <<tables, history, served>>

\* The account is active, or was when the row of a login under way was read.
Fresh(u) == \/ Active(u)
            \/ \E r \in Requests : job[r].kind = "issue" /\ job[r].user = u /\ job[r].change.active = TRUE

Ask(r) == \/ Bootstrap(r) \/ RegisterFirst(r) \/ Register(r) \/ Login(r)
          \/ CreateUser(r) \/ UpdateUser(r) \/ DeleteUser(r)
          \/ CreateOrganization(r) \/ Onboard(r) \/ CreateBusiness(r)

Finish(r) == \/ InsertUser(r) \/ UpdateRow(r) \/ FoundOrganization(r)
             \/ Subscribe(r) \/ InsertBusiness(r) \/ IssueToken(r)

Serve ==
    /\ \E r \in Requests : Ask(r) \/ Finish(r)
    /\ quiet' = [u \in Users |-> IF Fresh(u)' THEN 0 ELSE quiet[u]]

\* Time passes; decode_jwt refuses what has expired.
Tick ==
    /\ tokens' = {[t EXCEPT !.left = @ - 1] : t \in {x \in tokens : x.left > 0}}
    /\ quiet' = [u \in Users |-> IF Fresh(u) THEN 0
                                 ELSE IF quiet[u] > Expiry THEN quiet[u] ELSE quiet[u] + 1]
    /\ UNCHANGED <<tables, job, history, served>>

Next == Serve \/ Tick

Spec == Init /\ [][Next]_vars

-----------------------------------------------------------------------------
(***************************************************************************)
(* Properties.                                                             *)
(***************************************************************************)

\* Whatever their tokens still say and whatever the platform does meanwhile, the
\* administrators of an organization change accounts that are in it at that
\* moment, leave them there, and make nobody an administrator of the platform
\* (create_user, update_user, delete_user).
TenantsApart ==
    [][\A r \in Requests, u \in Users :
           /\ job[r].actor # Null /\ job[r].actor.role = "admin"
           /\ job'[r] # job[r] /\ account'[u] # account[u]
           => /\ Exists(u) => account[u].org = job[r].actor.org
              /\ account'[u].org = job[r].actor.org
              /\ account'[u].role = "super_admin" => Exists(u) /\ account[u].role = "super_admin"]_vars

\* An account that has been disabled for longer than a token lives, and was not
\* being logged in when that happened, has no valid token (JWT_EXPIRY_SECONDS;
\* nothing looks at is_active after the login).
DisabledRunsOut == \A t \in tokens : quiet[t.user] <= Expiry

\* "Create the first admin user. Only works when no users exist": bootstrap and
\* register count different things, yet together they make one administrator
\* without asking one, unless two such requests overlap or an administrator of
\* the platform has lost that role.
OneFirstAdmin == ~contended => public <= 1

\* What belongs together is stored together, although organizations are made by
\* two routes that do not know of each other: an organization of
\* /admin/organizations has one first administrator, subscriptions and businesses
\* have their organization.
OrganizationsWhole ==
    /\ \A o \in Orgs : \A u, v \in founder[o] : u = v
    /\ \A o \in Orgs : founder[o] # {} => o \in orgs
    /\ subscribed \subseteq orgs
    /\ \A b \in Businesses : owner[b] # Null => owner[b] \in orgs
=============================================================================
