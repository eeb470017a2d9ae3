---------------------------- MODULE FrontendSession ----------------------------
(***************************************************************************)
(* The session of a browser tab: AuthProvider with the token and the user  *)
(* it keeps in memory and in localStorage, OrgProvider with the            *)
(* organization a platform administrator has chosen to look at, and the    *)
(* context the API layer takes its headers from.                           *)
(*                                                                         *)
(* The effects of OrgProvider are a step of their own: React runs them     *)
(* after it has rendered what a handler changed, those of the pages before *)
(* them, and until then a request takes the headers there are.  A token is *)
(* named by the user it was issued to.  Businesses are left out.           *)
(***************************************************************************)
CONSTANTS
    Users,
    SuperAdmins,    \* the users with role super_admin
    Orgs,
    None            \* null, or no item in localStorage

ASSUME SessionAssumption == SuperAdmins \subseteq Users /\ None \notin Users \cup Orgs

VARIABLES
    token, user,    \* of AuthProvider
    ready,          \* isReady
    asked,          \* the stored token /auth/me is being asked about
    submitted,      \* a login was sent while /auth/me was being asked
    stored,         \* localStorage: datasoko_token, datasoko_user, datasoko_context
    selected,       \* selectedOrgId
    pending,        \* what changed since the effects of OrgProvider ran
    api,            \* _superAdminContext.orgId
    chosen,         \* history: what the administrator has chosen since the login
    overlapped      \* history: somebody logged in over another session, be it there,
                    \* being restored or not yet put away by the effects, and memory,
                    \* localStorage or headers may hold of both since

memory == <<token, user, ready, asked>>
session == <<memory, submitted, stored, selected, pending, api, chosen, overlapped>>

Storage == [token : Users \cup {None}, user : Users \cup {None}, context : Orgs \cup {None}]

SessionTypeOK ==
    /\ token \in Users \cup {None} /\ user \in Users \cup {None}
    /\ ready \in BOOLEAN /\ asked \in Users \cup {None}
    /\ submitted \in BOOLEAN /\ stored \in Storage
    /\ pending \in {"user", "selected", "none"}
    /\ selected \in Orgs \cup {None} /\ api \in Orgs \cup {None} /\ chosen \in Orgs \cup {None}
    /\ overlapped \in BOOLEAN

-----------------------------------------------------------------------------
\* The second effect, with the user u and the organization o of the render: it sets
\* the API context, and without a user clears the stored one.
Synced(u, o, context) ==
    /\ api' = IF u \in SuperAdmins THEN o ELSE None
    /\ stored' = [stored EXCEPT !.context = IF u = None THEN None ELSE context]

\* A plausible slip: the second effect does not depend on the user.
EffectsOfSelection ==
    /\ pending # "none"
    /\ \/ /\ pending = "user"
          /\ selected' = IF user = None THEN selected
                         ELSE IF user \in SuperAdmins THEN stored.context ELSE None
          /\ UNCHANGED <<api, stored>>
       \/ /\ pending = "selected"
          /\ Synced(user, selected, stored.context)
          /\ UNCHANGED selected
    /\ pending' = IF selected' # selected THEN "selected" ELSE "none"
    /\ UNCHANGED <<memory, submitted, chosen, overlapped>>

\* A new user's first effect restores the selection of an administrator, or forgets
\* that of anybody else; without a user it stays.  What it sets is rendered, and
\* the second effect runs again.
Effects ==
    /\ pending # "none"
    /\ \/ /\ pending = "user"
          /\ selected' = IF user = None THEN selected
                         ELSE IF user \in SuperAdmins THEN stored.context ELSE None
          /\ Synced(user, selected, IF user \in SuperAdmins THEN stored.context ELSE None)
       \/ /\ pending = "selected"
          /\ Synced(user, selected, stored.context)
          /\ UNCHANGED selected
    /\ pending' = IF selected' # selected THEN "selected" ELSE "none"
    /\ UNCHANGED <<memory, submitted, chosen, overlapped>>

NoSession == [token |-> None, user |-> None, context |-> None]

\* The tab is opened or reloaded: memory is gone, the effects of OrgProvider run
\* without a user, then AuthProvider looks for a stored session.
Load(s) ==
    /\ token' = None /\ user' = None
    /\ selected' = None /\ api' = None /\ pending' = "none" /\ submitted' = FALSE
    /\ IF s.token # None /\ s.user # None
       THEN /\ asked' = s.token /\ ready' = FALSE
            /\ stored' = [s EXCEPT !.context = None]
       ELSE /\ asked' = None /\ ready' = TRUE
            /\ stored' = NoSession
    /\ overlapped' = (overlapped /\ s.token # s.user)

SessionInit ==
    /\ token = None /\ user = None /\ ready = TRUE /\ asked = None
    /\ stored = NoSession /\ submitted = FALSE /\ pending = "none"
    /\ selected = None /\ api = None /\ chosen = None /\ overlapped = FALSE

Reload == Load(stored) /\ UNCHANGED chosen

\* The answer of /auth/me.
Restored ==
    /\ asked # None
    /\ token' = asked /\ user' = asked
    /\ stored' = [stored EXCEPT !.user = asked]
    /\ ready' = TRUE /\ asked' = None
    /\ pending' = "user"
    /\ chosen' = IF asked \in SuperAdmins THEN chosen ELSE None
    /\ UNCHANGED <<submitted, selected, api, overlapped>>

\* Memory without a session, and nothing new for the effects if there was none.
Cleared ==
    /\ token' = None /\ user' = None
    /\ pending' = IF user = None THEN pending ELSE "user"
    /\ chosen' = None
    /\ UNCHANGED <<submitted, selected, api>>

\* Plausible slip: only the memory is cleared.
NotRestoredInMemory ==
    /\ asked # None
    /\ Cleared
    /\ stored' = [stored EXCEPT !.token = None]
    /\ ready' = TRUE /\ asked' = None
    /\ overlapped' = FALSE

\* A refusal, or no answer.
NotRestored ==
    /\ asked # None
    /\ Cleared
    /\ stored' = [stored EXCEPT !.token = None, !.user = None]
    /\ ready' = TRUE /\ asked' = None
    /\ overlapped' = FALSE

\* /login and /setup show their form as long as there is no user, also while
\* /auth/me is being asked: only then can something come before the answer, and
\* elsewhere Submit and Login are one step.  One login is under way at a time.
Submit ==
    /\ asked # None /\ ~submitted
    /\ submitted' = TRUE
    /\ UNCHANGED <<memory, stored, selected, pending, api, chosen, overlapped>>

\* The answer calls login() for the user it names, whoever is there by now.
Login(u) ==
    /\ submitted \/ user = None
    /\ submitted' = FALSE
    /\ token' = u /\ user' = u
    /\ stored' = [stored EXCEPT !.token = u, !.user = u]
    /\ pending' = "user"
    /\ chosen' = None
    /\ overlapped' = (overlapped \/ asked # None \/ user # None \/ pending # "none")
    /\ UNCHANGED <<ready, asked, selected, api>>

LoginFails ==
    /\ submitted /\ submitted' = FALSE
    /\ UNCHANGED <<memory, stored, selected, pending, api, chosen, overlapped>>

Logout ==
    /\ user # None
    /\ Cleared
    /\ stored' = [stored EXCEPT !.token = None, !.user = None]
    /\ overlapped' = (overlapped /\ asked # None)
    /\ UNCHANGED <<ready, asked>>

\* A platform administrator chooses, with the effects of what is on the screen run.
Reselected(o) ==
    /\ ready /\ user \in SuperAdmins /\ pending = "none"
    /\ selected' = o /\ chosen' = o
    /\ pending' = IF o = selected THEN "none" ELSE "selected"
    /\ UNCHANGED <<memory, submitted, api, overlapped>>

\* setSelectedOrg, in the mode switcher and the list of organizations.
SelectOrg(o) ==
    /\ Reselected(o)
    /\ stored' = [stored EXCEPT !.context = o]

\* "View as user": setSelectedOrg, and then setSelectedBusiness, which stores the
\* organization that was selected before.
ViewAs(o) ==
    /\ Reselected(o)
    /\ stored' = [stored EXCEPT !.context = selected]

-----------------------------------------------------------------------------
\* getRouteRedirect for a page of tenants such as /jobs: shown or left.
TenantPageShown == ready /\ user # None /\ (user \in SuperAdmins => selected # None)

(***************************************************************************)
(* Properties.                                                             *)
(***************************************************************************)

\* The user shown is the one requests are authorized as; once the effects have run
\* the organization in the headers is the one a platform administrator has on the
\* screen; and a reload brings the same session back, whatever the order of
\* answers, effects, logins and logouts.  Where the session comes back to something
\* else, somebody has logged in over another one.
SessionWhole ==
    /\ token = user
    /\ pending = "none" => api = IF user \in SuperAdmins THEN selected ELSE None
    /\ ~overlapped => /\ stored.token = stored.user
                      /\ IF ready THEN stored.token = token ELSE stored.token = asked

\* "Inject super_admin tenant-scoping headers when a context is active" (api.ts): a
\* user of an organization never sends the organization an administrator of the
\* same tab has looked at, before the effects have run either.
TenantsSendNone == user \in Users \ SuperAdmins /\ ~overlapped => api = None

\* "Do NOT clear it - the selection is intentional and survives page reloads": once
\* the effects have run.
ContextSurvives ==
    ready /\ user \in SuperAdmins /\ ~overlapped /\ pending = "none" => selected = chosen
=============================================================================
