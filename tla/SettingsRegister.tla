--------------------------- MODULE SettingsRegister ---------------------------
(***************************************************************************)
(* What PUT /admin/settings promises of the non-secret settings: one       *)
(* register.  A request asks for an update; the update is applied at one   *)
(* instant, at most once, to the value of that instant, or never.          *)
(***************************************************************************)
CONSTANTS Requests, Updates, Default, Merge(_, _)

VARIABLES
    value,
    asked,  \* the update of each request
    open    \* the requests whose update is still to be applied

vars == <<value, asked, open>>

Init == value = Default /\ asked \in [Requests -> Updates] /\ open = {}

\* A request arrives.
Ask(r) ==
    /\ r \notin open
    /\ \E u \in Updates : asked' = [asked EXCEPT ![r] = u]
    /\ open' = open \cup {r}
    /\ UNCHANGED value

\* deep_merge(current, update), as if nobody else were there.
Apply(r) ==
    /\ r \in open
    /\ value' = Merge(value, asked[r])
    /\ open' = open \ {r}
    /\ UNCHANGED asked

\* Requests die with their process.
Abandon == open' \in SUBSET open /\ UNCHANGED <<value, asked>>

Next == (\E r \in Requests : Ask(r) \/ Apply(r)) \/ Abandon

Spec == Init /\ [][Next]_vars
=============================================================================
