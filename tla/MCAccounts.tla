------------------------------ MODULE MCAccounts ------------------------------
(* Accounts for TLC: a PATCH changes one field. *)
EXTENDS Accounts, TLC

MCPatches ==
    LET only(f, v) == [Nothing EXCEPT ![f] = v]
    IN  {only("role", role) : role \in Roles} \cup {only("org", o) : o \in Orgs}
            \cup {only("active", TRUE)}

\* An administrator of an organization with a user, and one beside a platform
\* administrator.
MCDeployments ==
    UNION {LET placed(row) == [orgs |-> {o}, account |-> [u \in Users |-> IF u = a THEN Placed("admin", o) ELSE row]]
           IN  {placed(Placed("sme_user", o)), placed(Placed("super_admin", Null))} : o \in Orgs, a \in Users}

MCSymmetry == Permutations(Users) \cup Permutations(Orgs) \cup Permutations(Requests)
=============================================================================
