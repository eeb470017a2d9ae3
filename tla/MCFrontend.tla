------------------------------ MODULE MCFrontend ------------------------------
(* A tab that a platform administrator and a user of an organization use in turn. *)
EXTENDS Frontend

CONSTANTS super, tenant, org

MCUsers == {super, tenant}
MCSuperAdmins == {super}
MCOrgs == {org}
MCJobs == 1..2
=============================================================================
