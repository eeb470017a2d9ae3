--------------------------- MODULE MCReportDelivery ---------------------------
(***************************************************************************)
(* Two organizations, the first of them the default, and a business of the *)
(* second, without a phone; another has one and is registered later.       *)
(***************************************************************************)
EXTENDS ReportDelivery, TLC

CONSTANTS j1, j2, o1, o2, b1, b2

\* Job ids are drawn at random and never compared.
JobSymmetry == Permutations(JobIds)

MCOwned == [b \in Businesses |-> IF b = b1 THEN o2 ELSE None]
=============================================================================
