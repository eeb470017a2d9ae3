----------------------------- MODULE MCSecretStore -----------------------------
(* SecretStore for TLC. *)
EXTENDS SecretStore, TLC

CONSTANTS p1, p2, r1, r2, r3, s1, s2

NoEnv == None
MCSymmetry == Permutations(Requests) \cup Permutations(Keys)
=============================================================================
