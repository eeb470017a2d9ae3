----------------------------- MODULE MCMigrations -----------------------------
(***************************************************************************)
(* Four migrations: 001 and 008, which lock two tables in opposite order,  *)
(* and between them 005, which commits by itself, and the roles split.     *)
(***************************************************************************)
EXTENDS Migrations, TLC

MCLocks == << <<"businesses", "payloads">>, <<"users">>, <<"users">>,
              <<"payloads", "businesses">> >>

MCSymmetry == Permutations(Instances) \cup Permutations(Users)
=============================================================================
