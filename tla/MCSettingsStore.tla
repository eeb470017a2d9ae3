---------------------------- MODULE MCSettingsStore ----------------------------
(* SettingsStore for TLC: two settings of two sections, "zone" and "model". *)
EXTENDS SettingsStore, TLC

CONSTANTS zone, model, preset, custom, p1, p2, r1, r2, r3

MCDefault == [f \in {zone, model} |-> preset]

\* Requests differ only in the process the initial state gives them; all such
\* assignments are initial states.
MCSymmetry == Permutations(Requests) \cup Permutations(Procs)
=============================================================================
