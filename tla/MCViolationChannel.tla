-------------------------- MODULE MCViolationChannel --------------------------
(* Two threads, two violations, decodes nested three deep. *)
EXTENDS ViolationChannel, TLC

CONSTANTS t1, t2, v1, v2

TwoThreads    == {t1, t2}
TwoViolations == {v1, v2}

Symmetry == Permutations({t1, t2}) \cup Permutations({v1, v2})
=============================================================================
