--------------------------- MODULE MCBoundedDecode ---------------------------
(* Counts and lengths on both sides of each bound, and some that no input   *)
(* of the instance holds.                                                   *)
EXTENDS BoundedDecode

MCDeclarable == (0..(M + 1)) \cup {N, N + 1} \cup {12, 20}
=============================================================================
