---------------------------- MODULE MCNodeIdText ----------------------------
(* Digest prefixes whose last bits and whose bytes differ in every way that *)
(* the last, five-byte group of base32 symbols tells apart.                 *)
EXTENDS NodeIdText

MCNodes == {[i \in 1..16 |-> 0], [i \in 1..16 |-> 255],
               [i \in 1..16 |-> (37 * i) % 256]}
=============================================================================
