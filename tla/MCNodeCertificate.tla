--------------------------- MODULE MCNodeCertificate ---------------------------
(* Two key holders and two byte strings that are no key, one of them over   *)
(* the wire bound; lifetimes up to two seconds, lists of up to two codes,   *)
(* one of them with a code that is not in the registry.                     *)
EXTENDS NodeCertificate

TestKeyBytes   == {"alice", "bob", "short", "huge"}
TestPublicKeys == {"alice", "bob"}
TestKeyLen     == [k \in TestKeyBytes |-> CASE k = "short" -> 31 [] k = "huge" -> 257
                                            [] OTHER -> 32]
TestLists      == { << 1 >>, << 7, 48 >>, << 1, 1, 1 >> }

\* A good certificate, and those that differ from it in one field.
Good == [subject |-> NodeId("bob"), public_key |-> "bob", capabilities |-> << 1 >>,
         valid_from |-> 1, valid_until |-> 3, issuer |-> NodeId("alice")]

\* Windows that are good, too long, empty and inverted.
Windows == { << 1, 3 >>, << 0, 3 >>, << 2, 2 >>, << 3, 1 >> }

TestInputs ==
       {[Good EXCEPT !.subject = NodeId(k)] : k \in {"alice", "bob"}}
  \cup {[Good EXCEPT !.subject = NodeId(k), !.public_key = k] : k \in {"short", "huge"}}
  \cup {[Good EXCEPT !.capabilities = l] : l \in TestLists}
  \cup {[Good EXCEPT !.valid_from = w[1], !.valid_until = w[2]] : w \in Windows}
  \cup {[Good EXCEPT !.issuer = NodeId("bob")]}
=============================================================================
