-------------------------------- MODULE AlgId --------------------------------
(* The algorithm registry of crates/mw-crypto: identifiers and wire codes.  *)
EXTENDS Integers

AlgCode == [Ed25519 |-> 1, X25519 |-> 2, Sha256 |-> 16, Sha384 |-> 17,
            MlKem768 |-> 32, MlDsa87 |-> 48, SlhDsa128s |-> 49]

AlgOf(code) == {a \in DOMAIN AlgCode : AlgCode[a] = code}   \* empty: unknown
=============================================================================
