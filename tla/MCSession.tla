------------------------------ MODULE MCSession ------------------------------
(* Codes of this build's registry, one of a newer build's, and one that no  *)
(* build resolves, in lists up to one past the bound.                       *)
EXTENDS Session

Ed25519 == 1
Sha256  == 16
Newer   == 64
Unknown == 999

MCAdverts == {<<>>, <<Ed25519, Sha256>>, <<Unknown, Ed25519>>,
              <<Sha256, Unknown, Newer>>, <<Newer, Sha256, Ed25519, Unknown>>}
MCNewCodes == {Newer}

\* The bounds of the other messages play no part here.
MCDomain == <<7>>
=============================================================================
