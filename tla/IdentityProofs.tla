---------------------------- MODULE IdentityProofs ----------------------------
(***************************************************************************)
(* Theorems about what identifies a node: NodeCertificate, for any keys,   *)
(* capability lists, times, bounds and number of signatures and changes;   *)
(* and NodeIdText, for any nodes and any number of changes to a text.      *)
(***************************************************************************)
EXTENDS NodeCertificate, NodeIdText, InductionProofs

\* A nonempty set of numbers up to eight has a least one.
LEMMA LeastOfEight ==
    ASSUME NEW failed, failed \subseteq 1..8, failed # {}
    PROVE  \E i \in failed : \A j \in failed : i <= j
<1> SUFFICES ASSUME \A i \in failed : \E j \in failed : ~(i <= j) PROVE FALSE
    OBVIOUS
<1>1. 1 \notin failed OBVIOUS
<1>2. 2 \notin failed BY <1>1
<1>3. 3 \notin failed BY <1>1, <1>2
<1>4. 4 \notin failed BY <1>1, <1>2, <1>3
<1>5. 5 \notin failed BY <1>1, <1>2, <1>3, <1>4
<1>6. 6 \notin failed BY <1>1, <1>2, <1>3, <1>4, <1>5
<1>7. 7 \notin failed BY <1>1, <1>2, <1>3, <1>4, <1>5, <1>6
<1>8. 8 \notin failed BY <1>1, <1>2, <1>3, <1>4, <1>5, <1>6, <1>7
<1>9. PICK i \in failed : TRUE
      OBVIOUS
<1>10. i \in 1..8
       BY <1>9
<1> QED BY <1>1, <1>2, <1>3, <1>4, <1>5, <1>6, <1>7, <1>8, <1>9, <1>10

\* A list of eight checks that does not pass gives the error of its first
\* failure: those before it hold.
LEMMA FirstFailure ==
    ASSUME NEW checks, DOMAIN checks = 1..8, Verdict(checks) # "Ok"
    PROVE  \E i \in 1..8 : /\ Verdict(checks) = checks[i].error
                           /\ \A j \in 1..8 : j < i => checks[j].holds
<1> DEFINE failed == {i \in 1..8 : ~checks[i].holds}
           first  == CHOOSE i \in failed : \A j \in failed : i <= j
<1>1. failed \subseteq 1..8 /\ \A j \in 1..8 : j \notin failed => checks[j].holds
      OBVIOUS
<1>2. Verdict(checks) = IF failed = {} THEN "Ok" ELSE checks[first].error
      BY DEF Verdict
<1> HIDE DEF failed
<1>3. failed # {}
      BY <1>2
<1>4. \E i \in failed : \A j \in failed : i <= j
      BY <1>1, <1>3, LeastOfEight
<1>5. first \in failed /\ \A j \in failed : first <= j
      BY <1>4
<1> HIDE DEF first
<1>6. first \in 1..8 /\ \A j \in 1..8 : j < first => j \notin failed
      BY <1>1, <1>5
<1> QED BY <1>1, <1>2, <1>3, <1>6

\* A list of eight checks passes only if each holds.
LEMMA EightChecks ==
    ASSUME NEW checks, DOMAIN checks = 1..8,
           \A i \in 1..8 : checks[i].error # "Ok",
           Verdict(checks) = "Ok"
    PROVE  \A i \in 1..8 : checks[i].holds
<1> DEFINE failed == {i \in 1..8 : ~checks[i].holds}
<1>1. failed \subseteq 1..8
      OBVIOUS
<1>2. Verdict(checks) = IF failed = {} THEN "Ok"
        ELSE checks[CHOOSE i \in failed : \A j \in failed : i <= j].error
      BY DEF Verdict
<1>3. SUFFICES ASSUME failed # {} PROVE FALSE
      OBVIOUS
<1> HIDE DEF failed
<1>4. \E i \in failed : \A j \in failed : i <= j
      BY <1>1, <1>3, LeastOfEight
<1>5. (CHOOSE i \in failed : \A j \in failed : i <= j) \in failed
      BY <1>4
<1> QED BY <1>1, <1>2, <1>3, <1>5

\* Two lists of three and five, one after the other.
LEMMA ThreeAndFive ==
    ASSUME NEW T, NEW u \in Seq(T), NEW v \in Seq(T), Len(u) = 3, Len(v) = 5
    PROVE  /\ DOMAIN (u \o v) = 1..8
           /\ (u \o v)[1] = u[1] /\ (u \o v)[2] = u[2] /\ (u \o v)[3] = u[3]
           /\ (u \o v)[4] = v[1] /\ (u \o v)[5] = v[2] /\ (u \o v)[6] = v[3]
           /\ (u \o v)[7] = v[4] /\ (u \o v)[8] = v[5]
<1>1. /\ Len(u \o v) = Len(u) + Len(v) /\ u \o v \in Seq(T)
      BY ConcatProperties
<1>3. DOMAIN (u \o v) = 1..8
      BY <1>1
<1> DEFINE w == u \o v
<1>2. \A i \in 1..Len(u) + Len(v) :
        w[i] = IF i <= Len(u) THEN u[i] ELSE v[i - Len(u)]
      BY ConcatProperties
<1> HIDE DEF w
<1>4. \A i \in 1..8 : w[i] = IF i <= 3 THEN u[i] ELSE v[i - 3]
  <2>1. Len(u) + Len(v) = 8
        OBVIOUS
  <2> QED BY <1>2, <2>1
<1>5. /\ w[1] = u[1] /\ w[2] = u[2] /\ w[3] = u[3] /\ w[4] = v[1]
      /\ w[5] = v[2] /\ w[6] = v[3] /\ w[7] = v[4] /\ w[8] = v[5]
      BY <1>4
<1> QED BY <1>3, <1>5 DEF w

Consistent(c, k) == c.subject = NodeId(c.public_key) /\ c.issuer = NodeId(k)

\* verify() is eight checks in a row.
LEMMA VerifyIsEightChecks ==
    ASSUME NEW c, NEW k, NEW t
    PROVE  \E checks :
             /\ Verify(c, k, t) = Verdict(checks)
             /\ DOMAIN checks = 1..8
             /\ checks[1].error = "TooManyCapabilities"
             /\ checks[2].error = "MalformedSubjectPublicKey"
             /\ checks[3].error = "SubjectKeyMismatch"
             /\ checks[4].error = "IssuerKeyMismatch"
             /\ checks[5].error = "BadSignature"
             /\ checks[6].error = "LifetimeExceedsMaximum"
             /\ checks[7].error = "NotYetValid"
             /\ checks[8].error = "Expired"
             /\ checks[1].holds = (Len(c.capabilities) <= MAX_CERT_CAPABILITIES)
             /\ checks[2].holds = (c.public_key \in PublicKeys)
             /\ checks[3].holds = (c.subject = NodeId(c.public_key))
             /\ checks[4].holds = (c.issuer = NodeId(k))
             /\ checks[5].holds = VerifySignature(k, CanonicalBytes(c), c.signature)
             /\ checks[6].holds = CheckLifetime(c.valid_from, c.valid_until)
             /\ checks[7].holds = ~(t < c.valid_from)
             /\ checks[8].holds = ~(t >= c.valid_until)
<1> DEFINE h1 == Check(Len(c.capabilities) <= MAX_CERT_CAPABILITIES, "TooManyCapabilities")
           h2 == Check(c.public_key \in PublicKeys, "MalformedSubjectPublicKey")
           h3 == Check(c.subject = NodeId(c.public_key), "SubjectKeyMismatch")
           h4 == Check(c.issuer = NodeId(k), "IssuerKeyMismatch")
           h5 == Check(VerifySignature(k, CanonicalBytes(c), c.signature), "BadSignature")
           h6 == Check(CheckLifetime(c.valid_from, c.valid_until),
                       "LifetimeExceedsMaximum")
           h7 == Check(~(t < c.valid_from), "NotYetValid")
           h8 == Check(~(t >= c.valid_until), "Expired")
           checks == << h1, h2, h3 >> \o << h4, h5, h6, h7, h8 >>
<1>1. /\ h1.error = "TooManyCapabilities" /\ h2.error = "MalformedSubjectPublicKey"
      /\ h3.error = "SubjectKeyMismatch" /\ h4.error = "IssuerKeyMismatch"
      /\ h5.error = "BadSignature" /\ h6.error = "LifetimeExceedsMaximum"
      /\ h7.error = "NotYetValid" /\ h8.error = "Expired"
      BY DEF Check
<1>2. /\ h1.holds = (Len(c.capabilities) <= MAX_CERT_CAPABILITIES)
      /\ h2.holds = (c.public_key \in PublicKeys)
      /\ h3.holds = (c.subject = NodeId(c.public_key))
      /\ h4.holds = (c.issuer = NodeId(k))
      /\ h5.holds = VerifySignature(k, CanonicalBytes(c), c.signature)
      /\ h6.holds = CheckLifetime(c.valid_from, c.valid_until)
      /\ h7.holds = ~(t < c.valid_from)
      /\ h8.holds = ~(t >= c.valid_until)
      BY DEF Check
<1>3. Verify(c, k, t) = Verdict(checks)
      BY DEF Verify, SubjectChecks
<1> HIDE DEF h1, h2, h3, h4, h5, h6, h7, h8
<1>5. /\ DOMAIN checks = 1..8
      /\ checks[1] = h1 /\ checks[2] = h2 /\ checks[3] = h3 /\ checks[4] = h4
      /\ checks[5] = h5 /\ checks[6] = h6 /\ checks[7] = h7 /\ checks[8] = h8
  <2> DEFINE u == << h1, h2, h3 >>
             v == << h4, h5, h6, h7, h8 >>
             T == {h1, h2, h3, h4, h5, h6, h7, h8}
  <2>1. /\ u \in Seq(T) /\ v \in Seq(T) /\ Len(u) = 3 /\ Len(v) = 5
        OBVIOUS
  <2>2. /\ u[1] = h1 /\ u[2] = h2 /\ u[3] = h3
        /\ v[1] = h4 /\ v[2] = h5 /\ v[3] = h6 /\ v[4] = h7 /\ v[5] = h8
        OBVIOUS
  <2>3. checks = u \o v
        OBVIOUS
  <2> HIDE DEF u, v, T, checks
  <2>4. /\ DOMAIN (u \o v) = 1..8
        /\ (u \o v)[1] = u[1] /\ (u \o v)[2] = u[2] /\ (u \o v)[3] = u[3]
        /\ (u \o v)[4] = v[1] /\ (u \o v)[5] = v[2] /\ (u \o v)[6] = v[3]
        /\ (u \o v)[7] = v[4] /\ (u \o v)[8] = v[5]
        BY <2>1, ThreeAndFive, SMTT(30)
  <2> QED BY <2>2, <2>3, <2>4
<1> HIDE DEF checks
<1> QED BY <1>1, <1>2, <1>3, <1>5

\* What an accepting verify() has established.
LEMMA VerifyOk ==
    ASSUME NEW c, NEW k, NEW t, Verify(c, k, t) = "Ok"
    PROVE  /\ Consistent(c, k)
           /\ c.signature.by = k /\ c.signature.over = CanonicalBytes(c)
           /\ CheckLifetime(c.valid_from, c.valid_until)
           /\ ~(t < c.valid_from) /\ ~(t >= c.valid_until)
<1>1. PICK checks :
        /\ Verify(c, k, t) = Verdict(checks)
        /\ DOMAIN checks = 1..8
        /\ checks[1].error # "Ok" /\ checks[2].error # "Ok" /\ checks[3].error # "Ok"
        /\ checks[4].error # "Ok" /\ checks[5].error # "Ok" /\ checks[6].error # "Ok"
        /\ checks[7].error # "Ok" /\ checks[8].error # "Ok"
        /\ checks[3].holds = (c.subject = NodeId(c.public_key))
        /\ checks[4].holds = (c.issuer = NodeId(k))
        /\ checks[5].holds = VerifySignature(k, CanonicalBytes(c), c.signature)
        /\ checks[6].holds = CheckLifetime(c.valid_from, c.valid_until)
        /\ checks[7].holds = ~(t < c.valid_from)
        /\ checks[8].holds = ~(t >= c.valid_until)
      BY VerifyIsEightChecks
<1>2. \A i \in 1..8 : i = 1 \/ i = 2 \/ i = 3 \/ i = 4 \/ i = 5 \/ i = 6 \/ i = 7 \/ i = 8
      OBVIOUS
<1>3. \A i \in 1..8 : checks[i].error # "Ok"
      BY <1>1, <1>2
<1>4. Verdict(checks) = "Ok"
      BY <1>1
<1>5. \A i \in 1..8 : checks[i].holds
      BY <1>1, <1>3, <1>4, EightChecks
<1>6. /\ checks[3].holds /\ checks[4].holds /\ checks[5].holds
      /\ checks[6].holds /\ checks[7].holds /\ checks[8].holds
      BY <1>5
<1> QED BY <1>1, <1>6 DEF VerifySignature, Consistent

\* What a temporal verdict of verify() has established.
LEMMA VerifyTemporal ==
    ASSUME NEW c, NEW k, NEW t, Verify(c, k, t) \in {"NotYetValid", "Expired"}
    PROVE  /\ Consistent(c, k)
           /\ c.signature.by = k /\ c.signature.over = CanonicalBytes(c)
           /\ Len(c.capabilities) <= MAX_CERT_CAPABILITIES /\ c.public_key \in PublicKeys
           /\ CheckLifetime(c.valid_from, c.valid_until)
<1>1. PICK checks :
        /\ Verify(c, k, t) = Verdict(checks)
        /\ DOMAIN checks = 1..8
        /\ checks[1].error = "TooManyCapabilities"
        /\ checks[2].error = "MalformedSubjectPublicKey"
        /\ checks[3].error = "SubjectKeyMismatch"
        /\ checks[4].error = "IssuerKeyMismatch"
        /\ checks[5].error = "BadSignature"
        /\ checks[6].error = "LifetimeExceedsMaximum"
        /\ checks[1].holds = (Len(c.capabilities) <= MAX_CERT_CAPABILITIES)
        /\ checks[2].holds = (c.public_key \in PublicKeys)
        /\ checks[3].holds = (c.subject = NodeId(c.public_key))
        /\ checks[4].holds = (c.issuer = NodeId(k))
        /\ checks[5].holds = VerifySignature(k, CanonicalBytes(c), c.signature)
        /\ checks[6].holds = CheckLifetime(c.valid_from, c.valid_until)
      BY VerifyIsEightChecks
<1>2. PICK i \in 1..8 : /\ Verdict(checks) = checks[i].error
                        /\ \A j \in 1..8 : j < i => checks[j].holds
      BY <1>1, FirstFailure
<1>3. i # 1 /\ i # 2 /\ i # 3 /\ i # 4 /\ i # 5 /\ i # 6
      BY <1>1, <1>2
<1>4. /\ checks[1].holds /\ checks[2].holds /\ checks[3].holds
      /\ checks[4].holds /\ checks[5].holds /\ checks[6].holds
      BY <1>2, <1>3
<1> QED BY <1>1, <1>4 DEF VerifySignature, Consistent

-----------------------------------------------------------------------------
(***************************************************************************)
(* The inductive invariant.  Every signature at hand that names a key was  *)
(* made by it; the times are times; what was accepted passed the checks.   *)
(***************************************************************************)
Backed(sig) == sig.by \in PublicKeys => [by |-> sig.by, msg |-> sig.over] \in signed

Shaped(c) ==
    /\ c = [subject |-> c.subject, public_key |-> c.public_key,
            capabilities |-> c.capabilities, valid_from |-> c.valid_from,
            valid_until |-> c.valid_until, issuer |-> c.issuer,
            signature |-> c.signature]
    /\ c.valid_from \in Nat /\ c.valid_until \in Nat

ShapedDto(d) ==
    /\ d = [subject |-> d.subject, public_key |-> d.public_key,
            capabilities |-> d.capabilities, valid_from |-> d.valid_from,
            valid_until |-> d.valid_until, issuer |-> d.issuer,
            signature_algorithm |-> d.signature_algorithm,
            signature |-> d.signature]
    /\ d.valid_from \in Nat /\ d.valid_until \in Nat

SignedInv == \A m \in signed : m = [by |-> m.by, msg |-> m.msg]

CertInv == \A c \in cert : Shaped(c) /\ Backed(c.signature)

WireInv == \A w \in wire : /\ w = [dto |-> w.dto, defect |-> w.defect]
                          /\ ShapedDto(w.dto) /\ Backed(w.dto.signature)

AcceptedInv ==
    \A v \in accepted :
      LET c == v.cert
      IN  /\ [by |-> v.key, msg |-> CanonicalBytes(c)] \in signed
          /\ Consistent(c, v.key)
          /\ c.valid_from \in Nat /\ c.valid_until \in Nat /\ v.at \in Nat
          /\ CheckLifetime(c.valid_from, c.valid_until)
          /\ c.valid_from <= v.at /\ v.at < c.valid_until

IInv == now \in Nat /\ SignedInv /\ CertInv /\ WireInv /\ AcceptedInv

\* Invariants do not come undone when more has been signed.
LEMMA MoreSigned ==
    ASSUME IInv, signed \subseteq signed'
    PROVE  /\ UNCHANGED cert => CertInv'
           /\ UNCHANGED wire => WireInv'
           /\ UNCHANGED accepted => AcceptedInv'
           /\ \A s : Backed(s) => Backed(s)'
<1>1. \A s : Backed(s) => Backed(s)'
      BY DEF Backed
<1>2. UNCHANGED cert => CertInv'
      BY <1>1 DEF IInv, CertInv
<1>3. UNCHANGED wire => WireInv'
      BY <1>1 DEF IInv, WireInv
<1>4. UNCHANGED accepted => AcceptedInv'
      BY DEF IInv, AcceptedInv
<1> QED BY <1>1, <1>2, <1>3, <1>4

\* Signing keeps the invariant: the new certificate carries the signature just
\* added to what is signed, over its own fields.
LEMMA SignsKeeps ==
    ASSUME IInv, NEW k \in PublicKeys, NEW f \in Inputs, Signs(k, f)
    PROVE  IInv'
<1>1. signed \subseteq signed' /\ UNCHANGED << now, wire, accepted >>
      BY DEF Signs
<1>2. WireInv' /\ AcceptedInv' /\ (now \in Nat)'
      BY <1>1, MoreSigned DEF IInv
<1>3. f.valid_from \in Nat /\ f.valid_until \in Nat
      BY CertificateAssumption DEF CertificateFields
<1> DEFINE c == Certificate(f, Signature(k, CanonicalBytes(f)))
<1>4. Shaped(c)
      BY <1>3 DEF Shaped, Certificate
<1>5. c.signature.by = k /\ c.signature.over = CanonicalBytes(f)
      BY DEF Certificate, Signature
<1> HIDE DEF c
<1>6. cert' = {c} /\ [by |-> k, msg |-> CanonicalBytes(f)] \in signed'
      BY DEF Signs, c
<1>7. Backed(c.signature)'
      BY <1>5, <1>6 DEF Backed
<1>8. CertInv'
      BY <1>4, <1>6, <1>7 DEF CertInv
<1>9. SignedInv'
      BY DEF Signs, IInv, SignedInv
<1> QED BY <1>2, <1>8, <1>9 DEF IInv

\* Nobody's signature names a key, so whatever signature a certificate is
\* given, it is backed.
LEMMA SignaturesBacked ==
    ASSUME IInv, NEW s \in Signatures PROVE Backed(s)
<1>1. CASE s \in Garbage
  <2>1. s.by = "nobody"
        BY <1>1 DEF Garbage
  <2> QED BY <2>1, CertificateAssumption DEF Backed
<1>2. CASE s \in {Signature(m.by, m.msg) : m \in signed}
  <2>1. PICK m \in signed : s = Signature(m.by, m.msg)
        BY <1>2
  <2>2. s.by = m.by /\ s.over = m.msg
        BY <2>1 DEF Signature
  <2> QED BY <2>2 DEF Backed, IInv, SignedInv
<1> QED BY <1>1, <1>2 DEF Signatures

\* Changing a field of the certificate keeps the invariant: a signature can
\* only be exchanged for one that exists.
LEMMA TamperKeeps == ASSUME IInv, Tamper PROVE IInv'
<1>1. UNCHANGED << now, wire, signed, accepted >>
      BY DEF Tamper
<1>2. PICK c \in cert : \E d \in Change(c) : cert' = {d}
      BY DEF Tamper
<1>3. PICK d \in Change(c) : cert' = {d}
      BY <1>2
<1>4. Shaped(c) /\ Backed(c.signature)
      BY <1>2 DEF IInv, CertInv
<1>5. Shaped(d) /\ (d.signature = c.signature \/ d.signature \in Signatures)
  <2>1. \A t \in Times : t \in Nat
        BY CertificateAssumption
  <2>2. \/ \E i : d = [c EXCEPT !.subject = i]
        \/ \E i : d = [c EXCEPT !.public_key = i]
        \/ \E i : d = [c EXCEPT !.capabilities = i]
        \/ \E i \in Times : d = [c EXCEPT !.valid_from = i]
        \/ \E i \in Times : d = [c EXCEPT !.valid_until = i]
        \/ \E i : d = [c EXCEPT !.issuer = i]
        \/ \E i \in Signatures : d = [c EXCEPT !.signature = i]
        BY <1>3 DEF Change
  <2>3. CASE \E i : d = [c EXCEPT !.subject = i]
        BY <2>3, <1>4 DEF Shaped
  <2>4. CASE \E i : d = [c EXCEPT !.public_key = i]
        BY <2>4, <1>4 DEF Shaped
  <2>5. CASE \E i : d = [c EXCEPT !.capabilities = i]
        BY <2>5, <1>4 DEF Shaped
  <2>6. CASE \E i \in Times : d = [c EXCEPT !.valid_from = i]
        BY <2>1, <2>6, <1>4 DEF Shaped
  <2>7. CASE \E i \in Times : d = [c EXCEPT !.valid_until = i]
        BY <2>1, <2>7, <1>4 DEF Shaped
  <2>8. CASE \E i : d = [c EXCEPT !.issuer = i]
        BY <2>8, <1>4 DEF Shaped
  <2>9. CASE \E i \in Signatures : d = [c EXCEPT !.signature = i]
        BY <2>9, <1>4 DEF Shaped
  <2> QED BY <2>2, <2>3, <2>4, <2>5, <2>6, <2>7, <2>8, <2>9
<1>6. Backed(d.signature)
      BY <1>4, <1>5, SignaturesBacked
<1>7. CertInv'
      BY <1>1, <1>3, <1>5, <1>6 DEF CertInv, Backed
<1>8. WireInv' /\ AcceptedInv'
      BY <1>1, MoreSigned
<1> QED BY <1>1, <1>7, <1>8 DEF IInv, SignedInv

\* Encoding keeps the invariant: the bytes carry the certificate's signature.
LEMMA SendKeeps == ASSUME IInv, Send PROVE IInv'
<1>1. UNCHANGED << now, cert, signed, accepted >>
      BY DEF Send
<1>2. CertInv' /\ AcceptedInv' /\ \A s : Backed(s) => Backed(s)'
      BY <1>1, MoreSigned
<1>3. PICK c \in cert : wire' = {Encoding(c)}
      BY DEF Send
<1>4. Shaped(c) /\ Backed(c.signature)
      BY DEF IInv, CertInv
<1> DEFINE d == WireDto(c)
<1>5. /\ ShapedDto(d)
      /\ d.signature.by = c.signature.by /\ d.signature.over = c.signature.over
      BY <1>4 DEF Shaped, ShapedDto, WireDto
<1>6. Encoding(c) = [dto |-> d, defect |-> "none"]
      BY DEF Encoding
<1> HIDE DEF d
<1>7. Backed(d.signature)'
      BY <1>2, <1>4, <1>5 DEF Backed
<1>8. WireInv'
      BY <1>3, <1>5, <1>6, <1>7 DEF WireInv
<1> QED BY <1>1, <1>2, <1>8 DEF IInv, SignedInv

\* Replacing the bytes on their way keeps the invariant: the signature they
\* carry is the one that was sent.
LEMMA DisturbKeeps == ASSUME IInv, Disturb PROVE IInv'
<1>1. UNCHANGED << now, cert, signed, accepted >>
      BY DEF Disturb
<1>2. CertInv' /\ AcceptedInv' /\ \A s : Backed(s) => Backed(s)'
      BY <1>1, MoreSigned
<1>3. PICK w \in wire : \/ \E d : wire' = {[w EXCEPT !.defect = d]}
                        \/ wire' = {[w EXCEPT !.dto.signature_algorithm = 7]}
      BY DEF Disturb
<1>4. /\ w = [dto |-> w.dto, defect |-> w.defect]
      /\ ShapedDto(w.dto) /\ Backed(w.dto.signature)
      BY DEF IInv, WireInv
<1>5. PICK x : /\ wire' = {x} /\ x = [dto |-> x.dto, defect |-> x.defect]
               /\ ShapedDto(x.dto) /\ x.dto.signature = w.dto.signature
  <2>1. CASE \E d : wire' = {[w EXCEPT !.defect = d]}
    <3>1. PICK d : wire' = {[w EXCEPT !.defect = d]}
          BY <2>1
    <3>2. [w EXCEPT !.defect = d] = [dto |-> w.dto, defect |-> d]
          BY <1>4
    <3> DEFINE x == [dto |-> w.dto, defect |-> d]
    <3>3. wire' = {x} /\ x.dto = w.dto /\ x = [dto |-> x.dto, defect |-> x.defect]
          BY <3>1, <3>2
    <3> HIDE DEF x
    <3> QED BY <1>4, <3>3
  <2>2. CASE wire' = {[w EXCEPT !.dto.signature_algorithm = 7]}
    <3> DEFINE y == [w.dto EXCEPT !.signature_algorithm = 7]
               x == [dto |-> y, defect |-> w.defect]
    <3>1. ShapedDto(y) /\ y.signature = w.dto.signature
          BY <1>4 DEF ShapedDto
    <3>2. [w EXCEPT !.dto.signature_algorithm = 7] = x
          BY <1>4
    <3>3. x.dto = y /\ x.defect = w.defect
          OBVIOUS
    <3> HIDE DEF y
    <3>4. wire' = {x} /\ x = [dto |-> x.dto, defect |-> x.defect]
          BY <2>2, <3>2
    <3> HIDE DEF x
    <3> QED BY <3>1, <3>3, <3>4
  <2> QED BY <1>3, <2>1, <2>2
<1>6. WireInv'
      BY <1>2, <1>4, <1>5 DEF WireInv
<1> QED BY <1>1, <1>2, <1>6 DEF IInv, SignedInv

\* Decoding keeps the invariant: what comes out was in the bytes.
LEMMA ReceiveKeeps == ASSUME IInv, Receive PROVE IInv'
<1>1. UNCHANGED << now, signed, accepted >> /\ wire' = {}
      BY DEF Receive
<1>2. AcceptedInv' /\ \A s : Backed(s) => Backed(s)'
      BY <1>1, MoreSigned
<1>3. PICK w \in wire : cert' \subseteq {Decoded(w)}
      BY DEF Receive
<1>4. ShapedDto(w.dto) /\ Backed(w.dto.signature)
      BY DEF IInv, WireInv
<1>5. /\ Shaped(Decoded(w))
      /\ Decoded(w).signature.by = w.dto.signature.by
      /\ Decoded(w).signature.over = w.dto.signature.over
      BY <1>4 DEF Shaped, ShapedDto, Decoded, Certificate
<1>6. Backed(Decoded(w).signature)'
      BY <1>2, <1>4, <1>5 DEF Backed
<1>7. CertInv'
      BY <1>3, <1>5, <1>6 DEF CertInv
<1>8. WireInv'
      BY <1>1 DEF WireInv
<1> QED BY <1>1, <1>2, <1>7, <1>8 DEF IInv, SignedInv

\* verify() accepting keeps the invariant: what it checked holds of the
\* certificate it accepts.
LEMMA AcceptKeeps == ASSUME IInv, NEW k \in PublicKeys, Accept(k) PROVE IInv'
<1>1. UNCHANGED << now, cert, wire, signed >>
      BY DEF Accept
<1>2. CertInv' /\ WireInv'
      BY <1>1, MoreSigned
<1>3. PICK c \in cert : /\ Verify(c, k, now) = "Ok"
                        /\ accepted' = accepted \cup {[cert |-> c, key |-> k, at |-> now]}
      BY DEF Accept
<1>4. Shaped(c) /\ Backed(c.signature)
      BY DEF IInv, CertInv
<1>5. /\ Consistent(c, k)
      /\ c.signature.by = k /\ c.signature.over = CanonicalBytes(c)
      /\ CheckLifetime(c.valid_from, c.valid_until)
      /\ ~(now < c.valid_from) /\ ~(now >= c.valid_until)
      BY <1>3, VerifyOk
<1>6. [by |-> k, msg |-> CanonicalBytes(c)] \in signed
      BY <1>4, <1>5 DEF Backed
<1>7. c.valid_from \in Nat /\ c.valid_until \in Nat /\ now \in Nat
      BY <1>4 DEF Shaped, IInv
<1>8. c.valid_from <= now /\ now < c.valid_until
      BY <1>5, <1>7
<1> DEFINE v == [cert |-> c, key |-> k, at |-> now]
<1>9. v.cert = c /\ v.key = k /\ v.at = now
      OBVIOUS
<1> HIDE DEF v
<1>10. AcceptedInv'
  <2>1. \A u \in accepted' : u \in accepted \/ u = v
        BY <1>3 DEF v
  <2>2. AcceptedInv
        BY DEF IInv
  <2> QED BY <1>1, <1>5, <1>6, <1>7, <1>8, <1>9, <2>1, <2>2 DEF AcceptedInv
<1> QED BY <1>1, <1>2, <1>10 DEF IInv, SignedInv

\* The passing of time keeps the invariant.
LEMMA TickKeeps == ASSUME IInv, Tick PROVE IInv'
<1>1. UNCHANGED << cert, wire, signed, accepted >> /\ now' \in Nat
      BY CertificateAssumption DEF Tick
<1>2. CertInv' /\ WireInv' /\ AcceptedInv'
      BY <1>1, MoreSigned
<1> QED BY <1>1, <1>2 DEF IInv, SignedInv

\* The inductive invariant holds throughout every behaviour.
LEMMA Invariant == Spec => []IInv
<1>1. Init => IInv
      BY CertificateAssumption
      DEF Init, IInv, SignedInv, CertInv, WireInv, AcceptedInv
<1>2. IInv /\ [Next]_vars => IInv'
  <2> SUFFICES ASSUME IInv, [Next]_vars PROVE IInv'
      OBVIOUS
  <2>1. CASE UNCHANGED vars
    <3>1. CertInv' /\ WireInv' /\ AcceptedInv'
          BY <2>1, MoreSigned DEF vars
    <3> QED BY <2>1, <3>1 DEF vars, IInv, SignedInv
  <2>2. ASSUME NEW k \in PublicKeys, NEW f \in Inputs, Issue(k, f) \/ Mint(k, f)
        PROVE  IInv'
        BY <2>2, SignsKeeps DEF Issue, Mint
  <2>3. ASSUME NEW k \in PublicKeys, Accept(k)
        PROVE  IInv'
        BY <2>3, AcceptKeeps
  <2> QED BY <2>1, <2>2, <2>3, TamperKeeps, SendKeeps, DisturbKeeps, ReceiveKeeps,
             TickKeeps DEF Next
<1> QED BY <1>1, <1>2, PTL DEF Spec

\* Whoever changes what on the way, an accepted certificate carries what the
\* owner of the key it was verified under signed (cert.rs:272-306).
THEOREM AcceptanceIsAuthentic == Spec => []AcceptedIsAuthentic
<1>1. IInv => AcceptedIsAuthentic
  <2> SUFFICES ASSUME IInv, NEW v \in accepted
               PROVE  /\ \E m \in signed :
                           /\ m.by = v.key
                           /\ m.msg = << v.cert.subject, v.cert.public_key,
                                         v.cert.capabilities, v.cert.valid_from,
                                         v.cert.valid_until, v.cert.issuer >>
                      /\ v.cert.subject = NodeId(v.cert.public_key)
                      /\ v.cert.issuer = NodeId(v.key)
      BY DEF AcceptedIsAuthentic
  <2>1. /\ [by |-> v.key, msg |-> CanonicalBytes(v.cert)] \in signed
        /\ Consistent(v.cert, v.key)
        BY DEF IInv, AcceptedInv
  <2> QED BY <2>1 DEF CanonicalBytes, Consistent
<1> QED BY <1>1, Invariant, PTL

\* A code is resolved to an algorithm exactly if it is that algorithm's code.
LEMMA KnownIsHad ==
    ASSUME NEW c, NEW a \in DOMAIN AlgCode
    PROVE  HasCapability(c, a) <=> a \in KnownCapabilities(c)
<1>1. \A i \in DOMAIN c.capabilities :
        c.capabilities[i] = AlgCode[a] <=> a \in AlgOf(c.capabilities[i])
      BY DEF AlgOf
<1> QED BY <1>1 DEF HasCapability, KnownCapabilities

\* An accepted certificate answers about every capability, known or unknown to
\* this build, as its issuer signed it (cert.rs:190-213).
THEOREM CapabilitiesAreSigned == Spec => []CapabilityAnswersAreSigned
<1>1. IInv => CapabilityAnswersAreSigned
  <2> SUFFICES ASSUME IInv, NEW v \in accepted
               PROVE  \E m \in signed :
                        /\ m.by = v.key /\ m.msg = CanonicalBytes(v.cert)
                        /\ \A a \in DOMAIN AlgCode :
                             /\ HasCapability(v.cert, a)
                                   <=> \E i \in DOMAIN m.msg[3] : m.msg[3][i] = AlgCode[a]
                             /\ HasCapability(v.cert, a) <=> a \in KnownCapabilities(v.cert)
      BY DEF CapabilityAnswersAreSigned
  <2> DEFINE m == [by |-> v.key, msg |-> CanonicalBytes(v.cert)]
  <2>1. m \in signed
        BY DEF IInv, AcceptedInv
  <2>2. m.by = v.key /\ m.msg = CanonicalBytes(v.cert)
        OBVIOUS
  <2>3. CanonicalBytes(v.cert)[3] = v.cert.capabilities
        BY DEF CanonicalBytes
  <2> HIDE DEF m
  <2>4. ASSUME NEW a \in DOMAIN AlgCode
        PROVE  /\ HasCapability(v.cert, a)
                     <=> \E i \in DOMAIN m.msg[3] : m.msg[3][i] = AlgCode[a]
               /\ HasCapability(v.cert, a) <=> a \in KnownCapabilities(v.cert)
        BY <2>2, <2>3, KnownIsHad DEF HasCapability
  <2> QED BY <2>1, <2>2, <2>4
<1> QED BY <1>1, Invariant, PTL

\* A verdict about the time is given only on a certificate that has passed the
\* six checks before: its size, key, identities, signature and lifetime stand
\* (ADR-017, Certificate validation ordering).
THEOREM TemporalVerdictsComeLast == Spec => []TemporalVerdictComesLast
<1>1. IInv => TemporalVerdictComesLast
  <2> SUFFICES ASSUME IInv, NEW c \in cert, NEW k \in PublicKeys,
                      Verify(c, k, now) \in {"NotYetValid", "Expired"}
               PROVE  /\ [by |-> k, msg |-> CanonicalBytes(c)] \in signed
                      /\ c.subject = NodeId(c.public_key) /\ c.issuer = NodeId(k)
                      /\ Len(c.capabilities) <= MAX_CERT_CAPABILITIES
                      /\ c.public_key \in PublicKeys
                      /\ c.valid_from < c.valid_until
                      /\ c.valid_until - c.valid_from <= MAX_CERT_LIFETIME_SECS
      BY DEF TemporalVerdictComesLast
  <2>1. /\ Consistent(c, k) /\ c.signature.by = k /\ c.signature.over = CanonicalBytes(c)
        /\ Len(c.capabilities) <= MAX_CERT_CAPABILITIES /\ c.public_key \in PublicKeys
        /\ CheckLifetime(c.valid_from, c.valid_until)
        BY VerifyTemporal
  <2>3. c.valid_from < c.valid_until /\ c.valid_until - c.valid_from <= MAX_CERT_LIFETIME_SECS
    <3> DEFINE from == c.valid_from
               until == c.valid_until
    <3>1. from \in Nat /\ until \in Nat
          BY DEF IInv, CertInv, Shaped
    <3>2. CheckLifetime(from, until)
          BY <2>1
    <3> HIDE DEF from, until
    <3>3. from < until /\ until - from <= MAX_CERT_LIFETIME_SECS
          BY <3>1, <3>2, CertificateAssumption DEF CheckLifetime
    <3> QED BY <3>3 DEF from, until
  <2>2. Backed(c.signature)
        BY DEF IInv, CertInv
  <2> QED BY <2>1, <2>2, <2>3 DEF Backed, Consistent
<1> QED BY <1>1, Invariant, PTL

\* No certificate is accepted at two times a maximum lifetime apart, for any
\* maximum and whoever signed it (cert.rs:145-153, 289-303).
THEOREM AcceptanceAgesOut == Spec => []AgesOut
<1>1. IInv => AgesOut
  <2> SUFFICES ASSUME IInv, NEW v \in accepted, NEW u \in accepted, v.cert = u.cert
               PROVE  u.at - v.at < MAX_CERT_LIFETIME_SECS
      BY DEF AgesOut
  <2> DEFINE from == v.cert.valid_from
             until == v.cert.valid_until
  <2>1. /\ from \in Nat /\ until \in Nat /\ v.at \in Nat
        /\ CheckLifetime(from, until) /\ from <= v.at
        BY DEF IInv, AcceptedInv
  <2>2. u.at \in Nat /\ u.at < until
        BY DEF IInv, AcceptedInv
  <2> HIDE DEF from, until
  <2> QED BY <2>1, <2>2, CertificateAssumption DEF CheckLifetime
<1> QED BY <1>1, Invariant, PTL

-----------------------------------------------------------------------------
SubjectOk(f) ==
    /\ Len(f.capabilities) <= MAX_CERT_CAPABILITIES
    /\ f.public_key \in PublicKeys /\ f.subject = NodeId(f.public_key)

\* The checks of the subject, which sign() and verify() share.
LEMMA SubjectPasses ==
    ASSUME NEW f
    PROVE  /\ IsList(SubjectChecks(f)) /\ Len(SubjectChecks(f)) = 3
           /\ Pass(SubjectChecks(f)) <=> SubjectOk(f)
<1> DEFINE h1 == Check(Len(f.capabilities) <= MAX_CERT_CAPABILITIES, "TooManyCapabilities")
           h2 == Check(f.public_key \in PublicKeys, "MalformedSubjectPublicKey")
           h3 == Check(f.subject = NodeId(f.public_key), "SubjectKeyMismatch")
           u  == << h1, h2, h3 >>
<1>1. SubjectChecks(f) = u
      BY DEF SubjectChecks
<1>2. h1.error # "Ok" /\ h2.error # "Ok" /\ h3.error # "Ok"
      BY DEF Check
<1>3. (h1.holds /\ h2.holds /\ h3.holds) <=> SubjectOk(f)
      BY DEF Check, SubjectOk
<1> HIDE DEF h1, h2, h3
<1>4. /\ u \in Seq({h1, h2, h3}) /\ Len(u) = 3
      /\ 1..3 = {1, 2, 3}
      /\ u[1] = h1 /\ u[2] = h2 /\ u[3] = h3
      OBVIOUS
<1> HIDE DEF u
<1>5. Pass(u) <=> (h1.holds /\ h2.holds /\ h3.holds)
      BY <1>4 DEF Pass
<1>6. IsList(u)
  <2>1. \A i \in 1..3 : u[i].error # "Ok"
        BY <1>2, <1>4
  <2> QED BY <1>4, <2>1 DEF IsList
<1> QED BY <1>1, <1>3, <1>4, <1>5, <1>6

\* The last check of sign().
LifetimeCheck(f) ==
    << Check(CheckLifetime(f.valid_from, f.valid_until), "LifetimeExceedsMaximum") >>

LifetimeOk(f) ==
    CheckLifetime(f.valid_from, f.valid_until)

\* It passes as the lifetime does.
LEMMA LifetimePasses ==
    ASSUME NEW f
    PROVE  /\ IsList(LifetimeCheck(f)) /\ Len(LifetimeCheck(f)) = 1
           /\ Pass(LifetimeCheck(f)) <=> LifetimeOk(f)
<1> DEFINE h1 == Check(CheckLifetime(f.valid_from, f.valid_until), "LifetimeExceedsMaximum")
           u  == << h1 >>
<1>1. LifetimeCheck(f) = u
      BY DEF LifetimeCheck
<1>2. h1.error # "Ok"
      BY DEF Check
<1>3. (h1.holds) <=> LifetimeOk(f)
      BY DEF Check, LifetimeOk
<1> HIDE DEF h1
<1>4. /\ u \in Seq({h1}) /\ Len(u) = 1
      /\ 1..1 = {1}
      /\ u[1] = h1
      OBVIOUS
<1> HIDE DEF u
<1>5. Pass(u) <=> (h1.holds)
      BY <1>4 DEF Pass
<1>6. IsList(u)
  <2>1. \A i \in 1..1 : u[i].error # "Ok"
        BY <1>2, <1>4
  <2> QED BY <1>4, <2>1 DEF IsList
<1> QED BY <1>1, <1>3, <1>4, <1>5, <1>6

\* The checks of verify() behind those of the subject.
IssuerChecks(c, k, t) ==
    << Check(c.issuer = NodeId(k), "IssuerKeyMismatch"),
       Check(VerifySignature(k, CanonicalBytes(c), c.signature), "BadSignature"),
       Check(CheckLifetime(c.valid_from, c.valid_until), "LifetimeExceedsMaximum"),
       Check(~(t < c.valid_from), "NotYetValid"),
       Check(~(t >= c.valid_until), "Expired") >>

IssuerOk(c, k, t) ==
    /\ c.issuer = NodeId(k) /\ VerifySignature(k, CanonicalBytes(c), c.signature)
    /\ CheckLifetime(c.valid_from, c.valid_until)
    /\ ~(t < c.valid_from) /\ ~(t >= c.valid_until)

\* They pass for a signature of that issuer, in its window.
LEMMA IssuerPasses ==
    ASSUME NEW c, NEW k, NEW t
    PROVE  /\ IsList(IssuerChecks(c, k, t)) /\ Len(IssuerChecks(c, k, t)) = 5
           /\ Pass(IssuerChecks(c, k, t)) <=> IssuerOk(c, k, t)
<1> DEFINE h1 == Check(c.issuer = NodeId(k), "IssuerKeyMismatch")
           h2 == Check(VerifySignature(k, CanonicalBytes(c), c.signature), "BadSignature")
           h3 == Check(CheckLifetime(c.valid_from, c.valid_until), "LifetimeExceedsMaximum")
           h4 == Check(~(t < c.valid_from), "NotYetValid")
           h5 == Check(~(t >= c.valid_until), "Expired")
           u  == << h1, h2, h3, h4, h5 >>
<1>1. IssuerChecks(c, k, t) = u
      BY DEF IssuerChecks
<1>2. /\ h1.error # "Ok" /\ h2.error # "Ok" /\ h3.error # "Ok"
      /\ h4.error # "Ok" /\ h5.error # "Ok"
      BY DEF Check
<1>3. (h1.holds /\ h2.holds /\ h3.holds /\ h4.holds /\ h5.holds) <=> IssuerOk(c, k, t)
      BY DEF Check, IssuerOk
<1> HIDE DEF h1, h2, h3, h4, h5
<1>4. /\ u \in Seq({h1, h2, h3, h4, h5}) /\ Len(u) = 5
      /\ 1..5 = {1, 2, 3, 4, 5}
      /\ u[1] = h1 /\ u[2] = h2 /\ u[3] = h3
      /\ u[4] = h4 /\ u[5] = h5
      OBVIOUS
<1> HIDE DEF u
<1>5. Pass(u) <=> (h1.holds /\ h2.holds /\ h3.holds /\ h4.holds /\ h5.holds)
      BY <1>4 DEF Pass
<1>6. IsList(u)
  <2>1. \A i \in 1..5 : u[i].error # "Ok"
        BY <1>2, <1>4
  <2> QED BY <1>4, <2>1 DEF IsList
<1> QED BY <1>1, <1>3, <1>4, <1>5, <1>6

\* The checks of to_wire_bytes().
EncodeChecks(c) ==
    << Check(Len(c.capabilities) <= MAX_CERT_CAPABILITIES, "TooManyCapabilities"),
       Check(keyLen[c.public_key] <= MAX_PUBLIC_KEY_BYTES, "FieldBoundExceeded"),
       Check(c.signature.len <= MAX_SIGNATURE_BYTES, "FieldBoundExceeded"),
       Check(WireSize(Encoding(c)) <= MAX_CERTIFICATE_WIRE_BYTES,
                    "WireTooLarge") >>

EncodeOk(c) ==
    /\ Len(c.capabilities) <= MAX_CERT_CAPABILITIES
    /\ keyLen[c.public_key] <= MAX_PUBLIC_KEY_BYTES
    /\ c.signature.len <= MAX_SIGNATURE_BYTES
    /\ WireSize(Encoding(c)) <= MAX_CERTIFICATE_WIRE_BYTES

\* They pass within the four bounds.
LEMMA EncodePasses ==
    ASSUME NEW c
    PROVE  /\ IsList(EncodeChecks(c)) /\ Len(EncodeChecks(c)) = 4
           /\ Pass(EncodeChecks(c)) <=> EncodeOk(c)
<1> DEFINE h1 == Check(Len(c.capabilities) <= MAX_CERT_CAPABILITIES, "TooManyCapabilities")
           h2 == Check(keyLen[c.public_key] <= MAX_PUBLIC_KEY_BYTES, "FieldBoundExceeded")
           h3 == Check(c.signature.len <= MAX_SIGNATURE_BYTES, "FieldBoundExceeded")
           h4 == Check(WireSize(Encoding(c)) <= MAX_CERTIFICATE_WIRE_BYTES,
                    "WireTooLarge")
           u  == << h1, h2, h3, h4 >>
<1>1. EncodeChecks(c) = u
      BY DEF EncodeChecks
<1>2. /\ h1.error # "Ok" /\ h2.error # "Ok" /\ h3.error # "Ok"
      /\ h4.error # "Ok"
      BY DEF Check
<1>3. (h1.holds /\ h2.holds /\ h3.holds /\ h4.holds) <=> EncodeOk(c)
      BY DEF Check, EncodeOk
<1> HIDE DEF h1, h2, h3, h4
<1>4. /\ u \in Seq({h1, h2, h3, h4}) /\ Len(u) = 4
      /\ 1..4 = {1, 2, 3, 4}
      /\ u[1] = h1 /\ u[2] = h2 /\ u[3] = h3
      /\ u[4] = h4
      OBVIOUS
<1> HIDE DEF u
<1>5. Pass(u) <=> (h1.holds /\ h2.holds /\ h3.holds /\ h4.holds)
      BY <1>4 DEF Pass
<1>6. IsList(u)
  <2>1. \A i \in 1..4 : u[i].error # "Ok"
        BY <1>2, <1>4
  <2> QED BY <1>4, <2>1 DEF IsList
<1> QED BY <1>1, <1>3, <1>4, <1>5, <1>6

\* The checks of from_wire_bytes(): before it decodes,
SizeCheck(w) ==
    << Check(WireSize(w) <= MAX_CERTIFICATE_WIRE_BYTES, "WireTooLarge") >>

SizeOk(w) ==
    WireSize(w) <= MAX_CERTIFICATE_WIRE_BYTES

\* It passes within the bound.
LEMMA SizePasses ==
    ASSUME NEW w
    PROVE  /\ IsList(SizeCheck(w)) /\ Len(SizeCheck(w)) = 1
           /\ Pass(SizeCheck(w)) <=> SizeOk(w)
<1> DEFINE h1 == Check(WireSize(w) <= MAX_CERTIFICATE_WIRE_BYTES, "WireTooLarge")
           u  == << h1 >>
<1>1. SizeCheck(w) = u
      BY DEF SizeCheck
<1>2. h1.error # "Ok"
      BY DEF Check
<1>3. (h1.holds) <=> SizeOk(w)
      BY DEF Check, SizeOk
<1> HIDE DEF h1
<1>4. /\ u \in Seq({h1}) /\ Len(u) = 1
      /\ 1..1 = {1}
      /\ u[1] = h1
      OBVIOUS
<1> HIDE DEF u
<1>5. Pass(u) <=> (h1.holds)
      BY <1>4 DEF Pass
<1>6. IsList(u)
  <2>1. \A i \in 1..1 : u[i].error # "Ok"
        BY <1>2, <1>4
  <2> QED BY <1>4, <2>1 DEF IsList
<1> QED BY <1>1, <1>3, <1>4, <1>5, <1>6

FieldsOk(w) ==
    /\ keyLen[w.dto.public_key] <= MAX_PUBLIC_KEY_BYTES
    /\ Len(w.dto.capabilities) <= MAX_CERT_CAPABILITIES
    /\ w.dto.signature.len <= MAX_SIGNATURE_BYTES
    /\ w.defect # "node_id" /\ w.defect # "truncated" /\ w.defect # "trailing"

\* while it decodes,
LEMMA DecodePasses ==
    ASSUME NEW w
    PROVE  /\ IsList(DecodeChecks(w)) /\ Len(DecodeChecks(w)) = 6
           /\ Pass(DecodeChecks(w)) <=> FieldsOk(w)
<1> DEFINE h1 == Check(w.defect # "node_id", "MalformedWire")
           h2 == Check(keyLen[w.dto.public_key] <= MAX_PUBLIC_KEY_BYTES, "BoundExceeded")
           h3 == Check(Len(w.dto.capabilities) <= MAX_CERT_CAPABILITIES, "BoundExceeded")
           h4 == Check(w.defect # "truncated", "MalformedWire")
           h5 == Check(w.dto.signature.len <= MAX_SIGNATURE_BYTES, "BoundExceeded")
           h6 == Check(w.defect # "trailing", "TrailingBytes")
           u  == << h1, h2, h3, h4, h5, h6 >>
<1>1. DecodeChecks(w) = u
      BY DEF DecodeChecks
<1>2. /\ h1.error # "Ok" /\ h2.error # "Ok" /\ h3.error # "Ok"
      /\ h4.error # "Ok" /\ h5.error # "Ok" /\ h6.error # "Ok"
      BY DEF Check
<1>3. (h1.holds /\ h2.holds /\ h3.holds /\ h4.holds /\ h5.holds /\ h6.holds) <=> FieldsOk(w)
      BY DEF Check, FieldsOk
<1> HIDE DEF h1, h2, h3, h4, h5, h6
<1>4. /\ u \in Seq({h1, h2, h3, h4, h5, h6}) /\ Len(u) = 6
      /\ 1..6 = {1, 2, 3, 4, 5, 6}
      /\ u[1] = h1 /\ u[2] = h2 /\ u[3] = h3
      /\ u[4] = h4 /\ u[5] = h5 /\ u[6] = h6
      OBVIOUS
<1> HIDE DEF u
<1>5. Pass(u) <=> (h1.holds /\ h2.holds /\ h3.holds /\ h4.holds /\ h5.holds /\ h6.holds)
      BY <1>4 DEF Pass
<1>6. IsList(u)
  <2>1. \A i \in 1..6 : u[i].error # "Ok"
        BY <1>2, <1>4
  <2> QED BY <1>4, <2>1 DEF IsList
<1> QED BY <1>1, <1>3, <1>4, <1>5, <1>6

\* and on what it decoded.
LastChecks(w) ==
    << Check(w.defect # "overlong", "NonCanonicalEncoding"),
       Check(AlgOf(w.dto.signature_algorithm) # {}, "UnknownAlgorithm") >>

LastOk(w) ==
    w.defect # "overlong" /\ AlgOf(w.dto.signature_algorithm) # {}

\* They pass for a canonical encoding with a known algorithm.
LEMMA LastPasses ==
    ASSUME NEW w
    PROVE  /\ IsList(LastChecks(w)) /\ Len(LastChecks(w)) = 2
           /\ Pass(LastChecks(w)) <=> LastOk(w)
<1> DEFINE h1 == Check(w.defect # "overlong", "NonCanonicalEncoding")
           h2 == Check(AlgOf(w.dto.signature_algorithm) # {}, "UnknownAlgorithm")
           u  == << h1, h2 >>
<1>1. LastChecks(w) = u
      BY DEF LastChecks
<1>2. h1.error # "Ok" /\ h2.error # "Ok"
      BY DEF Check
<1>3. (h1.holds /\ h2.holds) <=> LastOk(w)
      BY DEF Check, LastOk
<1> HIDE DEF h1, h2
<1>4. /\ u \in Seq({h1, h2}) /\ Len(u) = 2
      /\ 1..2 = {1, 2}
      /\ u[1] = h1 /\ u[2] = h2
      OBVIOUS
<1> HIDE DEF u
<1>5. Pass(u) <=> (h1.holds /\ h2.holds)
      BY <1>4 DEF Pass
<1>6. IsList(u)
  <2>1. \A i \in 1..2 : u[i].error # "Ok"
        BY <1>2, <1>4
  <2> QED BY <1>4, <2>1 DEF IsList
<1> QED BY <1>1, <1>3, <1>4, <1>5, <1>6

-----------------------------------------------------------------------------
(***************************************************************************)
(* The four verdicts                                                       *)
(***************************************************************************)
LEMMA SignOk ==
    ASSUME NEW f
    PROVE  SignVerdict(f) = "Ok" <=> SubjectOk(f) /\ LifetimeOk(f)
<1> DEFINE a == SubjectChecks(f)
           b == LifetimeCheck(f)
           u == a \o b
<1>1. SignVerdict(f) = Verdict(u)
      BY DEF SignVerdict, LifetimeCheck
<1>2. IsList(a) /\ Len(a) = 3 /\ (Pass(a) <=> SubjectOk(f))
      BY SubjectPasses
<1>3. IsList(b) /\ Len(b) = 1 /\ (Pass(b) <=> LifetimeOk(f))
      BY LifetimePasses
<1> HIDE DEF a, b
<1>4. IsList(u) /\ Len(u) = Len(a) + Len(b) /\ (Pass(u) <=> Pass(a) /\ Pass(b))
      BY <1>2, <1>3, BothPass
<1> HIDE DEF u
<1>5. Verdict(u) = "Ok" <=> Pass(u)
      BY <1>4, VerdictIsPass
<1> QED BY <1>1, <1>2, <1>3, <1>4, <1>5

LEMMA VerifyOkIff ==
    ASSUME NEW c, NEW k, NEW t
    PROVE  Verify(c, k, t) = "Ok" <=> SubjectOk(c) /\ IssuerOk(c, k, t)
<1> DEFINE a == SubjectChecks(c)
           b == IssuerChecks(c, k, t)
           u == a \o b
<1>1. Verify(c, k, t) = Verdict(u)
      BY DEF Verify, IssuerChecks
<1>2. IsList(a) /\ Len(a) = 3 /\ (Pass(a) <=> SubjectOk(c))
      BY SubjectPasses
<1>3. IsList(b) /\ Len(b) = 5 /\ (Pass(b) <=> IssuerOk(c, k, t))
      BY IssuerPasses
<1> HIDE DEF a, b
<1>4. IsList(u) /\ Len(u) = Len(a) + Len(b) /\ (Pass(u) <=> Pass(a) /\ Pass(b))
      BY <1>2, <1>3, BothPass
<1> HIDE DEF u
<1>5. Verdict(u) = "Ok" <=> Pass(u)
      BY <1>4, VerdictIsPass
<1> QED BY <1>1, <1>2, <1>3, <1>4, <1>5

LEMMA EncodeVerdictOk ==
    ASSUME NEW c
    PROVE  EncodeVerdict(c) = "Ok" <=> EncodeOk(c)
<1> DEFINE u == EncodeChecks(c)
<1>1. EncodeVerdict(c) = Verdict(u)
      BY DEF EncodeVerdict, EncodeChecks
<1>2. IsList(u) /\ Len(u) = 4 /\ (Pass(u) <=> EncodeOk(c))
      BY EncodePasses
<1> HIDE DEF u
<1>3. Verdict(u) = "Ok" <=> Pass(u)
      BY <1>2, VerdictIsPass
<1> QED BY <1>1, <1>2, <1>3

LEMMA DecodeVerdictOk ==
    ASSUME NEW w
    PROVE  DecodeVerdict(w) = "Ok" <=> SizeOk(w) /\ FieldsOk(w) /\ LastOk(w)
<1> DEFINE a == SizeCheck(w)
           b == DecodeChecks(w)
           d == LastChecks(w)
           u == a \o b
           v == u \o d
<1>1. DecodeVerdict(w) = Verdict(v)
      BY DEF DecodeVerdict, SizeCheck, LastChecks
<1>2. IsList(a) /\ Len(a) = 1 /\ (Pass(a) <=> SizeOk(w))
      BY SizePasses
<1>3. IsList(b) /\ Len(b) = 6 /\ (Pass(b) <=> FieldsOk(w))
      BY DecodePasses
<1>4. IsList(d) /\ Len(d) = 2 /\ (Pass(d) <=> LastOk(w))
      BY LastPasses
<1> HIDE DEF a, b, d
<1>5. IsList(u) /\ Len(u) = Len(a) + Len(b) /\ (Pass(u) <=> Pass(a) /\ Pass(b))
      BY <1>2, <1>3, BothPass
<1> HIDE DEF u
<1>6. IsList(v) /\ Len(v) = Len(u) + Len(d) /\ (Pass(v) <=> Pass(u) /\ Pass(d))
      BY <1>4, <1>5, BothPass
<1> HIDE DEF v
<1>7. Verdict(v) = "Ok" <=> Pass(v)
      BY <1>6, VerdictIsPass
<1> QED BY <1>1, <1>2, <1>3, <1>4, <1>5, <1>6, <1>7

-----------------------------------------------------------------------------
(***************************************************************************)
(* The inductive invariant, beside IInv: the shapes of signatures and of   *)
(* what is on the wire, and what sign() returned.                          *)
(***************************************************************************)
SignatureShape(s) ==
    /\ s = [alg |-> s.alg, len |-> s.len, by |-> s.by, over |-> s.over]
    /\ s.alg \in DOMAIN AlgCode

CertShape == \A c \in cert : SignatureShape(c.signature)

WireShape ==
    \A w \in wire :
      /\ w.defect \in Defects
      /\ w.dto.signature = [len |-> w.dto.signature.len, by |-> w.dto.signature.by,
                            over |-> w.dto.signature.over]

IssuedInv ==
    \A i \in issued : \E f \in Inputs :
      /\ i.cert = Certificate(f, Signature(i.key, CanonicalBytes(f)))
      /\ SignVerdict(f) = "Ok"

AgreeInv == CertShape /\ WireShape /\ IssuedInv

\* The registry gives each algorithm a code of its own.
LEMMA CodeNamesOne == \A a \in DOMAIN AlgCode : AlgOf(AlgCode[a]) = {a}
<1>1. DOMAIN AlgCode = {"Ed25519", "X25519", "Sha256", "Sha384", "MlKem768", "MlDsa87",
                        "SlhDsa128s"}
      BY DEF AlgCode
<1>2. /\ AlgCode["Ed25519"] = 1 /\ AlgCode["X25519"] = 2 /\ AlgCode["Sha256"] = 16
      /\ AlgCode["Sha384"] = 17 /\ AlgCode["MlKem768"] = 32 /\ AlgCode["MlDsa87"] = 48
      /\ AlgCode["SlhDsa128s"] = 49
      BY DEF AlgCode
<1>3. \A a, b \in DOMAIN AlgCode : AlgCode[a] = AlgCode[b] => a = b
      BY <1>1, <1>2
<1> QED BY <1>3 DEF AlgOf

\* A code that resolves is the code of the algorithm it resolves to.
LEMMA ResolvedCode ==
    ASSUME NEW code, AlgOf(code) # {}
    PROVE  LET a == CHOOSE a \in AlgOf(code) : TRUE
           IN  a \in DOMAIN AlgCode /\ AlgCode[a] = code
BY DEF AlgOf

LEMMA SignatureShaped ==
    ASSUME NEW s \in Signatures PROVE SignatureShape(s)
<1>0. "Ed25519" \in DOMAIN AlgCode /\ "MlDsa87" \in DOMAIN AlgCode
      BY DEF AlgCode
<1>1. CASE s \in Garbage
      BY <1>0, <1>1 DEF Garbage, SignatureShape
<1>2. CASE \E m \in signed : s = Signature(m.by, m.msg)
      BY <1>0, <1>2 DEF Signature, SignatureShape
<1> QED BY <1>1, <1>2 DEF Signatures

LEMMA SignsAgrees ==
    ASSUME AgreeInv, NEW k, NEW f \in Inputs, Signs(k, f),
           \/ UNCHANGED issued
           \/ /\ SignVerdict(f) = "Ok"
              /\ issued' = issued \cup
                   {[cert |-> Certificate(f, Signature(k, CanonicalBytes(f))), key |-> k]}
    PROVE  AgreeInv'
<1> DEFINE s == Signature(k, CanonicalBytes(f))
           c == Certificate(f, s)
<1>1. "Ed25519" \in DOMAIN AlgCode
      BY DEF AlgCode
<1>2. SignatureShape(s) /\ c.signature = s
      BY <1>1 DEF Signature, SignatureShape, Certificate
<1>3. cert' = {c} /\ wire' = wire
      BY DEF Signs
<1>4. IssuedInv'
  <2>1. CASE UNCHANGED issued
        BY <2>1 DEF AgreeInv, IssuedInv
  <2>2. CASE SignVerdict(f) = "Ok" /\ issued' = issued \cup {[cert |-> c, key |-> k]}
    <3> SUFFICES ASSUME NEW i \in issued'
                 PROVE  \E g \in Inputs :
                          /\ i.cert = Certificate(g, Signature(i.key, CanonicalBytes(g)))
                          /\ SignVerdict(g) = "Ok"
        BY DEF IssuedInv
    <3>1. CASE i \in issued
          BY <3>1 DEF AgreeInv, IssuedInv
    <3>2. CASE i = [cert |-> c, key |-> k]
          BY <2>2, <3>2
    <3> QED BY <2>2, <3>1, <3>2
  <2> QED BY <2>1, <2>2
<1> HIDE DEF s, c
<1>5. CertShape'
      BY <1>2, <1>3 DEF CertShape
<1>6. WireShape'
      BY <1>3 DEF AgreeInv, WireShape
<1> QED BY <1>4, <1>5, <1>6 DEF AgreeInv

LEMMA TamperAgrees == ASSUME IInv, AgreeInv, Tamper PROVE AgreeInv'
<1>1. PICK c \in cert : \E d \in Change(c) : cert' = {d}
      BY DEF Tamper
<1>2. PICK d \in Change(c) : cert' = {d}
      BY <1>1
<1>3. Shaped(c) /\ SignatureShape(c.signature)
      BY DEF IInv, CertInv, AgreeInv, CertShape
<1>4. CASE d.signature = c.signature
  <2>1. SignatureShape(d.signature)
        BY <1>3, <1>4
  <2>2. CertShape'
        BY <1>2, <2>1 DEF CertShape
  <2> QED BY <2>2 DEF Tamper, AgreeInv, WireShape, IssuedInv
<1>5. CASE d.signature \in Signatures
  <2>1. SignatureShape(d.signature)
        BY <1>5, SignatureShaped
  <2>2. CertShape'
        BY <1>2, <2>1 DEF CertShape
  <2> QED BY <2>2 DEF Tamper, AgreeInv, WireShape, IssuedInv
<1>6. d.signature = c.signature \/ d.signature \in Signatures
  <2>1. c = [subject |-> c.subject, public_key |-> c.public_key,
             capabilities |-> c.capabilities, valid_from |-> c.valid_from,
             valid_until |-> c.valid_until, issuer |-> c.issuer,
             signature |-> c.signature]
        BY <1>3 DEF Shaped
  <2> QED BY <2>1 DEF Change
<1> QED BY <1>4, <1>5, <1>6

LEMMA SendAgrees == ASSUME AgreeInv, Send PROVE AgreeInv'
<1>1. PICK c \in cert : wire' = {Encoding(c)}
      BY DEF Send
<1> DEFINE w == Encoding(c)
<1>2. /\ w.defect = "none"
      /\ w.dto.signature = [len |-> c.signature.len, by |-> c.signature.by,
                            over |-> c.signature.over]
      BY DEF Encoding, WireDto
<1> HIDE DEF w
<1>3. /\ w.defect \in Defects
      /\ w.dto.signature = [len |-> w.dto.signature.len, by |-> w.dto.signature.by,
                            over |-> w.dto.signature.over]
      BY <1>2 DEF Defects
<1>4. wire' = {w}
      BY <1>1 DEF w
<1>5. WireShape'
      BY <1>3, <1>4 DEF WireShape
<1> QED BY <1>5 DEF Send, AgreeInv, CertShape, IssuedInv

LEMMA DisturbAgrees == ASSUME IInv, AgreeInv, Disturb PROVE AgreeInv'
<1>1. PICK w \in wire :
        \/ \E d \in Defects : wire' = {[w EXCEPT !.defect = d]}
        \/ wire' = {[w EXCEPT !.dto.signature_algorithm = 7]}
      BY DEF Disturb
<1>2. /\ w = [dto |-> w.dto, defect |-> w.defect] /\ ShapedDto(w.dto)
      /\ w.defect \in Defects
      /\ w.dto.signature = [len |-> w.dto.signature.len, by |-> w.dto.signature.by,
                            over |-> w.dto.signature.over]
      BY DEF IInv, WireInv, AgreeInv, WireShape
<1>4. ASSUME NEW d \in Defects, wire' = {[w EXCEPT !.defect = d]}
      PROVE  WireShape'
  <2> DEFINE v == [w EXCEPT !.defect = d]
  <2>2. v.dto = w.dto /\ v.defect = d
        BY <1>2
  <2>3. wire' = {v}
        BY <1>4
  <2> HIDE DEF v
  <2> QED BY <1>2, <2>2, <2>3 DEF WireShape
<1>5. ASSUME wire' = {[w EXCEPT !.dto.signature_algorithm = 7]}
      PROVE  WireShape'
  <2> DEFINE e == [w.dto EXCEPT !.signature_algorithm = 7]
             v == [w EXCEPT !.dto = e]
  <2>1. e.signature = w.dto.signature
        BY <1>2 DEF ShapedDto
  <2> HIDE DEF e
  <2>2. v.dto = e /\ v.defect = w.defect
        BY <1>2
  <2>3. wire' = {v}
        BY <1>5 DEF e
  <2> HIDE DEF v
  <2> QED BY <1>2, <2>1, <2>2, <2>3 DEF WireShape
<1>6. WireShape'
      BY <1>1, <1>4, <1>5
<1> QED BY <1>6 DEF Disturb, AgreeInv, CertShape, IssuedInv

LEMMA ReceiveAgrees == ASSUME AgreeInv, Receive PROVE AgreeInv'
<1>1. PICK w \in wire :
        cert' = IF DecodeVerdict(w) = "Ok" THEN {Decoded(w)} ELSE {}
      BY DEF Receive
<1>2. ASSUME DecodeVerdict(w) = "Ok" PROVE SignatureShape(Decoded(w).signature)
  <2>1. AlgOf(w.dto.signature_algorithm) # {}
        BY <1>2, DecodeVerdictOk DEF LastOk
  <2>2. (CHOOSE a \in AlgOf(w.dto.signature_algorithm) : TRUE) \in DOMAIN AlgCode
        BY <2>1, ResolvedCode
  <2> DEFINE a == CHOOSE a \in AlgOf(w.dto.signature_algorithm) : TRUE
  <2>3. Decoded(w).signature = [alg |-> a, len |-> w.dto.signature.len,
                                by |-> w.dto.signature.by, over |-> w.dto.signature.over]
        BY DEF Decoded, Certificate
  <2> HIDE DEF a
  <2> QED BY <2>2, <2>3 DEF SignatureShape, a
<1>3. CertShape'
      BY <1>1, <1>2 DEF CertShape
<1>4. WireShape'
      BY DEF Receive, WireShape
<1> QED BY <1>3, <1>4 DEF Receive, AgreeInv, IssuedInv

LEMMA Agreement == Spec => []AgreeInv
<1>1. Init => AgreeInv
      BY DEF Init, AgreeInv, CertShape, WireShape, IssuedInv
<1>2. IInv /\ AgreeInv /\ [Next]_vars => AgreeInv'
  <2> SUFFICES ASSUME IInv, AgreeInv, [Next]_vars PROVE AgreeInv'
      OBVIOUS
  <2>1. CASE UNCHANGED << cert, wire, issued >>
        BY <2>1 DEF AgreeInv, CertShape, WireShape, IssuedInv
  <2>2. ASSUME NEW k \in PublicKeys, NEW f \in Inputs, Issue(k, f) \/ Mint(k, f)
        PROVE  AgreeInv'
        BY <2>2, SignsAgrees DEF Issue, Mint
  <2>3. ASSUME NEW k \in PublicKeys, Accept(k)
        PROVE  AgreeInv'
        BY <2>1, <2>3 DEF Accept
  <2>4. CASE Tick \/ UNCHANGED vars
        BY <2>1, <2>4 DEF Tick, vars
  <2> QED BY <2>2, <2>3, <2>4, TamperAgrees, SendAgrees, DisturbAgrees, ReceiveAgrees
          DEF Next
<1> QED BY <1>1, <1>2, Invariant, PTL DEF Spec

-----------------------------------------------------------------------------
(***************************************************************************)
(* The theorems                                                            *)
(***************************************************************************)
\* What sign() returns to an issuer who names itself verifies under its key
\* throughout its window and at no other time (cert.rs:224-306).
THEOREM SignAndVerifyAgree == Spec => []SignedVerifies
<1>1. IInv /\ AgreeInv => SignedVerifies
  <2> SUFFICES ASSUME AgreeInv, NEW i \in issued, i.cert.issuer = NodeId(i.key)
               PROVE  /\ i.cert.valid_from < i.cert.valid_until
                      /\ \A t \in Times : Verify(i.cert, i.key, t) = "Ok" <=>
                           i.cert.valid_from <= t /\ t < i.cert.valid_until
      BY DEF SignedVerifies
  <2>1. PICK f \in Inputs :
          /\ i.cert = Certificate(f, Signature(i.key, CanonicalBytes(f)))
          /\ SignVerdict(f) = "Ok"
        BY DEF AgreeInv, IssuedInv
  <2> DEFINE c == i.cert
             k == i.key
  <2>2. /\ c.subject = f.subject /\ c.public_key = f.public_key
        /\ c.capabilities = f.capabilities /\ c.issuer = f.issuer
        /\ c.valid_from = f.valid_from /\ c.valid_until = f.valid_until
        /\ c.signature = Signature(k, CanonicalBytes(f))
        BY <2>1 DEF Certificate
  <2>3. f.valid_from \in Nat /\ f.valid_until \in Nat
        BY CertificateAssumption DEF CertificateFields
  <2> HIDE DEF c, k
  <2>4. SubjectOk(c) /\ CheckLifetime(c.valid_from, c.valid_until)
    <3>1. SubjectOk(f) /\ LifetimeOk(f)
          BY <2>1, SignOk
    <3> QED BY <2>2, <3>1 DEF SubjectOk, LifetimeOk
  <2>5. VerifySignature(k, CanonicalBytes(c), c.signature)
    <3>1. CanonicalBytes(c) = CanonicalBytes(f)
          BY <2>2 DEF CanonicalBytes
    <3> QED BY <2>2, <3>1 DEF VerifySignature, Signature
  <2>6. c.issuer = NodeId(k)
        BY DEF c, k
  <2>7. c.valid_from < c.valid_until
        BY <2>2, <2>3, <2>4, CertificateAssumption DEF CheckLifetime
  <2>8. ASSUME NEW t \in Times
        PROVE  Verify(c, k, t) = "Ok" <=> c.valid_from <= t /\ t < c.valid_until
    <3>1. t \in Nat /\ c.valid_from \in Nat /\ c.valid_until \in Nat
          BY <2>2, <2>3, CertificateAssumption
    <3>2. (~(t < c.valid_from) /\ ~(t >= c.valid_until))
            <=> (c.valid_from <= t /\ t < c.valid_until)
          BY <3>1
    <3>3. Verify(c, k, t) = "Ok" <=> SubjectOk(c) /\ IssuerOk(c, k, t)
          BY VerifyOkIff
    <3> QED BY <2>4, <2>5, <2>6, <3>2, <3>3 DEF IssuerOk
  <2> QED BY <2>7, <2>8 DEF c, k
<1> QED BY <1>1, Invariant, Agreement, PTL

\* Decoding the encoding of a certificate gives the certificate.
LEMMA DecodedEncoding ==
    ASSUME NEW c, Shaped(c), SignatureShape(c.signature)
    PROVE  Decoded(Encoding(c)) = c
<1> DEFINE w == Encoding(c)
           s == c.signature
<1>1. /\ w.dto.subject = c.subject /\ w.dto.public_key = c.public_key
      /\ w.dto.capabilities = c.capabilities /\ w.dto.issuer = c.issuer
      /\ w.dto.valid_from = c.valid_from /\ w.dto.valid_until = c.valid_until
      /\ w.dto.signature_algorithm = AlgCode[s.alg]
      /\ w.dto.signature = [len |-> s.len, by |-> s.by, over |-> s.over]
      BY DEF Encoding, WireDto
<1> DEFINE a == CHOOSE a \in AlgOf(w.dto.signature_algorithm) : TRUE
<1>2. AlgOf(w.dto.signature_algorithm) = {s.alg}
      BY <1>1, CodeNamesOne DEF SignatureShape
<1>3. a = s.alg
      BY <1>2
<1>4. Decoded(w) = Certificate(w.dto, [alg |-> a, len |-> w.dto.signature.len,
                                       by |-> w.dto.signature.by,
                                       over |-> w.dto.signature.over])
      BY DEF Decoded
<1> HIDE DEF w, a
<1>5. [alg |-> a, len |-> w.dto.signature.len, by |-> w.dto.signature.by,
       over |-> w.dto.signature.over] = s
      BY <1>1, <1>3 DEF SignatureShape
<1>6. Decoded(w) = Certificate(w.dto, s)
      BY <1>4, <1>5
<1>7. Certificate(w.dto, s) = c
      BY <1>1 DEF Certificate, Shaped
<1> QED BY <1>6, <1>7 DEF w

\* What to_wire_bytes() accepts, from_wire_bytes() accepts and gives back: the
\* bounds tested on the two sides are the same (cert.rs:328-396).
THEOREM EncodingsDecode == Spec => []EncodedDecodes
<1>1. IInv /\ AgreeInv => EncodedDecodes
  <2> SUFFICES ASSUME IInv, AgreeInv, NEW c \in cert, EncodeVerdict(c) = "Ok"
               PROVE  DecodeVerdict(Encoding(c)) = "Ok" /\ Decoded(Encoding(c)) = c
      BY DEF EncodedDecodes
  <2>1. Shaped(c) /\ SignatureShape(c.signature)
        BY DEF IInv, CertInv, AgreeInv, CertShape
  <2>2. EncodeOk(c)
        BY EncodeVerdictOk
  <2> DEFINE w == Encoding(c)
  <2>3. /\ w.defect = "none" /\ w.dto.public_key = c.public_key
        /\ w.dto.capabilities = c.capabilities
        /\ w.dto.signature.len = c.signature.len
        /\ w.dto.signature_algorithm = AlgCode[c.signature.alg]
        BY DEF Encoding, WireDto
  <2>4. SizeOk(w)
        BY <2>2 DEF SizeOk, EncodeOk
  <2> HIDE DEF w
  <2>5. FieldsOk(w)
        BY <2>2, <2>3 DEF FieldsOk, EncodeOk
  <2>6. LastOk(w)
    <3>1. AlgOf(w.dto.signature_algorithm) = {c.signature.alg}
          BY <2>1, <2>3, CodeNamesOne DEF SignatureShape
    <3> QED BY <2>3, <3>1 DEF LastOk
  <2>7. DecodeVerdict(w) = "Ok"
        BY <2>4, <2>5, <2>6, DecodeVerdictOk
  <2> QED BY <2>1, <2>7, DecodedEncoding DEF w
<1> QED BY <1>1, Invariant, Agreement, PTL

\* A byte string from_wire_bytes() accepts is the one to_wire_bytes() gives for
\* the certificate in it (cert.rs:371-396).
THEOREM EncodingIsUnique == Spec => []OneEncoding
<1>1. IInv /\ AgreeInv => OneEncoding
  <2> SUFFICES ASSUME IInv, AgreeInv, NEW w \in wire, DecodeVerdict(w) = "Ok"
               PROVE  EncodeVerdict(Decoded(w)) = "Ok" /\ Encoding(Decoded(w)) = w
      BY DEF OneEncoding
  <2> DEFINE c == Decoded(w)
             a == CHOOSE a \in AlgOf(w.dto.signature_algorithm) : TRUE
  <2>1. SizeOk(w) /\ FieldsOk(w) /\ LastOk(w)
        BY DecodeVerdictOk
  <2>2. /\ w = [dto |-> w.dto, defect |-> w.defect] /\ ShapedDto(w.dto)
        /\ w.defect \in Defects
        /\ w.dto.signature = [len |-> w.dto.signature.len, by |-> w.dto.signature.by,
                              over |-> w.dto.signature.over]
        BY DEF IInv, WireInv, AgreeInv, WireShape
  <2>3. w.defect = "none"
        BY <2>1, <2>2 DEF FieldsOk, LastOk, Defects
  <2>4. AlgCode[a] = w.dto.signature_algorithm
        BY <2>1, ResolvedCode DEF LastOk
  <2>5. /\ c.subject = w.dto.subject /\ c.public_key = w.dto.public_key
        /\ c.capabilities = w.dto.capabilities /\ c.issuer = w.dto.issuer
        /\ c.valid_from = w.dto.valid_from /\ c.valid_until = w.dto.valid_until
        /\ c.signature.alg = a /\ c.signature.len = w.dto.signature.len
        /\ c.signature.by = w.dto.signature.by /\ c.signature.over = w.dto.signature.over
        BY DEF Decoded, Certificate
  <2> HIDE DEF c, a
  <2>6. WireDto(c) = w.dto
        BY <2>2, <2>4, <2>5 DEF WireDto, ShapedDto
  <2>7. Encoding(c) = w
        BY <2>2, <2>3, <2>6 DEF Encoding
  <2>8. EncodeOk(c)
        BY <2>1, <2>5, <2>7 DEF EncodeOk, SizeOk, FieldsOk
  <2> QED BY <2>7, <2>8, EncodeVerdictOk DEF c
<1> QED BY <1>1, Invariant, Agreement, PTL

-----------------------------------------------------------------------------
(***************************************************************************)
(* The text of a node identity.  That no second text names a node needs    *)
(* nothing of the base32 arithmetic: it is the re-encoding in from_str()   *)
(* that makes it so.  That a displayed text is read back does need it.     *)
(***************************************************************************)
TextShape  == /\ text = [scheme |-> text.scheme, symbols |-> text.symbols]
              /\ text.scheme \in BOOLEAN
Judged == verdict \in {NotAsked, FromStr(text)}

TextInv == TextShape /\ Judged

LEMMA TextInvInit == TextInit => TextInv
  BY DEF TextInit, TextInv, TextShape, Judged, Display

LEMMA EditedStep ==
  ASSUME NEW s \in BOOLEAN, NEW symbols, Edited(s, symbols)
  PROVE  TextInv'
  BY DEF Edited, TextInv, TextShape, Judged

LEMMA TextInvNext == TextInv /\ [TextNext]_textVars => TextInv'
<1> SUFFICES ASSUME TextInv, [TextNext]_textVars PROVE TextInv'
  OBVIOUS
<1>1. CASE UNCHANGED textVars
  BY <1>1 DEF textVars, TextInv, TextShape, Judged, FromStr, Decode
<1>2. CASE Replace \/ Shorten \/ Lengthen \/ LoseScheme
  BY <1>2, EditedStep DEF TextInv, TextShape, Replace, Shorten, Lengthen, LoseScheme
<1>3. CASE Parse
  <2>1. TextShape'
    BY <1>3 DEF Parse, TextInv, TextShape
  <2>2. FromStr(text)' = FromStr(text)
    BY <1>3 DEF Parse, FromStr, Decode
  <2> QED
    BY <1>3, <2>1, <2>2 DEF Parse, TextInv, Judged
<1> QED
  BY <1>1, <1>2, <1>3 DEF TextNext

\* An accepted text is what the node it names displays.
LEMMA AcceptedIsDisplayed ==
  ASSUME TextShape, FromStr(text) # Malformed
  PROVE  text = Display(FromStr(text))
  BY DEF TextShape, FromStr, Display

-----------------------------------------------------------------------------
(***************************************************************************)
(* The base32 arithmetic: what is encoded is decoded, by either decoder.   *)
(***************************************************************************)
LEMMA ValueRun ==
  ASSUME NEW n \in Nat, NEW bits \in [1..n -> 0..1]
  PROVE  \E v : /\ v[0] = 0 /\ \A i \in 1..n : v[i] = 2 * v[i - 1] + bits[i]
                /\ Value(bits) = v[n]
<1> DEFINE Step(v, i) == IF i = 0 THEN 0 ELSE 2 * v[i - 1] + bits[i]
           G == [i \in 1..n |-> [x \in Nat |-> 2 * x + bits[i]]]
           h == CHOOSE v : v = [i \in 0..n |-> Step(v, i)]
<1>1. Len(bits) = n
  OBVIOUS
<1>2. Value(bits) = h[n]
  BY <1>1 DEF Value
<1>3. Steps(Nat, 0, n, G)
  <2>1. \A i \in 1..n, x \in Nat : 2 * x + bits[i] \in Nat
    OBVIOUS
  <2> QED
    BY <2>1 DEF Steps
<1>4. \A i \in 1..n, x \in Nat : G[i][x] = 2 * x + bits[i]
  OBVIOUS
<1> HIDE DEF G
<1>5. PICK f : Run(f, Nat, 0, n, G)
  BY <1>3, Recursion
<1>6. ASSUME NEW i \in 0..n PROVE f[i] = Step(f, i)
  <2>1. CASE i = 0
    BY <1>5, <2>1 DEF Run
  <2>2. CASE i # 0
    <3>1. i \in 1..n /\ i - 1 \in 0..n
      BY <2>2
    <3>2. f[i] = G[i][f[i - 1]] /\ f[i - 1] \in Nat
      BY <1>5, <3>1 DEF Run
    <3> QED
      BY <1>4, <2>2, <3>1, <3>2
  <2> QED
    BY <2>1, <2>2
<1>10. f \in [0..n -> Nat]
  BY <1>5 DEF Run
<1>7. f = [i \in 0..n |-> Step(f, i)]
  <2>1. f = [i \in 0..n |-> f[i]]
    BY <1>10
  <2> QED
    BY <1>6, <2>1
<1> HIDE DEF Step
<1>8. h = [i \in 0..n |-> Step(h, i)]
  BY <1>7
<1> HIDE DEF h
<1>9. \A i \in 0..n : h[i] = Step(h, i)
  BY <1>8
<1>11. h[0] = 0 /\ \A i \in 1..n : h[i] = 2 * h[i - 1] + bits[i]
  BY <1>9 DEF Step
<1> QED
  BY <1>2, <1>11

LEMMA Value5 ==
  ASSUME NEW bits \in [1..5 -> 0..1]
  PROVE  Value(bits) =
           2 * (2 * (2 * (2 * bits[1] + bits[2]) + bits[3]) + bits[4]) + bits[5]
<1>1. PICK v : /\ v[0] = 0 /\ \A i \in 1..5 : v[i] = 2 * v[i - 1] + bits[i]
               /\ Value(bits) = v[5]
  BY ValueRun
<1>2. v[1] = 2 * v[0] + bits[1] /\ v[2] = 2 * v[1] + bits[2] /\ v[3] = 2 * v[2] + bits[3]
      /\ v[4] = 2 * v[3] + bits[4] /\ v[5] = 2 * v[4] + bits[5]
  BY <1>1
<1>3. 2 * v[0] + bits[1] = bits[1]
  BY <1>1
<1> QED
  BY <1>1, <1>2, <1>3

LEMMA Value8 ==
  ASSUME NEW bits \in [1..8 -> 0..1]
  PROVE  Value(bits) =
           2 * (2 * (2 * (2 * (2 * (2 * (2 * bits[1] + bits[2]) + bits[3]) + bits[4])
                + bits[5]) + bits[6]) + bits[7]) + bits[8]
<1>1. PICK v : /\ v[0] = 0 /\ \A i \in 1..8 : v[i] = 2 * v[i - 1] + bits[i]
               /\ Value(bits) = v[8]
  BY ValueRun
<1>2. v[1] = 2 * v[0] + bits[1] /\ v[2] = 2 * v[1] + bits[2] /\ v[3] = 2 * v[2] + bits[3]
      /\ v[4] = 2 * v[3] + bits[4] /\ v[5] = 2 * v[4] + bits[5] /\ v[6] = 2 * v[5] + bits[6]
      /\ v[7] = 2 * v[6] + bits[7] /\ v[8] = 2 * v[7] + bits[8]
  BY <1>1
<1>3. 2 * v[0] + bits[1] = bits[1]
  BY <1>1
<1> QED
  BY <1>1, <1>2, <1>3

LEMMA Powers == /\ 2^0 = 1 /\ 2^1 = 2 /\ 2^2 = 4 /\ 2^3 = 8
                /\ 2^4 = 16 /\ 2^5 = 32 /\ 2^6 = 64 /\ 2^7 = 128
OBVIOUS

\* Bit i of five is found in their value.
LEMMA BitOfValue ==
  ASSUME NEW bits \in [1..5 -> 0..1], NEW r \in 0..4
  PROVE  (Value(bits) \div 2^(4 - r)) % 2 = bits[r + 1]
<1> DEFINE a == bits[1]
           b == bits[2]
           c == bits[3]
           d == bits[4]
           e == bits[5]
           x == 2 * (2 * (2 * (2 * a + b) + c) + d) + e
<1>1. a \in 0..1 /\ b \in 0..1 /\ c \in 0..1 /\ d \in 0..1 /\ e \in 0..1
  OBVIOUS
<1>2. Value(bits) = x
  BY Value5
<1> HIDE DEF a, b, c, d, e
<1>3. /\ (x \div 16) % 2 = a /\ (x \div 8) % 2 = b /\ (x \div 4) % 2 = c
      /\ (x \div 2) % 2 = d /\ (x \div 1) % 2 = e
  BY <1>1
<1> HIDE DEF x
<1>4. CASE r = 0
  BY <1>2, <1>3, <1>4, Powers DEF a
<1>5. CASE r = 1
  BY <1>2, <1>3, <1>5, Powers DEF b
<1>6. CASE r = 2
  BY <1>2, <1>3, <1>6, Powers DEF c
<1>7. CASE r = 3
  BY <1>2, <1>3, <1>7, Powers DEF d
<1>8. CASE r = 4
  BY <1>2, <1>3, <1>8, Powers DEF e
<1> QED
  BY <1>4, <1>5, <1>6, <1>7, <1>8

LEMMA Halves == \A k \in Nat : k \div 2 \in Nat /\ k = 2 * (k \div 2) + (k % 2)
<1>1. ASSUME NEW k \in Nat PROVE k \div 2 \in Nat
  OBVIOUS
<1>2. ASSUME NEW k \in Nat PROVE k = 2 * (k \div 2) + (k % 2)
  OBVIOUS
<1> QED
  BY <1>1, <1>2, Zenon

\* A byte is the value of its bits.
LEMMA ByteOfBits ==
  ASSUME NEW x \in 0..255
  PROVE  Value([j \in 1..8 |-> (x \div 2^(8 - j)) % 2]) = x
<1> DEFINE bits == [j \in 1..8 |-> (x \div 2^(8 - j)) % 2]
           h(k) == k \div 2
           r(k) == k % 2
           x1 == h(x)
           x2 == h(x1)
           x3 == h(x2)
           x4 == h(x3)
           x5 == h(x4)
           x6 == h(x5)
           x7 == h(x6)
<1>1. /\ x1 = x \div 2 /\ x2 = x \div 4 /\ x3 = x \div 8 /\ x4 = x \div 16
      /\ x5 = x \div 32 /\ x6 = x \div 64 /\ x7 = x \div 128 /\ x = x \div 1
  OBVIOUS
<1>2. /\ x = 2 * x1 + r(x) /\ x1 = 2 * x2 + r(x1) /\ x2 = 2 * x3 + r(x2)
      /\ x3 = 2 * x4 + r(x3) /\ x4 = 2 * x5 + r(x4) /\ x5 = 2 * x6 + r(x5)
      /\ x6 = 2 * x7 + r(x6) /\ x7 = r(x7)
  <2>1. \A k \in Nat : h(k) \in Nat /\ k = 2 * h(k) + r(k)
    BY Halves
  <2>2. x7 \in 0..1
    BY <1>1
  <2>3. x7 = r(x7)
    <3> HIDE DEF x7
    <3> QED
      BY <2>2
  <2>4. x \in Nat
    OBVIOUS
  <2> HIDE DEF h, r
  <2> QED
    BY <2>1, <2>3, <2>4
<1>3. /\ x % 2 \in 0..1 /\ x1 % 2 \in 0..1 /\ x2 % 2 \in 0..1 /\ x3 % 2 \in 0..1
      /\ x4 % 2 \in 0..1 /\ x5 % 2 \in 0..1 /\ x6 % 2 \in 0..1 /\ x7 % 2 \in 0..1
  OBVIOUS
<1> HIDE DEF x1, x2, x3, x4, x5, x6, x7, h
<1>4. /\ bits[1] = x7 % 2 /\ bits[2] = x6 % 2 /\ bits[3] = x5 % 2 /\ bits[4] = x4 % 2
      /\ bits[5] = x3 % 2 /\ bits[6] = x2 % 2 /\ bits[7] = x1 % 2 /\ bits[8] = x % 2
  BY <1>1, Powers
<1>5. bits \in [1..8 -> 0..1]
  <2>1. ASSUME NEW j \in 1..8 PROVE bits[j] \in 0..1
    BY <1>3, <1>4
  <2> QED
    BY <2>1
<1> HIDE DEF bits
<1>6. Value(bits) =
           2 * (2 * (2 * (2 * (2 * (2 * (2 * bits[1] + bits[2]) + bits[3]) + bits[4])
                + bits[5]) + bits[6]) + bits[7]) + bits[8]
  BY <1>5, Value8
<1>7. /\ bits[1] = x7 /\ 2 * bits[1] + bits[2] = x6 /\ 2 * x6 + bits[3] = x5
      /\ 2 * x5 + bits[4] = x4 /\ 2 * x4 + bits[5] = x3 /\ 2 * x3 + bits[6] = x2
      /\ 2 * x2 + bits[7] = x1 /\ 2 * x1 + bits[8] = x
  <2>1. /\ bits[1] = r(x7) /\ bits[2] = r(x6) /\ bits[3] = r(x5) /\ bits[4] = r(x4)
        /\ bits[5] = r(x3) /\ bits[6] = r(x2) /\ bits[7] = r(x1) /\ bits[8] = r(x)
    BY <1>4
  <2> HIDE DEF r
  <2> QED
    BY <1>2, <2>1
<1>8. Value(bits) = x
  BY <1>6, <1>7
<1> QED
  BY <1>8 DEF bits

DigestPrefixes == [1..16 -> 0..255]

LEMMA BitIsBit ==
  ASSUME NEW p \in DigestPrefixes, NEW i \in Nat
  PROVE  Bit(p, 8, i) \in 0..1
<1> DEFINE k == i \div 8
           r == i % 8
<1>0. k \in Nat /\ r \in 0..7 /\ Len(p) = 16
  BY DEF DigestPrefixes
<1>1. CASE k < 16
  <2> DEFINE x == p[k + 1]
             q == 2^(8 - 1 - r)
  <2>1. x \in 0..255
    BY <1>0, <1>1 DEF DigestPrefixes
  <2>2. Bit(p, 8, i) = (x \div q) % 2
    BY <1>0, <1>1 DEF Bit
  <2> HIDE DEF x, r, k
  <2>3. 8 - 1 - r \in 0..7
    BY <1>0
  <2>4. ASSUME NEW e \in 0..7 PROVE 2^e \in Nat \ {0}
    <3>1. CASE e = 0
      BY <3>1, Powers
    <3>2. CASE e = 1
      BY <3>2, Powers
    <3>3. CASE e = 2
      BY <3>3, Powers
    <3>4. CASE e = 3
      BY <3>4, Powers
    <3>5. CASE e = 4
      BY <3>5, Powers
    <3>6. CASE e = 5
      BY <3>6, Powers
    <3>7. CASE e = 6
      BY <3>7, Powers
    <3>8. CASE e = 7
      BY <3>8, Powers
    <3> QED
      BY <3>1, <3>2, <3>3, <3>4, <3>5, <3>6, <3>7, <3>8
  <2>5. q \in Nat \ {0}
    BY <2>3, <2>4
  <2> HIDE DEF q
  <2>6. x \div q \in Nat
    BY <2>1, <2>5
  <2> QED
    BY <2>2, <2>6
<1>2. CASE ~(k < 16)
  BY <1>0, <1>2 DEF Bit
<1> QED
  BY <1>1, <1>2

\* A symbol of the encoding, and the bits it carries.
LEMMA Digits ==
  ASSUME NEW p \in DigestPrefixes
  PROVE  /\ Encode(p) \in [1..26 -> 0..31]
         /\ \A i \in 0..129 : Bit(Encode(p), 5, i) = Bit(p, 8, i)
<1> DEFINE E == Encode(p)
           bits(k) == [j \in 1..5 |-> Bit(p, 8, 5 * (k - 1) + j - 1)]
<1>1. E = [k \in 1..26 |-> Value(bits(k))]
  BY DEF Encode, Regroup, NODE_ID_ENCODED_LEN
<1>2. ASSUME NEW k \in 1..26 PROVE bits(k) \in [1..5 -> 0..1]
  <2>1. ASSUME NEW j \in 1..5 PROVE Bit(p, 8, 5 * (k - 1) + j - 1) \in 0..1
    <3>1. 5 * (k - 1) + j - 1 \in Nat
      OBVIOUS
    <3> QED
      BY <3>1, BitIsBit
  <2> QED
    BY <2>1
<1>3. ASSUME NEW k \in 1..26, NEW r \in 0..4
      PROVE  bits(k)[r + 1] = Bit(p, 8, 5 * (k - 1) + r)
  <2>1. 5 * (k - 1) + (r + 1) - 1 = 5 * (k - 1) + r /\ r + 1 \in 1..5
    OBVIOUS
  <2> QED
    BY <2>1
<1> HIDE DEF bits, E
<1>4. ASSUME NEW k \in 1..26 PROVE Value(bits(k)) \in 0..31
  <2> DEFINE b == bits(k)
  <2>1. b \in [1..5 -> 0..1]
    BY <1>2
  <2> HIDE DEF b
  <2>2. /\ b[1] \in 0..1 /\ b[2] \in 0..1 /\ b[3] \in 0..1 /\ b[4] \in 0..1
        /\ b[5] \in 0..1
    BY <2>1
  <2>3. Value(b) = 2 * (2 * (2 * (2 * b[1] + b[2]) + b[3]) + b[4]) + b[5]
    BY <2>1, Value5
  <2>4. Value(b) \in 0..31
    BY <2>2, <2>3
  <2> QED
    BY <2>4 DEF b
<1>5. E \in [1..26 -> 0..31]
  BY <1>1, <1>4
<1>6. ASSUME NEW i \in 0..129 PROVE Bit(E, 5, i) = Bit(p, 8, i)
  <2> DEFINE k == i \div 5 + 1
             r == i % 5
  <2>1. k \in 1..26 /\ r \in 0..4 /\ 5 * (k - 1) + r = i /\ 5 - 1 - r = 4 - r
    OBVIOUS
  <2>2. Len(E) = 26 /\ i \div 5 < 26
    BY <1>5
  <2>3. Bit(E, 5, i) = (E[k] \div 2^(5 - 1 - r)) % 2
    BY <2>2 DEF Bit
  <2> HIDE DEF k, r
  <2>4. E[k] = Value(bits(k)) /\ bits(k) \in [1..5 -> 0..1]
    BY <1>1, <1>2, <2>1
  <2>5. (Value(bits(k)) \div 2^(4 - r)) % 2 = bits(k)[r + 1]
    BY <2>1, <2>4, BitOfValue
  <2>6. bits(k)[r + 1] = Bit(p, 8, i)
    BY <1>3, <2>1
  <2> QED
    BY <2>1, <2>3, <2>4, <2>5, <2>6
<1> QED
  BY <1>5, <1>6 DEF E

\* What is encoded is decoded, by either decoder.
LEMMA EncodedIsDecoded ==
  ASSUME NEW p \in DigestPrefixes
  PROVE  Decode(Encode(p)) = p
<1> DEFINE E == Encode(p)
           read == IF decoder = "tolerant" THEN [k \in DOMAIN E |-> Upper(E[k])] ELSE E
<1>1. E \in [1..26 -> 0..31] /\ \A i \in 0..129 : Bit(E, 5, i) = Bit(p, 8, i)
  BY Digits
<1> HIDE DEF E
<1>2. Len(E) = 26 /\ DOMAIN E = 1..26
  BY <1>1
<1>3. read = E
  <2>1. ASSUME NEW k \in DOMAIN E PROVE Upper(E[k]) = E[k]
    BY <1>1, SMTT(30) DEF Upper
  <2>2. E = [k \in DOMAIN E |-> E[k]]
    BY <1>1
  <2> QED
    BY <2>1, <2>2
<1>4. 5 * 26 = 130 /\ 130 % 8 = 2 /\ 130 \div 8 = 16
  OBVIOUS
<1>5. \A k \in DOMAIN E : E[k] \in Alphabet
  BY <1>1, <1>2 DEF Alphabet
<1>6. \A i \in (130 - 2)..(130 - 1) : Bit(E, 5, i) = 0
  <2> SUFFICES ASSUME NEW i \in 128..129 PROVE Bit(E, 5, i) = 0
    OBVIOUS
  <2>1. i \div 8 = 16 /\ Len(p) = 16 /\ i \in 0..129
    BY DEF DigestPrefixes
  <2>2. Bit(p, 8, i) = 0
    BY <2>1 DEF Bit
  <2> QED
    BY <1>1, <2>1, <2>2
<1>7. Regroup(E, 5, 8, 16) = p
  <2> DEFINE bits(m) == [j \in 1..8 |-> Bit(E, 5, 8 * (m - 1) + j - 1)]
  <2>1. ASSUME NEW m \in 1..16 PROVE Value(bits(m)) = p[m]
    <3>1. ASSUME NEW j \in 1..8
          PROVE  Bit(E, 5, 8 * (m - 1) + j - 1) = (p[m] \div 2^(8 - j)) % 2
      <4> DEFINE i == 8 * (m - 1) + j - 1
      <4>1. i \in 0..129 /\ i \div 8 = m - 1 /\ i % 8 = j - 1 /\ Len(p) = 16
        BY DEF DigestPrefixes
      <4> HIDE DEF i
      <4>2. Bit(p, 8, i) = (p[(m - 1) + 1] \div 2^(8 - 1 - (j - 1))) % 2
        BY <4>1 DEF Bit
      <4>3. (m - 1) + 1 = m /\ 8 - 1 - (j - 1) = 8 - j
        OBVIOUS
      <4>4. Bit(E, 5, i) = Bit(p, 8, i)
        BY <1>1, <4>1
      <4>5. Bit(E, 5, i) = (p[m] \div 2^(8 - j)) % 2
        BY <4>2, <4>3, <4>4
      <4> QED
        BY <4>5 DEF i
    <3>2. bits(m) = [j \in 1..8 |-> (p[m] \div 2^(8 - j)) % 2]
      BY <3>1
    <3>3. p[m] \in 0..255
      BY DEF DigestPrefixes
    <3> HIDE DEF bits
    <3> QED
      BY <3>2, <3>3, ByteOfBits
  <2>2. Regroup(E, 5, 8, 16) = [m \in 1..16 |-> Value(bits(m))]
    BY DEF Regroup
  <2> HIDE DEF bits
  <2>3. p = [m \in 1..16 |-> p[m]]
    BY DEF DigestPrefixes
  <2> QED
    BY <2>1, <2>2, <2>3
<1> HIDE DEF read
<1> DEFINE Result(len, symbols) ==
             IF /\ len % 8 < 5
                /\ \A k \in DOMAIN symbols : symbols[k] \in Alphabet
                /\ decoder = "strict" =>
                     \A i \in (len - (len % 8))..(len - 1) : Bit(symbols, 5, i) = 0
             THEN Regroup(symbols, 5, 8, len \div 8)
             ELSE Malformed
<1>8. Decode(E) = Result(130, E)
  <2>1. Decode(E) = Result(5 * Len(E), read)
    BY Zenon DEF Decode, read
  <2>2. 5 * Len(E) = 130
    BY <1>2, <1>4
  <2> HIDE DEF Result
  <2> QED
    BY <1>3, <2>1, <2>2
<1>9. Decode(E) = p
  BY <1>4, <1>5, <1>6, <1>7, <1>8
<1> QED
  BY <1>9 DEF E

-----------------------------------------------------------------------------
\* What a node displays is parsed to it.
LEMMA DisplayedIsParsed ==
  ASSUME NEW p \in DigestPrefixes
  PROVE  FromStr(Display(p)) = p
<1>1. Decode(Display(p).symbols) = p /\ Display(p).symbols = Encode(p) /\ Display(p).scheme
  BY EncodedIsDecoded DEF Display
<1>2. Len(Encode(p)) = 26 /\ Len(p) = 16
  BY Digits DEF DigestPrefixes
<1> HIDE DEF DigestPrefixes
<1> QED
  BY <1>1, <1>2 DEF FromStr, NODE_ID_ENCODED_LEN, NODE_ID_PREFIX_LEN

Known == TextInv /\ node \in Nodes

\* A displayed text is read as the node that displayed it, under either
\* decoder, and a text that says anything else is not read as that node.
THEOREM ParsedExactly == TextSpec => []ParsedIffUnchanged
<1>1. TextInit => Known
  BY TextInvInit DEF TextInit, Known
<1>2. Known /\ [TextNext]_textVars => Known'
  <2> SUFFICES ASSUME Known, [TextNext]_textVars PROVE Known'
    OBVIOUS
  <2>1. TextInv'
    BY TextInvNext DEF Known
  <2>2. node' = node
    BY DEF TextNext, textVars, Replace, Shorten, Lengthen, LoseScheme, Edited, Parse
  <2> QED
    BY <2>1, <2>2 DEF Known
<1>3. Known => ParsedIffUnchanged
  <2> SUFFICES ASSUME Known, verdict # NotAsked
               PROVE  verdict = node <=> text = Display(node)
    BY DEF ParsedIffUnchanged
  <2>1. verdict = FromStr(text) /\ TextShape
    BY DEF Known, TextInv, Judged
  <2>2. node \in DigestPrefixes
    BY TextAssumption DEF Known, DigestPrefixes
  <2>3. ASSUME verdict = node PROVE text = Display(node)
    <3>1. node # Malformed
      <4>1. 1 \in DOMAIN node
        BY <2>2 DEF DigestPrefixes
      <4>2. DOMAIN Malformed = {}
        BY DEF Malformed
      <4> QED
        BY <4>1, <4>2
    <3> QED
      BY <2>1, <2>3, <3>1, AcceptedIsDisplayed, Zenon
  <2>4. ASSUME text = Display(node) PROVE verdict = node
    BY <2>1, <2>2, <2>4, DisplayedIsParsed, Zenon
  <2> QED
    BY <2>3, <2>4
<1> QED
  BY <1>1, <1>2, <1>3, PTL DEF TextSpec
=============================================================================
