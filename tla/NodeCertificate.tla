---------------------------- MODULE NodeCertificate ----------------------------
(***************************************************************************)
(* The identity-bound capability certificate of crates/mw-identity         *)
(* (cert.rs): sign, verify, and the wire form.                             *)
(*                                                                         *)
(* Cryptography is symbolic.  A key is named by its public bytes; the      *)
(* identity of different bytes differs; a signature records who made it    *)
(* over which message, and nobody makes one for a key that is not theirs.  *)
(* Fields are public in the code: whoever holds a certificate may change   *)
(* them, and an issuer of another build may sign what sign() would refuse. *)
(***************************************************************************)
EXTENDS AlgId, Checks, FiniteSets

CONSTANTS KeyBytes,         \* byte strings that stand where a public key should
          PublicKeys,       \* those that are Ed25519 public keys
          keyLen,           \* their lengths
          CapabilityLists,  \* lists of u16 registry codes
          Inputs,           \* the fields issuers sign
          Times,            \* unix seconds
          SignatureLens,    \* lengths of signatures nobody made
          MAX_CERT_LIFETIME_SECS, MAX_CERT_CAPABILITIES,
          MAX_PUBLIC_KEY_BYTES, MAX_SIGNATURE_BYTES, MAX_CERTIFICATE_WIRE_BYTES,
          MaxSigned,        \* bound: signatures made
          MaxChanges        \* bound: changes to a certificate or its bytes

\* NodeId::from_public_key_bytes: a digest of the bytes.
NodeId(k) == << "mw:node", k >>
NodeIds   == {NodeId(k) : k \in KeyBytes}

CertificateFields ==
    [subject : NodeIds, public_key : KeyBytes, capabilities : CapabilityLists,
     valid_from : Times, valid_until : Times, issuer : NodeIds]

ASSUME CertificateAssumption ==
    /\ PublicKeys \subseteq KeyBytes /\ "nobody" \notin KeyBytes
    /\ keyLen \in [KeyBytes -> Nat]
    /\ Inputs \subseteq CertificateFields
    /\ Times \subseteq Nat
    /\ MAX_CERT_LIFETIME_SECS \in Nat
    /\ SignatureLens \subseteq Nat

-----------------------------------------------------------------------------
(***************************************************************************)
(* Signatures                                                              *)
(***************************************************************************)
\* Bug: the form that is signed leaves the capabilities out.
Bug_CapabilitiesUnsigned(f) ==
    << f.subject, f.public_key, f.valid_from, f.valid_until, f.issuer >>

\* canonical_bytes(): every field but the signature, in declaration order.
CanonicalBytes(f) ==
    << f.subject, f.public_key, f.capabilities, f.valid_from, f.valid_until,
       f.issuer >>

\* Keypair::sign.
Signature(k, msg) == [alg |-> "Ed25519", len |-> 64, by |-> k, over |-> msg]

\* Bytes that are nobody's signature, under a tag.
Garbage == [alg : {"Ed25519", "MlDsa87"}, len : SignatureLens, by : {"nobody"},
            over : {<< >>}]

\* verify_ed25519: the tag is looked at before the bytes.
VerifySignature(k, msg, sig) ==
    /\ sig.alg = "Ed25519" /\ sig.len = 64
    /\ sig.by = k /\ sig.over = msg

-----------------------------------------------------------------------------
(***************************************************************************)
(* The checks of sign and verify                                           *)
(***************************************************************************)
\* Bug: a window of no length passes.
Bug_ZeroLifetime(from, until) ==
    until >= from /\ until - from <= MAX_CERT_LIFETIME_SECS

\* check_lifetime, with checked_sub.
CheckLifetime(from, until) ==
    until >= from /\ until - from \in 1..MAX_CERT_LIFETIME_SECS

\* Capability count, key well-formedness, and the key's identity.
SubjectChecks(f) ==
    << Check(Len(f.capabilities) <= MAX_CERT_CAPABILITIES, "TooManyCapabilities"),
       Check(f.public_key \in PublicKeys, "MalformedSubjectPublicKey"),
       Check(f.subject = NodeId(f.public_key), "SubjectKeyMismatch") >>

\* Bug: the stored codes are resolved first, and one that is not ends it.
Bug_ResolvesAll(c, alg) ==
    /\ \A i \in DOMAIN c.capabilities : AlgOf(c.capabilities[i]) # {}
    /\ \E i \in DOMAIN c.capabilities : alg \in AlgOf(c.capabilities[i])

\* has_capability() compares codes; known_capabilities() resolves them and
\* leaves out those this build does not know.
HasCapability(c, alg) == \E i \in DOMAIN c.capabilities : c.capabilities[i] = AlgCode[alg]
KnownCapabilities(c)  == UNION {AlgOf(c.capabilities[i]) : i \in DOMAIN c.capabilities}

\* NodeCertificate::sign.  It does not look whether issuer names the signer.
SignVerdict(f) ==
    Verdict(SubjectChecks(f)
            \o << Check(CheckLifetime(f.valid_from, f.valid_until),
                        "LifetimeExceedsMaximum") >>)

Certificate(f, sig) ==
    [subject |-> f.subject, public_key |-> f.public_key,
     capabilities |-> f.capabilities, valid_from |-> f.valid_from,
     valid_until |-> f.valid_until, issuer |-> f.issuer, signature |-> sig]

\* Bugs: the lifetime is left to sign(); the cheap clock comparisons go first.
Bug_LifetimeOnlyAtSigning(c, k, now) ==
    Verdict(SubjectChecks(c) \o
      << Check(c.issuer = NodeId(k), "IssuerKeyMismatch"),
         Check(VerifySignature(k, CanonicalBytes(c), c.signature), "BadSignature"),
         Check(~(now < c.valid_from), "NotYetValid"),
         Check(~(now >= c.valid_until), "Expired") >>)

Bug_ClockFirst(c, k, now) ==
    Verdict(<< Check(~(now < c.valid_from), "NotYetValid"),
               Check(~(now >= c.valid_until), "Expired") >> \o SubjectChecks(c) \o
      << Check(c.issuer = NodeId(k), "IssuerKeyMismatch"),
         Check(VerifySignature(k, CanonicalBytes(c), c.signature), "BadSignature"),
         Check(CheckLifetime(c.valid_from, c.valid_until), "LifetimeExceedsMaximum") >>)

\* NodeCertificate::verify against the issuer's key k.
Verify(c, k, now) ==
    Verdict(SubjectChecks(c) \o
      << Check(c.issuer = NodeId(k), "IssuerKeyMismatch"),
         Check(VerifySignature(k, CanonicalBytes(c), c.signature), "BadSignature"),
         Check(CheckLifetime(c.valid_from, c.valid_until), "LifetimeExceedsMaximum"),
         Check(~(now < c.valid_from), "NotYetValid"),
         Check(~(now >= c.valid_until), "Expired") >>)

-----------------------------------------------------------------------------
(***************************************************************************)
(* The wire form.  A byte string is the CertificateWire it would decode to *)
(* with what is wrong with it: a subject that does not parse, an overlong  *)
(* varint, bytes after the end, or its last byte, one of the signature's,  *)
(* missing.                                                                *)
(***************************************************************************)
Defects == {"none", "node_id", "overlong", "trailing", "truncated"}

VarintLen[n \in Nat] == IF n < 128 THEN 1 ELSE 1 + VarintLen[n \div 128]

CodesLen(codes) ==
    LET len[i \in 0..Len(codes)] ==
          IF i = 0 THEN 0 ELSE len[i - 1] + VarintLen[codes[i]]
    IN  len[Len(codes)]

\* Two node ids of 34 characters, the variable fields, the two times, the
\* algorithm code; each variable field behind its length.
WireSize(w) ==
    LET d == w.dto
        pk == keyLen[d.public_key]
    IN  2 * (1 + 34) + VarintLen[pk] + pk
        + VarintLen[Len(d.capabilities)] + CodesLen(d.capabilities)
        + VarintLen[d.valid_from] + VarintLen[d.valid_until]
        + VarintLen[d.signature_algorithm]
        + VarintLen[d.signature.len] + d.signature.len
        + (CASE w.defect \in {"overlong", "trailing"} -> 1
             [] w.defect = "truncated" -> -1
             [] OTHER -> 0)

\* The CertificateWire of a certificate: the tag becomes its code.
WireDto(c) ==
    [subject |-> c.subject, public_key |-> c.public_key,
     capabilities |-> c.capabilities, valid_from |-> c.valid_from,
     valid_until |-> c.valid_until, issuer |-> c.issuer,
     signature_algorithm |-> AlgCode[c.signature.alg],
     signature |-> [len |-> c.signature.len, by |-> c.signature.by,
                    over |-> c.signature.over]]

Encoding(c) == [dto |-> WireDto(c), defect |-> "none"]

\* Bug: the length of the signature is not checked before encoding.
Bug_SignatureLenUnchecked(c) ==
    Verdict(<< Check(Len(c.capabilities) <= MAX_CERT_CAPABILITIES, "TooManyCapabilities"),
               Check(keyLen[c.public_key] <= MAX_PUBLIC_KEY_BYTES, "FieldBoundExceeded"),
               Check(WireSize(Encoding(c)) <= MAX_CERTIFICATE_WIRE_BYTES,
                     "WireTooLarge") >>)

\* NodeCertificate::to_wire_bytes: each field's bound, then the whole.
EncodeVerdict(c) ==
    Verdict(<< Check(Len(c.capabilities) <= MAX_CERT_CAPABILITIES, "TooManyCapabilities"),
               Check(keyLen[c.public_key] <= MAX_PUBLIC_KEY_BYTES, "FieldBoundExceeded"),
               Check(c.signature.len <= MAX_SIGNATURE_BYTES, "FieldBoundExceeded"),
               Check(WireSize(Encoding(c)) <= MAX_CERTIFICATE_WIRE_BYTES,
                     "WireTooLarge") >>)

\* decode_exact::<CertificateWire>: fields in order, then nothing left over.
DecodeChecks(w) ==
    << Check(w.defect # "node_id", "MalformedWire"),
       Check(keyLen[w.dto.public_key] <= MAX_PUBLIC_KEY_BYTES, "BoundExceeded"),
       Check(Len(w.dto.capabilities) <= MAX_CERT_CAPABILITIES, "BoundExceeded"),
       Check(w.defect # "truncated", "MalformedWire"),
       Check(w.dto.signature.len <= MAX_SIGNATURE_BYTES, "BoundExceeded"),
       Check(w.defect # "trailing", "TrailingBytes") >>

\* Bug: what decodes is not re-encoded and compared.
Bug_AnyEncoding(w) ==
    Verdict(<< Check(WireSize(w) <= MAX_CERTIFICATE_WIRE_BYTES, "WireTooLarge") >>
            \o DecodeChecks(w)
            \o << Check(AlgOf(w.dto.signature_algorithm) # {}, "UnknownAlgorithm") >>)

\* NodeCertificate::from_wire_bytes: size, decode, canonicality, algorithm.
DecodeVerdict(w) ==
    Verdict(<< Check(WireSize(w) <= MAX_CERTIFICATE_WIRE_BYTES, "WireTooLarge") >>
            \o DecodeChecks(w)
            \o << Check(w.defect # "overlong", "NonCanonicalEncoding"),
                  Check(AlgOf(w.dto.signature_algorithm) # {}, "UnknownAlgorithm") >>)

\* The certificate a decodable byte string carries.
Decoded(w) ==
    Certificate(w.dto, [alg  |-> CHOOSE a \in AlgOf(w.dto.signature_algorithm) : TRUE,
                        len  |-> w.dto.signature.len,
                        by   |-> w.dto.signature.by,
                        over |-> w.dto.signature.over])

-----------------------------------------------------------------------------
(***************************************************************************)
(* A certificate on its way from an issuer to a verifier                   *)
(***************************************************************************)
VARIABLES
  now,       \* the clock the caller injects
  cert,      \* the certificate at hand, at most one
  wire,      \* the bytes on their way, at most one string
  signed,    \* history: who signed which message
  issued,    \* history: what sign() of this build returned, and its signer
  accepted,  \* history: what verify() accepted, under which key and when
  changes    \* number of changes, for the bound MaxChanges

vars == << now, cert, wire, signed, issued, accepted, changes >>

Signatures == {Signature(m.by, m.msg) : m \in signed} \cup Garbage

Init ==
    /\ now \in {t \in Times : \A u \in Times : t <= u}
    /\ cert = {} /\ wire = {} /\ signed = {} /\ issued = {} /\ accepted = {}
    /\ changes = 0

Signs(k, f) ==
    /\ Cardinality(signed) < MaxSigned
    /\ LET msg == CanonicalBytes(f)
       IN  /\ signed' = signed \cup {[by |-> k, msg |-> msg]}
           /\ cert'   = {Certificate(f, Signature(k, msg))}
    /\ UNCHANGED << now, wire, accepted, changes >>

\* sign() accepts the fields; what it refuses leaves no trace.
Issue(k, f) ==
    /\ Signs(k, f)
    /\ SignVerdict(f) = "Ok"
    /\ issued' = issued \cup {[cert |-> Certificate(f, Signature(k, CanonicalBytes(f))),
                               key  |-> k]}

\* The holder of a key signs fields sign() may refuse.
Mint(k, f) == Signs(k, f) /\ UNCHANGED issued

\* A holder of the certificate sets one of its public fields.
Change(c) ==
       {[c EXCEPT !.subject = i]      : i \in NodeIds}
  \cup {[c EXCEPT !.public_key = k]   : k \in KeyBytes}
  \cup {[c EXCEPT !.capabilities = l] : l \in CapabilityLists}
  \cup {[c EXCEPT !.valid_from = t]   : t \in Times}
  \cup {[c EXCEPT !.valid_until = t]  : t \in Times}
  \cup {[c EXCEPT !.issuer = i]       : i \in NodeIds}
  \cup {[c EXCEPT !.signature = s]    : s \in Signatures}

Tamper ==
    /\ changes < MaxChanges
    /\ \E c \in cert : \E d \in Change(c) \ {c} : cert' = {d}
    /\ changes' = changes + 1
    /\ UNCHANGED << now, wire, signed, issued, accepted >>

\* The certificate is encoded and sent.
Send ==
    /\ wire = {}
    /\ \E c \in cert : EncodeVerdict(c) = "Ok" /\ wire' = {Encoding(c)}
    /\ UNCHANGED << now, cert, signed, issued, accepted, changes >>

\* The bytes are replaced by others.
Disturb ==
    /\ changes < MaxChanges
    /\ \E w \in wire :
         \/ \E d \in Defects \ {"none"} : wire' = {[w EXCEPT !.defect = d]}
         \/ wire' = {[w EXCEPT !.dto.signature_algorithm = 7]}   \* unallocated
    /\ changes' = changes + 1
    /\ UNCHANGED << now, cert, signed, issued, accepted >>

\* The bytes arrive: the receiver has the certificate, or an error.
Receive ==
    /\ \E w \in wire :
         cert' = IF DecodeVerdict(w) = "Ok" THEN {Decoded(w)} ELSE {}
    /\ wire' = {}
    /\ UNCHANGED << now, signed, issued, accepted, changes >>

\* verify() accepts under a key the caller supplies; a refusal leaves no trace.
Accept(k) ==
    /\ \E c \in cert :
         /\ Verify(c, k, now) = "Ok"
         /\ accepted' = accepted \cup {[cert |-> c, key |-> k, at |-> now]}
    /\ UNCHANGED << now, cert, wire, signed, issued, changes >>

Tick ==
    /\ now + 1 \in Times /\ now' = now + 1
    /\ UNCHANGED << cert, wire, signed, issued, accepted, changes >>

Next ==
    \/ \E k \in PublicKeys : \/ \E f \in Inputs : Issue(k, f) \/ Mint(k, f)
                             \/ Accept(k)
    \/ Tamper \/ Send \/ Disturb \/ Receive \/ Tick

Spec == Init /\ [][Next]_vars

-----------------------------------------------------------------------------
(***************************************************************************)
(* Properties                                                              *)
(***************************************************************************)
\* Whatever is changed on the way, a certificate verify() accepts under a key
\* carries, field by field, what the owner of that key signed, and binds its
\* subject to its key and its issuer to the key (ADR-008).
AcceptedIsAuthentic ==
    \A v \in accepted :
      LET c == v.cert
      IN  /\ \E m \in signed : /\ m.by = v.key
                               /\ m.msg = << c.subject, c.public_key, c.capabilities,
                                             c.valid_from, c.valid_until, c.issuer >>
          /\ c.subject = NodeId(c.public_key) /\ c.issuer = NodeId(v.key)

\* What an accepted certificate answers about a capability is what its issuer
\* signed, positive and negative, though other codes in it are unknown to this
\* build and left out of the list of known ones (cert.rs:190-213).
CapabilityAnswersAreSigned ==
    \A v \in accepted : \E m \in signed :
      /\ m.by = v.key /\ m.msg = CanonicalBytes(v.cert)
      /\ \A a \in DOMAIN AlgCode :
           /\ HasCapability(v.cert, a) <=> \E i \in DOMAIN m.msg[3] : m.msg[3][i] = AlgCode[a]
           /\ HasCapability(v.cert, a) <=> a \in KnownCapabilities(v.cert)

\* No certificate is accepted at two times as far apart as the maximum
\* lifetime, whoever made it: it ages out, which stands in for revocation
\* (cert.rs:135-144, RSK-017-4).
AgesOut ==
    \A v, u \in accepted :
      v.cert = u.cert => u.at - v.at < MAX_CERT_LIFETIME_SECS

\* No temporal error is reported in preference to any other failure: it tells
\* of a genuine certificate of legal size and lifetime, for a well-formed key
\* (ADR-017, Certificate validation ordering; cert.rs:272-306).
TemporalVerdictComesLast ==
    \A c \in cert : \A k \in PublicKeys :
      Verify(c, k, now) \in {"NotYetValid", "Expired"} =>
        /\ [by |-> k, msg |-> CanonicalBytes(c)] \in signed
        /\ c.subject = NodeId(c.public_key) /\ c.issuer = NodeId(k)
        /\ Len(c.capabilities) <= MAX_CERT_CAPABILITIES
        /\ c.public_key \in PublicKeys
        /\ c.valid_from < c.valid_until
        /\ c.valid_until - c.valid_from <= MAX_CERT_LIFETIME_SECS

\* What sign() returns for an issuer who names itself is accepted throughout
\* its window, which is not empty: sign() and verify() agree.
SignedVerifies ==
    \A i \in issued :
      i.cert.issuer = NodeId(i.key) =>
        /\ i.cert.valid_from < i.cert.valid_until
        /\ \A t \in Times : Verify(i.cert, i.key, t) = "Ok" <=>
                              i.cert.valid_from <= t /\ t < i.cert.valid_until

\* Anything to_wire_bytes accepts, from_wire_bytes accepts and gives back
\* (ADR-017, Encode/decode symmetry).
EncodedDecodes ==
    \A c \in cert : EncodeVerdict(c) = "Ok" =>
      DecodeVerdict(Encoding(c)) = "Ok" /\ Decoded(Encoding(c)) = c

\* A certificate is accepted from one byte string only, the one to_wire_bytes
\* gives for it (ADR-017, Normative parsing rules 1 and 2).
OneEncoding ==
    \A w \in wire : DecodeVerdict(w) = "Ok" =>
      EncodeVerdict(Decoded(w)) = "Ok" /\ Encoding(Decoded(w)) = w
=============================================================================
