------------------------------ MODULE AuthMessages ------------------------------
(***************************************************************************)
(* The payloads of crates/mw-proto: Hello (hello.rs), the three messages   *)
(* of the authentication exchange and the transcript both sides sign       *)
(* (auth.rs).  A message is the sequence of its fields' values, in the     *)
(* order of declaration.                                                   *)
(***************************************************************************)
EXTENDS WireCodec, AlgId, Checks

CONSTANTS NONCE_LEN, DOMAIN_LEN, NODE_ID_LEN, BINDING_LEN,   \* 32, 16, 34, 32
          MAX_SIGNATURE_BYTES, MAX_CERTIFICATE_WIRE_BYTES,
          MAX_PROOF_SIGNATURES, MAX_HELLO_ALGS,
          MAX_AUTH_INIT_BYTES, MAX_AUTH_RESPONSE_BYTES, MAX_AUTH_CONFIRM_BYTES,
          MAX_AUTH_TRANSCRIPT_BYTES,
          AUTH_TRANSCRIPT_DOMAIN_V1

\* A length takes two bytes of varint at most.
ASSUME BoundsAssumption ==
    { NONCE_LEN, DOMAIN_LEN, NODE_ID_LEN, BINDING_LEN, MAX_SIGNATURE_BYTES,
      MAX_CERTIFICATE_WIRE_BYTES, MAX_PROOF_SIGNATURES, MAX_HELLO_ALGS } \subseteq 0..TWO_BYTES

ASSUME DomainAssumption == /\ AUTH_TRANSCRIPT_DOMAIN_V1 \in Seq(Byte)
                           /\ Len(AUTH_TRANSCRIPT_DOMAIN_V1) = DOMAIN_LEN

ASSUME SizesAssumption == { MAX_AUTH_INIT_BYTES, MAX_AUTH_RESPONSE_BYTES,
                            MAX_AUTH_CONFIRM_BYTES, MAX_AUTH_TRANSCRIPT_BYTES } \subseteq Nat

Kinds == {"Hello", "AuthInit", "AuthResponse", "AuthConfirm"}

Nonce       == BoundedBytes(NONCE_LEN)
Certificate == BoundedBytes(MAX_CERTIFICATE_WIRE_BYTES)

\* Bug: a proof may be as long as a certificate.
Bug_LongProof(kind) ==
    LET proof == BoundedVec(MAX_PROOF_SIGNATURES, << U16, Certificate >>)
    IN  CASE kind = "Hello"        -> << BoundedVec(MAX_HELLO_ALGS, << U16 >>) >>
          [] kind = "AuthInit"     -> << U16, Nonce, Certificate >>
          [] kind = "AuthResponse" -> << U16, Nonce, Certificate, proof >>
          [] kind = "AuthConfirm"  -> << proof >>

Signatures == BoundedVec(MAX_PROOF_SIGNATURES,
                         << U16, BoundedBytes(MAX_SIGNATURE_BYTES) >>)

Fields(kind) ==
    CASE kind = "Hello"        -> << BoundedVec(MAX_HELLO_ALGS, << U16 >>) >>
      [] kind = "AuthInit"     -> << U16, Nonce, Certificate >>
      [] kind = "AuthResponse" -> << U16, Nonce, Certificate, Signatures >>
      [] kind = "AuthConfirm"  -> << Signatures >>

MaxSize(kind) == CASE kind = "AuthInit"     -> MAX_AUTH_INIT_BYTES
                   [] kind = "AuthResponse" -> MAX_AUTH_RESPONSE_BYTES
                   [] kind = "AuthConfirm"  -> MAX_AUTH_CONFIRM_BYTES

\* resolve_signature_algorithms: every code acted upon is in the registry.
Resolved(kind, v) ==
    kind \in {"AuthResponse", "AuthConfirm"} =>
      \A i \in DOMAIN Last(v) : AlgOf(Last(v)[i][1]) # {}

\* Bug: the limit on the whole is exclusive on the sending side.
Bug_EncodeBelowLimit(kind, v) ==
    LET b == ToAllocVec(Fields(kind), v)
    IN  IF kind = "Hello" THEN Ok(b)
        ELSE IF kind \in {"AuthInit", "AuthResponse"} /\ Len(v[2]) # NONCE_LEN
             THEN Failed("ExactLength")
        ELSE IF Len(b) >= MaxSize(kind) THEN Failed("MessageTooLarge")
        ELSE Ok(b)

\* to_bytes.  A nonce must have its exact length; decoding does not ask for it.
ToBytes(kind, v) ==
    LET b == ToAllocVec(Fields(kind), v)
    IN  IF kind = "Hello" THEN Ok(b)
        ELSE IF kind \in {"AuthInit", "AuthResponse"} /\ Len(v[2]) # NONCE_LEN
             THEN Failed("ExactLength")
        ELSE IF Len(b) > MaxSize(kind) THEN Failed("MessageTooLarge")
        ELSE Ok(b)

\* Bug: what decodes is not re-encoded and compared.
Bug_AnyEncoding(kind, b) ==
    LET r == DecodeExact(Fields(kind), b)
    IN  IF kind = "Hello" THEN r
        ELSE IF Len(b) > MaxSize(kind) THEN Failed("MessageTooLarge")
        ELSE IF Good(r) /\ ~Resolved(kind, r.value) THEN Failed("UnknownAlgorithm")
        ELSE r

\* Bug: the codes of a hello are resolved like those of a signature.
Bug_ResolveHello(kind, b) ==
    LET r == DecodeExact(Fields(kind), b)
    IN  IF kind # "Hello" /\ Len(b) > MaxSize(kind) THEN Failed("MessageTooLarge")
        ELSE IF ~Good(r) THEN r
        ELSE IF kind # "Hello" /\ ToAllocVec(Fields(kind), r.value) # b
             THEN Failed("NonCanonicalEncoding")
        ELSE IF \/ ~Resolved(kind, r.value)
                \/ kind = "Hello" /\ \E i \in DOMAIN r.value[1] : AlgOf(r.value[1][i][1]) = {}
             THEN Failed("UnknownAlgorithm")
        ELSE r

\* Bug: the limit on the whole is exclusive on the receiving side.
Bug_DecodeBelowLimit(kind, b) ==
    LET r == DecodeExact(Fields(kind), b)
    IN  IF kind = "Hello" THEN r
        ELSE IF Len(b) >= MaxSize(kind) THEN Failed("MessageTooLarge")
        ELSE IF ~Good(r) THEN r
        ELSE IF ToAllocVec(Fields(kind), r.value) # b THEN Failed("NonCanonicalEncoding")
        ELSE IF ~Resolved(kind, r.value) THEN Failed("UnknownAlgorithm")
        ELSE r

\* from_bytes: size, strict decode, canonical re-encoding, algorithms.  A
\* hello is only decoded: its codes are advice and may be unknown, its form
\* is not compared.
FromBytes(kind, b) ==
    LET r == DecodeExact(Fields(kind), b)
    IN  IF kind = "Hello" THEN r
        ELSE IF Len(b) > MaxSize(kind) THEN Failed("MessageTooLarge")
        ELSE IF ~Good(r) THEN r
        ELSE IF ToAllocVec(Fields(kind), r.value) # b THEN Failed("NonCanonicalEncoding")
        ELSE IF ~Resolved(kind, r.value) THEN Failed("UnknownAlgorithm")
        ELSE r

-----------------------------------------------------------------------------
(***************************************************************************)
(* AuthTranscriptV1                                                        *)
(***************************************************************************)
AUTH_ROLE_CLIENT == 1
AUTH_ROLE_SERVER == 2

\* domain, auth_version, auth_algorithm, role, channel_binding, the node ids,
\* nonces and certificates of client and server.
TranscriptFields ==
    << BoundedBytes(DOMAIN_LEN), U16, U16, U8, BoundedBytes(BINDING_LEN),
       BoundedBytes(NODE_ID_LEN), BoundedBytes(NODE_ID_LEN), Nonce, Nonce,
       Certificate, Certificate >>

\* BoundedBytes::new, then require_exact_len.
Exactly(x, n) == << Check(Len(x) <= n, "BoundExceeded"), Check(Len(x) = n, "ExactLength") >>

\* AuthTranscriptV1::new: "Ok", or the first error.
NewTranscript(v) ==
    Verdict(<< Check(v[4] \in {AUTH_ROLE_CLIENT, AUTH_ROLE_SERVER}, "InvalidAuthRole") >>
            \o Exactly(v[1], DOMAIN_LEN)
            \o << Check(v[1] = AUTH_TRANSCRIPT_DOMAIN_V1, "MalformedWire") >>
            \o Exactly(v[5], BINDING_LEN)
            \o Exactly(v[6], NODE_ID_LEN) \o Exactly(v[7], NODE_ID_LEN)
            \o Exactly(v[8], NONCE_LEN) \o Exactly(v[9], NONCE_LEN)
            \o << Check(Len(v[10]) <= MAX_CERTIFICATE_WIRE_BYTES, "BoundExceeded"),
                  Check(Len(v[11]) <= MAX_CERTIFICATE_WIRE_BYTES, "BoundExceeded") >>)

\* to_signing_bytes.
ToSigningBytes(v) ==
    LET b == ToAllocVec(TranscriptFields, v)
    IN  IF Len(b) > MAX_AUTH_TRANSCRIPT_BYTES THEN Failed("MessageTooLarge") ELSE Ok(b)
=============================================================================
