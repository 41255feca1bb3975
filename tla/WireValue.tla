------------------------------- MODULE WireValue -------------------------------
(***************************************************************************)
(* What a sender builds from AuthMessages: a message, or a transcript to   *)
(* sign, its fields set one at a time.  A message holds what its bounded   *)
(* types let be constructed; the arguments of AuthTranscriptV1::new are    *)
(* plain byte vectors.                                                     *)
(***************************************************************************)
EXTENDS AuthMessages

CONSTANT Settings(_, _)   \* what a field of a kind is set to

FieldsOf(kind) == IF kind = "Transcript" THEN TranscriptFields ELSE Fields(kind)

Settable(kind, field, x) ==
    IF kind = "Transcript" /\ field.type = "bytes" THEN x \in Seq(Byte) ELSE Holds(field, x)

ASSUME SettingsAssumption ==
    \A kind \in Kinds \cup {"Transcript"} : \A i \in DOMAIN FieldsOf(kind) :
      Settings(kind, i) # {} /\ \A x \in Settings(kind, i) : Settable(kind, FieldsOf(kind)[i], x)

\* The encoded size of a byte string of n bytes, and of a whole.
Sized(n) == Len(VarintBytes[n]) + n
Proof    == Len(VarintBytes[MAX_PROOF_SIGNATURES])
            + MAX_PROOF_SIGNATURES * (3 + Sized(MAX_SIGNATURE_BYTES))

\* The sizes of bounds.rs:38-56 leave room for all fields at their bounds.
ASSUME BudgetAssumption ==
    /\ 3 + Sized(NONCE_LEN) + Sized(MAX_CERTIFICATE_WIRE_BYTES) <= MAX_AUTH_INIT_BYTES
    /\ 3 + Sized(NONCE_LEN) + Sized(MAX_CERTIFICATE_WIRE_BYTES) + Proof
         <= MAX_AUTH_RESPONSE_BYTES
    /\ Proof <= MAX_AUTH_CONFIRM_BYTES
    /\ Sized(DOMAIN_LEN) + 3 + 3 + 1 + Sized(BINDING_LEN) + 2 * Sized(NODE_ID_LEN)
         + 2 * Sized(NONCE_LEN) + 2 * Sized(MAX_CERTIFICATE_WIRE_BYTES)
         <= MAX_AUTH_TRANSCRIPT_BYTES

VARIABLES kind, value

BuildInit ==
    /\ kind \in Kinds \cup {"Transcript"}
    /\ value = [i \in DOMAIN FieldsOf(kind) |-> CHOOSE x \in Settings(kind, i) : TRUE]

Set(i) == /\ \E x \in Settings(kind, i) : value' = [value EXCEPT ![i] = x]
          /\ UNCHANGED kind

BuildNext == \E i \in DOMAIN value : Set(i)

BuildSpec == BuildInit /\ [][BuildNext]_<< kind, value >>

\* Whatever to_bytes() accepts is received as it was sent, at every edge of
\* every bound, unless a signature carries a code that is in no registry:
\* from_bytes() acts on those codes and refuses them, where it leaves the
\* codes of a hello alone (ADR-017, Amendment 1).
SentIsReceived ==
    kind # "Transcript" =>
      LET e == ToBytes(kind, value)
      IN  Good(e) => FromBytes(kind, e.value) = IF Resolved(kind, value) THEN Ok(value)
                                             ELSE Failed("UnknownAlgorithm")

\* The bounds of the fields imply those of the whole: no message or transcript
\* whose fields could be constructed is refused for its size
\* (bounds.rs:38-56).
FieldBoundsSuffice ==
    IF kind = "Transcript"
    THEN NewTranscript(value) = "Ok" => Good(ToSigningBytes(value))
    ELSE ToBytes(kind, value) # Failed("MessageTooLarge")

\* The signing bytes of a transcript determine every field of it, the role
\* included: a signature over one is a signature over no other
\* (ADR-017, Field rationale).
SigningBytesAreUnambiguous ==
    kind = "Transcript" /\ NewTranscript(value) = "Ok" =>
      DecodeExact(TranscriptFields, ToSigningBytes(value).value) = Ok(value)
=============================================================================
