------------------------------ MODULE MCWireInput ------------------------------
(***************************************************************************)
(* The decoders of AuthMessages under every input of a small alphabet: the *)
(* payload that is received, one byte longer at each step.  Alphabet and   *)
(* MaxInput bound it.                                                      *)
(***************************************************************************)
EXTENDS AuthMessages

CONSTANTS Alphabet, MaxInput

ASSUME AlphabetAssumption == Alphabet \subseteq Byte

TestDomain == << 7 >>

VARIABLES expected,   \* the kind of message the receiver waits for
          input,
          verdict   \* what from_bytes() says of the input

receiveVars == << expected, input, verdict >>

ReceiveInit == expected \in Kinds /\ input = << >> /\ verdict = FromBytes(expected, input)
ReceiveNext == /\ Len(input) < MaxInput
               /\ \E b \in Alphabet : input' = Append(input, b)
               /\ verdict' = FromBytes(expected, input')
               /\ UNCHANGED expected
ReceiveSpec == ReceiveInit /\ [][ReceiveNext]_receiveVars

\* An authentication message is accepted from one byte string, the one its
\* fields encode to.  A hello has others, all longer, and to_bytes() settles
\* on the one that decodes to the same codes (auth.rs:108-113; hello.rs:64-77).
AcceptedFromOneString ==
    Good(verdict) =>
      \E b \in {ToAllocVec(Fields(expected), verdict.value)} :
        \/ b = input
        \/ expected = "Hello" /\ Len(b) < Len(input) /\ FromBytes(expected, b) = verdict

\* Sending and receiving have the same limits.  Of a value any bytes decode to,
\* with a nonce of the exact length, to_bytes() gives bytes exactly if
\* from_bytes() has the value back from its encoding, or refuses it for a code
\* it does not know only; and what from_bytes() accepts can be sent on but for
\* a nonce of another length (auth.rs:115-226).
DecodedEncodes ==
    LET r     == DecodeExact(Fields(expected), input)
        e     == ToBytes(expected, r.value)
        back  == FromBytes(expected, ToAllocVec(Fields(expected), r.value))
        exact == expected \in {"AuthInit", "AuthResponse"} => Len(r.value[2]) = NONCE_LEN
    IN  Good(r) =>
          /\ exact => Good(e) <=> back = IF Resolved(expected, r.value) THEN r
                                         ELSE Failed("UnknownAlgorithm")
          /\ Good(verdict) => IF exact THEN Good(e) ELSE e = Failed("ExactLength")

\* No message is the beginning of another, and a declared length over its
\* bound is reported whatever follows it: bytes appended to a payload never
\* turn one accepted value, or one exceeded bound, into another verdict than
\* a refusal of the excess (bounded.rs:166-175, 490-497).
AppendedBytesAreRefused ==
    [][/\ Good(verdict) =>
            verdict' \in {Failed("TrailingBytes"), Failed("MessageTooLarge")}
       /\ verdict = Failed("BoundExceeded") =>
            verdict' \in {Failed("BoundExceeded"), Failed("MessageTooLarge")}]_receiveVars
=============================================================================
