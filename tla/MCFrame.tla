------------------------------- MODULE MCFrame -------------------------------
(***************************************************************************)
(* The envelope under a byte stream: input is what a reader has buffered,  *)
(* and it grows by one byte at a time.  Alphabet and MaxInput bound it.    *)
(***************************************************************************)
EXTENDS Frame

CONSTANTS Alphabet, MaxInput

ASSUME AlphabetAssumption == Alphabet \subseteq Byte

VARIABLE input

InputInit == input = << >>
InputNext ==
  /\ Len(input) < MaxInput
  /\ \E b \in Alphabet : input' = Append(input, b)
InputSpec == InputInit /\ [][InputNext]_input

\* The envelope has one representation of a frame, and both sides have the same
\* limits: a beginning of the input is what encode() gives for a frame exactly
\* if decode_prefix() takes that frame out of the input, consuming just it.
EnvelopeIsCanonical ==
    \A n \in HEADER_LEN..Len(input) :
      LET f == [version |-> Major(input), message_type |-> Type(input),
                payload |-> SubSeq(input, HEADER_LEN + 1, n)]
      IN  Encode(f) = Bytes(SubSeq(input, 1, n)) <=> DecodePrefix(input) = Some(f, n)

\* decode() and decode_prefix() agree on the prefix that is the frame, and no
\* other prefix of the same input decodes.
OnePrefixDecodes ==
    \A n \in 0..Len(input) :
      LET r == DecodePrefix(input)
          d == Decode(SubSeq(input, 1, n))
      IN  d.tag = "Some" <=> (r.tag = "Some" /\ r.consumed = n)

\* A verdict is never revised when more bytes arrive, and an error is never
\* preceded by a wait past the header.
VerdictIsFinal ==
    [][LET r == DecodePrefix(input)
           q == DecodePrefix(input')
       IN  /\ r.tag # "None" => q = r
           /\ (r = None /\ q.tag = "Err") => Len(input') = HEADER_LEN]_input
=============================================================================
