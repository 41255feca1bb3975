-------------------------------- MODULE Frame --------------------------------
(***************************************************************************)
(* The frame envelope of crates/mw-proto: a header of eight bytes          *)
(*                                                                         *)
(*    version_major u16 | message_type u16 | payload_len u32  (big-endian) *)
(*                                                                         *)
(* followed by the payload.  A byte string is a sequence of 0..255.  A     *)
(* Result<Option<..>> is one of the records None, Err(e) and Some(f, n).   *)
(***************************************************************************)
EXTENDS Integers, Sequences

CONSTANT MAX_PAYLOAD_LEN   \* 16 MiB in the code

\* n can be written in a u32 field.
FitsU32(n) == ((n \div 256) \div 256) \div 256 < 256

\* The bound fits the u32 length field (encode's u32::try_from never fails).
ASSUME MaxPayloadAssumption ==
    MAX_PAYLOAD_LEN \in Nat /\ FitsU32(MAX_PAYLOAD_LEN)

HEADER_LEN == 8

Byte == 0..255
U16Max == 256 * 256 - 1
U16  == 0..U16Max

\* WireVersion::V1 is the only major this build speaks.
IsSupported(major) == major = 1

FrameSet == [version : U16, message_type : U16, payload : Seq(Byte)]

(***************************************************************************)
(* Known message types; the envelope carries any u16.                      *)
(***************************************************************************)
MessageTypes == {"Hello", "AuthInit", "AuthResponse", "AuthConfirm"}

AsU16(t) == CASE t = "Hello"        -> 1
              [] t = "AuthInit"     -> 2
              [] t = "AuthResponse" -> 3
              [] t = "AuthConfirm"  -> 4

FromU16(code) == {t \in MessageTypes : AsU16(t) = code}   \* empty: unknown

NewFrame(version, t, payload) ==
    [version |-> version, message_type |-> AsU16(t), payload |-> payload]

-----------------------------------------------------------------------------
(***************************************************************************)
(* Results                                                                 *)
(***************************************************************************)
None             == [tag |-> "None"]
Err(e)           == [tag |-> "Err", error |-> e]
Some(f, n)       == [tag |-> "Some", frame |-> f, consumed |-> n]
Bytes(b)         == [tag |-> "Bytes", bytes |-> b]

(***************************************************************************)
(* Encoding                                                                *)
(***************************************************************************)
BE16(n) == << n \div 256, n % 256 >>

BE32(n) == LET high == (n \div 256) \div 256
           IN  << high \div 256, high % 256, (n \div 256) % 256, n % 256 >>

Fits(f) == FitsU32(Len(f.payload))

Size(f) == HEADER_LEN + Len(f.payload)

\* The bytes encode() lays out once its checks have passed.
Layout(f) == BE16(f.version) \o BE16(f.message_type)
             \o BE32(Len(f.payload)) \o f.payload

\* Bug: the size limit is exclusive on the sending side only.
Bug_EncodeBelowLimit(f) ==
    IF ~IsSupported(f.version) THEN Err("UnsupportedWireVersion")
    ELSE IF Len(f.payload) >= MAX_PAYLOAD_LEN THEN Err("PayloadTooLarge")
    ELSE Bytes(Layout(f))

\* Frame::encode: the version is checked first, then the size; a rejected
\* frame yields no byte.
Encode(f) ==
    IF ~IsSupported(f.version) THEN Err("UnsupportedWireVersion")
    ELSE IF Len(f.payload) > MAX_PAYLOAD_LEN THEN Err("PayloadTooLarge")
    ELSE Bytes(Layout(f))

-----------------------------------------------------------------------------
(***************************************************************************)
(* Decoding                                                                *)
(***************************************************************************)
Major(b)    == b[1] * 256 + b[2]
Type(b)     == b[3] * 256 + b[4]
Declared(b) == ((b[5] * 256 + b[6]) * 256 + b[7]) * 256 + b[8]

\* Bug: the length is tested only once the payload has arrived.
Bug_LateLengthCheck(b) ==
    IF Len(b) < HEADER_LEN THEN None
    ELSE IF ~IsSupported(Major(b)) THEN Err("UnsupportedWireVersion")
    ELSE IF Len(b) < HEADER_LEN + Declared(b) THEN None
    ELSE IF Declared(b) > MAX_PAYLOAD_LEN THEN Err("PayloadTooLarge")
    ELSE Some([version |-> Major(b), message_type |-> Type(b),
               payload |-> SubSeq(b, HEADER_LEN + 1, HEADER_LEN + Declared(b))],
              HEADER_LEN + Declared(b))

\* Bug: every buffered byte is taken for the payload.
Bug_GreedyPayload(b) ==
    IF Len(b) < HEADER_LEN THEN None
    ELSE IF ~IsSupported(Major(b)) THEN Err("UnsupportedWireVersion")
    ELSE IF Declared(b) > MAX_PAYLOAD_LEN THEN Err("PayloadTooLarge")
    ELSE IF Len(b) < HEADER_LEN + Declared(b) THEN None
    ELSE Some([version |-> Major(b), message_type |-> Type(b),
               payload |-> SubSeq(b, HEADER_LEN + 1, Len(b))], Len(b))

\* Bug: a frame is given out only when a byte follows it.
Bug_OneByteMore(b) ==
    IF Len(b) < HEADER_LEN THEN None
    ELSE IF ~IsSupported(Major(b)) THEN Err("UnsupportedWireVersion")
    ELSE IF Declared(b) > MAX_PAYLOAD_LEN THEN Err("PayloadTooLarge")
    ELSE IF Len(b) <= HEADER_LEN + Declared(b) THEN None
    ELSE Some([version |-> Major(b), message_type |-> Type(b),
               payload |-> SubSeq(b, HEADER_LEN + 1, HEADER_LEN + Declared(b))],
              HEADER_LEN + Declared(b))

\* Bug: the size limit is exclusive on the receiving side only.
Bug_DecodeBelowLimit(b) ==
    IF Len(b) < HEADER_LEN THEN None
    ELSE IF ~IsSupported(Major(b)) THEN Err("UnsupportedWireVersion")
    ELSE IF Declared(b) >= MAX_PAYLOAD_LEN THEN Err("PayloadTooLarge")
    ELSE IF Len(b) < HEADER_LEN + Declared(b) THEN None
    ELSE Some([version |-> Major(b), message_type |-> Type(b),
               payload |-> SubSeq(b, HEADER_LEN + 1, HEADER_LEN + Declared(b))],
              HEADER_LEN + Declared(b))

\* Frame::decode_prefix: None asks the caller to buffer more; a header this
\* build cannot accept is an error as soon as its eight bytes are there.
DecodePrefix(b) ==
    IF Len(b) < HEADER_LEN THEN None
    ELSE IF ~IsSupported(Major(b)) THEN Err("UnsupportedWireVersion")
    ELSE IF Declared(b) > MAX_PAYLOAD_LEN THEN Err("PayloadTooLarge")
    ELSE IF Len(b) < HEADER_LEN + Declared(b) THEN None
    ELSE Some([version |-> Major(b), message_type |-> Type(b),
               payload |-> SubSeq(b, HEADER_LEN + 1, HEADER_LEN + Declared(b))],
              HEADER_LEN + Declared(b))

\* Frame::decode: exactly one frame, nothing after it.
Decode(b) ==
    LET r == DecodePrefix(b)
    IN  CASE r.tag = "Err"                           -> r
          [] r.tag = "Some" /\ r.consumed = Len(b)   -> r
          [] OTHER                                   -> Err("MalformedFrame")

\* A complete header that this build rejects.
Rejected(b) == DecodePrefix(b).tag = "Err"
=============================================================================
