------------------------------- MODULE WireCodec -------------------------------
(***************************************************************************)
(* The payload codec: postcard (external) under the bounded types and the  *)
(* strict decode of crates/mw-proto/src/bounded.rs.  A struct is the       *)
(* sequence of its field types, a value of it the sequence of its fields'  *)
(* values; there are no tags and no padding.                               *)
(***************************************************************************)
EXTENDS Integers, Sequences, SequencesExt

CONSTANT LenWidth   \* bytes of the varint of a usize, at most; 10 in the code

\* A usize holds every bound of the code, and more.
ASSUME WidthAssumption == LenWidth \in Nat /\ LenWidth >= 3

Byte      == 0..255
U16_MAX   == 65535
TWO_BYTES == 16383   \* the greatest number whose varint takes two bytes

U8  == [type |-> "u8"]
U16 == [type |-> "u16"]
BoundedBytes(max)      == [type |-> "bytes", max |-> max]
BoundedVec(max, items) == [type |-> "seq", max |-> max, items |-> items]

\* Results of a decoding step, and of a function that may fail.
Parsed(v, rest) == [verdict |-> "Ok", value |-> v, rest |-> rest]
Failed(e)       == [verdict |-> e]
Ok(v)           == [verdict |-> "Ok", value |-> v]
Good(r)         == r.verdict = "Ok"

-----------------------------------------------------------------------------
VarintBytes[n \in Nat] ==
    IF n < 128 THEN << n >>
    ELSE << 128 + (n % 128) >> \o VarintBytes[n \div 128]

\* The varint at the front of b: at most width bytes, the last of so many at
\* most top.  Leading zero groups are not refused: a number has many forms.
Varint(b, width, top) ==
    LET reader[w \in 0..width] ==
          [x \in Seq(Byte) |->
             IF w = 0 \/ x = << >> THEN Failed("MalformedWire")
             ELSE IF Head(x) < 128
             THEN IF w = 1 /\ Head(x) > top THEN Failed("MalformedWire")
                  ELSE Parsed(Head(x), Tail(x))
             ELSE LET more == reader[w - 1][Tail(x)]
                  IN  IF ~Good(more) THEN more
                      ELSE Parsed((Head(x) % 128) + 128 * more.value, more.rest)]
    IN  reader[width][b]

Length(b) == Varint(b, LenWidth, 1)

\* What BoundedBytes::new and BoundedVec::new let be constructed.
HoldsItem(field, v) ==
    CASE field.type = "u8"    -> v \in Byte
      [] field.type = "u16"   -> v \in 0..U16_MAX
      [] field.type = "bytes" -> v \in Seq(Byte) /\ Len(v) <= field.max

HoldsItems(items, v) ==
    /\ v = [i \in DOMAIN items |-> v[i]]
    /\ \A i \in DOMAIN items : HoldsItem(items[i], v[i])

Holds(field, v) ==
    IF field.type = "seq"
    THEN \E n \in 0..field.max : /\ v = [i \in 1..n |-> v[i]]
                                 /\ \A i \in 1..n : HoldsItems(field.items, v[i])
    ELSE HoldsItem(field, v)

\* Serialize.  The elements of a BoundedVec are themselves structs, of fields
\* that are no BoundedVec.
PutItem(field, v) ==
    CASE field.type = "u8"    -> << v >>
      [] field.type = "u16"   -> VarintBytes[v]
      [] field.type = "bytes" -> VarintBytes[Len(v)] \o v

PutItems(fields, v) == FlattenSeq([i \in DOMAIN fields |-> PutItem(fields[i], v[i])])

Put(field, v) ==
    IF field.type = "seq"
    THEN VarintBytes[Len(v)] \o FlattenSeq([i \in DOMAIN v |-> PutItems(field.items, v[i])])
    ELSE PutItem(field, v)

\* Bug: byte strings are written without their length.
Bug_RawBytes(fields, v) ==
    FlattenSeq([i \in DOMAIN fields |->
                  IF fields[i].type = "bytes" THEN v[i] ELSE Put(fields[i], v[i])])

\* postcard::to_allocvec.
ToAllocVec(fields, v) == FlattenSeq([i \in DOMAIN fields |-> Put(fields[i], v[i])])

\* Readers one after the other, each on what the one before left, up to a
\* failure.
InTurn(readers, b) ==
    LET after[i \in 0..Len(readers)] ==
          IF i = 0 THEN Parsed(<< >>, b)
          ELSE LET before == after[i - 1]
                   r      == readers[i][before.rest]
               IN  IF ~Good(before) THEN before
                   ELSE IF ~Good(r) THEN r
                   ELSE Parsed(Append(before.value, r.value), r.rest)
    IN  after[Len(readers)]

\* Deserialize.  The bytes of a BoundedBytes are there before its visitor sees
\* that they are too many.
TakeItem(field, b) ==
    CASE field.type = "u8"  -> IF b = << >> THEN Failed("MalformedWire")
                               ELSE Parsed(Head(b), Tail(b))
      [] field.type = "u16" -> Varint(b, 3, 3)
      [] field.type = "bytes" ->
           LET n == Length(b)
           IN  IF ~Good(n) THEN n
               ELSE IF n.value > Len(n.rest) THEN Failed("MalformedWire")
               ELSE IF n.value > field.max THEN Failed("BoundExceeded")
               ELSE Parsed(SubSeq(n.rest, 1, n.value),
                           SubSeq(n.rest, n.value + 1, Len(n.rest)))

ItemReader(field)  == [b \in Seq(Byte) |-> TakeItem(field, b)]
ItemsReader(items) == [b \in Seq(Byte) |->
                         InTurn([i \in DOMAIN items |-> ItemReader(items[i])], b)]

\* The count of a BoundedVec is refused before its first element.
TakeVec(field, b) ==
    LET n == Length(b)
    IN  IF ~Good(n) THEN n
        ELSE IF n.value > field.max THEN Failed("BoundExceeded")
        ELSE InTurn([i \in 1..n.value |-> ItemsReader(field.items)], n.rest)

Take(field, b) == IF field.type = "seq" THEN TakeVec(field, b) ELSE TakeItem(field, b)

TakeAll(fields, b) ==
    InTurn([i \in DOMAIN fields |-> [x \in Seq(Byte) |-> Take(fields[i], x)]], b)

\* Bug: what is left over is not looked at.
Bug_IgnoresRemainder(fields, b) ==
    LET r == TakeAll(fields, b)
    IN  IF ~Good(r) THEN r ELSE Ok(r.value)

\* decode_exact.
DecodeExact(fields, b) ==
    LET r == TakeAll(fields, b)
    IN  IF ~Good(r) THEN r
        ELSE IF r.rest # << >> THEN Failed("TrailingBytes")
        ELSE Ok(r.value)
=============================================================================
