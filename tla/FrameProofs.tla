------------------------------ MODULE FrameProofs ------------------------------
(***************************************************************************)
(* Theorems about the frame envelope, for any payload limit: encode and    *)
(* decode_prefix invert one another (Frame), and what they say of a        *)
(* growing input, for any alphabet and length of it (MCFrame).             *)
(***************************************************************************)
EXTENDS MCFrame, SequenceTheorems, TLAPS

-----------------------------------------------------------------------------
(***************************************************************************)
(* Bytes of an integer                                                     *)
(***************************************************************************)

\* Quotient and remainder by 256 of a natural number.
LEMMA DivMod256 ==
    ASSUME NEW n \in Nat
    PROVE  /\ n \div 256 \in Nat
           /\ n % 256 \in Byte
           /\ n = (n \div 256) * 256 + (n % 256)
BY SMT DEF Byte

\* A number below 65536 has a quotient by 256 that is a byte.
LEMMA SmallDiv256 ==
    ASSUME NEW n \in Nat, n < 256 * 256
    PROVE  n \div 256 \in Byte
BY SMT DEF Byte

\* Division by 256 is monotone.
LEMMA DivMonotone ==
    ASSUME NEW m \in Nat, NEW n \in Nat, n <= m
    PROVE  n \div 256 <= m \div 256
BY SMT

\* Every length up to MAX_PAYLOAD_LEN fits the u32 length field.
LEMMA MaxPayloadFits ==
    ASSUME NEW n \in Nat, n <= MAX_PAYLOAD_LEN
    PROVE  FitsU32(n)
<1> DEFINE D(k) == k \div 256
<1> HIDE DEF D
<1>1. MAX_PAYLOAD_LEN \in Nat /\ D(D(D(MAX_PAYLOAD_LEN))) < 256
      BY MaxPayloadAssumption DEF D, FitsU32
<1>2. \A k \in Nat : D(k) \in Nat
      BY DivMod256 DEF D
<1>3. \A k, l \in Nat : k <= l => D(k) <= D(l)
      BY DivMonotone DEF D
<1>4. D(D(D(n))) <= D(D(D(MAX_PAYLOAD_LEN)))
      BY <1>1, <1>2, <1>3
<1>5. D(D(D(n))) < 256
      BY <1>1, <1>2, <1>4
<1> QED BY <1>5 DEF D, FitsU32

\* Two bytes, big-endian, are a u16.
LEMMA TwoByteRange ==
    ASSUME NEW a \in Byte, NEW c \in Byte
    PROVE  a * 256 + c \in U16
<1>1. a * 256 + c \in Nat
      BY SMT DEF Byte
<1>2. a * 256 + c <= U16Max /\ U16Max \in Nat
      BY SMT DEF Byte, U16Max
<1> QED BY <1>1, <1>2 DEF U16

\* Four bytes, big-endian, are a natural number.
LEMMA FourByteRange ==
    ASSUME NEW a \in Byte, NEW c \in Byte, NEW d \in Byte, NEW e \in Byte
    PROVE  ((a * 256 + c) * 256 + d) * 256 + e \in Nat
BY SMT DEF Byte

\* The encoding of a u16 is two bytes.
LEMMA BE16Type ==
    ASSUME NEW n \in U16
    PROVE  BE16(n) \in Seq(Byte) /\ Len(BE16(n)) = 2
<1>1. n \in Nat /\ n < 256 * 256
  <2>1. U16Max \in Nat /\ U16Max < 256 * 256
        BY SMT DEF U16Max
  <2> QED BY <2>1 DEF U16
<1>2. n \div 256 \in Byte /\ n % 256 \in Byte
      BY <1>1, DivMod256, SmallDiv256
<1> QED BY <1>2 DEF BE16

\* The encoding of a length that fits a u32 is four bytes.
LEMMA BE32Type ==
    ASSUME NEW n \in Nat, FitsU32(n)
    PROVE  BE32(n) \in Seq(Byte) /\ Len(BE32(n)) = 4
<1> DEFINE h == (n \div 256) \div 256
<1>1. h \in Nat /\ n % 256 \in Byte /\ (n \div 256) % 256 \in Byte
      BY DivMod256
<1>2. h \div 256 \in Nat /\ h % 256 \in Byte
      BY <1>1, DivMod256
<1>3. h \div 256 \in Byte
      BY <1>2 DEF FitsU32, Byte
<1>4. BE32(n) = << h \div 256, h % 256, (n \div 256) % 256, n % 256 >>
      BY DEF BE32
<1> HIDE DEF h
<1> QED BY <1>1, <1>2, <1>3, <1>4

-----------------------------------------------------------------------------
\* encode() lays out bytes, a header and a payload of them.
LEMMA LayoutType ==
    ASSUME NEW f \in FrameSet, Fits(f)
    PROVE  /\ Layout(f) \in Seq(Byte)
           /\ Len(Layout(f)) = Size(f)
           /\ Size(f) \in Nat /\ Size(f) >= HEADER_LEN
<1>1. f.version \in U16 /\ f.message_type \in U16 /\ f.payload \in Seq(Byte)
      BY DEF FrameSet
<1>2. Len(f.payload) \in Nat /\ FitsU32(Len(f.payload))
      BY <1>1 DEF Fits
<1> DEFINE v == BE16(f.version)
           t == BE16(f.message_type)
           l == BE32(Len(f.payload))
           p == f.payload
<1>3. v \in Seq(Byte) /\ t \in Seq(Byte) /\ l \in Seq(Byte) /\ p \in Seq(Byte)
      BY <1>1, <1>2, BE16Type, BE32Type
<1>4. Len(v) = 2 /\ Len(t) = 2 /\ Len(l) = 4
      BY <1>1, <1>2, BE16Type, BE32Type
<1>5. Layout(f) = ((v \o t) \o l) \o p /\ Size(f) = 8 + Len(p)
      BY DEF Layout, Size, HEADER_LEN
<1>6. Len(p) \in Nat
      BY <1>2
<1> HIDE DEF v, t, l, p
<1>7. v \o t \in Seq(Byte) /\ Len(v \o t) = Len(v) + Len(t)
      BY <1>3, ConcatProperties
<1>8. /\ (v \o t) \o l \in Seq(Byte)
      /\ Len((v \o t) \o l) = Len(v \o t) + Len(l)
      BY <1>3, <1>7, ConcatProperties
<1>9. /\ ((v \o t) \o l) \o p \in Seq(Byte)
      /\ Len(((v \o t) \o l) \o p) = Len((v \o t) \o l) + Len(p)
      BY <1>3, <1>8, ConcatProperties
<1>10. Len(Layout(f)) = 8 + Len(p)
       BY <1>4, <1>5, <1>6, <1>7, <1>8, <1>9
<1> QED BY <1>5, <1>6, <1>9, <1>10 DEF HEADER_LEN

\* What a header of eight bytes says is in range.
LEMMA DeclaredType ==
    ASSUME NEW b \in Seq(Byte), Len(b) >= HEADER_LEN
    PROVE  Declared(b) \in Nat
<1> DEFINE x == b[5]
           y == b[6]
           z == b[7]
           w == b[8]
<1>1. Declared(b) = ((x * 256 + y) * 256 + z) * 256 + w
      BY DEF Declared
<1>2. x \in Byte /\ y \in Byte /\ z \in Byte /\ w \in Byte
      BY DEF HEADER_LEN
<1> HIDE DEF x, y, z, w
<1> QED BY <1>1, <1>2, FourByteRange

\* A frame decode_prefix gives out is a frame, within the limit, and lies
\* within the buffer.
LEMMA DecodeType ==
    ASSUME NEW b \in Seq(Byte), DecodePrefix(b).tag = "Some"
    PROVE  /\ DecodePrefix(b).frame \in FrameSet
           /\ Len(DecodePrefix(b).frame.payload) <= MAX_PAYLOAD_LEN
           /\ DecodePrefix(b).consumed = Size(DecodePrefix(b).frame)
           /\ DecodePrefix(b).consumed \in HEADER_LEN..Len(b)
<1> DEFINE d == Declared(b)
           p == SubSeq(b, HEADER_LEN + 1, HEADER_LEN + d)
           f == [version |-> Major(b), message_type |-> Type(b), payload |-> p]
<1>1. /\ ~(Len(b) < HEADER_LEN)
      /\ ~(d > MAX_PAYLOAD_LEN)
      /\ ~(Len(b) < HEADER_LEN + d)
      /\ DecodePrefix(b) = Some(f, HEADER_LEN + d)
      BY DEF DecodePrefix, None, Err
<1>2. Len(b) \in Nat /\ Len(b) >= 8
      BY <1>1 DEF HEADER_LEN
<1>3. /\ b[1] \in Byte /\ b[2] \in Byte /\ b[3] \in Byte /\ b[4] \in Byte
      /\ b[5] \in Byte /\ b[6] \in Byte /\ b[7] \in Byte /\ b[8] \in Byte
      BY <1>2
<1>4. d \in Nat
      BY <1>2, DeclaredType DEF HEADER_LEN
<1>5. Major(b) \in U16 /\ Type(b) \in U16
      BY <1>3, TwoByteRange DEF Major, Type
<1>6. HEADER_LEN + d <= Len(b) /\ d <= MAX_PAYLOAD_LEN
      BY <1>1, <1>2, <1>4, MaxPayloadAssumption DEF HEADER_LEN
<1>7. p \in Seq(Byte) /\ Len(p) = d
      BY <1>2, <1>4, <1>6 DEF HEADER_LEN
<1>8. f \in FrameSet
      BY <1>5, <1>7 DEF FrameSet
<1>9. /\ DecodePrefix(b).frame = f
      /\ DecodePrefix(b).consumed = HEADER_LEN + d
      BY <1>1 DEF Some
<1>10. f.payload = p
      OBVIOUS
<1> HIDE DEF d, p, f
<1> QED BY <1>2, <1>4, <1>6, <1>7, <1>8, <1>9, <1>10 DEF Size, HEADER_LEN

\* The branches of decode_prefix.
LEMMA DecodeCases ==
    ASSUME NEW b
    PROVE  \/ DecodePrefix(b) = None
           \/ DecodePrefix(b) = Err("UnsupportedWireVersion")
           \/ DecodePrefix(b) = Err("PayloadTooLarge")
           \/ DecodePrefix(b).tag = "Some" /\ DecodePrefix(b) # None
BY DEF DecodePrefix, None, Some

\* Bytes that arrive after the header do not change what it says.
LEMMA HeaderKept ==
    ASSUME NEW b \in Seq(Byte), NEW s \in Seq(Byte), Len(b) >= HEADER_LEN
    PROVE  Major(b \o s) = Major(b) /\ Declared(b \o s) = Declared(b)
<1> DEFINE c == b \o s
<1>1. \A i \in 1..8 : c[i] = b[i]
      BY DEF HEADER_LEN
<1> HIDE DEF c
<1>2. /\ c[1] = b[1] /\ c[2] = b[2] /\ c[5] = b[5] /\ c[6] = b[6]
      /\ c[7] = b[7] /\ c[8] = b[8]
      BY <1>1
<1>3. Major(c) = Major(b) /\ Declared(c) = Declared(b)
      BY <1>2, SMTT(30) DEF Major, Declared
<1> QED BY <1>3 DEF c

\* A buffer decode_prefix asks to extend is shorter than its header, or its
\* header is acceptable and the payload is not all there.
LEMMA DecodeNone ==
    ASSUME NEW b \in Seq(Byte), DecodePrefix(b) = None, Len(b) >= HEADER_LEN
    PROVE  /\ IsSupported(Major(b)) /\ Declared(b) <= MAX_PAYLOAD_LEN
           /\ Len(b) < HEADER_LEN + Declared(b)
<1>1. Declared(b) \in Nat /\ Len(b) \in Nat
      BY DeclaredType
<1>2. ~(Len(b) < HEADER_LEN)
      BY <1>1 DEF HEADER_LEN
<1>3. /\ IsSupported(Major(b)) /\ ~(Declared(b) > MAX_PAYLOAD_LEN)
      /\ Len(b) < HEADER_LEN + Declared(b)
      BY <1>2 DEF DecodePrefix, None, Err, Some
<1> QED BY <1>1, <1>3, MaxPayloadAssumption

-----------------------------------------------------------------------------
(***************************************************************************)
(* decode_prefix inverts encode                                            *)
(***************************************************************************)
Encodable(f) == IsSupported(f.version) /\ Len(f.payload) <= MAX_PAYLOAD_LEN

\* b begins with the bytes of f, as far as both go.
Agree(b, f) == \A k \in 1..Len(b) : k <= Size(f) => b[k] = Layout(f)[k]

\* The frames encode() accepts are the encodable ones.
LEMMA EncodeAccepts ==
    ASSUME NEW f \in FrameSet
    PROVE  Encode(f).tag = "Bytes" <=> Encodable(f)
<1>1. Len(f.payload) \in Nat
      BY DEF FrameSet
<1> QED BY <1>1, MaxPayloadAssumption DEF Encode, Err, Bytes, Encodable

\* The bytes of a u16 give it back.
LEMMA BE16Inverse ==
    ASSUME NEW n \in U16
    PROVE  BE16(n)[1] * 256 + BE16(n)[2] = n
<1>1. n \in Nat
  <2>1. U16Max \in Nat
        BY SMT DEF U16Max
  <2> QED BY <2>1 DEF U16
<1>2. BE16(n)[1] = n \div 256 /\ BE16(n)[2] = n % 256
      BY DEF BE16
<1> QED BY <1>1, <1>2, DivMod256

\* The four bytes of a length give it back.
LEMMA BE32Inverse ==
    ASSUME NEW n \in Nat
    PROVE  ((BE32(n)[1] * 256 + BE32(n)[2]) * 256 + BE32(n)[3]) * 256 + BE32(n)[4] = n
<1> DEFINE g == n \div 256
           h == g \div 256
           a == h \div 256
           b == h % 256
           c == g % 256
           d == n % 256
<1>1. BE32(n)[1] = a /\ BE32(n)[2] = b /\ BE32(n)[3] = c /\ BE32(n)[4] = d
      BY DEF BE32
<1>2. g \in Nat /\ n = g * 256 + d
      BY DivMod256
<1>3. h \in Nat /\ g = h * 256 + c
      BY <1>2, DivMod256
<1>4. h = a * 256 + b
      BY <1>3, DivMod256
<1> HIDE DEF a, b, c, d, g, h
<1> QED BY <1>1, <1>2, <1>3, <1>4, Zenon

\* The elements of a concatenation, first part and second part.
LEMMA ConcatIndex ==
    ASSUME NEW s \in Seq(Byte), NEW t \in Seq(Byte), NEW m \in Nat, m = Len(s)
    PROVE  /\ s \o t \in Seq(Byte) /\ Len(s \o t) = m + Len(t)
           /\ \A i \in 1..m : (s \o t)[i] = s[i]
           /\ \A i \in 1..Len(t) : (s \o t)[m + i] = t[i]
<1>1. Len(s) \in Nat /\ Len(t) \in Nat
      OBVIOUS
<1>2. s \o t \in Seq(Byte) /\ Len(s \o t) = m + Len(t)
      BY ConcatProperties
<1>3. \A i \in 1..m : (s \o t)[i] = s[i]
      BY <1>1
<1>4. \A i \in 1..Len(t) : (s \o t)[m + i] = t[i]
      BY <1>1
<1> QED BY <1>2, <1>3, <1>4

\* Where encode() puts the fields.
LEMMA LayoutFields ==
    ASSUME NEW f \in FrameSet, Fits(f)
    PROVE  /\ Layout(f)[1] = BE16(f.version)[1]
           /\ Layout(f)[2] = BE16(f.version)[2]
           /\ Layout(f)[3] = BE16(f.message_type)[1]
           /\ Layout(f)[4] = BE16(f.message_type)[2]
           /\ Layout(f)[5] = BE32(Len(f.payload))[1]
           /\ Layout(f)[6] = BE32(Len(f.payload))[2]
           /\ Layout(f)[7] = BE32(Len(f.payload))[3]
           /\ Layout(f)[8] = BE32(Len(f.payload))[4]
           /\ \A k \in 1..Len(f.payload) : Layout(f)[8 + k] = f.payload[k]
<1>1. f.version \in U16 /\ f.message_type \in U16 /\ f.payload \in Seq(Byte)
      BY DEF FrameSet
<1> DEFINE v == BE16(f.version)
           t == BE16(f.message_type)
           l == BE32(Len(f.payload))
           p == f.payload
           x == v \o t
           y == x \o l
<1>2. /\ v \in Seq(Byte) /\ t \in Seq(Byte) /\ l \in Seq(Byte) /\ p \in Seq(Byte)
      /\ Len(v) = 2 /\ Len(t) = 2 /\ Len(l) = 4 /\ Len(p) \in Nat
      BY <1>1, BE16Type, BE32Type DEF Fits
<1>3. Layout(f) = y \o p
      BY DEF Layout
<1> HIDE DEF v, t, l, p
<1>4. /\ x \in Seq(Byte) /\ Len(x) = 4
      /\ x[1] = v[1] /\ x[2] = v[2] /\ x[3] = t[1] /\ x[4] = t[2]
  <2>1. /\ x \in Seq(Byte) /\ Len(x) = 2 + Len(t)
        /\ \A i \in 1..2 : x[i] = v[i]
        /\ \A i \in 1..Len(t) : x[2 + i] = t[i]
        BY <1>2, 2 \in Nat, ConcatIndex, ZenonT(40)
  <2> HIDE DEF x
  <2> QED BY <1>2, <2>1
<1> HIDE DEF x
<1>5. /\ y \in Seq(Byte) /\ Len(y) = 8
      /\ \A k \in 1..4 : y[k] = x[k]
      /\ y[5] = l[1] /\ y[6] = l[2] /\ y[7] = l[3] /\ y[8] = l[4]
  <2>1. /\ y \in Seq(Byte) /\ Len(y) = 4 + Len(l)
        /\ \A i \in 1..4 : y[i] = x[i]
        /\ \A i \in 1..Len(l) : y[4 + i] = l[i]
        BY <1>2, <1>4, 4 \in Nat, ConcatIndex, Zenon
  <2> HIDE DEF y
  <2> QED BY <1>2, <2>1
<1> HIDE DEF y
<1>6. /\ \A k \in 1..8 : (y \o p)[k] = y[k]
      /\ \A k \in 1..Len(p) : (y \o p)[8 + k] = p[k]
  <2>1. y \in Seq(Byte) /\ p \in Seq(Byte) /\ 8 \in Nat /\ 8 = Len(y)
        BY <1>2, <1>5
  <2> QED BY <2>1, ConcatIndex, Zenon
<1>7. /\ Layout(f)[1] = v[1] /\ Layout(f)[2] = v[2] /\ Layout(f)[3] = t[1]
      /\ Layout(f)[4] = t[2]
  <2>1. \A k \in 1..8 : Layout(f)[k] = y[k]
        BY <1>3, <1>6
  <2>2. \A k \in 1..4 : Layout(f)[k] = x[k]
        BY <1>5, <2>1
  <2> QED BY <1>4, <2>2
<1>8. /\ Layout(f)[5] = l[1] /\ Layout(f)[6] = l[2] /\ Layout(f)[7] = l[3]
      /\ Layout(f)[8] = l[4]
  <2>1. \A k \in 1..8 : Layout(f)[k] = y[k]
        BY <1>3, <1>6
  <2> QED BY <1>5, <2>1
<1>9. \A k \in 1..Len(p) : Layout(f)[8 + k] = p[k]
      BY <1>3, <1>6
<1> QED BY <1>7, <1>8, <1>9 DEF v, t, l, p

\* A buffer that holds the header of f reads as that header.
LEMMA HeaderOf ==
    ASSUME NEW f \in FrameSet, Encodable(f), NEW b \in Seq(Byte),
           Len(b) >= HEADER_LEN, Agree(b, f)
    PROVE  /\ Major(b) = f.version /\ Type(b) = f.message_type
           /\ Declared(b) = Len(f.payload)
<1>1. /\ f.version \in U16 /\ f.message_type \in U16 /\ Len(f.payload) \in Nat
      BY DEF FrameSet
<1>2. Fits(f)
      BY <1>1, MaxPayloadFits DEF Fits, Encodable
<1>3. \A k \in 1..8 : b[k] = Layout(f)[k]
  <2>1. Size(f) \in Nat /\ Size(f) >= 8
        BY <1>2, LayoutType DEF HEADER_LEN
  <2> QED BY <2>1 DEF Agree, HEADER_LEN
<1>4. /\ b[1] = BE16(f.version)[1] /\ b[2] = BE16(f.version)[2]
      /\ b[3] = BE16(f.message_type)[1] /\ b[4] = BE16(f.message_type)[2]
      /\ b[5] = BE32(Len(f.payload))[1] /\ b[6] = BE32(Len(f.payload))[2]
      /\ b[7] = BE32(Len(f.payload))[3] /\ b[8] = BE32(Len(f.payload))[4]
      BY <1>2, <1>3, LayoutFields
<1>5. Major(b) = f.version
      BY <1>1, <1>4, BE16Inverse, SMTT(30) DEF Major
<1>6. Type(b) = f.message_type
      BY <1>1, <1>4, BE16Inverse, SMTT(30) DEF Type
<1>7. Declared(b) = Len(f.payload)
      BY <1>1, <1>4, BE32Inverse, SMTT(30) DEF Declared
<1> QED BY <1>5, <1>6, <1>7

\* decode_prefix finds a frame encode() laid out, whatever follows it.
LEMMA DecodeWhole ==
    ASSUME NEW f \in FrameSet, Encodable(f), NEW b \in Seq(Byte),
           Len(b) >= Size(f), Agree(b, f)
    PROVE  DecodePrefix(b) = Some(f, Size(f))
<1> DEFINE n == Len(f.payload)
<1>1. n \in Nat /\ f.payload \in Seq(Byte) /\ Len(b) \in Nat
      /\ f = [version |-> f.version, message_type |-> f.message_type,
              payload |-> f.payload]
      BY DEF FrameSet
<1>2. Fits(f) /\ Size(f) = 8 + n /\ n <= MAX_PAYLOAD_LEN
      BY <1>1, MaxPayloadFits DEF Fits, Encodable, Size, HEADER_LEN
<1>3. Len(b) >= HEADER_LEN
      BY <1>1, <1>2 DEF HEADER_LEN
<1>4. Major(b) = f.version /\ Type(b) = f.message_type /\ Declared(b) = n
      BY <1>3, HeaderOf
<1> DEFINE q == SubSeq(b, 9, 8 + n)
<1>5. q = f.payload
  <2>1. \A k \in 1..n : b[8 + k] = f.payload[k]
    <3> SUFFICES ASSUME NEW k \in 1..n PROVE b[8 + k] = f.payload[k]
        OBVIOUS
    <3>1. b[8 + k] = Layout(f)[8 + k]
      <4>1. 8 + k \in 1..Len(b) /\ 8 + k <= Size(f)
            BY <1>1, <1>2
      <4> QED BY <4>1 DEF Agree
    <3> QED BY <1>2, <3>1, LayoutFields
  <2>2. \A i \in 9..8 + n : b[i] \in Byte
        BY <1>1, <1>2
  <2>3. /\ q \in Seq(Byte) /\ Len(q) = n
        /\ \A k \in 1..n : q[k] = b[8 + k]
        BY <1>1, <2>2, SubSeqProperties
  <2> HIDE DEF q
  <2> QED BY <1>1, <2>1, <2>3, SeqEqual
<1> HIDE DEF q
<1>6. DecodePrefix(b) = Some([version |-> f.version, message_type |-> f.message_type,
                              payload |-> q], 8 + n)
  <2>1. SubSeq(b, HEADER_LEN + 1, HEADER_LEN + n) = q
        BY DEF HEADER_LEN, q
  <2>2. /\ ~(Len(b) < HEADER_LEN) /\ IsSupported(Major(b))
        /\ ~(Declared(b) > MAX_PAYLOAD_LEN) /\ ~(Len(b) < HEADER_LEN + Declared(b))
        BY <1>1, <1>2, <1>3, <1>4, MaxPayloadAssumption DEF HEADER_LEN, Encodable
  <2>3. DecodePrefix(b) = Some([version |-> Major(b), message_type |-> Type(b),
                                payload |-> SubSeq(b, HEADER_LEN + 1, HEADER_LEN + Declared(b))],
                               HEADER_LEN + Declared(b))
        BY <2>2, Zenon DEF DecodePrefix
  <2> QED BY <1>4, <2>1, <2>3 DEF HEADER_LEN
<1> QED BY <1>1, <1>2, <1>5, <1>6

\* decode_prefix asks for more of a frame encode() laid out until it is whole.
LEMMA DecodePart ==
    ASSUME NEW f \in FrameSet, Encodable(f), NEW b \in Seq(Byte),
           Len(b) < Size(f), Agree(b, f)
    PROVE  DecodePrefix(b) = None
<1>1. Len(f.payload) \in Nat /\ Len(b) \in Nat /\ Size(f) = HEADER_LEN + Len(f.payload)
      BY DEF FrameSet, Size
<1>2. CASE Len(b) < HEADER_LEN
      BY <1>2 DEF DecodePrefix
<1>3. CASE Len(b) >= HEADER_LEN
  <2>1. Major(b) = f.version /\ Declared(b) = Len(f.payload)
        BY <1>3, HeaderOf
  <2>2. /\ ~(Len(b) < HEADER_LEN) /\ IsSupported(Major(b))
        /\ ~(Declared(b) > MAX_PAYLOAD_LEN) /\ Len(b) < HEADER_LEN + Declared(b)
        BY <1>1, <1>3, <2>1, MaxPayloadAssumption DEF HEADER_LEN, Encodable
  <2> QED BY <2>2 DEF DecodePrefix
<1> QED BY <1>1, <1>2, <1>3 DEF HEADER_LEN

\* Of the bytes encode() gives for a frame, with anything behind them,
\* decode_prefix() makes that frame and consumes exactly those bytes; of the
\* bytes alone decode() makes the same; of a proper beginning of them
\* decode_prefix() makes nothing yet (frame.rs:116-198).
THEOREM EncodedFrameDecodes ==
    ASSUME NEW f \in FrameSet, Encode(f).tag = "Bytes"
    PROVE  LET e == Encode(f).bytes
           IN  /\ \A rest \in Seq(Byte) : DecodePrefix(e \o rest) = Some(f, Len(e))
               /\ Decode(e) = Some(f, Len(e))
               /\ \A n \in 0..Len(e) - 1 : DecodePrefix(SubSeq(e, 1, n)) = None
<1> DEFINE e == Encode(f).bytes
<1>1. Encodable(f) /\ e = Layout(f)
      BY EncodeAccepts DEF Encode, Err, Bytes
<1>2. Fits(f)
      BY <1>1, MaxPayloadFits DEF Fits, Encodable, FrameSet
<1>3. e \in Seq(Byte) /\ Len(e) = Size(f) /\ Size(f) \in Nat
      BY <1>1, <1>2, LayoutType
<1> HIDE DEF e
<1>4. ASSUME NEW rest \in Seq(Byte)
      PROVE  DecodePrefix(e \o rest) = Some(f, Len(e))
  <2> DEFINE b == e \o rest
  <2>1. /\ b \in Seq(Byte) /\ Len(b) = Len(e) + Len(rest)
        /\ \A k \in 1..Len(e) : b[k] = e[k]
        BY <1>3, ConcatIndex
  <2> HIDE DEF b
  <2>2. Len(b) >= Size(f) /\ Agree(b, f)
        BY <1>1, <1>3, <2>1 DEF Agree
  <2>3. DecodePrefix(b) = Some(f, Size(f))
        BY <1>1, <2>1, <2>2, DecodeWhole
  <2> QED BY <1>3, <2>3 DEF b
<1>5. Decode(e) = Some(f, Len(e))
  <2>1. Agree(e, f) /\ Len(e) >= Size(f)
        BY <1>1, <1>3 DEF Agree
  <2>2. DecodePrefix(e) = Some(f, Size(f))
        BY <1>1, <1>3, <2>1, DecodeWhole
  <2> QED BY <1>3, <2>2 DEF Decode, Some
<1>6. ASSUME NEW n \in 0..Len(e) - 1
      PROVE  DecodePrefix(SubSeq(e, 1, n)) = None
  <2> DEFINE b == SubSeq(e, 1, n)
  <2>1. /\ b \in Seq(Byte) /\ Len(b) = n /\ n < Size(f)
        /\ \A k \in 1..n : b[k] = e[k]
        BY <1>3
  <2> HIDE DEF b
  <2>2. Agree(b, f)
        BY <1>1, <2>1 DEF Agree
  <2>3. DecodePrefix(b) = None
        BY <1>1, <2>1, <2>2, DecodePart
  <2> QED BY <2>3 DEF b
<1> QED BY <1>4, <1>5, <1>6 DEF e

-----------------------------------------------------------------------------
(***************************************************************************)
(* encode inverts decode_prefix                                            *)
(***************************************************************************)
\* A byte behind a number is its remainder, the number its quotient.
LEMMA PushByte ==
    ASSUME NEW n \in Nat, NEW x \in Byte
    PROVE  /\ n * 256 + x \in Nat
           /\ (n * 256 + x) \div 256 = n /\ (n * 256 + x) % 256 = x
BY SMT DEF Byte

\* The bytes of the declared length are those of the header.
LEMMA DeclaredBytes ==
    ASSUME NEW b \in Seq(Byte), Len(b) >= HEADER_LEN
    PROVE  BE32(Declared(b)) = << b[5], b[6], b[7], b[8] >>
<1> DEFINE x == b[5]
           y == b[6]
           z == b[7]
           w == b[8]
<1>0. x \in Byte /\ y \in Byte /\ z \in Byte /\ w \in Byte
      BY DEF HEADER_LEN
<1> DEFINE P(n, v) == n * 256 + v
           Q(n) == n \div 256
           R(n) == n % 256
           k == P(x, y)
           m == P(k, z)
           n == P(m, w)
<1>1. \A i \in Nat, v \in Byte : P(i, v) \in Nat /\ Q(P(i, v)) = i /\ R(P(i, v)) = v
  <2>1. \A i \in Nat, v \in Byte : P(i, v) \in Nat
        BY PushByte, ZenonT(40)
  <2>2. \A i \in Nat, v \in Byte : Q(P(i, v)) = i
        BY PushByte, SMTT(30)
  <2>3. \A i \in Nat, v \in Byte : R(P(i, v)) = v
        BY PushByte, ZenonT(40)
  <2> QED BY <2>1, <2>2, <2>3
<1>2. x \in Nat
  <2>1. \A v \in Byte : v \in Nat
        BY DEF Byte
  <2> QED BY <1>0, <2>1, Zenon
<1>3. BE32(n) = << Q(Q(Q(n))), R(Q(Q(n))), R(Q(n)), R(n) >>
      BY DEF BE32
<1>4. Declared(b) = n
      BY DEF Declared
<1> HIDE DEF P, Q, R, x, y, z, w
<1>5. k \in Nat /\ Q(k) = x /\ R(k) = y
      BY <1>0, <1>1, <1>2
<1>6. m \in Nat /\ Q(m) = k /\ R(m) = z
      BY <1>0, <1>1, <1>5
<1>7. Q(n) = m /\ R(n) = w
      BY <1>0, <1>1, <1>6
<1>8. BE32(n) = << x, y, z, w >>
      BY <1>3, <1>5, <1>6, <1>7
<1> QED BY <1>4, <1>8 DEF x, y, z, w

\* The bytes of the number that two bytes make are those bytes.
LEMMA BytesOfU16 ==
    ASSUME NEW x \in Byte, NEW y \in Byte
    PROVE  BE16(x * 256 + y) = << x, y >>
<1>1. x \in Nat
      BY DEF Byte
<1>2. (x * 256 + y) \div 256 = x
      BY <1>1, PushByte, SMTT(30)
<1>3. (x * 256 + y) % 256 = y
      BY SMT DEF Byte
<1> QED BY <1>2, <1>3 DEF BE16

\* A frame decode_prefix gives out is encodable, and the bytes it was made of
\* are its layout.
LEMMA DecodedLayout ==
    ASSUME NEW b \in Seq(Byte), DecodePrefix(b).tag = "Some"
    PROVE  LET f == DecodePrefix(b).frame
           IN  /\ Encodable(f) /\ Size(f) <= Len(b)
               /\ \A k \in 1..Size(f) : b[k] = Layout(f)[k]
<1> DEFINE f == DecodePrefix(b).frame
           d == Declared(b)
           p == SubSeq(b, HEADER_LEN + 1, HEADER_LEN + d)
<1>1. /\ f \in FrameSet /\ Len(f.payload) <= MAX_PAYLOAD_LEN
      /\ DecodePrefix(b).consumed = Size(f)
      /\ Size(f) \in HEADER_LEN..Len(b)
      BY DecodeType
<1>2. /\ ~(Len(b) < HEADER_LEN) /\ IsSupported(Major(b))
      /\ DecodePrefix(b) = Some([version |-> Major(b), message_type |-> Type(b),
                                 payload |-> p], HEADER_LEN + d)
      BY DEF DecodePrefix, None, Err
<1>3. /\ f.version = Major(b) /\ f.message_type = Type(b) /\ f.payload = p
      /\ Size(f) = HEADER_LEN + d
      BY <1>1, <1>2 DEF Some
<1>4. Len(b) \in Nat /\ Len(b) >= 8
      BY <1>2 DEF HEADER_LEN
<1>5. /\ b[1] \in Byte /\ b[2] \in Byte /\ b[3] \in Byte /\ b[4] \in Byte
      /\ b[5] \in Byte /\ b[6] \in Byte /\ b[7] \in Byte /\ b[8] \in Byte
      BY <1>4
<1>6. d \in Nat /\ HEADER_LEN + d <= Len(b)
      BY <1>1, <1>3, <1>4, DeclaredType DEF HEADER_LEN
<1>7. p \in Seq(Byte) /\ Len(p) = d /\ \A k \in 1..d : p[k] = b[8 + k]
      BY <1>4, <1>6 DEF HEADER_LEN
<1>8. /\ BE16(Major(b)) = << b[1], b[2] >>
      /\ BE16(Type(b)) = << b[3], b[4] >>
      /\ BE32(d) = << b[5], b[6], b[7], b[8] >>
  <2>1. BE16(b[1] * 256 + b[2]) = << b[1], b[2] >>
        BY <1>5, BytesOfU16, SMTT(30)
  <2>2. BE16(b[3] * 256 + b[4]) = << b[3], b[4] >>
        BY <1>5, BytesOfU16, SMTT(30)
  <2>3. BE32(d) = << b[5], b[6], b[7], b[8] >>
        BY <1>4, DeclaredBytes DEF HEADER_LEN
  <2> QED BY <2>1, <2>2, <2>3, Zenon DEF Major, Type, Declared
<1>9. Encodable(f) /\ Fits(f)
      BY <1>1, <1>2, <1>3, MaxPayloadFits DEF Encodable, Fits, FrameSet
<1> HIDE DEF f, d, p
<1>10. /\ Layout(f)[1] = b[1] /\ Layout(f)[2] = b[2]
       /\ Layout(f)[3] = b[3] /\ Layout(f)[4] = b[4]
       /\ Layout(f)[5] = b[5] /\ Layout(f)[6] = b[6]
       /\ Layout(f)[7] = b[7] /\ Layout(f)[8] = b[8]
       BY <1>1, <1>3, <1>7, <1>8, <1>9, LayoutFields, SMTT(30)
<1>11. \A k \in 1..d : Layout(f)[8 + k] = b[8 + k]
       BY <1>1, <1>3, <1>7, <1>9, LayoutFields
<1>12. \A k \in 1..Size(f) : b[k] = Layout(f)[k]
  <2> SUFFICES ASSUME NEW k \in 1..Size(f) PROVE b[k] = Layout(f)[k]
      OBVIOUS
  <2>1. CASE k \in 1..8
    <3>1. \/ k = 1 \/ k = 2 \/ k = 3 \/ k = 4 \/ k = 5 \/ k = 6 \/ k = 7 \/ k = 8
          BY <2>1
    <3> QED BY <1>10, <3>1
  <2>2. CASE k > 8
    <3>1. k - 8 \in 1..d /\ 8 + (k - 8) = k
          BY <1>3, <1>6, <2>2 DEF HEADER_LEN
    <3> QED BY <1>11, <3>1
  <2> QED BY <1>3, <1>6, <2>1, <2>2 DEF HEADER_LEN
<1> QED BY <1>1, <1>9, <1>12 DEF f, HEADER_LEN

\* A frame decode_prefix gives out is encoded as the bytes it consumed.
LEMMA DecodedReencodes ==
    ASSUME NEW b \in Seq(Byte), DecodePrefix(b).tag = "Some"
    PROVE  LET f == DecodePrefix(b).frame
           IN  /\ Layout(f) = SubSeq(b, 1, DecodePrefix(b).consumed)
               /\ Encode(f) = Bytes(SubSeq(b, 1, DecodePrefix(b).consumed))
<1> DEFINE r == DecodePrefix(b)
           f == r.frame
           p == SubSeq(b, 1, r.consumed)
<1>1. /\ f \in FrameSet /\ r.consumed = Size(f) /\ Size(f) \in HEADER_LEN..Len(b)
      /\ Encodable(f) /\ \A k \in 1..Size(f) : b[k] = Layout(f)[k]
      BY DecodeType, DecodedLayout
<1>2. Encode(f) = Bytes(Layout(f)) /\ Fits(f)
  <2>1. Len(f.payload) \in Nat
        BY <1>1 DEF FrameSet
  <2>2. ~(Len(f.payload) > MAX_PAYLOAD_LEN)
        BY <1>1, <2>1, MaxPayloadAssumption DEF Encodable
  <2>3. Encode(f) = Bytes(Layout(f))
        BY <1>1, <2>2 DEF Encode, Encodable
  <2> QED BY <1>1, <2>1, <2>3, MaxPayloadFits DEF Encodable, Fits
<1>3. Layout(f) \in Seq(Byte) /\ Len(Layout(f)) = Size(f) /\ Size(f) \in Nat
      BY <1>1, <1>2, LayoutType
<1> HIDE DEF f
<1>4. /\ p \in Seq(Byte) /\ Len(p) = Size(f)
      /\ \A k \in 1..Size(f) : p[k] = b[k]
  <2>1. b \in Seq(Byte) /\ Len(b) \in Nat /\ Size(f) <= Len(b)
        BY <1>1 DEF HEADER_LEN
  <2>2. p = SubSeq(b, 1, Size(f))
        BY <1>1
  <2> HIDE DEF p
  <2> QED BY <1>3, <2>1, <2>2
<1> HIDE DEF p
<1>5. p = Layout(f)
      BY <1>1, <1>3, <1>4, SeqEqual
<1> QED BY <1>2, <1>5 DEF f, p

\* decode_prefix() of any bytes: it asks for more exactly while the header, or
\* the payload of an acceptable header, is not all there; it refuses a whole
\* header of another major or over the limit; otherwise it gives a frame within
\* the limit whose encoding is what it consumed, out of what there is
\* (frame.rs:163-198).
THEOREM DecodeOutcomes ==
    ASSUME NEW b \in Seq(Byte)
    PROVE  \/ /\ DecodePrefix(b) = None
              /\ Len(b) >= HEADER_LEN =>
                   /\ IsSupported(Major(b)) /\ Declared(b) <= MAX_PAYLOAD_LEN
                   /\ Len(b) < HEADER_LEN + Declared(b)
           \/ /\ DecodePrefix(b) = Err("UnsupportedWireVersion")
              /\ Len(b) >= HEADER_LEN /\ ~IsSupported(Major(b))
           \/ /\ DecodePrefix(b) = Err("PayloadTooLarge")
              /\ Len(b) >= HEADER_LEN /\ Declared(b) > MAX_PAYLOAD_LEN
           \/ \E f \in FrameSet :
                /\ DecodePrefix(b) = Some(f, Size(f))
                /\ Size(f) \in HEADER_LEN..Len(b)
                /\ Len(f.payload) <= MAX_PAYLOAD_LEN
                /\ Encode(f) = Bytes(SubSeq(b, 1, Size(f)))
<1>1. Len(b) \in Nat
      OBVIOUS
<1>2. CASE DecodePrefix(b) = None
      BY <1>2, DecodeNone
<1>3. CASE DecodePrefix(b) = Err("UnsupportedWireVersion")
  <2>1. ~(Len(b) < HEADER_LEN) /\ ~IsSupported(Major(b))
        BY <1>3 DEF DecodePrefix, None, Err, Some
  <2> QED BY <1>1, <1>3, <2>1 DEF HEADER_LEN
<1>4. CASE DecodePrefix(b) = Err("PayloadTooLarge")
  <2>1. ~(Len(b) < HEADER_LEN) /\ Declared(b) > MAX_PAYLOAD_LEN
        BY <1>4 DEF DecodePrefix, None, Err, Some
  <2> QED BY <1>1, <1>4, <2>1 DEF HEADER_LEN
<1>5. CASE DecodePrefix(b).tag = "Some"
  <2> DEFINE f == DecodePrefix(b).frame
  <2>1. DecodePrefix(b) = Some(f, DecodePrefix(b).consumed)
        BY <1>5 DEF DecodePrefix, None, Err, Some
  <2>2. /\ f \in FrameSet /\ Len(f.payload) <= MAX_PAYLOAD_LEN
        /\ DecodePrefix(b).consumed = Size(f) /\ Size(f) \in HEADER_LEN..Len(b)
        BY <1>5, DecodeType
  <2>3. Encode(f) = Bytes(SubSeq(b, 1, Size(f)))
        BY <1>5, <2>2, DecodedReencodes
  <2>4. DecodePrefix(b) = Some(f, Size(f))
        BY <2>1, <2>2
  <2> HIDE DEF f
  <2> QED BY <2>2, <2>3, <2>4
<1> QED BY <1>2, <1>3, <1>4, <1>5, DecodeCases

\* A verdict other than None stands whatever arrives behind the buffer, and an
\* error is never given on a header decode_prefix has waited behind.
LEMMA VerdictStands ==
    ASSUME NEW b \in Seq(Byte), NEW s \in Seq(Byte)
    PROVE  /\ DecodePrefix(b) # None => DecodePrefix(b \o s) = DecodePrefix(b)
           /\ DecodePrefix(b) = None /\ DecodePrefix(b \o s).tag = "Err" =>
                Len(b) < HEADER_LEN
<1> DEFINE c == b \o s
<1>1. /\ c \in Seq(Byte) /\ Len(c) = Len(b) + Len(s) /\ Len(b) \in Nat /\ Len(s) \in Nat
      /\ \A k \in 1..Len(b) : c[k] = b[k]
      BY ConcatProperties
<1>2. ASSUME Len(b) >= HEADER_LEN
      PROVE  Major(c) = Major(b) /\ Declared(c) = Declared(b) /\ ~(Len(c) < HEADER_LEN)
      BY <1>1, <1>2, HeaderKept DEF HEADER_LEN
<1> HIDE DEF c
<1>3. CASE DecodePrefix(b).tag = "Some"
  <2> DEFINE f == DecodePrefix(b).frame
  <2>1. /\ f \in FrameSet /\ Encodable(f) /\ Size(f) <= Len(b)
        /\ \A k \in 1..Size(f) : b[k] = Layout(f)[k]
        BY <1>3, DecodeType, DecodedLayout
  <2>2. /\ DecodePrefix(b) = Some(f, Size(f)) /\ Size(f) \in Nat
    <3>1. DecodePrefix(b).consumed = Size(f)
          BY <1>3, DecodeType
    <3>2. DecodePrefix(b) = Some(DecodePrefix(b).frame, DecodePrefix(b).consumed)
          BY <1>3 DEF DecodePrefix, None, Err, Some
    <3> QED BY <2>1, <3>1, <3>2 DEF Size, HEADER_LEN, FrameSet
  <2> HIDE DEF f
  <2>3. Len(c) >= Size(f) /\ Agree(c, f)
        BY <1>1, <2>1, <2>2 DEF Agree
  <2>4. DecodePrefix(c) = Some(f, Size(f))
        BY <1>1, <2>1, <2>3, DecodeWhole
  <2> QED BY <1>3, <2>2, <2>4 DEF None, c
<1>4. CASE DecodePrefix(b).tag = "Err"
  <2>1. ~(Len(b) < HEADER_LEN)
        BY <1>4 DEF DecodePrefix, None
  <2>2. Len(b) >= HEADER_LEN
        BY <1>1, <2>1 DEF HEADER_LEN
  <2>3. DecodePrefix(c) = DecodePrefix(b)
        BY <1>2, <1>4, <2>1, <2>2 DEF DecodePrefix, None, Err, Some
  <2> QED BY <1>4, <2>3 DEF None, c
<1>5. CASE DecodePrefix(b) = None
  <2>1. ASSUME Len(b) >= HEADER_LEN PROVE DecodePrefix(c).tag # "Err"
    <3>1. /\ IsSupported(Major(c)) /\ ~(Declared(c) > MAX_PAYLOAD_LEN)
          /\ ~(Len(c) < HEADER_LEN)
      <4>1. Declared(b) \in Nat
            BY <2>1, DeclaredType
      <4> QED BY <1>2, <1>5, <2>1, <4>1, DecodeNone, MaxPayloadAssumption
    <3> QED BY <3>1 DEF DecodePrefix, None, Some
  <2>2. Len(b) >= HEADER_LEN \/ Len(b) < HEADER_LEN
        BY <1>1 DEF HEADER_LEN
  <2> QED BY <1>5, <2>1, <2>2 DEF c
<1> QED BY <1>3, <1>4, <1>5, DecodeCases DEF Err
-----------------------------------------------------------------------------
(***************************************************************************)
(* The theorems                                                            *)
(***************************************************************************)
InputTypeInv == input \in Seq(Byte)

LEMMA InputGrows ==
    ASSUME InputTypeInv, InputNext
    PROVE  /\ \E s \in Seq(Byte) : Len(s) = 1 /\ input' = input \o s
           /\ Len(input') = Len(input) + 1
<1>1. PICK x \in Alphabet : input' = Append(input, x)
      BY DEF InputNext
<1>2. x \in Byte
      BY AlphabetAssumption
<1>3. << x >> \in Seq(Byte) /\ Len(<< x >>) = 1
      BY <1>2
<1>4. Append(input, x) = input \o << x >>
      BY <1>2, AppendIsConcat DEF InputTypeInv
<1>5. Len(input') = Len(input) + 1
      BY <1>1, <1>2 DEF InputTypeInv
<1> QED BY <1>1, <1>3, <1>4, <1>5

LEMMA InputTyped == InputSpec => []InputTypeInv
<1>1. InputInit => InputTypeInv
      BY DEF InputInit, InputTypeInv
<1>2. InputTypeInv /\ [InputNext]_input => InputTypeInv'
  <2> SUFFICES ASSUME InputTypeInv, [InputNext]_input PROVE InputTypeInv'
      OBVIOUS
  <2>1. CASE InputNext
        BY <2>1, InputGrows, ConcatProperties DEF InputTypeInv
  <2>2. CASE UNCHANGED input
        BY <2>2 DEF InputTypeInv
  <2> QED BY <2>1, <2>2
<1> QED BY <1>1, <1>2, PTL DEF InputSpec

\* A beginning of the input is what encode() gives for a frame exactly if it is
\* what decode_prefix() consumes, and the frame is the one it gives out.
THEOREM EnvelopeCanonical == InputSpec => []EnvelopeIsCanonical
<1>1. InputTypeInv => EnvelopeIsCanonical
  <2> SUFFICES ASSUME InputTypeInv, NEW n \in HEADER_LEN..Len(input)
               PROVE  LET f == [version |-> Major(input), message_type |-> Type(input),
                                payload |-> SubSeq(input, HEADER_LEN + 1, n)]
                      IN  Encode(f) = Bytes(SubSeq(input, 1, n))
                            <=> DecodePrefix(input) = Some(f, n)
      BY DEF EnvelopeIsCanonical
  <2> DEFINE payload == SubSeq(input, HEADER_LEN + 1, n)
             f == [version |-> Major(input), message_type |-> Type(input),
                   payload |-> payload]
             p == SubSeq(input, 1, n)
  <2>1. /\ input \in Seq(Byte) /\ Len(input) \in Nat /\ n \in Nat
        /\ n >= 8 /\ n <= Len(input)
        BY DEF InputTypeInv, HEADER_LEN
  <2>2. payload \in Seq(Byte) /\ p \in Seq(Byte) /\ Len(p) = n
        /\ \A k \in 1..n : p[k] = input[k]
        BY <2>1 DEF HEADER_LEN
  <2>3. Major(input) \in U16 /\ Type(input) \in U16
    <3>1. /\ input[1] \in Byte /\ input[2] \in Byte
          /\ input[3] \in Byte /\ input[4] \in Byte
          BY <2>1
    <3> QED BY <3>1, TwoByteRange DEF Major, Type
  <2>4. f \in FrameSet
        BY <2>2, <2>3 DEF FrameSet
  <2> HIDE DEF payload, f, p
  <2>5. ASSUME Encode(f) = Bytes(p)
        PROVE  DecodePrefix(input) = Some(f, n)
    <3>1. Encodable(f)
          BY <2>4, <2>5, EncodeAccepts DEF Bytes
    <3>2. Layout(f) = p
          BY <2>5 DEF Encode, Err, Bytes
    <3>3. Fits(f)
          BY <2>4, <3>1, MaxPayloadFits DEF Fits, Encodable, FrameSet
    <3>4. Size(f) = n
          BY <2>2, <2>4, <3>2, <3>3, LayoutType
    <3>5. Len(input) >= Size(f) /\ Agree(input, f)
          BY <2>1, <2>2, <3>2, <3>4 DEF Agree
    <3> QED BY <2>1, <2>4, <3>1, <3>4, <3>5, DecodeWhole
  <2>6. ASSUME DecodePrefix(input) = Some(f, n)
        PROVE  Encode(f) = Bytes(p)
    <3>1. /\ DecodePrefix(input).tag = "Some" /\ DecodePrefix(input).frame = f
          /\ DecodePrefix(input).consumed = n
          BY <2>6 DEF Some
    <3> QED BY <2>1, <3>1, DecodedReencodes DEF p
  <2> QED BY <2>5, <2>6 DEF f, p, payload
<1> QED BY <1>1, InputTyped, PTL

\* decode() accepts one prefix of an input at most, the one decode_prefix()
\* consumes.
THEOREM PrefixIsUnique == InputSpec => []OnePrefixDecodes
<1>1. InputTypeInv => OnePrefixDecodes
  <2> DEFINE r == DecodePrefix(input)
  <2> SUFFICES ASSUME InputTypeInv, NEW n \in 0..Len(input)
               PROVE  Decode(SubSeq(input, 1, n)).tag = "Some"
                        <=> (r.tag = "Some" /\ r.consumed = n)
      BY DEF OnePrefixDecodes
  <2> DEFINE p == SubSeq(input, 1, n)
             s == SubSeq(input, n + 1, Len(input))
             q == DecodePrefix(p)
  <2>1. input \in Seq(Byte) /\ Len(input) \in Nat /\ n \in Nat /\ n <= Len(input)
        BY DEF InputTypeInv
  <2>2. /\ p \in Seq(Byte) /\ Len(p) = n
        /\ \A k \in 1..n : p[k] = input[k]
        BY <2>1
  <2>3. s \in Seq(Byte) /\ Len(s) = Len(input) - n
        /\ \A k \in 1..Len(s) : s[k] = input[n + k]
        BY <2>1
  <2>4. input = p \o s
    <3> HIDE DEF p, s
    <3> DEFINE t == p \o s
    <3>1. p \in Seq(Byte) /\ s \in Seq(Byte) /\ n \in Nat /\ n = Len(p)
          BY <2>1, <2>2, <2>3
    <3>2. /\ t \in Seq(Byte) /\ Len(t) = n + Len(s)
          /\ \A k \in 1..n : t[k] = p[k]
          /\ \A k \in 1..Len(s) : t[n + k] = s[k]
          BY <3>1, ConcatIndex, Zenon
    <3> HIDE DEF t
    <3>3. ASSUME NEW k \in 1..Len(input) PROVE t[k] = input[k]
      <4>1. CASE k <= n
        <5>1. k \in 1..n
              BY <2>1, <4>1
        <5> QED BY <2>2, <3>2, <5>1
      <4>2. CASE k > n
        <5>1. k - n \in 1..Len(s) /\ n + (k - n) = k
              BY <2>1, <2>3, <4>2
        <5> QED BY <2>3, <3>2, <5>1
      <4> QED BY <2>1, <4>1, <4>2
    <3>4. t = input
      <4>1. Len(t) = Len(input)
            BY <2>1, <2>3, <3>2
      <4> QED BY <2>1, <3>2, <3>3, <4>1, SeqEqual
    <3> QED BY <3>4 DEF t
  <2>5. Decode(p).tag = "Some" <=> (q.tag = "Some" /\ q.consumed = n)
        BY <2>2 DEF Decode, Err
  <2>6. ASSUME q.tag = "Some" PROVE r = q
    <3>1. DecodePrefix(p) # None
          BY <2>6 DEF None
    <3>2. p \in Seq(Byte) /\ s \in Seq(Byte)
          BY <2>2, <2>3
    <3> HIDE DEF p, s
    <3>3. DecodePrefix(p \o s) = DecodePrefix(p)
          BY <3>1, <3>2, VerdictStands
    <3> QED BY <2>4, <3>3
  <2>7. ASSUME r.tag = "Some", r.consumed = n PROVE q = r
    <3> DEFINE f == r.frame
    <3>1. /\ f \in FrameSet /\ Encodable(f) /\ n = Size(f)
          /\ \A k \in 1..Size(f) : input[k] = Layout(f)[k]
          BY <2>1, <2>7, DecodeType, DecodedLayout
    <3>2. r = Some(f, n)
      <4>1. DecodePrefix(input) =
              Some(DecodePrefix(input).frame, DecodePrefix(input).consumed)
            BY <2>7 DEF DecodePrefix, None, Err, Some
      <4> QED BY <2>7, <4>1
    <3> HIDE DEF f, p
    <3>3. Agree(p, f) /\ Len(p) >= Size(f)
          BY <2>1, <2>2, <3>1 DEF Agree
    <3>4. DecodePrefix(p) = Some(f, Size(f))
          BY <2>2, <3>1, <3>3, DecodeWhole
    <3> QED BY <3>1, <3>2, <3>4
  <2> HIDE DEF p, r, q
  <2>8. Decode(p).tag = "Some" <=> (r.tag = "Some" /\ r.consumed = n)
        BY <2>5, <2>6, <2>7
  <2> QED BY <2>8 DEF p, r
<1> QED BY <1>1, InputTyped, PTL

\* As bytes arrive no verdict is revised, and the only error a wait can end in
\* comes with the last byte of the header.
THEOREM VerdictsAreFinal == InputSpec => VerdictIsFinal
<1> DEFINE A == LET r == DecodePrefix(input)
                    q == DecodePrefix(input')
                IN  /\ r.tag # "None" => q = r
                    /\ (r = None /\ q.tag = "Err") => Len(input') = HEADER_LEN
<1>1. InputTypeInv /\ [InputNext]_input => [A]_input
  <2> SUFFICES ASSUME InputTypeInv, InputNext PROVE A
      OBVIOUS
  <2>1. PICK s \in Seq(Byte) : Len(s) = 1 /\ input' = input \o s
        BY InputGrows
  <2>2. /\ DecodePrefix(input) # None => DecodePrefix(input') = DecodePrefix(input)
        /\ DecodePrefix(input) = None /\ DecodePrefix(input').tag = "Err" =>
             Len(input) < HEADER_LEN
        BY <2>1, VerdictStands DEF InputTypeInv
  <2>3. Len(input') = Len(input) + 1 /\ Len(input) \in Nat
        BY InputGrows DEF InputTypeInv
  <2>4. DecodePrefix(input').tag = "Err" => Len(input') >= HEADER_LEN
    <3>1. DecodePrefix(input').tag = "Err" => ~(Len(input') < HEADER_LEN)
          BY DEF DecodePrefix, None
    <3> QED BY <2>3, <3>1 DEF HEADER_LEN
  <2>5. DecodePrefix(input).tag # "None" => DecodePrefix(input) # None
        BY DEF None
  <2> QED BY <2>2, <2>3, <2>4, <2>5 DEF HEADER_LEN
<1> QED BY <1>1, InputTyped, PTL DEF InputSpec, VerdictIsFinal
=============================================================================
