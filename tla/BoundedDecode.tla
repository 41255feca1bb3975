---------------------------- MODULE BoundedDecode ----------------------------
(***************************************************************************)
(* The memory a bounded decode takes (bounded.rs), one step at a time: a   *)
(* BoundedVec<_, N> of elements that each hold a BoundedBytes<M>, such as  *)
(* the signature list of an authentication message. The input declares a   *)
(* count and, in each element, a length; it need not hold what it          *)
(* declares.  What the bytes mean is WireCodec's; here only how many there *)
(* are and what is allocated for them.                                     *)
(***************************************************************************)
EXTENDS Integers

CONSTANTS N, M,          \* the bounds of the list and of each byte string
          Declarable     \* counts and lengths an input may declare

ASSUME BoundsAssumption == N \in Nat /\ M \in Nat /\ Declarable \subseteq Nat

VARIABLES
  opaque,     \* decode_exact's flavor: the declared count is always visible
  declared,   \* the declared count
  left,       \* input bytes not yet read
  phase,      \* "begin", "elements", "ok", "failed"
  items,      \* elements decoded and kept
  decoded,    \* elements decoded
  capacity,   \* capacity of the Vec of elements
  copied,     \* bytes copied to owned storage
  violation   \* <<declared, max>> as recorded, or <<>>
decodeVars == <<opaque, declared, left, phase, items, decoded, capacity, copied, violation>>

\* postcard hides a count that the remaining input cannot hold, unless it is
\* not told how much remains.
Hint == opaque \/ left >= declared

\* Vec::push: the capacity doubles from four.
Grown(cap, len) == IF len < cap THEN cap ELSE IF cap = 0 THEN 4 ELSE 2 * cap

Fails(v) == /\ phase' = "failed"
            /\ violation' = v

\* Bug: the list is reserved at its declared length.
Bug_ReserveDeclared ==
  /\ phase = "begin"
  /\ IF Hint /\ declared > N
     THEN Fails(<<declared, N>>) /\ UNCHANGED capacity
     ELSE phase' = "elements" /\ capacity' = declared /\ UNCHANGED violation
  /\ UNCHANGED <<opaque, declared, left, items, decoded, copied>>

\* visit_seq begins: an oversized count is refused if it can be seen.
VisitSeq ==
  /\ phase = "begin"
  /\ IF Hint /\ declared > N
     THEN Fails(<<declared, N>>)
     ELSE phase' = "elements" /\ UNCHANGED violation
  /\ UNCHANGED <<opaque, declared, left, items, decoded, capacity, copied>>

\* next_element(): the element's one-byte head and a byte string of length
\* len, which postcard lends from the input; visit_bytes measures the loan
\* before it copies it.
Lent(len) == /\ phase = "elements" /\ decoded < declared
             /\ left >= 1 + len
             /\ left' = left - 1 - len
             /\ UNCHANGED <<opaque, declared>>

\* Bug: one element too many is kept.
Bug_ElementPastBound(len) ==
  /\ Lent(len) /\ len <= M
  /\ decoded' = decoded + 1
  /\ copied' = copied + len
  /\ IF items > N
     THEN Fails(<<items + 1, N>>) /\ UNCHANGED <<items, capacity>>
     ELSE /\ items' = items + 1
          /\ capacity' = Grown(capacity, items)
          /\ UNCHANGED <<phase, violation>>

\* visit_bytes and visit_seq take an element.
Element(len) ==
  /\ Lent(len) /\ len <= M
  /\ decoded' = decoded + 1
  /\ copied' = copied + len
  /\ IF items >= N
     THEN Fails(<<items + 1, N>>) /\ UNCHANGED <<items, capacity>>
     ELSE /\ items' = items + 1
          /\ capacity' = Grown(capacity, items)
          /\ UNCHANGED <<phase, violation>>

\* Bug: the loan is copied before it is measured.
Bug_CopiesFirst(len) == /\ Lent(len) /\ len > M
                        /\ Fails(<<len, M>>)
                        /\ copied' = copied + len
                        /\ UNCHANGED <<items, decoded, capacity>>

\* visit_bytes refuses what is too long, uncopied.
TooLong(len) == /\ Lent(len) /\ len > M
                /\ Fails(<<len, M>>)
                /\ UNCHANGED <<items, decoded, capacity, copied>>

\* The input ends early or makes no sense: an error of postcard's own.
MalformedElement ==
  /\ phase = "elements" /\ decoded < declared
  /\ Fails(violation)
  /\ UNCHANGED <<opaque, declared, left, items, decoded, capacity, copied>>

\* next_element() returns None: all declared elements are decoded.
Finish == /\ phase = "elements" /\ decoded = declared
          /\ phase' = "ok"
          /\ UNCHANGED <<opaque, declared, left, items, decoded, capacity, copied, violation>>

DecodeInit ==
  /\ opaque \in BOOLEAN
  /\ declared \in Declarable
  /\ left \in Declarable
  /\ phase = "begin"
  /\ items = 0 /\ decoded = 0 /\ capacity = 0 /\ copied = 0
  /\ violation = <<>>

DecodeNext ==
  \/ VisitSeq \/ MalformedElement \/ Finish
  \/ \E len \in Declarable : Element(len) \/ TooLong(len)

DecodeSpec == DecodeInit /\ [][DecodeNext]_decodeVars

-----------------------------------------------------------------------------
\* No memory is reserved for what is only declared: the list has room for what
\* was decoded, within the growth of a Vec, and bytes are copied only out of
\* elements within their bound (bounded.rs:465-467, 347-350).
MemoryFollowsInput ==
  /\ capacity <= 4 \/ capacity <= 2 * decoded
  /\ capacity > 0 => decoded > 0
  /\ copied <= decoded * M

\* The list never exceeds its bound and at most one element beyond it is
\* decoded; of a list whose excess is visible, none is, and the report names
\* the declared count (bounded.rs:468-472, 490-506).
ExcessIsRefusedEarly ==
  /\ items <= N
  /\ decoded <= N + 1
  /\ opaque /\ declared > N /\ phase # "begin" =>
       phase = "failed" /\ decoded = 0 /\ violation = <<declared, N>>
=============================================================================
