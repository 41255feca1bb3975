------------------------------- MODULE WireProofs -------------------------------
(***************************************************************************)
(* Theorems about the payload codec, for every payload, every input and    *)
(* any bounds: what a writer and a reader have to do with each other is    *)
(* stated once, shown of a varint, and kept by every way to put readers    *)
(* together.                                                               *)
(***************************************************************************)
EXTENDS WireValue, MCWireInput, InductionProofs

-----------------------------------------------------------------------------
(***************************************************************************)
(* The varint of a number                                                  *)
(***************************************************************************)
Groups(f, n) == IF n < 128 THEN << n >> ELSE << 128 + (n % 128) >> \o f[n \div 128]

LEMMA Smaller ==
  ASSUME NEW n \in Nat, ~(n < 128)
  PROVE  n \div 128 \in Nat /\ n \div 128 < n
OBVIOUS

UpTo(f, k) == f \in [0..k -> Seq(Byte)] /\ \A n \in 0..k : f[n] = Groups(f, n)

LEMMA VarintsExist == \A k \in Nat : \E f : UpTo(f, k)
<1> DEFINE T == {k \in Nat : \E f : UpTo(f, k)}
<1>1. 0 \in T
  <2> DEFINE f == [n \in 0..0 |-> << n >>]
  <2>1. f \in [0..0 -> Seq(Byte)] /\ \A n \in 0..0 : f[n] = Groups(f, n)
    BY DEF Byte, Groups
  <2> QED
    BY <2>1 DEF UpTo
<1>2. ASSUME NEW k \in T PROVE k + 1 \in T
  <2>1. PICK f : UpTo(f, k)
    OBVIOUS
  <2> DEFINE g == [n \in 0..(k + 1) |-> IF n = k + 1 THEN Groups(f, k + 1) ELSE f[n]]
  <2>2. Groups(f, k + 1) \in Seq(Byte)
    <3>1. CASE k + 1 < 128
      BY <3>1 DEF Groups, Byte
    <3>2. CASE ~(k + 1 < 128)
      <4>1. (k + 1) \div 128 \in 0..k
        BY <3>2, Smaller
      <4>2. f[(k + 1) \div 128] \in Seq(Byte) /\ << 128 + ((k + 1) % 128) >> \in Seq(Byte)
        BY <2>1, <4>1 DEF UpTo, Byte
      <4> QED
        BY <3>2, <4>2 DEF Groups
    <3> QED
      BY <3>1, <3>2
  <2>3. g \in [0..(k + 1) -> Seq(Byte)]
    BY <2>1, <2>2 DEF UpTo
  <2>4. g[k + 1] = Groups(f, k + 1) /\ \A n \in 0..k : g[n] = f[n]
    OBVIOUS
  <2> HIDE DEF g
  <2>5. ASSUME NEW n \in 0..(k + 1) PROVE g[n] = Groups(g, n)
    <3>1. g[n] = Groups(f, n)
      BY <2>1, <2>4 DEF UpTo
    <3>2. CASE n < 128
      BY <3>1, <3>2 DEF Groups
    <3>3. CASE ~(n < 128)
      <4>1. n \div 128 \in 0..k
        BY <3>3, Smaller
      <4> QED
        BY <2>4, <3>1, <4>1 DEF Groups
    <3> QED
      BY <3>2, <3>3
  <2>6. UpTo(g, k + 1)
    BY <2>3, <2>5 DEF UpTo
  <2> QED
    BY <2>6
<1>3. T = Nat
  <2> HIDE DEF T
  <2>1. T \subseteq Nat
    BY DEF T
  <2> QED
    BY <1>1, <1>2, <2>1, Induction
<1> QED
  BY <1>3

LEMMA VarintsAgree ==
  ASSUME NEW k \in Nat, NEW f, UpTo(f, k), NEW j \in Nat, NEW g, UpTo(g, j), k <= j
  PROVE  \A n \in 0..k : f[n] = g[n]
<1> DEFINE T == {n \in 0..k : f[n] # g[n]}
<1> SUFFICES ASSUME T # {} PROVE FALSE
  OBVIOUS
<1>1. T \subseteq Nat
  OBVIOUS
<1>2. PICK n \in T : \A m \in T : n <= m
  <2> HIDE DEF T
  <2> QED
    BY <1>1, LeastNumber
<1>3. f[n] = Groups(f, n) /\ g[n] = Groups(g, n)
  BY DEF UpTo
<1>4. CASE n < 128
  BY <1>3, <1>4 DEF Groups
<1>5. CASE ~(n < 128)
  <2>1. n \div 128 \in 0..k /\ n \div 128 < n
    BY <1>5, Smaller
  <2>2. n \div 128 \notin T
    BY <1>2, <2>1
  <2>3. f[n \div 128] = g[n \div 128]
    BY <2>1, <2>2
  <2> QED
    BY <1>3, <2>3 DEF Groups
<1> QED
  BY <1>4, <1>5

LEMMA VarintGroups ==
  \A n \in Nat : VarintBytes[n] \in Seq(Byte) /\ VarintBytes[n] = Groups(VarintBytes, n)
<1> DEFINE F(k) == CHOOSE f : UpTo(f, k)
           v == [n \in Nat |-> F(n)[n]]
<1>1. \A k \in Nat : UpTo(F(k), k)
  BY VarintsExist
<1> HIDE DEF F
<1>2. ASSUME NEW n \in Nat PROVE v[n] \in Seq(Byte) /\ v[n] = Groups(v, n)
  <2>1. v[n] = F(n)[n]
    OBVIOUS
  <2>2. F(n)[n] \in Seq(Byte) /\ F(n)[n] = Groups(F(n), n)
    <3>1. UpTo(F(n), n) /\ n \in 0..n
      BY <1>1
    <3> QED
      BY <3>1 DEF UpTo
  <2>3. CASE n < 128
    BY <2>1, <2>2, <2>3 DEF Groups
  <2>4. CASE ~(n < 128)
    <3> DEFINE m == n \div 128
    <3>1. m \in Nat /\ m <= n
      BY <2>4, Smaller
    <3>2. v[m] = F(m)[m]
      BY <3>1
    <3> HIDE DEF m
    <3>3. F(m)[m] = F(n)[m]
      <4>1. UpTo(F(m), m) /\ UpTo(F(n), n)
        BY <1>1, <3>1
      <4>2. \A i \in 0..m : F(m)[i] = F(n)[i]
        BY <3>1, <4>1, VarintsAgree
      <4> QED
        BY <3>1, <4>2
    <3> HIDE DEF v
    <3> QED
      BY <2>1, <2>2, <3>2, <3>3 DEF Groups, m
  <2> QED
    BY <2>3, <2>4
<1>3. v = [n \in Nat |-> Groups(v, n)]
  BY <1>2
<1> HIDE DEF v
<1>4. VarintBytes = [n \in Nat |-> Groups(VarintBytes, n)]
  BY <1>3, ZenonT(40) DEF VarintBytes, Groups
<1> DEFINE w == VarintBytes
<1> HIDE DEF w
<1>5. ASSUME NEW n \in Nat PROVE w[n] \in Seq(Byte)
  <2> DEFINE T == {i \in Nat : w[i] \notin Seq(Byte)}
  <2>1. SUFFICES ASSUME T # {} PROVE FALSE
    OBVIOUS
  <2>2. PICK i \in T : \A j \in T : i <= j
    <3>1. T \subseteq Nat
      OBVIOUS
    <3> HIDE DEF T
    <3> QED
      BY <2>1, <3>1, LeastNumber
  <2>3. w[i] = Groups(w, i)
    BY <1>4 DEF w
  <2>6. i \in Nat /\ w[i] \notin Seq(Byte)
    OBVIOUS
  <2>4. CASE i < 128
    <3>1. << i >> \in Seq(Byte)
      BY <2>4, <2>6 DEF Byte
    <3> QED
      BY <2>3, <2>4, <2>6, <3>1 DEF Groups
  <2>5. CASE ~(i < 128)
    <3>1. i \div 128 \in Nat /\ i \div 128 < i
      BY <2>5, Smaller
    <3>2. i \div 128 \notin T
      BY <2>2, <3>1
    <3>3. w[i \div 128] \in Seq(Byte) /\ << 128 + (i % 128) >> \in Seq(Byte)
      BY <3>1, <3>2 DEF Byte
    <3>4. << 128 + (i % 128) >> \o w[i \div 128] \in Seq(Byte)
      BY <3>3
    <3> QED
      BY <2>3, <2>5, <2>6, <3>4, Zenon DEF Groups
  <2> QED
    BY <2>4, <2>5
<1> QED
  BY <1>4, <1>5 DEF w

-----------------------------------------------------------------------------
(***************************************************************************)
(* What a writer P and a reader R of the values V have to do with each     *)
(* other                                                                   *)
(***************************************************************************)
Errors     == {"MalformedWire", "BoundExceeded"}
Results(V) == {Parsed(v, rest) : v \in V, rest \in Seq(Byte)} \cup {Failed(e) : e \in Errors}

Typed(P, R, V) == /\ \A v \in V : P[v] \in Seq(Byte)
                  /\ R \in [Seq(Byte) -> Results(V)]

\* What is written is read, and what follows it is left.
ReadsBack(P, R, V) == \A v \in V, rest \in Seq(Byte) : R[P[v] \o rest] = Parsed(v, rest)

\* What follows is not looked at; nor is what follows a bound that was exceeded.
ReadsOn(R) == \A b \in Seq(Byte), more \in Seq(Byte) :
                /\ Good(R[b]) => R[b \o more] = Parsed(R[b].value, R[b].rest \o more)
                /\ R[b] = Failed("BoundExceeded") => R[b \o more] = Failed("BoundExceeded")

\* What is read and is not what is written is longer.
Within(P, R, b, used) ==
  /\ b = used \o R[b].rest
  /\ P[R[b].value] = used \/ Len(P[R[b].value]) < Len(used)
WritesShortest(P, R) == \A b \in Seq(Byte) : Good(R[b]) => \E used \in Seq(Byte) : Within(P, R, b, used)

Codec(P, R, V) == Typed(P, R, V) /\ ReadsBack(P, R, V) /\ ReadsOn(R) /\ WritesShortest(P, R)

LEMMA ResultFacts ==
  /\ \A v, rest : /\ Good(Parsed(v, rest))
                  /\ Parsed(v, rest).value = v
                  /\ Parsed(v, rest).rest = rest
  /\ \A e \in Errors : ~Good(Failed(e))
  /\ Failed("MalformedWire") # Failed("BoundExceeded")
  BY DEF Good, Parsed, Failed, Errors

LEMMA ParsedParts ==
  ASSUME NEW v, NEW rest, NEW r, r = Parsed(v, rest)
  PROVE  Good(r) /\ r.value = v /\ r.rest = rest
  BY DEF Good, Parsed

LEMMA ResultCases ==
  ASSUME NEW V, NEW r \in Results(V)
  PROVE  \/ Good(r) /\ r.value \in V /\ r.rest \in Seq(Byte) /\ r = Parsed(r.value, r.rest)
         \/ ~Good(r) /\ \E e \in Errors : r = Failed(e)
<1>1. CASE \E v \in V, rest \in Seq(Byte) : r = Parsed(v, rest)
  BY <1>1, ResultFacts
<1>2. CASE \E e \in Errors : r = Failed(e)
  BY <1>2, ResultFacts
<1> QED
  BY <1>1, <1>2 DEF Results

LEMMA ParsedIsResult ==
  ASSUME NEW V, NEW v \in V, NEW rest \in Seq(Byte)
  PROVE  Parsed(v, rest) \in Results(V)
  BY DEF Results

LEMMA FailedIsResult ==
  ASSUME NEW V, NEW e \in Errors
  PROVE  Failed(e) \in Results(V)
  BY DEF Results

LEMMA Bytes == \A h \in Byte : h \in Nat /\ h < 256 /\ h % 128 \in 0..127
  BY DEF Byte

\* The first byte and the others.
LEMMA FirstByte ==
  ASSUME NEW s \in Seq(Byte), s # << >>, NEW t \in Seq(Byte)
  PROVE  /\ Head(s) \in Byte /\ Tail(s) \in Seq(Byte) /\ s = << Head(s) >> \o Tail(s)
         /\ s \o t # << >> /\ Head(s \o t) = Head(s) /\ Tail(s \o t) = Tail(s) \o t
         /\ Len(s) = 1 + Len(Tail(s))
<1> HIDE DEF Byte
<1>1. Head(s) \in Byte /\ Tail(s) \in Seq(Byte) /\ Len(s) = 1 + Len(Tail(s))
  OBVIOUS
<1>2. s \o t # << >> /\ Head(s \o t) = Head(s)
  OBVIOUS
<1>3. s = << Head(s) >> \o Tail(s)
  OBVIOUS
<1>4. Tail(s \o t) = Tail(s) \o t
  OBVIOUS
<1> QED
  BY <1>1, <1>2, <1>3, <1>4

LEMMA Before ==
  ASSUME NEW h \in Byte, NEW s \in Seq(Byte)
  PROVE  /\ << h >> \o s \in Seq(Byte) /\ << h >> \o s # << >>
         /\ Head(<< h >> \o s) = h /\ Tail(<< h >> \o s) = s /\ Len(<< h >> \o s) = 1 + Len(s)
<1> HIDE DEF Byte
<1>1. << h >> \o s \in Seq(Byte) /\ << h >> \o s # << >> /\ Head(<< h >> \o s) = h
      /\ Len(<< h >> \o s) = 1 + Len(s)
  OBVIOUS
<1>2. Tail(<< h >> \o s) = s
  OBVIOUS
<1> QED
  BY <1>1, <1>2

LEMMA Regrouped ==
  ASSUME NEW r \in Seq(Byte), NEW s \in Seq(Byte), NEW t \in Seq(Byte)
  PROVE  (r \o s) \o t = r \o (s \o t)
  BY ConcatAssociative

-----------------------------------------------------------------------------
(***************************************************************************)
(* The reader of a varint                                                  *)
(***************************************************************************)
\* The reader of w bytes at most, from the one of w - 1.
VarintStep(w, top, R, x) ==
  IF w = 0 \/ x = << >> THEN Failed("MalformedWire")
  ELSE IF Head(x) < 128
  THEN IF w = 1 /\ Head(x) > top THEN Failed("MalformedWire") ELSE Parsed(Head(x), Tail(x))
  ELSE LET more == R[Tail(x)]
       IN  IF ~Good(more) THEN more
           ELSE Parsed((Head(x) % 128) + 128 * more.value, more.rest)

VarintRun(f, width, top) ==
  /\ f \in [0..width -> [Seq(Byte) -> Results(Nat)]]
  /\ \A w \in 0..width : f[w] = [x \in Seq(Byte) |-> VarintStep(w, top, f[w - 1], x)]

LEMMA VarintStepTyped ==
  ASSUME NEW w, NEW top, NEW R \in [Seq(Byte) -> Results(Nat)], NEW x \in Seq(Byte)
  PROVE  VarintStep(w, top, R, x) \in Results(Nat)
<1>1. CASE w = 0 \/ x = << >>
  BY <1>1, FailedIsResult DEF VarintStep, Errors
<1> SUFFICES ASSUME ~(w = 0 \/ x = << >>) PROVE VarintStep(w, top, R, x) \in Results(Nat)
  BY <1>1
<1>2. Head(x) \in Byte /\ Tail(x) \in Seq(Byte)
  BY FirstByte
<1>3. CASE Head(x) < 128
  <2>1. Head(x) \in Nat
    BY <1>2, Bytes
  <2>2. Parsed(Head(x), Tail(x)) \in Results(Nat) /\ Failed("MalformedWire") \in Results(Nat)
    BY <1>2, <2>1, ParsedIsResult, FailedIsResult DEF Errors
  <2> QED
    BY <1>3, <2>2, Zenon DEF VarintStep
<1>4. CASE ~(Head(x) < 128)
  <2> DEFINE more == R[Tail(x)]
  <2>1. more \in Results(Nat)
    BY <1>2
  <2>2. VarintStep(w, top, R, x) =
          IF ~Good(more) THEN more
          ELSE Parsed((Head(x) % 128) + 128 * more.value, more.rest)
    BY <1>4, Zenon DEF VarintStep
  <2> HIDE DEF more
  <2>3. CASE ~Good(more)
    BY <2>1, <2>2, <2>3
  <2>4. CASE Good(more)
    <3>1. more.value \in Nat /\ more.rest \in Seq(Byte)
      BY <2>1, <2>4, ResultCases
    <3>2. (Head(x) % 128) + 128 * more.value \in Nat
      <4>1. Head(x) % 128 \in Nat
        BY <1>2, Bytes
      <4> QED
        BY <3>1, <4>1
    <3>3. Parsed((Head(x) % 128) + 128 * more.value, more.rest) \in Results(Nat)
      BY <3>1, <3>2, ParsedIsResult
    <3> QED
      BY <2>2, <2>4, <3>3
  <2> QED
    BY <2>3, <2>4
<1> QED
  BY <1>3, <1>4

LEMMA VarintRuns ==
  ASSUME NEW width \in Nat, NEW top
  PROVE  \E f : /\ VarintRun(f, width, top)
                /\ \A b \in Seq(Byte) : Varint(b, width, top) = f[width][b]
<1> DEFINE S == [Seq(Byte) -> Results(Nat)]
           Next(w, R) == [x \in Seq(Byte) |-> VarintStep(w, top, R, x)]
           none == [x \in Seq(Byte) |-> Failed("MalformedWire")]
           G == [w \in 1..width |-> [R \in S |-> Next(w, R)]]
<1>1. none \in S
  BY FailedIsResult DEF Errors
<1>2. ASSUME NEW w, NEW R \in S PROVE Next(w, R) \in S
  BY VarintStepTyped
<1>3. ASSUME NEW R PROVE Next(0, R) = none
  BY DEF VarintStep
<1> HIDE DEF S, Next, none
<1>4. G \in [1..width -> [S -> S]]
  BY <1>2
<1>5. \A w \in 1..width, R \in S : G[w][R] = Next(w, R)
  OBVIOUS
<1> HIDE DEF G
<1>6. PICK f : Run(f, S, none, width, G)
  <2>1. Steps(S, none, width, G)
    BY <1>1, <1>4 DEF Steps
  <2> QED
    BY <2>1, Recursion
<1>7. ASSUME NEW w \in 0..width PROVE f[w] = Next(w, f[w - 1])
  <2>1. CASE w = 0
    BY <1>3, <1>6, <2>1 DEF Run
  <2>2. CASE w # 0
    <3>1. w \in 1..width /\ w - 1 \in 0..width
      BY <2>2
    <3>2. f[w] = G[w][f[w - 1]] /\ f[w - 1] \in S
      BY <1>6, <3>1 DEF Run
    <3> QED
      BY <1>5, <3>1, <3>2
  <2> QED
    BY <2>1, <2>2
<1>8. f \in [0..width -> S]
  BY <1>6 DEF Run
<1>9. VarintRun(f, width, top)
  BY <1>7, <1>8 DEF VarintRun, S, Next
<1> DEFINE h == CHOOSE g : g = [w \in 0..width |-> Next(w, g[w - 1])]
<1>10. ASSUME NEW b \in Seq(Byte) PROVE Varint(b, width, top) = h[width][b]
  BY Zenon DEF Varint, Next, VarintStep
<1>11. h = [w \in 0..width |-> Next(w, h[w - 1])]
  <2>1. f = [w \in 0..width |-> f[w]]
    BY <1>8
  <2>2. f = [w \in 0..width |-> Next(w, f[w - 1])]
    BY <1>7, <2>1
  <2> QED
    BY <2>2
<1> HIDE DEF h
<1>12. \A w \in 0..width : h[w] = Next(w, h[w - 1])
  BY <1>11
<1>13. h[0] = f[0]
  BY <1>3, <1>7, <1>12
<1>14. Agree(width, h, f)
  <2>1. ASSUME NEW w \in 1..width, h[w - 1] = f[w - 1] PROVE h[w] = f[w]
    BY <1>7, <1>12, <2>1
  <2>2. Alike(width, h, f)
    BY <1>13, <2>1 DEF Alike
  <2> QED
    BY <2>2, SameRun
<1>15. h[width] = f[width]
  BY <1>14 DEF Agree
<1> QED
  BY <1>9, <1>10, <1>15

\* The numbers a reader of w bytes reads, from those of w - 1 bytes.
More(w, top, V) == {n \in Nat : IF n < 128 THEN w = 1 => n <= top ELSE n \div 128 \in V}

\* What one more byte does.
LEMMA VarintCases ==
  ASSUME NEW w, w # 0, NEW top, NEW R, NEW x
  PROVE  LET r == VarintStep(w, top, R, x)
             more == R[Tail(x)]
         IN  /\ x = << >> => r = Failed("MalformedWire")
             /\ x # << >> /\ Head(x) < 128 =>
                  r = IF w = 1 /\ Head(x) > top THEN Failed("MalformedWire")
                      ELSE Parsed(Head(x), Tail(x))
             /\ x # << >> /\ ~(Head(x) < 128) /\ ~Good(more) => r = more
             /\ x # << >> /\ ~(Head(x) < 128) /\ Good(more) =>
                  r = Parsed((Head(x) % 128) + 128 * more.value, more.rest)
<1> DEFINE a == w = 0 \/ x = << >>
           b == Head(x) < 128
           d == Good(R[Tail(x)])
           u == IF w = 1 /\ Head(x) > top THEN Failed("MalformedWire") ELSE Parsed(Head(x), Tail(x))
           v == Parsed((Head(x) % 128) + 128 * R[Tail(x)].value, R[Tail(x)].rest)
           more == R[Tail(x)]
           bad == Failed("MalformedWire")
<1>1. VarintStep(w, top, R, x) = IF a THEN bad ELSE IF b THEN u ELSE IF ~d THEN more ELSE v
  BY Zenon DEF VarintStep
<1>2. a <=> x = << >>
  OBVIOUS
<1> HIDE DEF a, b, d, u, v, more, bad
<1> QED
  BY <1>1, <1>2, Zenon DEF b, d, u, v, more, bad

LEMMA MoreGroups ==
  ASSUME NEW h \in Byte, ~(h < 128), NEW m \in Nat
  PROVE  VarintBytes[(h % 128) + 128 * m] =
           IF m = 0 THEN << h % 128 >> ELSE << h >> \o VarintBytes[m]
<1> DEFINE n == (h % 128) + 128 * m
           g == h % 128
<1>1. g \in 0..127 /\ h = 128 + g
  BY DEF Byte
<1>2. n = g + 128 * m
  OBVIOUS
<1> HIDE DEF g, n
<1>3. n \in Nat /\ n \div 128 = m /\ n % 128 = g /\ (n < 128 <=> m = 0)
  BY <1>1, <1>2
<1>5. VarintBytes[n] = Groups(VarintBytes, n)
  BY <1>3, VarintGroups
<1>6. CASE m = 0
  <2>1. n = g /\ n < 128
    BY <1>1, <1>2, <1>6
  <2> QED
    BY <1>5, <1>6, <2>1 DEF Groups, n, g
<1>7. CASE m # 0
  <2>1. VarintBytes[n] = << h >> \o VarintBytes[m]
    BY <1>1, <1>3, <1>5, <1>7 DEF Groups
  <2> QED
    BY <1>7, <2>1 DEF n, g
<1> QED
  BY <1>6, <1>7

\* The number is one that is read.
LEMMA MoreBytes ==
  ASSUME NEW w \in Nat \ {0}, NEW top, NEW V \in SUBSET Nat, w = 1 => V = {},
         NEW h \in Byte, ~(h < 128), NEW m \in V
  PROVE  (h % 128) + 128 * m \in More(w, top, V)
<1> DEFINE n == (h % 128) + 128 * m
           g == h % 128
<1>1. g \in 0..127 /\ m \in Nat /\ w # 1
  BY DEF Byte
<1>2. n = g + 128 * m
  OBVIOUS
<1> HIDE DEF g, n
<1>3. n \in Nat /\ n \div 128 = m
  BY <1>1, <1>2
<1>4. n \in More(w, top, V)
  BY <1>1, <1>3 DEF More
<1> QED
  BY <1>4 DEF n

LEMMA VarintCodecStep ==
  ASSUME NEW w \in Nat \ {0}, NEW top \in Nat, NEW V \in SUBSET Nat, w = 1 => V = {},
         NEW R, Codec(VarintBytes, R, V), NEW R2,
         R2 = [x \in Seq(Byte) |-> VarintStep(w, top, R, x)]
  PROVE  Codec(VarintBytes, R2, More(w, top, V))
<1> DEFINE V2 == More(w, top, V)
           P == VarintBytes
           Step(x) == VarintStep(w, top, R, x)
<1>1. R \in [Seq(Byte) -> Results(V)] /\ ReadsBack(P, R, V) /\ ReadsOn(R) /\ WritesShortest(P, R)
  BY DEF Codec, Typed
<1>2. ASSUME NEW v \in V2
      PROVE  /\ v \in Nat /\ P[v] \in Seq(Byte) /\ P[v] = Groups(P, v)
             /\ IF v < 128 THEN w = 1 => v <= top ELSE v \div 128 \in V
  BY VarintGroups DEF More
<1>3. \A x \in Seq(Byte) : R2[x] = Step(x)
  OBVIOUS
<1> HIDE DEF V2, P
\* The first byte is the last.
<1>4. ASSUME NEW x \in Seq(Byte), x # << >>, Head(x) < 128
      PROVE  /\ Head(x) \in Nat /\ Head(x) \in Byte /\ Tail(x) \in Seq(Byte)
             /\ \/ w = 1 /\ Head(x) > top /\ Step(x) = Failed("MalformedWire")
                \/ Head(x) \in V2 /\ Step(x) = Parsed(Head(x), Tail(x))
  <2> DEFINE h == Head(x)
  <2>1. h \in Nat /\ h \in Byte /\ Tail(x) \in Seq(Byte)
    BY <1>4, FirstByte, Bytes
  <2>2. Step(x) = IF w = 1 /\ h > top THEN Failed("MalformedWire") ELSE Parsed(h, Tail(x))
    BY <1>4, VarintCases
  <2>3. h < 128
    BY <1>4
  <2> HIDE DEF h, Step
  <2>4. CASE w = 1 /\ h > top
    BY <2>1, <2>2, <2>4 DEF h
  <2>5. CASE ~(w = 1 /\ h > top)
    <3>1. h \in V2
      BY <2>1, <2>3, <2>5 DEF V2, More
    <3> QED
      BY <2>1, <2>2, <2>5, <3>1 DEF h
  <2> QED
    BY <2>4, <2>5
\* Other bytes follow.
<1>5. ASSUME NEW x \in Seq(Byte), x # << >>, ~(Head(x) < 128)
      PROVE  /\ Head(x) \in Byte /\ Tail(x) \in Seq(Byte)
             /\ \/ ~Good(R[Tail(x)]) /\ Step(x) = R[Tail(x)]
                \/ /\ Good(R[Tail(x)]) /\ R[Tail(x)].value \in V /\ R[Tail(x)].rest \in Seq(Byte)
                   /\ (Head(x) % 128) + 128 * R[Tail(x)].value \in V2
                   /\ Step(x) = Parsed((Head(x) % 128) + 128 * R[Tail(x)].value, R[Tail(x)].rest)
  <2>1. Head(x) \in Byte /\ Tail(x) \in Seq(Byte)
    BY <1>5, FirstByte
  <2>2. CASE ~Good(R[Tail(x)])
    BY <1>5, <2>1, <2>2, VarintCases
  <2>3. CASE Good(R[Tail(x)])
    <3>1. R[Tail(x)].value \in V /\ R[Tail(x)].rest \in Seq(Byte)
      BY <1>1, <2>1, <2>3, ResultCases
    <3>2. (Head(x) % 128) + 128 * R[Tail(x)].value \in V2
      <4> DEFINE h == Head(x)
                 m == R[Tail(x)].value
      <4>1. h \in Byte /\ ~(h < 128) /\ m \in V
        BY <1>5, <2>1, <3>1
      <4> HIDE DEF h, m
      <4>2. (h % 128) + 128 * m \in More(w, top, V)
        BY <4>1, MoreBytes
      <4> QED
        BY <4>2 DEF V2, h, m
    <3>3. Step(x) = Parsed((Head(x) % 128) + 128 * R[Tail(x)].value, R[Tail(x)].rest)
      BY <1>5, <2>3, VarintCases
    <3> QED
      BY <2>1, <2>3, <3>1, <3>2, <3>3
  <2> QED
    BY <2>2, <2>3
<1>6. Step(<< >>) = Failed("MalformedWire")
  BY VarintCases
<1> HIDE DEF Step
<1>7. Typed(P, R2, V2)
  <2>1. ASSUME NEW x \in Seq(Byte) PROVE Step(x) \in Results(V2)
    <3>1. Failed("MalformedWire") \in Results(V2)
      BY FailedIsResult DEF Errors
    <3>2. CASE x = << >>
      BY <1>6, <3>1, <3>2
    <3>3. CASE x # << >> /\ Head(x) < 128
      BY <1>4, <3>1, <3>3, ParsedIsResult
    <3>4. CASE x # << >> /\ ~(Head(x) < 128) /\ ~Good(R[Tail(x)])
      <4>1. Tail(x) \in Seq(Byte) /\ Step(x) = R[Tail(x)]
        BY <1>5, <3>4
      <4>2. PICK e \in Errors : R[Tail(x)] = Failed(e)
        BY <1>1, <3>4, <4>1, ResultCases
      <4> QED
        BY <4>1, <4>2, FailedIsResult
    <3>5. CASE x # << >> /\ ~(Head(x) < 128) /\ Good(R[Tail(x)])
      <4> DEFINE n == (Head(x) % 128) + 128 * R[Tail(x)].value
      <4>1. n \in V2 /\ R[Tail(x)].rest \in Seq(Byte) /\ Step(x) = Parsed(n, R[Tail(x)].rest)
        BY <1>5, <3>5
      <4> HIDE DEF n
      <4> QED
        BY <4>1, ParsedIsResult
    <3> QED
      BY <3>2, <3>3, <3>4, <3>5
  <2> QED
    BY <1>2, <1>3, <2>1 DEF Typed
<1>8. ReadsBack(P, R2, V2)
  <2> SUFFICES ASSUME NEW v \in V2, NEW rest \in Seq(Byte)
               PROVE  Step(P[v] \o rest) = Parsed(v, rest)
    <3>1. \A v \in V2, rest \in Seq(Byte) : P[v] \o rest \in Seq(Byte)
      BY <1>2
    <3> QED
      BY <1>3, <3>1 DEF ReadsBack
  <2>0. /\ v \in Nat /\ P[v] \in Seq(Byte) /\ P[v] = Groups(P, v)
        /\ IF v < 128 THEN w = 1 => v <= top ELSE v \div 128 \in V
    BY <1>2
  <2>1. CASE v < 128
    <3> DEFINE x == << v >> \o rest
    <3>1. v \in Byte /\ P[v] = << v >>
      BY <2>0, <2>1 DEF Byte, Groups
    <3>2. x \in Seq(Byte) /\ x # << >> /\ Head(x) = v /\ Tail(x) = rest
      BY <3>1, Before
    <3> HIDE DEF x
    <3>3. ~(w = 1 /\ v > top)
      BY <2>0, <2>1
    <3>4. Step(x) = Parsed(v, rest)
      BY <1>4, <2>1, <3>2, <3>3
    <3> QED
      BY <3>1, <3>4 DEF x
  <2>2. CASE ~(v < 128)
    <3> DEFINE h == 128 + (v % 128)
               m == v \div 128
               y == P[m] \o rest
               x == << h >> \o y
    <3>1. h \in Byte /\ ~(h < 128) /\ (h % 128) + 128 * m = v
      BY <2>0 DEF Byte
    <3>2. m \in V /\ P[v] = << h >> \o P[m]
      BY <2>0, <2>2, Zenon DEF Groups
    <3> HIDE DEF h, m
    <3>3. P[m] \in Seq(Byte)
      BY <3>2, VarintGroups DEF P
    <3>4. y \in Seq(Byte) /\ P[v] \o rest = x
      <4>1. << h >> \in Seq(Byte)
        BY <3>1
      <4>2. (<< h >> \o P[m]) \o rest = << h >> \o (P[m] \o rest)
        BY <3>3, <4>1, Regrouped
      <4>3. y \in Seq(Byte)
        BY <3>3
      <4> QED
        BY <3>2, <4>2, <4>3, Zenon
    <3>5. R[y] = Parsed(m, rest)
      BY <1>1, <3>2 DEF ReadsBack
    <3> HIDE DEF y
    <3>6. x \in Seq(Byte) /\ x # << >> /\ Head(x) = h /\ Tail(x) = y
      BY <3>1, <3>4, Before
    <3> HIDE DEF x
    <3>7. Good(R[y]) /\ R[y].value = m /\ R[y].rest = rest
      BY <3>5, ResultFacts
    <3>8. Step(x) = Parsed((h % 128) + 128 * m, rest)
      BY <1>5, <3>1, <3>6, <3>7, Zenon
    <3> QED
      BY <3>1, <3>4, <3>8, Zenon
  <2> QED
    BY <2>1, <2>2
<1>9. ReadsOn(R2)
  <2> SUFFICES ASSUME NEW x \in Seq(Byte), NEW more \in Seq(Byte)
               PROVE  /\ Good(Step(x)) => Step(x \o more) = Parsed(Step(x).value, Step(x).rest \o more)
                      /\ Step(x) = Failed("BoundExceeded") => Step(x \o more) = Failed("BoundExceeded")
    <3>1. \A x \in Seq(Byte), more \in Seq(Byte) : x \o more \in Seq(Byte)
      OBVIOUS
    <3> QED
      BY <1>3, <3>1, Zenon DEF ReadsOn
  <2>1. ~Good(Failed("MalformedWire")) /\ Failed("MalformedWire") # Failed("BoundExceeded")
    BY ResultFacts DEF Errors
  <2>2. CASE x = << >>
    BY <1>6, <2>1, <2>2
  <2> DEFINE y == x \o more
  <2>3. ASSUME x # << >>
        PROVE  y \in Seq(Byte) /\ y # << >> /\ Head(y) = Head(x) /\ Tail(y) = Tail(x) \o more
    BY <2>3, FirstByte
  <2> HIDE DEF y
  <2>4. CASE x # << >> /\ Head(x) < 128
    <3>1. CASE Step(x) = Failed("MalformedWire")
      BY <2>1, <3>1
    <3>2. CASE Step(x) = Parsed(Head(x), Tail(x)) /\ Step(x) # Failed("MalformedWire")
      <4>1. Step(x).value = Head(x) /\ Step(x).rest = Tail(x) /\ Good(Step(x))
        BY <3>2, ResultFacts, ZenonT(40)
      <4>2. ~Good(Failed("BoundExceeded"))
        BY ResultFacts DEF Errors
      <4>3. ~(w = 1 /\ Head(x) > top)
        BY <2>4, <3>2, VarintCases DEF Step
      <4>4. Step(y) = Parsed(Head(x), Tail(x) \o more)
        BY <1>4, <2>3, <2>4, <4>3
      <4> QED
        BY <4>1, <4>2, <4>4 DEF y
    <3> QED
      BY <1>4, <2>4, <3>1, <3>2
  <2>5. CASE x # << >> /\ ~(Head(x) < 128)
    <3> DEFINE t == Tail(x)
               k == (Head(x) % 128) + 128 * R[t].value
    <3>1. /\ t \in Seq(Byte)
          /\ \/ ~Good(R[t]) /\ Step(x) = R[t]
             \/ Good(R[t]) /\ Step(x) = Parsed(k, R[t].rest)
      BY <1>5, <2>5
    <3>2. /\ ~(Head(y) < 128) /\ y # << >> /\ y \in Seq(Byte) /\ Tail(y) = t \o more
          /\ Head(y) = Head(x)
      BY <2>3, <2>5
    <3>3. /\ Good(R[t]) => R[t \o more] = Parsed(R[t].value, R[t].rest \o more)
          /\ R[t] = Failed("BoundExceeded") => R[t \o more] = Failed("BoundExceeded")
      BY <1>1, <3>1 DEF ReadsOn
    <3>4. ~Good(Failed("BoundExceeded"))
      BY ResultFacts DEF Errors
    <3>5. CASE ~Good(R[t])
      <4>1. Step(x) = R[t]
        BY <3>1, <3>5
      <4>2. SUFFICES ASSUME R[t] = Failed("BoundExceeded") PROVE Step(y) = Failed("BoundExceeded")
        BY <3>5, <4>1, Zenon DEF y
      <4>3. R[Tail(y)] = Failed("BoundExceeded")
        BY <3>2, <3>3, <4>2
      <4> QED
        BY <1>5, <3>2, <3>4, <4>3, SMTT(30)
    <3>6. CASE Good(R[t])
      <4>1. Step(x) = Parsed(k, R[t].rest)
        BY <3>1, <3>6
      <4>2. Step(x).value = k /\ Step(x).rest = R[t].rest /\ Step(x) # Failed("BoundExceeded")
        BY <3>4, <4>1, ResultFacts
      <4> HIDE DEF t
      <4>3. R[Tail(y)] = Parsed(R[t].value, R[t].rest \o more)
        BY <3>2, <3>3, <3>6
      <4>4. Good(R[Tail(y)]) /\ R[Tail(y)].value = R[t].value /\ R[Tail(y)].rest = R[t].rest \o more
        <5> DEFINE a == R[t].value
                   c == R[t].rest \o more
        <5> HIDE DEF a, c
        <5>1. Good(Parsed(a, c)) /\ Parsed(a, c).value = a /\ Parsed(a, c).rest = c
          BY ResultFacts
        <5> QED
          BY <4>3, <5>1 DEF a, c
      <4>5. Step(y) = Parsed(k, R[t].rest \o more)
        BY <1>5, <3>2, <4>4, Zenon
      <4> HIDE DEF k
      <4> QED
        BY <4>2, <4>5 DEF y
    <3> QED
      BY <3>5, <3>6
  <2> QED
    BY <2>2, <2>4, <2>5
<1>11. \A n \in V : n \in Nat
  OBVIOUS
<1>10. WritesShortest(P, R2)
  <2> SUFFICES ASSUME NEW x \in Seq(Byte), Good(Step(x))
               PROVE  \E used \in Seq(Byte) :
                        /\ x = used \o Step(x).rest
                        /\ P[Step(x).value] = used \/ Len(P[Step(x).value]) < Len(used)
    <3>1. SUFFICES ASSUME NEW x \in Seq(Byte), Good(R2[x])
                   PROVE  \E used \in Seq(Byte) : Within(P, R2, x, used)
      BY Zenon DEF WritesShortest
    <3>2. R2[x] = Step(x)
      BY <1>3
    <3>3. PICK used \in Seq(Byte) : /\ x = used \o Step(x).rest
                                    /\ P[Step(x).value] = used \/ Len(P[Step(x).value]) < Len(used)
      BY <3>1, <3>2, Zenon
    <3>4. Within(P, R2, x, used)
      <4>1. x = used \o R2[x].rest
        <5>1. R2[x].rest = Step(x).rest
          BY <3>2
        <5>2. x = used \o Step(x).rest
          BY <3>3
        <5> DEFINE r == R2[x].rest
                   q == Step(x).rest
        <5> HIDE DEF r, q
        <5> QED
          BY <5>1, <5>2 DEF r, q
      <4>2. P[R2[x].value] = used \/ Len(P[R2[x].value]) < Len(used)
        BY <3>2, <3>3, Zenon
      <4> QED
        BY <4>1, <4>2, Zenon DEF Within
    <3> QED
      BY <3>4
  <2>1. ~Good(Failed("MalformedWire"))
    BY ResultFacts DEF Errors
  <2>2. x # << >>
    BY <1>6, <2>1
  <2>3. CASE Head(x) < 128
    <3>1. Step(x) = Parsed(Head(x), Tail(x)) /\ Head(x) \in V2 /\ Head(x) \in Byte
      BY <1>4, <2>1, <2>2, <2>3
    <3>2. Step(x).value = Head(x) /\ Step(x).rest = Tail(x)
      BY <3>1, ResultFacts
    <3>3. P[Head(x)] = << Head(x) >>
      BY <1>2, <2>3, <3>1, Zenon DEF Groups
    <3>4. << Head(x) >> \in Seq(Byte) /\ x = << Head(x) >> \o Tail(x)
      BY <2>2, <3>1, FirstByte
    <3> QED
      BY <3>2, <3>3, <3>4, Zenon
  <2>4. CASE ~(Head(x) < 128)
    <3> DEFINE h == Head(x)
               t == Tail(x)
               m == R[t].value
               k == (h % 128) + 128 * m
    <3>1. /\ h \in Byte /\ t \in Seq(Byte) /\ Good(R[t]) /\ m \in V /\ R[t].rest \in Seq(Byte)
          /\ k \in V2 /\ Step(x) = Parsed(k, R[t].rest) /\ ~(h < 128)
      BY <1>5, <2>2, <2>4
    <3>2. Step(x).value = k /\ Step(x).rest = R[t].rest
      BY <3>1, ResultFacts
    <3>3. x = << h >> \o t
      BY <2>2, FirstByte
    <3> HIDE DEF h, t, m
    <3>4. PICK used \in Seq(Byte) : Within(P, R, t, used)
      BY <1>1, <3>1 DEF WritesShortest
    <3>5. t = used \o R[t].rest /\ (P[m] = used \/ Len(P[m]) < Len(used))
      BY <3>4 DEF Within, m
    <3> DEFINE all == << h >> \o used
    <3>6. all \in Seq(Byte) /\ Len(all) = 1 + Len(used)
      BY <3>1, Before
    <3>7. x = all \o R[t].rest
      <4>1. << h >> \in Seq(Byte)
        BY <3>1
      <4>2. all \o R[t].rest = << h >> \o (used \o R[t].rest)
        BY <3>1, <4>1, Regrouped
      <4> QED
        BY <3>3, <3>5, <4>2, Zenon
    <3>8. P[k] = IF m = 0 THEN << h % 128 >> ELSE << h >> \o P[m]
      <4>1. VarintBytes[(h % 128) + 128 * m] =
              IF m = 0 THEN << h % 128 >> ELSE << h >> \o VarintBytes[m]
        <5>1. h \in Byte /\ ~(h < 128) /\ m \in V
          BY <3>1
        <5> QED
          BY <1>11, <5>1, MoreGroups, ZenonT(40)
      <4> QED
        BY <4>1 DEF P
    <3>9. m \in Nat /\ P[m] \in Seq(Byte) /\ P[m] = Groups(P, m)
      BY <3>1, VarintGroups DEF P
    <3> HIDE DEF k
    <3>10. CASE m = 0
      <4>1. P[m] = << 0 >>
        BY <3>9, <3>10 DEF Groups
      <4>2. Len(P[m]) = 1 /\ Len(P[k]) = 1
        BY <3>8, <3>10, <4>1
      <4>3. Len(P[k]) < Len(all)
        BY <3>5, <3>6, <4>2
      <4> QED
        BY <3>2, <3>6, <3>7, <4>3, Zenon
    <3>11. CASE m # 0
      <4>1. P[k] = << h >> \o P[m] /\ Len(P[k]) = 1 + Len(P[m])
        BY <3>1, <3>8, <3>9, <3>11, Before
      <4>2. P[k] = all \/ Len(P[k]) < Len(all)
        BY <3>5, <3>6, <3>9, <4>1
      <4> QED
        BY <3>2, <3>6, <3>7, <4>2, Zenon
    <3> QED
      BY <3>10, <3>11
  <2> QED
    BY <2>3, <2>4
<1> QED
  BY <1>7, <1>8, <1>9, <1>10 DEF Codec, P, V2

\* Varints are written and read; those of two bytes, and of a u16, among them.
VarintReader(width, top) == [b \in Seq(Byte) |-> Varint(b, width, top)]

VarintRange(V, width, top) ==
  /\ V \in [0..width -> SUBSET Nat] /\ V[0] = {}
  /\ \A w \in 1..width : V[w] = More(w, top, V[w - 1])

LEMMA RangesExist ==
  ASSUME NEW width \in Nat, NEW top \in Nat
  PROVE  \E V : VarintRange(V, width, top)
<1> DEFINE S == SUBSET Nat
           G == [w \in 1..width |-> [U \in S |-> More(w, top, U)]]
<1>1. \A w, U : More(w, top, U) \in S
  BY DEF More
<1>2. G \in [1..width -> [S -> S]] /\ {} \in S
  BY <1>1
<1>3. \A w \in 1..width, U \in S : G[w][U] = More(w, top, U)
  OBVIOUS
<1> HIDE DEF S, G
<1>4. PICK V : Run(V, S, {}, width, G)
  <2>1. Steps(S, {}, width, G)
    BY <1>2 DEF Steps
  <2> QED
    BY <2>1, Recursion
<1>5. ASSUME NEW w \in 1..width PROVE V[w] = More(w, top, V[w - 1])
  <2>1. V[w] = G[w][V[w - 1]] /\ V[w - 1] \in S
    BY <1>4 DEF Run
  <2> QED
    BY <1>3, <2>1
<1>6. VarintRange(V, width, top)
  BY <1>4, <1>5 DEF VarintRange, Run, S
<1> QED
  BY <1>6

LEMMA NothingIsRead ==
  ASSUME NEW R, R = [x \in Seq(Byte) |-> Failed("MalformedWire")]
  PROVE  Codec(VarintBytes, R, {})
<1>1. Failed("MalformedWire") \in Results({})
  BY FailedIsResult DEF Errors
<1>2. Typed(VarintBytes, R, {})
  BY <1>1 DEF Typed
<1>3. ~Good(Failed("MalformedWire")) /\ Failed("MalformedWire") # Failed("BoundExceeded")
  BY ResultFacts DEF Errors
<1>4. ASSUME NEW b \in Seq(Byte) PROVE ~Good(R[b]) /\ R[b] # Failed("BoundExceeded")
  BY <1>3
<1>5. ReadsOn(R)
  BY <1>4, Zenon DEF ReadsOn
<1>6. WritesShortest(VarintBytes, R)
  BY <1>4, Zenon DEF WritesShortest
<1>7. ReadsBack(VarintBytes, R, {})
  BY DEF ReadsBack
<1> QED
  BY <1>2, <1>5, <1>6, <1>7 DEF Codec

LEMMA VarintCodec ==
  ASSUME NEW width \in Nat, NEW top \in Nat, NEW V, VarintRange(V, width, top)
  PROVE  Codec(VarintBytes, VarintReader(width, top), V[width])
<1> DEFINE R == VarintReader(width, top)
<1>1. PICK f : VarintRun(f, width, top) /\ \A b \in Seq(Byte) : Varint(b, width, top) = f[width][b]
  BY VarintRuns
<1>2. R = f[width]
  <2>1. R = [b \in Seq(Byte) |-> f[width][b]]
    BY <1>1 DEF VarintReader
  <2>2. f[width] = [b \in Seq(Byte) |-> f[width][b]]
    BY <1>1 DEF VarintRun
  <2> QED
    BY <2>1, <2>2
<1> DEFINE T == {w \in Nat : w <= width => Codec(VarintBytes, f[w], V[w])}
<1>3. 0 \in T
  <2>1. f[0] = [x \in Seq(Byte) |-> VarintStep(0, top, f[0 - 1], x)]
    BY <1>1 DEF VarintRun
  <2>2. \A x : VarintStep(0, top, f[0 - 1], x) = Failed("MalformedWire")
    BY Zenon DEF VarintStep
  <2>3. f[0] = [x \in Seq(Byte) |-> Failed("MalformedWire")]
    BY <2>1, <2>2
  <2>4. V[0] = {}
    BY DEF VarintRange
  <2>5. Codec(VarintBytes, f[0], V[0])
    BY <2>3, <2>4, NothingIsRead
  <2> QED
    BY <2>5
<1>4. ASSUME NEW w \in T PROVE w + 1 \in T
  <2>1. SUFFICES ASSUME w + 1 <= width PROVE Codec(VarintBytes, f[w + 1], V[w + 1])
    OBVIOUS
  <2>2. w \in Nat /\ Codec(VarintBytes, f[w], V[w]) /\ w + 1 \in 1..width /\ w \in 0..width
        /\ (w + 1) - 1 = w
    BY <2>1
  <2> HIDE DEF T
  <2>3. V[w] \in SUBSET Nat /\ V[w + 1] = More(w + 1, top, V[w])
    BY <2>2 DEF VarintRange
  <2>4. f[w + 1] = [x \in Seq(Byte) |-> VarintStep(w + 1, top, f[w], x)]
    <3>1. f[w + 1] = [x \in Seq(Byte) |-> VarintStep(w + 1, top, f[(w + 1) - 1], x)]
      BY <1>1, <2>2 DEF VarintRun
    <3> QED
      BY <2>2, <3>1
  <2>5. w + 1 = 1 => V[w] = {}
    BY <2>2 DEF VarintRange
  <2> DEFINE u == w + 1
             U == V[w]
             r == f[w]
             r2 == f[w + 1]
  <2>6. /\ u \in Nat \ {0} /\ U \in SUBSET Nat /\ (u = 1 => U = {}) /\ Codec(VarintBytes, r, U)
        /\ r2 = [x \in Seq(Byte) |-> VarintStep(u, top, r, x)]
    BY <2>2, <2>3, <2>4, <2>5
  <2> HIDE DEF u, U, r, r2
  <2>7. Codec(VarintBytes, r2, More(u, top, U))
    BY <2>6, VarintCodecStep
  <2> QED
    BY <2>3, <2>7 DEF u, U, r2
<1>5. T = Nat
  <2> HIDE DEF T
  <2>1. T \subseteq Nat
    BY DEF T
  <2> QED
    BY <1>3, <1>4, <2>1, Induction
<1> QED
  BY <1>2, <1>5

LEMMA Limits == U16_MAX \in Nat /\ U16_MAX = 65535 /\ TWO_BYTES \in Nat /\ TWO_BYTES = 16383
  BY DEF U16_MAX, TWO_BYTES

LEMMA UpToLimit ==
  ASSUME NEW limit \in Nat, NEW n \in 0..limit
  PROVE  n \in Nat /\ n <= limit /\ n \in 0..n
OBVIOUS

LEMMA WithinLimits ==
  /\ \A n \in 0..U16_MAX : n \in Nat /\ n <= U16_MAX
  /\ \A n \in 0..TWO_BYTES : n \in Nat /\ n <= TWO_BYTES /\ n \in 0..n
<1>1. U16_MAX \in Nat /\ TWO_BYTES \in Nat
  BY DEF U16_MAX, TWO_BYTES
<1> QED
  BY <1>1, UpToLimit

LEMMA LengthCodec ==
  \E V \in SUBSET Nat : /\ 0..TWO_BYTES \subseteq V
                        /\ Codec(VarintBytes, VarintReader(LenWidth, 1), V)
<1> DEFINE n == LenWidth
<1>1. n \in Nat /\ n >= 3
  BY WidthAssumption
<1> HIDE DEF n
<1>2. PICK V : VarintRange(V, n, 1)
  BY <1>1, RangesExist
<1> DEFINE W == V[n]
<1>3. Codec(VarintBytes, VarintReader(n, 1), W)
  BY <1>1, <1>2, VarintCodec
<1>4. W \in SUBSET Nat /\ W = More(n, 1, V[n - 1]) /\ V[n - 1] = More(n - 1, 1, V[n - 2])
  <2>1. n \in 1..n /\ n - 1 \in 1..n /\ (n - 1) - 1 = n - 2 /\ n \in 0..n
    BY <1>1
  <2> QED
    BY <1>2, <2>1 DEF VarintRange
<1> HIDE DEF W
<1>5. ASSUME NEW m \in 0..TWO_BYTES PROVE m \in W
  <2>0. m \in Nat /\ m <= 16383
    BY Limits
  <2>1. m \div 128 < 128 /\ m \div 128 \in Nat
    BY <2>0
  <2>2. m \div 128 \in V[n - 1]
    BY <1>1, <1>4, <2>1 DEF More
  <2> QED
    BY <1>1, <1>4, <2>0, <2>2 DEF More
<1>6. 0..TWO_BYTES \subseteq W
  BY <1>5
<1> QED
  BY <1>3, <1>4, <1>6 DEF n

LEMMA U16Codec == Codec(VarintBytes, VarintReader(3, 3), 0..U16_MAX)
<1>1. PICK V : VarintRange(V, 3, 3)
  BY RangesExist
<1> DEFINE W == V[3]
<1>2. Codec(VarintBytes, VarintReader(3, 3), W)
  BY <1>1, VarintCodec
<1>3. /\ V[0] = {} /\ V[1] = More(1, 3, V[0]) /\ V[2] = More(2, 3, V[1])
      /\ W = More(3, 3, V[2]) /\ W \in SUBSET Nat
  BY <1>1 DEF VarintRange
<1> HIDE DEF W
<1>4. ASSUME NEW m \in Nat PROVE m \in W <=> m <= U16_MAX
  <2> DEFINE g == m \div 128
             h == g \div 128
  <2>1. g \in Nat /\ h \in Nat /\ (h <= 3 <=> m <= 65535) /\ (g < 128 => h = 0)
        /\ (m < 128 => g = 0)
    OBVIOUS
  <2> HIDE DEF g, h
  <2>2. h \in V[1] <=> h <= 3
    BY <1>3, <2>1 DEF More
  <2>3. g \in V[2] <=> h <= 3
    BY <1>3, <2>1, <2>2 DEF More, h
  <2>4. m \in W <=> h <= 3
    BY <1>3, <2>1, <2>3 DEF More, g
  <2> QED
    BY <2>1, <2>4, Limits
<1>5. W = 0..U16_MAX
  <2>1. U16_MAX \in Nat
    BY Limits
  <2>2. ASSUME NEW m PROVE m \in W <=> m \in 0..U16_MAX
    <3>1. CASE m \in Nat
      BY <1>4, <2>1, <3>1
    <3>2. CASE m \notin Nat
      BY <1>3, <2>1, <3>2
    <3> QED
      BY <3>1, <3>2
  <2> DEFINE U == 0..U16_MAX
  <2>3. \A m : m \in W <=> m \in U
    BY <2>2
  <2> HIDE DEF U
  <2>4. W = U
    BY <2>3, Zenon
  <2> QED
    BY <2>4 DEF U
<1> QED
  BY <1>2, <1>5, Zenon


-----------------------------------------------------------------------------
(***************************************************************************)
(* Readers one after the other                                             *)
(***************************************************************************)
TurnStep(R, before) ==
  IF ~Good(before) THEN before
  ELSE LET r == R[before.rest]
       IN  IF ~Good(r) THEN r ELSE Parsed(Append(before.value, r.value), r.rest)

\* The first fails, the second fails, or none of them.
TurnOutcome(V, W, R, r, b) ==
  \/ ~Good(R[b]) /\ TurnStep(r, R[b]) = R[b]
  \/ /\ Good(R[b]) /\ R[b].value \in V /\ R[b].rest \in Seq(Byte)
     /\ ~Good(r[R[b].rest]) /\ TurnStep(r, R[b]) = r[R[b].rest]
  \/ /\ Good(R[b]) /\ R[b].value \in V /\ R[b].rest \in Seq(Byte)
     /\ Good(r[R[b].rest]) /\ r[R[b].rest].value \in W /\ r[R[b].rest].rest \in Seq(Byte)
     /\ TurnStep(r, R[b]) = Parsed(Append(R[b].value, r[R[b].rest].value), r[R[b].rest].rest)

LEMMA TurnCases ==
  ASSUME NEW V, NEW W, NEW R \in [Seq(Byte) -> Results(V)], NEW r \in [Seq(Byte) -> Results(W)],
         NEW b \in Seq(Byte)
  PROVE  TurnOutcome(V, W, R, r, b)
<1> DEFINE u == R[b]
           v == r[u.rest]
           s == TurnStep(r, R[b])
<1>1. s = IF ~Good(u) THEN u ELSE IF ~Good(v) THEN v ELSE Parsed(Append(u.value, v.value), v.rest)
  BY Zenon DEF TurnStep
<1>2. u \in Results(V) /\ \A x \in Seq(Byte) : r[x] \in Results(W)
  OBVIOUS
<1> HIDE DEF u, s
<1>3. Good(u) => u.value \in V /\ u.rest \in Seq(Byte)
  BY <1>2, ResultCases
<1>4. Good(u) => v \in Results(W)
  BY <1>2, <1>3
<1> HIDE DEF v
<1>5. Good(u) /\ Good(v) => v.value \in W /\ v.rest \in Seq(Byte)
  BY <1>4, ResultCases
<1> QED
  BY <1>1, <1>3, <1>5, Zenon DEF u, v, s, TurnOutcome

\* What the one and the other have used up.
Joint(b, c, t, u1, u2, p, q, w) ==
  /\ {c, t, p, q, u1, u2} \subseteq Seq(Byte)
  /\ b = u1 \o c /\ c = u2 \o t /\ w = p \o q
  /\ p = u1 \/ Len(p) < Len(u1)
  /\ q = u2 \/ Len(q) < Len(u2)

LEMMA Joined ==
  ASSUME NEW b, NEW c, NEW t, NEW u1, NEW u2, NEW p, NEW q, NEW w, Joint(b, c, t, u1, u2, p, q, w)
  PROVE  \E used \in Seq(Byte) : b = used \o t /\ (w = used \/ Len(w) < Len(used))
<1>0. /\ c \in Seq(Byte) /\ t \in Seq(Byte) /\ p \in Seq(Byte) /\ q \in Seq(Byte)
      /\ u1 \in Seq(Byte) /\ u2 \in Seq(Byte) /\ b = u1 \o c /\ c = u2 \o t /\ w = p \o q
      /\ (p = u1 \/ Len(p) < Len(u1)) /\ (q = u2 \/ Len(q) < Len(u2))
  BY DEF Joint
<1> DEFINE used == u1 \o u2
<1>1. used \in Seq(Byte) /\ Len(used) = Len(u1) + Len(u2)
  BY <1>0
<1>2. b = used \o t
  <2>1. b = u1 \o (u2 \o t)
    BY <1>0
  <2>2. used \o t = u1 \o (u2 \o t)
    <3>1. u1 \in Seq(Byte) /\ u2 \in Seq(Byte) /\ t \in Seq(Byte)
      BY <1>0
    <3>2. (u1 \o u2) \o t = u1 \o (u2 \o t)
      BY <3>1, Regrouped
    <3> QED
      BY <3>2
  <2> QED
    BY <2>1, <2>2, Zenon
<1>3. w = used \/ Len(w) < Len(used)
  <2>1. CASE p = u1 /\ q = u2
    BY <1>0, <2>1, Zenon
  <2>2. CASE Len(p) < Len(u1) \/ Len(q) < Len(u2)
    <3>1. Len(w) = Len(p) + Len(q)
      BY <1>0
    <3>2. Len(p) <= Len(u1) /\ Len(q) <= Len(u2)
      BY <1>0
    <3> DEFINE l1 == Len(p)
               l2 == Len(q)
               m1 == Len(u1)
               m2 == Len(u2)
    <3>3. /\ l1 \in Nat /\ l2 \in Nat /\ m1 \in Nat /\ m2 \in Nat
          /\ l1 <= m1 /\ l2 <= m2 /\ (l1 < m1 \/ l2 < m2)
          /\ Len(w) = l1 + l2 /\ Len(used) = m1 + m2
      BY <1>0, <1>1, <2>2, <3>1, <3>2
    <3> HIDE DEF used, l1, l2, m1, m2
    <3> QED
      BY <3>3
  <2> QED
    BY <1>0, <2>1, <2>2, Zenon
<1> HIDE DEF used
<1> QED
  BY <1>1, <1>2, <1>3

\* One more reader and one more writer.
Appended(V, W)   == {Append(s, x) : s \in V, x \in W}
Prolonged(r, R)  == [b \in Seq(Byte) |-> TurnStep(r, R[b])]
Appends(V, P, W, p, Q) == \A s \in V, x \in W : Q[Append(s, x)] = P[s] \o p[x]

Extended(U, V, P, R, W, p, r, V2, P2, R2) ==
  /\ V \in SUBSET Seq(U) /\ Codec(P, R, V)
  /\ W \in SUBSET U /\ Codec(p, r, W)
  /\ V2 = Appended(V, W) /\ Appends(V, P, W, p, P2) /\ R2 = Prolonged(r, R)

LEMMA OneMore ==
  ASSUME NEW U, NEW V, NEW P, NEW R, NEW W, NEW p, NEW r, NEW V2, NEW P2, NEW R2,
         Extended(U, V, P, R, W, p, r, V2, P2, R2)
  PROVE  Codec(P2, R2, V2)
<1> DEFINE Step(b) == TurnStep(r, R[b])
<1>0. /\ V \in SUBSET Seq(U) /\ W \in SUBSET U /\ Codec(P, R, V) /\ Codec(p, r, W)
      /\ V2 = Appended(V, W) /\ Appends(V, P, W, p, P2) /\ R2 = Prolonged(r, R)
  BY DEF Extended
<1>1. /\ R \in [Seq(Byte) -> Results(V)] /\ ReadsBack(P, R, V) /\ ReadsOn(R) /\ WritesShortest(P, R)
      /\ r \in [Seq(Byte) -> Results(W)] /\ ReadsBack(p, r, W) /\ ReadsOn(r) /\ WritesShortest(p, r)
      /\ (\A s \in V : P[s] \in Seq(Byte)) /\ (\A x \in W : p[x] \in Seq(Byte))
  BY <1>0 DEF Codec, Typed
<1>2. \A b \in Seq(Byte) : R2[b] = Step(b)
  BY <1>0 DEF Prolonged
<1>3. ASSUME NEW b \in Seq(Byte)
      PROVE  \/ ~Good(R[b]) /\ Step(b) = R[b]
             \/ /\ Good(R[b]) /\ R[b].value \in V /\ R[b].rest \in Seq(Byte)
                /\ ~Good(r[R[b].rest]) /\ Step(b) = r[R[b].rest]
             \/ /\ Good(R[b]) /\ R[b].value \in V /\ R[b].rest \in Seq(Byte)
                /\ Good(r[R[b].rest]) /\ r[R[b].rest].value \in W
                /\ r[R[b].rest].rest \in Seq(Byte)
                /\ Step(b) = Parsed(Append(R[b].value, r[R[b].rest].value), r[R[b].rest].rest)
  <2>1. R \in [Seq(Byte) -> Results(V)] /\ r \in [Seq(Byte) -> Results(W)]
    BY <1>1
  <2>2. TurnOutcome(V, W, R, r, b)
    BY <2>1, TurnCases
  <2> QED
    BY <2>2, Zenon DEF TurnOutcome
<1> HIDE DEF Step
<1>4. ASSUME NEW s \in V, NEW x \in W PROVE Append(s, x) \in V2 /\ P2[Append(s, x)] = P[s] \o p[x]
  <2>1. Append(s, x) \in V2
    BY <1>0 DEF Appended
  <2>2. P2[Append(s, x)] = P[s] \o p[x]
    BY <1>0 DEF Appends
  <2> QED
    BY <2>1, <2>2
<1>5. ASSUME NEW v \in V2
      PROVE  \E s \in V, x \in W : v = Append(s, x)
  BY <1>0 DEF Appended
<1>6. Typed(P2, R2, V2)
  <2>1. ASSUME NEW v \in V2 PROVE P2[v] \in Seq(Byte)
    <3>1. PICK s \in V, x \in W : v = Append(s, x)
      BY <1>5
    <3>2. P2[v] = P[s] \o p[x] /\ P[s] \in Seq(Byte) /\ p[x] \in Seq(Byte)
      BY <1>1, <1>4, <3>1
    <3> QED
      BY <3>2
  <2>2. ASSUME NEW b \in Seq(Byte) PROVE Step(b) \in Results(V2)
    <3>1. CASE ~Good(R[b])
      <4>1. PICK e \in Errors : R[b] = Failed(e)
        BY <1>1, <3>1, ResultCases
      <4> QED
        BY <1>3, <3>1, <4>1, FailedIsResult
    <3> DEFINE c == R[b].rest
    <3>2. CASE Good(R[b]) /\ ~Good(r[c])
      <4>1. c \in Seq(Byte) /\ Step(b) = r[c]
        BY <1>3, <3>2
      <4> HIDE DEF c
      <4>2. PICK e \in Errors : r[c] = Failed(e)
        BY <1>1, <3>2, <4>1, ResultCases
      <4> QED
        BY <4>1, <4>2, FailedIsResult
    <3>3. CASE Good(R[b]) /\ Good(r[c])
      <4>1. /\ R[b].value \in V /\ r[c].value \in W /\ r[c].rest \in Seq(Byte)
            /\ Step(b) = Parsed(Append(R[b].value, r[c].value), r[c].rest)
        BY <1>3, <3>3
      <4>2. Append(R[b].value, r[c].value) \in V2
        BY <1>4, <4>1
      <4> QED
        BY <4>1, <4>2, ParsedIsResult
    <3> QED
      BY <3>1, <3>2, <3>3
  <2> QED
    BY <1>0, <1>2, <2>1, <2>2 DEF Typed, Prolonged
<1>7. ReadsBack(P2, R2, V2)
  <2>1. ASSUME NEW v \in V2, NEW rest \in Seq(Byte) PROVE R2[P2[v] \o rest] = Parsed(v, rest)
    <3>1. PICK s \in V, x \in W : v = Append(s, x)
      BY <1>5
    <3> DEFINE y == p[x] \o rest
               z == P[s] \o y
    <3>2. P2[v] = P[s] \o p[x] /\ P[s] \in Seq(Byte) /\ p[x] \in Seq(Byte)
      BY <1>1, <1>4, <3>1
    <3>3. y \in Seq(Byte) /\ z \in Seq(Byte) /\ P2[v] \o rest = z
      <4>1. y \in Seq(Byte)
        BY <3>2
      <4>2. (P[s] \o p[x]) \o rest = P[s] \o (p[x] \o rest)
        BY <3>2, Regrouped
      <4>3. z \in Seq(Byte)
        BY <3>2, <4>1
      <4> QED
        BY <3>2, <4>1, <4>2, <4>3, Zenon
    <3>4. R[z] = Parsed(s, y)
      BY <1>1, <3>3 DEF ReadsBack
    <3>5. r[y] = Parsed(x, rest)
      BY <1>1 DEF ReadsBack
    <3> HIDE DEF y, z
    <3>6. Good(R[z]) /\ R[z].value = s /\ R[z].rest = y
      BY <3>4, ResultFacts
    <3>7. Good(r[y]) /\ r[y].value = x /\ r[y].rest = rest
      BY <3>5, ResultFacts
    <3>8. Step(z) = Parsed(Append(s, x), rest)
      BY <1>3, <3>3, <3>6, <3>7
    <3> QED
      BY <1>2, <3>1, <3>3, <3>8
  <2> QED
    BY <2>1 DEF ReadsBack
<1>8. ReadsOn(R2)
  <2>1. ASSUME NEW b \in Seq(Byte), NEW more \in Seq(Byte)
        PROVE  /\ Good(Step(b)) => Step(b \o more) = Parsed(Step(b).value, Step(b).rest \o more)
               /\ Step(b) = Failed("BoundExceeded") => Step(b \o more) = Failed("BoundExceeded")
    <3> DEFINE y == b \o more
               u == R[b]
               c == u.rest
    <3>0. ~Good(Failed("BoundExceeded")) /\ y \in Seq(Byte)
      BY ResultFacts DEF Errors
    <3>1. /\ Good(u) => R[y] = Parsed(u.value, u.rest \o more)
          /\ u = Failed("BoundExceeded") => R[y] = Failed("BoundExceeded")
      BY <1>1 DEF ReadsOn
    <3>2. CASE ~Good(u)
      <4>1. Step(b) = u
        BY <1>3, <3>2
      <4>2. ASSUME u = Failed("BoundExceeded") PROVE Step(y) = Failed("BoundExceeded")
        <5>1. R[y] = Failed("BoundExceeded") /\ ~Good(R[y])
          BY <3>0, <3>1, <4>2
        <5> HIDE DEF y
        <5> QED
          BY <1>3, <3>0, <5>1
      <4> QED
        BY <3>2, <4>1, <4>2
    <3>3. CASE Good(u)
      <4>1. c \in Seq(Byte) /\ u.value \in V
        BY <1>3, <3>3
      <4> DEFINE d == c \o more
                 k == u.value
      <4>2. R[y] = Parsed(k, d) /\ d \in Seq(Byte)
        BY <3>1, <3>3, <4>1
      <4>3. /\ Good(r[c]) => r[d] = Parsed(r[c].value, r[c].rest \o more)
            /\ r[c] = Failed("BoundExceeded") => r[d] = Failed("BoundExceeded")
        BY <1>1, <4>1 DEF ReadsOn
      <4> HIDE DEF d, k, y
      <4>4. Good(R[y]) /\ R[y].value = k /\ R[y].rest = d
        BY <4>2, ResultFacts
      <4>5. CASE ~Good(r[c])
        <5>1. Step(b) = r[c]
          BY <1>3, <3>3, <4>5
        <5>2. ASSUME r[c] = Failed("BoundExceeded") PROVE Step(y) = Failed("BoundExceeded")
          <6>1. r[d] = Failed("BoundExceeded") /\ ~Good(r[d])
            BY <3>0, <4>3, <5>2
          <6> QED
            BY <1>3, <3>0, <4>4, <6>1
        <5> QED
          BY <4>5, <5>1, <5>2 DEF y
      <4>6. CASE Good(r[c])
        <5> DEFINE x == r[c].value
                   t == r[c].rest
                   q == Append(k, x)
        <5>1. Step(b) = Parsed(q, t)
          BY <1>3, <3>3, <4>6 DEF k
        <5>2. r[d] = Parsed(x, t \o more)
          BY <4>3, <4>6
        <5> HIDE DEF x, t
        <5> DEFINE w == t \o more
        <5> HIDE DEF w
        <5>3. Good(r[d]) /\ r[d].value = x /\ r[d].rest = w
          <6>1. r[d] = Parsed(x, w)
            BY <5>2 DEF w
          <6> DEFINE z == r[d]
          <6> HIDE DEF z
          <6>2. z = Parsed(x, w)
            BY <6>1 DEF z
          <6>3. Good(z) /\ z.value = x /\ z.rest = w
            BY <6>2, ParsedParts
          <6> QED
            BY <6>3 DEF z
        <5>4. Step(y) = Parsed(q, w)
          BY <1>3, <3>0, <4>4, <5>3
        <5> HIDE DEF q
        <5>5. Step(b).value = q /\ Step(b).rest = t /\ Step(b) # Failed("BoundExceeded")
          BY <3>0, <5>1, ResultFacts
        <5> QED
          BY <5>4, <5>5 DEF y, w
      <4> QED
        BY <4>5, <4>6
    <3> QED
      BY <3>2, <3>3
  <2>2. \A b \in Seq(Byte), more \in Seq(Byte) : b \o more \in Seq(Byte)
    OBVIOUS
  <2> QED
    BY <1>2, <2>1, <2>2, Zenon DEF ReadsOn
<1>9. WritesShortest(P2, R2)
  <2>1. ASSUME NEW b \in Seq(Byte), Good(R2[b])
        PROVE  \E used \in Seq(Byte) : Within(P2, R2, b, used)
    <3> DEFINE u == R[b]
               c == u.rest
               k == u.value
               x == r[c].value
               t == r[c].rest
    <3>1. /\ Good(u) /\ k \in V /\ c \in Seq(Byte)
          /\ Good(r[c]) /\ x \in W /\ t \in Seq(Byte)
          /\ R2[b] = Parsed(Append(k, x), t)
      BY <1>2, <1>3, <2>1
    <3>2. PICK u1 \in Seq(Byte) : Within(P, R, b, u1)
      BY <1>1, <3>1 DEF WritesShortest
    <3>3. PICK u2 \in Seq(Byte) : Within(p, r, c, u2)
      BY <1>1, <3>1 DEF WritesShortest
    <3>4. b = u1 \o c /\ (P[k] = u1 \/ Len(P[k]) < Len(u1))
      BY <3>2, Zenon DEF Within
    <3>5. c = u2 \o t /\ (p[x] = u2 \/ Len(p[x]) < Len(u2))
      BY <3>3, Zenon DEF Within
    <3> DEFINE used == u1 \o u2
    <3> HIDE DEF u, c, k, x, t
    <3>6. used \in Seq(Byte) /\ Len(used) = Len(u1) + Len(u2) /\ b = used \o t
      <4>1. b = u1 \o (u2 \o t)
        BY <3>4, <3>5
      <4>2. used \o t = u1 \o (u2 \o t)
        BY <3>1, Regrouped, ZenonT(40)
      <4>3. used \in Seq(Byte) /\ Len(used) = Len(u1) + Len(u2)
        OBVIOUS
      <4> QED
        BY <4>1, <4>2, <4>3, Zenon
    <3> DEFINE v == Append(k, x)
    <3>7. P2[v] = P[k] \o p[x] /\ P[k] \in Seq(Byte) /\ p[x] \in Seq(Byte)
      BY <1>1, <1>4, <3>1
    <3>8. P2[v] = used \/ Len(P2[v]) < Len(used)
      <4>1. Len(P2[v]) = Len(P[k]) + Len(p[x])
        BY <3>7
      <4>2. Len(P[k]) \in Nat /\ Len(p[x]) \in Nat /\ Len(u1) \in Nat /\ Len(u2) \in Nat
        BY <3>7
      <4>3. CASE P[k] = u1 /\ p[x] = u2
        BY <3>7, <4>3, Zenon
      <4>4. CASE Len(P[k]) < Len(u1) \/ Len(p[x]) < Len(u2)
        <5>1. Len(P[k]) <= Len(u1) /\ Len(p[x]) <= Len(u2)
          BY <3>4, <3>5, <4>2
        <5> DEFINE l1 == Len(P[k])
                   l2 == Len(p[x])
                   m1 == Len(u1)
                   m2 == Len(u2)
        <5>2. Len(P2[v]) = l1 + l2 /\ Len(used) = m1 + m2
          BY <3>6, <4>1
        <5>3. /\ l1 \in Nat /\ l2 \in Nat /\ m1 \in Nat /\ m2 \in Nat
              /\ l1 <= m1 /\ l2 <= m2 /\ (l1 < m1 \/ l2 < m2)
          BY <4>2, <4>4, <5>1
        <5> HIDE DEF v, used, l1, l2, m1, m2
        <5>4. l1 + l2 < m1 + m2
          BY <5>3
        <5> QED
          BY <5>2, <5>4
      <4> QED
        BY <3>4, <3>5, <4>3, <4>4, Zenon
    <3> HIDE DEF v, used
    <3>9. R2[b].value = v /\ R2[b].rest = t
      <4>1. R2[b] = Parsed(v, t)
        BY <3>1 DEF v
      <4> DEFINE z == R2[b]
      <4> HIDE DEF z
      <4>2. z = Parsed(v, t)
        BY <4>1 DEF z
      <4>3. z.value = v /\ z.rest = t
        BY <4>2, ParsedParts
      <4> QED
        BY <4>3 DEF z
    <3>10. Within(P2, R2, b, used)
      <4> DEFINE z == R2[b]
      <4> HIDE DEF z
      <4>1. z.value = v /\ z.rest = t
        BY <3>9 DEF z
      <4>2. b = used \o z.rest
        BY <3>6, <4>1
      <4>3. P2[z.value] = used \/ Len(P2[z.value]) < Len(used)
        BY <3>8, <4>1
      <4> QED
        BY <4>2, <4>3, Zenon DEF Within, z
    <3> QED
      BY <3>6, <3>10
  <2> QED
    BY <2>1, Zenon DEF WritesShortest
<1> QED
  BY <1>6, <1>7, <1>8, <1>9 DEF Codec

\* Nothing is read by no reader.
LEMMA NoReader ==
  ASSUME NEW P, P[<< >>] = << >>, NEW R, R = [b \in Seq(Byte) |-> Parsed(<< >>, b)]
  PROVE  Codec(P, R, {<< >>})
<1>1. ASSUME NEW b \in Seq(Byte)
      PROVE  R[b] = Parsed(<< >>, b) /\ Good(R[b]) /\ R[b].value = << >> /\ R[b].rest = b
  BY ResultFacts
<1>2. Typed(P, R, {<< >>})
  <2>1. ASSUME NEW b \in Seq(Byte) PROVE Parsed(<< >>, b) \in Results({<< >>})
    BY ParsedIsResult
  <2>2. << >> \in Seq(Byte)
    OBVIOUS
  <2> QED
    BY <2>1, <2>2 DEF Typed
<1>3. \A s \in Seq(Byte) : << >> \o s = s
  OBVIOUS
<1>4. ReadsBack(P, R, {<< >>})
  <2>1. ASSUME NEW v \in {<< >>}, NEW rest \in Seq(Byte) PROVE R[P[v] \o rest] = Parsed(v, rest)
    <3>1. P[v] \o rest = rest /\ v = << >>
      BY <1>3
    <3> QED
      BY <1>1, <3>1
  <2> QED
    BY <2>1 DEF ReadsBack
<1>5. ReadsOn(R)
  <2>1. \A b \in Seq(Byte), more \in Seq(Byte) : b \o more \in Seq(Byte)
    OBVIOUS
  <2>2. ~Good(Failed("BoundExceeded"))
    BY ResultFacts DEF Errors
  <2>3. ASSUME NEW b \in Seq(Byte), NEW more \in Seq(Byte)
        PROVE  /\ Good(R[b]) => R[b \o more] = Parsed(R[b].value, R[b].rest \o more)
               /\ R[b] = Failed("BoundExceeded") => R[b \o more] = Failed("BoundExceeded")
    <3>1. b \o more \in Seq(Byte)
      BY <2>1
    <3>2. R[b \o more] = Parsed(<< >>, b \o more)
      BY <1>1, <3>1
    <3>3. Good(R[b]) /\ R[b].value = << >> /\ R[b].rest = b
      BY <1>1
    <3> QED
      BY <2>2, <3>2, <3>3
  <2> QED
    BY <2>3, Zenon DEF ReadsOn
<1>6. WritesShortest(P, R)
  <2>1. ASSUME NEW b \in Seq(Byte) PROVE Within(P, R, b, << >>)
    <3>1. b = << >> \o R[b].rest
      BY <1>1, <1>3
    <3>2. P[R[b].value] = << >>
      BY <1>1
    <3> QED
      BY <3>1, <3>2, Zenon DEF Within
  <2>2. << >> \in Seq(Byte)
    OBVIOUS
  <2> QED
    BY <2>1, <2>2, Zenon DEF WritesShortest
<1> QED
  BY <1>2, <1>4, <1>5, <1>6 DEF Codec

\* Readers R and writers P of the values V, all values in U.
Line(n, U, V, P, R) ==
  /\ n \in Nat /\ V \in [1..n -> SUBSET U]
  /\ R \in [1..n -> [Seq(Byte) -> Results(U)]]
  /\ \A i \in 1..n : Codec(P[i], R[i], V[i])

Values(k, U, V) == {v \in Seq(U) : Len(v) = k /\ \A i \in 1..k : v[i] \in V[i]}

Parts(k, P, v) == [i \in 1..k |-> P[i][v[i]]]

TurnRun(f, n, U, R) ==
  /\ f \in [0..n -> [Seq(Byte) -> Results(Seq(U))]]
  /\ f[0] = [b \in Seq(Byte) |-> Parsed(<< >>, b)]
  /\ \A i \in 1..n : f[i] = [b \in Seq(Byte) |-> TurnStep(R[i], f[i - 1][b])]

LEMMA TurnStepTyped ==
  ASSUME NEW U, NEW r \in [Seq(Byte) -> Results(U)], NEW before \in Results(Seq(U))
  PROVE  TurnStep(r, before) \in Results(Seq(U))
<1> DEFINE u == before
           v == r[u.rest]
           s == TurnStep(r, u)
<1>1. s = IF ~Good(u) THEN u ELSE IF ~Good(v) THEN v ELSE Parsed(Append(u.value, v.value), v.rest)
  BY Zenon DEF TurnStep
<1> HIDE DEF s
<1>2. CASE ~Good(u)
  BY <1>1, <1>2 DEF s
<1>3. CASE Good(u)
  <2>1. u.value \in Seq(U) /\ u.rest \in Seq(Byte)
    BY <1>3, ResultCases
  <2>2. v \in Results(U)
    BY <2>1
  <2> HIDE DEF v
  <2>3. CASE ~Good(v)
    <3>1. PICK e \in Errors : v = Failed(e)
      BY <2>2, <2>3, ResultCases
    <3>2. Failed(e) \in Results(Seq(U))
      BY FailedIsResult
    <3> QED
      BY <1>1, <1>3, <2>3, <3>1, <3>2 DEF s
  <2>4. CASE Good(v)
    <3>1. v.value \in U /\ v.rest \in Seq(Byte)
      BY <2>2, <2>4, ResultCases
    <3>2. Append(u.value, v.value) \in Seq(U)
      BY <2>1, <3>1
    <3>3. Parsed(Append(u.value, v.value), v.rest) \in Results(Seq(U))
      BY <3>1, <3>2, ParsedIsResult
    <3> QED
      BY <1>1, <1>3, <2>4, <3>3 DEF s
  <2> QED
    BY <2>3, <2>4
<1> QED
  BY <1>2, <1>3

Readers(n, U, R) == n \in Nat /\ R \in [1..n -> [Seq(Byte) -> Results(U)]]

LEMMA TurnRuns ==
  ASSUME NEW n, NEW U, NEW R, Readers(n, U, R)
  PROVE  \E f : TurnRun(f, n, U, R) /\ \A b \in Seq(Byte) : InTurn(R, b) = f[n][b]
<1> USE DEF Readers
<1> DEFINE S == [Seq(Byte) -> Results(Seq(U))]
           Next(i, F) == [b \in Seq(Byte) |-> TurnStep(R[i], F[b])]
           first == [b \in Seq(Byte) |-> Parsed(<< >>, b)]
           G == [i \in 1..n |-> [F \in S |-> Next(i, F)]]
<1>1. first \in S
  <2>1. << >> \in Seq(U)
    OBVIOUS
  <2>2. ASSUME NEW b \in Seq(Byte) PROVE Parsed(<< >>, b) \in Results(Seq(U))
    BY <2>1, ParsedIsResult
  <2> QED
    BY <2>2
<1>2. ASSUME NEW i \in 1..n, NEW F \in S PROVE Next(i, F) \in S
  <2>1. ASSUME NEW b \in Seq(Byte) PROVE TurnStep(R[i], F[b]) \in Results(Seq(U))
    <3>1. R[i] \in [Seq(Byte) -> Results(U)] /\ F[b] \in Results(Seq(U))
      OBVIOUS
    <3> QED
      BY <3>1, TurnStepTyped
  <2> QED
    BY <2>1
<1> HIDE DEF S, Next, first
<1>3. G \in [1..n -> [S -> S]]
  BY <1>2
<1>4. \A i \in 1..n, F \in S : G[i][F] = Next(i, F)
  OBVIOUS
<1> HIDE DEF G
<1>5. PICK f : Run(f, S, first, n, G)
  <2>1. Steps(S, first, n, G)
    BY <1>1, <1>3 DEF Steps
  <2> QED
    BY <2>1, Recursion
<1>6. ASSUME NEW i \in 1..n PROVE f[i] = Next(i, f[i - 1])
  <2>1. f[i] = G[i][f[i - 1]] /\ f[i - 1] \in S
    BY <1>5 DEF Run
  <2> QED
    BY <1>4, <2>1
<1>7. TurnRun(f, n, U, R)
  BY <1>5, <1>6 DEF TurnRun, Run, S, first, Next
<1>8. ASSUME NEW b \in Seq(Byte) PROVE InTurn(R, b) = f[n][b]
  <2> DEFINE Step(g, i) == IF i = 0 THEN Parsed(<< >>, b) ELSE TurnStep(R[i], g[i - 1])
             g == [i \in 0..n |-> f[i][b]]
             h == CHOOSE x : x = [i \in 0..n |-> Step(x, i)]
  <2>1. ASSUME NEW i \in 1..n PROVE f[i][b] = TurnStep(R[i], f[i - 1][b])
    BY <1>6 DEF Next
  <2>2. f[0][b] = Parsed(<< >>, b)
    BY <1>5 DEF Run, first
  <2>3. ASSUME NEW i \in 0..n PROVE g[i] = Step(g, i)
    <3>1. CASE i = 0
      BY <2>2, <3>1
    <3>2. CASE i # 0
      <4>1. i \in 1..n /\ i - 1 \in 0..n
        BY <3>2
      <4> QED
        BY <2>1, <3>2, <4>1
    <3> QED
      BY <3>1, <3>2
  <2>4. g[n] = f[n][b]
    OBVIOUS
  <2>5. g = [i \in 0..n |-> Step(g, i)]
    BY <2>3
  <2>6. Len(R) = n
    OBVIOUS
  <2>7. InTurn(R, b) = h[n]
    BY <2>6, Zenon DEF InTurn, TurnStep
  <2> HIDE DEF g, Step
  <2>8. h = [i \in 0..n |-> Step(h, i)]
    BY <2>5
  <2> HIDE DEF h
  <2>9. \A i \in 0..n : h[i] = Step(h, i)
    BY <2>8
  <2>10. Agree(n, h, g)
    <3>1. h[0] = g[0]
      BY <2>3, <2>9 DEF Step
    <3>2. ASSUME NEW i \in 1..n, h[i - 1] = g[i - 1] PROVE h[i] = g[i]
      BY <2>3, <2>9, <3>2 DEF Step
    <3>3. Alike(n, h, g)
      BY <3>1, <3>2 DEF Alike
    <3> QED
      BY <3>3, SameRun
  <2>11. h[n] = g[n]
    BY <2>10 DEF Agree
  <2> QED
    BY <2>4, <2>7, <2>11
<1> QED
  BY <1>7, <1>8

\* Only what is written of the values matters.
LEMMA SameWriter ==
  ASSUME NEW V, NEW P, NEW R, Codec(P, R, V), NEW Q, \A v \in V : Q[v] = P[v]
  PROVE  Codec(Q, R, V)
<1>1. Typed(P, R, V) /\ ReadsBack(P, R, V) /\ ReadsOn(R) /\ WritesShortest(P, R)
  BY DEF Codec
<1>2. Typed(Q, R, V)
  <2>1. R \in [Seq(Byte) -> Results(V)] /\ \A v \in V : P[v] \in Seq(Byte)
    BY <1>1 DEF Typed
  <2>2. \A v \in V : Q[v] \in Seq(Byte)
    BY <2>1
  <2> QED
    BY <2>1, <2>2 DEF Typed
<1>3. ReadsBack(Q, R, V)
  <2>1. ASSUME NEW v \in V, NEW rest \in Seq(Byte) PROVE R[Q[v] \o rest] = Parsed(v, rest)
    <3>1. R[P[v] \o rest] = Parsed(v, rest) /\ Q[v] = P[v]
      BY <1>1 DEF ReadsBack
    <3> DEFINE z == P[v]
    <3> HIDE DEF z
    <3>2. Q[v] = z /\ R[z \o rest] = Parsed(v, rest)
      BY <3>1 DEF z
    <3> QED
      BY <3>2
  <2> QED
    BY <2>1 DEF ReadsBack
<1>4. WritesShortest(Q, R)
  <2>1. ASSUME NEW b \in Seq(Byte), Good(R[b])
        PROVE  \E used \in Seq(Byte) : Within(Q, R, b, used)
    <3>1. PICK used \in Seq(Byte) : Within(P, R, b, used)
      BY <1>1, <2>1 DEF WritesShortest
    <3>2. R[b].value \in V
      <4>1. R[b] \in Results(V)
        BY <1>1 DEF Typed
      <4> QED
        BY <2>1, <4>1, ResultCases
    <3>3. Q[R[b].value] = P[R[b].value]
      BY <3>2
    <3>4. Within(Q, R, b, used)
      <4>1. b = used \o R[b].rest
        BY <3>1, Zenon DEF Within
      <4>2. P[R[b].value] = used \/ Len(P[R[b].value]) < Len(used)
        BY <3>1, Zenon DEF Within
      <4>3. Q[R[b].value] = used \/ Len(Q[R[b].value]) < Len(used)
        BY <3>3, <4>2, Zenon
      <4> QED
        BY <4>1, <4>3, Zenon DEF Within
    <3> QED
      BY <3>4
  <2> QED
    BY <2>1, Zenon DEF WritesShortest
<1> QED
  BY <1>1, <1>2, <1>3, <1>4 DEF Codec

\* The last value is the last reader's.
Place(k, n, U, V, P) ==
  /\ n \in Nat /\ V \in [1..n -> SUBSET U] /\ k \in Nat /\ k + 1 <= n
  /\ \A i \in 1..n : \A x \in V[i] : P[i][x] \in Seq(Byte)

LEMMA LastValue ==
  ASSUME NEW k, NEW n, NEW U, NEW V, NEW P, Place(k, n, U, V, P)
  PROVE  Values(k + 1, U, V) = {Append(s, x) : s \in Values(k, U, V), x \in V[k + 1]}
<1> DEFINE A == Values(k + 1, U, V)
           B == {Append(s, x) : s \in Values(k, U, V), x \in V[k + 1]}
<1>0. V[k + 1] \in SUBSET U /\ k \in Nat
  BY DEF Place
<1>1. ASSUME NEW v \in A PROVE v \in B
  <2>1. v \in Seq(U) /\ Len(v) = k + 1 /\ \A i \in 1..(k + 1) : v[i] \in V[i]
    BY <1>0 DEF Values
  <2> DEFINE s == [i \in 1..k |-> v[i]]
  <2>2. s \in Seq(U) /\ Len(s) = k /\ \A i \in 1..k : s[i] = v[i]
    BY <1>0, <2>1
  <2> HIDE DEF s
  <2>3. Append(s, v[k + 1]) = v
    BY <1>0, <2>1, <2>2
  <2>4. v[k + 1] \in V[k + 1]
    BY <1>0, <2>1
  <2>5. s \in Values(k, U, V)
    BY <2>1, <2>2 DEF Values
  <2> QED
    BY <2>3, <2>4, <2>5
<1>2. ASSUME NEW s \in Values(k, U, V), NEW x \in V[k + 1] PROVE Append(s, x) \in A
  <2>1. s \in Seq(U) /\ Len(s) = k /\ \A i \in 1..k : s[i] \in V[i]
    BY <1>0 DEF Values
  <2>2. x \in U
    BY <1>0
  <2> DEFINE v == Append(s, x)
  <2>3. v \in Seq(U) /\ Len(v) = k + 1 /\ v[k + 1] = x /\ \A i \in 1..k : v[i] = s[i]
    BY <1>0, <2>1, <2>2
  <2> HIDE DEF v
  <2>4. \A i \in 1..(k + 1) : v[i] \in V[i]
    BY <1>0, <2>1, <2>3
  <2>5. v \in A
    BY <2>3, <2>4 DEF Values
  <2> QED
    BY <2>5 DEF v
<1>3. \A y \in B : \E s \in Values(k, U, V), x \in V[k + 1] : y = Append(s, x)
  OBVIOUS
<1> HIDE DEF A, B
<1>4. \A y \in B : y \in A
  <2>1. ASSUME NEW y \in B PROVE y \in A
    <3>1. PICK s \in Values(k, U, V), x \in V[k + 1] : y = Append(s, x)
      BY <1>3
    <3> QED
      BY <1>2, <3>1
  <2> QED
    BY <2>1
<1>5. A = B
  BY <1>1, <1>4
<1> QED
  BY <1>5 DEF A, B

LEMMA LastPart ==
  ASSUME NEW k, NEW n, NEW U, NEW V, NEW P, Place(k, n, U, V, P)
  PROVE  \A s \in Values(k, U, V), x \in V[k + 1] :
           FlattenSeq(Parts(k + 1, P, Append(s, x))) = FlattenSeq(Parts(k, P, s)) \o P[k + 1][x]
<1> USE DEF Place
<1> TAKE s \in Values(k, U, V), x \in V[k + 1]
<1> DEFINE v == Append(s, x)
           t == Parts(k, P, s)
           u == Parts(k + 1, P, v)
<1>1. s \in Seq(U) /\ Len(s) = k /\ \A i \in 1..k : s[i] \in V[i]
  BY DEF Values
<1>2. v[k + 1] = x /\ \A i \in 1..k : v[i] = s[i]
  <2>1. x \in U
    OBVIOUS
  <2> QED
    BY <1>1, <2>1
<1> HIDE DEF v
<1>3. \A i \in 1..k : P[i][s[i]] \in Seq(Byte)
  <2>1. \A i \in 1..k : i \in 1..n
    OBVIOUS
  <2> QED
    BY <1>1, <2>1
<1>4. t \in Seq(Seq(Byte)) /\ Len(t) = k /\ \A i \in 1..k : t[i] = P[i][s[i]]
  BY <1>3 DEF Parts
<1>5. P[k + 1][x] \in Seq(Byte)
  OBVIOUS
<1>6. \A i \in 1..(k + 1) : P[i][v[i]] \in Seq(Byte)
  <2>1. ASSUME NEW i \in 1..(k + 1) PROVE P[i][v[i]] \in Seq(Byte)
    <3>1. CASE i = k + 1
      BY <1>2, <1>5, <3>1
    <3>2. CASE i \in 1..k
      BY <1>2, <1>3, <3>2
    <3> QED
      BY <3>1, <3>2
  <2> QED
    BY <2>1
<1>7. /\ u \in Seq(Seq(Byte)) /\ Len(u) = k + 1 /\ u[k + 1] = P[k + 1][x]
      /\ \A i \in 1..k : u[i] = P[i][s[i]]
  BY <1>2, <1>6 DEF Parts
<1> HIDE DEF t, u
<1>8. \A i \in 1..k : t[i] = u[i]
  BY <1>4, <1>7
<1>9. FlattenSeq(u) = FlattenSeq(t) \o u[k + 1]
  <2> DEFINE S == Byte
  <2> HIDE DEF S
  <2>1. u \in Seq(Seq(S)) /\ t \in Seq(Seq(S))
    BY <1>4, <1>7 DEF S
  <2> QED
    BY <1>4, <1>7, <1>8, <2>1, FlattenLast, ZenonT(40)
<1> QED
  BY <1>7, <1>9 DEF t, u, v

\* Readers one after the other read what the writers wrote one after the other.
LEMMA Chain ==
  ASSUME NEW n, NEW U, NEW V, NEW P, NEW R, Line(n, U, V, P, R),
         NEW Q, \A v \in Values(n, U, V) : Q[v] = FlattenSeq(Parts(n, P, v)),
         NEW R2, R2 = [b \in Seq(Byte) |-> InTurn(R, b)]
  PROVE  Codec(Q, R2, Values(n, U, V))
<1>1. /\ n \in Nat /\ V \in [1..n -> SUBSET U] /\ R \in [1..n -> [Seq(Byte) -> Results(U)]]
      /\ \A i \in 1..n : Codec(P[i], R[i], V[i])
  BY DEF Line
<1>2. ASSUME NEW i \in 1..n, NEW x \in V[i] PROVE P[i][x] \in Seq(Byte)
  <2>1. Codec(P[i], R[i], V[i])
    BY <1>1
  <2>2. \A y \in V[i] : P[i][y] \in Seq(Byte)
    BY <2>1, Zenon DEF Codec, Typed
  <2> QED
    BY <2>2
<1>3. PICK f : TurnRun(f, n, U, R) /\ \A b \in Seq(Byte) : InTurn(R, b) = f[n][b]
  <2>1. Readers(n, U, R)
    BY <1>1 DEF Readers
  <2> QED
    BY <2>1, TurnRuns
<1>4. /\ f \in [0..n -> [Seq(Byte) -> Results(Seq(U))]]
      /\ f[0] = [b \in Seq(Byte) |-> Parsed(<< >>, b)]
      /\ \A i \in 1..n : f[i] = [b \in Seq(Byte) |-> TurnStep(R[i], f[i - 1][b])]
  BY <1>3 DEF TurnRun
<1>5. R2 = f[n]
  <2>1. n \in 0..n
    BY <1>1
  <2>2. f[n] \in [Seq(Byte) -> Results(Seq(U))]
    BY <1>4, <2>1
  <2>3. f[n] = [b \in Seq(Byte) |-> f[n][b]]
    BY <2>2
  <2>4. R2 = [b \in Seq(Byte) |-> f[n][b]]
    BY <1>3
  <2> QED
    BY <2>3, <2>4
<1> DEFINE W(k) == Values(k, U, V)
           Q2(k) == [v \in W(k) |-> FlattenSeq(Parts(k, P, v))]
           T == {k \in Nat : k <= n => Codec(Q2(k), f[k], W(k))}
<1>6. 0 \in T
  <2>1. W(0) = {<< >>}
    <3>1. << >> \in W(0)
      BY DEF Values
    <3>2. \A v \in W(0) : v = << >>
      BY DEF Values
    <3> QED
      BY <3>1, <3>2
  <2>2. Parts(0, P, << >>) = << >>
    BY DEF Parts
  <2>3. Q2(0)[<< >>] = << >>
    BY <2>1, <2>2, FlattenEmpty
  <2> HIDE DEF W, Q2
  <2>4. Codec(Q2(0), f[0], {<< >>})
    BY <1>4, <2>3, NoReader
  <2> QED
    BY <2>1, <2>4
<1>7. ASSUME NEW k \in T PROVE k + 1 \in T
  <2> SUFFICES ASSUME k + 1 <= n PROVE Codec(Q2(k + 1), f[k + 1], W(k + 1))
    OBVIOUS
  <2>1. k \in Nat /\ Codec(Q2(k), f[k], W(k)) /\ k + 1 \in 1..n /\ (k + 1) - 1 = k
    BY <1>1
  <2> HIDE DEF T
  <2>0. Place(k, n, U, V, P)
    BY <1>1, <1>2, <2>1 DEF Place
  <2>2. W(k) \in SUBSET Seq(U) /\ V[k + 1] \in SUBSET U
    BY <1>1, <2>1 DEF Values
  <2>3. Codec(P[k + 1], R[k + 1], V[k + 1])
    BY <1>1, <2>1
  <2>4. W(k + 1) = {Append(s, x) : s \in W(k), x \in V[k + 1]}
    <3>1. Values(k + 1, U, V) = {Append(s, x) : s \in Values(k, U, V), x \in V[k + 1]}
      BY <2>0, LastValue
    <3> QED
      BY <3>1
  <2>5. ASSUME NEW s \in W(k), NEW x \in V[k + 1]
        PROVE  Q2(k + 1)[Append(s, x)] = Q2(k)[s] \o P[k + 1][x]
    <3>1. FlattenSeq(Parts(k + 1, P, Append(s, x))) = FlattenSeq(Parts(k, P, s)) \o P[k + 1][x]
      <4>1. \A y \in Values(k, U, V), z \in V[k + 1] :
              FlattenSeq(Parts(k + 1, P, Append(y, z))) = FlattenSeq(Parts(k, P, y)) \o P[k + 1][z]
        BY <2>0, LastPart
      <4> QED
        BY <4>1, Zenon
    <3>2. Append(s, x) \in W(k + 1)
      <4> DEFINE W1 == W(k)
                 W2 == W(k + 1)
      <4>1. W2 = {Append(y, z) : y \in W1, z \in V[k + 1]} /\ s \in W1
        BY <2>4
      <4> HIDE DEF W1, W2
      <4>2. Append(s, x) \in W2
        BY <4>1
      <4> QED
        BY <4>2 DEF W2
    <3> HIDE DEF W
    <3>3. Q2(k + 1)[Append(s, x)] = FlattenSeq(Parts(k + 1, P, Append(s, x)))
      BY <3>2
    <3>4. Q2(k)[s] = FlattenSeq(Parts(k, P, s))
      OBVIOUS
    <3> HIDE DEF Q2
    <3> QED
      BY <3>1, <3>3, <3>4, Zenon
  <2>6. f[k + 1] = [b \in Seq(Byte) |-> TurnStep(R[k + 1], f[k][b])]
    BY <1>4, <2>1
  <2> DEFINE V1 == W(k)
             P1 == Q2(k)
             R1 == f[k]
             w == V[k + 1]
             p == P[k + 1]
             r == R[k + 1]
             V3 == W(k + 1)
             P3 == Q2(k + 1)
             R3 == f[k + 1]
  <2>7. Extended(U, V1, P1, R1, w, p, r, V3, P3, R3)
    <3>1. V1 \in SUBSET Seq(U) /\ w \in SUBSET U
      BY <2>2
    <3>2. Codec(P1, R1, V1)
      BY <2>1
    <3>3. Codec(p, r, w)
      BY <2>3
    <3>4. V3 = Appended(V1, w)
      BY <2>4 DEF Appended
    <3>5. Appends(V1, P1, w, p, P3)
      BY <2>5 DEF Appends
    <3>6. R3 = Prolonged(r, R1)
      BY <2>6 DEF Prolonged
    <3> QED
      <4> HIDE DEF V1, P1, R1, w, p, r, V3, P3, R3
      <4> QED
        BY <3>1, <3>2, <3>3, <3>4, <3>5, <3>6 DEF Extended
  <2> HIDE DEF V1, P1, R1, w, p, r, V3, P3, R3
  <2>8. Codec(P3, R3, V3)
    BY <2>7, OneMore
  <2> QED
    BY <2>8 DEF V3, P3, R3
<1>8. T = Nat
  <2> HIDE DEF T
  <2>1. T \subseteq Nat
    BY DEF T
  <2> QED
    BY <1>6, <1>7, <2>1, Induction
<1>9. Codec(Q2(n), f[n], W(n))
  <2> HIDE DEF T
  <2>1. n \in T /\ n <= n
    BY <1>1, <1>8
  <2> QED
    BY <2>1 DEF T
<1>10. \A v \in W(n) : Q[v] = Q2(n)[v]
  OBVIOUS
<1> HIDE DEF Q2
<1> QED
  BY <1>5, <1>9, <1>10, SameWriter

-----------------------------------------------------------------------------
(***************************************************************************)
(* A number, and what it says how to read                                  *)
(***************************************************************************)
CountStep(S, r) == IF ~Good(r) THEN r ELSE S[r.value][r.rest]

CountedWriter(P, Q, V2, P2) == \A x \in V2 : P2[x] = P[Len(x)] \o Q[Len(x)][x]
CountedReader(R, S, R2)     == R2 = [b \in Seq(Byte) |-> CountStep(S, R[b])]
CountedValues(V, W, V2)     == /\ V2 = UNION {W[n] : n \in V}
                               /\ \A n \in V : \A x \in W[n] : Len(x) = n

Counted(P, R, V, Q, S, W, P2, R2, V2) ==
  /\ Codec(P, R, V) /\ \A n \in V : Codec(Q[n], S[n], W[n])
  /\ CountedWriter(P, Q, V2, P2) /\ CountedReader(R, S, R2) /\ CountedValues(V, W, V2)

LEMMA CountedCodec ==
  ASSUME NEW P, NEW R, NEW V, NEW Q, NEW S, NEW W, NEW P2, NEW R2, NEW V2,
         Counted(P, R, V, Q, S, W, P2, R2, V2)
  PROVE  Codec(P2, R2, V2)
<1> DEFINE Step(b) == CountStep(S, R[b])
<1>0. /\ Codec(P, R, V) /\ \A n \in V : Codec(Q[n], S[n], W[n])
      /\ CountedWriter(P, Q, V2, P2) /\ CountedReader(R, S, R2) /\ CountedValues(V, W, V2)
  BY DEF Counted
<1>1. /\ R \in [Seq(Byte) -> Results(V)] /\ ReadsBack(P, R, V) /\ ReadsOn(R)
      /\ WritesShortest(P, R) /\ \A n \in V : P[n] \in Seq(Byte)
  BY <1>0 DEF Codec, Typed
<1>2. ASSUME NEW n \in V
      PROVE  /\ S[n] \in [Seq(Byte) -> Results(W[n])] /\ ReadsBack(Q[n], S[n], W[n])
             /\ ReadsOn(S[n]) /\ WritesShortest(Q[n], S[n])
             /\ \A x \in W[n] : Q[n][x] \in Seq(Byte)
  <2>1. Codec(Q[n], S[n], W[n])
    BY <1>0
  <2> QED
    BY <2>1 DEF Codec, Typed
<1>3. \A b \in Seq(Byte) : R2[b] = Step(b)
  BY <1>0 DEF CountedReader
<1>4. \A n \in V : \A x \in W[n] : x \in V2 /\ Len(x) = n
  BY <1>0 DEF CountedValues
<1>5. \A x \in V2 : \E n \in V : x \in W[n]
  BY <1>0 DEF CountedValues
<1>6. \A n \in V : \A x \in W[n] : P2[x] = P[n] \o Q[n][x]
  <2>1. ASSUME NEW n \in V, NEW x \in W[n] PROVE P2[x] = P[n] \o Q[n][x]
    <3>1. x \in V2 /\ Len(x) = n
      BY <1>4
    <3>2. P2[x] = P[Len(x)] \o Q[Len(x)][x]
      BY <1>0, <3>1 DEF CountedWriter
    <3> QED
      BY <3>1, <3>2, Zenon
  <2> QED
    BY <2>1
\* The number cannot be read, what it counts cannot, or both can.
<1>7. ASSUME NEW b \in Seq(Byte)
      PROVE  \/ ~Good(R[b]) /\ Step(b) = R[b] /\ \E e \in Errors : R[b] = Failed(e)
             \/ /\ Good(R[b]) /\ R[b].value \in V /\ R[b].rest \in Seq(Byte)
                /\ Step(b) = S[R[b].value][R[b].rest]
  <2>1. R[b] \in Results(V)
    BY <1>1
  <2>2. CASE Good(R[b])
    <3>1. R[b].value \in V /\ R[b].rest \in Seq(Byte)
      BY <2>1, <2>2, ResultCases
    <3> QED
      BY <2>2, <3>1 DEF CountStep
  <2>3. CASE ~Good(R[b])
    <3>1. \E e \in Errors : R[b] = Failed(e)
      BY <2>1, <2>3, ResultCases
    <3> QED
      BY <2>3, <3>1 DEF CountStep
  <2> QED
    BY <2>2, <2>3
<1> HIDE DEF Step
<1>8. Typed(P2, R2, V2)
  <2>1. ASSUME NEW x \in V2 PROVE P2[x] \in Seq(Byte)
    <3>1. PICK n \in V : x \in W[n]
      BY <1>5
    <3>2. P2[x] = P[n] \o Q[n][x] /\ P[n] \in Seq(Byte) /\ Q[n][x] \in Seq(Byte)
      BY <1>1, <1>2, <1>6, <3>1
    <3> QED
      BY <3>2
  <2>2. ASSUME NEW b \in Seq(Byte) PROVE Step(b) \in Results(V2)
    <3>1. CASE ~Good(R[b])
      BY <1>7, <3>1, FailedIsResult
    <3>2. CASE Good(R[b])
      <4> DEFINE n == R[b].value
                 c == R[b].rest
                 r == S[n][c]
      <4>1. n \in V /\ c \in Seq(Byte) /\ Step(b) = r
        BY <1>7, <3>2
      <4>2. r \in Results(W[n])
        BY <1>2, <4>1
      <4> HIDE DEF n, c, r
      <4>3. CASE Good(r)
        <5>1. r.value \in W[n] /\ r.rest \in Seq(Byte) /\ r = Parsed(r.value, r.rest)
          BY <4>2, <4>3, ResultCases
        <5>2. r.value \in V2
          BY <1>4, <4>1, <5>1
        <5>3. Parsed(r.value, r.rest) \in Results(V2)
          BY <5>1, <5>2, ParsedIsResult
        <5> QED
          BY <4>1, <5>1, <5>3
      <4>4. CASE ~Good(r)
        <5>1. \E e \in Errors : r = Failed(e)
          BY <4>2, <4>4, ResultCases
        <5> QED
          BY <4>1, <5>1, FailedIsResult
      <4> QED
        BY <4>3, <4>4
    <3> QED
      BY <3>1, <3>2
  <2>3. R2 \in [Seq(Byte) -> Results(V2)]
    <3>1. R2 = [b \in Seq(Byte) |-> R2[b]]
      BY <1>0 DEF CountedReader
    <3> QED
      BY <1>3, <2>2, <3>1
  <2> QED
    BY <2>1, <2>3 DEF Typed
<1>9. ReadsBack(P2, R2, V2)
  <2>1. ASSUME NEW x \in V2, NEW rest \in Seq(Byte) PROVE R2[P2[x] \o rest] = Parsed(x, rest)
    <3>1. PICK n \in V : x \in W[n]
      BY <1>5
    <3> DEFINE y == Q[n][x] \o rest
               z == P[n] \o y
    <3>2. P2[x] = P[n] \o Q[n][x] /\ P[n] \in Seq(Byte) /\ Q[n][x] \in Seq(Byte)
      BY <1>1, <1>2, <1>6, <3>1
    <3>3. y \in Seq(Byte) /\ z \in Seq(Byte) /\ P2[x] \o rest = z
      <4>1. y \in Seq(Byte)
        BY <3>2
      <4>2. (P[n] \o Q[n][x]) \o rest = P[n] \o (Q[n][x] \o rest)
        BY <3>2, Regrouped
      <4>3. z \in Seq(Byte)
        BY <3>2, <4>1
      <4> QED
        BY <3>2, <4>1, <4>2, <4>3, Zenon
    <3>4. R[z] = Parsed(n, y)
      BY <1>1, <3>3 DEF ReadsBack
    <3>5. S[n][y] = Parsed(x, rest)
      <4>1. ReadsBack(Q[n], S[n], W[n])
        BY <1>2
      <4> QED
        BY <3>1, <4>1 DEF ReadsBack
    <3> HIDE DEF y, z
    <3>6. Good(R[z]) /\ R[z].value = n /\ R[z].rest = y
      BY <3>4, ResultFacts
    <3>7. Step(z) = S[n][y]
      BY <1>7, <3>3, <3>6, Zenon
    <3> QED
      BY <1>3, <3>3, <3>5, <3>7, Zenon
  <2> QED
    BY <2>1 DEF ReadsBack
<1>10. ReadsOn(R2)
  <2>1. ASSUME NEW b \in Seq(Byte), NEW more \in Seq(Byte)
        PROVE  /\ Good(Step(b)) => Step(b \o more) = Parsed(Step(b).value, Step(b).rest \o more)
               /\ Step(b) = Failed("BoundExceeded") => Step(b \o more) = Failed("BoundExceeded")
    <3> DEFINE y == b \o more
    <3>0. ~Good(Failed("BoundExceeded")) /\ y \in Seq(Byte)
      BY ResultFacts DEF Errors
    <3>1. /\ Good(R[b]) => R[y] = Parsed(R[b].value, R[b].rest \o more)
          /\ R[b] = Failed("BoundExceeded") => R[y] = Failed("BoundExceeded")
      BY <1>1 DEF ReadsOn
    <3>2. CASE ~Good(R[b])
      <4>1. Step(b) = R[b]
        BY <1>7, <3>2
      <4>2. ASSUME R[b] = Failed("BoundExceeded") PROVE Step(y) = Failed("BoundExceeded")
        <5>1. R[y] = Failed("BoundExceeded") /\ ~Good(R[y])
          BY <3>0, <3>1, <4>2
        <5> HIDE DEF y
        <5> QED
          BY <1>7, <3>0, <5>1, Zenon
      <4> QED
        BY <3>2, <4>1, <4>2
    <3>3. CASE Good(R[b])
      <4> DEFINE n == R[b].value
                 c == R[b].rest
                 d == c \o more
      <4>1. n \in V /\ c \in Seq(Byte) /\ Step(b) = S[n][c]
        BY <1>7, <3>3
      <4>2. R[y] = Parsed(n, d) /\ d \in Seq(Byte)
        BY <3>1, <3>3, <4>1
      <4>3. /\ Good(S[n][c]) => S[n][d] = Parsed(S[n][c].value, S[n][c].rest \o more)
            /\ S[n][c] = Failed("BoundExceeded") => S[n][d] = Failed("BoundExceeded")
        <5>1. ReadsOn(S[n])
          BY <1>2, <4>1
        <5> QED
          BY <4>1, <5>1 DEF ReadsOn
      <4> HIDE DEF n, c, d, y
      <4>4. Good(R[y]) /\ R[y].value = n /\ R[y].rest = d
        BY <4>2, ResultFacts
      <4>5. Step(y) = S[n][d]
        BY <1>7, <3>0, <4>4, Zenon
      <4> DEFINE u == Step(b)
                 v == S[n][c]
                 w == S[n][d]
      <4>6. u = v /\ (Good(v) => w = Parsed(v.value, v.rest \o more))
            /\ (v = Failed("BoundExceeded") => w = Failed("BoundExceeded"))
        BY <4>1, <4>3
      <4> HIDE DEF u, v, w
      <4>7. /\ Good(u) => w = Parsed(u.value, u.rest \o more)
            /\ u = Failed("BoundExceeded") => w = Failed("BoundExceeded")
        BY <4>6
      <4> QED
        BY <4>5, <4>7 DEF u, w, y
    <3> QED
      BY <3>2, <3>3
  <2>2. \A b \in Seq(Byte), more \in Seq(Byte) : b \o more \in Seq(Byte)
    OBVIOUS
  <2> QED
    BY <1>3, <2>1, <2>2, Zenon DEF ReadsOn
<1>11. WritesShortest(P2, R2)
  <2>1. ASSUME NEW b \in Seq(Byte), Good(R2[b])
        PROVE  \E used \in Seq(Byte) : Within(P2, R2, b, used)
    <3> DEFINE n == R[b].value
               c == R[b].rest
               r == S[n][c]
               x == r.value
               t == r.rest
    <3>1. Good(R[b]) /\ n \in V /\ c \in Seq(Byte) /\ R2[b] = r
      <4>1. Good(Step(b)) /\ R2[b] = Step(b)
        BY <1>3, <2>1
      <4>2. Good(R[b])
        BY <1>7, <4>1
      <4> QED
        BY <1>7, <4>1, <4>2
    <3>2. Good(r) /\ x \in W[n] /\ t \in Seq(Byte)
      <4>1. r \in Results(W[n]) /\ Good(r)
        BY <1>2, <2>1, <3>1
      <4> HIDE DEF r
      <4> QED
        BY <4>1, ResultCases
    <3>3. PICK u1 \in Seq(Byte) : Within(P, R, b, u1)
      BY <1>1, <3>1 DEF WritesShortest
    <3>4. PICK u2 \in Seq(Byte) : Within(Q[n], S[n], c, u2)
      <4>1. WritesShortest(Q[n], S[n])
        BY <1>2, <3>1
      <4> QED
        BY <3>1, <3>2, <4>1 DEF WritesShortest
    <3>5. b = u1 \o c /\ (P[n] = u1 \/ Len(P[n]) < Len(u1))
      BY <3>3, Zenon DEF Within
    <3>6. c = u2 \o t /\ (Q[n][x] = u2 \/ Len(Q[n][x]) < Len(u2))
      BY <3>4, Zenon DEF Within
    <3>7. P2[x] = P[n] \o Q[n][x] /\ P[n] \in Seq(Byte) /\ Q[n][x] \in Seq(Byte)
      <4>1. \A y \in W[n] : P2[y] = P[n] \o Q[n][y] /\ Q[n][y] \in Seq(Byte)
        BY <1>2, <1>6, <3>1
      <4>2. x \in W[n] /\ P[n] \in Seq(Byte)
        BY <1>1, <3>1, <3>2
      <4> HIDE DEF n, x
      <4> QED
        BY <4>1, <4>2
    <3>8. R2[b].value = x /\ R2[b].rest = t
      BY <3>1
    <3> DEFINE p == P[n]
               q == Q[n][x]
               w == P2[x]
    <3> HIDE DEF n, c, r, x, t, p, q, w
    <3>9. \E used \in Seq(Byte) : b = used \o t /\ (w = used \/ Len(w) < Len(used))
      <4>1. p \in Seq(Byte) /\ q \in Seq(Byte) /\ w = p \o q
        BY <3>7 DEF p, q, w
      <4>2. (p = u1 \/ Len(p) < Len(u1)) /\ (q = u2 \/ Len(q) < Len(u2))
        BY <3>5, <3>6, Zenon DEF p, q
      <4>3. Joint(b, c, t, u1, u2, p, q, w)
        BY <3>1, <3>2, <3>5, <3>6, <4>1, <4>2 DEF Joint
      <4> QED
        BY <4>3, Joined
    <3>10. PICK used \in Seq(Byte) : b = used \o t /\ (w = used \/ Len(w) < Len(used))
      BY <3>9
    <3>11. Within(P2, R2, b, used)
      <4> DEFINE z == R2[b]
      <4> HIDE DEF z
      <4>1. z.value = x /\ z.rest = t
        BY <3>8 DEF z
      <4>2. b = used \o z.rest
        BY <3>10, <4>1
      <4>3. P2[z.value] = used \/ Len(P2[z.value]) < Len(used)
        BY <3>10, <4>1 DEF w
      <4> QED
        BY <4>2, <4>3, Zenon DEF Within, z
    <3> QED
      BY <3>11
  <2> QED
    BY <2>1, Zenon DEF WritesShortest
<1> QED
  BY <1>8, <1>9, <1>10, <1>11 DEF Codec

-----------------------------------------------------------------------------
(***************************************************************************)
(* The types of a field                                                    *)
(***************************************************************************)
\* The types of the fields of an element, and of a field.  A bound is a number
\* whose varint takes two bytes at most.
Items  == {U8, U16} \cup {BoundedBytes(m) : m \in 0..TWO_BYTES}
Types  == Items \cup {BoundedVec(m, items) : m \in 0..TWO_BYTES, items \in Seq(Items)}

ItemValues(field) ==
  CASE field.type = "u8"    -> Byte
    [] field.type = "u16"   -> 0..U16_MAX
    [] field.type = "bytes" -> {v \in Seq(Byte) : Len(v) <= field.max}

ItemWriter(field) == [v \in ItemValues(field) |-> PutItem(field, v)]

LEMMA ItemForms ==
  /\ ItemValues(U8) = Byte /\ ItemValues(U16) = 0..U16_MAX
  /\ \A m : ItemValues(BoundedBytes(m)) = {v \in Seq(Byte) : Len(v) <= m}
  /\ \A v : /\ PutItem(U8, v) = << v >> /\ PutItem(U16, v) = VarintBytes[v]
            /\ \A m : PutItem(BoundedBytes(m), v) = VarintBytes[Len(v)] \o v
<1>1. U8.type = "u8" /\ U16.type = "u16"
  BY DEF U8, U16
<1>2. \A m : BoundedBytes(m).type = "bytes" /\ BoundedBytes(m).max = m
  BY DEF BoundedBytes
<1>3. ItemValues(U8) = Byte /\ \A v : PutItem(U8, v) = << v >>
  BY <1>1 DEF ItemValues, PutItem
<1>4. ItemValues(U16) = 0..U16_MAX /\ \A v : PutItem(U16, v) = VarintBytes[v]
  BY <1>1 DEF ItemValues, PutItem
<1>5. \A m : ItemValues(BoundedBytes(m)) = {v \in Seq(Byte) : Len(v) <= m}
  BY <1>2 DEF ItemValues
<1>6. \A m, v : PutItem(BoundedBytes(m), v) = VarintBytes[Len(v)] \o v
  BY <1>2 DEF PutItem
<1> QED
  BY <1>3, <1>4, <1>5, <1>6

\* TakeItem, type by type.
TakeByte(b) == IF b = << >> THEN Failed("MalformedWire") ELSE Parsed(Head(b), Tail(b))

TakeRaw(n, m, b) ==
  IF n > Len(b) THEN Failed("MalformedWire")
  ELSE IF n > m THEN Failed("BoundExceeded")
  ELSE Parsed(SubSeq(b, 1, n), SubSeq(b, n + 1, Len(b)))

LEMMA TakeForms ==
  \A b : /\ TakeItem(U8, b) = TakeByte(b)
         /\ TakeItem(U16, b) = Varint(b, 3, 3)
         /\ \A m : TakeItem(BoundedBytes(m), b) =
                     IF ~Good(Length(b)) THEN Length(b)
                     ELSE TakeRaw(Length(b).value, m, Length(b).rest)
<1>1. U8.type = "u8" /\ U16.type = "u16"
  BY DEF U8, U16
<1>2. \A m : BoundedBytes(m).type = "bytes" /\ BoundedBytes(m).max = m
  BY DEF BoundedBytes
<1> TAKE b
<1>3. TakeItem(U8, b) = TakeByte(b)
  BY <1>1 DEF TakeItem, TakeByte
<1>4. TakeItem(U16, b) = Varint(b, 3, 3)
  BY <1>1 DEF TakeItem
<1>5. ASSUME NEW m
      PROVE  TakeItem(BoundedBytes(m), b) = IF ~Good(Length(b)) THEN Length(b)
                                            ELSE TakeRaw(Length(b).value, m, Length(b).rest)
  BY <1>2 DEF TakeItem, TakeRaw
<1> QED
  BY <1>3, <1>4, <1>5

LEMMA ByteCodec == Codec(ItemWriter(U8), ItemReader(U8), ItemValues(U8))
<1> DEFINE P == ItemWriter(U8)
           R == ItemReader(U8)
<1>1. ItemValues(U8) = Byte /\ \A v \in Byte : P[v] = << v >>
  BY ItemForms DEF ItemWriter
<1>2. R = [b \in Seq(Byte) |-> TakeByte(b)]
  BY TakeForms DEF ItemReader
<1>3. \A b \in Seq(Byte) : R[b] = TakeByte(b)
  BY <1>2
<1> HIDE DEF P, R
<1>4. ~Good(Failed("MalformedWire")) /\ Failed("MalformedWire") # Failed("BoundExceeded")
      /\ ~Good(Failed("BoundExceeded"))
  BY ResultFacts DEF Errors
<1>5. ASSUME NEW b \in Seq(Byte), b # << >>
      PROVE  /\ Head(b) \in Byte /\ Tail(b) \in Seq(Byte) /\ b = << Head(b) >> \o Tail(b)
             /\ R[b] = Parsed(Head(b), Tail(b)) /\ Good(R[b])
             /\ R[b].value = Head(b) /\ R[b].rest = Tail(b)
  <2>1. R[b] = Parsed(Head(b), Tail(b))
    BY <1>3, <1>5 DEF TakeByte
  <2>2. Head(b) \in Byte /\ Tail(b) \in Seq(Byte) /\ b = << Head(b) >> \o Tail(b)
    BY <1>5, FirstByte
  <2> DEFINE r == R[b]
             h == Head(b)
             t == Tail(b)
  <2>3. r = Parsed(h, t) /\ h \in Byte /\ t \in Seq(Byte) /\ b = << h >> \o t
    BY <2>1, <2>2
  <2> HIDE DEF r, h, t
  <2>4. Good(r) /\ r.value = h /\ r.rest = t
    BY <2>3, ParsedParts
  <2> QED
    BY <2>3, <2>4, Zenon DEF r, h, t
<1>6. R[<< >>] = Failed("MalformedWire")
  <2>1. << >> \in Seq(Byte)
    OBVIOUS
  <2>2. R[<< >>] = TakeByte(<< >>)
    BY <1>3, <2>1
  <2> QED
    BY <2>2 DEF TakeByte
<1>7. Typed(P, R, Byte)
  <2>1. \A v \in Byte : P[v] \in Seq(Byte)
    <3>1. ASSUME NEW v \in Byte PROVE P[v] \in Seq(Byte)
      <4>1. P[v] = << v >>
        BY <1>1
      <4>2. << v >> \in Seq(Byte)
        OBVIOUS
      <4> QED
        BY <4>1, <4>2, Zenon
    <3> QED
      BY <3>1
  <2>2. ASSUME NEW b \in Seq(Byte) PROVE TakeByte(b) \in Results(Byte)
    <3>1. CASE b = << >>
      BY <3>1, FailedIsResult DEF TakeByte, Errors
    <3>2. CASE b # << >>
      <4>1. TakeByte(b) = Parsed(Head(b), Tail(b)) /\ Head(b) \in Byte /\ Tail(b) \in Seq(Byte)
        BY <1>5, <3>2 DEF TakeByte
      <4> QED
        BY <4>1, ParsedIsResult
    <3> QED
      BY <3>1, <3>2
  <2>3. R \in [Seq(Byte) -> Results(Byte)]
    BY <1>2, <2>2
  <2> QED
    BY <2>1, <2>3 DEF Typed
<1>8. ReadsBack(P, R, Byte)
  <2>1. ASSUME NEW v \in Byte, NEW rest \in Seq(Byte) PROVE R[P[v] \o rest] = Parsed(v, rest)
    <3> DEFINE x == << v >> \o rest
    <3>1. x \in Seq(Byte) /\ x # << >> /\ Head(x) = v /\ Tail(x) = rest
      BY Before
    <3>2. P[v] \o rest = x
      BY <1>1
    <3> HIDE DEF x
    <3> QED
      BY <1>5, <3>1, <3>2
  <2> QED
    BY <2>1 DEF ReadsBack
<1>9. ReadsOn(R)
  <2>1. ASSUME NEW b \in Seq(Byte), NEW more \in Seq(Byte)
        PROVE  /\ Good(R[b]) => R[b \o more] = Parsed(R[b].value, R[b].rest \o more)
               /\ R[b] = Failed("BoundExceeded") => R[b \o more] = Failed("BoundExceeded")
    <3>1. CASE b = << >>
      BY <1>4, <1>6, <3>1
    <3>2. CASE b # << >>
      <4> DEFINE y == b \o more
      <4>1. y \in Seq(Byte) /\ y # << >> /\ Head(y) = Head(b) /\ Tail(y) = Tail(b) \o more
        BY <3>2, FirstByte
      <4> HIDE DEF y
      <4>2. R[y] = Parsed(Head(b), Tail(b) \o more)
        BY <1>5, <4>1
      <4>3. R[b].value = Head(b) /\ R[b].rest = Tail(b) /\ R[b] # Failed("BoundExceeded")
        BY <1>4, <1>5, <3>2
      <4> QED
        BY <4>2, <4>3 DEF y
    <3> QED
      BY <3>1, <3>2
  <2> QED
    BY <2>1, Zenon DEF ReadsOn
<1>10. WritesShortest(P, R)
  <2>1. ASSUME NEW b \in Seq(Byte), Good(R[b])
        PROVE  \E used \in Seq(Byte) : Within(P, R, b, used)
    <3>1. b # << >>
      BY <1>4, <1>6, <2>1
    <3> DEFINE used == << Head(b) >>
    <3>2. Head(b) \in Byte /\ b = used \o Tail(b) /\ R[b].value = Head(b) /\ R[b].rest = Tail(b)
      BY <1>5, <3>1
    <3>3. used \in Seq(Byte) /\ P[Head(b)] = used
      BY <1>1, <3>2
    <3> HIDE DEF used
    <3>4. P[R[b].value] = used
      BY <3>2, <3>3
    <3>5. b = used \o R[b].rest
      BY <3>2, Zenon
    <3>6. Within(P, R, b, used)
      BY <3>4, <3>5, Zenon DEF Within
    <3> QED
      BY <3>3, <3>6
  <2> QED
    BY <2>1, Zenon DEF WritesShortest
<1> QED
  BY <1>1, <1>7, <1>8, <1>9, <1>10 DEF Codec, P, R

LEMMA NumberCodec == Codec(ItemWriter(U16), ItemReader(U16), ItemValues(U16))
<1> DEFINE V == 0..U16_MAX
<1> HIDE DEF V
<1>1. ItemValues(U16) = V /\ \A v \in V : ItemWriter(U16)[v] = VarintBytes[v]
  BY ItemForms DEF ItemWriter, V
<1>2. ItemReader(U16) = VarintReader(3, 3)
  BY TakeForms DEF ItemReader, VarintReader
<1>3. Codec(VarintBytes, VarintReader(3, 3), V)
  BY U16Codec DEF V
<1> QED
  BY <1>1, <1>2, <1>3, SameWriter

\* What always fails reads nothing.
LEMMA FailingCodec ==
  ASSUME NEW P, NEW R, NEW e \in Errors, R = [x \in Seq(Byte) |-> Failed(e)]
  PROVE  Codec(P, R, {})
<1>1. Failed(e) \in Results({}) /\ ~Good(Failed(e))
  BY FailedIsResult, ResultFacts
<1>2. \A b \in Seq(Byte) : R[b] = Failed(e)
  OBVIOUS
<1>3. Typed(P, R, {})
  BY <1>1 DEF Typed
<1>4. \A b \in Seq(Byte), more \in Seq(Byte) : b \o more \in Seq(Byte)
  OBVIOUS
<1>5. ReadsOn(R)
  BY <1>1, <1>2, <1>4, Zenon DEF ReadsOn
<1>6. WritesShortest(P, R)
  BY <1>1, <1>2, Zenon DEF WritesShortest
<1>7. ReadsBack(P, R, {})
  BY DEF ReadsBack
<1> QED
  BY <1>3, <1>5, <1>6, <1>7 DEF Codec

\* The bytes of a byte string, n of them.
RawReader(n, m) == [b \in Seq(Byte) |-> TakeRaw(n, m, b)]
RawValues(n, m) == IF n <= m THEN {v \in Seq(Byte) : Len(v) = n} ELSE {}

LEMMA CutBack ==
  ASSUME NEW v \in Seq(Byte), NEW x \in Seq(Byte)
  PROVE  /\ v \o x \in Seq(Byte) /\ Len(v) <= Len(v \o x)
         /\ SubSeq(v \o x, 1, Len(v)) = v
         /\ SubSeq(v \o x, Len(v) + 1, Len(v \o x)) = x
<1> HIDE DEF Byte
<1> DEFINE y == v \o x
<1> DEFINE n == Len(v)
           m == Len(x)
<1>0. n \in Nat /\ m \in Nat
  OBVIOUS
<1>1. y \in Seq(Byte) /\ Len(y) = n + m /\ \A i \in 1..(n + m) : y[i] = IF i <= n THEN v[i] ELSE x[i - n]
  <2>1. /\ v \o x \in Seq(Byte) /\ Len(v \o x) = n + m
        /\ \A i \in 1..(n + m) : (v \o x)[i] = IF i <= n THEN v[i] ELSE x[i - n]
    BY ConcatProperties
  <2> QED
    BY <2>1
<1> HIDE DEF n, m, y
<1>2. SubSeq(y, 1, n) = v
  <2> DEFINE a == SubSeq(y, 1, n)
  <2>1. a \in Seq(Byte) /\ Len(a) = n /\ \A i \in 1..n : a[i] = y[i]
    BY <1>0, <1>1
  <2>2. \A i \in 1..n : y[i] = v[i]
    BY <1>0, <1>1
  <2> HIDE DEF a
  <2>3. Len(a) = Len(v) /\ \A i \in 1..Len(a) : a[i] = v[i]
    BY <2>1, <2>2 DEF n
  <2>4. a = v
    BY <2>1, <2>3, SeqEqual
  <2> QED
    BY <2>4 DEF a
<1>3. SubSeq(y, n + 1, Len(y)) = x
  <2> DEFINE a == SubSeq(y, n + 1, Len(y))
  <2>1. a \in Seq(Byte) /\ Len(a) = m /\ \A i \in 1..m : a[i] = y[n + i]
    BY <1>0, <1>1
  <2>2. \A i \in 1..m : y[n + i] = x[i]
    <3>1. ASSUME NEW i \in 1..m PROVE y[n + i] = x[i]
      <4>1. n + i \in 1..(n + m) /\ ~(n + i <= n) /\ (n + i) - n = i
        BY <1>0
      <4>2. y[n + i] = IF n + i <= n THEN v[n + i] ELSE x[(n + i) - n]
        BY <1>1, <4>1
      <4> QED
        BY <4>1, <4>2
    <3> QED
      BY <3>1
  <2> HIDE DEF a
  <2>3. Len(a) = Len(x) /\ \A i \in 1..Len(a) : a[i] = x[i]
    BY <2>1, <2>2 DEF m
  <2>4. a = x
    BY <2>1, <2>3, SeqEqual
  <2> QED
    BY <2>4 DEF a
<1>4. n <= Len(y)
  BY <1>0, <1>1
<1> QED
  BY <1>1, <1>2, <1>3, <1>4 DEF n, y

LEMMA Split ==
  ASSUME NEW n \in Nat, NEW b \in Seq(Byte), n <= Len(b)
  PROVE  LET v == SubSeq(b, 1, n)
             t == SubSeq(b, n + 1, Len(b))
         IN  v \in Seq(Byte) /\ Len(v) = n /\ t \in Seq(Byte) /\ b = v \o t
<1> HIDE DEF Byte
<1>1. SubSeq(b, 1, n) \in Seq(Byte) /\ Len(SubSeq(b, 1, n)) = n
  OBVIOUS
<1>2. SubSeq(b, n + 1, Len(b)) \in Seq(Byte)
  OBVIOUS
<1>3. SubSeq(b, 1, n) \o SubSeq(b, n + 1, Len(b)) = SubSeq(b, 1, Len(b))
  <2> DEFINE l == Len(b)
  <2>1. l \in Nat /\ 1 \in 1..(l + 1) /\ n \in (1 - 1)..l /\ l \in n..l
    OBVIOUS
  <2> QED
    BY <2>1, ConcatAdjacentSubSeq, Zenon
<1>4. SubSeq(b, 1, Len(b)) = b
  BY SubSeqFull
<1> QED
  BY <1>1, <1>2, <1>3, <1>4, Zenon

LEMMA RawCodec ==
  ASSUME NEW n \in Nat, NEW m \in Nat, NEW Q, \A v \in RawValues(n, m) : Q[v] = v
  PROVE  Codec(Q, RawReader(n, m), RawValues(n, m))
<1> DEFINE R == RawReader(n, m)
           V == RawValues(n, m)
<1>1. \A b \in Seq(Byte) : R[b] = TakeRaw(n, m, b)
  BY DEF RawReader
<1>2. /\ ~Good(Failed("MalformedWire")) /\ ~Good(Failed("BoundExceeded"))
      /\ Failed("MalformedWire") # Failed("BoundExceeded")
  BY ResultFacts DEF Errors
<1> DEFINE Fits(b) == n <= Len(b) /\ n <= m
<1>3. ASSUME NEW b \in Seq(Byte), ~Fits(b)
      PROVE  R[b] = IF n > Len(b) THEN Failed("MalformedWire") ELSE Failed("BoundExceeded")
  <2>1. Len(b) \in Nat
    OBVIOUS
  <2> QED
    BY <1>1, <1>3, <2>1 DEF TakeRaw
<1>4. ASSUME NEW b \in Seq(Byte), Fits(b)
      PROVE  \E v \in V, t \in Seq(Byte) : b = v \o t /\ R[b] = Parsed(v, t)
  <2> DEFINE v == SubSeq(b, 1, n)
             t == SubSeq(b, n + 1, Len(b))
  <2>1. v \in Seq(Byte) /\ Len(v) = n /\ t \in Seq(Byte) /\ b = v \o t
    BY <1>4, Split
  <2>2. R[b] = Parsed(v, t)
    <3>1. Len(b) \in Nat
      OBVIOUS
    <3> QED
      BY <1>1, <1>4, <3>1 DEF TakeRaw
  <2> HIDE DEF v, t
  <2>3. v \in V
    BY <1>4, <2>1 DEF RawValues
  <2> QED
    BY <2>1, <2>2, <2>3
<1>5. ASSUME NEW v \in V, NEW t \in Seq(Byte)
      PROVE  v \in Seq(Byte) /\ v \o t \in Seq(Byte) /\ R[v \o t] = Parsed(v, t)
  <2>1. v \in Seq(Byte) /\ Len(v) = n /\ n <= m
    BY DEF RawValues
  <2> DEFINE y == v \o t
  <2>2. /\ y \in Seq(Byte) /\ Len(v) <= Len(y) /\ SubSeq(y, 1, Len(v)) = v
        /\ SubSeq(y, Len(v) + 1, Len(y)) = t
    <3>1. v \in Seq(Byte) /\ t \in Seq(Byte)
      BY <2>1
    <3> QED
      BY <3>1, CutBack, Zenon
  <2> HIDE DEF y
  <2>3. n <= Len(y) /\ SubSeq(y, 1, n) = v /\ SubSeq(y, n + 1, Len(y)) = t
    BY <2>1, <2>2, Zenon
  <2>4. R[y] = Parsed(v, t)
    <3>1. Len(y) \in Nat
      BY <2>2
    <3>2. ~(n > Len(y)) /\ ~(n > m)
      BY <2>1, <2>3, <3>1
    <3>3. R[y] = TakeRaw(n, m, y)
      BY <1>1, <2>2
    <3>4. TakeRaw(n, m, y) = Parsed(SubSeq(y, 1, n), SubSeq(y, n + 1, Len(y)))
      BY <3>2 DEF TakeRaw
    <3> QED
      BY <2>3, <3>3, <3>4
  <2> QED
    BY <2>1, <2>2, <2>4 DEF y
<1>6. R = [b \in Seq(Byte) |-> R[b]]
  BY DEF RawReader
<1> HIDE DEF R, V
<1>7. ASSUME NEW b \in Seq(Byte)
      PROVE  \/ ~Good(R[b]) /\ R[b] = IF n > Len(b) THEN Failed("MalformedWire")
                                      ELSE Failed("BoundExceeded")
             \/ \E v \in V, t \in Seq(Byte) : b = v \o t /\ R[b] = Parsed(v, t)
  <2>1. CASE Fits(b)
    BY <1>4, <2>1
  <2>2. CASE ~Fits(b)
    <3>1. R[b] = IF n > Len(b) THEN Failed("MalformedWire") ELSE Failed("BoundExceeded")
      BY <1>3, <2>2
    <3> QED
      BY <1>2, <3>1
  <2> QED
    BY <2>1, <2>2
<1>8. Typed(Q, R, V)
  <2>1. ASSUME NEW b \in Seq(Byte) PROVE R[b] \in Results(V)
    <3>1. CASE Good(R[b])
      <4>1. PICK v \in V, t \in Seq(Byte) : R[b] = Parsed(v, t)
        BY <1>7, <3>1
      <4> QED
        BY <4>1, ParsedIsResult
    <3>2. CASE ~Good(R[b])
      <4>1. \A v, t : R[b] # Parsed(v, t)
        BY <3>2, ResultFacts
      <4>2. R[b] = Failed("MalformedWire") \/ R[b] = Failed("BoundExceeded")
        BY <1>7, <4>1
      <4>3. Failed("MalformedWire") \in Results(V) /\ Failed("BoundExceeded") \in Results(V)
        BY FailedIsResult DEF Errors
      <4> QED
        BY <4>2, <4>3
    <3> QED
      BY <3>1, <3>2
  <2>2. R \in [Seq(Byte) -> Results(V)]
    BY <1>6, <2>1
  <2>3. \A v \in V : Q[v] \in Seq(Byte)
    <3>1. ASSUME NEW v \in V PROVE Q[v] \in Seq(Byte)
      <4>1. Q[v] = v
        BY DEF V
      <4>2. v \in Seq(Byte)
        BY DEF V, RawValues
      <4> QED
        BY <4>1, <4>2
    <3> QED
      BY <3>1
  <2> QED
    BY <2>2, <2>3 DEF Typed
<1>9. ReadsBack(Q, R, V)
  <2>1. ASSUME NEW v \in V, NEW t \in Seq(Byte) PROVE R[Q[v] \o t] = Parsed(v, t)
    <3>1. Q[v] = v
      BY DEF V
    <3>2. R[v \o t] = Parsed(v, t)
      BY <1>5
    <3> QED
      BY <3>1, <3>2, Zenon
  <2> QED
    BY <2>1 DEF ReadsBack
<1>10. ReadsOn(R)
  <2>1. ASSUME NEW b \in Seq(Byte), NEW more \in Seq(Byte)
        PROVE  /\ Good(R[b]) => R[b \o more] = Parsed(R[b].value, R[b].rest \o more)
               /\ R[b] = Failed("BoundExceeded") => R[b \o more] = Failed("BoundExceeded")
    <3>1. ASSUME Good(R[b]) PROVE R[b \o more] = Parsed(R[b].value, R[b].rest \o more)
      <4>1. PICK v \in V, t \in Seq(Byte) : b = v \o t /\ R[b] = Parsed(v, t)
        BY <1>7, <3>1
      <4>2. R[b].value = v /\ R[b].rest = t
        BY <4>1, ResultFacts
      <4> DEFINE x == t \o more
      <4>3. x \in Seq(Byte)
        OBVIOUS
      <4>4. b \o more = v \o x
        <5>1. v \in Seq(Byte)
          BY DEF V, RawValues
        <5> QED
          BY <4>1, <5>1, Regrouped
      <4> HIDE DEF x
      <4>5. R[v \o x] = Parsed(v, x)
        BY <1>5, <4>3
      <4> QED
        BY <4>2, <4>4, <4>5, Zenon DEF x
    <3>2. ASSUME R[b] = Failed("BoundExceeded") PROVE R[b \o more] = Failed("BoundExceeded")
      <4> DEFINE y == b \o more
      <4>1. y \in Seq(Byte) /\ Len(y) >= Len(b) /\ Len(y) \in Nat /\ Len(b) \in Nat
        OBVIOUS
      <4>2. ~Fits(b)
        <5>1. SUFFICES ASSUME Fits(b) PROVE FALSE
          OBVIOUS
        <5>2. PICK v \in V, t \in Seq(Byte) : R[b] = Parsed(v, t)
          BY <1>4, <5>1
        <5> QED
          BY <1>2, <3>2, <5>2, ResultFacts
      <4>3. ~(n > Len(b))
        BY <1>2, <1>3, <3>2, <4>2
      <4>4. ~Fits(y) /\ ~(n > Len(y))
        BY <4>1, <4>2, <4>3
      <4> HIDE DEF y
      <4> QED
        BY <1>3, <4>1, <4>4 DEF y
    <3> QED
      BY <3>1, <3>2
  <2> QED
    BY <2>1, Zenon DEF ReadsOn
<1>11. WritesShortest(Q, R)
  <2>1. ASSUME NEW b \in Seq(Byte), Good(R[b])
        PROVE  \E used \in Seq(Byte) : Within(Q, R, b, used)
    <3>1. PICK v \in V, t \in Seq(Byte) : b = v \o t /\ R[b] = Parsed(v, t)
      BY <1>7, <2>1
    <3>2. v \in Seq(Byte) /\ Q[v] = v
      BY DEF V, RawValues
    <3>3. R[b].value = v /\ R[b].rest = t
      BY <3>1, ResultFacts
    <3>4. b = v \o R[b].rest
      BY <3>1, <3>3, Zenon
    <3>5. Q[R[b].value] = v
      BY <3>2, <3>3
    <3>6. Within(Q, R, b, v)
      BY <3>4, <3>5, Zenon DEF Within
    <3> QED
      BY <3>2, <3>6
  <2> QED
    BY <2>1, Zenon DEF WritesShortest
<1> QED
  BY <1>8, <1>9, <1>10, <1>11 DEF Codec, R, V

LEMMA BytesCodec ==
  ASSUME NEW m \in 0..TWO_BYTES
  PROVE  Codec(ItemWriter(BoundedBytes(m)), ItemReader(BoundedBytes(m)), ItemValues(BoundedBytes(m)))
<1> DEFINE F == BoundedBytes(m)
           V2 == ItemValues(F)
           P2 == ItemWriter(F)
           R2 == ItemReader(F)
           R == VarintReader(LenWidth, 1)
<1>1. PICK V \in SUBSET Nat : 0..TWO_BYTES \subseteq V /\ Codec(VarintBytes, R, V)
  BY LengthCodec
<1>2. m \in Nat /\ \A n \in 0..m : n \in V
  <2>1. TWO_BYTES \in Nat
    BY Limits
  <2>2. m \in Nat /\ \A n \in 0..m : n \in 0..TWO_BYTES
    BY <2>1
  <2> QED
    BY <1>1, <2>2
<1>3. V2 = {v \in Seq(Byte) : Len(v) <= m}
  BY ItemForms
<1>4. \A v \in V2 : P2[v] = VarintBytes[Len(v)] \o v
  BY ItemForms DEF ItemWriter
<1>5. \A b \in Seq(Byte) : R[b] = Length(b)
  BY DEF VarintReader, Length
<1> DEFINE Q == [n \in V |-> [v \in Seq(Byte) |-> v]]
           S == [n \in V |-> RawReader(n, m)]
           W == [n \in V |-> RawValues(n, m)]
<1>6. ASSUME NEW n \in V PROVE Codec(Q[n], S[n], W[n])
  <2>1. \A v \in RawValues(n, m) : Q[n][v] = v
    BY DEF RawValues
  <2>2. n \in Nat
    OBVIOUS
  <2> HIDE DEF Q
  <2>3. Codec(Q[n], RawReader(n, m), RawValues(n, m))
    BY <1>2, <2>1, <2>2, RawCodec
  <2> QED
    BY <2>3
<1>7. CountedWriter(VarintBytes, Q, V2, P2)
  <2>1. ASSUME NEW v \in V2 PROVE P2[v] = VarintBytes[Len(v)] \o Q[Len(v)][v]
    <3>1. v \in Seq(Byte) /\ Len(v) \in 0..m
      BY <1>2, <1>3
    <3>2. Q[Len(v)][v] = v
      BY <1>2, <3>1
    <3> HIDE DEF Q, P2, V2
    <3> QED
      BY <1>4, <3>2
  <2> QED
    BY <2>1 DEF CountedWriter
<1>8. CountedReader(R, S, R2)
  <2>1. Typed(VarintBytes, R, V)
    BY <1>1 DEF Codec
  <2>2. ASSUME NEW b \in Seq(Byte) PROVE TakeItem(F, b) = CountStep(S, R[b])
    <3> DEFINE l == Length(b)
    <3>1. TakeItem(F, b) = IF ~Good(l) THEN l ELSE TakeRaw(l.value, m, l.rest)
      BY TakeForms
    <3>2. R[b] = l
      BY <1>5
    <3>3. l \in Results(V)
      BY <2>1, <3>2 DEF Typed
    <3> HIDE DEF l, F
    <3>4. CASE ~Good(l)
      BY <3>1, <3>2, <3>4 DEF CountStep
    <3>5. CASE Good(l)
      <4>1. l.value \in V /\ l.rest \in Seq(Byte)
        BY <3>3, <3>5, ResultCases
      <4>2. S[l.value][l.rest] = TakeRaw(l.value, m, l.rest)
        BY <4>1 DEF RawReader
      <4> HIDE DEF S, R
      <4> QED
        BY <3>1, <3>2, <3>5, <4>2 DEF CountStep
    <3> QED
      BY <3>4, <3>5
  <2> HIDE DEF S, R
  <2>3. R2 = [b \in Seq(Byte) |-> CountStep(S, R[b])]
    BY <2>2 DEF ItemReader
  <2> QED
    BY <2>3 DEF CountedReader
<1>9. CountedValues(V, W, V2)
  <2>1. ASSUME NEW n \in V, NEW v \in W[n] PROVE v \in V2 /\ Len(v) = n
    <3>1. v \in Seq(Byte) /\ Len(v) = n /\ n <= m
      BY DEF RawValues
    <3> HIDE DEF V2, W
    <3> QED
      BY <1>3, <3>1
  <2>2. ASSUME NEW v \in V2 PROVE \E n \in V : v \in W[n]
    <3>1. v \in Seq(Byte) /\ Len(v) <= m /\ Len(v) \in 0..m
      BY <1>2, <1>3
    <3>2. v \in W[Len(v)]
      BY <1>2, <3>1 DEF RawValues
    <3> QED
      BY <1>2, <3>1, <3>2
  <2> HIDE DEF V2, W
  <2>3. V2 = UNION {W[n] : n \in V}
    BY <2>1, <2>2
  <2> QED
    BY <2>1, <2>3 DEF CountedValues
<1> HIDE DEF Q, S, W, V2, P2, R2, R
<1>10. Counted(VarintBytes, R, V, Q, S, W, P2, R2, V2)
  BY <1>1, <1>6, <1>7, <1>8, <1>9 DEF Counted
<1>11. Codec(P2, R2, V2)
  BY <1>10, CountedCodec
<1> QED
  BY <1>11 DEF P2, R2, V2

-----------------------------------------------------------------------------
(***************************************************************************)
(* A sequence of fields                                                    *)
(***************************************************************************)
Every(n, V)        == UNION {V[i] : i \in 1..n}
StructValues(n, V) == Values(n, Every(n, V), V)

StructWriter(n, V, P, Q)  == \A v \in StructValues(n, V) : Q[v] = FlattenSeq(Parts(n, P, v))
StructReader(n, R, R2)    == /\ R = [i \in 1..n |-> R[i]]
                             /\ R2 = [b \in Seq(Byte) |-> InTurn(R, b)]

Struct(n, V, P, R, Q, R2) ==
  /\ n \in Nat /\ V = [i \in 1..n |-> V[i]] /\ \A i \in 1..n : Codec(P[i], R[i], V[i])
  /\ StructWriter(n, V, P, Q) /\ StructReader(n, R, R2)

LEMMA StructCodec ==
  ASSUME NEW n, NEW V, NEW P, NEW R, NEW Q, NEW R2, Struct(n, V, P, R, Q, R2)
  PROVE  Codec(Q, R2, StructValues(n, V))
<1> DEFINE U == Every(n, V)
<1>1. /\ n \in Nat /\ V = [i \in 1..n |-> V[i]] /\ \A i \in 1..n : Codec(P[i], R[i], V[i])
      /\ StructWriter(n, V, P, Q) /\ StructReader(n, R, R2)
  BY DEF Struct
<1>2. \A i \in 1..n : V[i] \in SUBSET U
  BY DEF Every
<1>3. V \in [1..n -> SUBSET U]
  <2> HIDE DEF U
  <2> QED
    BY <1>1, <1>2
<1>4. R \in [1..n -> [Seq(Byte) -> Results(U)]]
  <2> HIDE DEF U
  <2>1. ASSUME NEW i \in 1..n PROVE R[i] \in [Seq(Byte) -> Results(U)]
    <3>1. Codec(P[i], R[i], V[i])
      BY <1>1
    <3>2. R[i] \in [Seq(Byte) -> Results(V[i])]
      BY <3>1 DEF Codec, Typed
    <3>3. Results(V[i]) \subseteq Results(U)
      BY <1>2 DEF Results
    <3> QED
      BY <3>2, <3>3
  <2>2. R = [i \in 1..n |-> R[i]]
    BY <1>1 DEF StructReader
  <2> QED
    BY <2>1, <2>2
<1>5. Line(n, U, V, P, R)
  <2> HIDE DEF U
  <2> QED
    BY <1>1, <1>3, <1>4 DEF Line
<1>6. \A v \in Values(n, U, V) : Q[v] = FlattenSeq(Parts(n, P, v))
  BY <1>1 DEF StructWriter, StructValues
<1>7. R2 = [b \in Seq(Byte) |-> InTurn(R, b)]
  BY <1>1 DEF StructReader
<1> HIDE DEF U
<1>8. Codec(Q, R2, Values(n, U, V))
  BY <1>5, <1>6, <1>7, Chain
<1> QED
  BY <1>8 DEF StructValues, U

LEMMA StructMembers ==
  ASSUME NEW n \in Nat, NEW V, NEW v
  PROVE  v \in StructValues(n, V) <=> v = [i \in 1..n |-> v[i]] /\ \A i \in 1..n : v[i] \in V[i]
<1> DEFINE U == Every(n, V)
<1>1. \A i \in 1..n : \A x \in V[i] : x \in U
  BY DEF Every
<1> HIDE DEF U
<1>2. ASSUME v \in Values(n, U, V)
      PROVE  v = [i \in 1..n |-> v[i]] /\ \A i \in 1..n : v[i] \in V[i]
  <2>1. v \in Seq(U) /\ Len(v) = n /\ \A i \in 1..n : v[i] \in V[i]
    BY <1>2 DEF Values
  <2>2. v = [i \in 1..n |-> v[i]]
    BY <2>1
  <2> QED
    BY <2>1, <2>2
<1>3. ASSUME v = [i \in 1..n |-> v[i]], \A i \in 1..n : v[i] \in V[i] PROVE v \in Values(n, U, V)
  <2>1. \A i \in 1..n : v[i] \in U
    BY <1>1, <1>3
  <2>2. v \in [1..n -> U]
    BY <1>3, <2>1
  <2>3. v \in Seq(U) /\ Len(v) = n
    BY <2>2
  <2> QED
    BY <1>3, <2>3 DEF Values
<1>4. StructValues(n, V) = Values(n, U, V)
  BY DEF StructValues, U
<1> QED
  BY <1>2, <1>3, <1>4, Zenon

\* The fields of an element.
ItemsSets(items)   == [i \in 1..Len(items) |-> ItemValues(items[i])]
ItemsValues(items) == StructValues(Len(items), ItemsSets(items))
ItemsWriter(items) == [v \in ItemsValues(items) |-> PutItems(items, v)]

LEMMA ItemCodec ==
  \A field \in Items : Codec(ItemWriter(field), ItemReader(field), ItemValues(field))
<1> TAKE field \in Items
<1>1. CASE field = U8
  BY <1>1, ByteCodec
<1>2. CASE field = U16
  BY <1>2, NumberCodec
<1>3. CASE \E m \in 0..TWO_BYTES : field = BoundedBytes(m)
  BY <1>3, BytesCodec
<1> QED
  BY <1>1, <1>2, <1>3 DEF Items

LEMMA ItemsCodec ==
  ASSUME NEW items \in Seq(Items)
  PROVE  Codec(ItemsWriter(items), ItemsReader(items), ItemsValues(items))
<1> DEFINE n == Len(items)
           V == ItemsSets(items)
           P == [i \in 1..n |-> ItemWriter(items[i])]
           R == [i \in 1..n |-> ItemReader(items[i])]
           Q == ItemsWriter(items)
           R2 == ItemsReader(items)
<1>1. n \in Nat /\ DOMAIN items = 1..n /\ \A i \in 1..n : items[i] \in Items
  OBVIOUS
<1>2. V = [i \in 1..n |-> V[i]] /\ \A i \in 1..n : V[i] = ItemValues(items[i])
  BY DEF ItemsSets
<1>3. \A i \in 1..n : P[i] = ItemWriter(items[i]) /\ R[i] = ItemReader(items[i])
  OBVIOUS
<1>4. R2 = [b \in Seq(Byte) |-> InTurn(R, b)]
  BY <1>1 DEF ItemsReader
<1>5. \A v \in StructValues(n, V) : Q[v] = PutItems(items, v)
  BY DEF ItemsWriter, ItemsValues
<1>6. R = [i \in 1..n |-> R[i]]
  BY <1>3
<1> HIDE DEF n, V, P, R, Q, R2
<1>7. \A i \in 1..n : Codec(P[i], R[i], V[i])
  <2>1. ASSUME NEW i \in 1..n PROVE Codec(P[i], R[i], V[i])
    <3>1. Codec(ItemWriter(items[i]), ItemReader(items[i]), ItemValues(items[i]))
      BY <1>1, ItemCodec
    <3> QED
      BY <1>2, <1>3, <3>1
  <2> QED
    BY <2>1
<1>8. StructWriter(n, V, P, Q)
  <2>1. ASSUME NEW v \in StructValues(n, V) PROVE Q[v] = FlattenSeq(Parts(n, P, v))
    <3>1. \A i \in 1..n : v[i] \in V[i]
      BY <1>1, StructMembers
    <3>2. \A i \in 1..n : P[i][v[i]] = PutItem(items[i], v[i])
      <4>1. ASSUME NEW i \in 1..n PROVE P[i][v[i]] = PutItem(items[i], v[i])
        <5>1. v[i] \in ItemValues(items[i]) /\ P[i] = ItemWriter(items[i])
          BY <1>2, <1>3, <3>1
        <5> QED
          BY <5>1 DEF ItemWriter
      <4> QED
        BY <4>1
    <3>3. Parts(n, P, v) = [i \in 1..n |-> PutItem(items[i], v[i])]
      BY <3>2 DEF Parts
    <3>4. PutItems(items, v) = FlattenSeq([i \in 1..n |-> PutItem(items[i], v[i])])
      BY <1>1 DEF PutItems
    <3> QED
      BY <1>5, <3>3, <3>4
  <2> QED
    BY <2>1 DEF StructWriter
<1>9. Struct(n, V, P, R, Q, R2)
  BY <1>1, <1>2, <1>4, <1>6, <1>7, <1>8 DEF Struct, StructReader
<1>10. Codec(Q, R2, StructValues(n, V))
  BY <1>9, StructCodec
<1> QED
  BY <1>10 DEF ItemsValues, Q, R2, n, V

\* The elements of a BoundedVec, n of them.
ElementsReader(n, m, items) ==
  [b \in Seq(Byte) |-> IF n > m THEN Failed("BoundExceeded")
                       ELSE InTurn([i \in 1..n |-> ItemsReader(items)], b)]

ElementsValues(n, m, items) ==
  IF n > m THEN {} ELSE StructValues(n, [i \in 1..n |-> ItemsValues(items)])

ElementsWriter(n, m, items) ==
  [v \in ElementsValues(n, m, items) |-> FlattenSeq([i \in 1..n |-> PutItems(items, v[i])])]

LEMMA ElementsCodec ==
  ASSUME NEW n \in Nat, NEW m \in Nat, NEW items \in Seq(Items)
  PROVE  Codec(ElementsWriter(n, m, items), ElementsReader(n, m, items), ElementsValues(n, m, items))
<1> DEFINE V == [i \in 1..n |-> ItemsValues(items)]
           P == [i \in 1..n |-> ItemsWriter(items)]
           R == [i \in 1..n |-> ItemsReader(items)]
           Q == ElementsWriter(n, m, items)
           R2 == ElementsReader(n, m, items)
<1>1. CASE n > m
  <2>1. R2 = [b \in Seq(Byte) |-> Failed("BoundExceeded")]
    BY <1>1 DEF ElementsReader
  <2>2. ElementsValues(n, m, items) = {}
    BY <1>1 DEF ElementsValues
  <2> HIDE DEF Q, R2
  <2>3. Codec(Q, R2, {})
    BY <2>1, FailingCodec DEF Errors
  <2> QED
    BY <2>2, <2>3 DEF Q, R2
<1>2. CASE ~(n > m)
  <2>1. ElementsValues(n, m, items) = StructValues(n, V)
    BY <1>2 DEF ElementsValues
  <2>2. R2 = [b \in Seq(Byte) |-> InTurn(R, b)]
    BY <1>2 DEF ElementsReader
  <2>3. /\ V = [i \in 1..n |-> V[i]] /\ R = [i \in 1..n |-> R[i]]
        /\ \A i \in 1..n : /\ V[i] = ItemsValues(items) /\ P[i] = ItemsWriter(items)
                           /\ R[i] = ItemsReader(items)
    OBVIOUS
  <2>4. \A v \in StructValues(n, V) : Q[v] = FlattenSeq([i \in 1..n |-> PutItems(items, v[i])])
    BY <2>1 DEF ElementsWriter
  <2> HIDE DEF V, P, R, Q, R2
  <2>5. \A i \in 1..n : Codec(P[i], R[i], V[i])
    <3>1. Codec(ItemsWriter(items), ItemsReader(items), ItemsValues(items))
      BY ItemsCodec
    <3> QED
      BY <2>3, <3>1
  <2>6. StructWriter(n, V, P, Q)
    <3>1. ASSUME NEW v \in StructValues(n, V) PROVE Q[v] = FlattenSeq(Parts(n, P, v))
      <4>1. \A i \in 1..n : v[i] \in V[i]
        BY StructMembers
      <4>2. \A i \in 1..n : P[i][v[i]] = PutItems(items, v[i])
        <5>1. ASSUME NEW i \in 1..n PROVE P[i][v[i]] = PutItems(items, v[i])
          <6>1. v[i] \in ItemsValues(items) /\ P[i] = ItemsWriter(items)
            BY <2>3, <4>1
          <6> QED
            BY <6>1 DEF ItemsWriter
        <5> QED
          BY <5>1
      <4>3. Parts(n, P, v) = [i \in 1..n |-> PutItems(items, v[i])]
        BY <4>2 DEF Parts
      <4> QED
        BY <2>4, <4>3
    <3> QED
      BY <3>1 DEF StructWriter
  <2>7. Struct(n, V, P, R, Q, R2)
    BY <2>2, <2>3, <2>5, <2>6 DEF Struct, StructReader
  <2>8. Codec(Q, R2, StructValues(n, V))
    BY <2>7, StructCodec
  <2> QED
    BY <2>1, <2>8 DEF Q, R2
<1> QED
  BY <1>1, <1>2

VecValues(m, items) == {v \in Seq(ItemsValues(items)) : Len(v) <= m}

FieldValues(field) ==
  IF field.type = "seq" THEN VecValues(field.max, field.items) ELSE ItemValues(field)
FieldWriter(field) == [v \in FieldValues(field) |-> Put(field, v)]
FieldReader(field) == [b \in Seq(Byte) |-> Take(field, b)]

LEMMA VecForms ==
  ASSUME NEW m, NEW items
  PROVE  LET F == BoundedVec(m, items)
         IN  /\ FieldValues(F) = VecValues(m, items)
             /\ \A v : Put(F, v) = VarintBytes[Len(v)]
                                   \o FlattenSeq([i \in DOMAIN v |-> PutItems(items, v[i])])
             /\ \A b : Take(F, b) =
                  IF ~Good(Length(b)) THEN Length(b)
                  ELSE IF Length(b).value > m THEN Failed("BoundExceeded")
                  ELSE InTurn([i \in 1..Length(b).value |-> ItemsReader(items)], Length(b).rest)
<1> DEFINE F == BoundedVec(m, items)
<1>1. F.type = "seq" /\ F.max = m /\ F.items = items
  BY DEF BoundedVec
<1> HIDE DEF F
<1>2. FieldValues(F) = VecValues(m, items)
  BY <1>1 DEF FieldValues
<1>3. \A v : Put(F, v) = VarintBytes[Len(v)]
                         \o FlattenSeq([i \in DOMAIN v |-> PutItems(items, v[i])])
  BY <1>1 DEF Put
<1>4. ASSUME NEW b
      PROVE  Take(F, b) = IF ~Good(Length(b)) THEN Length(b)
                          ELSE IF Length(b).value > m THEN Failed("BoundExceeded")
                          ELSE InTurn([i \in 1..Length(b).value |-> ItemsReader(items)],
                                      Length(b).rest)
  <2>1. Take(F, b) = TakeVec(F, b)
    BY <1>1 DEF Take
  <2> QED
    BY <1>1, <2>1, Zenon DEF TakeVec
<1> QED
  BY <1>2, <1>3, <1>4 DEF F

LEMMA VecCodec ==
  ASSUME NEW m \in 0..TWO_BYTES, NEW items \in Seq(Items)
  PROVE  LET F == BoundedVec(m, items)
         IN  Codec(FieldWriter(F), FieldReader(F), FieldValues(F))
<1> DEFINE F == BoundedVec(m, items)
           V2 == FieldValues(F)
           P2 == FieldWriter(F)
           R2 == FieldReader(F)
           R == VarintReader(LenWidth, 1)
           E == ItemsValues(items)
<1>1. PICK V \in SUBSET Nat : 0..TWO_BYTES \subseteq V /\ Codec(VarintBytes, R, V)
  BY LengthCodec
<1>2. m \in Nat /\ \A n \in 0..m : n \in V
  <2>1. TWO_BYTES \in Nat
    BY Limits
  <2>2. m \in Nat /\ \A n \in 0..m : n \in 0..TWO_BYTES
    BY <2>1
  <2> QED
    BY <1>1, <2>2
<1> HIDE DEF E
<1>3. V2 = {v \in Seq(E) : Len(v) <= m}
  BY VecForms DEF VecValues, E
<1>4. \A v \in V2 : P2[v] = VarintBytes[Len(v)] \o FlattenSeq([i \in DOMAIN v |-> PutItems(items, v[i])])
  BY VecForms DEF FieldWriter
<1>5. \A b \in Seq(Byte) : R[b] = Length(b)
  BY DEF VarintReader, Length
<1> DEFINE Q == [n \in V |-> ElementsWriter(n, m, items)]
           S == [n \in V |-> ElementsReader(n, m, items)]
           W == [n \in V |-> ElementsValues(n, m, items)]
<1>6. ASSUME NEW n \in V PROVE Codec(Q[n], S[n], W[n])
  <2>1. n \in Nat
    OBVIOUS
  <2>2. Codec(ElementsWriter(n, m, items), ElementsReader(n, m, items), ElementsValues(n, m, items))
    BY <1>2, <2>1, ElementsCodec
  <2> QED
    BY <2>2
<1>7. ASSUME NEW n \in V, NEW v
      PROVE  v \in W[n] <=> n <= m /\ v \in Seq(E) /\ Len(v) = n
  <2> DEFINE T == [i \in 1..n |-> E]
  <2>1. W[n] = IF n > m THEN {} ELSE StructValues(n, T)
    BY DEF ElementsValues, E
  <2>2. \A i \in 1..n : T[i] = E
    OBVIOUS
  <2>3. n \in Nat
    OBVIOUS
  <2> HIDE DEF T, W
  <2>4. v \in StructValues(n, T) <=> v = [i \in 1..n |-> v[i]] /\ \A i \in 1..n : v[i] \in T[i]
    BY <2>3, StructMembers
  <2>5. (v = [i \in 1..n |-> v[i]] /\ \A i \in 1..n : v[i] \in E) <=> v \in Seq(E) /\ Len(v) = n
    <3>1. ASSUME v = [i \in 1..n |-> v[i]], \A i \in 1..n : v[i] \in E
          PROVE  v \in Seq(E) /\ Len(v) = n
      <4>1. v \in [1..n -> E]
        BY <3>1
      <4> QED
        BY <2>3, <4>1
    <3>2. ASSUME v \in Seq(E), Len(v) = n
          PROVE  v = [i \in 1..n |-> v[i]] /\ \A i \in 1..n : v[i] \in E
      BY <3>2
    <3> QED
      BY <3>1, <3>2
  <2>6. n > m <=> ~(n <= m)
    BY <1>2, <2>3
  <2> QED
    BY <2>1, <2>2, <2>4, <2>5, <2>6
<1>8. CountedWriter(VarintBytes, Q, V2, P2)
  <2>1. ASSUME NEW v \in V2 PROVE P2[v] = VarintBytes[Len(v)] \o Q[Len(v)][v]
    <3>1. v \in Seq(E) /\ Len(v) \in 0..m /\ DOMAIN v = 1..Len(v)
      BY <1>2, <1>3
    <3>2. Len(v) \in V /\ Len(v) <= m
      BY <1>2, <3>1
    <3>3. v \in W[Len(v)]
      BY <1>7, <3>1, <3>2
    <3>4. v \in ElementsValues(Len(v), m, items)
      BY <3>2, <3>3
    <3>5. Q[Len(v)][v] = FlattenSeq([i \in 1..Len(v) |-> PutItems(items, v[i])])
      BY <3>2, <3>4 DEF ElementsWriter
    <3> HIDE DEF Q, P2, V2, W
    <3> QED
      BY <1>4, <3>1, <3>5
  <2> QED
    BY <2>1 DEF CountedWriter
<1>9. CountedReader(R, S, R2)
  <2>1. Typed(VarintBytes, R, V)
    BY <1>1 DEF Codec
  <2>2. ASSUME NEW b \in Seq(Byte) PROVE Take(F, b) = CountStep(S, R[b])
    <3> DEFINE l == Length(b)
               r == InTurn([i \in 1..l.value |-> ItemsReader(items)], l.rest)
    <3>1. Take(F, b) = IF ~Good(l) THEN l ELSE IF l.value > m THEN Failed("BoundExceeded") ELSE r
      BY VecForms
    <3>2. R[b] = l
      BY <1>5
    <3>3. l \in Results(V)
      BY <2>1, <3>2 DEF Typed
    <3> HIDE DEF l, F
    <3>4. CASE ~Good(l)
      BY <3>1, <3>2, <3>4 DEF CountStep
    <3>5. CASE Good(l)
      <4>1. l.value \in V /\ l.rest \in Seq(Byte)
        BY <3>3, <3>5, ResultCases
      <4>2. S[l.value][l.rest] = IF l.value > m THEN Failed("BoundExceeded") ELSE r
        BY <4>1 DEF ElementsReader
      <4> HIDE DEF S, R, r
      <4> QED
        BY <3>1, <3>2, <3>5, <4>2 DEF CountStep
    <3> QED
      BY <3>4, <3>5
  <2> HIDE DEF S, R
  <2>3. R2 = [b \in Seq(Byte) |-> CountStep(S, R[b])]
    BY <2>2 DEF FieldReader
  <2> QED
    BY <2>3 DEF CountedReader
<1>10. CountedValues(V, W, V2)
  <2> HIDE DEF V2, W
  <2>1. \A n \in V : \A v \in W[n] : v \in V2 /\ Len(v) = n
    BY <1>3, <1>7
  <2>2. ASSUME NEW v \in V2 PROVE \E n \in V : v \in W[n]
    <3>1. v \in Seq(E) /\ Len(v) <= m /\ Len(v) \in V
      BY <1>2, <1>3
    <3>2. v \in W[Len(v)]
      BY <1>7, <3>1
    <3> QED
      BY <3>1, <3>2
  <2>3. V2 = UNION {W[n] : n \in V}
    BY <2>1, <2>2
  <2> QED
    BY <2>1, <2>3 DEF CountedValues
<1> HIDE DEF Q, S, W, V2, P2, R2, R
<1>11. Counted(VarintBytes, R, V, Q, S, W, P2, R2, V2)
  BY <1>1, <1>6, <1>8, <1>9, <1>10 DEF Counted
<1>12. Codec(P2, R2, V2)
  BY <1>11, CountedCodec
<1> QED
  BY <1>12 DEF P2, R2, V2

LEMMA FieldCodec ==
  \A field \in Types : Codec(FieldWriter(field), FieldReader(field), FieldValues(field))
<1> TAKE field \in Types
<1>1. CASE field \in Items
  <2>1. field.type # "seq"
    BY <1>1 DEF Items, U8, U16, BoundedBytes
  <2>2. FieldValues(field) = ItemValues(field)
    BY <2>1 DEF FieldValues
  <2>3. FieldWriter(field) = ItemWriter(field)
    BY <2>1, <2>2 DEF FieldWriter, ItemWriter, Put
  <2>4. FieldReader(field) = ItemReader(field)
    BY <2>1 DEF FieldReader, ItemReader, Take
  <2>5. Codec(ItemWriter(field), ItemReader(field), ItemValues(field))
    BY <1>1, ItemCodec
  <2> QED
    BY <2>2, <2>3, <2>4, <2>5
<1>2. CASE \E m \in 0..TWO_BYTES, items \in Seq(Items) : field = BoundedVec(m, items)
  BY <1>2, VecCodec
<1> QED
  BY <1>1, <1>2 DEF Types

\* A whole message.
FieldSets(fields)     == [i \in 1..Len(fields) |-> FieldValues(fields[i])]
MessageValues(fields) == StructValues(Len(fields), FieldSets(fields))
MessageWriter(fields) == [v \in MessageValues(fields) |-> ToAllocVec(fields, v)]
MessageReader(fields) == [b \in Seq(Byte) |-> TakeAll(fields, b)]

LEMMA MessageCodec ==
  ASSUME NEW fields \in Seq(Types)
  PROVE  Codec(MessageWriter(fields), MessageReader(fields), MessageValues(fields))
<1> DEFINE n == Len(fields)
           V == FieldSets(fields)
           P == [i \in 1..n |-> FieldWriter(fields[i])]
           R == [i \in 1..n |-> FieldReader(fields[i])]
           Q == MessageWriter(fields)
           R2 == MessageReader(fields)
<1>1. n \in Nat /\ DOMAIN fields = 1..n /\ \A i \in 1..n : fields[i] \in Types
  OBVIOUS
<1>2. V = [i \in 1..n |-> V[i]] /\ \A i \in 1..n : V[i] = FieldValues(fields[i])
  BY DEF FieldSets
<1>3. \A i \in 1..n : P[i] = FieldWriter(fields[i]) /\ R[i] = FieldReader(fields[i])
  OBVIOUS
<1>4. R2 = [b \in Seq(Byte) |-> InTurn(R, b)]
  BY <1>1 DEF MessageReader, TakeAll, FieldReader
<1>5. \A v \in StructValues(n, V) : Q[v] = ToAllocVec(fields, v)
  BY DEF MessageWriter, MessageValues
<1>6. R = [i \in 1..n |-> R[i]]
  BY <1>3
<1> HIDE DEF n, V, P, R, Q, R2
<1>7. \A i \in 1..n : Codec(P[i], R[i], V[i])
  <2>1. ASSUME NEW i \in 1..n PROVE Codec(P[i], R[i], V[i])
    <3>1. Codec(FieldWriter(fields[i]), FieldReader(fields[i]), FieldValues(fields[i]))
      BY <1>1, FieldCodec
    <3> QED
      BY <1>2, <1>3, <3>1
  <2> QED
    BY <2>1
<1>8. StructWriter(n, V, P, Q)
  <2>1. ASSUME NEW v \in StructValues(n, V) PROVE Q[v] = FlattenSeq(Parts(n, P, v))
    <3>1. \A i \in 1..n : v[i] \in V[i]
      BY <1>1, StructMembers
    <3>2. \A i \in 1..n : P[i][v[i]] = Put(fields[i], v[i])
      <4>1. ASSUME NEW i \in 1..n PROVE P[i][v[i]] = Put(fields[i], v[i])
        <5>1. v[i] \in FieldValues(fields[i]) /\ P[i] = FieldWriter(fields[i])
          BY <1>2, <1>3, <3>1
        <5> QED
          BY <5>1 DEF FieldWriter
      <4> QED
        BY <4>1
    <3>3. Parts(n, P, v) = [i \in 1..n |-> Put(fields[i], v[i])]
      BY <3>2 DEF Parts
    <3>4. ToAllocVec(fields, v) = FlattenSeq([i \in 1..n |-> Put(fields[i], v[i])])
      BY <1>1 DEF ToAllocVec
    <3> QED
      BY <1>5, <3>3, <3>4
  <2> QED
    BY <2>1 DEF StructWriter
<1>9. Struct(n, V, P, R, Q, R2)
  BY <1>1, <1>2, <1>4, <1>6, <1>7, <1>8 DEF Struct, StructReader
<1>10. Codec(Q, R2, StructValues(n, V))
  BY <1>9, StructCodec
<1> QED
  BY <1>10 DEF MessageValues, Q, R2, n, V

-----------------------------------------------------------------------------
(***************************************************************************)
(* decode_exact                                                            *)
(***************************************************************************)
\* Every value has an encoding, which decodes to it and to no other.
LEMMA EncodedDecodes ==
  ASSUME NEW fields \in Seq(Types), NEW v \in MessageValues(fields)
  PROVE  ToAllocVec(fields, v) \in Seq(Byte) /\ DecodeExact(fields, ToAllocVec(fields, v)) = Ok(v)
<1> DEFINE P == MessageWriter(fields)
           R == MessageReader(fields)
           V == MessageValues(fields)
           e == ToAllocVec(fields, v)
<1>1. Typed(P, R, V) /\ ReadsBack(P, R, V)
  BY MessageCodec DEF Codec
<1>2. P[v] = e /\ \A b \in Seq(Byte) : R[b] = TakeAll(fields, b)
  BY DEF MessageWriter, MessageReader
<1>3. e \in Seq(Byte)
  BY <1>1, <1>2 DEF Typed
<1> HIDE DEF P, R, V, e
<1>4. R[e \o << >>] = Parsed(v, << >>)
  <2>1. R[P[v] \o << >>] = Parsed(v, << >>)
    <3>1. << >> \in Seq(Byte) /\ v \in V
      BY DEF V
    <3> QED
      BY <1>1, <3>1 DEF ReadsBack
  <2> QED
    BY <1>2, <2>1
<1>5. e \o << >> = e
  BY <1>3, ConcatEmptySeq
<1> DEFINE r == TakeAll(fields, e)
<1>6. r = Parsed(v, << >>)
  BY <1>2, <1>3, <1>4, <1>5
<1> HIDE DEF r
<1>7. Good(r) /\ r.value = v /\ r.rest = << >>
  BY <1>6, ParsedParts
<1>8. DecodeExact(fields, e) = Ok(v)
  BY <1>7, Zenon DEF DecodeExact, r
<1> QED
  BY <1>3, <1>8 DEF e

\* What is decoded is a value, and what it encodes to is no longer than what
\* was decoded.
LEMMA DecodedIsValue ==
  ASSUME NEW fields \in Seq(Types), NEW b \in Seq(Byte), Good(DecodeExact(fields, b))
  PROVE  LET v == DecodeExact(fields, b).value
             e == ToAllocVec(fields, v)
         IN  /\ v \in MessageValues(fields) /\ DecodeExact(fields, b) = Ok(v)
             /\ e = b \/ Len(e) < Len(b)
<1> DEFINE P == MessageWriter(fields)
           R == MessageReader(fields)
           V == MessageValues(fields)
           d == DecodeExact(fields, b)
           r == TakeAll(fields, b)
<1>1. Typed(P, R, V) /\ WritesShortest(P, R)
  BY MessageCodec DEF Codec
<1>2. \A v \in V : P[v] = ToAllocVec(fields, v)
  BY DEF MessageWriter
<1>3. R[b] = r
  BY DEF MessageReader
<1>4. d = IF ~Good(r) THEN r ELSE IF r.rest # << >> THEN Failed("TrailingBytes") ELSE Ok(r.value)
  BY Zenon DEF DecodeExact
<1>5. Good(d)
  OBVIOUS
<1> HIDE DEF P, R, V, r, d
<1>6. Good(r) /\ r.rest = << >> /\ d = Ok(r.value)
  <2>1. ~Good(Failed("TrailingBytes"))
    BY DEF Good, Failed
  <2> QED
    BY <1>4, <1>5, <2>1
<1>7. d.value = r.value
  BY <1>6 DEF Ok
<1>8. r.value \in V
  <2>1. r \in Results(V)
    BY <1>1, <1>3 DEF Typed
  <2> QED
    BY <1>6, <2>1, ResultCases
<1>9. PICK used \in Seq(Byte) : Within(P, R, b, used)
  BY <1>1, <1>3, <1>6 DEF WritesShortest
<1>10. used = b
  <2>1. b = used \o << >>
    BY <1>3, <1>6, <1>9, Zenon DEF Within
  <2> QED
    BY <2>1, ConcatEmptySeq
<1>11. P[r.value] = b \/ Len(P[r.value]) < Len(b)
  BY <1>3, <1>9, <1>10, Zenon DEF Within
<1> DEFINE v == r.value
<1>12. P[v] = ToAllocVec(fields, v)
  BY <1>2, <1>8
<1>13. d.value = v /\ v \in V /\ d = Ok(v)
  BY <1>6, <1>7, <1>8
<1> HIDE DEF v
<1> QED
  BY <1>11, <1>12, <1>13, Zenon DEF v, d, V

\* Bytes appended to what decodes are an excess; those appended to an
\* exceeded bound are not looked at.
LEMMA AppendedToDecoded ==
  ASSUME NEW fields \in Seq(Types), NEW b \in Seq(Byte), NEW more \in Seq(Byte), more # << >>
  PROVE  LET d == DecodeExact(fields, b)
             d2 == DecodeExact(fields, b \o more)
         IN  /\ Good(d) => d2 = Failed("TrailingBytes")
             /\ d = Failed("BoundExceeded") => d2 = Failed("BoundExceeded")
<1> DEFINE R == MessageReader(fields)
           y == b \o more
           r == TakeAll(fields, b)
           s == TakeAll(fields, y)
           d == DecodeExact(fields, b)
           e == DecodeExact(fields, y)
<1>1. ReadsOn(R)
  BY MessageCodec DEF Codec
<1>2. R[b] = r /\ y \in Seq(Byte) /\ R[y] = s
  <2>1. y \in Seq(Byte)
    OBVIOUS
  <2> HIDE DEF y
  <2> QED
    BY <2>1 DEF MessageReader
<1>3. d = IF ~Good(r) THEN r ELSE IF r.rest # << >> THEN Failed("TrailingBytes") ELSE Ok(r.value)
  BY Zenon DEF DecodeExact
<1>4. e = IF ~Good(s) THEN s ELSE IF s.rest # << >> THEN Failed("TrailingBytes") ELSE Ok(s.value)
  BY Zenon DEF DecodeExact
<1>5. (Good(R[b]) => R[y] = Parsed(R[b].value, R[b].rest \o more))
      /\ (R[b] = Failed("BoundExceeded") => R[y] = Failed("BoundExceeded"))
  BY <1>1 DEF ReadsOn
<1> HIDE DEF R, y, r, s, d, e
<1>6. /\ ~Good(Failed("TrailingBytes")) /\ ~Good(Failed("BoundExceeded"))
      /\ Failed("TrailingBytes") # Failed("BoundExceeded")
      /\ \A v : Ok(v) # Failed("BoundExceeded")
  BY DEF Good, Failed, Ok
<1>7. ASSUME Good(d) PROVE e = Failed("TrailingBytes")
  <2>1. Good(r) /\ r.rest = << >>
    BY <1>3, <1>6, <1>7
  <2>2. << >> \o more = more
    BY ConcatEmptySeq
  <2>3. s = Parsed(r.value, more)
    BY <1>2, <1>5, <2>1, <2>2
  <2>4. Good(s) /\ s.rest = more
    BY <2>3, ResultFacts
  <2> QED
    BY <1>4, <2>4
<1>8. ASSUME d = Failed("BoundExceeded") PROVE e = Failed("BoundExceeded")
  <2>1. r = Failed("BoundExceeded")
    BY <1>3, <1>6, <1>8
  <2>2. s = Failed("BoundExceeded")
    BY <1>2, <1>5, <2>1
  <2> QED
    BY <1>4, <1>6, <2>2
<1> QED
  BY <1>7, <1>8 DEF d, e, y

-----------------------------------------------------------------------------
(***************************************************************************)
(* The fields of the messages and of the transcript                        *)
(***************************************************************************)
LEMMA Lengths ==
  /\ NONCE_LEN \in 0..TWO_BYTES /\ DOMAIN_LEN \in 0..TWO_BYTES /\ NODE_ID_LEN \in 0..TWO_BYTES
  /\ BINDING_LEN \in 0..TWO_BYTES /\ MAX_SIGNATURE_BYTES \in 0..TWO_BYTES
  /\ MAX_CERTIFICATE_WIRE_BYTES \in 0..TWO_BYTES /\ MAX_PROOF_SIGNATURES \in 0..TWO_BYTES
  /\ MAX_HELLO_ALGS \in 0..TWO_BYTES
<1> DEFINE T == 0..TWO_BYTES
<1> HIDE DEF T
<1>1. { NONCE_LEN, DOMAIN_LEN, NODE_ID_LEN, BINDING_LEN, MAX_SIGNATURE_BYTES,
        MAX_CERTIFICATE_WIRE_BYTES, MAX_PROOF_SIGNATURES, MAX_HELLO_ALGS } \subseteq T
  BY BoundsAssumption DEF T
<1> QED
  BY <1>1 DEF T

LEMMA FieldTypes ==
  /\ \A m \in 0..TWO_BYTES : BoundedBytes(m) \in Items
  /\ U8 \in Items /\ U16 \in Items /\ Items \subseteq Types
  /\ \A m \in 0..TWO_BYTES : \A items \in Seq(Items) : BoundedVec(m, items) \in Types
<1> DEFINE T == 0..TWO_BYTES
           S == Seq(Items)
<1> HIDE DEF T, S
<1>1. \A m \in T : BoundedBytes(m) \in Items
  BY DEF Items, T
<1>2. U8 \in Items /\ U16 \in Items
  BY DEF Items
<1>3. Items \subseteq Types /\ \A m \in T : \A items \in S : BoundedVec(m, items) \in Types
  <2>1. Types = Items \cup {BoundedVec(m, items) : m \in T, items \in S}
    BY DEF Types, T, S
  <2> QED
    BY <2>1
<1> QED
  BY <1>1, <1>2, <1>3 DEF T, S

LEMMA MessageTypes ==
  /\ \A k \in Kinds : Fields(k) \in Seq(Types)
  /\ TranscriptFields \in Seq(Types)
<1> DEFINE SignatureItems == << U16, BoundedBytes(MAX_SIGNATURE_BYTES) >>
           CodeItems == << U16 >>
           Codes == BoundedVec(MAX_HELLO_ALGS, CodeItems)
<1>1. Nonce \in Items /\ Certificate \in Items /\ BoundedBytes(MAX_SIGNATURE_BYTES) \in Items
      /\ BoundedBytes(DOMAIN_LEN) \in Items /\ BoundedBytes(BINDING_LEN) \in Items
      /\ BoundedBytes(NODE_ID_LEN) \in Items /\ U8 \in Items /\ U16 \in Items
  BY Lengths, FieldTypes DEF Nonce, Certificate
<1>2. SignatureItems \in Seq(Items) /\ CodeItems \in Seq(Items)
  BY <1>1
<1> HIDE DEF SignatureItems, CodeItems
<1>3. BoundedVec(MAX_PROOF_SIGNATURES, SignatureItems) \in Types /\ Codes \in Types
  BY <1>2, Lengths, FieldTypes
<1>4. Signatures \in Types
  BY <1>3 DEF Signatures, SignatureItems
<1>5. Nonce \in Types /\ Certificate \in Types /\ U8 \in Types /\ U16 \in Types
      /\ BoundedBytes(DOMAIN_LEN) \in Types /\ BoundedBytes(BINDING_LEN) \in Types
      /\ BoundedBytes(NODE_ID_LEN) \in Types
  BY <1>1, FieldTypes
<1>6. /\ << Codes >> \in Seq(Types) /\ << U16, Nonce, Certificate >> \in Seq(Types)
      /\ << U16, Nonce, Certificate, Signatures >> \in Seq(Types) /\ << Signatures >> \in Seq(Types)
  BY <1>3, <1>4, <1>5
<1>7. TranscriptFields \in Seq(Types)
  BY <1>5 DEF TranscriptFields
<1>8. ASSUME NEW k \in Kinds PROVE Fields(k) \in Seq(Types)
  <2>1. CASE k = "Hello"
    BY <1>6, <2>1 DEF Fields, CodeItems
  <2>2. CASE k = "AuthInit"
    BY <1>6, <2>2 DEF Fields
  <2>3. CASE k = "AuthResponse"
    BY <1>6, <2>3 DEF Fields
  <2>4. CASE k = "AuthConfirm"
    BY <1>6, <2>4 DEF Fields
  <2> QED
    BY <2>1, <2>2, <2>3, <2>4 DEF Kinds
<1> QED
  BY <1>7, <1>8

-----------------------------------------------------------------------------
(***************************************************************************)
(* What a receiver accepts                                                 *)
(***************************************************************************)
ReceiveInv == expected \in Kinds /\ input \in Seq(Byte) /\ verdict = FromBytes(expected, input)

\* from_bytes, without its order: what it accepts decodes, to what encodes to
\* it again, unless it is a hello.
LEMMA AcceptedFacts ==
  ASSUME NEW k \in Kinds, NEW b \in Seq(Byte), Good(FromBytes(k, b))
  PROVE  /\ FromBytes(k, b) = DecodeExact(Fields(k), b)
         /\ k # "Hello" => /\ ToAllocVec(Fields(k), FromBytes(k, b).value) = b
                           /\ ~(Len(b) > MaxSize(k))
<1> DEFINE r == DecodeExact(Fields(k), b)
           f == FromBytes(k, b)
           big == Len(b) > MaxSize(k)
           other == ToAllocVec(Fields(k), r.value) # b
           known == Resolved(k, r.value)
<1>1. f = IF k = "Hello" THEN r
          ELSE IF big THEN Failed("MessageTooLarge")
          ELSE IF ~Good(r) THEN r
          ELSE IF other THEN Failed("NonCanonicalEncoding")
          ELSE IF ~known THEN Failed("UnknownAlgorithm")
          ELSE r
  BY Zenon DEF FromBytes
<1>2. \A e \in {"MessageTooLarge", "NonCanonicalEncoding", "UnknownAlgorithm"} : ~Good(Failed(e))
  BY DEF Good, Failed
<1>3. Good(f)
  OBVIOUS
<1> HIDE DEF r, f, big, other, known
<1>4. f = r /\ (k # "Hello" => ~big /\ ~other)
  BY <1>1, <1>2, <1>3
<1> QED
  BY <1>4 DEF r, f, big, other

LEMMA ReceiveInductive == ReceiveSpec => []ReceiveInv
<1>1. ReceiveInit => ReceiveInv
  BY DEF ReceiveInit, ReceiveInv
<1>2. ReceiveInv /\ [ReceiveNext]_receiveVars => ReceiveInv'
  <2>1. ASSUME ReceiveInv, ReceiveNext PROVE ReceiveInv'
    <3>1. PICK b \in Alphabet : input' = Append(input, b)
      BY <2>1 DEF ReceiveNext
    <3>2. input \in Seq(Byte) /\ b \in Byte
      BY <2>1, AlphabetAssumption DEF ReceiveInv
    <3>3. input' \in Seq(Byte)
      BY <3>1, <3>2
    <3>4. verdict' = FromBytes(expected, input') /\ expected' = expected
      BY <2>1 DEF ReceiveNext
    <3>5. expected \in Kinds
      BY <2>1 DEF ReceiveInv
    <3> QED
      BY <3>3, <3>4, <3>5 DEF ReceiveInv
  <2>2. ASSUME ReceiveInv, UNCHANGED receiveVars PROVE ReceiveInv'
    BY <2>2 DEF ReceiveInv, receiveVars
  <2> QED
    BY <2>1, <2>2
<1> QED
  BY <1>1, <1>2, PTL DEF ReceiveSpec

\* Whatever the bounds: an authentication message is accepted from one byte
\* string only; a hello from others too, all of them longer.
THEOREM OneStringIsAccepted == ReceiveSpec => []AcceptedFromOneString
<1>1. ReceiveInv => AcceptedFromOneString
  <2> SUFFICES ASSUME ReceiveInv, Good(verdict)
               PROVE  \E b \in {ToAllocVec(Fields(expected), verdict.value)} :
                        \/ b = input
                        \/ expected = "Hello" /\ Len(b) < Len(input)
                           /\ FromBytes(expected, b) = verdict
    BY DEF AcceptedFromOneString
  <2>1. expected \in Kinds /\ input \in Seq(Byte) /\ verdict = FromBytes(expected, input)
    BY DEF ReceiveInv
  <2>2. /\ verdict = DecodeExact(Fields(expected), input)
        /\ expected # "Hello" => ToAllocVec(Fields(expected), verdict.value) = input
    BY <2>1, AcceptedFacts
  <2> DEFINE F == Fields(expected)
             v == verdict.value
             e == ToAllocVec(F, v)
  <2>3. CASE expected # "Hello"
    BY <2>2, <2>3
  <2>4. CASE expected = "Hello"
    <3>1. F \in Seq(Types)
      BY <2>1, MessageTypes
    <3>2. v \in MessageValues(F) /\ verdict = Ok(v) /\ (e = input \/ Len(e) < Len(input))
      <4> HIDE DEF F
      <4>1. Good(DecodeExact(F, input))
        BY <2>2 DEF F
      <4> QED
        BY <2>1, <2>2, <3>1, <4>1, DecodedIsValue DEF F
    <3>3. DecodeExact(F, e) = Ok(v)
      <4> HIDE DEF F, v
      <4> QED
        BY <3>1, <3>2, EncodedDecodes
    <3>4. FromBytes(expected, e) = DecodeExact(F, e)
      BY <2>4, Zenon DEF FromBytes
    <3> QED
      BY <2>4, <3>2, <3>3, <3>4
  <2> QED
    BY <2>3, <2>4
<1> QED
  BY <1>1, ReceiveInductive, PTL

\* Whatever the bounds: of a value that decodes, with a whole nonce, to_bytes()
\* gives bytes exactly if from_bytes() has the value back from them or misses a
\* code only, and what is accepted can be sent on but for the nonce.
THEOREM AcceptedCanBeSent == ReceiveSpec => []DecodedEncodes
<1>1. ReceiveInv => DecodedEncodes
  <2> DEFINE F == Fields(expected)
             r == DecodeExact(F, input)
             v == r.value
             b == ToAllocVec(F, v)
             e == ToBytes(expected, v)
             d == DecodeExact(F, b)
             back == FromBytes(expected, b)
             exact == expected \in {"AuthInit", "AuthResponse"} => Len(v[2]) = NONCE_LEN
             known == Resolved(expected, v)
             big == Len(b) > MaxSize(expected)
  <2> SUFFICES ASSUME ReceiveInv, Good(r)
               PROVE  /\ exact => Good(e) <=> back = IF known THEN r
                                                     ELSE Failed("UnknownAlgorithm")
                      /\ Good(verdict) => IF exact THEN Good(e) ELSE e = Failed("ExactLength")
    BY Zenon DEF DecodedEncodes
  <2>1. expected \in Kinds /\ input \in Seq(Byte) /\ verdict = FromBytes(expected, input)
    BY DEF ReceiveInv
  <2>2. F \in Seq(Types)
    BY <2>1, MessageTypes
  <2>3. r = Ok(v) /\ d = Ok(v)
    <3>1. v \in MessageValues(F) /\ r = Ok(v)
      <4> HIDE DEF F
      <4> QED
        BY <2>1, <2>2, DecodedIsValue
    <3> HIDE DEF F, v
    <3>2. d = Ok(v)
      BY <2>2, <3>1, EncodedDecodes
    <3> QED
      BY <3>1, <3>2
  <2>4. e = IF expected = "Hello" THEN Ok(b)
            ELSE IF ~exact THEN Failed("ExactLength")
            ELSE IF big THEN Failed("MessageTooLarge")
            ELSE Ok(b)
    BY Zenon DEF ToBytes
  <2>5. back = IF expected = "Hello" THEN d
               ELSE IF big THEN Failed("MessageTooLarge")
               ELSE IF ~Good(d) THEN d
               ELSE IF ToAllocVec(F, d.value) # b THEN Failed("NonCanonicalEncoding")
               ELSE IF ~Resolved(expected, d.value) THEN Failed("UnknownAlgorithm")
               ELSE d
    BY Zenon DEF FromBytes
  <2>6. d.value = v /\ Good(d)
    BY <2>3 DEF Ok, Good
  <2>7. /\ expected = "Hello" => exact
        /\ expected = "Hello" => known
    BY DEF Resolved
  <2>8. Good(verdict) /\ expected # "Hello" => ~big
    <3> SUFFICES ASSUME Good(verdict), expected # "Hello" PROVE ~big
      OBVIOUS
    <3>1. Good(FromBytes(expected, input))
      BY <2>1
    <3>2. /\ FromBytes(expected, input) = r
          /\ ToAllocVec(F, FromBytes(expected, input).value) = input
          /\ ~(Len(input) > MaxSize(expected))
      BY <2>1, <3>1, AcceptedFacts
    <3>3. b = input
      BY <3>2
    <3> QED
      BY <3>2, <3>3
  <2>9. ToAllocVec(F, d.value) = b /\ (Resolved(expected, d.value) <=> known)
    BY <2>6
  <2>10. /\ Good(Ok(b)) /\ Ok(v) # Failed("MessageTooLarge")
         /\ ~Good(Failed("MessageTooLarge")) /\ ~Good(Failed("ExactLength"))
         /\ Failed("UnknownAlgorithm") # Failed("MessageTooLarge")
    BY DEF Good, Ok, Failed
  <2> HIDE DEF F, r, v, b, e, d, back, exact, known, big
  <2>11. back = IF expected # "Hello" /\ big THEN Failed("MessageTooLarge")
                ELSE IF known THEN r ELSE Failed("UnknownAlgorithm")
    BY <2>3, <2>5, <2>6, <2>7, <2>9
  <2>12. exact => Good(e) <=> back = IF known THEN r ELSE Failed("UnknownAlgorithm")
    BY <2>3, <2>4, <2>10, <2>11
  <2>13. Good(verdict) => IF exact THEN Good(e) ELSE e = Failed("ExactLength")
    BY <2>4, <2>7, <2>8, <2>10
  <2> QED
    BY <2>12, <2>13
<1> QED
  BY <1>1, ReceiveInductive, PTL

\* Whatever the bounds: one byte more than an accepted message is refused as an
\* excess, and an exceeded bound stays one.
THEOREM ExcessIsRefused == ReceiveSpec => AppendedBytesAreRefused
<1> DEFINE Refused ==
             /\ Good(verdict) => verdict' \in {Failed("TrailingBytes"), Failed("MessageTooLarge")}
             /\ verdict = Failed("BoundExceeded") =>
                  verdict' \in {Failed("BoundExceeded"), Failed("MessageTooLarge")}
<1>1. ReceiveInv /\ [ReceiveNext]_receiveVars => [Refused]_receiveVars
  <2> SUFFICES ASSUME ReceiveInv, ReceiveNext PROVE Refused
    OBVIOUS
  <2>1. expected \in Kinds /\ input \in Seq(Byte) /\ verdict = FromBytes(expected, input)
    BY DEF ReceiveInv
  <2>2. PICK c \in Alphabet : input' = Append(input, c)
    BY DEF ReceiveNext
  <2> DEFINE F == Fields(expected)
             more == << c >>
             y == input \o more
             d == DecodeExact(F, input)
             d2 == DecodeExact(F, y)
             other == ToAllocVec(F, d2.value) # y
             known == Resolved(expected, d2.value)
             big == Len(y) > MaxSize(expected)
  <2>3. c \in Byte
    BY AlphabetAssumption
  <2>4. more \in Seq(Byte) /\ more # << >> /\ y \in Seq(Byte) /\ input' = y
    BY <2>1, <2>2, <2>3
  <2>5. verdict' = FromBytes(expected, y)
    BY <2>4 DEF ReceiveNext
  <2>6. F \in Seq(Types)
    BY <2>1, MessageTypes
  <2>7. /\ Good(d) => d2 = Failed("TrailingBytes")
        /\ d = Failed("BoundExceeded") => d2 = Failed("BoundExceeded")
    <3> HIDE DEF F, more
    <3> QED
      BY <2>1, <2>4, <2>6, AppendedToDecoded
  <2>8. verdict' = IF expected = "Hello" THEN d2
                   ELSE IF big THEN Failed("MessageTooLarge")
                   ELSE IF ~Good(d2) THEN d2
                   ELSE IF other THEN Failed("NonCanonicalEncoding")
                   ELSE IF ~known THEN Failed("UnknownAlgorithm")
                   ELSE d2
    BY <2>5, Zenon DEF FromBytes
  <2>9. ~Good(Failed("TrailingBytes")) /\ ~Good(Failed("BoundExceeded"))
    BY DEF Good, Failed
  <2>10. ASSUME Good(verdict)
         PROVE  verdict' \in {Failed("TrailingBytes"), Failed("MessageTooLarge")}
    <3>1. Good(d)
      BY <2>1, <2>10, AcceptedFacts
    <3> HIDE DEF d, d2, big, other, known
    <3> QED
      BY <2>7, <2>8, <2>9, <3>1
  <2>11. ASSUME verdict = Failed("BoundExceeded")
         PROVE  verdict' \in {Failed("BoundExceeded"), Failed("MessageTooLarge")}
    <3>1. d = Failed("BoundExceeded")
      <4> DEFINE o == ToAllocVec(F, d.value) # input
                 k == Resolved(expected, d.value)
                 g == Len(input) > MaxSize(expected)
      <4>1. verdict = IF expected = "Hello" THEN d
                      ELSE IF g THEN Failed("MessageTooLarge")
                      ELSE IF ~Good(d) THEN d
                      ELSE IF o THEN Failed("NonCanonicalEncoding")
                      ELSE IF ~k THEN Failed("UnknownAlgorithm")
                      ELSE d
        BY <2>1, Zenon DEF FromBytes
      <4>2. \A x \in {"MessageTooLarge", "NonCanonicalEncoding", "UnknownAlgorithm"} :
              Failed(x) # Failed("BoundExceeded")
        BY DEF Failed
      <4> HIDE DEF d, o, k, g
      <4> QED
        BY <2>11, <4>1, <4>2
    <3> HIDE DEF d, d2, big, other, known
    <3> QED
      BY <2>7, <2>8, <2>9, <3>1
  <2> QED
    BY <2>10, <2>11
<1> QED
  BY <1>1, ReceiveInductive, PTL DEF ReceiveSpec, AppendedBytesAreRefused


-----------------------------------------------------------------------------
(***************************************************************************)
(* What a sender builds                                                    *)
(***************************************************************************)
LEMMA HeldItem ==
  ASSUME NEW field \in Items, NEW v, HoldsItem(field, v)
  PROVE  v \in ItemValues(field)
<1>1. CASE field = U8
  BY <1>1 DEF HoldsItem, ItemValues, U8
<1>2. CASE field = U16
  BY <1>2 DEF HoldsItem, ItemValues, U16
<1>3. CASE \E m \in 0..TWO_BYTES : field = BoundedBytes(m)
  BY <1>3 DEF HoldsItem, ItemValues, BoundedBytes
<1> QED
  BY <1>1, <1>2, <1>3 DEF Items

LEMMA HeldItems ==
  ASSUME NEW items \in Seq(Items), NEW v, HoldsItems(items, v)
  PROVE  v \in ItemsValues(items)
<1> DEFINE n == Len(items)
           V == ItemsSets(items)
<1>1. n \in Nat /\ DOMAIN items = 1..n
  OBVIOUS
<1>2. v = [i \in 1..n |-> v[i]]
  BY <1>1 DEF HoldsItems
<1>3. ASSUME NEW i \in 1..n PROVE v[i] \in V[i]
  <2>1. HoldsItem(items[i], v[i]) /\ items[i] \in Items
    BY <1>1 DEF HoldsItems
  <2> QED
    BY <2>1, HeldItem DEF ItemsSets
<1> HIDE DEF n, V
<1>4. v \in StructValues(n, V)
  BY <1>1, <1>2, <1>3, StructMembers
<1> QED
  BY <1>4 DEF ItemsValues, n, V

\* What a bounded type lets be constructed is what its codec carries.
LEMMA HeldIsValue ==
  ASSUME NEW field \in Types, NEW v, Holds(field, v)
  PROVE  v \in FieldValues(field)
<1>1. CASE field \in Items
  <2>1. field.type # "seq"
    BY <1>1 DEF Items, U8, U16, BoundedBytes
  <2> QED
    BY <1>1, <2>1, HeldItem DEF Holds, FieldValues
<1>2. ASSUME NEW m \in 0..TWO_BYTES, NEW items \in Seq(Items), field = BoundedVec(m, items)
      PROVE  v \in FieldValues(field)
  <2>1. field.type = "seq" /\ field.max = m /\ field.items = items
    BY <1>2 DEF BoundedVec
  <2>2. PICK n \in 0..m : /\ v = [i \in 1..n |-> v[i]]
                          /\ \A i \in 1..n : HoldsItems(items, v[i])
    BY <2>1 DEF Holds
  <2>3. \A i \in 1..n : v[i] \in ItemsValues(items)
    BY <2>2, HeldItems
  <2> DEFINE E == ItemsValues(items)
  <2> HIDE DEF E
  <2>4. v \in [1..n -> E]
    BY <2>2, <2>3 DEF E
  <2>5. v \in Seq(E) /\ Len(v) = n /\ n <= m
    BY <2>4, Limits
  <2>6. v \in VecValues(m, items)
    BY <2>5 DEF VecValues, E
  <2> QED
    BY <2>1, <2>6 DEF FieldValues
<1> QED
  BY <1>1, <1>2 DEF Types

LEMMA HeldIsMessage ==
  ASSUME NEW fields \in Seq(Types), NEW v, v = [i \in DOMAIN fields |-> v[i]],
         \A i \in DOMAIN fields : Holds(fields[i], v[i])
  PROVE  v \in MessageValues(fields)
<1> DEFINE n == Len(fields)
           V == FieldSets(fields)
<1>1. n \in Nat /\ DOMAIN fields = 1..n
  OBVIOUS
<1>2. v = [i \in 1..n |-> v[i]]
  BY <1>1
<1>3. ASSUME NEW i \in 1..n PROVE v[i] \in V[i]
  <2>1. Holds(fields[i], v[i]) /\ fields[i] \in Types
    BY <1>1
  <2> QED
    BY <2>1, HeldIsValue DEF FieldSets
<1> HIDE DEF n, V
<1>4. v \in StructValues(n, V)
  BY <1>1, <1>2, <1>3, StructMembers
<1> QED
  BY <1>4 DEF MessageValues, n, V

\* The fields of a message hold what their types let be constructed.
BuildInv == /\ kind \in Kinds \cup {"Transcript"}
            /\ value = [i \in DOMAIN FieldsOf(kind) |-> value[i]]
            /\ \A i \in DOMAIN FieldsOf(kind) : Settable(kind, FieldsOf(kind)[i], value[i])

LEMMA BuildInductive == BuildSpec => []BuildInv
<1>1. BuildInit => BuildInv
  <2> SUFFICES ASSUME BuildInit PROVE BuildInv
    OBVIOUS
  <2> DEFINE D == DOMAIN FieldsOf(kind)
             f == FieldsOf(kind)
  <2>1. /\ kind \in Kinds \cup {"Transcript"}
        /\ value = [i \in D |-> CHOOSE x \in Settings(kind, i) : TRUE]
    BY DEF BuildInit
  <2>2. ASSUME NEW i \in D PROVE Settable(kind, f[i], value[i])
    <3>1. /\ Settings(kind, i) # {}
          /\ \A x \in Settings(kind, i) : Settable(kind, f[i], x)
      BY <2>1, SettingsAssumption
    <3>2. value[i] = CHOOSE x \in Settings(kind, i) : TRUE
      BY <2>1
    <3>3. value[i] \in Settings(kind, i)
      BY <3>1, <3>2
    <3> QED
      BY <3>1, <3>3
  <2> HIDE DEF D, f
  <2>3. value = [i \in D |-> value[i]]
    BY <2>1
  <2> QED
    BY <2>1, <2>2, <2>3 DEF BuildInv, D, f
<1>2. BuildInv /\ [BuildNext]_<< kind, value >> => BuildInv'
  <2>1. ASSUME BuildInv, NEW i \in DOMAIN value, Set(i) PROVE BuildInv'
    <3> DEFINE D == DOMAIN FieldsOf(kind)
               f == FieldsOf(kind)
    <3>1. PICK x \in Settings(kind, i) : value' = [value EXCEPT ![i] = x]
      BY <2>1 DEF Set
    <3>2. kind' = kind
      BY <2>1 DEF Set
    <3>3. /\ kind \in Kinds \cup {"Transcript"} /\ value = [j \in D |-> value[j]]
          /\ \A j \in D : Settable(kind, f[j], value[j])
      BY <2>1 DEF BuildInv
    <3>4. i \in D
      BY <2>1, <3>3
    <3>5. Settable(kind, f[i], x)
      BY <3>1, <3>3, <3>4, SettingsAssumption
    <3>6. D' = D /\ f' = f
      BY <3>2
    <3> HIDE DEF D, f
    <3>7. value' = [j \in D |-> value'[j]]
      BY <3>1, <3>3
    <3>8. \A j \in D : value'[j] = IF j = i THEN x ELSE value[j]
      BY <3>1, <3>3
    <3>9. \A j \in D : Settable(kind, f[j], value'[j])
      BY <3>3, <3>5, <3>8
    <3> QED
      BY <3>2, <3>3, <3>6, <3>7, <3>9 DEF BuildInv, D, f
  <2>2. ASSUME BuildInv, UNCHANGED << kind, value >> PROVE BuildInv'
    BY <2>2 DEF BuildInv
  <2> QED
    BY <2>1, <2>2 DEF BuildNext
<1> QED
  BY <1>1, <1>2, PTL DEF BuildSpec

LEMMA BuiltMessage ==
  ASSUME BuildInv, kind # "Transcript"
  PROVE  kind \in Kinds /\ Fields(kind) \in Seq(Types) /\ value \in MessageValues(Fields(kind))
<1>1. kind \in Kinds
  BY DEF BuildInv
<1>2. Fields(kind) \in Seq(Types)
  BY <1>1, MessageTypes
<1> DEFINE f == Fields(kind)
<1>3. value = [i \in DOMAIN f |-> value[i]] /\ \A i \in DOMAIN f : Holds(f[i], value[i])
  BY DEF BuildInv, FieldsOf, Settable
<1> HIDE DEF f
<1>4. value \in MessageValues(f)
  BY <1>2, <1>3, HeldIsMessage DEF f
<1> QED
  BY <1>1, <1>2, <1>4 DEF f

\* For every bound, and every value of the fields: what to_bytes() accepts is
\* received as it was sent, or refused for a code that is in no registry.
THEOREM WhatIsSentIsReceived == BuildSpec => []SentIsReceived
<1>1. BuildInv => SentIsReceived
  <2> SUFFICES ASSUME BuildInv, kind # "Transcript", Good(ToBytes(kind, value))
               PROVE  FromBytes(kind, ToBytes(kind, value).value) =
                        IF Resolved(kind, value) THEN Ok(value) ELSE Failed("UnknownAlgorithm")
    BY DEF SentIsReceived
  <2> DEFINE F == Fields(kind)
             b == ToAllocVec(F, value)
             e == ToBytes(kind, value)
             d == DecodeExact(F, b)
             short == kind \in {"AuthInit", "AuthResponse"} /\ Len(value[2]) # NONCE_LEN
             big == Len(b) > MaxSize(kind)
             known == Resolved(kind, value)
  <2>1. F \in Seq(Types) /\ value \in MessageValues(F)
    BY BuiltMessage
  <2>2. d = Ok(value)
    <3> HIDE DEF F
    <3> QED
      BY <2>1, EncodedDecodes
  <2>3. e = IF kind = "Hello" THEN Ok(b)
            ELSE IF short THEN Failed("ExactLength")
            ELSE IF big THEN Failed("MessageTooLarge")
            ELSE Ok(b)
    BY Zenon DEF ToBytes
  <2>4. FromBytes(kind, b) = IF kind = "Hello" THEN d
                             ELSE IF big THEN Failed("MessageTooLarge")
                             ELSE IF ~Good(d) THEN d
                             ELSE IF ToAllocVec(F, d.value) # b THEN Failed("NonCanonicalEncoding")
                             ELSE IF ~Resolved(kind, d.value) THEN Failed("UnknownAlgorithm")
                             ELSE d
    BY Zenon DEF FromBytes
  <2>5. kind = "Hello" => known
    BY DEF Resolved
  <2>6. Good(e)
    OBVIOUS
  <2>7. Good(Ok(value)) /\ Ok(value).value = value /\ Ok(b).value = b
    BY DEF Good, Ok
  <2>8. ~Good(Failed("ExactLength")) /\ ~Good(Failed("MessageTooLarge"))
    BY DEF Good, Failed
  <2>9. ToAllocVec(F, Ok(value).value) = b /\ (Resolved(kind, Ok(value).value) <=> known)
    BY <2>7
  <2> HIDE DEF b, e, d, short, big, known, F
  <2>10. e = Ok(b) /\ (kind # "Hello" => ~big)
    BY <2>3, <2>6, <2>8
  <2>11. FromBytes(kind, b) = IF known THEN Ok(value) ELSE Failed("UnknownAlgorithm")
    BY <2>2, <2>4, <2>5, <2>7, <2>9, <2>10
  <2> QED
    BY <2>7, <2>10, <2>11 DEF e, known
<1> QED
  BY <1>1, BuildInductive, PTL


-----------------------------------------------------------------------------
(***************************************************************************)
(* Transcripts                                                             *)
(***************************************************************************)
LEMMA ExactlyPasses ==
  ASSUME NEW x, NEW n
  PROVE  IsList(Exactly(x, n)) /\ (Pass(Exactly(x, n)) <=> Len(x) <= n /\ Len(x) = n)
<1> DEFINE c == Check(Len(x) <= n, "BoundExceeded")
           d == Check(Len(x) = n, "ExactLength")
           u == << c, d >>
<1>1. Exactly(x, n) = u
  BY DEF Exactly
<1>2. /\ c.holds = (Len(x) <= n) /\ c.error = "BoundExceeded"
      /\ d.holds = (Len(x) = n) /\ d.error = "ExactLength"
  BY DEF Check
<1> HIDE DEF c, d
<1>3. u \in Seq({c, d}) /\ Len(u) = 2 /\ u[1] = c /\ u[2] = d
  OBVIOUS
<1> HIDE DEF u
<1>4. \A i \in 1..Len(u) : i = 1 \/ i = 2
  BY <1>3
<1>5. IsList(u)
  BY <1>2, <1>3, <1>4 DEF IsList
<1>6. Pass(u) <=> c.holds /\ d.holds
  BY <1>3, <1>4 DEF Pass
<1>7. Pass(u) <=> Len(x) <= n /\ Len(x) = n
  BY <1>2, <1>6
<1> QED
  BY <1>1, <1>5, <1>7

LEMMA OnePasses ==
  ASSUME NEW c, c.error # "Ok"
  PROVE  IsList(<< c >>) /\ (Pass(<< c >>) <=> c.holds)
<1> DEFINE u == << c >>
<1>1. u \in Seq({c}) /\ Len(u) = 1 /\ u[1] = c
  OBVIOUS
<1> HIDE DEF u
<1>2. \A i \in 1..Len(u) : i = 1
  BY <1>1
<1>3. IsList(u)
  BY <1>1, <1>2 DEF IsList
<1>4. Pass(u) <=> c.holds
  BY <1>1, <1>2 DEF Pass
<1> QED
  BY <1>3, <1>4 DEF u

TranscriptOk(v) ==
  /\ v[4] \in {AUTH_ROLE_CLIENT, AUTH_ROLE_SERVER} /\ v[1] = AUTH_TRANSCRIPT_DOMAIN_V1
  /\ Len(v[1]) <= DOMAIN_LEN /\ Len(v[5]) <= BINDING_LEN
  /\ Len(v[6]) <= NODE_ID_LEN /\ Len(v[7]) <= NODE_ID_LEN
  /\ Len(v[8]) <= NONCE_LEN /\ Len(v[9]) <= NONCE_LEN
  /\ Len(v[10]) <= MAX_CERTIFICATE_WIRE_BYTES /\ Len(v[11]) <= MAX_CERTIFICATE_WIRE_BYTES

\* A transcript that is constructed passed every check of AuthTranscriptV1::new.
LEMMA ConstructedTranscript ==
  ASSUME NEW v, NewTranscript(v) = "Ok"
  PROVE  TranscriptOk(v)
<1> DEFINE r == Check(v[4] \in {AUTH_ROLE_CLIENT, AUTH_ROLE_SERVER}, "InvalidAuthRole")
           t == Check(v[1] = AUTH_TRANSCRIPT_DOMAIN_V1, "MalformedWire")
           role == << r >>
           tag  == << t >>
           first == Check(Len(v[10]) <= MAX_CERTIFICATE_WIRE_BYTES, "BoundExceeded")
           other == Check(Len(v[11]) <= MAX_CERTIFICATE_WIRE_BYTES, "BoundExceeded")
           certs == << first, other >>
           e1 == Exactly(v[1], DOMAIN_LEN)
           e5 == Exactly(v[5], BINDING_LEN)
           e6 == Exactly(v[6], NODE_ID_LEN)
           e7 == Exactly(v[7], NODE_ID_LEN)
           e8 == Exactly(v[8], NONCE_LEN)
           e9 == Exactly(v[9], NONCE_LEN)
           u1 == role \o e1
           u2 == u1 \o tag
           u3 == u2 \o e5
           u4 == u3 \o e6
           u5 == u4 \o e7
           u6 == u5 \o e8
           u7 == u6 \o e9
           u8 == u7 \o certs
<1>1. NewTranscript(v) = Verdict(u8)
  BY Zenon DEF NewTranscript
<1>2. /\ IsList(role) /\ (Pass(role) <=> v[4] \in {AUTH_ROLE_CLIENT, AUTH_ROLE_SERVER})
      /\ IsList(tag) /\ (Pass(tag) <=> v[1] = AUTH_TRANSCRIPT_DOMAIN_V1)
  <2>1. /\ r.holds = (v[4] \in {AUTH_ROLE_CLIENT, AUTH_ROLE_SERVER})
        /\ t.holds = (v[1] = AUTH_TRANSCRIPT_DOMAIN_V1)
        /\ r.error # "Ok" /\ t.error # "Ok"
    BY DEF Check
  <2> HIDE DEF r, t
  <2>2. /\ IsList(role) /\ (Pass(role) <=> r.holds)
        /\ IsList(tag) /\ (Pass(tag) <=> t.holds)
    BY <2>1, OnePasses
  <2> QED
    BY <2>1, <2>2
<1>3. /\ IsList(e1) /\ (Pass(e1) => Len(v[1]) <= DOMAIN_LEN)
      /\ IsList(e5) /\ (Pass(e5) => Len(v[5]) <= BINDING_LEN)
      /\ IsList(e6) /\ (Pass(e6) => Len(v[6]) <= NODE_ID_LEN)
      /\ IsList(e7) /\ (Pass(e7) => Len(v[7]) <= NODE_ID_LEN)
      /\ IsList(e8) /\ (Pass(e8) => Len(v[8]) <= NONCE_LEN)
      /\ IsList(e9) /\ (Pass(e9) => Len(v[9]) <= NONCE_LEN)
  BY ExactlyPasses
<1>4. /\ IsList(certs)
      /\ Pass(certs) => /\ Len(v[10]) <= MAX_CERTIFICATE_WIRE_BYTES
                        /\ Len(v[11]) <= MAX_CERTIFICATE_WIRE_BYTES
  <2>1. /\ first.holds = (Len(v[10]) <= MAX_CERTIFICATE_WIRE_BYTES)
        /\ other.holds = (Len(v[11]) <= MAX_CERTIFICATE_WIRE_BYTES)
        /\ first.error = "BoundExceeded" /\ other.error = "BoundExceeded"
    BY DEF Check
  <2> HIDE DEF first, other
  <2>2. certs \in Seq({first, other}) /\ Len(certs) = 2 /\ certs[1] = first /\ certs[2] = other
    OBVIOUS
  <2> HIDE DEF certs
  <2>3. \A i \in 1..Len(certs) : i = 1 \/ i = 2
    BY <2>2
  <2>4. IsList(certs)
    BY <2>1, <2>2, <2>3 DEF IsList
  <2>5. Pass(certs) <=> first.holds /\ other.holds
    BY <2>2, <2>3 DEF Pass
  <2> QED
    BY <2>1, <2>4, <2>5
<1> HIDE DEF role, tag, certs, e1, e5, e6, e7, e8, e9
<1>5. IsList(u1) /\ (Pass(u1) => Pass(role) /\ Pass(e1))
  BY <1>2, <1>3, BothPass
<1> HIDE DEF u1
<1>6. IsList(u2) /\ (Pass(u2) => Pass(u1) /\ Pass(tag))
  BY <1>2, <1>5, BothPass
<1> HIDE DEF u2
<1>7. IsList(u3) /\ (Pass(u3) => Pass(u2) /\ Pass(e5))
  BY <1>3, <1>6, BothPass
<1> HIDE DEF u3
<1>8. IsList(u4) /\ (Pass(u4) => Pass(u3) /\ Pass(e6))
  BY <1>3, <1>7, BothPass
<1> HIDE DEF u4
<1>9. IsList(u5) /\ (Pass(u5) => Pass(u4) /\ Pass(e7))
  BY <1>3, <1>8, BothPass
<1> HIDE DEF u5
<1>10. IsList(u6) /\ (Pass(u6) => Pass(u5) /\ Pass(e8))
  BY <1>3, <1>9, BothPass
<1> HIDE DEF u6
<1>11. IsList(u7) /\ (Pass(u7) => Pass(u6) /\ Pass(e9))
  BY <1>3, <1>10, BothPass
<1> HIDE DEF u7
<1>12. IsList(u8) /\ (Pass(u8) => Pass(u7) /\ Pass(certs))
  BY <1>4, <1>11, BothPass
<1> HIDE DEF u8
<1>13. Pass(u8)
  BY <1>1, <1>12, VerdictIsPass
<1> QED
  BY <1>2, <1>3, <1>4, <1>5, <1>6, <1>7, <1>8, <1>9, <1>10, <1>11, <1>12, <1>13
     DEF TranscriptOk

LEMMA TranscriptShape ==
  /\ DOMAIN TranscriptFields = 1..11
  /\ TranscriptFields[1] = BoundedBytes(DOMAIN_LEN)
  /\ TranscriptFields[2] = U16 /\ TranscriptFields[3] = U16 /\ TranscriptFields[4] = U8
  /\ TranscriptFields[5] = BoundedBytes(BINDING_LEN)
  /\ TranscriptFields[6] = BoundedBytes(NODE_ID_LEN)
  /\ TranscriptFields[7] = BoundedBytes(NODE_ID_LEN)
  /\ TranscriptFields[8] = BoundedBytes(NONCE_LEN)
  /\ TranscriptFields[9] = BoundedBytes(NONCE_LEN)
  /\ TranscriptFields[10] = BoundedBytes(MAX_CERTIFICATE_WIRE_BYTES)
  /\ TranscriptFields[11] = BoundedBytes(MAX_CERTIFICATE_WIRE_BYTES)
  BY DEF TranscriptFields, Nonce, Certificate

\* The fields of a constructed transcript hold what their types do.
LEMMA BuiltTranscript ==
  ASSUME BuildInv, kind = "Transcript", NewTranscript(value) = "Ok"
  PROVE  value \in MessageValues(TranscriptFields) /\ TranscriptOk(value)
<1> DEFINE f == TranscriptFields
<1>1. TranscriptOk(value)
  BY ConstructedTranscript
<1>2. /\ value = [i \in DOMAIN f |-> value[i]]
      /\ \A i \in DOMAIN f : IF f[i].type = "bytes" THEN value[i] \in Seq(Byte)
                             ELSE Holds(f[i], value[i])
  BY DEF BuildInv, FieldsOf, Settable
<1>3. \A m, x : Holds(BoundedBytes(m), x) <=> x \in Seq(Byte) /\ Len(x) <= m
  BY DEF Holds, HoldsItem, BoundedBytes
<1>4. U16.type # "bytes" /\ U8.type # "bytes" /\ \A m : BoundedBytes(m).type = "bytes"
  BY DEF U16, U8, BoundedBytes
<1>5. f \in Seq(Types)
  BY MessageTypes
<1> HIDE DEF f
<1>6. ASSUME NEW i \in DOMAIN f PROVE Holds(f[i], value[i])
  <2>1. CASE f[i].type # "bytes"
    BY <1>2, <2>1
  <2>2. CASE f[i].type = "bytes"
    <3>1. value[i] \in Seq(Byte)
      BY <1>2, <2>2
    <3>2. i \in 1..11 /\ i # 2 /\ i # 3 /\ i # 4
      BY <1>4, <2>2, TranscriptShape DEF f
    <3>3. CASE i \in {1, 5, 6, 7}
      BY <1>1, <1>3, <3>1, <3>3, TranscriptShape DEF f, TranscriptOk
    <3>4. CASE i \in {8, 9, 10, 11}
      BY <1>1, <1>3, <3>1, <3>4, TranscriptShape DEF f, TranscriptOk
    <3> QED
      BY <3>2, <3>3, <3>4
  <2> QED
    BY <2>1, <2>2
<1>7. value \in MessageValues(f)
  BY <1>2, <1>5, <1>6, HeldIsMessage
<1> QED
  BY <1>1, <1>7 DEF f


-----------------------------------------------------------------------------
(***************************************************************************)
(* The sizes of what is written                                            *)
(***************************************************************************)
LEMMA VarintSizes ==
  \A n \in Nat : /\ n < 128 => Len(VarintBytes[n]) = 1
                 /\ ~(n < 128) /\ n <= TWO_BYTES => Len(VarintBytes[n]) = 2
                 /\ n <= U16_MAX => Len(VarintBytes[n]) <= 3
<1>1. ASSUME NEW n \in Nat, n < 128 PROVE Len(VarintBytes[n]) = 1
  <2>1. VarintBytes[n] = Groups(VarintBytes, n)
    BY VarintGroups
  <2>2. VarintBytes[n] = << n >>
    BY <1>1, <2>1 DEF Groups
  <2> QED
    BY <2>2
<1>2. ASSUME NEW n \in Nat, ~(n < 128)
      PROVE  /\ n \div 128 \in Nat
             /\ Len(VarintBytes[n]) = 1 + Len(VarintBytes[n \div 128])
  <2>1. n \div 128 \in Nat
    BY <1>2, Smaller
  <2> DEFINE h == 128 + (n % 128)
             r == VarintBytes[n \div 128]
  <2>2. VarintBytes[n] = << h >> \o r
    BY <1>2, VarintGroups DEF Groups
  <2>3. h \in Byte
    BY DEF Byte
  <2>4. r \in Seq(Byte)
    BY <2>1, VarintGroups
  <2> HIDE DEF h, r
  <2>5. Len(<< h >> \o r) = 1 + Len(r)
    BY <2>3, <2>4, Before
  <2> QED
    BY <2>1, <2>2, <2>5 DEF r
<1>3. ASSUME NEW n \in Nat, ~(n < 128), n <= TWO_BYTES PROVE Len(VarintBytes[n]) = 2
  <2> DEFINE m == n \div 128
  <2>1. m < 128
    BY <1>3, Limits
  <2>2. m \in Nat /\ Len(VarintBytes[n]) = 1 + Len(VarintBytes[m])
    BY <1>2, <1>3
  <2> HIDE DEF m
  <2>3. Len(VarintBytes[m]) = 1
    BY <1>1, <2>1, <2>2
  <2> QED
    BY <2>2, <2>3
<1>4. ASSUME NEW n \in Nat, n <= U16_MAX PROVE Len(VarintBytes[n]) <= 3
  <2>1. CASE n < 128
    <3>1. Len(VarintBytes[n]) = 1
      BY <1>1, <2>1
    <3> QED
      BY <3>1
  <2>2. CASE ~(n < 128)
    <3> DEFINE m == n \div 128
    <3>1. m <= TWO_BYTES
      BY <1>4, <2>2, Limits
    <3>2. m \in Nat /\ Len(VarintBytes[n]) = 1 + Len(VarintBytes[m])
      BY <1>2, <2>2
    <3> HIDE DEF m
    <3> DEFINE l == Len(VarintBytes[m])
    <3>3. l = 1 \/ l = 2
      BY <1>1, <1>3, <3>1, <3>2
    <3> HIDE DEF l
    <3>4. 1 + l <= 3
      BY <3>3
    <3> QED
      BY <3>2, <3>4 DEF l
  <2> QED
    BY <2>1, <2>2
<1> QED
  BY <1>1, <1>3, <1>4

LEMMA SizedGrows ==
  \A m \in 0..TWO_BYTES : \A n \in 0..m :
    /\ Len(VarintBytes[n]) \in Nat /\ Len(VarintBytes[m]) \in Nat
    /\ Len(VarintBytes[n]) <= Len(VarintBytes[m])
    /\ Sized(n) \in Nat /\ Sized(m) \in Nat /\ Sized(n) <= Sized(m)
<1> TAKE m \in 0..TWO_BYTES
<1> TAKE n \in 0..m
<1> DEFINE x == Len(VarintBytes[n])
           y == Len(VarintBytes[m])
<1>1. n \in Nat /\ m \in Nat /\ n <= m /\ n <= TWO_BYTES /\ m <= TWO_BYTES
  BY Limits
<1>2. x = IF n < 128 THEN 1 ELSE 2
  BY <1>1, VarintSizes
<1>3. y = IF m < 128 THEN 1 ELSE 2
  BY <1>1, VarintSizes
<1>4. Sized(n) = x + n /\ Sized(m) = y + m
  BY DEF Sized
<1> HIDE DEF x, y
<1>5. x \in Nat /\ y \in Nat /\ x <= y
  BY <1>1, <1>2, <1>3
<1> QED
  BY <1>1, <1>4, <1>5 DEF x, y

LEMMA ItemSizes ==
  /\ \A v \in ItemValues(U8) : Len(PutItem(U8, v)) = 1
  /\ \A v \in ItemValues(U16) : Len(PutItem(U16, v)) <= 3
  /\ \A m \in 0..TWO_BYTES : \A v \in ItemValues(BoundedBytes(m)) :
       Len(PutItem(BoundedBytes(m), v)) <= Sized(m)
<1>1. ASSUME NEW v PROVE Len(PutItem(U8, v)) = 1
  BY ItemForms
<1>2. ASSUME NEW v \in ItemValues(U16) PROVE Len(PutItem(U16, v)) <= 3
  <2>1. v \in 0..U16_MAX /\ PutItem(U16, v) = VarintBytes[v]
    BY ItemForms
  <2>2. v \in Nat /\ v <= U16_MAX
    BY <2>1, WithinLimits, Zenon
  <2> QED
    BY <2>1, <2>2, VarintSizes
<1>3. ASSUME NEW m \in 0..TWO_BYTES, NEW v \in ItemValues(BoundedBytes(m))
      PROVE  Len(PutItem(BoundedBytes(m), v)) <= Sized(m)
  <2> DEFINE n == Len(v)
             h == VarintBytes[n]
  <2>1. v \in Seq(Byte) /\ n <= m /\ PutItem(BoundedBytes(m), v) = h \o v
    BY ItemForms
  <2>2. n \in Nat /\ n \in 0..m
    <3>1. n \in Nat /\ n <= m
      BY <2>1
    <3> HIDE DEF n
    <3> QED
      BY <3>1, Limits, SMTT(30)
  <2>3. h \in Seq(Byte)
    BY <2>2, VarintGroups
  <2> HIDE DEF h
  <2>4. Len(h \o v) = Len(h) + n
    BY <2>1, <2>3
  <2>5. Sized(n) = Len(h) + n
    BY DEF Sized, h
  <2>6. Sized(n) <= Sized(m)
    BY <2>2, SizedGrows
  <2> QED
    BY <2>1, <2>4, <2>5, <2>6
<1> QED
  BY <1>1, <1>2, <1>3


\* What each part of a whole adds at most bounds the whole.
LEMMA PartsWithin ==
  ASSUME NEW n \in Nat, NEW s, s = [i \in 1..n |-> s[i]], NEW bound \in [0..n -> Nat],
         \A i \in 1..n : s[i] \in Seq(Byte) /\ bound[i - 1] + Len(s[i]) <= bound[i]
  PROVE  FlattenSeq(s) \in Seq(Byte) /\ Len(FlattenSeq(s)) <= bound[n]
<1>1. s \in Seq(Seq(Byte)) /\ Len(s) = n
  <2> DEFINE B == Seq(Byte)
  <2>1. \A i \in 1..n : s[i] \in B
    OBVIOUS
  <2> HIDE DEF B
  <2>2. s \in [1..n -> B]
    BY <2>1
  <2>3. s \in Seq(B) /\ Len(s) = n
    BY <2>2
  <2> QED
    BY <2>3 DEF B
<1>2. FlattenSeq(s) \in Seq(Byte)
  <2>1. \E acc \in [0..Len(s) -> Seq(Byte)] :
           /\ acc[0] = << >>
           /\ \A i \in 1..Len(s) : acc[i] = acc[i - 1] \o s[i]
           /\ FlattenSeq(s) = acc[Len(s)]
    BY <1>1, FlattenRun
  <2> QED
    BY <1>1, <2>1
<1>3. bound \in [0..Len(s) -> Nat] /\ \A i \in 1..Len(s) : bound[i - 1] + Len(s[i]) <= bound[i]
  BY <1>1
<1>4. Len(FlattenSeq(s)) <= bound[Len(s)]
  BY <1>1, <1>3, FlattenWithin
<1> QED
  BY <1>1, <1>2, <1>4

LEMMA MessageWithin ==
  ASSUME NEW fields \in Seq(Types), NEW v \in MessageValues(fields),
         NEW bound \in [0..Len(fields) -> Nat],
         \A i \in 1..Len(fields) : \A x \in FieldValues(fields[i]) :
           bound[i - 1] + Len(Put(fields[i], x)) <= bound[i]
  PROVE  Len(ToAllocVec(fields, v)) <= bound[Len(fields)]
<1> DEFINE n == Len(fields)
           V == FieldSets(fields)
           s == [i \in DOMAIN fields |-> Put(fields[i], v[i])]
<1>1. n \in Nat /\ DOMAIN fields = 1..n
  OBVIOUS
<1>2. ASSUME NEW i \in 1..n PROVE v[i] \in FieldValues(fields[i]) /\ fields[i] \in Types
  <2>1. v \in StructValues(n, V)
    BY DEF MessageValues
  <2>2. V[i] = FieldValues(fields[i])
    BY DEF FieldSets
  <2> HIDE DEF V, n
  <2>3. v[i] \in V[i]
    BY <1>1, <2>1, StructMembers
  <2> QED
    BY <1>1, <2>2, <2>3
<1>3. ASSUME NEW i \in 1..n
      PROVE  s[i] = Put(fields[i], v[i]) /\ s[i] \in Seq(Byte)
  <2>1. s[i] = Put(fields[i], v[i])
    BY <1>1
  <2>2. Codec(FieldWriter(fields[i]), FieldReader(fields[i]), FieldValues(fields[i]))
    BY <1>2, FieldCodec
  <2>3. FieldWriter(fields[i])[v[i]] \in Seq(Byte)
    BY <1>2, <2>2 DEF Codec, Typed
  <2>4. FieldWriter(fields[i])[v[i]] = Put(fields[i], v[i])
    BY <1>2 DEF FieldWriter
  <2> QED
    BY <2>1, <2>3, <2>4
<1>4. s = [i \in 1..n |-> s[i]]
  BY <1>1
<1>5. ToAllocVec(fields, v) = FlattenSeq(s)
  BY DEF ToAllocVec
<1>6. ASSUME NEW i \in 1..n PROVE s[i] \in Seq(Byte) /\ bound[i - 1] + Len(s[i]) <= bound[i]
  BY <1>2, <1>3
<1> HIDE DEF s, n
<1>7. Len(FlattenSeq(s)) <= bound[n]
  <2>1. bound \in [0..n -> Nat]
    BY DEF n
  <2> QED
    BY <1>1, <1>4, <1>6, <2>1, PartsWithin
<1> QED
  BY <1>5, <1>7 DEF n

LEMMA ItemsWithin ==
  ASSUME NEW items \in Seq(Items), NEW v \in ItemsValues(items),
         NEW bound \in [0..Len(items) -> Nat],
         \A i \in 1..Len(items) : \A x \in ItemValues(items[i]) :
           bound[i - 1] + Len(PutItem(items[i], x)) <= bound[i]
  PROVE  PutItems(items, v) \in Seq(Byte) /\ Len(PutItems(items, v)) <= bound[Len(items)]
<1> DEFINE n == Len(items)
           V == ItemsSets(items)
           s == [i \in DOMAIN items |-> PutItem(items[i], v[i])]
<1>1. n \in Nat /\ DOMAIN items = 1..n
  OBVIOUS
<1>2. ASSUME NEW i \in 1..n PROVE v[i] \in ItemValues(items[i]) /\ items[i] \in Items
  <2>1. v \in StructValues(n, V)
    BY DEF ItemsValues
  <2>2. V[i] = ItemValues(items[i])
    BY DEF ItemsSets
  <2> HIDE DEF V, n
  <2>3. v[i] \in V[i]
    BY <1>1, <2>1, StructMembers
  <2> QED
    BY <1>1, <2>2, <2>3
<1>3. ASSUME NEW i \in 1..n
      PROVE  s[i] = PutItem(items[i], v[i]) /\ s[i] \in Seq(Byte)
  <2>1. s[i] = PutItem(items[i], v[i])
    BY <1>1
  <2>2. Codec(ItemWriter(items[i]), ItemReader(items[i]), ItemValues(items[i]))
    BY <1>2, ItemCodec
  <2>3. ItemWriter(items[i])[v[i]] \in Seq(Byte)
    BY <1>2, <2>2 DEF Codec, Typed
  <2>4. ItemWriter(items[i])[v[i]] = PutItem(items[i], v[i])
    BY <1>2 DEF ItemWriter
  <2> QED
    BY <2>1, <2>3, <2>4
<1>4. s = [i \in 1..n |-> s[i]]
  BY <1>1
<1>5. PutItems(items, v) = FlattenSeq(s)
  BY DEF PutItems
<1>6. ASSUME NEW i \in 1..n PROVE s[i] \in Seq(Byte) /\ bound[i - 1] + Len(s[i]) <= bound[i]
  BY <1>2, <1>3
<1> HIDE DEF s, n
<1>7. FlattenSeq(s) \in Seq(Byte) /\ Len(FlattenSeq(s)) <= bound[n]
  <2>1. bound \in [0..n -> Nat]
    BY DEF n
  <2> QED
    BY <1>1, <1>4, <1>6, <2>1, PartsWithin
<1> QED
  BY <1>5, <1>7 DEF n

LEMMA VecWithin ==
  ASSUME NEW m \in 0..TWO_BYTES, NEW items \in Seq(Items), NEW c \in Nat,
         \A e \in ItemsValues(items) :
           PutItems(items, e) \in Seq(Byte) /\ Len(PutItems(items, e)) <= c,
         NEW v \in VecValues(m, items)
  PROVE  Len(Put(BoundedVec(m, items), v)) <= Len(VarintBytes[m]) + m * c
<1> DEFINE n == Len(v)
           E == ItemsValues(items)
           h == VarintBytes[n]
           s == [i \in DOMAIN v |-> PutItems(items, v[i])]
           bound == [i \in 0..n |-> i * c]
<1>1. v \in Seq(E) /\ n <= m /\ n \in Nat /\ m \in Nat
  BY Limits DEF VecValues
<1>2. DOMAIN v = 1..n /\ \A i \in 1..n : v[i] \in E
  <2> HIDE DEF E
  <2> QED
    BY <1>1
<1>3. Put(BoundedVec(m, items), v) = h \o FlattenSeq(s)
  BY VecForms
<1>4. \A i \in 1..n : s[i] \in Seq(Byte) /\ Len(s[i]) <= c
  BY <1>2
<1>5. s = [i \in 1..n |-> s[i]]
  BY <1>2
<1>6. bound \in [0..n -> Nat] /\ bound[n] = n * c
  <2> HIDE DEF n
  <2>1. \A i \in 0..n : i * c \in Nat
    BY <1>1
  <2> QED
    BY <1>1, <2>1
<1> HIDE DEF s
<1>7. ASSUME NEW i \in 1..n PROVE bound[i - 1] + Len(s[i]) <= bound[i]
  <2> DEFINE l == Len(s[i])
  <2>1. l <= c /\ l \in Nat
    BY <1>4
  <2> HIDE DEF l
  <2>2. bound[i - 1] = (i - 1) * c /\ bound[i] = i * c
    BY <1>1
  <2>3. i \in Nat /\ (i - 1) * c = i * c - c /\ i * c \in Nat
    BY <1>1
  <2> DEFINE p == i * c
  <2> HIDE DEF p, bound
  <2>4. bound[i - 1] = p - c /\ bound[i] = p /\ p \in Nat
    BY <2>2, <2>3 DEF p
  <2>5. bound[i - 1] + l <= bound[i]
    BY <2>1, <2>4
  <2> QED
    BY <2>5 DEF l
<1> HIDE DEF bound
<1>8. FlattenSeq(s) \in Seq(Byte) /\ Len(FlattenSeq(s)) <= n * c
  <2> HIDE DEF n
  <2> QED
    BY <1>1, <1>4, <1>5, <1>6, <1>7, PartsWithin
<1>9. n * c <= m * c /\ n * c \in Nat /\ m * c \in Nat
  <2> HIDE DEF n
  <2>1. m * c = n * c + (m - n) * c /\ m - n \in Nat
    BY <1>1
  <2>2. (m - n) * c \in Nat /\ n * c \in Nat
    BY <1>1, <2>1
  <2> QED
    BY <2>1, <2>2
<1>10. Len(h) \in Nat /\ Len(VarintBytes[m]) \in Nat /\ Len(h) <= Len(VarintBytes[m])
  <2>1. n \in 0..m
    BY <1>1
  <2> QED
    BY <2>1, SizedGrows
<1>11. h \in Seq(Byte)
  BY <1>1, VarintGroups
<1> DEFINE f == FlattenSeq(s)
           x == n * c
           y == m * c
           w == Len(VarintBytes[m])
<1> HIDE DEF h, f, x, y, w, n
<1>12. Len(h \o f) = Len(h) + Len(f) /\ Len(f) \in Nat
  BY <1>8, <1>11 DEF f
<1>13. Len(f) <= x /\ x <= y /\ x \in Nat /\ y \in Nat
  BY <1>8, <1>9 DEF f, x, y
<1>14. Len(h) \in Nat /\ w \in Nat /\ Len(h) <= w
  BY <1>10 DEF w
<1>15. Len(h \o f) <= w + y
  BY <1>12, <1>13, <1>14
<1> QED
  BY <1>3, <1>15 DEF f, y, w


LEMMA FieldSizes ==
  /\ \A v \in FieldValues(U8) : Len(Put(U8, v)) <= 1
  /\ \A v \in FieldValues(U16) : Len(Put(U16, v)) <= 3
  /\ \A m \in 0..TWO_BYTES : \A v \in FieldValues(BoundedBytes(m)) :
       Len(Put(BoundedBytes(m), v)) <= Sized(m)
  /\ \A v \in FieldValues(Signatures) : Len(Put(Signatures, v)) <= Proof
  /\ Proof \in Nat
<1>1. \A field \in Items : /\ FieldValues(field) = ItemValues(field)
                           /\ \A v : Put(field, v) = PutItem(field, v)
  <2> TAKE field \in Items
  <2>1. field.type # "seq"
    BY DEF Items, U8, U16, BoundedBytes
  <2> QED
    BY <2>1 DEF FieldValues, Put
<1>2. U8 \in Items /\ U16 \in Items /\ \A m \in 0..TWO_BYTES : BoundedBytes(m) \in Items
  BY FieldTypes
<1>3. ASSUME NEW v \in FieldValues(U8) PROVE Len(Put(U8, v)) <= 1
  <2>1. v \in ItemValues(U8) /\ Put(U8, v) = PutItem(U8, v)
    BY <1>1, <1>2
  <2>2. Len(PutItem(U8, v)) = 1
    BY <2>1, ItemSizes
  <2> QED
    BY <2>1, <2>2
<1>4. ASSUME NEW v \in FieldValues(U16) PROVE Len(Put(U16, v)) <= 3
  <2>1. v \in ItemValues(U16) /\ Put(U16, v) = PutItem(U16, v)
    BY <1>1, <1>2
  <2> QED
    BY <2>1, ItemSizes
<1>5. ASSUME NEW m \in 0..TWO_BYTES, NEW v \in FieldValues(BoundedBytes(m))
      PROVE  Len(Put(BoundedBytes(m), v)) <= Sized(m)
  <2>1. v \in ItemValues(BoundedBytes(m)) /\ Put(BoundedBytes(m), v) = PutItem(BoundedBytes(m), v)
    BY <1>1, <1>2
  <2> QED
    BY <2>1, ItemSizes
<1> DEFINE m == MAX_PROOF_SIGNATURES
           k == MAX_SIGNATURE_BYTES
           bytes == BoundedBytes(k)
           items == << U16, bytes >>
           size == Sized(k)
           c == 3 + size
<1>6. m \in 0..TWO_BYTES /\ k \in 0..TWO_BYTES
  BY Lengths
<1>7. size \in Nat /\ c \in Nat
  <2>1. k \in 0..k
    BY <1>6, WithinLimits, Zenon
  <2>2. size \in Nat
    BY <1>6, <2>1, SizedGrows
  <2> HIDE DEF size
  <2> QED
    BY <2>2
<1>8. items \in Seq(Items) /\ Len(items) = 2 /\ items[1] = U16 /\ items[2] = bytes
  BY <1>2, <1>6
<1>9. ASSUME NEW e \in ItemsValues(items)
      PROVE  PutItems(items, e) \in Seq(Byte) /\ Len(PutItems(items, e)) <= c
  <2> DEFINE bound == [i \in 0..2 |-> IF i = 0 THEN 0 ELSE IF i = 1 THEN 3 ELSE c]
  <2> HIDE DEF c
  <2>1. bound \in [0..2 -> Nat] /\ bound[0] = 0 /\ bound[1] = 3 /\ bound[2] = c
    BY <1>7
  <2> HIDE DEF bound, items, size
  <2>2. ASSUME NEW x \in ItemValues(items[1]) PROVE bound[0] + Len(PutItem(items[1], x)) <= bound[1]
    <3>1. Len(PutItem(U16, x)) <= 3 /\ PutItem(U16, x) \in Seq(Byte)
      <4>1. ItemWriter(U16)[x] \in Seq(Byte)
        BY <1>2, <1>8, ItemCodec DEF Codec, Typed
      <4>2. ItemWriter(U16)[x] = PutItem(U16, x)
        BY <1>8 DEF ItemWriter
      <4> QED
        BY <1>8, <4>1, <4>2, ItemSizes
    <3> QED
      BY <1>8, <2>1, <3>1
  <2>3. ASSUME NEW x \in ItemValues(items[2]) PROVE bound[1] + Len(PutItem(items[2], x)) <= bound[2]
    <3>1. Len(PutItem(bytes, x)) <= size /\ PutItem(bytes, x) \in Seq(Byte)
      <4>1. ItemWriter(bytes)[x] \in Seq(Byte)
        BY <1>2, <1>6, <1>8, ItemCodec DEF Codec, Typed
      <4>2. ItemWriter(bytes)[x] = PutItem(bytes, x)
        BY <1>8 DEF ItemWriter
      <4>3. Len(PutItem(bytes, x)) <= size
        BY <1>6, <1>8, ItemSizes DEF size
      <4> QED
        BY <4>1, <4>2, <4>3
    <3>2. Len(PutItem(items[2], x)) <= size /\ Len(PutItem(items[2], x)) \in Nat
      BY <1>8, <3>1
    <3>3. bound[2] = 3 + size
      BY <2>1 DEF c
    <3> DEFINE l == Len(PutItem(items[2], x))
    <3> HIDE DEF l
    <3>4. 3 + l <= 3 + size
      BY <1>7, <3>2 DEF l
    <3> QED
      BY <2>1, <3>3, <3>4 DEF l
  <2>4. \A i \in 1..2 : \A x \in ItemValues(items[i]) :
          bound[i - 1] + Len(PutItem(items[i], x)) <= bound[i]
    <3> TAKE i \in 1..2
    <3>1. CASE i = 1
      BY <2>2, <3>1
    <3>2. CASE i = 2
      BY <2>3, <3>2
    <3> QED
      BY <3>1, <3>2
  <2>5. bound \in [0..Len(items) -> Nat]
    BY <1>8, <2>1
  <2>6. \A i \in 1..Len(items) : \A x \in ItemValues(items[i]) :
          bound[i - 1] + Len(PutItem(items[i], x)) <= bound[i]
    BY <1>8, <2>4
  <2>7. PutItems(items, e) \in Seq(Byte) /\ Len(PutItems(items, e)) <= bound[Len(items)]
    BY <1>8, <2>5, <2>6, ItemsWithin
  <2> QED
    BY <1>8, <2>1, <2>7
<1>10. Signatures = BoundedVec(m, items) /\ Proof = Len(VarintBytes[m]) + m * c
  BY DEF Signatures, Proof
<1> HIDE DEF items, c
<1>11. ASSUME NEW v \in FieldValues(Signatures) PROVE Len(Put(Signatures, v)) <= Proof
  <2>1. v \in VecValues(m, items)
    BY <1>10, VecForms
  <2> HIDE DEF m
  <2> QED
    BY <1>6, <1>7, <1>8, <1>9, <1>10, <2>1, VecWithin
<1>12. Proof \in Nat
  <2>1. m \in 0..m /\ m \in Nat
    BY <1>6, WithinLimits, Zenon
  <2>2. Len(VarintBytes[m]) \in Nat
    BY <1>6, <2>1, SizedGrows
  <2>3. m * c \in Nat
    BY <1>7, <2>1
  <2> DEFINE p == m * c
             w == Len(VarintBytes[m])
  <2> HIDE DEF p, w
  <2>4. w + p \in Nat
    BY <2>2, <2>3 DEF p, w
  <2> QED
    BY <1>10, <2>4 DEF p, w
<1> QED
  BY <1>3, <1>4, <1>5, <1>11, <1>12


\* A field of a message takes at most size bytes.
Takes(field, size) == size \in Nat /\ \A x \in FieldValues(field) : Len(Put(field, x)) <= size

LEMMA SizesAddUp ==
  ASSUME NEW fields \in Seq(Types), NEW v \in MessageValues(fields),
         NEW bound \in [0..Len(fields) -> Nat],
         \A i \in 1..Len(fields) : \E size : /\ Takes(fields[i], size)
                                            /\ bound[i - 1] + size <= bound[i]
  PROVE  Len(ToAllocVec(fields, v)) <= bound[Len(fields)]
<1>1. ASSUME NEW i \in 1..Len(fields), NEW x \in FieldValues(fields[i])
      PROVE  bound[i - 1] + Len(Put(fields[i], x)) <= bound[i]
  <2> DEFINE field == fields[i]
             before == bound[i - 1]
             after == bound[i]
             l == Len(Put(field, x))
  <2>1. PICK size : Takes(field, size) /\ before + size <= after
    OBVIOUS
  <2>2. before \in Nat /\ after \in Nat /\ field \in Types
    OBVIOUS
  <2>3. Put(field, x) \in Seq(Byte)
    <3>1. Codec(FieldWriter(field), FieldReader(field), FieldValues(field))
      BY <2>2, FieldCodec
    <3>2. FieldWriter(field)[x] \in Seq(Byte) /\ FieldWriter(field)[x] = Put(field, x)
      BY <3>1 DEF Codec, Typed, FieldWriter
    <3> QED
      BY <3>2
  <2>4. l \in Nat /\ l <= size /\ size \in Nat
    BY <2>1, <2>3 DEF Takes
  <2> HIDE DEF before, after, l
  <2>5. before + l <= after
    BY <2>1, <2>2, <2>4
  <2> QED
    BY <2>5 DEF before, after, l
<1> QED
  BY <1>1, MessageWithin

LEMMA FieldsTake ==
  /\ Takes(U8, 1) /\ Takes(U16, 3) /\ Takes(Signatures, Proof)
  /\ Takes(Nonce, Sized(NONCE_LEN)) /\ Takes(Certificate, Sized(MAX_CERTIFICATE_WIRE_BYTES))
  /\ Takes(BoundedBytes(DOMAIN_LEN), Sized(DOMAIN_LEN))
  /\ Takes(BoundedBytes(BINDING_LEN), Sized(BINDING_LEN))
  /\ Takes(BoundedBytes(NODE_ID_LEN), Sized(NODE_ID_LEN))
<1>1. ASSUME NEW m \in 0..TWO_BYTES PROVE Takes(BoundedBytes(m), Sized(m))
  <2>1. m \in 0..m
    BY Limits
  <2>2. Sized(m) \in Nat
    BY <2>1, SizedGrows
  <2> QED
    BY <2>2, FieldSizes DEF Takes
<1>2. Takes(U8, 1) /\ Takes(U16, 3) /\ Takes(Signatures, Proof)
  BY FieldSizes DEF Takes
<1> QED
  BY <1>1, <1>2, Lengths DEF Nonce, Certificate

LEMMA InitSize ==
  ASSUME NEW v \in MessageValues(Fields("AuthInit"))
  PROVE  Len(ToAllocVec(Fields("AuthInit"), v))
           <= 3 + Sized(NONCE_LEN) + Sized(MAX_CERTIFICATE_WIRE_BYTES)
<1> DEFINE F == Fields("AuthInit")
           a == Sized(NONCE_LEN)
           c == Sized(MAX_CERTIFICATE_WIRE_BYTES)
<1>1. F \in Seq(Types) /\ Len(F) = 3
      /\ F[1] = U16 /\ F[2] = Nonce /\ F[3] = Certificate
  BY MessageTypes DEF Fields, Kinds
<1>2. /\ Takes(U16, 3)
      /\ Takes(Nonce, a)
      /\ Takes(Certificate, c)
  BY FieldsTake
<1>3. a \in Nat /\ c \in Nat
  BY <1>2 DEF Takes
<1> HIDE DEF F, a, c
<1> DEFINE b1 == 3
           b2 == b1 + a
           b3 == b2 + c
<1>4. /\ b1 \in Nat /\ b2 \in Nat /\ b3 \in Nat
  BY <1>3
<1>5. /\ b1 = 3 /\ b2 = b1 + a /\ b3 = b2 + c
  OBVIOUS
<1>6. b3 = 3 + Sized(NONCE_LEN) + Sized(MAX_CERTIFICATE_WIRE_BYTES)
  BY <1>3 DEF a, c
<1> HIDE DEF b1, b2, b3
<1> DEFINE bound == [i \in 0..3 |-> IF i = 0 THEN 0 ELSE IF i = 1 THEN b1
                                    ELSE IF i = 2 THEN b2 ELSE b3]
<1>7. bound \in [0..3 -> Nat]
  BY <1>4
<1>8. /\ bound[0] = 0 /\ bound[1] = b1 /\ bound[2] = b2 /\ bound[3] = b3
  OBVIOUS
<1> HIDE DEF bound
<1>9. ASSUME NEW i \in 1..3 PROVE \E size : Takes(F[i], size) /\ bound[i - 1] + size <= bound[i]
  <2>1. CASE i = 1
    <3>1. F[1] = U16 /\ Takes(U16, 3)
      BY <1>1, <1>2
    <3>2. bound[i - 1] = 0 /\ bound[i] = b1
      BY <1>8, <2>1
    <3>3. 0 + 3 <= b1
      BY <1>3, <1>4, <1>5
    <3> QED
      BY <2>1, <3>1, <3>2, <3>3, Zenon
  <2>2. CASE i = 2
    <3>1. F[2] = Nonce /\ Takes(Nonce, a)
      BY <1>1, <1>2
    <3>2. bound[i - 1] = b1 /\ bound[i] = b2
      BY <1>8, <2>2
    <3>3. b1 + a <= b2
      BY <1>3, <1>4, <1>5
    <3> QED
      BY <2>2, <3>1, <3>2, <3>3, Zenon
  <2>3. CASE i = 3
    <3>1. F[3] = Certificate /\ Takes(Certificate, c)
      BY <1>1, <1>2
    <3>2. bound[i - 1] = b2 /\ bound[i] = b3
      BY <1>8, <2>3
    <3>3. b2 + c <= b3
      BY <1>3, <1>4, <1>5
    <3> QED
      BY <2>3, <3>1, <3>2, <3>3, Zenon
  <2> QED
    BY <2>1, <2>2, <2>3
<1>10. Len(ToAllocVec(F, v)) <= bound[3]
  <2>1. v \in MessageValues(F)
    BY DEF F
  <2>2. bound \in [0..Len(F) -> Nat]
    BY <1>1, <1>7
  <2>3. \A i \in 1..Len(F) : \E size : Takes(F[i], size) /\ bound[i - 1] + size <= bound[i]
    BY <1>1, <1>9
  <2>4. Len(ToAllocVec(F, v)) <= bound[Len(F)]
    BY <1>1, <2>1, <2>2, <2>3, SizesAddUp
  <2> QED
    BY <1>1, <2>4
<1> QED
  BY <1>6, <1>8, <1>10 DEF F

LEMMA ResponseSize ==
  ASSUME NEW v \in MessageValues(Fields("AuthResponse"))
  PROVE  Len(ToAllocVec(Fields("AuthResponse"), v))
           <= 3 + Sized(NONCE_LEN) + Sized(MAX_CERTIFICATE_WIRE_BYTES) + Proof
<1> DEFINE F == Fields("AuthResponse")
           a == Sized(NONCE_LEN)
           c == Sized(MAX_CERTIFICATE_WIRE_BYTES)
           p == Proof
<1>1. F \in Seq(Types) /\ Len(F) = 4
      /\ F[1] = U16 /\ F[2] = Nonce /\ F[3] = Certificate
      /\ F[4] = Signatures
  BY MessageTypes DEF Fields, Kinds
<1>2. /\ Takes(U16, 3)
      /\ Takes(Nonce, a)
      /\ Takes(Certificate, c)
      /\ Takes(Signatures, p)
  BY FieldsTake
<1>3. a \in Nat /\ c \in Nat /\ p \in Nat
  BY <1>2 DEF Takes
<1> HIDE DEF F, a, c, p
<1> DEFINE b1 == 3
           b2 == b1 + a
           b3 == b2 + c
           b4 == b3 + p
<1>4. /\ b1 \in Nat /\ b2 \in Nat /\ b3 \in Nat /\ b4 \in Nat
  BY <1>3
<1>5. /\ b1 = 3 /\ b2 = b1 + a /\ b3 = b2 + c
      /\ b4 = b3 + p
  OBVIOUS
<1>6. b4 = 3 + Sized(NONCE_LEN) + Sized(MAX_CERTIFICATE_WIRE_BYTES) + Proof
  BY <1>3 DEF a, c, p
<1> HIDE DEF b1, b2, b3, b4
<1> DEFINE bound == [i \in 0..4 |-> IF i = 0 THEN 0 ELSE IF i = 1 THEN b1
                                    ELSE IF i = 2 THEN b2 ELSE IF i = 3 THEN b3 ELSE b4]
<1>7. bound \in [0..4 -> Nat]
  BY <1>4
<1>8. /\ bound[0] = 0 /\ bound[1] = b1 /\ bound[2] = b2 /\ bound[3] = b3
      /\ bound[4] = b4
  OBVIOUS
<1> HIDE DEF bound
<1>9. ASSUME NEW i \in 1..4 PROVE \E size : Takes(F[i], size) /\ bound[i - 1] + size <= bound[i]
  <2>1. CASE i = 1
    <3>1. F[1] = U16 /\ Takes(U16, 3)
      BY <1>1, <1>2
    <3>2. bound[i - 1] = 0 /\ bound[i] = b1
      BY <1>8, <2>1
    <3>3. 0 + 3 <= b1
      BY <1>3, <1>4, <1>5
    <3> QED
      BY <2>1, <3>1, <3>2, <3>3, Zenon
  <2>2. CASE i = 2
    <3>1. F[2] = Nonce /\ Takes(Nonce, a)
      BY <1>1, <1>2
    <3>2. bound[i - 1] = b1 /\ bound[i] = b2
      BY <1>8, <2>2
    <3>3. b1 + a <= b2
      BY <1>3, <1>4, <1>5
    <3> QED
      BY <2>2, <3>1, <3>2, <3>3, Zenon
  <2>3. CASE i = 3
    <3>1. F[3] = Certificate /\ Takes(Certificate, c)
      BY <1>1, <1>2
    <3>2. bound[i - 1] = b2 /\ bound[i] = b3
      BY <1>8, <2>3
    <3>3. b2 + c <= b3
      BY <1>3, <1>4, <1>5
    <3> QED
      BY <2>3, <3>1, <3>2, <3>3, Zenon
  <2>4. CASE i = 4
    <3>1. F[4] = Signatures /\ Takes(Signatures, p)
      BY <1>1, <1>2
    <3>2. bound[i - 1] = b3 /\ bound[i] = b4
      BY <1>8, <2>4
    <3>3. b3 + p <= b4
      BY <1>3, <1>4, <1>5
    <3> QED
      BY <2>4, <3>1, <3>2, <3>3, Zenon
  <2> QED
    BY <2>1, <2>2, <2>3, <2>4
<1>10. Len(ToAllocVec(F, v)) <= bound[4]
  <2>1. v \in MessageValues(F)
    BY DEF F
  <2>2. bound \in [0..Len(F) -> Nat]
    BY <1>1, <1>7
  <2>3. \A i \in 1..Len(F) : \E size : Takes(F[i], size) /\ bound[i - 1] + size <= bound[i]
    BY <1>1, <1>9
  <2>4. Len(ToAllocVec(F, v)) <= bound[Len(F)]
    BY <1>1, <2>1, <2>2, <2>3, SizesAddUp
  <2> QED
    BY <1>1, <2>4
<1> QED
  BY <1>6, <1>8, <1>10 DEF F

LEMMA ConfirmSize ==
  ASSUME NEW v \in MessageValues(Fields("AuthConfirm"))
  PROVE  Len(ToAllocVec(Fields("AuthConfirm"), v))
           <= Proof
<1> DEFINE F == Fields("AuthConfirm")
           p == Proof
<1>1. F \in Seq(Types) /\ Len(F) = 1
      /\ F[1] = Signatures
  BY MessageTypes DEF Fields, Kinds
<1>2. /\ Takes(Signatures, p)
  BY FieldsTake
<1>3. p \in Nat
  BY <1>2 DEF Takes
<1> HIDE DEF F, p
<1> DEFINE b1 == p
<1>4. /\ b1 \in Nat
  BY <1>3
<1>5. /\ b1 = p
  OBVIOUS
<1>6. b1 = Proof
  BY <1>3 DEF p
<1> HIDE DEF b1
<1> DEFINE bound == [i \in 0..1 |-> IF i = 0 THEN 0 ELSE b1]
<1>7. bound \in [0..1 -> Nat]
  BY <1>4
<1>8. /\ bound[0] = 0 /\ bound[1] = b1
  OBVIOUS
<1> HIDE DEF bound
<1>9. ASSUME NEW i \in 1..1 PROVE \E size : Takes(F[i], size) /\ bound[i - 1] + size <= bound[i]
  <2>1. CASE i = 1
    <3>1. F[1] = Signatures /\ Takes(Signatures, p)
      BY <1>1, <1>2
    <3>2. bound[i - 1] = 0 /\ bound[i] = b1
      BY <1>8, <2>1
    <3>3. 0 + p <= b1
      BY <1>3, <1>4, <1>5
    <3> QED
      BY <2>1, <3>1, <3>2, <3>3, Zenon
  <2> QED
    BY <2>1
<1>10. Len(ToAllocVec(F, v)) <= bound[1]
  <2>1. v \in MessageValues(F)
    BY DEF F
  <2>2. bound \in [0..Len(F) -> Nat]
    BY <1>1, <1>7
  <2>3. \A i \in 1..Len(F) : \E size : Takes(F[i], size) /\ bound[i - 1] + size <= bound[i]
    BY <1>1, <1>9
  <2>4. Len(ToAllocVec(F, v)) <= bound[Len(F)]
    BY <1>1, <2>1, <2>2, <2>3, SizesAddUp
  <2> QED
    BY <1>1, <2>4
<1> QED
  BY <1>6, <1>8, <1>10 DEF F

LEMMA TranscriptSize ==
  ASSUME NEW v \in MessageValues(TranscriptFields)
  PROVE  Len(ToAllocVec(TranscriptFields, v))
           <= Sized(DOMAIN_LEN) + 3 + 3 + 1 + Sized(BINDING_LEN) + 2 * Sized(NODE_ID_LEN)
           + 2 * Sized(NONCE_LEN) + 2 * Sized(MAX_CERTIFICATE_WIRE_BYTES)
<1> DEFINE F == TranscriptFields
           d == Sized(DOMAIN_LEN)
           g == Sized(BINDING_LEN)
           k == Sized(NODE_ID_LEN)
           a == Sized(NONCE_LEN)
           c == Sized(MAX_CERTIFICATE_WIRE_BYTES)
<1>1. F \in Seq(Types) /\ Len(F) = 11
      /\ F[1] = BoundedBytes(DOMAIN_LEN) /\ F[2] = U16 /\ F[3] = U16
      /\ F[4] = U8 /\ F[5] = BoundedBytes(BINDING_LEN) /\ F[6] = BoundedBytes(NODE_ID_LEN)
      /\ F[7] = BoundedBytes(NODE_ID_LEN) /\ F[8] = Nonce /\ F[9] = Nonce
      /\ F[10] = Certificate /\ F[11] = Certificate
  BY MessageTypes DEF TranscriptFields
<1>2. /\ Takes(BoundedBytes(DOMAIN_LEN), d)
      /\ Takes(U16, 3)
      /\ Takes(U8, 1)
      /\ Takes(BoundedBytes(BINDING_LEN), g)
      /\ Takes(BoundedBytes(NODE_ID_LEN), k)
      /\ Takes(Nonce, a)
      /\ Takes(Certificate, c)
  BY FieldsTake
<1>3. d \in Nat /\ g \in Nat /\ k \in Nat /\ a \in Nat /\ c \in Nat
  BY <1>2 DEF Takes
<1> HIDE DEF F, d, g, k, a, c
<1> DEFINE b1 == d
           b2 == b1 + 3
           b3 == b2 + 3
           b4 == b3 + 1
           b5 == b4 + g
           b6 == b5 + k
           b7 == b6 + k
           b8 == b7 + a
           b9 == b8 + a
           b10 == b9 + c
           b11 == b10 + c
<1>4. /\ b1 \in Nat /\ b2 \in Nat /\ b3 \in Nat /\ b4 \in Nat /\ b5 \in Nat
      /\ b6 \in Nat /\ b7 \in Nat /\ b8 \in Nat /\ b9 \in Nat /\ b10 \in Nat
      /\ b11 \in Nat
  BY <1>3
<1>5. /\ b1 = d /\ b2 = b1 + 3 /\ b3 = b2 + 3
      /\ b4 = b3 + 1 /\ b5 = b4 + g /\ b6 = b5 + k
      /\ b7 = b6 + k /\ b8 = b7 + a /\ b9 = b8 + a
      /\ b10 = b9 + c /\ b11 = b10 + c
  OBVIOUS
<1>6. b11 = Sized(DOMAIN_LEN) + 3 + 3 + 1 + Sized(BINDING_LEN) + 2 * Sized(NODE_ID_LEN)
           + 2 * Sized(NONCE_LEN) + 2 * Sized(MAX_CERTIFICATE_WIRE_BYTES)
  BY <1>3 DEF d, g, k, a, c
<1> HIDE DEF b1, b2, b3, b4, b5, b6, b7, b8, b9, b10, b11
<1> DEFINE bound == [i \in 0..11 |-> IF i = 0 THEN 0 ELSE IF i = 1 THEN b1
                                     ELSE IF i = 2 THEN b2 ELSE IF i = 3 THEN b3
                                     ELSE IF i = 4 THEN b4 ELSE IF i = 5 THEN b5
                                     ELSE IF i = 6 THEN b6 ELSE IF i = 7 THEN b7
                                     ELSE IF i = 8 THEN b8 ELSE IF i = 9 THEN b9
                                     ELSE IF i = 10 THEN b10 ELSE b11]
<1>7. bound \in [0..11 -> Nat]
  BY <1>4
<1>8. /\ bound[0] = 0 /\ bound[1] = b1 /\ bound[2] = b2 /\ bound[3] = b3
      /\ bound[4] = b4 /\ bound[5] = b5 /\ bound[6] = b6 /\ bound[7] = b7
      /\ bound[8] = b8 /\ bound[9] = b9 /\ bound[10] = b10 /\ bound[11] = b11
  OBVIOUS
<1> HIDE DEF bound
<1>9. ASSUME NEW i \in 1..11 PROVE \E size : Takes(F[i], size) /\ bound[i - 1] + size <= bound[i]
  <2>1. CASE i = 1
    <3>1. F[1] = BoundedBytes(DOMAIN_LEN) /\ Takes(BoundedBytes(DOMAIN_LEN), d)
      BY <1>1, <1>2
    <3>2. bound[i - 1] = 0 /\ bound[i] = b1
      BY <1>8, <2>1
    <3>3. 0 + d <= b1
      BY <1>3, <1>4, <1>5
    <3> QED
      BY <2>1, <3>1, <3>2, <3>3, Zenon
  <2>2. CASE i = 2
    <3>1. F[2] = U16 /\ Takes(U16, 3)
      BY <1>1, <1>2
    <3>2. bound[i - 1] = b1 /\ bound[i] = b2
      BY <1>8, <2>2
    <3>3. b1 + 3 <= b2
      BY <1>3, <1>4, <1>5
    <3> QED
      BY <2>2, <3>1, <3>2, <3>3, Zenon
  <2>3. CASE i = 3
    <3>1. F[3] = U16 /\ Takes(U16, 3)
      BY <1>1, <1>2
    <3>2. bound[i - 1] = b2 /\ bound[i] = b3
      BY <1>8, <2>3
    <3>3. b2 + 3 <= b3
      BY <1>3, <1>4, <1>5
    <3> QED
      BY <2>3, <3>1, <3>2, <3>3, Zenon
  <2>4. CASE i = 4
    <3>1. F[4] = U8 /\ Takes(U8, 1)
      BY <1>1, <1>2
    <3>2. bound[i - 1] = b3 /\ bound[i] = b4
      BY <1>8, <2>4
    <3>3. b3 + 1 <= b4
      BY <1>3, <1>4, <1>5
    <3> QED
      BY <2>4, <3>1, <3>2, <3>3, Zenon
  <2>5. CASE i = 5
    <3>1. F[5] = BoundedBytes(BINDING_LEN) /\ Takes(BoundedBytes(BINDING_LEN), g)
      BY <1>1, <1>2
    <3>2. bound[i - 1] = b4 /\ bound[i] = b5
      BY <1>8, <2>5
    <3>3. b4 + g <= b5
      BY <1>3, <1>4, <1>5
    <3> QED
      BY <2>5, <3>1, <3>2, <3>3, Zenon
  <2>6. CASE i = 6
    <3>1. F[6] = BoundedBytes(NODE_ID_LEN) /\ Takes(BoundedBytes(NODE_ID_LEN), k)
      BY <1>1, <1>2
    <3>2. bound[i - 1] = b5 /\ bound[i] = b6
      BY <1>8, <2>6
    <3>3. b5 + k <= b6
      BY <1>3, <1>4, <1>5
    <3> QED
      BY <2>6, <3>1, <3>2, <3>3, Zenon
  <2>7. CASE i = 7
    <3>1. F[7] = BoundedBytes(NODE_ID_LEN) /\ Takes(BoundedBytes(NODE_ID_LEN), k)
      BY <1>1, <1>2
    <3>2. bound[i - 1] = b6 /\ bound[i] = b7
      BY <1>8, <2>7
    <3>3. b6 + k <= b7
      BY <1>3, <1>4, <1>5
    <3> QED
      BY <2>7, <3>1, <3>2, <3>3, Zenon
  <2>8. CASE i = 8
    <3>1. F[8] = Nonce /\ Takes(Nonce, a)
      BY <1>1, <1>2
    <3>2. bound[i - 1] = b7 /\ bound[i] = b8
      BY <1>8, <2>8
    <3>3. b7 + a <= b8
      BY <1>3, <1>4, <1>5
    <3> QED
      BY <2>8, <3>1, <3>2, <3>3, Zenon
  <2>9. CASE i = 9
    <3>1. F[9] = Nonce /\ Takes(Nonce, a)
      BY <1>1, <1>2
    <3>2. bound[i - 1] = b8 /\ bound[i] = b9
      BY <1>8, <2>9
    <3>3. b8 + a <= b9
      BY <1>3, <1>4, <1>5
    <3> QED
      BY <2>9, <3>1, <3>2, <3>3, Zenon
  <2>10. CASE i = 10
    <3>1. F[10] = Certificate /\ Takes(Certificate, c)
      BY <1>1, <1>2
    <3>2. bound[i - 1] = b9 /\ bound[i] = b10
      BY <1>8, <2>10
    <3>3. b9 + c <= b10
      BY <1>3, <1>4, <1>5
    <3> QED
      BY <2>10, <3>1, <3>2, <3>3, Zenon
  <2>11. CASE i = 11
    <3>1. F[11] = Certificate /\ Takes(Certificate, c)
      BY <1>1, <1>2
    <3>2. bound[i - 1] = b10 /\ bound[i] = b11
      BY <1>8, <2>11
    <3>3. b10 + c <= b11
      BY <1>3, <1>4, <1>5
    <3> QED
      BY <2>11, <3>1, <3>2, <3>3, Zenon
  <2> QED
    BY <2>1, <2>2, <2>3, <2>4, <2>5, <2>6, <2>7, <2>8, <2>9, <2>10, <2>11
<1>10. Len(ToAllocVec(F, v)) <= bound[11]
  <2>1. v \in MessageValues(F)
    BY DEF F
  <2>2. bound \in [0..Len(F) -> Nat]
    BY <1>1, <1>7
  <2>3. \A i \in 1..Len(F) : \E size : Takes(F[i], size) /\ bound[i - 1] + size <= bound[i]
    BY <1>1, <1>9
  <2>4. Len(ToAllocVec(F, v)) <= bound[Len(F)]
    BY <1>1, <2>1, <2>2, <2>3, SizesAddUp
  <2> QED
    BY <1>1, <2>4
<1> QED
  BY <1>6, <1>8, <1>10 DEF F


\* A constructed transcript has signing bytes.
LEMMA SigningBytesExist ==
  ASSUME BuildInv, kind = "Transcript", NewTranscript(value) = "Ok"
  PROVE  ToSigningBytes(value) = Ok(ToAllocVec(TranscriptFields, value))
<1> DEFINE b == ToAllocVec(TranscriptFields, value)
           most == Sized(DOMAIN_LEN) + 3 + 3 + 1 + Sized(BINDING_LEN) + 2 * Sized(NODE_ID_LEN)
                   + 2 * Sized(NONCE_LEN) + 2 * Sized(MAX_CERTIFICATE_WIRE_BYTES)
<1>1. value \in MessageValues(TranscriptFields)
  BY BuiltTranscript
<1>2. Len(b) <= most
  BY <1>1, TranscriptSize
<1>3. b \in Seq(Byte)
  <2> DEFINE F == TranscriptFields
  <2>1. F \in Seq(Types)
    BY MessageTypes
  <2> HIDE DEF F
  <2> QED
    BY <1>1, <2>1, EncodedDecodes DEF F
<1>4. ~(Len(b) > MAX_AUTH_TRANSCRIPT_BYTES)
  <2>1. MAX_AUTH_TRANSCRIPT_BYTES \in Nat
    BY SizesAssumption
  <2>2. Len(b) \in Nat
    BY <1>3
  <2>3. most \in Nat
    <3>1. /\ Sized(DOMAIN_LEN) \in Nat /\ Sized(BINDING_LEN) \in Nat
          /\ Sized(NODE_ID_LEN) \in Nat /\ Sized(NONCE_LEN) \in Nat
          /\ Sized(MAX_CERTIFICATE_WIRE_BYTES) \in Nat
      BY FieldsTake DEF Takes
    <3> QED
      BY <3>1
  <2>4. most <= MAX_AUTH_TRANSCRIPT_BYTES
    BY BudgetAssumption
  <2> HIDE DEF b, most
  <2> QED
    BY <1>2, <2>1, <2>2, <2>3, <2>4
<1> HIDE DEF b
<1> QED
  BY <1>4 DEF ToSigningBytes, b

\* For all bounds with room for all fields at theirs: no message or
\* transcript is refused for its size.
THEOREM FieldBoundsAreEnough == BuildSpec => []FieldBoundsSuffice
<1>1. ASSUME BuildInv, kind = "Transcript", NewTranscript(value) = "Ok"
      PROVE  Good(ToSigningBytes(value))
  BY <1>1, SigningBytesExist DEF Good, Ok
<1>2. ASSUME BuildInv, kind # "Transcript"
      PROVE  ToBytes(kind, value) # Failed("MessageTooLarge")
  <2> DEFINE F == Fields(kind)
             b == ToAllocVec(F, value)
             e == ToBytes(kind, value)
             short == kind \in {"AuthInit", "AuthResponse"} /\ Len(value[2]) # NONCE_LEN
             big == Len(b) > MaxSize(kind)
  <2>1. kind \in Kinds /\ F \in Seq(Types) /\ value \in MessageValues(F)
    BY <1>2, BuiltMessage
  <2>2. e = IF kind = "Hello" THEN Ok(b)
            ELSE IF short THEN Failed("ExactLength")
            ELSE IF big THEN Failed("MessageTooLarge")
            ELSE Ok(b)
    BY Zenon DEF ToBytes
  <2>3. Len(b) \in Nat
    <3> HIDE DEF F
    <3>1. b \in Seq(Byte)
      BY <2>1, EncodedDecodes
    <3> QED
      BY <3>1
  <2>4. /\ MAX_AUTH_INIT_BYTES \in Nat /\ MAX_AUTH_RESPONSE_BYTES \in Nat
        /\ MAX_AUTH_CONFIRM_BYTES \in Nat
    BY SizesAssumption
  <2>5. /\ Sized(NONCE_LEN) \in Nat /\ Sized(MAX_CERTIFICATE_WIRE_BYTES) \in Nat /\ Proof \in Nat
    BY FieldsTake DEF Takes
  <2>6. kind # "Hello" => ~big
    <3>1. CASE kind = "AuthInit"
      <4>1. Len(b) <= 3 + Sized(NONCE_LEN) + Sized(MAX_CERTIFICATE_WIRE_BYTES)
        BY <2>1, <3>1, InitSize
      <4>2. MaxSize(kind) = MAX_AUTH_INIT_BYTES
        BY <3>1 DEF MaxSize
      <4> HIDE DEF b
      <4> QED
        BY <2>3, <2>4, <2>5, <4>1, <4>2, BudgetAssumption
    <3>2. CASE kind = "AuthResponse"
      <4>1. Len(b) <= 3 + Sized(NONCE_LEN) + Sized(MAX_CERTIFICATE_WIRE_BYTES) + Proof
        BY <2>1, <3>2, ResponseSize
      <4>2. MaxSize(kind) = MAX_AUTH_RESPONSE_BYTES
        BY <3>2 DEF MaxSize
      <4> HIDE DEF b
      <4> QED
        BY <2>3, <2>4, <2>5, <4>1, <4>2, BudgetAssumption
    <3>3. CASE kind = "AuthConfirm"
      <4>1. Len(b) <= Proof
        BY <2>1, <3>3, ConfirmSize
      <4>2. MaxSize(kind) = MAX_AUTH_CONFIRM_BYTES
        BY <3>3 DEF MaxSize
      <4> HIDE DEF b
      <4> QED
        BY <2>3, <2>4, <2>5, <4>1, <4>2, BudgetAssumption
    <3> QED
      BY <2>1, <3>1, <3>2, <3>3 DEF Kinds
  <2>7. Ok(b) # Failed("MessageTooLarge") /\ Failed("ExactLength") # Failed("MessageTooLarge")
    <3>1. Ok(b).verdict = "Ok" /\ Failed("MessageTooLarge").verdict = "MessageTooLarge"
          /\ Failed("ExactLength").verdict = "ExactLength"
      BY DEF Ok, Failed
    <3> QED
      BY <3>1
  <2> HIDE DEF b, e, short, big
  <2>8. e # Failed("MessageTooLarge")
    BY <2>2, <2>6, <2>7
  <2> QED
    BY <2>8 DEF e
<1>3. BuildInv => FieldBoundsSuffice
  BY <1>1, <1>2 DEF FieldBoundsSuffice
<1> QED
  BY <1>3, BuildInductive, PTL

\* For all bounds and all arguments: the signing bytes of a transcript
\* decode to the fields it was made of.
THEOREM SignedOnce == BuildSpec => []SigningBytesAreUnambiguous
<1>1. BuildInv => SigningBytesAreUnambiguous
  <2> SUFFICES ASSUME BuildInv, kind = "Transcript", NewTranscript(value) = "Ok"
               PROVE  DecodeExact(TranscriptFields, ToSigningBytes(value).value) = Ok(value)
    BY DEF SigningBytesAreUnambiguous
  <2> DEFINE F == TranscriptFields
             b == ToAllocVec(F, value)
  <2>1. value \in MessageValues(F) /\ F \in Seq(Types)
    BY BuiltTranscript, MessageTypes
  <2>2. DecodeExact(F, b) = Ok(value)
    <3> HIDE DEF F
    <3> QED
      BY <2>1, EncodedDecodes
  <2>3. ToSigningBytes(value).value = b
    BY SigningBytesExist DEF Ok
  <2> QED
    BY <2>2, <2>3
<1> QED
  BY <1>1, BuildInductive, PTL
=============================================================================
