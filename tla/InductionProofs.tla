---------------------------- MODULE InductionProofs ----------------------------
(***************************************************************************)
(* Induction over the natural numbers, in a form the provers can use: the  *)
(* induction hypothesis is a set.  And what it shows of FlattenSeq of the  *)
(* community modules, by which lists are written, and of lists of Checks.  *)
(***************************************************************************)
EXTENDS Checks, SequencesExt, SequenceTheorems, WellFoundedInduction, TLAPS

\* The least-number principle, for a set.
LEMMA LeastNumber ==
    ASSUME NEW T, T \subseteq Nat, T # {}
    PROVE  \E n \in T : \A m \in T : n <= m
<1> DEFINE R == OpToRel(<, Nat)
<1>1. IsWellFoundedOn(R, Nat)
      BY NatLessThanWellFounded
<1> HIDE DEF R
<1>2. PICK n \in T : \A m \in T : ~(<< m, n >> \in R)
      BY <1>1, WFMin
<1>3. \A m \in T : ~(m < n)
      BY <1>2 DEF R, OpToRel
<1> QED BY <1>3

\* Induction, with a set in place of a predicate.
LEMMA Induction ==
    ASSUME NEW T, T \subseteq Nat, 0 \in T, \A n \in T : n + 1 \in T
    PROVE  T = Nat
<1> SUFFICES ASSUME Nat \ T # {} PROVE FALSE
    OBVIOUS
<1>1. PICK n \in Nat \ T : \A m \in Nat \ T : n <= m
      BY LeastNumber
<1>2. n # 0 /\ n - 1 \in Nat
      OBVIOUS
<1>3. n - 1 \in T
      BY <1>1, <1>2
<1>4. (n - 1) + 1 \in T
      BY <1>3
<1>5. (n - 1) + 1 = n
      BY <1>1
<1> QED BY <1>1, <1>4, <1>5

-----------------------------------------------------------------------------
(***************************************************************************)
(* Recursive functions on 0..n, each value made of the one before          *)
(***************************************************************************)
Steps(S, base, n, G) == n \in Nat /\ base \in S /\ G \in [1..n -> [S -> S]]

Run(f, S, base, n, G) == /\ f \in [0..n -> S] /\ f[0] = base
                         /\ \A i \in 1..n : f[i] = G[i][f[i - 1]]

\* There is one, for any steps G.
LEMMA Recursion ==
    ASSUME NEW S, NEW base, NEW n, NEW G, Steps(S, base, n, G)
    PROVE  \E f : Run(f, S, base, n, G)
<1> USE DEF Steps
<1> DEFINE P(k) == \E f \in [0..k -> S] : /\ f[0] = base
                                          /\ \A i \in 1..k : f[i] = G[i][f[i - 1]]
           T == {k \in Nat : k <= n => P(k)}
<1>1. P(0)
  <2> DEFINE f == [i \in 0..0 |-> base]
  <2>1. f \in [0..0 -> S] /\ f[0] = base /\ 1..0 = {}
        OBVIOUS
  <2> HIDE DEF f
  <2> QED BY <2>1
<1>2. ASSUME NEW k \in T PROVE k + 1 \in T
  <2> HIDE DEF P
  <2>1. SUFFICES ASSUME k + 1 <= n PROVE P(k + 1)
        OBVIOUS
  <2>0. P(k)
        BY <2>1
  <2> USE DEF P
  <2>2. PICK f \in [0..k -> S] : /\ f[0] = base
                                 /\ \A i \in 1..k : f[i] = G[i][f[i - 1]]
        BY <2>0
  <2> DEFINE v == G[k + 1][f[k]]
             g == [i \in 0..(k + 1) |-> IF i = k + 1 THEN v ELSE f[i]]
  <2>3. k \in Nat /\ k + 1 \in 1..n /\ f[k] \in S
        BY <2>1
  <2>4. v \in S
        BY <2>3
  <2> HIDE DEF v
  <2>5. /\ g \in [0..(k + 1) -> S] /\ g[k + 1] = v
        /\ \A i \in 0..k : g[i] = f[i]
        BY <2>3, <2>4
  <2> HIDE DEF g
  <2>6. ASSUME NEW i \in 1..(k + 1) PROVE g[i] = G[i][g[i - 1]]
    <3>1. CASE i = k + 1
      <4>1. i - 1 = k /\ k \in 0..k
            BY <2>3, <3>1
      <4> QED BY <2>5, <3>1, <4>1 DEF v
    <3>2. CASE i \in 1..k
      <4>1. i - 1 \in 0..k /\ i \in 0..k
            BY <2>3, <3>2
      <4>2. g[i - 1] = f[i - 1] /\ g[i] = f[i]
            BY <2>5, <4>1
      <4> QED BY <2>2, <3>2, <4>2
    <3> QED BY <2>3, <3>1, <3>2
  <2>7. g[0] = base
        BY <2>2, <2>3, <2>5
  <2> QED BY <2>5, <2>6, <2>7
<1> HIDE DEF P
<1>3. 0 \in T
      BY <1>1
<1> HIDE DEF T
<1>4. T = Nat
  <2>1. T \subseteq Nat
        BY DEF T
  <2> QED BY <1>2, <1>3, <2>1, Induction
<1>5. n \in T
      BY <1>4
<1>6. P(n)
      BY <1>5 DEF T
<1> QED BY <1>6 DEF P, Run

\* There is only one: two functions that begin alike, and go on alike from
\* where they agree, are the same.
Alike(n, f, g) == /\ n \in Nat /\ f[0] = g[0]
                  /\ \A i \in 1..n : f[i - 1] = g[i - 1] => f[i] = g[i]
Agree(n, f, g) == \A i \in 0..n : f[i] = g[i]

LEMMA SameRun ==
    ASSUME NEW n, NEW f, NEW g, Alike(n, f, g)
    PROVE  Agree(n, f, g)
<1> USE DEF Alike, Agree
<1> DEFINE T == {k \in Nat : k <= n => f[k] = g[k]}
<1>1. 0 \in T
      OBVIOUS
<1>2. ASSUME NEW k \in T PROVE k + 1 \in T
  <2>1. SUFFICES ASSUME k + 1 <= n PROVE f[k + 1] = g[k + 1]
        OBVIOUS
  <2>2. k + 1 \in 1..n /\ (k + 1) - 1 = k /\ f[k] = g[k]
        BY <2>1
  <2> QED BY <2>2
<1> HIDE DEF T
<1>3. T = Nat
  <2>1. T \subseteq Nat
        BY DEF T
  <2> QED BY <1>1, <1>2, <2>1, Induction
<1>4. ASSUME NEW i \in 0..n PROVE f[i] = g[i]
  <2>1. i \in T /\ i <= n
        BY <1>3
  <2> QED BY <2>1 DEF T
<1> QED BY <1>4

-----------------------------------------------------------------------------
\* FlattenSeq goes through its sequences from the first to the last.
LEMMA FlattenRun ==
    ASSUME NEW S, NEW s \in Seq(Seq(S))
    PROVE  \E acc \in [0..Len(s) -> Seq(S)] :
             /\ acc[0] = << >>
             /\ \A i \in 1..Len(s) : acc[i] = acc[i - 1] \o s[i]
             /\ FlattenSeq(s) = acc[Len(s)]
<1> DEFINE n == Len(s)
           G == [i \in 1..n |-> [x \in Seq(S) |-> x \o s[i]]]
<1>1. n \in Nat /\ \A i \in 1..n : s[i] \in Seq(S)
      OBVIOUS
<1>2. G \in [1..n -> [Seq(S) -> Seq(S)]]
  <2>1. \A i \in 1..n, x \in Seq(S) : x \o s[i] \in Seq(S)
        BY <1>1
  <2> QED BY <2>1
<1>3. \A i \in 1..n, x \in Seq(S) : G[i][x] = x \o s[i]
      OBVIOUS
<1> HIDE DEF G, n
<1>4. PICK acc \in [0..n -> Seq(S)] :
             /\ acc[0] = << >>
             /\ \A i \in 1..n : acc[i] = G[i][acc[i - 1]]
  <2>1. Steps(Seq(S), << >>, n, G)
        BY <1>1, <1>2 DEF Steps
  <2>2. \E f : Run(f, Seq(S), << >>, n, G)
        BY <2>1, Recursion
  <2> QED BY <2>2 DEF Run
<1>5. ASSUME NEW i \in 1..n PROVE acc[i] = acc[i - 1] \o s[i]
  <2>1. acc[i - 1] \in Seq(S)
        BY <1>1
  <2> QED BY <1>3, <1>4, <2>1
<1>6. FlattenSeq(s) = acc[n]
  <2>1. CASE n = 0
    <3>1. s = << >>
          BY <2>1 DEF n
    <3> QED BY <1>4, <2>1, <3>1 DEF FlattenSeq
  <2>2. CASE n # 0
    <3> DEFINE Step(f, i) == IF i = 1 THEN s[i] ELSE f[i - 1] \o s[i]
               h == CHOOSE f : f = [i \in 1..n |-> Step(f, i)]
               f == [i \in 1..n |-> acc[i]]
    <3>1. acc[1] = s[1]
      <4>1. 1 \in 1..n /\ 1 - 1 = 0
            BY <1>1, <2>2
      <4>2. acc[1] = << >> \o s[1] /\ s[1] \in Seq(S)
            BY <1>1, <1>4, <1>5, <4>1
      <4> QED BY <4>2
    <3>2. ASSUME NEW i \in 1..n PROVE f[i] = Step(f, i)
      <4>1. i # 1 => i - 1 \in 1..n
            BY <1>1
      <4> QED BY <1>5, <3>1, <4>1
    <3>3. f = [i \in 1..n |-> Step(f, i)]
          BY <3>2
    <3> HIDE DEF f, Step
    <3>4. h = [i \in 1..n |-> Step(h, i)]
          BY <3>3
    <3>5. FlattenSeq(s) = h[n]
          BY <2>2, Zenon DEF FlattenSeq, Step, n
    <3> HIDE DEF h
    <3>6. \A i \in 1..n : h[i] = Step(h, i)
          BY <3>4
    <3> DEFINE g == [i \in 0..n |-> IF i = 0 THEN << >> ELSE h[i]]
    <3>7. g[0] = << >> /\ g[n] = h[n] /\ \A i \in 1..n : g[i] = h[i]
          BY <1>1, <2>2
    <3> HIDE DEF g
    <3>8. ASSUME NEW i \in 1..n, g[i - 1] = acc[i - 1] PROVE g[i] = acc[i]
      <4>1. CASE i = 1
            BY <3>1, <3>6, <3>7, <4>1 DEF Step
      <4>2. CASE i # 1
        <5>1. i - 1 \in 1..n
              BY <1>1, <4>2
        <5>2. h[i] = h[i - 1] \o s[i]
              BY <3>6, <4>2, Zenon DEF Step
        <5> QED BY <1>5, <3>7, <3>8, <5>1, <5>2
      <4> QED BY <4>1, <4>2
    <3>9. \A i \in 0..n : g[i] = acc[i]
      <4>1. Alike(n, g, acc)
            BY <1>1, <1>4, <3>7, <3>8 DEF Alike
      <4>2. Agree(n, g, acc)
            BY <4>1, SameRun
      <4> QED BY <4>2 DEF Agree
    <3> QED BY <1>1, <3>5, <3>7, <3>9
  <2> QED BY <2>1, <2>2
<1> QED BY <1>4, <1>5, <1>6 DEF n

\* The last one comes last.
LEMMA FlattenLast ==
    ASSUME NEW S, NEW k \in Nat, NEW s \in Seq(Seq(S)), Len(s) = k + 1,
           NEW t \in Seq(Seq(S)), Len(t) = k, \A i \in 1..k : t[i] = s[i]
    PROVE  FlattenSeq(s) = FlattenSeq(t) \o s[k + 1] /\ FlattenSeq(t) \in Seq(S)
<1>1. PICK f \in [0..Len(s) -> Seq(S)] :
             /\ f[0] = << >>
             /\ \A i \in 1..Len(s) : f[i] = f[i - 1] \o s[i]
             /\ FlattenSeq(s) = f[Len(s)]
      BY FlattenRun, Zenon
<1>2. PICK g \in [0..Len(t) -> Seq(S)] :
             /\ g[0] = << >>
             /\ \A i \in 1..Len(t) : g[i] = g[i - 1] \o t[i]
             /\ FlattenSeq(t) = g[Len(t)]
      BY FlattenRun, Zenon
<1>3. ASSUME NEW i \in 1..k, f[i - 1] = g[i - 1] PROVE f[i] = g[i]
  <2>1. i \in 1..Len(s) /\ i \in 1..Len(t)
        OBVIOUS
  <2>2. f[i] = f[i - 1] \o s[i] /\ g[i] = g[i - 1] \o t[i]
        BY <1>1, <1>2, <2>1, Zenon
  <2>3. t[i] = s[i]
        OBVIOUS
  <2> QED BY <1>3, <2>2, <2>3, Zenon
<1>4. Alike(k, f, g)
      BY <1>1, <1>2, <1>3, Zenon DEF Alike
<1>5. Agree(k, f, g)
      BY <1>4, SameRun
<1>6. k \in 0..k /\ k + 1 \in 1..Len(s) /\ (k + 1) - 1 = k /\ Len(t) = k /\ k \in 0..Len(t)
      OBVIOUS
<1>7. f[k] = g[k]
      BY <1>5, <1>6, Zenon DEF Agree
<1>8. f[Len(s)] = f[k] \o s[k + 1]
      BY <1>1, <1>6
<1>9. FlattenSeq(t) = g[k] /\ g[k] \in Seq(S)
      BY <1>2, <1>6
<1> QED BY <1>1, <1>7, <1>8, <1>9, Zenon

LEMMA FlattenEmpty == FlattenSeq(<< >>) = << >>
  BY DEF FlattenSeq

\* And it is as long as bounds on its sequences, added up, allow.
LEMMA FlattenWithin ==
    ASSUME NEW S, NEW s \in Seq(Seq(S)), NEW bound \in [0..Len(s) -> Nat],
           \A i \in 1..Len(s) : bound[i - 1] + Len(s[i]) <= bound[i]
    PROVE  Len(FlattenSeq(s)) <= bound[Len(s)]
<1> DEFINE n == Len(s)
<1>1. PICK acc \in [0..n -> Seq(S)] :
             /\ acc[0] = << >>
             /\ \A i \in 1..n : acc[i] = acc[i - 1] \o s[i]
             /\ FlattenSeq(s) = acc[n]
      BY FlattenRun, Zenon
<1>2. n \in Nat
      OBVIOUS
<1> DEFINE T == {i \in Nat : i <= n => Len(acc[i]) <= bound[i]}
<1>3. 0 \in T
  <2>1. Len(acc[0]) = 0 /\ bound[0] \in Nat
        BY <1>1
  <2> QED BY <2>1
<1>4. ASSUME NEW i \in T PROVE i + 1 \in T
  <2> SUFFICES ASSUME i + 1 <= n PROVE Len(acc[i + 1]) <= bound[i + 1]
      OBVIOUS
  <2>1. i \in 0..n /\ i + 1 \in 1..n /\ (i + 1) - 1 = i /\ i + 1 \in 0..n
        BY <1>2
  <2>2. Len(acc[i]) <= bound[i]
        BY <2>1
  <2>3. acc[i + 1] = acc[i] \o s[i + 1]
        BY <1>1, <2>1
  <2> DEFINE x == acc[i]
             y == s[i + 1]
             before == bound[i]
             after == bound[i + 1]
  <2>4. x \in Seq(S) /\ y \in Seq(S)
    <3>1. x \in Seq(S)
          BY <2>1
    <3>2. y \in Seq(S)
          BY <2>1
    <3> QED BY <3>1, <3>2
  <2>5. bound[(i + 1) - 1] + Len(s[i + 1]) <= bound[i + 1]
        BY <2>1, Zenon
  <2>6. before + Len(y) <= after
        BY <2>1, <2>5
  <2>7. before \in Nat /\ after \in Nat
        BY <2>1
  <2>8. Len(x) <= before /\ acc[i + 1] = x \o y
        BY <2>2, <2>3
  <2> HIDE DEF x, y, before, after
  <2>9. Len(acc[i + 1]) <= after
        BY <2>4, <2>6, <2>7, <2>8
  <2> QED BY <2>9 DEF after
<1>5. T = Nat
  <2>1. T \subseteq Nat
        OBVIOUS
  <2> HIDE DEF T
  <2> QED BY <1>3, <1>4, <2>1, Induction
<1>6. n \in T /\ n <= n
      BY <1>2, <1>5
<1> QED BY <1>1, <1>6

-----------------------------------------------------------------------------
(***************************************************************************)
(* Lists of checks                                                         *)
(***************************************************************************)
Pass(u) == \A i \in 1..Len(u) : u[i].holds

\* A list, of anything, of errors none of which is Ok.
IsList(u) == /\ \E T : u \in Seq(T)
             /\ \A i \in 1..Len(u) : u[i].error # "Ok"

\* Checks in a row pass if and only if each of them holds.
LEMMA VerdictIsPass ==
    ASSUME NEW u, IsList(u)
    PROVE  Verdict(u) = "Ok" <=> Pass(u)
<1> DEFINE failed == {i \in DOMAIN u : ~u[i].holds}
           first  == CHOOSE i \in failed : \A j \in failed : i <= j
<1>1. DOMAIN u = 1..Len(u) /\ Len(u) \in Nat
      BY DEF IsList
<1>2. failed \subseteq Nat /\ failed \subseteq 1..Len(u)
      BY <1>1
<1>3. Pass(u) <=> failed = {}
      BY <1>1 DEF Pass
<1>4. Verdict(u) = IF failed = {} THEN "Ok" ELSE u[first].error
      BY DEF Verdict
<1> HIDE DEF failed
<1>5. ASSUME failed # {} PROVE u[first].error # "Ok"
  <2>1. \E i \in failed : \A j \in failed : i <= j
        BY <1>2, <1>5, LeastNumber
  <2>2. first \in failed
        BY <2>1
  <2> HIDE DEF first
  <2> QED BY <1>2, <2>2 DEF IsList
<1> QED BY <1>3, <1>4, <1>5

\* One list of checks after another passes if and only if both do.
LEMMA BothPass ==
    ASSUME NEW u, NEW v, IsList(u), IsList(v)
    PROVE  /\ IsList(u \o v) /\ Len(u \o v) = Len(u) + Len(v)
           /\ Pass(u \o v) <=> (Pass(u) /\ Pass(v))
<1> DEFINE w == u \o v
<1> PICK S, R : u \in Seq(S) /\ v \in Seq(R)
     BY DEF IsList
<1> DEFINE T == S \cup R
<1>0. u \in Seq(T) /\ v \in Seq(T)
      OBVIOUS
<1> HIDE DEF T
<1>1. /\ w \in Seq(T) /\ Len(w) = Len(u) + Len(v)
      /\ \A i \in 1..Len(u) + Len(v) :
           w[i] = IF i <= Len(u) THEN u[i] ELSE v[i - Len(u)]
      BY <1>0, ConcatProperties
<1>2. Len(u) \in Nat /\ Len(v) \in Nat
      OBVIOUS
<1> HIDE DEF w
<1>3. \A i \in 1..Len(u) : i \in 1..Len(w) /\ w[i] = u[i]
      BY <1>1, <1>2
<1>4. ASSUME NEW i \in 1..Len(v)
      PROVE  Len(u) + i \in 1..Len(w) /\ w[Len(u) + i] = v[i]
  <2>1. /\ Len(u) + i \in 1..Len(u) + Len(v)
        /\ ~(Len(u) + i <= Len(u)) /\ (Len(u) + i) - Len(u) = i
        BY <1>2
  <2>2. w[Len(u) + i] = v[(Len(u) + i) - Len(u)]
        BY <1>1, <2>1
  <2> QED BY <1>1, <2>1, <2>2
<1>5. \A i \in 1..Len(w) : \/ i \in 1..Len(u)
                           \/ i - Len(u) \in 1..Len(v) /\ w[i] = v[i - Len(u)]
      BY <1>1, <1>2
<1>6. Pass(w) <=> (Pass(u) /\ Pass(v))
      BY <1>3, <1>4, <1>5 DEF Pass
<1>7. IsList(w)
  <2>1. \A i \in 1..Len(w) : w[i].error # "Ok"
        BY <1>3, <1>5 DEF IsList
  <2> QED BY <1>1, <2>1 DEF IsList
<1> QED BY <1>1, <1>6, <1>7 DEF w
=============================================================================
