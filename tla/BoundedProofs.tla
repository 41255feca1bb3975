----------------------------- MODULE BoundedProofs -----------------------------
(***************************************************************************)
(* Theorems about bounded.rs: the violation channel, for any number of     *)
(* threads, violations and any depth of nesting (ViolationChannel), and    *)
(* the memory a bounded decode takes, for any bounds and any declared      *)
(* counts and lengths (BoundedDecode).                                     *)
(***************************************************************************)
EXTENDS ViolationChannel, BoundedDecode, SequenceTheorems, TLAPS

-----------------------------------------------------------------------------
(***************************************************************************)
(* The stack of open decodes                                               *)
(***************************************************************************)

\* Removing the innermost open decode.
LEMMA PopType ==
    ASSUME NEW S, NEW s \in Seq(S), s # << >>
    PROVE  /\ Front(s) \in Seq(S) /\ Len(Front(s)) = Len(s) - 1
           /\ Last(s) \in S /\ Len(s) \in Nat /\ Len(s) >= 1
           /\ \A i \in 1..Len(Front(s)) : Front(s)[i] = s[i]
<1>1. Len(s) \in Nat /\ Len(s) >= 1
      BY EmptySeq
<1>2. Front(s) = SubSeq(s, 1, Len(s) - 1) /\ Last(s) = s[Len(s)]
      BY DEF Front, Last
<1> DEFINE n == Len(s) - 1
<1>3. n \in Int /\ n >= 0 /\ \A i \in 1..n : s[i] \in S
      BY <1>1
<1>4. /\ SubSeq(s, 1, n) \in Seq(S) /\ Len(SubSeq(s, 1, n)) = n
      /\ \A i \in 1..n : SubSeq(s, 1, n)[i] = s[i]
  <2> HIDE DEF n
  <2> QED BY <1>3, SubSeqProperties
<1> QED BY <1>1, <1>2, <1>4

\* Replacing the reason of the innermost open decode.
LEMMA ReplaceType ==
    ASSUME NEW S, NEW s \in Seq(S), s # << >>, NEW x \in S
    PROVE  /\ Append(Front(s), x) \in Seq(S)
           /\ Len(Append(Front(s), x)) = Len(s)
           /\ Append(Front(s), x) # << >>
           /\ Last(Append(Front(s), x)) = x
           /\ \A i \in 1..(Len(s) - 1) : Append(Front(s), x)[i] = s[i]
<1> DEFINE f == Front(s)
           a == Append(f, x)
<1>1. f \in Seq(S) /\ Len(f) = Len(s) - 1 /\ Len(s) \in Nat /\ Len(s) >= 1
      /\ \A i \in 1..Len(f) : f[i] = s[i]
      BY PopType
<1> HIDE DEF f
<1>2. /\ a \in Seq(S) /\ Len(a) = Len(f) + 1 /\ a[Len(f) + 1] = x
      /\ \A i \in 1..Len(f) : a[i] = f[i]
      BY <1>1, AppendProperties
<1> HIDE DEF a
<1>3. Last(a) = x /\ a # << >>
      BY <1>1, <1>2, EmptySeq DEF Last
<1>4. \A i \in 1..(Len(s) - 1) : a[i] = s[i]
      BY <1>1, <1>2
<1> QED BY <1>1, <1>2, <1>3, <1>4 DEF a, f

-----------------------------------------------------------------------------
(***************************************************************************)
(* The slot holds the first violation of the decodes open on the thread    *)
(***************************************************************************)
Open(t) == calls[t] # << >>

SlotInv ==
    /\ TypeOK
    /\ NothingLeaks
    /\ \A t \in Threads : Open(t) => slot[t] = first[t]
    /\ FirstViolationIsReported

\* The marks the model uses are not violations.
LEMMA Disjoint ==
    /\ "empty" \notin Violations /\ "running" \notin Violations
    /\ "malformed" \notin Violations /\ "MalformedWire" \notin Violations
BY ViolationAssumption

\* The invariant of the slot holds initially.
LEMMA SlotInit == Init => SlotInv
<1> SUFFICES ASSUME Init PROVE SlotInv
    OBVIOUS
<1>1. NothingTold \in [why : Reasons, first : {"empty"} \cup Violations, report : Reports]
      BY DEF NothingTold, Reasons, Reports
<1>2. TypeOK
      BY <1>1 DEF Init, TypeOK
<1>3. Len(<< >>) = 0
      BY EmptySeq
<1> QED BY <1>2, <1>3
        DEF Init, SlotInv, NothingLeaks, FirstViolationIsReported, Open, NothingTold

\* A decode that begins, outermost or nested, keeps the invariant of the slot.
LEMMA BeginSlot ==
    ASSUME SlotInv, NEW t \in Threads, Begin(t)
    PROVE  SlotInv'
<1> DEFINE c == Append(calls[t], "running")
<1>1. /\ calls[t] \in Seq(Reasons) /\ depth[t] \in Nat /\ depth[t] = Len(calls[t])
      /\ calls \in [Threads -> Seq(Reasons)] /\ depth \in [Threads -> Nat]
      /\ slot \in [Threads -> {"empty"} \cup Violations]
      /\ first \in [Threads -> {"empty"} \cup Violations]
      BY DEF SlotInv, TypeOK, NothingLeaks
<1>2. /\ c \in Seq(Reasons) /\ Len(c) = Len(calls[t]) + 1 /\ c # << >>
  <2>1. "running" \in Reasons
        BY DEF Reasons
  <2> QED BY <1>1, <2>1, AppendProperties
<1>3. /\ calls' = [calls EXCEPT ![t] = c]
      /\ depth' = [depth EXCEPT ![t] = depth[t] + 1]
      /\ slot' = [slot EXCEPT ![t] = AfterEnter(depth[t], slot[t])]
      /\ first' = [first EXCEPT ![t] = IF calls[t] = << >> THEN "empty" ELSE first[t]]
      /\ told' = told
      BY DEF Begin
<1> HIDE DEF c
<1>4. calls[t] = << >> <=> depth[t] = 0
      BY <1>1, EmptySeq
<1>5. /\ AfterEnter(depth[t], slot[t]) =
             (IF calls[t] = << >> THEN "empty" ELSE first[t])
      /\ AfterEnter(depth[t], slot[t]) \in {"empty"} \cup Violations
      BY <1>1, <1>4 DEF AfterEnter, SlotInv, Open
<1>6. TypeOK'
      BY <1>1, <1>2, <1>3, <1>5 DEF SlotInv, TypeOK
<1>7. NothingLeaks'
      BY <1>1, <1>2, <1>3 DEF SlotInv, NothingLeaks
<1>8. \A u \in Threads : Open(u)' => slot'[u] = first'[u]
      BY <1>1, <1>3, <1>5 DEF SlotInv, Open
<1>9. FirstViolationIsReported'
      BY <1>3 DEF SlotInv, FirstViolationIsReported
<1> QED BY <1>6, <1>7, <1>8, <1>9 DEF SlotInv, Open

\* A decode that fails for a reason of its own, the slot being s then.
LEMMA FailSlot ==
    ASSUME SlotInv, NEW t \in Threads, NEW why \in Reasons, NEW s, Running(t),
           FailWith(t, why),
           s \in {"empty"} \cup Violations,
           slot' = [slot EXCEPT ![t] = s], first' = [first EXCEPT ![t] = s],
           UNCHANGED << depth, told >>
    PROVE  SlotInv'
<1> DEFINE c == Append(Front(calls[t]), why)
<1>1. /\ calls[t] \in Seq(Reasons) /\ calls[t] # << >>
      /\ calls \in [Threads -> Seq(Reasons)]
      /\ slot \in [Threads -> {"empty"} \cup Violations]
      /\ first \in [Threads -> {"empty"} \cup Violations]
      BY DEF SlotInv, TypeOK, Running
<1>2. c \in Seq(Reasons) /\ Len(c) = Len(calls[t]) /\ c # << >>
      BY <1>1, ReplaceType
<1>3. calls' = [calls EXCEPT ![t] = c]
      BY DEF FailWith
<1> HIDE DEF c
<1>4. TypeOK'
      BY <1>1, <1>2, <1>3 DEF SlotInv, TypeOK
<1>5. NothingLeaks'
      BY <1>1, <1>2, <1>3 DEF SlotInv, NothingLeaks
<1>6. \A u \in Threads : Open(u)' => slot'[u] = first'[u]
      BY <1>1, <1>3 DEF SlotInv, Open
<1>7. FirstViolationIsReported'
      BY DEF SlotInv, FirstViolationIsReported
<1> QED BY <1>4, <1>5, <1>6, <1>7 DEF SlotInv, Open

\* What is left open once the innermost decode has failed.
LEMMA CallersType ==
    ASSUME NEW t \in Threads, calls[t] \in Seq(Reasons), calls[t] # << >>,
           NEW why \in Reasons, NEW outer \in Callers(t, why)
    PROVE  outer \in Seq(Reasons) /\ Len(outer) = Len(calls[t]) - 1
<1> DEFINE o == Front(calls[t])
<1>1. o \in Seq(Reasons) /\ Len(o) = Len(calls[t]) - 1
      BY PopType
<1>2. CASE o = << >>
  <2>1. outer = o
        BY <1>2 DEF Callers
  <2> QED BY <1>1, <2>1
<1>3. CASE o # << >>
  <2>1. outer = Append(Front(o), why) \/ outer = o
        BY <1>3 DEF Callers
  <2> HIDE DEF o
  <2>2. Append(Front(o), why) \in Seq(Reasons) /\ Len(Append(Front(o), why)) = Len(o)
        BY <1>1, <1>3, ReplaceType
  <2> QED BY <1>1, <2>1, <2>2
<1> QED BY <1>2, <1>3

\* The innermost decode ends: outer stays open.
LEMMA EndSlot ==
    ASSUME SlotInv, NEW t \in Threads, Open(t),
           NEW outer \in Seq(Reasons), Len(outer) = Len(calls[t]) - 1,
           calls' = [calls EXCEPT ![t] = outer],
           NEW s, s = slot[t] \/ (s = "empty" /\ depth[t] <= 1),
           NEW r \in Reports, End(t, s, r),
           Last(calls[t]) # "running" =>
             r = IF slot[t] = "empty" THEN "MalformedWire" ELSE slot[t]
    PROVE  SlotInv'
<1>1. /\ calls[t] \in Seq(Reasons) /\ depth[t] \in Nat /\ depth[t] = Len(calls[t])
      /\ calls \in [Threads -> Seq(Reasons)] /\ depth \in [Threads -> Nat]
      /\ slot \in [Threads -> {"empty"} \cup Violations]
      /\ first \in [Threads -> {"empty"} \cup Violations]
      /\ slot[t] = first[t]
      BY DEF SlotInv, TypeOK, NothingLeaks, Open
<1>2. depth[t] >= 1 /\ Last(calls[t]) \in Reasons
      BY <1>1, PopType DEF Open
<1> DEFINE report == [why |-> Last(calls[t]), first |-> first[t], report |-> r]
<1>3. /\ depth' = [depth EXCEPT ![t] = depth[t] - 1]
      /\ slot' = [slot EXCEPT ![t] = AfterDrop(depth[t], s)]
      /\ told' = [told EXCEPT ![t] = report]
      /\ first' = first
  <2>1. DepthAfterDrop(depth[t]) = depth[t] - 1
        BY <1>1, <1>2 DEF DepthAfterDrop
  <2> QED BY <2>1 DEF End
<1>4. AfterDrop(depth[t], s) = IF depth[t] = 1 THEN "empty" ELSE slot[t]
      BY <1>1, <1>2 DEF AfterDrop, DepthAfterDrop
<1>5. outer = << >> <=> depth[t] = 1
  <2>1. outer = << >> <=> Len(outer) = 0
        BY EmptySeq
  <2> QED BY <1>1, <2>1
<1>6. report \in [why : Reasons, first : {"empty"} \cup Violations, report : Reports]
      BY <1>1, <1>2
<1>7. report.why = Last(calls[t]) /\ report.first = first[t] /\ report.report = r
      OBVIOUS
<1> HIDE DEF report
<1>8. TypeOK'
  <2>1. depth' \in [Threads -> Nat] /\ slot' \in [Threads -> {"empty"} \cup Violations]
        BY <1>1, <1>2, <1>3, <1>4
  <2>2. calls' \in [Threads -> Seq(Reasons)]
        BY <1>1
  <2>3. told' \in [Threads -> [why : Reasons, first : {"empty"} \cup Violations,
                               report : Reports]]
        BY <1>3, <1>6 DEF SlotInv, TypeOK
  <2> QED BY <1>1, <1>3, <2>1, <2>2, <2>3 DEF TypeOK
<1>9. NothingLeaks'
      BY <1>1, <1>3, <1>4, <1>5 DEF SlotInv, NothingLeaks
<1>10. \A u \in Threads : Open(u)' => slot'[u] = first'[u]
       BY <1>1, <1>3, <1>4, <1>5 DEF SlotInv, Open
<1>11. FirstViolationIsReported'
       BY <1>1, <1>3, <1>7 DEF SlotInv, TypeOK, FirstViolationIsReported
<1> QED BY <1>8, <1>9, <1>10, <1>11 DEF SlotInv, Open

\* Every step keeps the invariant of the slot.
LEMMA SlotStep == SlotInv /\ [Next]_vars => SlotInv'
<1> SUFFICES ASSUME SlotInv, [Next]_vars PROVE SlotInv'
    OBVIOUS
<1>1. /\ slot \in [Threads -> {"empty"} \cup Violations]
      /\ calls \in [Threads -> Seq(Reasons)] /\ depth \in [Threads -> Nat]
      /\ first \in [Threads -> {"empty"} \cup Violations]
      /\ \A t \in Threads : depth[t] = Len(calls[t])
      /\ \A t \in Threads : Open(t) => slot[t] = first[t]
      BY DEF SlotInv, TypeOK, NothingLeaks
<1>2. ASSUME NEW t \in Threads, NEW v \in Violations, Violate(t, v) PROVE SlotInv'
  <2> DEFINE s == Recorded(slot[t], v)
  <2>1. Running(t) /\ FailWith(t, v) /\ v \in Reasons
        BY <1>2 DEF Violate, Reasons
  <2>2. s \in {"empty"} \cup Violations
        BY <1>1 DEF Recorded
  <2>3. slot' = [slot EXCEPT ![t] = s] /\ first' = [first EXCEPT ![t] = s]
        BY <1>1, <1>2, <2>1 DEF Violate, Recorded, Open, Running
  <2>4. UNCHANGED << depth, told >>
        BY <1>2 DEF Violate
  <2> HIDE DEF s
  <2> QED BY <2>1, <2>2, <2>3, <2>4, FailSlot
<1>3. ASSUME NEW t \in Threads, Malformed(t) PROVE SlotInv'
  <2>1. Running(t) /\ FailWith(t, "malformed") /\ "malformed" \in Reasons
        BY <1>3 DEF Malformed, Reasons
  <2>2. slot' = [slot EXCEPT ![t] = slot[t]] /\ first' = [first EXCEPT ![t] = slot[t]]
        BY <1>1, <1>3, <2>1 DEF Malformed, Open, Running
  <2>3. slot[t] \in {"empty"} \cup Violations
        BY <1>1
  <2> QED BY <1>3, <2>1, <2>2, <2>3, FailSlot DEF Malformed
<1>4. ASSUME NEW t \in Threads, EndFailed(t) PROVE SlotInv'
  <2> DEFINE s == AfterTake(depth[t], slot[t])
             r == IF slot[t] = "empty" THEN "MalformedWire" ELSE slot[t]
  <2>1. Open(t) /\ End(t, s, r)
        BY <1>4 DEF EndFailed, Failing, Open
  <2>2. PICK outer \in Callers(t, Last(calls[t])) : calls' = [calls EXCEPT ![t] = outer]
        BY <1>4 DEF EndFailed
  <2>3. calls[t] \in Seq(Reasons) /\ Last(calls[t]) \in Reasons
        BY <1>1, <2>1, PopType DEF Open
  <2>4. outer \in Seq(Reasons) /\ Len(outer) = Len(calls[t]) - 1
        BY <2>1, <2>2, <2>3, CallersType DEF Open
  <2>5. s = slot[t] \/ (s = "empty" /\ depth[t] <= 1)
        BY DEF AfterTake
  <2>6. r \in Reports
        BY <1>1 DEF Reports
  <2> HIDE DEF s
  <2> QED BY <2>1, <2>2, <2>4, <2>5, <2>6, EndSlot
<1>5. ASSUME NEW t \in Threads, EndDecoded(t) PROVE SlotInv'
  <2>1. Open(t) /\ Last(calls[t]) = "running" /\ calls[t] \in Seq(Reasons)
        BY <1>1, <1>5 DEF EndDecoded, Running, Open
  <2>2. CASE calls' = [calls EXCEPT ![t] = Front(calls[t])] /\ End(t, slot[t], "Ok")
    <3>1. Front(calls[t]) \in Seq(Reasons) /\ Len(Front(calls[t])) = Len(calls[t]) - 1
          BY <2>1, PopType DEF Open
    <3>2. "Ok" \in Reports
          BY DEF Reports
    <3> QED BY <2>1, <2>2, <3>1, <3>2, EndSlot
  <2>3. ASSUME NEW outer \in Callers(t, "malformed"),
               calls' = [calls EXCEPT ![t] = outer], End(t, slot[t], "TrailingBytes")
        PROVE  SlotInv'
    <3>1. "malformed" \in Reasons /\ "TrailingBytes" \in Reports
          BY DEF Reasons, Reports
    <3>2. outer \in Seq(Reasons) /\ Len(outer) = Len(calls[t]) - 1
          BY <2>1, <3>1, CallersType DEF Open
    <3> QED BY <2>1, <2>3, <3>1, <3>2, EndSlot
  <2> QED BY <1>5, <2>2, <2>3 DEF EndDecoded
<1>6. ASSUME NEW t \in Threads, Panic(t) PROVE SlotInv'
  <2> DEFINE p == [why |-> "running", first |-> first[t], report |-> "panicked"]
  <2>1. /\ calls' = [calls EXCEPT ![t] = << >>]
        /\ depth' = [depth EXCEPT ![t] = 0]
        /\ slot' = [slot EXCEPT ![t] = "empty"]
        /\ told' = [told EXCEPT ![t] = p] /\ first' = first
    <3>1. Len(calls[t]) \in Nat /\ depth[t] = Len(calls[t])
          BY <1>1
    <3> QED BY <1>6, <3>1 DEF Panic
  <2>2. p \in [why : Reasons, first : {"empty"} \cup Violations, report : Reports]
        BY <1>1 DEF Reasons, Reports
  <2>3. p.why = "running"
        OBVIOUS
  <2> HIDE DEF p
  <2>4. << >> \in Seq(Reasons) /\ Len(<< >>) = 0
        BY EmptySeq
  <2>5. TypeOK'
        BY <1>1, <2>1, <2>2, <2>4 DEF SlotInv, TypeOK
  <2>6. NothingLeaks' /\ \A u \in Threads : Open(u)' => slot'[u] = first'[u]
        BY <1>1, <2>1, <2>4 DEF SlotInv, NothingLeaks, Open
  <2>7. FirstViolationIsReported'
        BY <2>1, <2>3 DEF SlotInv, TypeOK, FirstViolationIsReported
  <2> QED BY <2>5, <2>6, <2>7 DEF SlotInv, Open
<1>7. CASE UNCHANGED vars
      BY <1>7 DEF SlotInv, TypeOK, NothingLeaks, Open, FirstViolationIsReported, vars
<1> QED BY <1>2, <1>3, <1>4, <1>5, <1>6, <1>7, BeginSlot DEF Next

\* However decodes nest, fail, leave bytes over or panic: a thread with no
\* decode open is at depth 0 with an empty slot.
THEOREM ChannelIsClean == Spec => []NothingLeaks
<1>1. SlotInv => NothingLeaks
      BY DEF SlotInv
<1> QED BY <1>1, SlotInit, SlotStep, PTL DEF Spec

\* Whatever visitors do with nested failures, a failing decode reports the
\* first violation its thread recorded since the outermost decode began.
THEOREM FirstViolationWins == Spec => []FirstViolationIsReported
<1>1. SlotInv => FirstViolationIsReported
      BY DEF SlotInv
<1> QED BY <1>1, SlotInit, SlotStep, PTL DEF Spec

-----------------------------------------------------------------------------
(***************************************************************************)
(* When visitors pass failures on, a failure unwinds the whole nesting     *)
(***************************************************************************)
\* Only the innermost decode can be failing.
OthersRun(c) == \A i \in 1..(Len(c) - 1) : c[i] = "running"

\* What the slot holds follows from the innermost decode.
SlotOf(c) == IF Last(c) \in Violations THEN Last(c) ELSE "empty"

Unwinding(t) == OthersRun(calls[t]) /\ (Open(t) => slot[t] = SlotOf(calls[t]))

CauseInv == (\A t \in Threads : Unwinding(t)) /\ ReportIsTheCause

\* The invariant of the cause holds initially.
LEMMA CauseInit == Init => CauseInv
<1>1. Len(<< >>) = 0
      BY EmptySeq
<1> QED BY <1>1 DEF Init, CauseInv, Unwinding, OthersRun, Open, ReportIsTheCause,
                    NothingTold

\* Pushing a decode, and replacing the innermost one, keep OthersRun.
LEMMA PushRuns ==
    ASSUME NEW c \in Seq(Reasons), OthersRun(c), c = << >> \/ Last(c) = "running"
    PROVE  OthersRun(Append(c, "running")) /\ Last(Append(c, "running")) = "running"
<1> DEFINE a == Append(c, "running")
<1>1. "running" \in Reasons
      BY DEF Reasons
<1>2. /\ Len(a) = Len(c) + 1 /\ a[Len(c) + 1] = "running" /\ Len(c) \in Nat
      /\ \A i \in 1..Len(c) : a[i] = c[i]
      BY <1>1, AppendProperties
<1>3. c = << >> => Len(c) = 0
      BY EmptySeq
<1>4. c # << >> => c[Len(c)] = "running"
      BY DEF Last
<1> HIDE DEF a
<1>5. \A i \in 1..Len(c) : c[i] = "running"
      BY <1>2, <1>3, <1>4 DEF OthersRun
<1>6. OthersRun(a)
      BY <1>2, <1>5 DEF OthersRun
<1>7. Last(a) = "running"
      BY <1>2 DEF Last
<1> QED BY <1>6, <1>7 DEF a

\* Replacing the innermost open decode leaves those around it running.
LEMMA ReplaceRuns ==
    ASSUME NEW c \in Seq(Reasons), c # << >>, OthersRun(c), NEW x \in Reasons
    PROVE  OthersRun(Append(Front(c), x)) /\ Last(Append(Front(c), x)) = x
BY ReplaceType DEF OthersRun

\* Removing the innermost open decode leaves those around it running.
LEMMA PopRuns ==
    ASSUME NEW c \in Seq(Reasons), c # << >>, OthersRun(c)
    PROVE  /\ OthersRun(Front(c))
           /\ Front(c) # << >> => Last(Front(c)) = "running"
<1> DEFINE f == Front(c)
<1>1. /\ f \in Seq(Reasons) /\ Len(f) = Len(c) - 1 /\ Len(c) \in Nat
      /\ \A i \in 1..Len(f) : f[i] = c[i]
      BY PopType
<1>2. f # << >> => Len(f) \in Nat /\ Len(f) >= 1
      BY <1>1, EmptySeq
<1> HIDE DEF f
<1>3. OthersRun(f) /\ (f # << >> => Last(f) = "running")
      BY <1>1, <1>2 DEF OthersRun, Last
<1> QED BY <1>3 DEF f

\* What is open once the innermost decode has failed for why.
LEMMA CallersRun ==
    ASSUME Swallowing = FALSE, NEW t \in Threads, calls[t] \in Seq(Reasons),
           Open(t), OthersRun(calls[t]),
           NEW why \in Reasons, NEW outer \in Callers(t, why)
    PROVE  OthersRun(outer) /\ (outer # << >> => Last(outer) = why)
<1> DEFINE o == Front(calls[t])
<1>1. o \in Seq(Reasons) /\ OthersRun(o)
      BY PopRuns, PopType DEF Open
<1>2. CASE o = << >>
  <2>1. outer = o /\ outer = << >>
        BY <1>2 DEF Callers
  <2> QED BY <1>1, <2>1
<1>3. CASE o # << >>
  <2>1. outer = Append(Front(o), why)
        BY <1>3 DEF Callers
  <2> HIDE DEF o
  <2> QED BY <1>1, <1>3, <2>1, ReplaceRuns
<1> QED BY <1>2, <1>3

\* The innermost decode of t ends: what is left open goes on or fails.
LEMMA EndCause ==
    ASSUME SlotInv, CauseInv, NEW t \in Threads, Open(t),
           NEW outer \in Seq(Reasons), Len(outer) = Len(calls[t]) - 1,
           OthersRun(outer), calls' = [calls EXCEPT ![t] = outer],
           outer # << >> => SlotOf(outer) = slot[t],
           NEW s, s = slot[t] \/ (s = "empty" /\ depth[t] <= 1),
           NEW r, End(t, s, r),
           Last(calls[t]) # "running" =>
             r = IF slot[t] = "empty" THEN "MalformedWire" ELSE slot[t]
    PROVE  CauseInv'
<1>1. /\ calls \in [Threads -> Seq(Reasons)] /\ depth[t] \in Nat
      /\ depth[t] = Len(calls[t]) /\ slot \in [Threads -> {"empty"} \cup Violations]
      /\ slot[t] = SlotOf(calls[t]) /\ Last(calls[t]) \in Reasons
      BY PopType DEF SlotInv, TypeOK, NothingLeaks, CauseInv, Unwinding, Open
<1>2. outer # << >> => depth[t] > 1
  <2>1. outer # << >> => Len(outer) \in Nat /\ Len(outer) >= 1
        BY EmptySeq
  <2> QED BY <1>1, <2>1
<1>3. outer # << >> => AfterDrop(depth[t], s) = slot[t]
  <2> SUFFICES ASSUME outer # << >> PROVE AfterDrop(depth[t], s) = slot[t]
      OBVIOUS
  <2>1. depth[t] > 1 /\ s = slot[t]
        BY <1>1, <1>2
  <2>2. DepthAfterDrop(depth[t]) # 0
        BY <1>1, <2>1, SMTT(30) DEF DepthAfterDrop
  <2> QED BY <2>1, <2>2 DEF AfterDrop
<1> DEFINE report == [why |-> Last(calls[t]), first |-> first[t], report |-> r]
<1>4. /\ slot' = [slot EXCEPT ![t] = AfterDrop(depth[t], s)]
      /\ told' = [told EXCEPT ![t] = report]
      BY DEF End
<1>5. report.why = Last(calls[t]) /\ report.report = r
      OBVIOUS
<1> HIDE DEF report
<1>6. ASSUME NEW u \in Threads PROVE Unwinding(u)'
  <2>1. CASE u = t
        BY <1>1, <1>3, <1>4, <2>1 DEF Unwinding, Open
  <2>2. CASE u # t
        BY <1>1, <1>4, <2>2 DEF CauseInv, Unwinding, Open
  <2> QED BY <2>1, <2>2
<1>7. Last(calls[t]) # "running" =>
        r = IF Last(calls[t]) = "malformed" THEN "MalformedWire" ELSE Last(calls[t])
      BY <1>1, Disjoint DEF SlotOf, Reasons
<1>8. ReportIsTheCause'
      BY <1>4, <1>5, <1>7 DEF SlotInv, TypeOK, CauseInv, ReportIsTheCause
<1> QED BY <1>6, <1>8 DEF CauseInv

\* The innermost decode of t fails for a reason of its own.
LEMMA FailCause ==
    ASSUME SlotInv, CauseInv, NEW t \in Threads, NEW why \in Reasons, Running(t),
           FailWith(t, why), UNCHANGED told,
           slot' = [slot EXCEPT ![t] = IF why \in Violations THEN why ELSE "empty"]
    PROVE  CauseInv'
<1> DEFINE c == Append(Front(calls[t]), why)
<1>1. /\ calls \in [Threads -> Seq(Reasons)] /\ calls[t] # << >>
      /\ slot \in [Threads -> {"empty"} \cup Violations] /\ OthersRun(calls[t])
      BY DEF SlotInv, TypeOK, Running, CauseInv, Unwinding
<1>2. OthersRun(c) /\ Last(c) = why
      BY <1>1, ReplaceRuns
<1>3. calls' = [calls EXCEPT ![t] = c]
      BY DEF FailWith
<1> HIDE DEF c
<1>4. ASSUME NEW u \in Threads PROVE Unwinding(u)'
  <2>1. CASE u = t
        BY <1>1, <1>2, <1>3, <2>1 DEF Unwinding, Open, SlotOf
  <2>2. CASE u # t
        BY <1>1, <1>3, <2>2 DEF CauseInv, Unwinding, Open
  <2> QED BY <2>1, <2>2
<1> QED BY <1>4 DEF CauseInv, ReportIsTheCause

\* Every step keeps the invariant of the cause.
LEMMA CauseStep ==
    ASSUME Swallowing = FALSE
    PROVE  SlotInv /\ CauseInv /\ [Next]_vars => CauseInv'
<1> SUFFICES ASSUME SlotInv, CauseInv, [Next]_vars PROVE CauseInv'
    OBVIOUS
<1>1. /\ slot \in [Threads -> {"empty"} \cup Violations]
      /\ calls \in [Threads -> Seq(Reasons)] /\ depth \in [Threads -> Nat]
      /\ \A t \in Threads : depth[t] = Len(calls[t])
      /\ \A t \in Threads : Unwinding(t)
      BY DEF SlotInv, TypeOK, NothingLeaks, CauseInv
<1>2. ASSUME NEW t \in Threads, Running(t)
      PROVE  /\ slot[t] = "empty" /\ Open(t) /\ Last(calls[t]) = "running"
             /\ OthersRun(calls[t]) /\ calls[t] \in Seq(Reasons)
      BY <1>1, <1>2, Disjoint DEF Running, Unwinding, Open, SlotOf
<1>3. ASSUME NEW t \in Threads, Begin(t) PROVE CauseInv'
  <2> DEFINE c == Append(calls[t], "running")
  <2>1. calls[t] = << >> \/ Running(t)
        BY <1>3 DEF Begin
  <2>2. calls[t] # << >> => slot[t] = "empty"
        BY <1>2, <2>1
  <2>3. OthersRun(c) /\ Last(c) = "running"
        BY <1>1, <1>2, <2>1, PushRuns DEF Unwinding
  <2>4. calls[t] = << >> => depth[t] = 0
        BY <1>1, EmptySeq
  <2>5. AfterEnter(depth[t], slot[t]) = "empty"
        BY <2>2, <2>4 DEF AfterEnter
  <2>6. /\ calls' = [calls EXCEPT ![t] = c] /\ told' = told
        /\ slot' = [slot EXCEPT ![t] = "empty"]
        BY <1>3, <2>5 DEF Begin
  <2> HIDE DEF c
  <2>7. ASSUME NEW u \in Threads PROVE Unwinding(u)'
        BY <1>1, <2>3, <2>6, Disjoint DEF Unwinding, Open, SlotOf
  <2> QED BY <2>6, <2>7 DEF CauseInv, ReportIsTheCause
<1>4. ASSUME NEW t \in Threads, NEW v \in Violations, Violate(t, v) PROVE CauseInv'
  <2>1. Running(t) /\ FailWith(t, v) /\ told' = told /\ v \in Reasons
        BY <1>4 DEF Violate, Reasons
  <2>2. slot' = [slot EXCEPT ![t] = v]
        BY <1>2, <1>4, <2>1 DEF Violate, Recorded
  <2> QED BY <2>1, <2>2, FailCause
<1>5. ASSUME NEW t \in Threads, Malformed(t) PROVE CauseInv'
  <2>1. /\ Running(t) /\ FailWith(t, "malformed") /\ told' = told
        /\ "malformed" \in Reasons
        BY <1>5 DEF Malformed, Reasons
  <2>2. slot' = [slot EXCEPT ![t] = "empty"]
        BY <1>1, <1>2, <1>5, <2>1 DEF Malformed
  <2> QED BY <2>1, <2>2, FailCause, Disjoint
<1>6. ASSUME NEW t \in Threads, EndFailed(t) PROVE CauseInv'
  <2> DEFINE s == AfterTake(depth[t], slot[t])
             r == IF slot[t] = "empty" THEN "MalformedWire" ELSE slot[t]
             w == Last(calls[t])
  <2>1. Open(t) /\ End(t, s, r)
        BY <1>6 DEF EndFailed, Failing, Open
  <2>2. PICK outer \in Callers(t, w) : calls' = [calls EXCEPT ![t] = outer]
        BY <1>6 DEF EndFailed
  <2>3. /\ calls[t] \in Seq(Reasons) /\ w \in Reasons /\ OthersRun(calls[t])
        /\ slot[t] = SlotOf(calls[t])
        BY <1>1, <2>1, PopType DEF Open, Unwinding
  <2>4. outer \in Seq(Reasons) /\ Len(outer) = Len(calls[t]) - 1
        BY <2>1, <2>2, <2>3, CallersType DEF Open
  <2>5. OthersRun(outer) /\ (outer # << >> => Last(outer) = w)
        BY <2>1, <2>2, <2>3, CallersRun
  <2>6. outer # << >> => SlotOf(outer) = slot[t]
        BY <2>3, <2>5 DEF SlotOf
  <2>7. s = slot[t] \/ (s = "empty" /\ depth[t] <= 1)
        BY DEF AfterTake
  <2> HIDE DEF s
  <2> QED BY <2>1, <2>2, <2>4, <2>5, <2>6, <2>7, EndCause
<1>7. ASSUME NEW t \in Threads, EndDecoded(t) PROVE CauseInv'
  <2>1. /\ Open(t) /\ Last(calls[t]) = "running" /\ calls[t] \in Seq(Reasons)
        /\ slot[t] = "empty" /\ OthersRun(calls[t])
        BY <1>2, <1>7 DEF EndDecoded
  <2>2. CASE calls' = [calls EXCEPT ![t] = Front(calls[t])] /\ End(t, slot[t], "Ok")
    <3> DEFINE o == Front(calls[t])
    <3>1. o \in Seq(Reasons) /\ Len(o) = Len(calls[t]) - 1
          BY <2>1, PopType DEF Open
    <3>2. OthersRun(o) /\ (o # << >> => Last(o) = "running")
          BY <2>1, PopRuns DEF Open
    <3>3. o # << >> => SlotOf(o) = slot[t]
          BY <2>1, <3>2, Disjoint DEF SlotOf
    <3> HIDE DEF o
    <3> QED BY <2>1, <2>2, <3>1, <3>2, <3>3, EndCause DEF o
  <2>3. ASSUME NEW outer \in Callers(t, "malformed"),
               calls' = [calls EXCEPT ![t] = outer], End(t, slot[t], "TrailingBytes")
        PROVE  CauseInv'
    <3>1. "malformed" \in Reasons
          BY DEF Reasons
    <3>2. outer \in Seq(Reasons) /\ Len(outer) = Len(calls[t]) - 1
          BY <2>1, <3>1, CallersType DEF Open
    <3>3. OthersRun(outer) /\ (outer # << >> => Last(outer) = "malformed")
          BY <2>1, <3>1, CallersRun
    <3>4. outer # << >> => SlotOf(outer) = slot[t]
          BY <2>1, <3>3, Disjoint DEF SlotOf
    <3> QED BY <2>1, <2>3, <3>2, <3>3, <3>4, EndCause
  <2> QED BY <1>7, <2>2, <2>3 DEF EndDecoded
<1>8. ASSUME NEW t \in Threads, Panic(t) PROVE CauseInv'
  <2> DEFINE p == [why |-> "running", first |-> first[t], report |-> "panicked"]
  <2>1. /\ calls' = [calls EXCEPT ![t] = << >>] /\ told' = [told EXCEPT ![t] = p]
        /\ \A u \in Threads \ {t} : slot'[u] = slot[u]
        BY <1>1, <1>8 DEF Panic
  <2>2. p.why = "running"
        OBVIOUS
  <2> HIDE DEF p
  <2>3. Len(<< >>) = 0
        BY EmptySeq
  <2>4. ASSUME NEW u \in Threads PROVE Unwinding(u)'
    <3>1. CASE u = t
          BY <1>1, <2>1, <2>3, <3>1 DEF Unwinding, OthersRun, Open
    <3>2. CASE u # t
          BY <1>1, <2>1, <3>2 DEF Unwinding, Open
    <3> QED BY <3>1, <3>2
  <2>5. ReportIsTheCause'
        BY <2>1, <2>2 DEF SlotInv, TypeOK, CauseInv, ReportIsTheCause
  <2> QED BY <2>4, <2>5 DEF CauseInv
<1>9. CASE UNCHANGED vars
      BY <1>9 DEF CauseInv, Unwinding, Open, ReportIsTheCause, vars
<1> QED BY <1>3, <1>4, <1>5, <1>6, <1>7, <1>8, <1>9 DEF Next

\* When visitors pass failures on, as every type of the repository does, each
\* decode, nested or not, reports the very reason for which it failed.
THEOREM CauseIsReported ==
    ASSUME Swallowing = FALSE
    PROVE  Spec => []ReportIsTheCause
<1>1. CauseInv => ReportIsTheCause
      BY DEF CauseInv
<1>2. SlotInv /\ CauseInv /\ [Next]_vars => CauseInv'
      BY CauseStep
<1> QED BY <1>1, <1>2, SlotInit, SlotStep, CauseInit, PTL DEF Spec

-----------------------------------------------------------------------------
(***************************************************************************)
(* The memory of a bounded decode. The strengthening relates the list to   *)
(* what was decoded and its capacity to its length: only a full list       *)
(* doubles.                                                                *)
(***************************************************************************)
Typed ==
  /\ opaque \in BOOLEAN
  /\ declared \in Nat /\ left \in Nat
  /\ phase \in {"begin", "elements", "ok", "failed"}
  /\ items \in Nat /\ decoded \in Nat /\ capacity \in Nat /\ copied \in Nat
  /\ violation = <<>> \/ violation \in Nat \X Nat

\* Until it fails the list holds every element decoded; before it begins there
\* are none.
Kept ==
  /\ items <= decoded /\ decoded <= declared
  /\ phase = "begin" => decoded = 0 /\ capacity = 0
  /\ phase # "failed" => items = decoded /\ violation = <<>>
  /\ phase = "ok" => decoded = declared

\* The capacity follows the length of the list.
Room == /\ items <= capacity
        /\ capacity <= 4 \/ capacity <= 2 * items
        /\ capacity > 0 => items > 0

\* An excess that can be seen gets no further than the beginning.
Refused == opaque /\ declared > N /\ phase # "begin" =>
             phase = "failed" /\ decoded = 0 /\ violation = <<declared, N>>

Bounded == /\ items <= N /\ decoded <= N + 1
           /\ phase # "failed" => decoded <= N
           /\ copied <= decoded * M
           /\ violation # <<>> => phase = "failed" /\ violation[1] > violation[2]

DecodeInv == Typed /\ Kept /\ Room /\ Refused /\ Bounded

LEMMA DecodeInvInit == DecodeInit => DecodeInv
  BY BoundsAssumption DEF DecodeInit, DecodeInv, Typed, Kept, Room, Refused, Bounded

\* One more byte string within its bound.
LEMMA CopiedStep ==
  ASSUME NEW c \in Nat, NEW d \in Nat, NEW m \in Nat, NEW len \in Nat,
         c <= d * m, len <= m
  PROVE  c + len <= (d + 1) * m
<1>1. (d + 1) * m = d * m + m
  OBVIOUS
<1>2. d * m \in Nat
  OBVIOUS
<1> QED
  BY <1>1, <1>2

LEMMA VisitSeqStep == DecodeInv /\ VisitSeq => DecodeInv'
<1> SUFFICES ASSUME DecodeInv, VisitSeq PROVE DecodeInv'
  OBVIOUS
<1> USE BoundsAssumption DEF VisitSeq, Fails
<1>1. Typed' /\ Kept' /\ Room'
  <2>1. CASE Hint /\ declared > N
    <3>1. phase' = "failed" /\ violation' = <<declared, N>>
      BY <2>1
    <3>2. <<declared, N>> \in Nat \X Nat
      BY DEF DecodeInv, Typed
    <3>3. Typed'
      BY <3>1, <3>2 DEF DecodeInv, Typed
    <3>4. Kept' /\ Room'
      BY <3>1 DEF DecodeInv, Typed, Kept, Room
    <3> QED
      BY <3>3, <3>4
  <2>2. CASE ~(Hint /\ declared > N)
    BY <2>2 DEF DecodeInv, Typed, Kept, Room
  <2> QED
    BY <2>1, <2>2
<1>2. Refused'
  BY DEF DecodeInv, Typed, Kept, Refused, Hint
<1>3. Bounded'
  <2>1. decoded = 0 /\ items = 0 /\ violation = <<>>
    BY DEF DecodeInv, Typed, Kept
  <2>2. items' <= N /\ decoded' <= N + 1 /\ decoded' <= N
    BY <2>1
  <2>3. copied' <= decoded' * M
    BY DEF DecodeInv, Bounded
  <2>4. violation' # <<>> => phase' = "failed" /\ violation'[1] > violation'[2]
    BY <2>1
  <2> QED
    BY <2>2, <2>3, <2>4 DEF Bounded
<1> QED
  BY <1>1, <1>2, <1>3 DEF DecodeInv

LEMMA ElementStep == ASSUME NEW len \in Declarable, DecodeInv, Element(len) PROVE DecodeInv'
<1> USE BoundsAssumption DEF Element, Lent, Fails
<1>1. len \in Nat /\ decoded + 1 \in Nat
  BY DEF DecodeInv, Typed
<1>2. copied' <= decoded' * M
  <2>1. copied <= decoded * M /\ copied \in Nat /\ decoded \in Nat /\ M \in Nat
    BY DEF DecodeInv, Typed, Bounded
  <2>2. copied + len <= (decoded + 1) * M
    BY <1>1, <2>1, CopiedStep
  <2> QED
    BY <2>2
<1>3. CASE items >= N
  BY <1>1, <1>2, <1>3 DEF DecodeInv, Typed, Kept, Room, Refused, Bounded
<1>4. CASE items < N
  <2>1. capacity' \in Nat /\ Room'
    BY <1>4 DEF DecodeInv, Typed, Kept, Room, Grown
  <2>2. Typed' /\ Kept' /\ Refused' /\ Bounded'
    BY <1>1, <1>2, <1>4, <2>1 DEF DecodeInv, Typed, Kept, Refused, Bounded
  <2> QED
    BY <2>1, <2>2 DEF DecodeInv
<1> QED
  BY <1>3, <1>4 DEF DecodeInv, Typed

LEMMA TooLongStep == ASSUME NEW len \in Declarable, DecodeInv, TooLong(len) PROVE DecodeInv'
  BY BoundsAssumption
  DEF DecodeInv, Typed, Kept, Room, Refused, Bounded, TooLong, Lent, Fails

LEMMA EndStep == DecodeInv /\ (MalformedElement \/ Finish) => DecodeInv'
  BY BoundsAssumption, SMTT(30)
  DEF DecodeInv, Typed, Kept, Room, Refused, Bounded, MalformedElement, Finish, Fails

LEMMA DecodeInvNext == DecodeInv /\ [DecodeNext]_decodeVars => DecodeInv'
<1> SUFFICES ASSUME DecodeInv, [DecodeNext]_decodeVars PROVE DecodeInv'
  OBVIOUS
<1>1. CASE UNCHANGED decodeVars
  BY <1>1 DEF decodeVars, DecodeInv, Typed, Kept, Room, Refused, Bounded
<1>2. CASE VisitSeq
  BY <1>2, VisitSeqStep
<1>3. CASE MalformedElement \/ Finish
  BY <1>3, EndStep
<1>4. ASSUME NEW len \in Declarable, Element(len) \/ TooLong(len) PROVE DecodeInv'
  BY <1>4, ElementStep, TooLongStep
<1> QED
  BY <1>1, <1>2, <1>3, <1>4 DEF DecodeNext

LEMMA DecodeInvHolds == DecodeSpec => []DecodeInv
  BY DecodeInvInit, DecodeInvNext, PTL DEF DecodeSpec

\* What is allocated follows what was decoded, whatever the input declares.
THEOREM MemoryIsBounded == DecodeSpec => []MemoryFollowsInput
<1>1. DecodeInv => MemoryFollowsInput
  BY DEF DecodeInv, Typed, Kept, Room, Bounded, MemoryFollowsInput
<1> QED
  BY <1>1, DecodeInvHolds, PTL

\* No list beyond its bound is kept, nor decoded further than to see that.
THEOREM ExcessIsRefused == DecodeSpec => []ExcessIsRefusedEarly
<1>1. DecodeInv => ExcessIsRefusedEarly
  BY DEF DecodeInv, Typed, Kept, Refused, Bounded, ExcessIsRefusedEarly
<1> QED
  BY <1>1, DecodeInvHolds, PTL
=============================================================================
