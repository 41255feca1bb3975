--------------------------- MODULE ViolationChannel ---------------------------
(***************************************************************************)
(* The thread-local violation channel of crates/mw-proto/src/bounded.rs.   *)
(* postcard throws away the error a visitor raises, so a visitor that finds *)
(* a length over its bound leaves the detail in a slot of its thread, and   *)
(* the decode_exact() around it turns the bare failure into BoundExceeded.  *)
(* A visitor may itself call decode_exact(): a guard counts the nesting and *)
(* only the outermost decode clears the slot.                               *)
(*                                                                         *)
(* decode_exact() is generic in the type it decodes.  A visitor of that     *)
(* type passes the failure of a nested decode on (every type of the         *)
(* repository does) or, if Swallowing, may ignore it and go on.             *)
(***************************************************************************)
EXTENDS Integers, Sequences, SequencesExt

CONSTANTS Threads,
          Violations,   \* pairs of a declared value and its maximum
          Swallowing,   \* visitors may ignore a nested failure
          MaxNesting    \* bound: decodes open at once on a thread

ASSUME ViolationAssumption ==
    /\ Violations \cap {"empty", "running", "malformed", "Ok", "TrailingBytes",
                        "MalformedWire", "panicked"} = {}
    /\ Swallowing \in BOOLEAN
    /\ MaxNesting \in Nat \ {0}

VARIABLES
  depth,   \* SCOPE_DEPTH of each thread
  slot,    \* VIOLATION of each thread, "empty" for None
  calls,   \* the decodes open on each thread, innermost last: "running", or
           \* why this decode is failing
  first,   \* history: first violation recorded in the outermost decode
  told     \* history: why the last decode of the thread to end was failing,
           \* first at that time, and what it reported

vars == << depth, slot, calls, first, told >>

NothingTold == [why |-> "running", first |-> "empty", report |-> "Ok"]

Init ==
    /\ depth = [t \in Threads |-> 0]
    /\ slot  = [t \in Threads |-> "empty"]
    /\ calls = [t \in Threads |-> << >>]
    /\ first = [t \in Threads |-> "empty"]
    /\ told  = [t \in Threads |-> NothingTold]

-----------------------------------------------------------------------------
(***************************************************************************)
(* The slot                                                                *)
(***************************************************************************)
\* Bug: the last violation wins.
Bug_LastWins(s, v) == v

\* record_violation(): the first violation wins.
Recorded(s, v) == IF s = "empty" THEN v ELSE s

\* Bug: an inner decode clears the slot on its way in or out, as if alone.
Bug_EveryScopeClears(d, s) == "empty"

\* ViolationScope::enter() at depth d: the outermost scope clears the slot.
AfterEnter(d, s) == IF d + 1 = 1 THEN "empty" ELSE s

\* ViolationScope::take() at depth d: a nested reader only peeks.
AfterTake(d, s) == IF d <= 1 THEN "empty" ELSE s

\* Drop at depth d, with saturating_sub.
DepthAfterDrop(d) == IF d = 0 THEN 0 ELSE d - 1

AfterDrop(d, s) == IF DepthAfterDrop(d) = 0 THEN "empty" ELSE s

-----------------------------------------------------------------------------
(***************************************************************************)
(* decode_exact()                                                          *)
(***************************************************************************)
Running(t) == calls[t] # << >> /\ Last(calls[t]) = "running"
Failing(t) == calls[t] # << >> /\ Last(calls[t]) # "running"

\* The innermost decode of t fails for a reason.
FailWith(t, why) ==
    calls' = [calls EXCEPT ![t] = Append(Front(@), why)]

\* A decode begins: of a thread that has none open, or inside a visitor.
Begin(t) ==
    /\ calls[t] = << >> \/ Running(t)
    /\ Len(calls[t]) < MaxNesting
    /\ calls' = [calls EXCEPT ![t] = Append(@, "running")]
    /\ depth' = [depth EXCEPT ![t] = @ + 1]
    /\ slot'  = [slot  EXCEPT ![t] = AfterEnter(depth[t], @)]
    /\ first' = [first EXCEPT ![t] = IF calls[t] = << >> THEN "empty" ELSE @]
    /\ UNCHANGED told

\* Bug: one slot for the whole process.
Bug_SharedSlot(t, v) ==
    /\ Running(t)
    /\ FailWith(t, v)
    /\ slot'  = [u \in Threads |-> Recorded(slot[u], v)]
    /\ first' = [first EXCEPT ![t] = IF @ = "empty" THEN v ELSE @]
    /\ UNCHANGED << depth, told >>

\* A visitor finds a length over its bound: it records and fails.
Violate(t, v) ==
    /\ Running(t)
    /\ FailWith(t, v)
    /\ slot'  = [slot  EXCEPT ![t] = Recorded(@, v)]
    /\ first' = [first EXCEPT ![t] = IF @ = "empty" THEN v ELSE @]
    /\ UNCHANGED << depth, told >>

\* The input does not parse.
Malformed(t) ==
    /\ Running(t)
    /\ FailWith(t, "malformed")
    /\ UNCHANGED << depth, slot, first, told >>

\* The callers of the innermost decode of t once it ended with a failure:
\* the visitor around it passes on the reason, or swallows it.
Callers(t, why) ==
    LET outer == Front(calls[t])
    IN  IF outer = << >> THEN { << >> }
        ELSE {Append(Front(outer), why)}
             \cup (IF Swallowing THEN {outer} ELSE {})

\* The innermost decode ends having reported r, the slot being s by then: its
\* scope is dropped.
End(t, s, r) ==
    /\ depth' = [depth EXCEPT ![t] = DepthAfterDrop(@)]
    /\ slot'  = [slot  EXCEPT ![t] = AfterDrop(depth[t], s)]
    /\ told'  = [told  EXCEPT ![t] = [why    |-> Last(calls[t]),
                                      first  |-> first[t],
                                      report |-> r]]
    /\ UNCHANGED first

\* The Err arm: the slot tells a bound violation from a malformed input.
EndFailed(t) ==
    /\ Failing(t)
    /\ \E outer \in Callers(t, Last(calls[t])) : calls' = [calls EXCEPT ![t] = outer]
    /\ End(t, AfterTake(depth[t], slot[t]),
           IF slot[t] = "empty" THEN "MalformedWire" ELSE slot[t])

\* The value is decoded; bytes may be left over.
EndDecoded(t) ==
    /\ Running(t)
    /\ \/ /\ calls' = [calls EXCEPT ![t] = Front(@)]
          /\ End(t, slot[t], "Ok")
       \/ /\ \E outer \in Callers(t, "malformed") :
               calls' = [calls EXCEPT ![t] = outer]
          /\ End(t, slot[t], "TrailingBytes")

\* Bug: the scope is closed by the return path instead of a guard.
Bug_PanicSkipsDrop(t) ==
    /\ Running(t)
    /\ calls' = [calls EXCEPT ![t] = << >>]
    /\ told'  = [told EXCEPT ![t] = [why |-> "running", first |-> first[t],
                                     report |-> "panicked"]]
    /\ UNCHANGED << depth, slot, first >>

\* A visitor panics: unwinding drops every scope of the thread, which an
\* executor may go on using.
Panic(t) ==
    /\ Running(t)
    /\ calls' = [calls EXCEPT ![t] = << >>]
    /\ depth' = [depth EXCEPT ![t] = IF @ < Len(calls[t]) THEN 0
                                     ELSE @ - Len(calls[t])]
    /\ slot'  = [slot  EXCEPT ![t] = IF depth[t] <= Len(calls[t]) THEN "empty"
                                     ELSE @]
    /\ told'  = [told EXCEPT ![t] = [why |-> "running", first |-> first[t],
                                     report |-> "panicked"]]
    /\ UNCHANGED first

Next == \E t \in Threads :
           \/ Begin(t)
           \/ \E v \in Violations : Violate(t, v)
           \/ Malformed(t) \/ EndFailed(t) \/ EndDecoded(t) \/ Panic(t)

Spec == Init /\ [][Next]_vars

-----------------------------------------------------------------------------
(***************************************************************************)
(* Properties                                                              *)
(***************************************************************************)
Reasons == {"running", "malformed"} \cup Violations
Reports == {"Ok", "TrailingBytes", "MalformedWire", "panicked"} \cup Violations

TypeOK ==
    /\ depth \in [Threads -> Nat]
    /\ slot  \in [Threads -> {"empty"} \cup Violations]
    /\ calls \in [Threads -> Seq(Reasons)]
    /\ first \in [Threads -> {"empty"} \cup Violations]
    /\ told  \in [Threads -> [why : Reasons, first : {"empty"} \cup Violations,
                              report : Reports]]

\* A thread with no decode open has an empty slot at depth 0, after errors,
\* leftovers and panics at any nesting: no violation leaks into the next
\* decode on the thread, and no later decode takes itself for a nested one.
NothingLeaks ==
    \A t \in Threads : /\ depth[t] = Len(calls[t])
                       /\ calls[t] = << >> => slot[t] = "empty"

\* A failing decode, nested or not, reports the first violation recorded since
\* the outermost decode of its own thread began; MalformedWire only if there
\* was none (bounded.rs:66, 78-82).
FirstViolationIsReported ==
    \A t \in Threads :
      told[t].why # "running" =>
        told[t].report = IF told[t].first = "empty" THEN "MalformedWire"
                                                    ELSE told[t].first

\* When visitors pass failures on, what any decode reports is the very reason
\* it failed for: a malformed input is never given out as an exceeded bound
\* or the reverse (bounded.rs:66-67, 172-175).
ReportIsTheCause ==
    \A t \in Threads :
      told[t].why # "running" =>
        told[t].report = IF told[t].why = "malformed" THEN "MalformedWire"
                                                      ELSE told[t].why
=============================================================================
