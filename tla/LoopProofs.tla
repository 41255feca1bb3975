------------------------------ MODULE LoopProofs ------------------------------
(***************************************************************************)
(* Theorems about MwLoop, for any queue, any number of iterations and any  *)
(* number of starts, wherever a session or the script itself is cut off.   *)
(***************************************************************************)
EXTENDS MwLoop, TLAPS

\* What TypeOK leaves out, and that work is done only on an open task.
Counted == /\ head \in Nat /\ before \in Nat /\ base \in Nat /\ starts \in Nat
           /\ session = "work" => open > 0

\* A running session has not written a status yet, and one that is judged has
\* written DONE only when nothing was open.
Truthful == /\ script \in {"loop", "session"} => STATUS = "RUNNING"
            /\ script = "judge" => STATUS # "none" /\ (STATUS = "DONE" => open = 0)

\* Every iteration before the present one made a commit.
Paid == /\ script = "loop" => iter < MAX_ITERS /\ head >= base + iter
        /\ script \in {"session", "judge"} =>
             iter > 0 /\ before <= head /\ before >= base + iter - 1

LoopInv == TypeOK /\ Counted /\ Truthful /\ Paid /\ FinalStatusIsTrue

LEMMA LoopInit == Init => LoopInv
<1> SUFFICES ASSUME Init PROVE LoopInv
    OBVIOUS
<1>1. TypeOK /\ Counted
      BY LoopAssumption DEF Init, TypeOK, Counted
<1>2. Truthful /\ Paid /\ FinalStatusIsTrue
      BY DEF Init, Truthful, Paid, FinalStatusIsTrue
<1> QED BY <1>1, <1>2 DEF LoopInv

LEMMA StartKeeps == LoopInv /\ Start => LoopInv'
<1> SUFFICES ASSUME LoopInv, Start PROVE LoopInv'
    OBVIOUS
<1> USE LoopAssumption DEF Start, Continue
<1>1. TypeOK' /\ Counted'
  <2>1. session = "none" /\ script' \in {"loop", "off"} /\ session' = session
        BY DEF LoopInv, TypeOK
  <2>2. TypeOK'
        BY <2>1 DEF LoopInv, TypeOK
  <2>3. Counted'
        BY <2>1 DEF LoopInv, Counted
  <2> QED BY <2>2, <2>3
<1>2. Truthful' /\ Paid' /\ FinalStatusIsTrue'
      BY DEF LoopInv, TypeOK, Counted, Truthful, Paid, FinalStatusIsTrue
<1> QED BY <1>1, <1>2 DEF LoopInv

\* The verdict on a session: it goes on only after a commit, and the last
\* allowed iteration ends the run.
LEMMA JudgeKeeps == LoopInv /\ Judge => LoopInv'
<1> SUFFICES ASSUME LoopInv, Judge PROVE LoopInv'
    OBVIOUS
<1> USE LoopAssumption DEF Judge, Continue
<1>1. session = "none"
      BY DEF LoopInv, TypeOK
<1>2. TypeOK' /\ Counted'
      BY <1>1 DEF LoopInv, TypeOK, Counted
<1>3. CASE STATUS \in {"DONE", "BLOCKED"}
      BY <1>2, <1>3 DEF LoopInv, Truthful, Paid, FinalStatusIsTrue
<1>4. CASE STATUS \notin {"DONE", "BLOCKED"} /\ before = head
      BY <1>2, <1>4 DEF LoopInv, Truthful, Paid, FinalStatusIsTrue
<1>5. CASE STATUS \notin {"DONE", "BLOCKED"} /\ before # head
  <2>1. STATUS = "RUNNING"
        BY <1>5 DEF LoopInv, TypeOK, Truthful
  <2>2. head >= base + iter
        BY <1>5 DEF LoopInv, TypeOK, Counted, Paid
  <2>3. Truthful' /\ Paid'
        BY <1>5, <2>1, <2>2 DEF LoopInv, TypeOK, Counted, Truthful, Paid
  <2>4. FinalStatusIsTrue'
        BY <1>5, <2>1, <2>2 DEF LoopInv, TypeOK, Counted, FinalStatusIsTrue
  <2> QED BY <1>2, <2>3, <2>4 DEF LoopInv
<1> QED BY <1>3, <1>4, <1>5

LEMMA SessionKeeps == LoopInv /\ (Iterate \/ Orient \/ Commit \/ Stop \/ Die) => LoopInv'
<1> SUFFICES ASSUME LoopInv, Iterate \/ Orient \/ Commit \/ Stop \/ Die
             PROVE  LoopInv'
    OBVIOUS
<1> USE LoopAssumption
<1>1. CASE Iterate
      BY <1>1 DEF Iterate, LoopInv, TypeOK, Counted, Truthful, Paid, FinalStatusIsTrue
<1>2. CASE Orient
      BY <1>2 DEF Orient, Ends, LoopInv, TypeOK, Counted, Truthful, Paid, FinalStatusIsTrue
<1>3. CASE Commit
  <2>1. TypeOK' /\ Counted'
        BY <1>3 DEF Commit, LoopInv, TypeOK, Counted
  <2>2. Truthful' /\ Paid' /\ FinalStatusIsTrue'
        BY <1>3 DEF Commit, LoopInv, TypeOK, Counted, Truthful, Paid, FinalStatusIsTrue
  <2> QED BY <2>1, <2>2 DEF LoopInv
<1>4. CASE Stop
      BY <1>4 DEF Stop, Ends, LoopInv, TypeOK, Counted, Truthful, Paid, FinalStatusIsTrue
<1>5. CASE Die
      BY <1>5 DEF Die, Ends, LoopInv, TypeOK, Counted, Truthful, Paid, FinalStatusIsTrue
<1> QED BY <1>1, <1>2, <1>3, <1>4, <1>5

LEMMA LoopStep == LoopInv /\ [Next]_vars => LoopInv'
<1> SUFFICES ASSUME LoopInv, [Next]_vars PROVE LoopInv'
    OBVIOUS
<1>1. CASE Kill
      BY <1>1 DEF Kill, LoopInv, TypeOK, Counted, Truthful, Paid, FinalStatusIsTrue
<1>2. CASE Clean
      BY <1>2 DEF Clean, LoopInv, TypeOK, Counted, Truthful, Paid, FinalStatusIsTrue
<1>3. CASE UNCHANGED vars
      BY <1>3 DEF vars, LoopInv, TypeOK, Counted, Truthful, Paid, FinalStatusIsTrue
<1> QED BY <1>1, <1>2, <1>3, StartKeeps, JudgeKeeps, SessionKeeps DEF Next

LEMMA LoopHolds == Spec => []LoopInv
BY LoopInit, LoopStep, PTL DEF Spec

\* The numbers stay within the queue and the iterations allowed, and a session
\* runs exactly while the script waits for one.
THEOREM LoopTyped == Spec => []TypeOK
<1>1. LoopInv => TypeOK
      BY DEF LoopInv
<1> QED BY <1>1, LoopHolds, PTL

\* The script cannot spin: a session is started only after all before it in
\* the run made a commit and none wrote DONE or BLOCKED (mw-loop.sh:38-47).
THEOREM SessionsArePaidFor == Spec => []NoSessionInVain
<1>1. LoopInv => NoSessionInVain
      BY DEF LoopInv, TypeOK, Counted, Truthful, Paid, NoSessionInVain
<1> QED BY <1>1, LoopHolds, PTL

\* A finished run leaves a status that tells how it ended, also the next one
\* after a run that was cut off (mw-loop.sh:25, 41-53).
THEOREM StatusIsTrue == Spec => []FinalStatusIsTrue
<1>1. LoopInv => FinalStatusIsTrue
      BY DEF LoopInv
<1> QED BY <1>1, LoopHolds, PTL
=============================================================================
