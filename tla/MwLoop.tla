------------------------------- MODULE MwLoop -------------------------------
(***************************************************************************)
(* scripts/mw-loop.sh: one fresh session per task of the queue, until the  *)
(* queue is DONE, a session writes BLOCKED, or one makes no commit.  The   *)
(* script sees a session only through ops/loop/STATUS and HEAD.  A session *)
(* is external and follows ops/loop/PROCEDURE.md, as far as it gets: it    *)
(* may die at any point, which the script ignores on purpose; so may the   *)
(* script, and be started again.                                           *)
(***************************************************************************)
EXTENDS Integers

CONSTANTS Tasks,       \* the length of the queue; each task needs the previous
          MAX_ITERS,   \* MW_MAX_ITERS
          MaxStarts    \* how often the maintainer starts the script

ASSUME LoopAssumption == Tasks \in Nat /\ MAX_ITERS \in Nat /\ MaxStarts \in Nat

VARIABLES script,   \* "off", "loop", "session" or "judge"
          session,  \* "none", "orient", "work" or "committed"
          STATUS, dirty, head,     \* the status file, the tree, the commits made
          before, iter,            \* of the running script
          open,                    \* tasks of the queue not ticked off
          starts, base,            \* starts of the script; HEAD at the last one
          killed                   \* the last run was cut off
vars == <<script, session, STATUS, dirty, head, before, iter, open, starts, base, killed>>

Init == /\ script = "off" /\ session = "none" /\ STATUS = "none"
        /\ dirty \in BOOLEAN
        /\ head = 0 /\ before = 0 /\ iter = 0 /\ open = Tasks /\ starts = 0 /\ base = 0
        /\ killed = FALSE

Continue(i) == IF i < MAX_ITERS THEN "loop" ELSE "off"

\* A dirty tree ends the script before it touches anything.
Start == /\ script = "off" /\ starts < MaxStarts
         /\ ~dirty
         /\ script' = Continue(0) /\ STATUS' = "RUNNING" /\ iter' = 0
         /\ starts' = starts + 1 /\ base' = head /\ killed' = FALSE
         /\ UNCHANGED <<session, dirty, head, before, open>>

Iterate == /\ script = "loop"
           /\ script' = "session" /\ session' = "orient"
           /\ iter' = iter + 1 /\ before' = head
           /\ UNCHANGED <<STATUS, dirty, head, open, starts, base, killed>>

\* Bug: an idle session is followed by the next.
Bug_IdleGoesOn ==
  /\ script = "judge"
  /\ script' = IF STATUS \in {"DONE", "BLOCKED"} THEN "off" ELSE Continue(iter)
  /\ UNCHANGED <<session, STATUS, dirty, head, before, iter, open, starts, base, killed>>

\* Bug: the script goes on after BLOCKED.
Bug_BlockedGoesOn ==
  /\ script = "judge"
  /\ IF STATUS = "DONE" THEN script' = "off" /\ UNCHANGED STATUS
     ELSE IF before = head THEN script' = "off" /\ STATUS' = "BLOCKED"
     ELSE script' = Continue(iter) /\ UNCHANGED STATUS
  /\ UNCHANGED <<session, dirty, head, before, iter, open, starts, base, killed>>

\* Bug: an idle session leaves the status as it is.
Bug_IdleIsSilent ==
  /\ script = "judge"
  /\ IF STATUS \in {"DONE", "BLOCKED"} \/ before = head
     THEN script' = "off" ELSE script' = Continue(iter)
  /\ UNCHANGED <<session, STATUS, dirty, head, before, iter, open, starts, base, killed>>

\* Bug: an idle session does not count as an iteration.
Bug_IdleIsRetried ==
  /\ script = "judge"
  /\ IF STATUS \in {"DONE", "BLOCKED"} THEN script' = "off" /\ UNCHANGED iter
     ELSE IF before = head THEN script' = "loop" /\ iter' = iter - 1
     ELSE script' = Continue(iter) /\ UNCHANGED iter
  /\ UNCHANGED <<session, STATUS, dirty, head, before, open, starts, base, killed>>

Judge == /\ script = "judge"
         /\ IF STATUS \in {"DONE", "BLOCKED"} THEN script' = "off" /\ UNCHANGED STATUS
            ELSE IF before = head THEN script' = "off" /\ STATUS' = "BLOCKED"
            ELSE script' = Continue(iter) /\ UNCHANGED STATUS
         /\ UNCHANGED <<session, dirty, head, before, iter, open, starts, base, killed>>

-----------------------------------------------------------------------------
\* The session ends, as it should or because it died.
Ends == script' = "judge" /\ session' = "none"

\* Section 0 of the procedure: nothing left, a dirty tree, or on to work.
Orient == /\ session = "orient"
          /\ \/ STATUS' = (IF open = 0 THEN "DONE" ELSE "BLOCKED") /\ Ends /\ UNCHANGED dirty
             \/ open > 0 /\ ~dirty /\ dirty' = TRUE /\ session' = "work"
                /\ UNCHANGED <<STATUS, script>>
          /\ UNCHANGED <<head, before, iter, open, starts, base, killed>>

\* Sections 5 and 6: a commit ticks the task off, and may leave other edits;
\* a stop condition restores the tree, or keeps what the question is about.
Commit == /\ session = "work"
          /\ head' = head + 1 /\ open' = open - 1 /\ dirty' \in BOOLEAN
          /\ session' = "committed"
          /\ UNCHANGED <<script, STATUS, before, iter, starts, base, killed>>
Stop == /\ session \in {"work", "committed"}
        /\ STATUS' = "BLOCKED" /\ dirty' \in BOOLEAN /\ Ends
        /\ UNCHANGED <<head, before, iter, open, starts, base, killed>>
Die == /\ session # "none" /\ Ends
       /\ UNCHANGED <<STATUS, dirty, head, before, iter, open, starts, base, killed>>

\* The script is interrupted, and its session with it.
Kill == /\ script # "off"
        /\ script' = "off" /\ session' = "none" /\ killed' = TRUE
        /\ UNCHANGED <<STATUS, dirty, head, before, iter, open, starts, base>>

\* Between runs of the script the maintainer puts the tree in order.
Clean == /\ script = "off" /\ dirty
         /\ dirty' = FALSE
         /\ UNCHANGED <<script, session, STATUS, head, before, iter, open, starts, base, killed>>

Next == Start \/ Iterate \/ Judge \/ Orient \/ Commit \/ Stop \/ Die \/ Kill \/ Clean
Spec == Init /\ [][Next]_vars

\* The shell goes on, and a session ends; it has no time limit of its own.
FairSpec == Spec /\ WF_vars(Iterate) /\ WF_vars(Judge) /\ WF_vars(Orient \/ Die)

TypeOK == /\ script \in {"off", "loop", "session", "judge"}
          /\ session \in {"none", "orient", "work", "committed"}
          /\ script = "session" <=> session # "none"
          /\ STATUS \in {"none", "RUNNING", "DONE", "BLOCKED"}
          /\ iter \in 0..MAX_ITERS /\ open \in 0..Tasks /\ head = Tasks - open

\* "so it can't spin": a session is started only if all before it in the run
\* made a commit, so that the script starts at most one that changes nothing,
\* and none of them wrote DONE, or BLOCKED with a commit or without
\* (mw-loop.sh:38-47).
NoSessionInVain ==
  /\ script \in {"session", "judge"} => head >= base + iter - 1
  /\ session = "orient" => STATUS = "RUNNING"

\* How a run that is over reads: RUNNING only when every one of the allowed
\* iterations made a commit, DONE only when the queue is empty.
FinalStatusIsTrue ==
  script = "off" /\ starts > 0 /\ ~killed =>
    /\ STATUS = "RUNNING" => iter = MAX_ITERS /\ head >= base + MAX_ITERS
    /\ STATUS = "DONE" => open = 0

\* A started loop ends, however many sessions die.
LoopEnds == script = "loop" ~> script = "off"
=============================================================================
