------------------------------ MODULE MCMwLoop ------------------------------
(* A queue longer than one run of the script can work off, and as many      *)
(* starts as it takes to empty it, with one more.                           *)
EXTENDS MwLoop

MCTasks     == 5
MCMaxIters  == 3
MCMaxStarts == 3
=============================================================================
