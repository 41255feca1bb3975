-------------------------------- MODULE Checks --------------------------------
(* A function that returns the error of the first of its checks that fails.  *)
EXTENDS Integers, Sequences

Check(holds, error) == [holds |-> holds, error |-> error]

Verdict(checks) ==
    LET failed == {i \in DOMAIN checks : ~checks[i].holds}
    IN  IF failed = {} THEN "Ok"
        ELSE checks[CHOOSE i \in failed : \A j \in failed : i <= j].error
=============================================================================
