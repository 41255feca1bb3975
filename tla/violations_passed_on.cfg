SPECIFICATION Spec
CONSTANTS
  t1 = t1
  t2 = t2
  v1 = v1
  v2 = v2
  Threads <- TwoThreads
  Violations <- TwoViolations
  Swallowing = FALSE
  MaxNesting = 3
SYMMETRY Symmetry
INVARIANTS ReportIsTheCause
