SPECIFICATION Spec
CONSTANTS
  o1 = o1
  o2 = o2
  o3 = o3
  f1 = f1
  f2 = f2
  f3 = f3
  Old <- MCOld
  New <- MCNew
  Odd <- MCOdd
  Limit = 3
  Lead = 1
  MinDuration = 1
  MaxTime = 1
CHECK_DEADLOCK FALSE
INVARIANTS   FailedCreateLeavesNothing
PROPERTIES SuccessIsComplete SubmissionEnds
