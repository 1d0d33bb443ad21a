SPECIFICATION LiveSpec
CONSTANTS
  k1 = k1
  k2 = k2
  r1 = r1
  r2 = r2
  r3 = r3
  NoKey = NoKey
  Keys <- MCKeys
  Reqs <- MCTwoReqs
  TTL = 1
  MaxTime = 6
  LastCall = 4
CHECK_DEADLOCK FALSE
INVARIANTS FreeMeansExpired SuccessIsReplayed
PROPERTY EntriesVanish
