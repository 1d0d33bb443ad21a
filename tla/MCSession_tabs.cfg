SPECIFICATION Spec
CONSTANTS
  t1 = t1
  t2 = t2
  r1 = r1
  r2 = r2
  Tabs <- MCTabs
  Reqs <- MCReqs
  Placements <- MCPlacements
  FormTabs <- MCFormTabs
  MaxTokens = 2
CHECK_DEADLOCK FALSE
INVARIANTS   NoRetryLoop
PROPERTY RequestsSettle
