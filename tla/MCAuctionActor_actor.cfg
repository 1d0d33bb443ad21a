SPECIFICATION ActorLiveSpec
CONSTANTS
  seller = seller
  ann = ann
  bob = bob
  t1 = t1
  t2 = t2
  r1 = r1
  r2 = r2
  NoUser = NoUser
  NoTx = NoTx
  NoReq = NoReq
  Users <- MCUsers
  Owner = seller
  Txs <- MCTxs
  Reqs <- MCTwoReqs
  Prices = {1, 2}
  Incs = {1}
  StartTimes = {1}
  EndTimes = {3}
  EditFields = {}
  MinDuration = 2
  MaxExt = 1
  Window = 2
  TxTimeout = 1
  MaxTime = 5
CHECK_DEADLOCK FALSE
INVARIANTS RequestsMatchRecord CacheIsPast
PROPERTIES TooLowIsTrue  ActiveEnds
