SPECIFICATION Spec
CONSTANTS
  seller = seller
  ann = ann
  bob = bob
  t1 = t1
  t2 = t2
  NoUser = NoUser
  NoTx = NoTx
  Users <- MCUsers
  Owner = seller
  Txs <- MCTxs
  Prices = {1, 2, 3}
  EditFields = {}
  Incs = {1}
  StartTimes = {1}
  EndTimes = {3}
  MinDuration = 2
  MaxExt = 1
  Window = 2
  TxTimeout = 1
  MaxTime = 6
SYMMETRY Symm
CHECK_DEADLOCK FALSE
INVARIANT PageNamesTheWinner
