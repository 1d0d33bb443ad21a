--------------------------- MODULE AuctionProofs ---------------------------
(* Safety of the tables of one auction and of the actor that writes them,   *)
(* for every number of users, requests and transactions and every choice of *)
(* prices, increments, times and extensions.  First AuctionStore: its       *)
(* invariants, and that it implements AuctionLedger.  Then AuctionActor:    *)
(* its steps are steps of the tables, its answers agree with the record,    *)
(* and its cache lags behind the row.                                       *)
EXTENDS AuctionActor, FiniteSetTheorems, TLAPS

(* The values of an edit request are natural numbers.                       *)
LEMMA EditValues ==
    ASSUME NEW in \in EditRequests, NEW f \in DOMAIN in
    PROVE  in[f] \in Nat
<1>1. PICK D \in SUBSET EditFields :
         in \in [D -> Prices \cup Incs \cup StartTimes \cup EndTimes]
  BY DEF EditRequests
<1>2. in[f] \in Prices \cup Incs \cup StartTimes \cup EndTimes
  BY <1>1
<1> QED  BY <1>2, AmountAssumption, RequestAssumption

(* An edited row is a row.                                                  *)
LEMMA EditedType ==
    ASSUME NEW r \in Rows, NEW in \in EditRequests
    PROVE  /\ Edited(r, in) \in Rows
           /\ Edited(r, in).status = r.status
           /\ Edited(r, in).extensionCount = r.extensionCount
           /\ Edited(r, in).winner = r.winner
           /\ Edited(r, in).version = r.version
           /\ r.currentPrice = r.startPrice =>
                 Edited(r, in).currentPrice = Edited(r, in).startPrice
<1>1. \A f : \A old \in Nat : Coalesce(in, f, old) \in Nat
  BY EditValues DEF Coalesce
<1>2. Coalesce(in, "startPrice", r.startPrice) \in Nat
  BY <1>1 DEF Rows
<1>3. Coalesce(in, "startPrice", r.currentPrice) \in Nat
  BY <1>1 DEF Rows
<1>4. Coalesce(in, "minBidIncrement", r.minBidIncrement) \in Nat
  BY <1>1 DEF Rows
<1>5. Coalesce(in, "startTime", r.startTime) \in Nat
  BY <1>1 DEF Rows
<1>6. Coalesce(in, "endTime", r.endTime) \in Nat
  BY <1>1 DEF Rows
<1> QED  BY <1>2, <1>3, <1>4, <1>5, <1>6 DEF Edited, Rows

(* A row that took a bid is a row: the extension count cannot pass its      *)
(* maximum.                                                                 *)
LEMMA OutbidType ==
    ASSUME NEW r \in Rows, NEW b \in [st : TxStates, user : Users, price : Nat, now : Nat]
    PROVE  Outbid(r, b) \in Rows
<1>1. b.price \in Nat /\ r.version + 1 \in Nat
  BY DEF Rows
<1>2. (IF Extends(r, b) THEN r.extensionCount + 1 ELSE r.extensionCount) \in 0 .. MaxExt
  BY RequestAssumption DEF Rows, Extends
<1>3. (IF Extends(r, b) THEN r.endTime + Window ELSE r.endTime) \in Nat
  BY RequestAssumption DEF Rows
<1> QED  BY <1>1, <1>2, <1>3 DEF Outbid, Rows

(* The idle values have the types of their variables.                       *)
LEMMA IdleTypes ==
    /\ IdleTx \in [st : TxStates, user : Users, price : Nat, now : Nat]
    /\ IdleEnd \in [st : {"none", "waiting"}, now : Nat, seen : Nat]
    /\ NoDraft \in [row : Rows, bids : Seq(Bids)]
    /\ GoneRow \in Rows
    /\ NoEdit \in [st : {"none", "checked"}, in : EditRequests]
<1>1. GoneRow \in Rows
  BY RequestAssumption DEF GoneRow, Rows, Statuses
<1>2. [f \in {} |-> 0] \in EditRequests
  <2> DEFINE e == [f \in {} |-> 0]
  <2>1. e \in [{} -> Prices \cup Incs \cup StartTimes \cup EndTimes]
    OBVIOUS
  <2>2. \A f \in {} : e[f] \in FieldValues(f)
    OBVIOUS
  <2>3. {} \in SUBSET EditFields
    OBVIOUS
  <2> QED  BY <2>1, <2>2, <2>3 DEF EditRequests
<1> QED  BY <1>1, <1>2, UsersAssumption DEF IdleTx, IdleEnd, NoDraft, NoEdit, TxStates

(* The initial states satisfy the inductive invariant.                      *)
LEMMA InitIInv == Init => IInv
<1> SUFFICES ASSUME Init PROVE IInv
  OBVIOUS
<1> USE IdleTypes
<1>1. PICK p \in Prices, i \in Incs, s \in StartTimes, e \in EndTimes :
         row = CreatedRow(p, i, s, e)
  BY DEF Init
<1>2. row \in Rows
  BY <1>1, AmountAssumption, RequestAssumption DEF CreatedRow, Rows, Statuses
<1>3. TypeOK
  <2>1. tx \in [Txs -> [st : TxStates, user : Users, price : Nat, now : Nat]]
    BY DEF Init
  <2> QED  BY <1>2, <2>1 DEF Init, TypeOK
<1>4. DraftFollowsRow
  BY TxsAssumption DEF Init, DraftFollowsRow, IdleTx
<1>5. TimesOK
  BY DEF Init, TimesOK, IdleTx, IdleEnd
<1>6. PendingIsFresh /\ RowMatchesBids /\ SnapshotCurrent /\ WinnerIsTopBidder
  BY <1>1 DEF Init, PendingIsFresh, RowMatchesBids, LastPrice, SnapshotCurrent,
              WinnerIsTopBidder, IdleEnd, CreatedRow
<1>7. BidsAscend /\ BidsInTime
  BY DEF Init, BidsAscend, BidsInTime
<1> QED  BY <1>3, <1>4, <1>5, <1>6, <1>7 DEF IInv

-----------------------------------------------------------------------------
(* Each step preserves the inductive invariant.                             *)

(* Time moves on only while every open transaction is within its timeout.   *)
LEMMA TickIInv == ASSUME IInv, Tick PROVE IInv'
<1> USE DEF IInv
<1>1. TypeOK'
  BY DEF Tick, TypeOK
<1>2. TimesOK'
  <2>1. \A t \in Txs : tx'[t].st # "none" =>
           tx'[t].now <= now' /\ now' <= tx'[t].now + TxTimeout
    <3> SUFFICES ASSUME NEW t \in Txs, tx[t].st # "none"
                 PROVE  tx[t].now <= now + 1 /\ now + 1 <= tx[t].now + TxTimeout
      BY DEF Tick
    <3>1. tx[t].now \in Nat /\ now \in Nat /\ TxTimeout \in Nat
      BY RequestAssumption DEF TypeOK
    <3>2. tx[t].now <= now /\ now < tx[t].now + TxTimeout
      BY DEF Tick, TimesOK
    <3> QED  BY <3>1, <3>2
  <2>2. ending'.now <= now' /\ ending'.seen <= Len(bids')
    BY DEF Tick, TimesOK, TypeOK
  <2> QED  BY <2>1, <2>2 DEF TimesOK
<1>3. DraftFollowsRow'
  BY DEF Tick, DraftFollowsRow, Accepts, Outbid, Extends
<1>4. (PendingIsFresh /\ RowMatchesBids /\ BidsAscend /\ BidsInTime)'
  BY DEF Tick, PendingIsFresh, RowMatchesBids, LastPrice, BidsAscend, BidsInTime
<1>5. (SnapshotCurrent /\ WinnerIsTopBidder)'
  BY DEF Tick, SnapshotCurrent, WinnerIsTopBidder, BidderOf
<1> QED  BY <1>1, <1>2, <1>3, <1>4, <1>5

(* A step that changes neither the row, the bids, the lock nor the clock    *)
(* preserves whatever speaks of these alone.                                *)
LEMMA RowUnchanged ==
    ASSUME IInv, UNCHANGED <<row, bids>>
    PROVE  (PendingIsFresh /\ RowMatchesBids /\ BidsAscend /\ BidsInTime
              /\ WinnerIsTopBidder)'
BY DEF IInv, PendingIsFresh, RowMatchesBids, LastPrice, BidsAscend, BidsInTime,
       WinnerIsTopBidder, BidderOf

LEMMA UpdateRequestIInv ==
    ASSUME IInv, UpdateFails \/ \E in \in EditRequests : RequestUpdate(in)
    PROVE  IInv'
<1> USE DEF IInv
<1>1. /\ UNCHANGED <<now, row, bids, tx, lock, draft, ending>>
      /\ editing' \in [st : {"none", "checked"}, in : EditRequests]
  BY IdleTypes DEF UpdateFails, RequestUpdate
<1>2. TypeOK'
  BY <1>1 DEF TypeOK
<1>3. (DraftFollowsRow /\ TimesOK /\ SnapshotCurrent)'
  BY <1>1 DEF DraftFollowsRow, TimesOK, SnapshotCurrent, Accepts, Outbid, Extends
<1> QED  BY <1>1, <1>2, <1>3, RowUnchanged

(* While the auction is PENDING nobody holds the row lock.                  *)
LEMMA NotActiveNotLocked ==
    ASSUME IInv, row.status # "ACTIVE"
    PROVE  \A t \in Txs : lock # t /\ tx[t].st \notin {"updated", "inserted"}
BY DEF IInv, DraftFollowsRow, Accepts

(* A change of a PENDING row that keeps it fresh.                           *)
LEMMA PendingRowIInv ==
    ASSUME IInv, row.status = "PENDING", row' \in Rows,
           row'.status \in {"PENDING", "ACTIVE", "GONE"},
           row'.extensionCount = 0, row'.winner = NoUser,
           row'.status # "GONE" => row'.currentPrice = row'.startPrice /\ row'.version = 1,
           UNCHANGED <<now, bids, tx, lock, draft>>,
           \/ ending' = ending
           \/ ending' = IdleEnd,
           editing' \in [st : {"none", "checked"}, in : EditRequests]
    PROVE  IInv'
<1> USE DEF IInv
<1>1. bids = <<>>
  BY DEF PendingIsFresh
<1>2. TypeOK'
  BY IdleTypes DEF TypeOK
<1>3. DraftFollowsRow'
  BY NotActiveNotLocked DEF DraftFollowsRow
<1>4. ending'.seen = 0 /\ ending'.now <= now'
  BY <1>1 DEF TimesOK, IdleEnd, TypeOK
<1>5. TimesOK'
  BY <1>1, <1>4 DEF TimesOK
<1>6. (PendingIsFresh /\ RowMatchesBids)'
  BY <1>1 DEF PendingIsFresh, RowMatchesBids, LastPrice
<1>7. (BidsAscend /\ BidsInTime)'
  BY <1>1 DEF BidsAscend, BidsInTime
<1>8. (SnapshotCurrent /\ WinnerIsTopBidder)'
  BY <1>1, <1>4 DEF SnapshotCurrent, WinnerIsTopBidder
<1> QED  BY <1>2, <1>3, <1>5, <1>6, <1>7, <1>8

LEMMA PendingStepIInv ==
    ASSUME IInv, UpdateAuction \/ DeleteAuction \/ ActivateAuctions
    PROVE  IInv'
<1> USE DEF IInv
<1>1. row.status = "PENDING" /\ row \in Rows /\ bids = <<>> /\ row.extensionCount = 0
        /\ row.winner = NoUser /\ row.currentPrice = row.startPrice /\ row.version = 1
        /\ editing \in [st : {"none", "checked"}, in : EditRequests]
  BY DEF UpdateAuction, DeleteAuction, ActivateAuctions, TypeOK, PendingIsFresh,
         RowMatchesBids, LastPrice
<1>2. CASE UpdateAuction
  BY <1>1, <1>2, EditedType, IdleTypes, PendingRowIInv DEF UpdateAuction
<1>3. CASE DeleteAuction
  BY <1>1, <1>3, IdleTypes, PendingRowIInv DEF DeleteAuction, GoneRow
<1>4. CASE ActivateAuctions
  <2>1. row' \in Rows
    BY <1>1, <1>4 DEF ActivateAuctions, Rows, Statuses
  <2> QED  BY <1>1, <1>4, <2>1, PendingRowIInv DEF ActivateAuctions, Rows
<1> QED  BY <1>2, <1>3, <1>4

(* BEGIN and a rejected UPDATE touch only the transaction itself.           *)
LEMMA BeginIInv ==
    ASSUME IInv, NEW t \in Txs,
           (\E u \in Users, p \in Prices : Begin(t, u, p)) \/ PlaceBidNoRows(t)
    PROVE  IInv'
<1> USE DEF IInv
<1> DEFINE TxType == [st : TxStates, user : Users, price : Nat, now : Nat]
<1>1. PICK b \in TxType :
         /\ tx' = [tx EXCEPT ![t] = b]
         /\ b.st \in {"none", "begun"}
         /\ b.st # "none" => b.now = now
  <2>1. CASE PlaceBidNoRows(t)
    BY <2>1, IdleTypes DEF PlaceBidNoRows, IdleTx
  <2>2. ASSUME NEW u \in Users, NEW p \in Prices, Begin(t, u, p)
        PROVE  \E b \in TxType :
                  /\ tx' = [tx EXCEPT ![t] = b]
                  /\ b.st \in {"none", "begun"}
                  /\ b.st # "none" => b.now = now
    <3> DEFINE b == [st |-> "begun", user |-> u, price |-> p, now |-> now]
    <3>1. b \in TxType
      BY AmountAssumption DEF TypeOK, TxStates
    <3> QED  BY <2>2, <3>1 DEF Begin
  <2> QED  BY <2>1, <2>2
<1>2. UNCHANGED <<now, row, bids, lock, draft, ending, editing>>
  BY DEF Begin, PlaceBidNoRows
<1>3. tx[t].st \in {"none", "begun"}
  BY DEF Begin, PlaceBidNoRows, IdleTx
<1>4. TypeOK'
  BY <1>1, <1>2 DEF TypeOK
<1>5. lock # t
  BY <1>3 DEF DraftFollowsRow
<1>6. \A s \in Txs : s # t => tx'[s] = tx[s]
  BY <1>1 DEF TypeOK
<1>7. tx'[t] = b
  BY <1>1 DEF TypeOK
<1>8. DraftFollowsRow'
  <2>1. \A s \in Txs : tx'[s].st \in {"updated", "inserted"} <=> lock' = s
    BY <1>1, <1>2, <1>5, <1>6, <1>7 DEF DraftFollowsRow
  <2>2. \A s \in Txs : lock' = s => s # t /\ lock = s /\ tx'[s] = tx[s]
    BY <1>2, <1>5, <1>6
  <2> QED  BY <1>2, <2>1, <2>2 DEF DraftFollowsRow, Accepts, Outbid, Extends
<1>9. TimesOK'
  <2>1. now \in Nat /\ now <= now + TxTimeout
    BY RequestAssumption DEF TypeOK
  <2>2. \A s \in Txs : tx'[s].st # "none" =>
           tx'[s].now <= now' /\ now' <= tx'[s].now + TxTimeout
    BY <1>1, <1>2, <1>6, <1>7, <2>1 DEF TimesOK
  <2> QED  BY <1>2, <2>2 DEF TimesOK
<1>10. SnapshotCurrent'
  BY <1>2 DEF SnapshotCurrent
<1> QED  BY <1>2, <1>4, <1>8, <1>9, <1>10, RowUnchanged

(* The UPDATE takes the lock: the draft is the row with this bid applied.   *)
LEMMA PlaceBidIInv ==
    ASSUME IInv, NEW t \in Txs, PlaceBid(t)
    PROVE  IInv'
<1> USE DEF IInv
<1>1. /\ tx' = [tx EXCEPT ![t].st = "updated"]
      /\ lock' = t /\ lock = NoTx
      /\ draft' = [row |-> Outbid(row, tx[t]), bids |-> bids]
      /\ UNCHANGED <<now, row, bids, ending, editing>>
      /\ tx[t].st = "begun" /\ Accepts(row, tx[t])
  BY DEF PlaceBid
<1>2. tx[t] \in [st : TxStates, user : Users, price : Nat, now : Nat]
  BY DEF TypeOK
<1>3. Outbid(row, tx[t]) \in Rows
  BY <1>2, OutbidType DEF TypeOK
<1>4. TypeOK'
  <2>1. tx' \in [Txs -> [st : TxStates, user : Users, price : Nat, now : Nat]]
    BY <1>1 DEF TypeOK, TxStates
  <2> QED  BY <1>1, <1>3, <2>1 DEF TypeOK
<1>5. /\ \A s \in Txs : s # t => tx'[s] = tx[s]
      /\ tx'[t].st = "updated" /\ tx'[t].now = tx[t].now
      /\ tx'[t].user = tx[t].user /\ tx'[t].price = tx[t].price
  BY <1>1 DEF TypeOK
<1>6. DraftFollowsRow'
  <2>1. \A s \in Txs : tx'[s].st \in {"updated", "inserted"} <=> lock' = s
    BY <1>1, <1>5, TxsAssumption DEF DraftFollowsRow
  <2>2. Accepts(row, tx'[t]) /\ Outbid(row, tx'[t]) = Outbid(row, tx[t])
    BY <1>1, <1>5 DEF Accepts, Outbid, Extends
  <2>3. /\ Accepts(row', tx'[t]) /\ draft'.row = Outbid(row', tx'[t])
        /\ draft'.bids = bids' /\ tx'[t].st # "inserted"
    BY <1>1, <1>5, <2>2
  <2>4. (\A s \in Txs : lock = s =>
          /\ Accepts(row, tx[s])
          /\ draft.row = Outbid(row, tx[s])
          /\ tx[s].st = "updated" => draft.bids = bids
          /\ tx[s].st = "inserted" => draft.bids =
                Append(bids, [user |-> tx[s].user, price |-> tx[s].price,
                              version |-> draft.row.version, createdAt |-> tx[s].now]))'
    BY <1>1, <2>3
  <2> QED  BY <2>1, <2>4 DEF DraftFollowsRow
<1>7. TimesOK'
  BY <1>1, <1>5 DEF TimesOK
<1>8. SnapshotCurrent'
  BY <1>1 DEF SnapshotCurrent
<1> QED  BY <1>1, <1>4, <1>6, <1>7, <1>8, RowUnchanged

(* The bid row joins the draft.                                             *)
LEMMA InsertBidIInv ==
    ASSUME IInv, NEW t \in Txs, InsertBid(t)
    PROVE  IInv'
<1> USE DEF IInv
<1> DEFINE bid == [user |-> tx[t].user, price |-> tx[t].price,
                   version |-> draft.row.version, createdAt |-> tx[t].now]
<1>1. /\ tx' = [tx EXCEPT ![t].st = "inserted"]
      /\ draft' = [draft EXCEPT !.bids = Append(@, bid)]
      /\ UNCHANGED <<now, row, bids, lock, ending, editing>>
      /\ tx[t].st = "updated"
  BY DEF InsertBid
<1>2. lock = t
  BY <1>1 DEF DraftFollowsRow
<1>3. /\ Accepts(row, tx[t]) /\ draft.row = Outbid(row, tx[t]) /\ draft.bids = bids
  BY <1>1, <1>2 DEF DraftFollowsRow
<1>4. bid \in Bids /\ draft.row \in Rows /\ bids \in Seq(Bids)
  BY DEF TypeOK, Bids, Rows
<1>5. draft'.row = draft.row /\ draft'.bids = Append(bids, bid)
        /\ draft' \in [row : Rows, bids : Seq(Bids)]
  <2> HIDE DEF bid
  <2>1. draft' = [row |-> draft.row, bids |-> Append(bids, bid)]
    BY <1>1, <1>3 DEF TypeOK
  <2>2. Append(bids, bid) \in Seq(Bids)
    BY <1>4
  <2> QED  BY <1>4, <2>1, <2>2
<1>6. TypeOK'
  <2>1. tx' \in [Txs -> [st : TxStates, user : Users, price : Nat, now : Nat]]
    BY <1>1 DEF TypeOK, TxStates
  <2> QED  BY <1>1, <1>5, <2>1 DEF TypeOK
<1>7. /\ \A s \in Txs : s # t => tx'[s] = tx[s]
      /\ tx'[t].st = "inserted" /\ tx'[t].now = tx[t].now
      /\ tx'[t].user = tx[t].user /\ tx'[t].price = tx[t].price
  BY <1>1 DEF TypeOK
<1>8. DraftFollowsRow'
  <2>1. \A s \in Txs : tx'[s].st \in {"updated", "inserted"} <=> lock' = s
    BY <1>1, <1>2, <1>7 DEF DraftFollowsRow
  <2>2. Accepts(row, tx'[t]) /\ Outbid(row, tx'[t]) = Outbid(row, tx[t])
    BY <1>3, <1>7 DEF Accepts, Outbid, Extends
  <2>3. /\ Accepts(row', tx'[t]) /\ draft'.row = Outbid(row', tx'[t])
        /\ tx'[t].st # "updated"
    BY <1>1, <1>3, <1>5, <1>7, <2>2
  <2>4. draft'.bids = Append(bids', [user |-> tx'[t].user, price |-> tx'[t].price,
                          version |-> draft'.row.version, createdAt |-> tx'[t].now])
    BY <1>1, <1>5, <1>7
  <2>5. (\A s \in Txs : lock = s =>
          /\ Accepts(row, tx[s])
          /\ draft.row = Outbid(row, tx[s])
          /\ tx[s].st = "updated" => draft.bids = bids
          /\ tx[s].st = "inserted" => draft.bids =
                Append(bids, [user |-> tx[s].user, price |-> tx[s].price,
                              version |-> draft.row.version, createdAt |-> tx[s].now]))'
    BY <1>1, <1>2, <2>3, <2>4
  <2> QED  BY <2>1, <2>5 DEF DraftFollowsRow
<1>9. TimesOK'
  BY <1>1, <1>7 DEF TimesOK
<1>10. SnapshotCurrent'
  BY <1>1 DEF SnapshotCurrent
<1> QED  BY <1>1, <1>6, <1>8, <1>9, <1>10, RowUnchanged

(* ROLLBACK frees the lock if it held it and changes no committed row.      *)
LEMMA RollbackIInv ==
    ASSUME IInv, NEW t \in Txs, Rollback(t)
    PROVE  IInv'
<1> USE DEF IInv
<1>1. /\ tx' = [tx EXCEPT ![t] = IdleTx]
      /\ lock' = IF lock = t THEN NoTx ELSE lock
      /\ draft' = IF lock = t THEN NoDraft ELSE draft
      /\ UNCHANGED <<now, row, bids, ending, editing>>
  BY DEF Rollback
<1>2. TypeOK'
  <2>1. tx' \in [Txs -> [st : TxStates, user : Users, price : Nat, now : Nat]]
    BY <1>1, IdleTypes DEF TypeOK
  <2>2. draft' \in [row : Rows, bids : Seq(Bids)]
    BY <1>1, IdleTypes DEF TypeOK
  <2> QED  BY <1>1, <2>1, <2>2 DEF TypeOK
<1>3. (\A s \in Txs : s # t => tx'[s] = tx[s]) /\ tx'[t].st = "none"
  BY <1>1 DEF TypeOK, IdleTx
<1>4. DraftFollowsRow'
  <2>1. \A s \in Txs : tx'[s].st \in {"updated", "inserted"} <=> lock' = s
    BY <1>1, <1>3, TxsAssumption DEF DraftFollowsRow
  <2>2. \A s \in Txs : lock' = s => s # t /\ lock = s /\ tx'[s] = tx[s] /\ draft' = draft
    BY <1>1, <1>3, TxsAssumption
  <2>3. (\A s \in Txs : lock = s =>
          /\ Accepts(row, tx[s])
          /\ draft.row = Outbid(row, tx[s])
          /\ tx[s].st = "updated" => draft.bids = bids
          /\ tx[s].st = "inserted" => draft.bids =
                Append(bids, [user |-> tx[s].user, price |-> tx[s].price,
                              version |-> draft.row.version, createdAt |-> tx[s].now]))'
    BY <1>1, <2>2 DEF DraftFollowsRow
  <2> QED  BY <2>1, <2>3 DEF DraftFollowsRow
<1>5. TimesOK'
  BY <1>1, <1>3 DEF TimesOK
<1>6. SnapshotCurrent'
  BY <1>1 DEF SnapshotCurrent
<1> QED  BY <1>1, <1>2, <1>4, <1>5, <1>6, RowUnchanged

(* The statement of EndAuctions that starts, or that changes nothing.       *)
LEMMA EndWaitIInv ==
    ASSUME IInv, EndSnapshot \/ EndNothing
    PROVE  IInv'
<1> USE DEF IInv
<1>1. UNCHANGED <<now, row, bids, tx, lock, draft, editing>>
  BY DEF EndSnapshot, EndNothing
<1>2. /\ ending' \in [st : {"none", "waiting"}, now : Nat, seen : Nat]
      /\ ending'.now <= now /\ ending'.seen <= Len(bids)
      /\ ending'.st = "waiting" => ending'.seen = Len(bids)
  <2>1. now \in Nat /\ Len(bids) \in Nat
    BY DEF TypeOK
  <2> QED  BY <2>1, IdleTypes DEF EndSnapshot, EndNothing, IdleEnd
<1>3. TypeOK'
  BY <1>1, <1>2 DEF TypeOK
<1>4. DraftFollowsRow'
  BY <1>1 DEF DraftFollowsRow, Accepts, Outbid, Extends
<1>5. (TimesOK /\ SnapshotCurrent)'
  BY <1>1, <1>2 DEF TimesOK, SnapshotCurrent
<1> QED  BY <1>1, <1>3, <1>4, <1>5, RowUnchanged

(* The auction ends; the winner is the top bidder because a statement whose *)
(* re-check succeeds has seen every bid (SnapshotCurrent).                  *)
LEMMA EndIInv == ASSUME IInv, EndAuctions PROVE IInv'
<1> USE DEF IInv
<1>1. /\ row' = [row EXCEPT !.status = "ENDED", !.winner = BidderOf(ending.seen)]
      /\ ending' = IdleEnd
      /\ UNCHANGED <<now, bids, tx, lock, draft, editing>>
      /\ ending.st = "waiting" /\ lock = NoTx
      /\ row.status = "ACTIVE" /\ row.endTime <= ending.now
  BY DEF EndAuctions
<1>2. BidderOf(ending.seen) \in Users \cup {NoUser}
  <2>1. ending.seen \in Nat /\ ending.seen <= Len(bids) /\ bids \in Seq(Bids)
    BY DEF TypeOK, TimesOK
  <2>2. ending.seen # 0 => bids[ending.seen] \in Bids
    BY <2>1
  <2> QED  BY <2>2 DEF BidderOf, Bids
<1>3. row \in Rows
  BY DEF TypeOK
<1>4. row' \in Rows
  BY <1>1, <1>2, <1>3 DEF Rows, Statuses
<1>5. TypeOK'
  BY <1>1, <1>4, IdleTypes DEF TypeOK
<1>6. DraftFollowsRow'
  BY <1>1, TxsAssumption DEF DraftFollowsRow
<1>7. TimesOK'
  BY <1>1 DEF TimesOK, IdleEnd, TypeOK
<1>8. /\ row'.status = "ENDED" /\ row'.currentPrice = row.currentPrice
      /\ row'.version = row.version /\ row'.startPrice = row.startPrice
      /\ row'.minBidIncrement = row.minBidIncrement
      /\ row'.startTime = row.startTime /\ row'.endTime = row.endTime
      /\ row'.extensionCount = row.extensionCount
      /\ row'.winner = BidderOf(ending.seen)
  BY <1>1, <1>3 DEF Rows
<1>9. (PendingIsFresh /\ RowMatchesBids /\ SnapshotCurrent)'
  BY <1>1, <1>8 DEF PendingIsFresh, RowMatchesBids, LastPrice, SnapshotCurrent
<1>10. (BidsAscend /\ BidsInTime)'
  BY <1>1, <1>8 DEF BidsAscend, BidsInTime
<1>11. WinnerIsTopBidder'
  BY <1>1, <1>8 DEF WinnerIsTopBidder, SnapshotCurrent, BidderOf
<1> QED  BY <1>5, <1>6, <1>7, <1>9, <1>10, <1>11

(* COMMIT publishes the row and the bid together.                           *)
LEMMA CommitIInv ==
    ASSUME IInv, NEW t \in Txs, Commit(t)
    PROVE  IInv'
<1> USE DEF IInv
<1> DEFINE b == tx[t]
           bid == [user |-> b.user, price |-> b.price,
                   version |-> draft.row.version, createdAt |-> b.now]
<1>1. /\ row' = draft.row /\ bids' = draft.bids
      /\ lock' = NoTx /\ draft' = NoDraft
      /\ tx' = [tx EXCEPT ![t] = IdleTx]
      /\ UNCHANGED <<now, ending, editing>>
      /\ tx[t].st = "inserted"
  BY DEF Commit
<1>2. lock = t
  BY <1>1 DEF DraftFollowsRow
<1>3. Accepts(row, b) /\ row' = Outbid(row, b) /\ bids' = Append(bids, bid)
  BY <1>1, <1>2 DEF DraftFollowsRow
<1>4. /\ row \in Rows /\ row' \in Rows /\ bids \in Seq(Bids) /\ bids' \in Seq(Bids)
      /\ b.price \in Nat /\ b.now \in Nat /\ b.user \in Users
  BY <1>1 DEF TypeOK
<1>5. TypeOK'
  <2>1. tx' \in [Txs -> [st : TxStates, user : Users, price : Nat, now : Nat]]
    BY <1>1, IdleTypes DEF TypeOK
  <2> QED  BY <1>1, <1>4, <2>1, IdleTypes DEF TypeOK
<1>6. (\A s \in Txs : s # t => tx'[s] = tx[s]) /\ tx'[t].st = "none"
  BY <1>1 DEF TypeOK, IdleTx
<1>7. DraftFollowsRow'
  <2>1. \A s \in Txs : tx'[s].st \notin {"updated", "inserted"} /\ lock' # s
    BY <1>1, <1>2, <1>6, TxsAssumption DEF DraftFollowsRow
  <2> QED  BY <2>1 DEF DraftFollowsRow
<1>8. /\ Len(bids') = Len(bids) + 1
      /\ bids'[Len(bids) + 1] = bid
      /\ \A i \in 1 .. Len(bids) : bids'[i] = bids[i]
      /\ bids' # <<>> /\ Len(bids) \in Nat
  <2> HIDE DEF bid
  <2>1. bid \in Bids
    BY <1>4 DEF bid, Bids, TypeOK, Rows
  <2> QED  BY <1>3, <1>4, <2>1
<1>9. TimesOK'
  BY <1>1, <1>6, <1>8 DEF TimesOK, TypeOK
<1>10. /\ row'.status = "ACTIVE" /\ row.status = "ACTIVE"
       /\ row'.startPrice = row.startPrice /\ row'.startTime = row.startTime
       /\ row'.minBidIncrement = row.minBidIncrement /\ row'.currentPrice = b.price
       /\ row'.version = row.version + 1
       /\ row'.extensionCount =
             IF Extends(row, b) THEN row.extensionCount + 1 ELSE row.extensionCount
       /\ row'.endTime = IF Extends(row, b) THEN row.endTime + Window ELSE row.endTime
  BY <1>3, <1>4 DEF Outbid, Accepts, Rows
<1>11. /\ b.price >= row.currentPrice + row.minBidIncrement
       /\ b.user # Owner /\ row.startTime <= b.now /\ b.now <= row.endTime
       /\ row.endTime \in Nat /\ row.startTime \in Nat /\ Window \in Nat
       /\ row.extensionCount \in Nat /\ MaxExt \in Nat /\ TxTimeout \in Nat
  BY <1>3, <1>4, RequestAssumption DEF Accepts, Rows
<1>12. row.endTime <= row'.endTime
  BY <1>10, <1>11
<1>13. /\ row.currentPrice = LastPrice /\ row.version = 1 + Len(bids)
  BY <1>10 DEF RowMatchesBids
<1>14. bid.version = Len(bids) + 2
  BY <1>1, <1>8, <1>10, <1>13
<1>15. (PendingIsFresh /\ RowMatchesBids /\ WinnerIsTopBidder)'
  BY <1>8, <1>10, <1>13 DEF PendingIsFresh, RowMatchesBids, LastPrice, WinnerIsTopBidder
<1>16. BidsAscend'
  <2> SUFFICES ASSUME NEW i \in 1 .. Len(bids')
               PROVE  /\ bids'[i].version = i + 1
                      /\ bids'[i].user # Owner
                      /\ bids'[i].price >= (IF i = 1 THEN row.startPrice ELSE bids'[i-1].price)
                                             + row.minBidIncrement
    BY <1>10 DEF BidsAscend
  <2>1. CASE i \in 1 .. Len(bids)
    <3>1. bids'[i] = bids[i] /\ (i # 1 => bids'[i-1] = bids[i-1])
      BY <1>8, <2>1
    <3> QED  BY <2>1, <3>1 DEF BidsAscend
  <2>2. CASE i = Len(bids) + 1
    <3>1. bids'[i] = bid /\ (i # 1 => bids'[i-1] = bids[Len(bids)])
      BY <1>8, <2>2
    <3>2. i = 1 <=> bids = <<>>
      BY <1>4, <2>2
    <3>3. LastPrice = IF i = 1 THEN row.startPrice ELSE bids'[i-1].price
      BY <3>1, <3>2 DEF LastPrice
    <3> QED  BY <1>11, <1>13, <1>14, <2>2, <3>1, <3>3
  <2> QED  BY <1>8, <2>1, <2>2
<1>17. BidsInTime'
  <2> SUFFICES ASSUME NEW i \in 1 .. Len(bids')
               PROVE  bids'[i].createdAt \in row.startTime .. row'.endTime
    BY <1>10 DEF BidsInTime
  <2>1. CASE i \in 1 .. Len(bids)
    <3>1. bids'[i] = bids[i] /\ bids[i].createdAt \in row.startTime .. row.endTime
      BY <1>8, <2>1 DEF BidsInTime
    <3>2. row'.endTime \in Nat
      BY <1>4 DEF Rows
    <3> QED  BY <1>11, <1>12, <3>1, <3>2
  <2>2. CASE i = Len(bids) + 1
    <3>1. row'.endTime \in Nat
      BY <1>4 DEF Rows
    <3> QED  BY <1>4, <1>8, <1>11, <1>12, <2>2, <3>1
  <2> QED  BY <1>8, <2>1, <2>2
<1>18. SnapshotCurrent'
  (* The bid either left the extensions used up or left the deadline behind *)
  (* every NOW() a waiting statement can hold: TxTimeout < Window.          *)
  <2> SUFFICES ASSUME row'.endTime <= ending.now, row'.extensionCount < MaxExt
               PROVE  FALSE
    BY <1>1 DEF SnapshotCurrent
  <2>1. /\ ending.now \in Nat /\ now \in Nat /\ ending.now <= now
        /\ now <= b.now + TxTimeout /\ b.now \in Nat
    BY <1>1, <1>4 DEF TimesOK, TypeOK
  <2>2. CASE Extends(row, b)
    BY <1>10, <1>11, <2>1, <2>2, TimeoutAssumption
  <2>3. CASE ~Extends(row, b)
    <3>1. row.extensionCount < MaxExt /\ row'.endTime = row.endTime
      BY <1>10, <2>3
    <3>2. ~(row.endTime <= b.now + Window)
      BY <2>3, <3>1 DEF Extends
    <3> QED  BY <1>11, <2>1, <3>1, <3>2, TimeoutAssumption
  <2> QED  BY <2>2, <2>3
<1> QED  BY <1>5, <1>7, <1>9, <1>15, <1>16, <1>17, <1>18

-----------------------------------------------------------------------------
LEMMA NextIInv == IInv /\ [Next]_vars => IInv'
<1> SUFFICES ASSUME IInv, [Next]_vars PROVE IInv'
  OBVIOUS
<1>1. CASE Tick
  BY <1>1, TickIInv
<1>2. CASE OwnerStep
  BY <1>2, UpdateRequestIInv, PendingStepIInv DEF OwnerStep
<1>3. CASE SchedulerStep
  BY <1>3, PendingStepIInv, EndWaitIInv, EndIInv DEF SchedulerStep
<1>4. ASSUME NEW t \in Txs, BidStep(t) PROVE IInv'
  BY <1>4, BeginIInv, PlaceBidIInv, InsertBidIInv, CommitIInv, RollbackIInv DEF BidStep
<1>5. CASE UNCHANGED vars
  <2> USE <1>5 DEF vars, IInv
  <2>1. TypeOK'
    BY DEF TypeOK
  <2>2. (DraftFollowsRow /\ TimesOK /\ SnapshotCurrent)'
    BY DEF DraftFollowsRow, TimesOK, SnapshotCurrent, Accepts, Outbid, Extends
  <2> QED  BY <2>1, <2>2, RowUnchanged
<1> QED  BY <1>1, <1>2, <1>3, <1>4, <1>5 DEF Next

(* The inductive invariant holds in every reachable state.                  *)
THEOREM Invariance == Spec => []IInv
<1> QED  BY InitIInv, NextIInv, PTL DEF Spec

(* Every variable stays in its domain; in particular extension_count never  *)
(* passes max_extensions (chk_auction_ext never fires).                     *)
THEOREM TypeCorrect == Spec => []TypeOK
<1>1. IInv => TypeOK
  BY DEF IInv
<1> QED  BY <1>1, Invariance, PTL

(* The row shows the price and the version of the last bid on record.       *)
THEOREM RowAgrees == Spec => []RowMatchesBids
<1>1. IInv => RowMatchesBids
  BY DEF IInv
<1> QED  BY <1>1, Invariance, PTL

(* Every bid on record beats its predecessor by the increment.              *)
THEOREM Ascending == Spec => []BidsAscend
<1>1. IInv => BidsAscend
  BY DEF IInv
<1> QED  BY <1>1, Invariance, PTL

(* Every bid on record was begun while the auction was open.                *)
THEOREM InTime == Spec => []BidsInTime
<1>1. IInv => BidsInTime
  BY DEF IInv
<1> QED  BY <1>1, Invariance, PTL

(* EndAuctions names the top bidder unless the extensions are used up.      *)
THEOREM TopBidderWins == Spec => []WinnerIsTopBidder
<1>1. IInv => WinnerIsTopBidder
  BY DEF IInv
<1> QED  BY <1>1, Invariance, PTL

(* Once ENDED, the row and the bids never change: a transaction that could  *)
(* still write them would hold the lock of an ACTIVE row.                   *)
THEOREM FinalResult == Spec => EndedIsFinal
<1>1. ASSUME IInv, [Next]_vars, row.status = "ENDED"
      PROVE  UNCHANGED <<row, bids>>
  <2>1. CASE Tick
    BY <2>1 DEF Tick
  <2>2. CASE OwnerStep
    BY <1>1, <2>2 DEF OwnerStep, RequestUpdate, UpdateAuction, UpdateFails, DeleteAuction
  <2>3. CASE SchedulerStep
    BY <1>1, <2>3 DEF SchedulerStep, ActivateAuctions, EndSnapshot, EndAuctions, EndNothing
  <2>4. ASSUME NEW t \in Txs, BidStep(t) PROVE UNCHANGED <<row, bids>>
    <3>1. tx[t].st # "inserted"
      BY <1>1, NotActiveNotLocked
    <3> QED  BY <2>4, <3>1 DEF BidStep, Begin, PlaceBid, PlaceBidNoRows, InsertBid, Commit,
                              Rollback
  <2>5. CASE UNCHANGED vars
    BY <2>5 DEF vars
  <2> QED  BY <1>1, <2>1, <2>2, <2>3, <2>4, <2>5 DEF Next
<1> QED  BY <1>1, Invariance, PTL DEF Spec, EndedIsFinal

(* Once the auction is open its terms are fixed.                            *)
THEOREM FixedTerms == Spec => TermsFrozen
<1>1. ASSUME IInv, [Next]_vars, row.status \in {"ACTIVE", "ENDED"}
      PROVE  UNCHANGED <<row.startPrice, row.minBidIncrement, row.startTime>>
  <2>1. CASE Tick
    BY <2>1 DEF Tick
  <2>2. CASE OwnerStep
    BY <1>1, <2>2 DEF OwnerStep, RequestUpdate, UpdateAuction, UpdateFails, DeleteAuction
  <2>3. CASE SchedulerStep
    BY <1>1, <2>3 DEF SchedulerStep, ActivateAuctions, EndSnapshot, EndAuctions, EndNothing,
                      IInv, TypeOK, Rows
  <2>4. ASSUME NEW t \in Txs, Commit(t)
        PROVE  UNCHANGED <<row.startPrice, row.minBidIncrement, row.startTime>>
    <3>1. lock = t
      BY <1>1, <2>4 DEF IInv, DraftFollowsRow, Commit
    <3>2. row' = Outbid(row, tx[t]) /\ row \in Rows
      BY <1>1, <2>4, <3>1 DEF IInv, DraftFollowsRow, Commit, TypeOK
    <3> QED  BY <3>2 DEF Outbid, Rows
  <2>5. ASSUME NEW t \in Txs, BidStep(t), ~Commit(t) PROVE UNCHANGED row
    BY <2>5 DEF BidStep, Begin, PlaceBid, PlaceBidNoRows, InsertBid, Rollback
  <2>6. CASE UNCHANGED vars
    BY <2>6 DEF vars
  <2> QED  BY <1>1, <2>1, <2>2, <2>3, <2>4, <2>5, <2>6 DEF Next
<1> QED  BY <1>1, Invariance, PTL DEF Spec, TermsFrozen

-----------------------------------------------------------------------------
(* AuctionStore implements AuctionLedger: every step of the tables is a     *)
(* step of the ledger or none at all.  Also here: how the deadline moves.   *)

\* A running bid carries an amount a caller sent.
PricesAsked == \A t \in Txs : tx[t].st # "none" => tx[t].price \in Prices

\* Begin sets the amount and nothing changes it while the transaction runs.
LEMMA AskedInvariance == Spec => []PricesAsked
<1>1. Init => PricesAsked
  BY DEF Init, PricesAsked, IdleTx
<1>2. ASSUME IInv, PricesAsked, [Next]_vars PROVE PricesAsked'
  <2>0. tx \in [Txs -> [st : TxStates, user : Users, price : Nat, now : Nat]]
    BY <1>2 DEF IInv, TypeOK
  <2>1. ASSUME NEW t \in Txs, BidStep(t) PROVE PricesAsked'
    <3>1. ASSUME NEW u \in Users, NEW p \in Prices, Begin(t, u, p) PROVE PricesAsked'
      BY <1>2, <2>0, <3>1 DEF Begin, PricesAsked
    <3>2. CASE PlaceBid(t)
      BY <1>2, <2>0, <3>2 DEF PlaceBid, PricesAsked
    <3>3. CASE InsertBid(t)
      BY <1>2, <2>0, <3>3 DEF InsertBid, PricesAsked
    <3>4. CASE PlaceBidNoRows(t) \/ Commit(t) \/ Rollback(t)
      BY <1>2, <2>0, <3>4 DEF PlaceBidNoRows, Commit, Rollback, PricesAsked, IdleTx
    <3> QED  BY <2>1, <3>1, <3>2, <3>3, <3>4 DEF BidStep
  <2>2. CASE UNCHANGED tx
    BY <1>2, <2>2 DEF PricesAsked
  <2> QED
    BY <1>2, <2>1, <2>2 DEF Next, Tick, OwnerStep, SchedulerStep, RequestUpdate, UpdateAuction,
       UpdateFails, DeleteAuction, ActivateAuctions, EndSnapshot, EndAuctions, EndNothing, vars
<1> QED  BY <1>1, <1>2, Invariance, PTL DEF Spec

-----------------------------------------------------------------------------
\* What a commit does to row and bids: the one bid of its transaction.
LEMMA CommitEffect ==
    ASSUME IInv, NEW t \in Txs, Commit(t)
    PROVE  /\ Accepts(row, tx[t])
           /\ row' = Outbid(row, tx[t])
           /\ bids' = Append(bids, [user |-> tx[t].user, price |-> tx[t].price,
                                    version |-> row'.version, createdAt |-> tx[t].now])
           /\ Len(bids') = Len(bids) + 1
           /\ bids'[Len(bids) + 1].user = tx[t].user
           /\ bids'[Len(bids) + 1].price = tx[t].price
           /\ \A i \in 1 .. Len(bids) : bids'[i] = bids[i]
<1> DEFINE e == [user |-> tx[t].user, price |-> tx[t].price,
                 version |-> row'.version, createdAt |-> tx[t].now]
<1>1. /\ Accepts(row, tx[t]) /\ row' = Outbid(row, tx[t]) /\ bids' = Append(bids, e)
  BY DEF IInv, DraftFollowsRow, Commit
<1>2. bids \in Seq(Bids)
  BY DEF IInv, TypeOK
<1>3. e \in Bids
  BY <1>1, OutbidType DEF IInv, TypeOK, Bids, Rows
<1>4. /\ Len(bids') = Len(bids) + 1 /\ bids'[Len(bids) + 1] = e
      /\ \A i \in 1 .. Len(bids) : bids'[i] = bids[i]
  <2> HIDE DEF e
  <2> QED  BY <1>1, <1>2, <1>3
<1> QED  BY <1>1, <1>4

\* Steps that are no commit leave the bids alone, steps of other transactions
\* the row as well.
LEMMA NoCommit ==
    ASSUME [Next]_vars, \A t \in Txs : ~Commit(t)
    PROVE  /\ bids' = bids
           /\ OwnerStep \/ SchedulerStep \/ UNCHANGED row
BY DEF Next, Tick, OwnerStep, SchedulerStep, RequestUpdate, UpdateAuction, UpdateFails,
       DeleteAuction, ActivateAuctions, EndSnapshot, EndAuctions, EndNothing, BidStep, Begin,
       PlaceBid, PlaceBidNoRows, InsertBid, Rollback, vars

(* While ACTIVE the deadline moves only by a committed bid, one window per  *)
(* extension (the CASE expressions of PlaceBid in bids.sql).                *)
THEOREM DeadlineMoves == Spec => DeadlineMovesByBids
<1>1. ASSUME IInv, [Next]_vars, row.status = "ACTIVE", row'.endTime # row.endTime
      PROVE  /\ row'.endTime = row.endTime + Window
             /\ row'.extensionCount = row.extensionCount + 1
             /\ Len(bids') = Len(bids) + 1
  <2>1. row \in Rows /\ bids \in Seq(Bids)
    BY <1>1 DEF IInv, TypeOK
  <2>2. ASSUME \A t \in Txs : ~Commit(t) PROVE FALSE
    <3>1. OwnerStep \/ SchedulerStep
      BY <1>1, <2>2, NoCommit
    <3> QED
      BY <1>1, <2>1, <3>1 DEF OwnerStep, SchedulerStep, RequestUpdate, UpdateAuction, UpdateFails,
         DeleteAuction, ActivateAuctions, EndSnapshot, EndAuctions, EndNothing, Rows
  <2>3. PICK t \in Txs : Commit(t)
    BY <2>2
  <2>4. row' = Outbid(row, tx[t]) /\ Len(bids') = Len(bids) + 1
    BY <1>1, <2>1, <2>3, CommitEffect
  <2>5. Extends(row, tx[t])
    BY <1>1, <2>1, <2>4 DEF Outbid, Rows
  <2> QED  BY <2>1, <2>4, <2>5 DEF Outbid, Rows
<1> QED  BY <1>1, Invariance, PTL DEF Spec, DeadlineMovesByBids

-----------------------------------------------------------------------------
(* The refinement mapping of AuctionStore: users and prices of the bids.    *)
Posted == [i \in 1 .. Len(bids) |-> [user |-> bids[i].user, price |-> bids[i].price]]
Terms  == [price |-> row.startPrice, inc |-> row.minBidIncrement]

\* A function on 1 .. n is a sequence of length n.
LEMMA FunctionIsSeq ==
    ASSUME NEW S, NEW n \in Nat, NEW f \in [1 .. n -> S]
    PROVE  f \in Seq(S) /\ Len(f) = n
OBVIOUS

\* The mapped bids are a sequence, entry by entry that of the table.
LEMMA PostedType ==
    ASSUME TypeOK
    PROVE  /\ Posted \in Seq([user : Users, price : Nat])
           /\ Len(Posted) = Len(bids) /\ Len(bids) \in Nat
           /\ \A i \in 1 .. Len(bids) : Posted[i] = [user |-> bids[i].user, price |-> bids[i].price]
<1>1. bids \in Seq(Bids)
  BY DEF TypeOK
<1>2. \A i \in 1 .. Len(bids) :
         [user |-> bids[i].user, price |-> bids[i].price] \in [user : Users, price : Nat]
  <2> TAKE i \in 1 .. Len(bids)
  <2>1. bids[i] \in Bids
    BY <1>1
  <2>2. bids[i].user \in Users /\ bids[i].price \in Nat
    BY <2>1 DEF Bids
  <2> QED  BY <2>2
<1>3. Len(bids) \in Nat
  BY <1>1
<1>4. /\ Posted \in [1 .. Len(bids) -> [user : Users, price : Nat]]
      /\ \A i \in 1 .. Len(bids) : Posted[i] = [user |-> bids[i].user, price |-> bids[i].price]
  BY <1>2 DEF Posted
<1>5. Posted \in Seq([user : Users, price : Nat]) /\ Len(Posted) = Len(bids)
  BY <1>3, <1>4, FunctionIsSeq
<1> QED  BY <1>3, <1>4, <1>5

\* The seller and the clock change the terms before the auction opens, or nothing.
LEMMA PendingRefines ==
    ASSUME IInv, IInv', UpdateAuction \/ DeleteAuction \/ ActivateAuctions
    PROVE  Ledger!Amend \/ Ledger!Withdraw \/ Ledger!Open
<1>1. row \in Rows /\ row' \in Rows /\ MaxExt \in Nat
  BY RequestAssumption DEF IInv, TypeOK
<1>2. Terms' \in [price : Nat, inc : Nat]
  BY <1>1 DEF Terms, Rows
<1>3. row.status = "PENDING" /\ row.extensionCount = 0 /\ row.winner = NoUser /\ UNCHANGED bids
  BY DEF UpdateAuction, DeleteAuction, ActivateAuctions, IInv, PendingIsFresh
<1>4. CASE UpdateAuction
  BY <1>1, <1>2, <1>3, <1>4 DEF UpdateAuction, Edited, Rows, Terms, Ledger!Amend, Ledger!Terms
<1>5. CASE DeleteAuction
  BY <1>1, <1>2, <1>3, <1>5 DEF DeleteAuction, GoneRow, Terms, Ledger!Withdraw, Ledger!Terms
<1>6. CASE ActivateAuctions
  BY <1>1, <1>3, <1>6 DEF ActivateAuctions, Rows, Ledger!Open
<1> QED  BY <1>4, <1>5, <1>6

\* The result names the bidder of the last entry the statement had seen, which
\* is the last one while overtime is left.
LEMMA EndRefines ==
    ASSUME IInv, EndAuctions
    PROVE  Ledger!Close
<1>1. /\ row \in Rows /\ MaxExt \in Nat /\ UNCHANGED bids
      /\ row.status = "ACTIVE"
      /\ row' = [row EXCEPT !.status = "ENDED", !.winner = BidderOf(ending.seen)]
  BY RequestAssumption DEF IInv, TypeOK, EndAuctions
<1>2. ending.seen \in 0 .. Len(bids)
  BY DEF IInv, TypeOK, TimesOK
<1>3. row.extensionCount < MaxExt => ending.seen = Len(bids)
  BY DEF IInv, SnapshotCurrent, EndAuctions
<1>4. row'.status = "ENDED" /\ row'.winner = BidderOf(ending.seen)
      /\ row'.startPrice = row.startPrice /\ row'.minBidIncrement = row.minBidIncrement
      /\ row'.extensionCount = row.extensionCount
  BY <1>1 DEF Rows
<1>5. BidderOf(ending.seen) = IF ending.seen = 0 THEN NoUser ELSE Posted[ending.seen].user
  <2>1. ending.seen # 0 => ending.seen \in 1 .. Len(bids)
    BY <1>2 DEF IInv, TypeOK
  <2>2. ending.seen # 0 => Posted[ending.seen].user = bids[ending.seen].user
    <3>1. TypeOK
      BY DEF IInv
    <3>2. ending.seen # 0 =>
             Posted[ending.seen] = [user |-> bids[ending.seen].user, price |-> bids[ending.seen].price]
      BY <2>1, <3>1, PostedType
    <3> QED  BY <3>2
  <2> QED  BY <2>2 DEF BidderOf
<1>6. Len(Posted) = Len(bids)
  BY PostedType DEF IInv
<1>7. MaxExt - row.extensionCount > 0 => ending.seen = Len(Posted)
  BY <1>1, <1>3, <1>6 DEF Rows
<1> QED  BY <1>1, <1>2, <1>4, <1>5, <1>6, <1>7 DEF Ledger!Close, Ledger!BidderOf, Posted

\* A commit is a bid of the ledger at the price asked, and may use up overtime.
LEMMA CommitRefines ==
    ASSUME IInv, NEW t \in Txs, Commit(t),
           NEW u, NEW p, u = tx[t].user, p = tx[t].price
    PROVE  Ledger!Bid(u, p)
<1> DEFINE e == [user |-> tx[t].user, price |-> tx[t].price]
<1>1. /\ row \in Rows /\ MaxExt \in Nat /\ Window \in Nat
      /\ tx[t] \in [st : TxStates, user : Users, price : Nat, now : Nat]
  BY RequestAssumption DEF IInv, TypeOK
<1>2. row.status = "ACTIVE" /\ tx[t].user # Owner
      /\ tx[t].price >= row.currentPrice + row.minBidIncrement
      /\ row' = Outbid(row, tx[t])
  BY CommitEffect DEF Accepts
<1>3. /\ row'.status = row.status /\ row'.winner = row.winner
      /\ row'.startPrice = row.startPrice /\ row'.minBidIncrement = row.minBidIncrement
      /\ \/ row'.extensionCount = row.extensionCount
         \/ row.extensionCount < MaxExt /\ row'.extensionCount = row.extensionCount + 1
  BY <1>1, <1>2 DEF Outbid, Extends, Rows
<1>4. \/ MaxExt - row'.extensionCount = MaxExt - row.extensionCount
      \/ /\ MaxExt - row.extensionCount > 0
         /\ MaxExt - row'.extensionCount = MaxExt - row.extensionCount - 1
  BY <1>1, <1>3 DEF Rows
<1>5. Posted' = Append(Posted, e)
  <2>1. /\ Posted \in Seq([user : Users, price : Nat]) /\ Len(Posted) = Len(bids)
        /\ Len(bids) \in Nat /\ e \in [user : Users, price : Nat]
        /\ \A i \in 1 .. Len(bids) : Posted[i] = [user |-> bids[i].user, price |-> bids[i].price]
    BY <1>1, PostedType DEF IInv
  <2>2. Append(Posted, e) = [i \in 1 .. Len(bids) + 1 |-> IF i = Len(bids) + 1 THEN e ELSE Posted[i]]
    BY <2>1
  <2>3. Len(bids') = Len(bids) + 1
        /\ [user |-> bids'[Len(bids) + 1].user, price |-> bids'[Len(bids) + 1].price] = e
        /\ \A i \in 1 .. Len(bids) : bids'[i] = bids[i]
    BY CommitEffect
  <2>4. \A i \in 1 .. Len(bids) + 1 :
           [user |-> bids'[i].user, price |-> bids'[i].price]
              = IF i = Len(bids) + 1 THEN e ELSE Posted[i]
    BY <2>1, <2>3
  <2>5. Posted' = [i \in 1 .. Len(bids) + 1 |-> [user |-> bids'[i].user, price |-> bids'[i].price]]
    BY <2>3 DEF Posted
  <2> QED  BY <2>2, <2>4, <2>5
<1>6. tx[t].price >=
        row.minBidIncrement + (IF Posted = <<>> THEN row.startPrice ELSE Posted[Len(Posted)].price)
  <2>1. row.currentPrice = LastPrice
    BY <1>2 DEF IInv, RowMatchesBids
  <2>2. bids = <<>> <=> Posted = <<>>
    BY PostedType DEF IInv, TypeOK
  <2>3. bids # <<>> => Posted[Len(Posted)].price = bids[Len(bids)].price
    <3>1. bids # <<>> => Len(bids) \in 1 .. Len(bids)
      BY DEF IInv, TypeOK
    <3>2. TypeOK
      BY DEF IInv
    <3>3. bids # <<>> => Posted[Len(bids)] =
             [user |-> bids[Len(bids)].user, price |-> bids[Len(bids)].price]
      BY <3>1, <3>2, PostedType
    <3> QED  BY <3>2, <3>3, PostedType
  <2>4. LastPrice = IF Posted = <<>> THEN row.startPrice ELSE Posted[Len(Posted)].price
    BY <2>2, <2>3 DEF LastPrice
  <2> QED  BY <1>1, <1>2, <2>1, <2>4 DEF Rows
<1> QED  BY <1>2, <1>3, <1>4, <1>5, <1>6 DEF Ledger!Bid, Ledger!Asked, Posted

\* Every step of the tables is a step of the ledger or leaves it alone.
LEMMA StepRefines ==
    ASSUME IInv, IInv', PricesAsked, [Next]_vars
    PROVE  [Ledger!Next]_(Ledger!vars)
<1>1. CASE UpdateAuction \/ DeleteAuction \/ ActivateAuctions
  BY <1>1, PendingRefines DEF Ledger!Next
<1>2. CASE EndAuctions
  BY <1>2, EndRefines DEF Ledger!Next
<1>3. ASSUME NEW t \in Txs, Commit(t) PROVE Ledger!Next
  <2>1. PICK u \in Users, p \in Prices : u = tx[t].user /\ p = tx[t].price
    BY <1>3 DEF IInv, TypeOK, PricesAsked, Commit
  <2>2. Ledger!Bid(u, p)
    BY <1>3, <2>1, CommitRefines
  <2> QED  BY <2>2 DEF Ledger!Next
<1>4. CASE UNCHANGED <<row, bids>>
  BY <1>4 DEF Ledger!vars
<1> QED
  <2>1. CASE \A t \in Txs : ~Commit(t)
    <3>1. bids' = bids /\ (OwnerStep \/ SchedulerStep \/ UNCHANGED row)
      BY <2>1, NoCommit
    <3> QED
      BY <1>1, <1>2, <1>4, <3>1 DEF OwnerStep, SchedulerStep, RequestUpdate, UpdateFails,
         EndSnapshot, EndNothing
  <2> QED  BY <1>3, <2>1

(* The row and the bids, with their locks, snapshots and stale checks,      *)
(* implement the auction that was promised.                                 *)
THEOREM Refinement == Spec => ImplementsLedger
<1>1. Init => Ledger!Init
  <2> SUFFICES ASSUME Init PROVE Ledger!Init
    OBVIOUS
  <2>1. PICK p \in Prices, i \in Incs, s \in StartTimes, e \in EndTimes :
           row = CreatedRow(p, i, s, e)
    BY DEF Init
  <2>2. row.status = "PENDING" /\ row.winner = NoUser /\ MaxExt - row.extensionCount = MaxExt
    BY <2>1, RequestAssumption DEF CreatedRow
  <2>3. Terms \in [price : Nat, inc : Nat]
    BY <2>1, AmountAssumption DEF CreatedRow, Terms
  <2>4. Posted = <<>>
    BY DEF Init, Posted
  <2> QED  BY <2>2, <2>3, <2>4 DEF Ledger!Init, Ledger!Terms, Terms, Posted
<1>2. IInv /\ IInv' /\ PricesAsked /\ [Next]_vars => [Ledger!Next]_(Ledger!vars)
  BY StepRefines
<1> QED  BY <1>1, <1>2, Invariance, AskedInvariance, PTL DEF Spec, ImplementsLedger, Ledger!Spec

-----------------------------------------------------------------------------
(* The actor.                                                               *)

\* What the actor's type invariant says of its own four variables.
OwnTypes ==
    /\ actor \in Actors
    /\ req \in [Reqs -> Requests]
    /\ by \in [Txs -> Reqs \cup {NoReq}]
    /\ landed \in [Reqs -> Nat]

\* EveryBidWasAsked without the uniqueness, which LandedIsOnRecord gives.
SomeoneAsked == \A i \in 1 .. Len(bids) : \E r \in Reqs : landed[r] = i + 1

\* The parts of RequestsMatchRecord that relate requests, transactions and bids.
Record == TxServesRequest /\ LandedIsOnRecord /\ AnsweredOnce /\ AnswersMatchRecord /\ SomeoneAsked

\* The inductive invariant.
AInv == IInv /\ OwnTypes /\ HandlerHoldsTx /\ Record

\* A bid somebody asked for was asked for by exactly one request of that user.
LEMMA AskedOnce ==
    ASSUME OwnTypes, LandedIsOnRecord, Len(bids) \in Nat
    PROVE  SomeoneAsked <=> EveryBidWasAsked
<1>1. ASSUME SomeoneAsked, NEW i \in 1 .. Len(bids)
      PROVE  Cardinality({r \in Reqs : landed[r] = i + 1 /\ req[r].user = bids[i].user}) = 1
  <2>1. PICK r \in Reqs : landed[r] = i + 1
    BY <1>1 DEF SomeoneAsked
  <2>2. landed[r] # 0 /\ landed[r] - 1 = i
    BY <2>1
  <2>3. req[r].user = bids[i].user
    BY <2>2 DEF LandedIsOnRecord
  <2>4. \A s \in Reqs : landed[s] = i + 1 => s = r
    BY <2>1, <2>2 DEF LandedIsOnRecord
  <2>5. {s \in Reqs : landed[s] = i + 1 /\ req[s].user = bids[i].user} = {r}
    BY <2>1, <2>3, <2>4
  <2> QED  BY <2>5, FS_Singleton
<1>2. ASSUME EveryBidWasAsked, NEW i \in 1 .. Len(bids)
      PROVE  \E r \in Reqs : landed[r] = i + 1
  <2>1. Cardinality({r \in Reqs : landed[r] = i + 1 /\ req[r].user = bids[i].user}) = 1
    BY <1>2 DEF EveryBidWasAsked
  <2>2. {r \in Reqs : landed[r] = i + 1 /\ req[r].user = bids[i].user} # {}
    BY <2>1, FS_EmptySet
  <2> QED  BY <2>2
<1> QED  BY <1>1, <1>2 DEF SomeoneAsked, EveryBidWasAsked

\* The invariant of the run and the inductive one.
LEMMA AInvIsRecord == AInv => RequestsMatchRecord
<1> SUFFICES ASSUME AInv PROVE RequestsMatchRecord
  OBVIOUS
<1>1. Len(bids) \in Nat /\ TypeOK
  BY DEF AInv, IInv, TypeOK
<1>2. EveryBidWasAsked
  BY <1>1, AskedOnce DEF AInv, Record
<1> QED  BY <1>1, <1>2 DEF AInv, Record, RequestsMatchRecord, ActorTypeOK, OwnTypes

\* The initial values have their types.
LEMMA DownTypes == Down \in Actors /\ NewReq \in Requests
<1>1. 0 \in 0 .. MaxExt
  BY RequestAssumption
<1> QED  BY <1>1, UsersAssumption DEF Down, Actors, NewReq, Requests, Codes, Statuses

\* The initial states satisfy the inductive invariant.
LEMMA InitAInv == ActorInit => AInv
<1> SUFFICES ASSUME ActorInit PROVE AInv
  OBVIOUS
<1>1. IInv
  BY InitIInv DEF ActorInit
<1>2. OwnTypes
  BY DownTypes DEF ActorInit, OwnTypes
<1>3. HandlerHoldsTx
  BY DEF ActorInit, HandlerHoldsTx, Down
<1>4. Record
  <2>1. /\ \A t \in Txs : tx[t].st = "none"
        /\ \A r \in Reqs : req[r].st = "new" /\ req[r].code = "none" /\ landed[r] = 0
        /\ Len(bids) = 0
    BY DEF ActorInit, Init, IdleTx, NewReq
  <2> QED
    BY <2>1 DEF Record, TxServesRequest, LandedIsOnRecord, AnsweredOnce, AnswersMatchRecord,
                SomeoneAsked
<1> QED  BY <1>1, <1>2, <1>3, <1>4 DEF AInv

-----------------------------------------------------------------------------
(* The actor's steps are steps of the tables.                               *)

\* The handler's transaction is one of Txs.
LEMMA HandlerTx ==
    ASSUME AInv, actor.pc # "select"
    PROVE  /\ actor.tx \in Txs /\ actor.req \in Reqs /\ actor.up
           /\ tx[actor.tx].st # "none" /\ req[actor.req].st = "taken"
           /\ by[actor.tx] = actor.req
BY DEF AInv, OwnTypes, Actors, HandlerHoldsTx

\* Every step of the actor is a step of the tables or leaves them alone.
LEMMA StoreStep == AInv /\ [ActorNext]_allVars => [Next]_vars
<1> SUFFICES ASSUME AInv, [ActorNext]_allVars PROVE [Next]_vars
  OBVIOUS
<1>1. CASE (Tick \/ OwnerStep \/ SchedulerStep) /\ UNCHANGED actorVars
  BY <1>1 DEF Next
<1>2. CASE Start \/ HandleActivate \/ Stop \/ Crash
  BY <1>2 DEF Start, HandleActivate, Stop, Crash, vars
<1>3. CASE HandlerStep
  <2>1. CASE CommitError
    BY <2>1 DEF CommitError, vars
  <2>2. CASE UpdateRow \/ UpdateNoRows \/ InsertRow \/ StatementFails \/ CommitBid
    <3>1. actor.tx \in Txs
      BY <2>2, HandlerTx DEF UpdateRow, UpdateNoRows, InsertRow, StatementFails, CommitBid
    <3>2. BidStep(actor.tx)
      BY <2>2 DEF UpdateRow, UpdateNoRows, InsertRow, StatementFails, CommitBid, BidStep
    <3> QED  BY <3>1, <3>2 DEF Next
  <2> QED  BY <1>3, <2>1, <2>2 DEF HandlerStep
<1>4. ASSUME NEW r \in Reqs, ReqStep(r) PROVE [Next]_vars
  <2>1. CASE (\E u \in Users, p \in Prices : SendBid(r, u, p)) \/ RefuseBid(r) \/ BeginFails(r)
    BY <2>1 DEF SendBid, RefuseBid, BeginFails, vars
  <2>2. CASE BeginBid(r)
    <3>1. PICK t \in Txs : Begin(t, req[r].user, req[r].price)
      BY <2>2 DEF BeginBid
    <3>2. req[r].user \in Users /\ req[r].price \in Prices
      BY <2>2 DEF BeginBid, Takes, AInv, OwnTypes, Requests, Record, AnsweredOnce
    <3> QED  BY <3>1, <3>2 DEF Next, BidStep
  <2> QED  BY <1>4, <2>1, <2>2 DEF ReqStep
<1>5. ASSUME NEW t \in Txs, OrphanCommits(t) \/ OrphanRollsBack(t) PROVE Next
  BY <1>5 DEF OrphanCommits, OrphanRollsBack, Next, BidStep
<1>6. CASE UNCHANGED allVars
  BY <1>6 DEF allVars
<1> QED  BY <1>1, <1>2, <1>3, <1>4, <1>5, <1>6 DEF ActorNext

-----------------------------------------------------------------------------
(* Requests, transactions and bids.                                         *)

\* A request with its answer.
Answered(r, c, p, v) ==
    [st |-> "answered", user |-> req[r].user, price |-> req[r].price,
     code |-> c, gotPrice |-> p, gotVersion |-> v]

\* What Answer does to the requests.
LEMMA AnswerEffect ==
    ASSUME OwnTypes, NEW r \in Reqs, NEW c \in Codes, NEW p \in Nat, NEW v \in Nat,
           Answer(r, c, p, v)
    PROVE  /\ req' \in [Reqs -> Requests]
           /\ req'[r] = Answered(r, c, p, v)
           /\ \A q \in Reqs \ {r} : req'[q] = req[q]
<1>1. req[r] \in Requests /\ req \in [Reqs -> Requests]
  BY DEF OwnTypes
<1>2. [req[r] EXCEPT !.st = "answered", !.code = c, !.gotPrice = p, !.gotVersion = v]
        = Answered(r, c, p, v)
  <2> DEFINE x == [req[r] EXCEPT !.st = "answered", !.code = c, !.gotPrice = p, !.gotVersion = v]
  <2>1. /\ x \in Requests
        /\ x.st = "answered" /\ x.user = req[r].user /\ x.price = req[r].price
        /\ x.code = c /\ x.gotPrice = p /\ x.gotVersion = v
    BY <1>1 DEF Requests
  <2> HIDE DEF x
  <2>2. x = [st |-> x.st, user |-> x.user, price |-> x.price,
             code |-> x.code, gotPrice |-> x.gotPrice, gotVersion |-> x.gotVersion]
    BY <2>1 DEF Requests
  <2> QED  BY <2>1, <2>2 DEF Answered, x
<1>3. Answered(r, c, p, v) \in Requests
  BY <1>1 DEF Requests, Answered
<1>4. req' = [req EXCEPT ![r] = Answered(r, c, p, v)]
  BY <1>2 DEF Answer
<1> QED  BY <1>1, <1>3, <1>4

\* A client sends a request; the actor takes, answers or drops one.  A refusal
\* needs that nothing landed and that no transaction runs for the request.
Sent(r) ==
    /\ req[r].st = "new" /\ req'[r].st = "sent"
    /\ req'[r].code = "none" /\ req'[r].price \in Prices

Moved(r) ==
    /\ req[r].st \in {"sent", "taken"}
    /\ req'[r].user = req[r].user /\ req'[r].price = req[r].price
    /\ \/ req'[r].st \in {"taken", "lost"} /\ req'[r].code = "none"
       \/ req'[r].st = "answered" /\ req'[r].code = "ErrInternal"
       \/ /\ req'[r].st = "answered" /\ req'[r].code \notin {"none", "OK"}
          /\ landed[r] = 0
          /\ \A t \in Txs : tx'[t].st # "none" => by[t] # r

\* Steps that begin and commit no transaction.
LEMMA RequestsMove ==
    ASSUME AInv, UNCHANGED bids, UNCHANGED by, UNCHANGED landed,
           \A t \in Txs : tx'[t].st # "none" =>
               tx[t].st # "none" /\ tx'[t].user = tx[t].user /\ tx'[t].price = tx[t].price,
           \A r \in Reqs : req'[r] = req[r] \/ Sent(r) \/ Moved(r)
    PROVE  Record'
<1> USE DEF AInv, Record
<1>1. \A r \in Reqs : Sent(r) => landed[r] = 0 /\ \A t \in Txs : tx[t].st # "none" => by[t] # r
  BY DEF Sent, AnsweredOnce, TxServesRequest
<1>2. \A r \in Reqs : landed[r] # 0 => req'[r].user = req[r].user /\ req'[r].price = req[r].price
  BY <1>1 DEF Moved
<1>3. TxServesRequest'
  <2>1. ASSUME NEW t \in Txs, tx'[t].st # "none"
        PROVE  /\ by[t] \in Reqs /\ landed[by[t]] = 0
               /\ req'[by[t]].st \notin {"new", "sent"}
               /\ req'[by[t]].code \in {"none", "ErrInternal"}
               /\ tx'[t].user = req'[by[t]].user /\ tx'[t].price = req'[by[t]].price
    <3>1. /\ by[t] \in Reqs /\ landed[by[t]] = 0
          /\ req[by[t]].st \notin {"new", "sent"}
          /\ req[by[t]].code \in {"none", "ErrInternal"}
          /\ tx'[t].user = req[by[t]].user /\ tx'[t].price = req[by[t]].price
      BY <2>1 DEF TxServesRequest
    <3>2. req'[by[t]] = req[by[t]] \/ Moved(by[t])
      BY <1>1, <2>1, <3>1
    <3> QED  BY <2>1, <3>1, <3>2 DEF Moved
  <2>2. ASSUME NEW t \in Txs, NEW s \in Txs, tx'[t].st # "none", tx'[s].st # "none", by[t] = by[s]
        PROVE  t = s
    BY <2>2 DEF TxServesRequest
  <2> QED  BY <2>1, <2>2 DEF TxServesRequest
<1>4. LandedIsOnRecord'
  BY <1>2 DEF LandedIsOnRecord
<1>5. AnsweredOnce'
  BY <1>1 DEF Sent, Moved, AnsweredOnce
<1>6. AnswersMatchRecord'
  <2> SUFFICES ASSUME NEW r \in Reqs
               PROVE  /\ req'[r].code = "OK" =>
                            /\ landed[r] = req'[r].gotVersion /\ landed[r] # 0
                            /\ landed[r] - 1 \in 1 .. Len(bids)
                            /\ bids[landed[r] - 1].user = req'[r].user
                            /\ bids[landed[r] - 1].price = req'[r].price
                            /\ req'[r].gotPrice = req'[r].price
                      /\ req'[r].code \in {"ErrAuctionEnded", "ErrSelfBid", "ErrBidTooLow",
                                           "ErrConflict", "ErrServerShutdown"} => landed[r] = 0
    BY DEF AnswersMatchRecord
  <2>1. CASE req'[r] = req[r]
    BY <2>1 DEF AnswersMatchRecord
  <2>2. CASE Sent(r)
    BY <2>2 DEF Sent
  <2>3. CASE Moved(r)
    BY <2>3 DEF Moved
  <2> QED  BY <2>1, <2>2, <2>3
<1>7. SomeoneAsked'
  BY DEF SomeoneAsked
<1> QED  BY <1>3, <1>4, <1>5, <1>6, <1>7

\* The handler takes a request and begins its transaction.
LEMMA BeginRecord ==
    ASSUME AInv, NEW r \in Reqs, BeginBid(r)
    PROVE  OwnTypes' /\ HandlerHoldsTx' /\ Record'
<1> USE DEF AInv, Record
<1>0. req[r].st = "sent" /\ actor.up /\ actor.pc = "select"
  BY DEF BeginBid, Takes
<1>1. PICK t \in Txs :
         /\ Begin(t, req[r].user, req[r].price)
         /\ actor' = [actor EXCEPT !.pc = "update", !.req = r, !.tx = t]
         /\ by' = [by EXCEPT ![t] = r]
  BY DEF BeginBid
<1>2. req' = [req EXCEPT ![r].st = "taken"] /\ landed' = landed
  BY DEF BeginBid
<1>3. /\ bids' = bids /\ tx[t] = IdleTx
      /\ tx' = [tx EXCEPT ![t] = [st |-> "begun", user |-> req[r].user,
                                  price |-> req[r].price, now |-> now]]
  BY <1>1 DEF Begin
<1>4. /\ tx'[t].st = "begun" /\ tx'[t].user = req[r].user /\ tx'[t].price = req[r].price
      /\ \A s \in Txs \ {t} : tx'[s] = tx[s]
  BY <1>3 DEF IInv, TypeOK
<1>5. by'[t] = r /\ (\A s \in Txs \ {t} : by'[s] = by[s]) /\ by' \in [Txs -> Reqs \cup {NoReq}]
  BY <1>1 DEF OwnTypes
<1>6. /\ req'[r].st = "taken" /\ req'[r].user = req[r].user /\ req'[r].price = req[r].price
      /\ req'[r].code = req[r].code /\ req' \in [Reqs -> Requests]
      /\ \A q \in Reqs \ {r} : req'[q] = req[q]
  BY <1>2 DEF OwnTypes, Requests
<1>7. /\ actor'.pc = "update" /\ actor'.req = r /\ actor'.tx = t /\ actor'.up
      /\ actor' \in Actors
  BY <1>0, <1>1 DEF OwnTypes, Actors
<1>8. landed[r] = 0 /\ req[r].code = "none" /\ \A s \in Txs : tx[s].st # "none" => by[s] # r
  BY <1>0 DEF AnsweredOnce, TxServesRequest
<1>9. OwnTypes'
  BY <1>2, <1>5, <1>6, <1>7 DEF OwnTypes
<1>10. HandlerHoldsTx'
  BY <1>4, <1>5, <1>6, <1>7, TxsAssumption DEF HandlerHoldsTx
<1>11. TxServesRequest'
  <2>1. \A s \in Txs : tx'[s].st # "none" =>
          /\ by'[s] \in Reqs /\ landed'[by'[s]] = 0
          /\ req'[by'[s]].st \notin {"new", "sent"}
          /\ req'[by'[s]].code \in {"none", "ErrInternal"}
          /\ tx'[s].user = req'[by'[s]].user /\ tx'[s].price = req'[by'[s]].price
    BY <1>2, <1>4, <1>5, <1>6, <1>8 DEF TxServesRequest
  <2>2. \A s, q \in Txs : tx'[s].st # "none" /\ tx'[q].st # "none" /\ by'[s] = by'[q] => s = q
    BY <1>4, <1>5, <1>8 DEF TxServesRequest
  <2> QED  BY <2>1, <2>2 DEF TxServesRequest
<1>12. LandedIsOnRecord' /\ SomeoneAsked'
  BY <1>2, <1>3, <1>6, <1>8 DEF LandedIsOnRecord, SomeoneAsked
<1>13. AnsweredOnce' /\ AnswersMatchRecord'
  BY <1>0, <1>2, <1>3, <1>6, <1>8 DEF AnsweredOnce, AnswersMatchRecord
<1> QED  BY <1>9, <1>10, <1>11, <1>12, <1>13

\* A commit, the handler's or an orphan's: one more bid, landed for the one
\* request of the transaction, which is still running or was told nothing.
LEMMA CommitRecord ==
    ASSUME AInv, NEW t \in Txs, Commit(t), UNCHANGED by,
           landed' = [landed EXCEPT ![by[t]] = draft.row.version],
           \/ UNCHANGED req
           \/ /\ req[by[t]].st = "taken"
              /\ Answer(by[t], "OK", draft.row.currentPrice, draft.row.version)
    PROVE  /\ req' \in [Reqs -> Requests] /\ landed' \in [Reqs -> Nat]
           /\ Record'
<1> USE DEF AInv, Record
<1>1. /\ by[t] \in Reqs /\ landed[by[t]] = 0
      /\ req[by[t]].st \notin {"new", "sent"} /\ req[by[t]].code \in {"none", "ErrInternal"}
      /\ tx[t].user = req[by[t]].user /\ tx[t].price = req[by[t]].price
      /\ \A s \in Txs \ {t} : tx[s].st # "none" => by[s] # by[t]
  BY DEF Commit, TxServesRequest
<1> DEFINE r == by[t]
<1>2. /\ row' = draft.row /\ row \in Rows /\ row' \in Rows
      /\ tx'[t].st = "none" /\ \A s \in Txs \ {t} : tx'[s] = tx[s]
  BY DEF Commit, IInv, TypeOK, IdleTx
<1>3. /\ Accepts(row, tx[t]) /\ row' = Outbid(row, tx[t])
      /\ Len(bids') = Len(bids) + 1 /\ Len(bids) \in Nat
      /\ bids'[Len(bids) + 1].user = req[r].user /\ bids'[Len(bids) + 1].price = req[r].price
      /\ \A i \in 1 .. Len(bids) : bids'[i] = bids[i]
  <2>1. bids \in Seq(Bids)
    BY DEF IInv, TypeOK
  <2>2. Len(bids) \in Nat
    BY <2>1
  <2> QED  BY <1>1, <2>2, CommitEffect
<1>4. row'.version = Len(bids) + 2 /\ row'.currentPrice = req[r].price
  <2>1. row.status = "ACTIVE" /\ row.version = 1 + Len(bids)
    BY <1>3 DEF Accepts, IInv, RowMatchesBids
  <2> QED  BY <1>1, <1>2, <1>3, <2>1 DEF Outbid, Rows
<1>5. /\ landed'[r] = Len(bids) + 2 /\ landed' \in [Reqs -> Nat]
      /\ \A q \in Reqs \ {r} : landed'[q] = landed[q]
  BY <1>1, <1>2, <1>3, <1>4 DEF OwnTypes
<1>6. \A q \in Reqs : landed[q] \in Nat /\ landed[q] # Len(bids) + 2
                     /\ (landed[q] # 0 => landed[q] - 1 \in 1 .. Len(bids))
  BY <1>3 DEF OwnTypes, LandedIsOnRecord
<1>7. /\ req' \in [Reqs -> Requests]
      /\ \A q \in Reqs \ {r} : req'[q] = req[q]
      /\ req'[r].user = req[r].user /\ req'[r].price = req[r].price
      /\ \/ req'[r] = req[r]
         \/ /\ req'[r].st = "answered" /\ req'[r].code = "OK"
            /\ req'[r].gotPrice = req[r].price /\ req'[r].gotVersion = Len(bids) + 2
  <2>1. CASE UNCHANGED req
    BY <2>1 DEF OwnTypes
  <2>2. CASE Answer(r, "OK", draft.row.currentPrice, draft.row.version)
    <3>1. PICK p \in Nat, v \in Nat : p = draft.row.currentPrice /\ v = draft.row.version
      BY <1>2 DEF Rows
    <3>2. PICK q \in Reqs : q = r
      BY <1>1
    <3>3. Answer(q, "OK", p, v)
      BY <2>2, <3>1, <3>2 DEF Answer
    <3>4. /\ req' \in [Reqs -> Requests] /\ req'[q] = Answered(q, "OK", p, v)
          /\ \A s \in Reqs \ {q} : req'[s] = req[s]
      BY <3>3, AnswerEffect DEF Codes
    <3> QED  BY <1>2, <1>4, <3>1, <3>2, <3>4 DEF Answered
  <2> QED  BY <2>1, <2>2
<1>8. TxServesRequest'
  <2>1. ASSUME NEW s \in Txs, tx'[s].st # "none"
        PROVE  /\ by[s] \in Reqs /\ landed'[by[s]] = 0
               /\ req'[by[s]].st \notin {"new", "sent"}
               /\ req'[by[s]].code \in {"none", "ErrInternal"}
               /\ tx'[s].user = req'[by[s]].user /\ tx'[s].price = req'[by[s]].price
    <3>1. s # t /\ tx'[s] = tx[s] /\ by[s] # r /\ by[s] \in Reqs
      BY <1>1, <1>2, <2>1 DEF TxServesRequest
    <3>2. landed'[by[s]] = landed[by[s]] /\ req'[by[s]] = req[by[s]]
      BY <1>5, <1>7, <3>1
    <3> QED  BY <2>1, <3>1, <3>2 DEF TxServesRequest
  <2>2. ASSUME NEW s \in Txs, NEW q \in Txs, tx'[s].st # "none", tx'[q].st # "none", by[s] = by[q]
        PROVE  s = q
    BY <1>2, <2>2 DEF TxServesRequest
  <2> QED  BY <2>1, <2>2 DEF TxServesRequest
<1>9. LandedIsOnRecord'
  <2>1. ASSUME NEW q \in Reqs, landed'[q] # 0
        PROVE  /\ landed'[q] - 1 \in 1 .. Len(bids')
               /\ bids'[landed'[q] - 1].user = req'[q].user
               /\ bids'[landed'[q] - 1].price = req'[q].price
    <3>1. CASE q = r
      BY <1>3, <1>5, <1>7, <3>1
    <3>2. CASE q # r
      <4>1. landed'[q] = landed[q] /\ req'[q] = req[q] /\ landed[q] - 1 \in 1 .. Len(bids)
        BY <1>5, <1>6, <1>7, <2>1, <3>2
      <4>2. bids'[landed[q] - 1] = bids[landed[q] - 1]
        BY <1>3, <4>1
      <4> QED  BY <1>3, <2>1, <4>1, <4>2 DEF LandedIsOnRecord
    <3> QED  BY <3>1, <3>2
  <2>2. ASSUME NEW q \in Reqs, NEW s \in Reqs, landed'[q] # 0, landed'[q] = landed'[s]
        PROVE  q = s
    BY <1>5, <1>6, <2>2 DEF LandedIsOnRecord
  <2> QED  BY <2>1, <2>2 DEF LandedIsOnRecord
<1>10. AnsweredOnce'
  BY <1>1, <1>5, <1>7 DEF AnsweredOnce
<1>11. AnswersMatchRecord'
  <2> SUFFICES ASSUME NEW q \in Reqs
               PROVE  /\ req'[q].code = "OK" =>
                            /\ landed'[q] = req'[q].gotVersion /\ landed'[q] # 0
                            /\ req'[q].gotPrice = req'[q].price
                      /\ req'[q].code \in {"ErrAuctionEnded", "ErrSelfBid", "ErrBidTooLow",
                                           "ErrConflict", "ErrServerShutdown"} => landed'[q] = 0
    BY <1>9 DEF AnswersMatchRecord, LandedIsOnRecord
  <2>1. CASE q = r
    BY <1>1, <1>3, <1>5, <1>7, <2>1
  <2>2. CASE q # r
    BY <1>5, <1>7, <2>2 DEF AnswersMatchRecord
  <2> QED  BY <2>1, <2>2
<1>12. SomeoneAsked'
  <2> SUFFICES ASSUME NEW i \in 1 .. Len(bids') PROVE \E q \in Reqs : landed'[q] = i + 1
    BY DEF SomeoneAsked
  <2>1. CASE i = Len(bids) + 1
    BY <1>1, <1>3, <1>5, <2>1
  <2>2. CASE i # Len(bids) + 1
    <3>1. i \in 1 .. Len(bids)
      BY <1>3, <2>2
    <3>2. PICK q \in Reqs : landed[q] = i + 1
      BY <3>1 DEF SomeoneAsked
    <3>3. q # r
      BY <1>1, <3>1, <3>2
    <3> QED  BY <1>5, <3>2, <3>3
  <2> QED  BY <2>1, <2>2
<1> QED  BY <1>5, <1>7, <1>8, <1>9, <1>10, <1>11, <1>12

-----------------------------------------------------------------------------
(* One lemma per group of actions.                                          *)

\* The handler is done with its request.
LEMMA ReadyTypes ==
    ASSUME OwnTypes
    PROVE  /\ Ready \in Actors
           /\ Ready.pc = "select" /\ Ready.tx = NoTx /\ Ready.up = actor.up
           /\ Ready.status = actor.status /\ Ready.currentPrice = actor.currentPrice
           /\ Ready.version = actor.version /\ Ready.endTime = actor.endTime
           /\ Ready.minBidIncrement = actor.minBidIncrement
BY DEF OwnTypes, Ready, Actors

\* Start, the clock, the seller and the scheduler touch no request.
LEMMA OutsideAInv ==
    ASSUME AInv, \/ (Tick \/ OwnerStep \/ SchedulerStep) /\ UNCHANGED actorVars
                 \/ Start \/ HandleActivate \/ UNCHANGED allVars
    PROVE  OwnTypes' /\ HandlerHoldsTx' /\ Record'
<1> USE DEF AInv
<1>1. UNCHANGED bids /\ UNCHANGED tx /\ UNCHANGED req /\ UNCHANGED by /\ UNCHANGED landed
  BY DEF actorVars, allVars, vars, Tick, OwnerStep, RequestUpdate, UpdateAuction, UpdateFails,
         DeleteAuction, SchedulerStep, ActivateAuctions, EndSnapshot, EndAuctions, EndNothing,
         Start, HandleActivate
<1>2. /\ actor' \in Actors /\ actor'.pc = actor.pc /\ actor'.tx = actor.tx
      /\ (actor.pc # "select" => actor'.req = actor.req /\ actor'.up)
  <2>1. CASE Start
    <3>1. actor.pc = "select" /\ actor.tx = NoTx /\ row \in Rows
      BY <2>1 DEF Start, HandlerHoldsTx, OwnTypes, Actors, IInv, TypeOK
    <3>2. actor' \in Actors /\ actor'.up /\ actor'.pc = "select" /\ actor'.tx = NoTx
      BY <2>1, <3>1, DownTypes DEF Start, Down, Actors, Rows
    <3> QED  BY <3>1, <3>2
  <2>2. CASE HandleActivate
    BY <2>2 DEF HandleActivate, OwnTypes, Actors, Statuses, HandlerHoldsTx
  <2>3. CASE UNCHANGED actor
    BY <2>3 DEF OwnTypes, HandlerHoldsTx
  <2> QED  BY <2>1, <2>2, <2>3 DEF actorVars, allVars
<1>3. OwnTypes'
  BY <1>1, <1>2 DEF OwnTypes
<1>4. HandlerHoldsTx'
  BY <1>1, <1>2 DEF HandlerHoldsTx
<1>5. Record'
  BY <1>1, RequestsMove
<1> QED  BY <1>3, <1>4, <1>5

\* A client sends its bid.
LEMMA SendAInv ==
    ASSUME AInv, NEW r \in Reqs, NEW u \in Users, NEW p \in Prices, SendBid(r, u, p)
    PROVE  OwnTypes' /\ HandlerHoldsTx' /\ Record'
<1> USE DEF AInv
<1>1. /\ UNCHANGED bids /\ UNCHANGED tx /\ UNCHANGED by /\ UNCHANGED landed /\ UNCHANGED actor
      /\ req[r].st = "new" /\ req[r].code = "none" /\ p \in Nat
  BY AmountAssumption DEF SendBid, vars, Record, AnsweredOnce, OwnTypes, Requests
<1>2. /\ req' \in [Reqs -> Requests]
      /\ req'[r].st = "sent" /\ req'[r].code = "none" /\ req'[r].price = p
      /\ \A q \in Reqs \ {r} : req'[q] = req[q]
  BY <1>1 DEF SendBid, OwnTypes, Requests
<1>3. OwnTypes'
  BY <1>1, <1>2 DEF OwnTypes
<1>4. HandlerHoldsTx'
  BY <1>1, <1>2 DEF HandlerHoldsTx
<1>5. \A q \in Reqs : req'[q] = req[q] \/ Sent(q) \/ Moved(q)
  BY <1>1, <1>2 DEF Sent
<1>6. Record'
  BY <1>1, <1>5, RequestsMove
<1> QED  BY <1>3, <1>4, <1>6

\* handlePlaceBid answers from its cache, or fails to begin.
LEMMA RefuseAInv ==
    ASSUME AInv, NEW r \in Reqs, RefuseBid(r) \/ BeginFails(r)
    PROVE  OwnTypes' /\ HandlerHoldsTx' /\ Record'
<1> USE DEF AInv
<1>1. /\ UNCHANGED bids /\ UNCHANGED tx /\ UNCHANGED by /\ UNCHANGED landed /\ UNCHANGED actor
      /\ req[r].st = "sent" /\ actor.pc = "select"
  BY DEF RefuseBid, BeginFails, Takes, vars
<1>2. PICK c \in Codes \ {"none", "OK"}, p \in Nat, v \in Nat : Answer(r, c, p, v)
  <2>1. actor.currentPrice \in Nat /\ actor.version \in Nat
    BY DEF OwnTypes, Actors
  <2>2. Refusal(r) \in {"none", "ErrAuctionEnded", "ErrSelfBid", "ErrBidTooLow"}
    BY DEF Refusal
  <2>3. CASE BeginFails(r)
    BY <2>3 DEF BeginFails, Codes
  <2>4. CASE RefuseBid(r) /\ Refusal(r) = "ErrBidTooLow"
    BY <2>1, <2>4 DEF RefuseBid, Codes
  <2>5. CASE RefuseBid(r) /\ Refusal(r) # "ErrBidTooLow"
    <3>1. Refusal(r) \in Codes \ {"none", "OK"} /\ Answer(r, Refusal(r), 0, 0)
      BY <2>2, <2>5 DEF RefuseBid, Codes
    <3>2. PICK c \in Codes \ {"none", "OK"} : c = Refusal(r)
      BY <3>1
    <3>3. Answer(r, c, 0, 0)
      BY <3>1, <3>2 DEF Answer
    <3> QED  BY <3>3
  <2> QED  BY <2>3, <2>4, <2>5
<1>3. /\ req' \in [Reqs -> Requests] /\ req'[r] = Answered(r, c, p, v)
      /\ \A q \in Reqs \ {r} : req'[q] = req[q]
  BY <1>2, AnswerEffect
<1>4. OwnTypes'
  BY <1>1, <1>3 DEF OwnTypes
<1>5. HandlerHoldsTx'
  BY <1>1, <1>3 DEF HandlerHoldsTx
<1>6. landed[r] = 0 /\ \A t \in Txs : tx[t].st # "none" => by[t] # r
  BY <1>1 DEF Record, AnsweredOnce, TxServesRequest
<1>7. Moved(r)
  BY <1>1, <1>3, <1>6 DEF Moved, Answered
<1>8. Record'
  BY <1>1, <1>3, <1>7, RequestsMove
<1> QED  BY <1>4, <1>5, <1>8

\* The loop stops between two messages, or the process dies anywhere.
LEMMA StopAInv ==
    ASSUME AInv, Stop \/ Crash
    PROVE  OwnTypes' /\ HandlerHoldsTx' /\ Record'
<1> USE DEF AInv
<1>1. /\ UNCHANGED bids /\ UNCHANGED tx /\ UNCHANGED by /\ UNCHANGED landed
      /\ actor' = Down
  BY DEF Stop, Crash, vars
<1>2. /\ req' \in [Reqs -> Requests]
      /\ \A r \in Reqs : req'[r] = req[r] \/ Moved(r)
  <2>1. CASE Stop
    <3>1. \A r \in Reqs : req[r].st = "sent" =>
             landed[r] = 0 /\ \A t \in Txs : tx[t].st # "none" => by[t] # r
      BY DEF Record, AnsweredOnce, TxServesRequest
    <3>2. ASSUME NEW r \in Reqs PROVE req'[r] \in Requests /\ (req'[r] = req[r] \/ Moved(r))
      <4>1. req[r] \in Requests
        BY DEF OwnTypes
      <4>2. CASE req[r].st # "sent"
        BY <2>1, <4>1, <4>2 DEF Stop
      <4>3. CASE req[r].st = "sent"
        <5>1. req'[r] = [req[r] EXCEPT !.st = "answered", !.code = "ErrServerShutdown"]
          BY <2>1, <4>3 DEF Stop
        <5>2. /\ req'[r] \in Requests /\ req'[r].user = req[r].user /\ req'[r].price = req[r].price
              /\ req'[r].st = "answered" /\ req'[r].code = "ErrServerShutdown"
          BY <4>1, <5>1 DEF Requests, Codes
        <5> QED  BY <1>1, <3>1, <4>3, <5>2 DEF Moved
      <4> QED  BY <4>2, <4>3
    <3>3. req' = [r \in Reqs |-> req'[r]]
      BY <2>1 DEF Stop
    <3> QED  BY <3>2, <3>3
  <2>2. CASE Crash
    <3>1. \A r \in Reqs : req[r].st \in {"sent", "taken"} => req[r].code = "none"
      BY DEF Record, AnsweredOnce, OwnTypes, Requests
    <3>2. ASSUME NEW r \in Reqs PROVE req'[r] \in Requests /\ (req'[r] = req[r] \/ Moved(r))
      <4>1. req[r] \in Requests
        BY DEF OwnTypes
      <4>2. CASE req[r].st \notin {"sent", "taken"}
        BY <2>2, <4>1, <4>2 DEF Crash
      <4>3. CASE req[r].st \in {"sent", "taken"}
        <5>1. req'[r] = [req[r] EXCEPT !.st = "lost"]
          BY <2>2, <4>3 DEF Crash
        <5>2. /\ req'[r] \in Requests /\ req'[r].user = req[r].user /\ req'[r].price = req[r].price
              /\ req'[r].st = "lost" /\ req'[r].code = "none"
          BY <3>1, <4>1, <4>3, <5>1 DEF Requests
        <5> QED  BY <4>3, <5>2 DEF Moved
      <4> QED  BY <4>2, <4>3
    <3>3. req' = [r \in Reqs |-> req'[r]]
      BY <2>2 DEF Crash
    <3> QED  BY <3>2, <3>3
  <2> QED  BY <2>1, <2>2
<1>3. OwnTypes'
  BY <1>1, <1>2, DownTypes DEF OwnTypes
<1>4. HandlerHoldsTx'
  BY <1>1 DEF HandlerHoldsTx, Down
<1>5. Record'
  BY <1>1, <1>2, RequestsMove
<1> QED  BY <1>3, <1>4, <1>5

\* The UPDATE or the INSERT goes through.
LEMMA AdvanceAInv ==
    ASSUME AInv, UpdateRow \/ InsertRow
    PROVE  OwnTypes' /\ HandlerHoldsTx' /\ Record'
<1> USE DEF AInv
<1>1. /\ actor.tx \in Txs /\ actor.req \in Reqs /\ actor.up
      /\ tx[actor.tx].st # "none" /\ req[actor.req].st = "taken" /\ by[actor.tx] = actor.req
  BY HandlerTx DEF UpdateRow, InsertRow
<1>2. UNCHANGED bids /\ UNCHANGED req /\ UNCHANGED by /\ UNCHANGED landed
  BY DEF UpdateRow, InsertRow, PlaceBid, InsertBid
<1>3. PICK x \in {"updated", "inserted"} : tx' = [tx EXCEPT ![actor.tx].st = x]
  BY DEF UpdateRow, InsertRow, PlaceBid, InsertBid
<1>4. tx \in [Txs -> [st : TxStates, user : Users, price : Nat, now : Nat]]
  BY DEF IInv, TypeOK
<1>5. /\ tx'[actor.tx].st = x
      /\ \A t \in Txs : /\ tx'[t].user = tx[t].user /\ tx'[t].price = tx[t].price
                        /\ t # actor.tx => tx'[t] = tx[t]
  BY <1>1, <1>3, <1>4
<1>6. /\ actor'.tx = actor.tx /\ actor'.req = actor.req /\ actor'.up /\ actor' \in Actors
      /\ actor'.pc = (IF x = "updated" THEN "insert" ELSE "commit")
  <2>1. CASE UpdateRow
    <3>1. tx' = [tx EXCEPT ![actor.tx].st = "updated"]
      BY <2>1 DEF UpdateRow, PlaceBid
    <3>2. tx'[actor.tx].st = "updated"
      BY <1>1, <1>4, <3>1
    <3> QED  BY <1>1, <1>5, <2>1, <3>2 DEF UpdateRow, OwnTypes, Actors
  <2>2. CASE InsertRow
    <3>1. tx' = [tx EXCEPT ![actor.tx].st = "inserted"]
      BY <2>2 DEF InsertRow, InsertBid
    <3>2. tx'[actor.tx].st = "inserted"
      BY <1>1, <1>4, <3>1
    <3> QED  BY <1>1, <1>5, <2>2, <3>2 DEF InsertRow, OwnTypes, Actors
  <2> QED  BY <2>1, <2>2
<1>7. OwnTypes'
  BY <1>2, <1>6 DEF OwnTypes
<1>8. HandlerHoldsTx'
  BY <1>1, <1>2, <1>5, <1>6, TxsAssumption DEF HandlerHoldsTx
<1>9. Record'
  BY <1>1, <1>2, <1>5, RequestsMove
<1> QED  BY <1>7, <1>8, <1>9

\* The handler gives up: the transaction is rolled back, or its COMMIT is left
\* to the server and the client told "internal error".
LEMMA GiveUpAInv ==
    ASSUME AInv, UpdateNoRows \/ StatementFails \/ CommitError
    PROVE  OwnTypes' /\ HandlerHoldsTx' /\ Record'
<1> USE DEF AInv
<1>1. /\ actor.tx \in Txs /\ actor.req \in Reqs /\ actor.up
      /\ tx[actor.tx].st # "none" /\ req[actor.req].st = "taken" /\ by[actor.tx] = actor.req
  BY HandlerTx DEF UpdateNoRows, StatementFails, CommitError
<1>2. UNCHANGED bids /\ UNCHANGED by /\ UNCHANGED landed /\ actor' = Ready
  BY DEF UpdateNoRows, StatementFails, CommitError, PlaceBidNoRows, Rollback, vars
<1>3. tx \in [Txs -> [st : TxStates, user : Users, price : Nat, now : Nat]]
  BY DEF IInv, TypeOK
<1>4. \/ UNCHANGED tx
      \/ tx' = [tx EXCEPT ![actor.tx] = IdleTx]
  BY DEF UpdateNoRows, StatementFails, CommitError, PlaceBidNoRows, Rollback, vars
<1>5. \A t \in Txs : tx'[t].st # "none" =>
         tx[t].st # "none" /\ tx'[t].user = tx[t].user /\ tx'[t].price = tx[t].price
  BY <1>1, <1>3, <1>4 DEF IdleTx
<1>6. PICK q \in Reqs, c \in {"ErrConflict", "ErrInternal"}, p \in Nat, v \in Nat :
         /\ q = actor.req /\ Answer(q, c, p, v)
         /\ c = "ErrConflict" => tx'[actor.tx].st = "none"
  <2>1. actor.currentPrice \in Nat /\ actor.version \in Nat
    BY DEF OwnTypes, Actors
  <2>2. PICK q \in Reqs : q = actor.req
    BY <1>1
  <2>3. CASE UpdateNoRows
    <3>1. tx'[actor.tx].st = "none"
      BY <1>1, <1>3, <2>3 DEF UpdateNoRows, PlaceBidNoRows, IdleTx
    <3>2. Answer(q, "ErrConflict", actor.currentPrice, actor.version)
      BY <2>2, <2>3 DEF UpdateNoRows, Answer
    <3>3. PICK p \in Nat, v \in Nat : p = actor.currentPrice /\ v = actor.version
      BY <2>1
    <3>4. Answer(q, "ErrConflict", p, v)
      BY <3>2, <3>3 DEF Answer
    <3> QED  BY <2>2, <3>1, <3>4
  <2>4. CASE StatementFails \/ CommitError
    <3>1. Answer(q, "ErrInternal", 0, 0)
      BY <2>2, <2>4 DEF StatementFails, CommitError, Answer
    <3> QED  BY <2>2, <3>1
  <2> QED  BY <2>3, <2>4
<1>7. /\ req' \in [Reqs -> Requests] /\ req'[q] = Answered(q, c, p, v)
      /\ \A r \in Reqs \ {q} : req'[r] = req[r]
  BY <1>6, AnswerEffect DEF Codes
<1>8. OwnTypes'
  BY <1>2, <1>7, ReadyTypes DEF OwnTypes
<1>9. HandlerHoldsTx'
  BY <1>2, ReadyTypes DEF HandlerHoldsTx
<1>10. Moved(q)
  <2>1. landed[q] = 0 /\ \A t \in Txs : tx[t].st # "none" /\ by[t] = q => t = actor.tx
    BY <1>1, <1>6 DEF Record, TxServesRequest
  <2>2. c = "ErrConflict" => \A t \in Txs : tx'[t].st # "none" => by[t] # q
    BY <1>5, <1>6, <2>1
  <2> QED  BY <1>1, <1>6, <1>7, <2>1, <2>2 DEF Moved, Answered
<1>11. Record'
  BY <1>2, <1>5, <1>7, <1>10, RequestsMove
<1> QED  BY <1>8, <1>9, <1>11

\* The handler's COMMIT goes through and the cache follows it.
LEMMA CommitBidAInv ==
    ASSUME AInv, CommitBid
    PROVE  OwnTypes' /\ HandlerHoldsTx' /\ Record'
<1> USE DEF AInv
<1>1. /\ actor.tx \in Txs /\ actor.req \in Reqs /\ actor.up
      /\ tx[actor.tx].st # "none" /\ req[actor.req].st = "taken" /\ by[actor.tx] = actor.req
  BY HandlerTx DEF CommitBid
<1>2. PICK t \in Txs : t = actor.tx
  BY <1>1
<1>3. Commit(t)
  BY <1>2 DEF CommitBid, Commit
<1>4. /\ UNCHANGED by /\ landed' = [landed EXCEPT ![by[t]] = draft.row.version]
      /\ req[by[t]].st = "taken"
      /\ Answer(by[t], "OK", draft.row.currentPrice, draft.row.version)
  BY <1>1, <1>2 DEF CommitBid, Answer
<1>5. req' \in [Reqs -> Requests] /\ landed' \in [Reqs -> Nat] /\ Record'
  BY <1>3, <1>4, CommitRecord
<1>6. actor' \in Actors /\ actor'.pc = "select" /\ actor'.tx = NoTx
  <2>1. draft.row \in Rows
    BY DEF IInv, TypeOK
  <2> QED  BY <2>1, ReadyTypes DEF CommitBid, Actors, Rows
<1>7. OwnTypes'
  BY <1>4, <1>5, <1>6 DEF OwnTypes
<1>8. HandlerHoldsTx'
  BY <1>6 DEF HandlerHoldsTx
<1> QED  BY <1>5, <1>7, <1>8

\* The server ends a transaction the handler has given up.
LEMMA OrphanAInv ==
    ASSUME AInv, NEW t \in Txs, OrphanCommits(t) \/ OrphanRollsBack(t)
    PROVE  OwnTypes' /\ HandlerHoldsTx' /\ Record'
<1> USE DEF AInv
<1>1. UNCHANGED actor /\ UNCHANGED by /\ UNCHANGED req /\ actor.tx # t
  BY DEF OrphanCommits, OrphanRollsBack, Orphan, actorVars
<1>2. tx' = [tx EXCEPT ![t] = IdleTx]
  BY DEF OrphanCommits, OrphanRollsBack, Commit, Rollback
<1>3. /\ tx'[t] = IdleTx /\ \A s \in Txs \ {t} : tx'[s] = tx[s]
      /\ \A s \in Txs : tx'[s].st # "none" => s # t
  BY <1>2 DEF IInv, TypeOK, IdleTx
<1>4. actor.pc # "select" => actor.tx \in Txs
  BY HandlerTx
<1>5. HandlerHoldsTx'
  BY <1>1, <1>3, <1>4 DEF HandlerHoldsTx
<1>6. CASE OrphanCommits(t)
  <2>1. Commit(t) /\ landed' = [landed EXCEPT ![by[t]] = draft.row.version]
    BY <1>6 DEF OrphanCommits
  <2>2. landed' \in [Reqs -> Nat] /\ Record'
    BY <1>1, <2>1, CommitRecord
  <2> QED  BY <1>1, <1>5, <2>2 DEF OwnTypes
<1>7. CASE OrphanRollsBack(t)
  <2>1. UNCHANGED landed /\ UNCHANGED bids
    BY <1>7 DEF OrphanRollsBack, Rollback, actorVars
  <2>2. \A s \in Txs : tx'[s].st # "none" => tx'[s] = tx[s]
    BY <1>3
  <2>3. Record'
    BY <1>1, <2>1, <2>2, RequestsMove
  <2> QED  BY <1>1, <1>5, <2>1, <2>3 DEF OwnTypes
<1> QED  BY <1>6, <1>7

\* Every step preserves the inductive invariant.
LEMMA NextAInv == AInv /\ [ActorNext]_allVars => AInv'
<1> SUFFICES ASSUME AInv, [ActorNext]_allVars PROVE AInv'
  OBVIOUS
<1>1. IInv'
  <2>1. [Next]_vars
    BY StoreStep
  <2> QED  BY <2>1, NextIInv DEF AInv
<1>2. OwnTypes' /\ HandlerHoldsTx' /\ Record'
  <2>1. CASE \/ (Tick \/ OwnerStep \/ SchedulerStep) /\ UNCHANGED actorVars
             \/ Start \/ HandleActivate \/ UNCHANGED allVars
    BY <2>1, OutsideAInv
  <2>2. CASE Stop \/ Crash
    BY <2>2, StopAInv
  <2>3. CASE HandlerStep
    BY <2>3, AdvanceAInv, GiveUpAInv, CommitBidAInv DEF HandlerStep
  <2>4. ASSUME NEW r \in Reqs, ReqStep(r) PROVE OwnTypes' /\ HandlerHoldsTx' /\ Record'
    BY <2>4, SendAInv, RefuseAInv, BeginRecord DEF ReqStep
  <2>5. ASSUME NEW t \in Txs, OrphanCommits(t) \/ OrphanRollsBack(t)
        PROVE  OwnTypes' /\ HandlerHoldsTx' /\ Record'
    BY <2>5, OrphanAInv
  <2> QED  BY <2>1, <2>2, <2>3, <2>4, <2>5 DEF ActorNext
<1> QED  BY <1>1, <1>2 DEF AInv

\* The inductive invariant holds.
LEMMA ActorInvariance == ActorSpec => []AInv
BY InitAInv, NextAInv, PTL DEF ActorSpec

-----------------------------------------------------------------------------
(* An actor over the tables does nothing to them but what AuctionStore      *)
(* allows: every theorem about AuctionStore holds of it.                    *)
THEOREM ActorImplementsStore == ActorSpec => Spec
<1>1. ActorInit => Init
  BY DEF ActorInit
<1> QED  BY <1>1, StoreStep, ActorInvariance, PTL DEF ActorSpec, Spec

(* In particular the auction the bidders were promised.                     *)
THEOREM ActorImplementsLedger == ActorSpec => ImplementsLedger
BY ActorImplementsStore, Refinement, PTL

(* What an answer says is on record, and every bid on record was asked for  *)
(* by exactly one request (handlePlaceBid, its replies and its rollbacks).  *)
THEOREM RecordMatches == ActorSpec => []RequestsMatchRecord
BY ActorInvariance, AInvIsRecord, PTL

-----------------------------------------------------------------------------
(* The cache.                                                               *)

\* What the row and the bids do behind the back of a cache.
LEMMA RowMoves ==
    ASSUME IInv, [Next]_vars
    PROVE  /\ Len(bids) <= Len(bids') /\ \A i \in 1 .. Len(bids) : bids'[i] = bids[i]
           /\ row.status = "GONE" => row'.status = "GONE"
           /\ row'.status # "GONE" => row.version <= row'.version
           /\ row.status \in {"ACTIVE", "ENDED"} =>
                 /\ row'.status \in {"ACTIVE", "ENDED"}
                 /\ row.endTime <= row'.endTime
           /\ EditFields = {} /\ row'.status # "GONE" =>
                 /\ row'.minBidIncrement = row.minBidIncrement
                 /\ row.currentPrice <= row'.currentPrice
<1>1. /\ row \in Rows /\ bids \in Seq(Bids) /\ Len(bids) \in Nat /\ Window \in Nat
      /\ editing \in [st : {"none", "checked"}, in : EditRequests]
  BY RequestAssumption DEF IInv, TypeOK
<1>2. ASSUME NEW t \in Txs, Commit(t)
      PROVE  /\ Len(bids) <= Len(bids') /\ \A i \in 1 .. Len(bids) : bids'[i] = bids[i]
             /\ row.status = "ACTIVE" /\ row'.status = "ACTIVE"
             /\ row.version <= row'.version /\ row.endTime <= row'.endTime
             /\ row'.minBidIncrement = row.minBidIncrement
             /\ row.currentPrice <= row'.currentPrice
  <2>1. /\ Accepts(row, tx[t]) /\ row' = Outbid(row, tx[t]) /\ Len(bids') = Len(bids) + 1
        /\ \A i \in 1 .. Len(bids) : bids'[i] = bids[i]
    BY <1>2, CommitEffect
  <2>2. tx[t].price \in Nat
    BY DEF IInv, TypeOK
  <2> QED  BY <1>1, <2>1, <2>2 DEF Accepts, Outbid, Rows
<1>3. CASE UNCHANGED bids /\ UNCHANGED row
  BY <1>1, <1>3 DEF Rows
<1>4. CASE UNCHANGED bids /\ OwnerStep
  <2>1. CASE UpdateAuction
    <3>1. editing.in \in EditRequests /\ row.status = "PENDING" /\ row' = Edited(row, editing.in)
      BY <1>1, <2>1 DEF UpdateAuction
    <3>2. row'.status = row.status /\ row'.version = row.version
      BY <1>1, <3>1, EditedType
    <3>3. EditFields = {} => row'.minBidIncrement = row.minBidIncrement
                               /\ row'.currentPrice = row.currentPrice
      <4>1. ASSUME EditFields = {} PROVE DOMAIN editing.in = {}
        BY <3>1, <4>1 DEF EditRequests
      <4> QED  BY <1>1, <3>1, <4>1 DEF Edited, Coalesce, Rows
    <3> QED  BY <1>1, <1>4, <3>1, <3>2, <3>3 DEF Rows
  <2>2. CASE DeleteAuction
    BY <1>1, <1>4, <2>2 DEF DeleteAuction, GoneRow
  <2>3. CASE UNCHANGED row
    BY <1>3, <1>4, <2>3
  <2> QED  BY <1>4, <2>1, <2>2, <2>3 DEF OwnerStep, RequestUpdate, UpdateFails
<1>5. CASE UNCHANGED bids /\ SchedulerStep
  <2>1. CASE UNCHANGED row
    BY <1>3, <1>5, <2>1
  <2>2. CASE ActivateAuctions \/ EndAuctions
    <3>1. /\ row.status \in {"PENDING", "ACTIVE"} /\ row'.status \in {"ACTIVE", "ENDED"}
          /\ row'.version = row.version /\ row'.endTime = row.endTime
          /\ row'.minBidIncrement = row.minBidIncrement /\ row'.currentPrice = row.currentPrice
      BY <1>1, <2>2 DEF ActivateAuctions, EndAuctions, Rows
    <3> QED  BY <1>1, <1>5, <3>1 DEF Rows
  <2> QED  BY <1>5, <2>1, <2>2 DEF SchedulerStep, EndSnapshot, EndNothing
<1> QED
  <2>1. CASE \A t \in Txs : ~Commit(t)
    BY <1>3, <1>4, <1>5, <2>1, NoCommit
  <2>2. CASE \E t \in Txs : Commit(t)
    BY <1>2, <2>2
  <2> QED  BY <2>1, <2>2

\* An actor that goes on with the copy it has.
Keeps ==
    /\ actor'.up => actor.up
    /\ actor'.status = actor.status /\ actor'.version = actor.version
    /\ actor'.currentPrice = actor.currentPrice /\ actor'.endTime = actor.endTime
    /\ actor'.minBidIncrement = actor.minBidIncrement

\* What an actor's step does to its copy of the row.
LEMMA CacheSteps ==
    ASSUME AInv, [ActorNext]_allVars
    PROVE  \/ Keeps
           \/ Start
           \/ HandleActivate
           \/ actor' = Down
           \/ CommitBid
<1> USE DEF AInv
<1>1. CASE UNCHANGED actor
  BY <1>1 DEF Keeps
<1>2. CASE UpdateNoRows \/ StatementFails \/ CommitError
  BY <1>2, ReadyTypes DEF UpdateNoRows, StatementFails, CommitError, Keeps
<1>3. CASE UpdateRow \/ InsertRow
  BY <1>3 DEF UpdateRow, InsertRow, Keeps, OwnTypes, Actors
<1>4. ASSUME NEW r \in Reqs, BeginBid(r) PROVE Keeps
  BY <1>4 DEF BeginBid, Keeps, OwnTypes, Actors
<1>5. CASE Stop \/ Crash
  BY <1>5 DEF Stop, Crash
<1>6. ASSUME NEW r \in Reqs, ReqStep(r), ~BeginBid(r) PROVE UNCHANGED actor
  BY <1>6 DEF ReqStep, SendBid, RefuseBid, BeginFails
<1>7. ASSUME NEW t \in Txs, OrphanCommits(t) \/ OrphanRollsBack(t) PROVE UNCHANGED actor
  BY <1>7 DEF OrphanCommits, OrphanRollsBack, actorVars
<1> QED
  BY <1>1, <1>2, <1>3, <1>4, <1>5, <1>6, <1>7 DEF ActorNext, HandlerStep, actorVars, allVars

\* There is no cache yet.
LEMMA InitCache == ActorInit => CacheIsPast
BY DEF ActorInit, CacheIsPast, Down

\* Each step leaves the cache a past state of the row: it keeps the copy, takes
\* the row, or takes what it has just committed.
LEMMA NextCache ==
    ASSUME AInv, CacheIsPast, [ActorNext]_allVars
    PROVE  CacheIsPast'
<1>1. /\ Len(bids) <= Len(bids') /\ (\A i \in 1 .. Len(bids) : bids'[i] = bids[i])
      /\ row.status = "GONE" => row'.status = "GONE"
      /\ row'.status # "GONE" => row.version <= row'.version
      /\ row.status \in {"ACTIVE", "ENDED"} =>
            /\ row'.status \in {"ACTIVE", "ENDED"}
            /\ row.endTime <= row'.endTime
  BY StoreStep, RowMoves DEF AInv
<1>2. /\ row \in Rows /\ bids \in Seq(Bids) /\ Len(bids) \in Nat /\ actor \in Actors
  BY DEF AInv, OwnTypes, IInv, TypeOK
<1>3. /\ row' \in Rows /\ bids' \in Seq(Bids) /\ Len(bids') \in Nat /\ actor' \in Actors
      /\ IInv'
  <2>1. IInv' /\ OwnTypes'
    BY NextAInv DEF AInv
  <2>2. row' \in Rows /\ bids' \in Seq(Bids) /\ actor' \in Actors
    BY <2>1 DEF OwnTypes, IInv, TypeOK
  <2> QED  BY <2>1, <2>2
<1>4. /\ row.status # "GONE" => row.version = 1 + Len(bids)
      /\ row.status = "PENDING" => row.version = 1
  BY <1>2 DEF AInv, IInv, RowMatchesBids, PendingIsFresh
<1>5. CASE Keeps
  <2>1. ASSUME actor'.up, row'.status # "GONE"
        PROVE  /\ actor.version <= row'.version
               /\ actor.version > 1 => actor.currentPrice = bids'[actor.version - 1].price
               /\ actor.version > 1 => actor.endTime <= row'.endTime
    <3>1. /\ actor.up /\ row.status # "GONE" /\ row.version <= row'.version
          /\ actor.version <= row.version /\ actor.version \in Nat
      BY <1>1, <1>2, <1>5, <2>1 DEF Keeps, CacheIsPast, Actors
    <3>2. actor.version <= row'.version
      BY <1>2, <1>3, <3>1 DEF Rows
    <3>3. ASSUME actor.version > 1
          PROVE  /\ actor.currentPrice = bids'[actor.version - 1].price
                 /\ actor.endTime <= row'.endTime
      <4>1. row.status \in {"ACTIVE", "ENDED"} /\ actor.version - 1 \in 1 .. Len(bids)
        BY <1>2, <1>4, <3>1, <3>3 DEF Rows, Statuses
      <4>2. actor.currentPrice = bids[actor.version - 1].price /\ actor.endTime <= row.endTime
        BY <3>1, <3>3, <4>1 DEF CacheIsPast
      <4>3. bids'[actor.version - 1] = bids[actor.version - 1]
        BY <1>1, <4>1
      <4>4. row.endTime <= row'.endTime /\ row.endTime \in Nat /\ row'.endTime \in Nat
              /\ actor.endTime \in Nat
        BY <1>1, <1>2, <1>3, <4>1 DEF Rows, Actors
      <4> QED  BY <4>2, <4>3, <4>4
    <3> QED  BY <3>2, <3>3
  <2>2. actor'.status = "ACTIVE" => row'.status \in {"ACTIVE", "ENDED"}
    BY <1>1, <1>5 DEF Keeps, CacheIsPast
  <2> QED  BY <1>5, <2>1, <2>2 DEF Keeps, CacheIsPast
<1>6. CASE Start
  <2>1. /\ actor'.status = row.status /\ actor'.currentPrice = row.currentPrice
        /\ actor'.version = row.version /\ actor'.endTime = row.endTime
        /\ row.status \notin {"ENDED", "GONE"} /\ row' = row /\ bids' = bids
    BY <1>6 DEF Start, Down, vars
  <2>2. row.version > 1 => row.currentPrice = bids[row.version - 1].price
    BY <1>2, <1>4, <2>1 DEF AInv, IInv, RowMatchesBids, LastPrice
  <2> QED  BY <1>2, <2>1, <2>2 DEF CacheIsPast, Rows, Statuses
<1>7. CASE HandleActivate
  <2>1. /\ actor'.version = actor.version /\ actor'.currentPrice = actor.currentPrice
        /\ actor'.endTime = actor.endTime /\ actor'.up = actor.up
        /\ row.status \in {"ACTIVE", "ENDED"} /\ row' = row /\ bids' = bids
    BY <1>2, <1>7 DEF HandleActivate, Actors, vars
  <2> QED  BY <2>1 DEF CacheIsPast
<1>8. CASE actor' = Down
  BY <1>8 DEF CacheIsPast, Down
<1>9. CASE CommitBid
  <2>1. /\ actor'.version = row'.version /\ actor'.currentPrice = row'.currentPrice
        /\ actor'.endTime = row'.endTime
    BY <1>2, <1>9, ReadyTypes DEF CommitBid, Commit, AInv, Actors
  <2>2. row'.status = "ACTIVE"
    <3>1. PICK t \in Txs : Commit(t)
      <4>1. actor.tx \in Txs
        BY <1>9, HandlerTx DEF CommitBid
      <4> QED  BY <1>9, <4>1 DEF CommitBid
    <3>2. Accepts(row, tx[t]) /\ row' = Outbid(row, tx[t])
      BY <3>1, CommitEffect DEF AInv
    <3> QED  BY <1>2, <3>2 DEF Accepts, Outbid, Rows
  <2>3. row'.version > 1 => row'.currentPrice = bids'[row'.version - 1].price
    <3>1. row'.currentPrice = LastPrice' /\ row'.version = 1 + Len(bids')
      BY <1>3, <2>2 DEF IInv, RowMatchesBids
    <3> QED  BY <1>3, <3>1 DEF LastPrice
  <2> QED  BY <1>3, <2>1, <2>2, <2>3 DEF CacheIsPast, Rows
<1> QED  BY <1>5, <1>6, <1>7, <1>8, <1>9, CacheSteps

(* The cache never runs ahead of what was committed (the assignments after  *)
(* the COMMIT in handlePlaceBid, and NewAuctionActor).                      *)
THEOREM CacheLagsRow == ActorSpec => []CacheIsPast
<1>1. AInv /\ CacheIsPast /\ [ActorNext]_allVars => CacheIsPast'
  BY NextCache
<1> QED  BY <1>1, InitCache, ActorInvariance, PTL DEF ActorSpec

-----------------------------------------------------------------------------
(* Without edits "below minimum increment" is the truth.                    *)

\* The price and the increment a cache holds, when no field can be edited.
CacheLags ==
    actor.up /\ row.status # "GONE" =>
        /\ actor.minBidIncrement = row.minBidIncrement
        /\ actor.currentPrice <= row.currentPrice

\* The same for the price and the increment.
LEMMA NextCacheLags ==
    ASSUME EditFields = {}, AInv, CacheLags, [ActorNext]_allVars
    PROVE  CacheLags'
<1>1. /\ row.status = "GONE" => row'.status = "GONE"
      /\ row'.status # "GONE" =>
            /\ row'.minBidIncrement = row.minBidIncrement
            /\ row.currentPrice <= row'.currentPrice
  BY StoreStep, RowMoves DEF AInv
<1>2. row \in Rows /\ actor \in Actors /\ row' \in Rows /\ actor' \in Actors
  <2>1. IInv' /\ OwnTypes'
    BY NextAInv DEF AInv
  <2> QED  BY <2>1 DEF AInv, OwnTypes, IInv, TypeOK
<1>3. CASE Keeps
  <2>1. ASSUME actor'.up, row'.status # "GONE"
        PROVE  /\ actor.minBidIncrement = row'.minBidIncrement
               /\ actor.currentPrice <= row'.currentPrice
    BY <1>1, <1>2, <1>3, <2>1 DEF Keeps, CacheLags, Rows, Actors
  <2> QED  BY <1>3, <2>1 DEF Keeps, CacheLags
<1>4. CASE Start
  <2>1. /\ actor'.minBidIncrement = row.minBidIncrement
        /\ actor'.currentPrice = row.currentPrice /\ row' = row
    BY <1>4 DEF Start, Down, vars
  <2> QED  BY <1>2, <2>1 DEF CacheLags, Rows
<1>5. CASE HandleActivate
  <2>1. /\ actor'.up = actor.up /\ actor'.minBidIncrement = actor.minBidIncrement
        /\ actor'.currentPrice = actor.currentPrice /\ row' = row
    BY <1>2, <1>5 DEF HandleActivate, Actors, vars
  <2> QED  BY <2>1 DEF CacheLags
<1>6. CASE actor' = Down
  BY <1>6 DEF CacheLags, Down
<1>7. CASE CommitBid
  <2>1. /\ actor'.currentPrice = row'.currentPrice /\ actor'.up = actor.up
        /\ actor'.minBidIncrement = actor.minBidIncrement
    BY <1>2, <1>7, ReadyTypes DEF CommitBid, Commit, AInv, Actors
  <2> QED  BY <1>1, <1>2, <2>1 DEF CacheLags, Rows
<1> QED  BY <1>3, <1>4, <1>5, <1>6, <1>7, CacheSteps

\* Only handlePlaceBid's own check answers "below minimum increment".
LEMMA TooLowIsRefused ==
    ASSUME AInv, [ActorNext]_allVars, NEW r \in Reqs,
           req[r].code = "none", req'[r].code = "ErrBidTooLow"
    PROVE  RefuseBid(r) /\ Refusal(r) = "ErrBidTooLow"
<1>1. req \in [Reqs -> Requests]
  BY DEF AInv, OwnTypes
<1>2. ASSUME NEW q, NEW c, NEW p, NEW v, Answer(q, c, p, v), c # "ErrBidTooLow"
      PROVE  FALSE
  <2>1. req'[r].code \in {c, req[r].code}
    BY <1>1, <1>2 DEF Answer, Requests
  <2> QED  BY <1>2, <2>1
<1>3. req' # req
  BY DEF AInv
<1>4. ASSUME NEW q \in Reqs, ReqStep(q)
      PROVE  RefuseBid(r) /\ Refusal(r) = "ErrBidTooLow"
  <2>1. ASSUME NEW u \in Users, NEW p \in Prices, SendBid(q, u, p) PROVE FALSE
    BY <1>1, <2>1 DEF SendBid, Requests
  <2>2. CASE BeginFails(q)
    BY <1>2, <2>2 DEF BeginFails
  <2>3. CASE BeginBid(q)
    BY <1>1, <2>3 DEF BeginBid, Requests
  <2>4. CASE RefuseBid(q)
    <3>1. Refusal(q) = "ErrBidTooLow"
      <4>1. ASSUME Refusal(q) # "ErrBidTooLow" PROVE FALSE
        <5>1. Answer(q, Refusal(q), 0, 0)
          BY <2>4, <4>1 DEF RefuseBid
        <5>2. PICK c : c = Refusal(q)
          OBVIOUS
        <5>3. Answer(q, c, 0, 0)
          BY <5>1, <5>2 DEF Answer
        <5> QED  BY <1>2, <4>1, <5>2, <5>3
      <4> QED  BY <4>1
    <3>2. q = r
      BY <1>1, <2>4, <3>1 DEF RefuseBid, Answer
    <3> QED  BY <2>4, <3>1, <3>2
  <2> QED  BY <1>4, <2>1, <2>2, <2>3, <2>4 DEF ReqStep
<1>5. ~(Stop \/ Crash)
  <2>1. ASSUME Stop PROVE FALSE
    BY <1>1, <2>1 DEF Stop, Requests
  <2>2. ASSUME Crash PROVE FALSE
    BY <1>1, <2>2 DEF Crash, Requests
  <2> QED  BY <2>1, <2>2
<1>6. ~HandlerStep
  <2>1. ~(UpdateRow \/ InsertRow)
    BY <1>3 DEF UpdateRow, InsertRow
  <2>2. ASSUME NEW c \in {"ErrConflict", "ErrInternal", "OK"}, NEW p, NEW v
        PROVE  ~Answer(actor.req, c, p, v)
    <3>1. PICK q : q = actor.req
      OBVIOUS
    <3>2. ~Answer(q, c, p, v)
      BY <1>2
    <3> QED  BY <3>1, <3>2 DEF Answer
  <2>3. \A c \in {"ErrConflict", "ErrInternal", "OK"} : \A p, v : ~Answer(actor.req, c, p, v)
    BY <2>2
  <2>4. ~UpdateNoRows /\ ~StatementFails /\ ~CommitError
    BY <2>2 DEF UpdateNoRows, StatementFails, CommitError, Answer
  <2>5. ~CommitBid
    BY <2>2 DEF CommitBid, Answer
  <2> QED  BY <2>1, <2>4, <2>5 DEF HandlerStep
<1>7. ASSUME NEW t \in Txs, OrphanCommits(t) \/ OrphanRollsBack(t) PROVE FALSE
  BY <1>3, <1>7 DEF OrphanCommits, OrphanRollsBack, actorVars
<1> QED
  BY <1>3, <1>4, <1>5, <1>6, <1>7 DEF ActorNext, Start, HandleActivate, actorVars, allVars

(* An auction nobody can edit: the cached refusal holds of the stored price *)
(* as well (the first two checks of handlePlaceBid).                        *)
THEOREM TooLowTrue == ASSUME EditFields = {} PROVE ActorSpec => TooLowIsTrue
<1>1. ActorInit => CacheLags
  BY DEF ActorInit, CacheLags, Down
<1>2. AInv /\ CacheLags /\ [ActorNext]_allVars => CacheLags'
  BY NextCacheLags
<1>3. AInv /\ CacheIsPast /\ CacheLags /\ [ActorNext]_allVars =>
         \A r \in Reqs : req[r].code = "none" /\ req'[r].code = "ErrBidTooLow" =>
            req[r].price < row.currentPrice + row.minBidIncrement
  <2> SUFFICES ASSUME AInv, CacheIsPast, CacheLags, [ActorNext]_allVars, NEW r \in Reqs,
                      req[r].code = "none", req'[r].code = "ErrBidTooLow"
               PROVE  req[r].price < row.currentPrice + row.minBidIncrement
    OBVIOUS
  <2>1. RefuseBid(r) /\ Refusal(r) = "ErrBidTooLow"
    BY TooLowIsRefused
  <2>2. /\ actor.up /\ actor.status = "ACTIVE"
        /\ req[r].price < actor.currentPrice + actor.minBidIncrement
    <3>1. req[r].price \in Nat /\ actor.currentPrice \in Nat /\ actor.minBidIncrement \in Nat
      BY DEF AInv, OwnTypes, Requests, Actors
    <3> QED  BY <2>1, <3>1 DEF RefuseBid, Takes, Refusal
  <2>3. /\ actor.minBidIncrement = row.minBidIncrement /\ actor.currentPrice <= row.currentPrice
    BY <2>2 DEF CacheIsPast, CacheLags
  <2>4. /\ req[r].price \in Nat /\ actor.currentPrice \in Nat /\ actor.minBidIncrement \in Nat
        /\ row.currentPrice \in Nat
    BY DEF AInv, OwnTypes, Requests, Actors, IInv, TypeOK, Rows
  <2> QED  BY <2>2, <2>3, <2>4
<1> QED  BY <1>1, <1>2, <1>3, CacheLagsRow, ActorInvariance, PTL DEF ActorSpec, TooLowIsTrue
=============================================================================
