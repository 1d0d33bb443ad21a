---------------------------- MODULE AuctionStore ----------------------------
(* One auction as PostgreSQL keeps it: its row in `auctions`, its rows in   *)
(* `bids`, and every statement of the backend that writes them.             *)
(*                                                                          *)
(* Transactions run at READ COMMITTED.  A bid transaction takes the row     *)
(* lock with its UPDATE and publishes row and bid together at COMMIT; NOW() *)
(* is the instant it began.  EndAuctions is a single statement, but a       *)
(* statement that finds the row locked waits and then re-evaluates its      *)
(* WHERE clause on the newest row, while its sub-select still reads the     *)
(* snapshot taken before the wait: it is two steps here.                    *)
(*                                                                          *)
(* Time is an integer clock.  Window stands for the ten seconds of the      *)
(* anti-sniping rule and TxTimeout for the three-second context of a bid.   *)
EXTENDS Integers, Sequences

CONSTANTS
    Users,          \* the user accounts
    Owner,          \* the seller, auctions.created_by
    NoUser,         \* SQL NULL in winner_id
    Txs,            \* identities of bid transactions, as many as run at once
    NoTx,           \* nobody holds the row lock
    Prices,         \* the amounts callers send (start prices, bids)
    Incs,           \* the minimum increments callers send
    StartTimes, EndTimes,    \* the instants callers send
    EditFields,     \* the fields an edit may change
    MinDuration,    \* service.minAuctionDuration
    MaxExt,         \* auctions.max_extensions
    Window,         \* the 10-second anti-sniping window
    TxTimeout,      \* a bid transaction is over this long after it began
    MaxTime         \* bound on the clock

ASSUME UsersAssumption == Owner \in Users /\ NoUser \notin Users
ASSUME TxsAssumption   == NoTx \notin Txs
ASSUME AmountAssumption == Prices \subseteq Nat \ {0} /\ Incs \subseteq Nat \ {0}
ASSUME RequestAssumption ==
    /\ EditFields \subseteq {"startPrice", "minBidIncrement", "startTime", "endTime"}
    /\ StartTimes \subseteq Nat /\ EndTimes \subseteq Nat
    /\ MinDuration \in Nat \ {0}
    /\ MaxExt \in Nat /\ Window \in Nat /\ TxTimeout \in Nat /\ MaxTime \in Nat
\* The context of a bid (3 s) is shorter than the anti-sniping window (10 s).
ASSUME TimeoutAssumption == TxTimeout < Window

VARIABLES
    now,        \* the database clock
    row,        \* the committed row of the auction
    bids,       \* the committed bids, in auction_version order
    tx,         \* the bid transactions
    lock,       \* which of them holds the row lock
    draft,      \* what the lock holder has written and not committed
    ending,     \* the EndAuctions statement
    editing     \* the owner's PUT /auctions/:id between its check and its UPDATE

vars == <<now, row, bids, tx, lock, draft, ending, editing>>

Statuses == {"PENDING", "ACTIVE", "ENDED", "GONE"}     \* GONE: no such row

Rows == [status : Statuses, startPrice : Nat, currentPrice : Nat,
         minBidIncrement : Nat, startTime : Nat, endTime : Nat,
         version : Nat, extensionCount : 0 .. MaxExt, winner : Users \cup {NoUser}]

Bids == [user : Users, price : Nat, version : Nat, createdAt : Nat]

GoneRow == [status |-> "GONE", startPrice |-> 0, currentPrice |-> 0,
            minBidIncrement |-> 0, startTime |-> 0, endTime |-> 0,
            version |-> 0, extensionCount |-> 0, winner |-> NoUser]

NoDraft == [row |-> GoneRow, bids |-> <<>>]
IdleTx  == [st |-> "none", user |-> Owner, price |-> 0, now |-> 0]
IdleEnd == [st |-> "none", now |-> 0, seen |-> 0]
NoEdit  == [st |-> "none", in |-> [f \in {} |-> 0]]

-----------------------------------------------------------------------------
(* Creation.  POST /auctions validates the times and inserts a PENDING row. *)

CreatedRow(price, inc, start, end) ==
    [status |-> "PENDING", startPrice |-> price, currentPrice |-> price,
     minBidIncrement |-> inc, startTime |-> start, endTime |-> end,
     version |-> 1, extensionCount |-> 0, winner |-> NoUser]

CreateChecks(start, end) ==
    /\ start > 0                        \* the clock starts at 0
    /\ end > start
    /\ end - start >= MinDuration

Init ==
    /\ now = 0
    /\ \E p \in Prices, i \in Incs, s \in StartTimes, e \in EndTimes :
          /\ CreateChecks(s, e)
          /\ row = CreatedRow(p, i, s, e)
    /\ bids = <<>>
    /\ tx = [t \in Txs |-> IdleTx]
    /\ lock = NoTx
    /\ draft = NoDraft
    /\ ending = IdleEnd
    /\ editing = NoEdit

-----------------------------------------------------------------------------
(* The owner edits or withdraws a PENDING auction.                          *)

FieldValues(f) ==
    CASE f = "startPrice"      -> Prices
      [] f = "minBidIncrement" -> Incs
      [] f = "startTime"       -> StartTimes
      [] f = "endTime"         -> EndTimes

\* A request body: some of the fields, each with a value a caller may send.
EditRequests ==
    UNION {{in \in [D -> Prices \cup Incs \cup StartTimes \cup EndTimes] :
               \A f \in D : in[f] \in FieldValues(f)} : D \in SUBSET EditFields}

Coalesce(in, f, old) == IF f \in DOMAIN in THEN in[f] ELSE old

UpdateChecks(in) ==
    /\ "startTime" \in DOMAIN in => in["startTime"] > now
    /\ "endTime" \in DOMAIN in => in["endTime"] > now
    /\ {"startTime", "endTime"} \subseteq DOMAIN in =>
          /\ in["endTime"] > in["startTime"]
          /\ in["endTime"] - in["startTime"] >= MinDuration

\* AuctionService.Update up to its UPDATE: owner, PENDING, times in the future.
RequestUpdate(in) ==
    /\ editing = NoEdit
    /\ row.status = "PENDING"
    /\ UpdateChecks(in)
    /\ editing' = [st |-> "checked", in |-> in]
    /\ UNCHANGED <<now, row, bids, tx, lock, draft, ending>>

\* Mutant of Edited: the edit forgets that current_price follows start_price.
EditedKeepsPrice(r, in) ==
    [r EXCEPT !.startPrice      = Coalesce(in, "startPrice", @),
              !.minBidIncrement = Coalesce(in, "minBidIncrement", @),
              !.startTime       = Coalesce(in, "startTime", @),
              !.endTime         = Coalesce(in, "endTime", @)]

Edited(r, in) ==
    [r EXCEPT !.startPrice      = Coalesce(in, "startPrice", @),
              !.currentPrice    = Coalesce(in, "startPrice", @),
              !.minBidIncrement = Coalesce(in, "minBidIncrement", @),
              !.startTime       = Coalesce(in, "startTime", @),
              !.endTime         = Coalesce(in, "endTime", @)]

\* Mutant of UpdateAuction: WHERE id = $1 alone, trusting the earlier check.
UpdateAnyStatus ==
    /\ editing # NoEdit
    /\ row.status # "GONE"
    /\ Edited(row, editing.in).endTime > Edited(row, editing.in).startTime
    /\ row' = Edited(row, editing.in)
    /\ editing' = NoEdit
    /\ UNCHANGED <<now, bids, tx, lock, draft, ending>>

\* chk_auction_time rejects an edit that leaves end_time at or before start_time.
UpdateAuction ==
    /\ editing # NoEdit
    /\ row.status = "PENDING"
    /\ Edited(row, editing.in).endTime > Edited(row, editing.in).startTime
    /\ row' = Edited(row, editing.in)
    /\ editing' = NoEdit
    /\ UNCHANGED <<now, bids, tx, lock, draft, ending>>

\* The UPDATE matched no row, broke the constraint or failed.
UpdateFails ==
    /\ editing # NoEdit
    /\ editing' = NoEdit
    /\ UNCHANGED <<now, row, bids, tx, lock, draft, ending>>

DeleteAuction ==
    /\ row.status = "PENDING"
    /\ row' = GoneRow
    /\ UNCHANGED <<now, bids, tx, lock, draft, ending, editing>>

ActivateAuctions ==
    /\ row.status = "PENDING"
    /\ row.startTime <= now
    /\ row' = [row EXCEPT !.status = "ACTIVE"]
    /\ UNCHANGED <<now, bids, tx, lock, draft, ending, editing>>

-----------------------------------------------------------------------------
(* The bid transaction: BEGIN, PlaceBid, InsertBid, COMMIT.                 *)

Begin(t, u, p) ==
    /\ tx[t] = IdleTx
    /\ tx' = [tx EXCEPT ![t] = [st |-> "begun", user |-> u, price |-> p, now |-> now]]
    /\ UNCHANGED <<now, row, bids, lock, draft, ending, editing>>

\* Mutant of Accepts: without the price guard.

AcceptsAnyPrice(r, b) ==
    /\ r.status = "ACTIVE"
    /\ r.startTime <= b.now
    /\ r.endTime >= b.now
    /\ b.user # Owner

Accepts(r, b) ==
    /\ r.status = "ACTIVE"
    /\ r.startTime <= b.now
    /\ r.endTime >= b.now
    /\ b.price >= r.currentPrice + r.minBidIncrement
    /\ b.user # Owner

Extends(r, b) ==
    /\ r.endTime <= b.now + Window
    /\ r.extensionCount < MaxExt

\* Mutant of Outbid: the deadline becomes ten seconds from NOW().
OutbidFromNow(r, b) ==
    [r EXCEPT !.currentPrice   = b.price,
              !.version        = @ + 1,
              !.extensionCount = IF Extends(r, b) THEN @ + 1 ELSE @,
              !.endTime        = IF Extends(r, b) THEN b.now + Window ELSE @]

Outbid(r, b) ==
    [r EXCEPT !.currentPrice   = b.price,
              !.version        = @ + 1,
              !.extensionCount = IF Extends(r, b) THEN @ + 1 ELSE @,
              !.endTime        = IF Extends(r, b) THEN @ + Window ELSE @]

\* Mutant of PlaceBid: a read and a write instead of one locking UPDATE.
PlaceBidUnlocked(t) ==
    /\ tx[t].st = "begun"
    /\ Accepts(row, tx[t])
    /\ lock' = t
    /\ draft' = [row |-> Outbid(row, tx[t]), bids |-> bids]
    /\ tx' = [tx EXCEPT ![t].st = "updated"]
    /\ UNCHANGED <<now, row, bids, ending, editing>>

\* The UPDATE found its row and, once it owns the row lock, still does.
PlaceBid(t) ==
    /\ tx[t].st = "begun"
    /\ lock = NoTx
    /\ Accepts(row, tx[t])
    /\ lock' = t
    /\ draft' = [row |-> Outbid(row, tx[t]), bids |-> bids]
    /\ tx' = [tx EXCEPT ![t].st = "updated"]
    /\ UNCHANGED <<now, row, bids, ending, editing>>

\* pgx.ErrNoRows: the WHERE clause matches no row, at once or after a wait.
PlaceBidNoRows(t) ==
    /\ tx[t].st = "begun"
    /\ ~Accepts(row, tx[t])
    /\ tx' = [tx EXCEPT ![t] = IdleTx]
    /\ UNCHANGED <<now, row, bids, lock, draft, ending, editing>>

InsertBid(t) ==
    /\ tx[t].st = "updated"
    /\ draft' = [draft EXCEPT !.bids =
                    Append(@, [user |-> tx[t].user, price |-> tx[t].price,
                               version |-> draft.row.version, createdAt |-> tx[t].now])]
    /\ tx' = [tx EXCEPT ![t].st = "inserted"]
    /\ UNCHANGED <<now, row, bids, lock, ending, editing>>

Commit(t) ==
    /\ tx[t].st = "inserted"
    /\ row' = draft.row
    /\ bids' = draft.bids
    /\ lock' = NoTx
    /\ draft' = NoDraft
    /\ tx' = [tx EXCEPT ![t] = IdleTx]
    /\ UNCHANGED <<now, ending, editing>>

\* Mutant of Rollback: the transaction is dropped but never rolled back.
RollbackForgotten(t) ==
    /\ tx[t].st # "none"
    /\ tx' = [tx EXCEPT ![t] = IdleTx]
    /\ UNCHANGED <<now, row, bids, lock, draft, ending, editing>>

\* The deferred tx.Rollback, a statement error, or a connection closed because
\* the context expired.
Rollback(t) ==
    /\ tx[t].st # "none"
    /\ lock' = IF lock = t THEN NoTx ELSE lock
    /\ draft' = IF lock = t THEN NoDraft ELSE draft
    /\ tx' = [tx EXCEPT ![t] = IdleTx]
    /\ UNCHANGED <<now, row, bids, ending, editing>>

-----------------------------------------------------------------------------
(* EndAuctions.  The statement's snapshot fixes NOW() and the bids its      *)
(* sub-select can see.                                                      *)

EndSnapshot ==
    /\ ending = IdleEnd
    /\ row.status = "ACTIVE"
    /\ row.endTime <= now
    /\ ending' = [st |-> "waiting", now |-> now, seen |-> Len(bids)]
    /\ UNCHANGED <<now, row, bids, tx, lock, draft, editing>>

\* SELECT user_id FROM bids ... ORDER BY auction_version DESC LIMIT 1
BidderOf(n) == IF n = 0 THEN NoUser ELSE bids[n].user

\* Mutants of EndAuctions: no re-check after the wait, no wait.
EndWithoutRecheck ==
    /\ ending.st = "waiting"
    /\ lock = NoTx
    /\ row.status = "ACTIVE"
    /\ row' = [row EXCEPT !.status = "ENDED", !.winner = BidderOf(ending.seen)]
    /\ ending' = IdleEnd
    /\ UNCHANGED <<now, bids, tx, lock, draft, editing>>

EndWithoutWait ==
    /\ ending.st = "waiting"
    /\ row.status = "ACTIVE"
    /\ row.endTime <= ending.now
    /\ row' = [row EXCEPT !.status = "ENDED", !.winner = BidderOf(ending.seen)]
    /\ ending' = IdleEnd
    /\ UNCHANGED <<now, bids, tx, lock, draft, editing>>

\* The row is free and still matches: the statement commits by itself.
EndAuctions ==
    /\ ending.st = "waiting"
    /\ lock = NoTx
    /\ row.status = "ACTIVE"
    /\ row.endTime <= ending.now
    /\ row' = [row EXCEPT !.status = "ENDED", !.winner = BidderOf(ending.seen)]
    /\ ending' = IdleEnd
    /\ UNCHANGED <<now, bids, tx, lock, draft, editing>>

\* The row no longer matches after the wait, or the 5-second context expired.
EndNothing ==
    /\ ending.st = "waiting"
    /\ ending' = IdleEnd
    /\ UNCHANGED <<now, row, bids, tx, lock, draft, editing>>

-----------------------------------------------------------------------------
\* A bid transaction is over, one way or the other, TxTimeout after it began.
Tick ==
    /\ now < MaxTime
    /\ \A t \in Txs : tx[t].st # "none" => now < tx[t].now + TxTimeout
    /\ now' = now + 1
    /\ UNCHANGED <<row, bids, tx, lock, draft, ending, editing>>

BidStep(t) ==
    \/ \E u \in Users, p \in Prices : Begin(t, u, p)
    \/ PlaceBid(t) \/ PlaceBidNoRows(t) \/ InsertBid(t) \/ Commit(t) \/ Rollback(t)

OwnerStep ==
    \/ \E in \in EditRequests : RequestUpdate(in)
    \/ UpdateAuction \/ UpdateFails \/ DeleteAuction

SchedulerStep == ActivateAuctions \/ EndSnapshot \/ EndAuctions \/ EndNothing

Next == Tick \/ OwnerStep \/ SchedulerStep \/ \E t \in Txs : BidStep(t)

Spec == Init /\ [][Next]_vars

-----------------------------------------------------------------------------
(* Properties.                                                              *)

TxStates == {"none", "begun", "updated", "inserted"}

\* Every variable stays in its domain.
TypeOK ==
    /\ now \in Nat
    /\ row \in Rows
    /\ bids \in Seq(Bids)
    /\ tx \in [Txs -> [st : TxStates, user : Users, price : Nat, now : Nat]]
    /\ lock \in Txs \cup {NoTx}
    /\ draft \in [row : Rows, bids : Seq(Bids)]
    /\ ending \in [st : {"none", "waiting"}, now : Nat, seen : Nat]
    /\ editing \in [st : {"none", "checked"}, in : EditRequests]

LastPrice == IF bids = <<>> THEN row.startPrice ELSE bids[Len(bids)].price

\* The price and the version the row shows are those of the last bid on record,
\* whichever transactions committed, rolled back or waited (PlaceBid + InsertBid
\* in one transaction).
RowMatchesBids ==
    row.status # "GONE" =>
        /\ row.currentPrice = LastPrice
        /\ row.version = 1 + Len(bids)

\* Every bid on record beats its predecessor by the increment, the first one
\* the start price: no two transactions are accepted against the same price.
BidsAscend ==
    \A i \in 1 .. Len(bids) :
        /\ bids[i].version = i + 1
        /\ bids[i].user # Owner
        /\ bids[i].price >= (IF i = 1 THEN row.startPrice ELSE bids[i-1].price)
                              + row.minBidIncrement

\* Every bid on record was begun while the auction was open, counting the
\* extensions earned up to now.
BidsInTime ==
    \A i \in 1 .. Len(bids) :
        bids[i].createdAt \in row.startTime .. row.endTime

\* The winner EndAuctions writes is the top bidder, unless the extensions were
\* used up: an accepted bid that still extends the deadline pushes it past the
\* NOW() of a waiting EndAuctions, whose re-check then fails.
WinnerIsTopBidder ==
    row.status = "ENDED" /\ row.extensionCount < MaxExt =>
        row.winner = BidderOf(Len(bids))

\* What the auction page shows when the countdown ends: the newest bid's author
\* is congratulated as the winner (BidForm.tsx:303-306, bids[0] at line 153).
PageNamesTheWinner ==
    row.status = "ENDED" => row.winner = BidderOf(Len(bids))

\* Once ENDED, neither the row nor the bids change again, whatever transaction
\* was still waiting for the lock.
EndedIsFinal ==
    [][row.status = "ENDED" => UNCHANGED <<row, bids>>]_vars

\* While ACTIVE the deadline moves only with a bid committed in the same step,
\* by exactly one Window per extension counted, and never past max_extensions.
DeadlineMovesByBids ==
    [][row.status = "ACTIVE" /\ row'.endTime # row.endTime =>
          /\ row'.endTime = row.endTime + Window
          /\ row'.extensionCount = row.extensionCount + 1
          /\ Len(bids') = Len(bids) + 1]_vars

\* Once the auction is open its terms are those the bidders saw: an edit whose
\* PENDING check passed before the activation has no effect after it.
TermsFrozen ==
    [][row.status \in {"ACTIVE", "ENDED"} =>
          UNCHANGED <<row.startPrice, row.minBidIncrement, row.startTime>>]_vars

\* An auction that went live ends, however many late bids extend it.
ActiveEnds == row.status = "ACTIVE" ~> row.status = "ENDED"

-----------------------------------------------------------------------------
(* The inductive invariant behind these properties.                         *)

\* The row lock belongs to the transaction that has written a draft, and the
\* draft is the committed row with that one bid applied: nobody changed the row
\* since the lock was taken.
DraftFollowsRow ==
    /\ \A t \in Txs : tx[t].st \in {"updated", "inserted"} <=> lock = t
    /\ \A t \in Txs : lock = t =>
          /\ Accepts(row, tx[t])
          /\ draft.row = Outbid(row, tx[t])
          /\ tx[t].st = "updated" => draft.bids = bids
          /\ tx[t].st = "inserted" => draft.bids =
                Append(bids, [user |-> tx[t].user, price |-> tx[t].price,
                              version |-> draft.row.version, createdAt |-> tx[t].now])

TimesOK ==
    /\ \A t \in Txs : tx[t].st # "none" => tx[t].now <= now /\ now <= tx[t].now + TxTimeout
    /\ ending.now <= now
    /\ ending.seen <= Len(bids)

PendingIsFresh ==
    row.status \in {"PENDING", "GONE"} =>
        bids = <<>> /\ row.extensionCount = 0 /\ row.winner = NoUser

\* A waiting EndAuctions that still matches the row has seen every bid, unless
\* the extensions are used up.
SnapshotCurrent ==
    /\ ending.st = "waiting" /\ row.status = "ACTIVE"
    /\ row.endTime <= ending.now /\ row.extensionCount < MaxExt
    => ending.seen = Len(bids)

IInv ==
    /\ TypeOK /\ DraftFollowsRow /\ TimesOK /\ PendingIsFresh
    /\ RowMatchesBids /\ BidsAscend /\ BidsInTime
    /\ SnapshotCurrent /\ WinnerIsTopBidder

\* The row and the bids of the database implement the auction of AuctionLedger.
Ledger == INSTANCE AuctionLedger WITH
    phase    <- row.status,
    terms    <- [price |-> row.startPrice, inc |-> row.minBidIncrement],
    ledger   <- [i \in 1 .. Len(bids) |-> [user |-> bids[i].user, price |-> bids[i].price]],
    overtime <- MaxExt - row.extensionCount,
    winner   <- row.winner

ImplementsLedger == Ledger!Spec
=============================================================================
