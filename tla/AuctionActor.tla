---------------------------- MODULE AuctionActor ----------------------------
(* The goroutine that serves one auction: its cached copy of the row, its   *)
(* handler of PlaceBidMsg with the three statements it runs on the          *)
(* database of AuctionStore, and the replies it sends.  All bids of the     *)
(* auction go through it, one at a time.                                    *)
(*                                                                          *)
(* A COMMIT that returns an error leaves a transaction the server may still *)
(* commit or roll back; a crash of the process leaves one it will roll      *)
(* back, or commit if COMMIT had been sent.  After a stop or a crash the    *)
(* next request builds a new actor from the row (ActorRegistry models the   *)
(* registry and the mailbox in detail).                                     *)
EXTENDS AuctionStore, FiniteSets

CONSTANTS Reqs, NoReq      \* the bid requests clients send

ASSUME ReqsAssumption == NoReq \notin Reqs

VARIABLES
    actor,      \* the actor's goroutine and its cache
    req,        \* the requests: what was asked and what was answered
    by,         \* the request each transaction runs for
    landed      \* the version at which a request's bid was committed, or 0

actorVars == <<actor, req, by, landed>>
allVars   == <<vars, actorVars>>

Codes == {"none", "OK", "ErrAuctionEnded", "ErrSelfBid", "ErrBidTooLow",
          "ErrConflict", "ErrInternal", "ErrServerShutdown"}

Down == [up |-> FALSE, pc |-> "select", req |-> NoReq, tx |-> NoTx,
         status |-> "GONE", currentPrice |-> 0, minBidIncrement |-> 0,
         version |-> 0, endTime |-> 0, extensionCount |-> 0]

NewReq == [st |-> "new", user |-> Owner, price |-> 0,
           code |-> "none", gotPrice |-> 0, gotVersion |-> 0]

ActorInit ==
    /\ Init
    /\ actor = Down
    /\ req = [r \in Reqs |-> NewReq]
    /\ by = [t \in Txs |-> NoReq]
    /\ landed = [r \in Reqs |-> 0]

-----------------------------------------------------------------------------
(* Life of the actor.                                                       *)

Start ==
    /\ ~actor.up
    /\ row.status \notin {"ENDED", "GONE"}
    /\ actor' = [Down EXCEPT !.up = TRUE,
                   !.status          = row.status,
                   !.currentPrice    = row.currentPrice,
                   !.minBidIncrement = row.minBidIncrement,
                   !.version         = row.version,
                   !.endTime         = row.endTime,
                   !.extensionCount  = row.extensionCount]
    /\ UNCHANGED <<vars, req, by, landed>>

SendBid(r, u, p) ==
    /\ actor.up
    /\ req[r].st = "new"
    /\ req' = [req EXCEPT ![r] = [@ EXCEPT !.st = "sent", !.user = u, !.price = p]]
    /\ UNCHANGED <<vars, actor, by, landed>>

\* ActivateAuctionMsg arrives after the row went ACTIVE, sooner or later.
HandleActivate ==
    /\ actor.up /\ actor.pc = "select" /\ actor.status = "PENDING"
    /\ row.status \in {"ACTIVE", "ENDED"}
    /\ actor' = [actor EXCEPT !.status = "ACTIVE"]
    /\ UNCHANGED <<vars, req, by, landed>>

\* The loop returns (EndAuctionMsg, ShutdownMsg, idle timer) and drains the inbox.
Stop ==
    /\ actor.up /\ actor.pc = "select"
    /\ actor' = Down
    /\ req' = [r \in Reqs |-> IF req[r].st = "sent"
                 THEN [req[r] EXCEPT !.st = "answered", !.code = "ErrServerShutdown"]
                 ELSE req[r]]
    /\ UNCHANGED <<vars, by, landed>>

\* The process dies: no reply, and its connection breaks.
Crash ==
    /\ actor.up
    /\ actor' = Down
    /\ req' = [r \in Reqs |-> IF req[r].st \in {"sent", "taken"}
                 THEN [req[r] EXCEPT !.st = "lost"] ELSE req[r]]
    /\ UNCHANGED <<vars, by, landed>>

-----------------------------------------------------------------------------
(* handlePlaceBid.                                                          *)

Answer(r, code, price, version) ==
    req' = [req EXCEPT ![r] = [@ EXCEPT !.st = "answered", !.code = code,
                                        !.gotPrice = price, !.gotVersion = version]]

Ready == [actor EXCEPT !.pc = "select", !.req = NoReq, !.tx = NoTx]

\* The checks against the cache, in the order of the early returns.
Refusal(r) ==
    IF actor.status # "ACTIVE" \/ now > actor.endTime THEN "ErrAuctionEnded"
    ELSE IF req[r].user = Owner THEN "ErrSelfBid"
    ELSE IF req[r].price < actor.currentPrice + actor.minBidIncrement THEN "ErrBidTooLow"
    ELSE "none"

Takes(r) == actor.up /\ actor.pc = "select" /\ req[r].st = "sent"

RefuseBid(r) ==
    /\ Takes(r)
    /\ Refusal(r) # "none"
    /\ IF Refusal(r) = "ErrBidTooLow"
         THEN Answer(r, "ErrBidTooLow", actor.currentPrice, actor.version)
         ELSE Answer(r, Refusal(r), 0, 0)
    /\ UNCHANGED <<vars, actor, by, landed>>

BeginBid(r) ==
    /\ Takes(r)
    /\ Refusal(r) = "none"
    /\ \E t \in Txs :
          /\ Begin(t, req[r].user, req[r].price)
          /\ actor' = [actor EXCEPT !.pc = "update", !.req = r, !.tx = t]
          /\ by' = [by EXCEPT ![t] = r]
    /\ req' = [req EXCEPT ![r].st = "taken"]
    /\ UNCHANGED landed

BeginFails(r) ==
    /\ Takes(r)
    /\ Refusal(r) = "none"
    /\ Answer(r, "ErrInternal", 0, 0)
    /\ UNCHANGED <<vars, actor, by, landed>>

\* Mutant of UpdateRow: the cache follows the UPDATE instead of the COMMIT.
UpdateRowSyncs ==
    /\ actor.pc = "update"
    /\ PlaceBid(actor.tx)
    /\ actor' = [actor EXCEPT !.pc = "insert", !.currentPrice = draft'.row.currentPrice,
                              !.version = draft'.row.version]
    /\ UNCHANGED <<req, by, landed>>

UpdateRow ==
    /\ actor.pc = "update"
    /\ PlaceBid(actor.tx)
    /\ actor' = [actor EXCEPT !.pc = "insert"]
    /\ UNCHANGED <<req, by, landed>>

\* Mutant of UpdateNoRows: an early return that forgets the reply.
UpdateNoRowsSilent ==
    /\ actor.pc = "update"
    /\ PlaceBidNoRows(actor.tx)
    /\ actor' = Ready
    /\ UNCHANGED <<req, by, landed>>

\* pgx.ErrNoRows
UpdateNoRows ==
    /\ actor.pc = "update"
    /\ PlaceBidNoRows(actor.tx)
    /\ Answer(actor.req, "ErrConflict", actor.currentPrice, actor.version)
    /\ actor' = Ready
    /\ UNCHANGED <<by, landed>>

InsertRow ==
    /\ actor.pc = "insert"
    /\ InsertBid(actor.tx)
    /\ actor' = [actor EXCEPT !.pc = "commit"]
    /\ UNCHANGED <<req, by, landed>>

\* Any other error of the UPDATE or the INSERT; the deferred Rollback runs.
StatementFails ==
    /\ actor.pc \in {"update", "insert"}
    /\ Rollback(actor.tx)
    /\ Answer(actor.req, "ErrInternal", 0, 0)
    /\ actor' = Ready
    /\ UNCHANGED <<by, landed>>

CommitBid ==
    /\ actor.pc = "commit"
    /\ Commit(actor.tx)
    /\ landed' = [landed EXCEPT ![actor.req] = draft.row.version]
    /\ Answer(actor.req, "OK", draft.row.currentPrice, draft.row.version)
    /\ actor' = [Ready EXCEPT !.currentPrice = draft.row.currentPrice,
                              !.version      = draft.row.version,
                              !.endTime      = draft.row.endTime]
    /\ UNCHANGED by

\* Mutant of CommitError: an unknown outcome reported as a refusal.
CommitErrorAsConflict ==
    /\ actor.pc = "commit"
    /\ Answer(actor.req, "ErrConflict", actor.currentPrice, actor.version)
    /\ actor' = Ready
    /\ UNCHANGED <<vars, by, landed>>

\* COMMIT returned an error: the outcome is the server's.
CommitError ==
    /\ actor.pc = "commit"
    /\ Answer(actor.req, "ErrInternal", 0, 0)
    /\ actor' = Ready
    /\ UNCHANGED <<vars, by, landed>>

\* The server finishes a transaction the actor has given up.
Orphan(t) == tx[t].st # "none" /\ actor.tx # t

OrphanCommits(t) ==
    /\ Orphan(t)
    /\ Commit(t)
    /\ landed' = [landed EXCEPT ![by[t]] = draft.row.version]
    /\ UNCHANGED <<actor, req, by>>

OrphanRollsBack(t) ==
    /\ Orphan(t)
    /\ Rollback(t)
    /\ UNCHANGED actorVars

-----------------------------------------------------------------------------
HandlerStep ==
    \/ UpdateRow \/ UpdateNoRows \/ InsertRow \/ StatementFails \/ CommitBid \/ CommitError

ReqStep(r) ==
    \/ \E u \in Users, p \in Prices : SendBid(r, u, p)
    \/ RefuseBid(r) \/ BeginBid(r) \/ BeginFails(r)

ActorNext ==
    \/ (Tick \/ OwnerStep \/ SchedulerStep) /\ UNCHANGED actorVars
    \/ Start \/ HandleActivate \/ Stop \/ Crash \/ HandlerStep
    \/ \E r \in Reqs : ReqStep(r)
    \/ \E t \in Txs : OrphanCommits(t) \/ OrphanRollsBack(t)

ActorSpec == ActorInit /\ [][ActorNext]_allVars

\* The goroutine keeps running, and the server ends what it was left with; the
\* clock goes on, and endLoop's ticker repeats EndAuctions until it gets through.
ActorLiveSpec ==
    /\ ActorSpec
    /\ WF_allVars(HandlerStep)
    /\ \A r \in Reqs : WF_allVars(RefuseBid(r) \/ BeginBid(r) \/ BeginFails(r))
    /\ \A t \in Txs : WF_allVars(OrphanCommits(t) \/ OrphanRollsBack(t))
    /\ WF_allVars(Tick /\ UNCHANGED actorVars)
    /\ WF_allVars(EndSnapshot /\ UNCHANGED actorVars)
    /\ WF_allVars((EndAuctions \/ EndNothing) /\ UNCHANGED actorVars)
    /\ SF_allVars(EndAuctions /\ UNCHANGED actorVars)

-----------------------------------------------------------------------------
(* Properties.                                                              *)

Actors == [up : BOOLEAN, pc : {"select", "update", "insert", "commit"},
           req : Reqs \cup {NoReq}, tx : Txs \cup {NoTx}, status : Statuses,
           currentPrice : Nat, minBidIncrement : Nat, version : Nat,
           endTime : Nat, extensionCount : 0 .. MaxExt]

Requests == [st : {"new", "sent", "taken", "answered", "lost"}, user : Users, price : Nat,
             code : Codes, gotPrice : Nat, gotVersion : Nat]

ActorTypeOK ==
    /\ TypeOK
    /\ actor \in Actors
    /\ req \in [Reqs -> Requests]
    /\ by \in [Txs -> Reqs \cup {NoReq}]
    /\ landed \in [Reqs -> Nat]

\* RequestsMatchRecord: between two statements the handler holds the transaction of the
\* request it has taken, at the point where it left it.
HandlerHoldsTx ==
    /\ actor.pc = "select" <=> actor.tx = NoTx
    /\ actor.pc # "select" =>
          /\ actor.up /\ actor.req \in Reqs
          /\ req[actor.req].st = "taken" /\ by[actor.tx] = actor.req
    /\ actor.pc = "update" => tx[actor.tx].st = "begun"
    /\ actor.pc = "insert" => tx[actor.tx].st = "updated"
    /\ actor.pc = "commit" => tx[actor.tx].st = "inserted"

\* RequestsMatchRecord: a running transaction, orphaned or not, carries out one request,
\* no two the same one, and that request has neither landed nor been refused.
TxServesRequest ==
    /\ \A t \in Txs : tx[t].st # "none" =>
          /\ by[t] \in Reqs /\ landed[by[t]] = 0
          /\ req[by[t]].st \notin {"new", "sent"}
          /\ req[by[t]].code \in {"none", "ErrInternal"}
          /\ tx[t].user = req[by[t]].user /\ tx[t].price = req[by[t]].price
    /\ \A t, s \in Txs : tx[t].st # "none" /\ tx[s].st # "none" /\ by[t] = by[s] => t = s

\* RequestsMatchRecord: a request that landed is a bid on record, no two the same bid.
LandedIsOnRecord ==
    /\ \A r \in Reqs : landed[r] # 0 =>
          /\ landed[r] - 1 \in 1 .. Len(bids)
          /\ bids[landed[r] - 1].user = req[r].user
          /\ bids[landed[r] - 1].price = req[r].price
    /\ \A r, s \in Reqs : landed[r] # 0 /\ landed[r] = landed[s] => r = s

\* RequestsMatchRecord: a request is answered once, and lands only after the handler took it.
AnsweredOnce ==
    \A r \in Reqs :
        /\ req[r].st = "answered" <=> req[r].code # "none"
        /\ req[r].st \in {"new", "sent"} => landed[r] = 0
        /\ req[r].st # "new" => req[r].price \in Prices

\* RequestsMatchRecord: the answer tells the truth about the record: a success reply carries the
\* version and the price of that very bid, and a refusal that the client may
\* retry (too low, conflict, ended, own auction) was never recorded, although
\* transactions outlive the handler that began them.
AnswersMatchRecord ==
    \A r \in Reqs :
        /\ req[r].code = "OK" =>
              /\ landed[r] = req[r].gotVersion /\ landed[r] # 0
              /\ landed[r] - 1 \in 1 .. Len(bids)
              /\ bids[landed[r] - 1].user = req[r].user
              /\ bids[landed[r] - 1].price = req[r].price
              /\ req[r].gotPrice = req[r].price
        /\ req[r].code \in {"ErrAuctionEnded", "ErrSelfBid", "ErrBidTooLow",
                            "ErrConflict", "ErrServerShutdown"} => landed[r] = 0

\* RequestsMatchRecord: every bid on record was asked for by exactly one request, of that user.
EveryBidWasAsked ==
    \A i \in 1 .. Len(bids) :
        Cardinality({r \in Reqs : landed[r] = i + 1 /\ req[r].user = bids[i].user}) = 1

RequestsMatchRecord ==
    /\ ActorTypeOK /\ AnswersMatchRecord /\ EveryBidWasAsked
    /\ HandlerHoldsTx /\ TxServesRequest /\ LandedIsOnRecord /\ AnsweredOnce

\* The cache is a past state of the row, never a future one: it does not run
\* ahead of a transaction that was rolled back, and takes bids only for an
\* auction that did open.
CacheIsPast ==
    /\ actor.up /\ row.status # "GONE" =>
          /\ actor.version <= row.version
          /\ actor.version > 1 => actor.currentPrice = bids[actor.version - 1].price
          /\ row.status # "PENDING" /\ actor.version > 1 => actor.endTime <= row.endTime
    /\ actor.status = "ACTIVE" => row.status \in {"ACTIVE", "ENDED"}

\* Without owner edits after the actor was built, "below minimum increment" is
\* true of the stored price as well: the cache only lags.
TooLowIsTrue ==
    [][\A r \in Reqs : req[r].code = "none" /\ req'[r].code = "ErrBidTooLow" =>
          req[r].price < row.currentPrice + row.minBidIncrement]_allVars

\* Every request in the inbox is answered, or its connection breaks.
EveryBidAnswered ==
    \A r \in Reqs : req[r].st \in {"sent", "taken"} ~> req[r].st \in {"answered", "lost"}
=============================================================================
