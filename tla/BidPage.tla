------------------------------ MODULE BidPage ------------------------------
(* The bid page of one auction in one browser: page.tsx, the form of        *)
(* BidForm.tsx, the hooks usePlaceBid, useCountdown and useAuctionSocket.   *)
(* The page is a cache of the auction's row: it is filled by two GETs, and  *)
(* then changed only by the answers to its own bids, because no message of  *)
(* the socket has the shape it waits for.                                   *)
(*                                                                          *)
(* The server is the short form of what AuctionActor proves of it: bids are *)
(* taken one at a time, each makes the next version of the row and is       *)
(* pushed to the sockets.  Browser and server share one clock; prices are   *)
(* in units of the minimum increment.  Requests are answered in any order.  *)
EXTENDS Integers, Sequences, FiniteSets

CONSTANTS
    Viewers,          \* who may open the page: "guest", "bidder", "owner"
    StartTime, EndTime, Window, MaxExt,     \* the auction
    MinBidIncrement,
    PlaceholderIncrement,                   \* what page.tsx shows before the row
    HistoryLimit,                           \* bids of the first page of the history
    Inputs,           \* bound: numbers typed into the amount field
    MaxPrice, MaxAmount, MaxTime, MaxSubmits    \* bounds

ASSUME TimesAssumption ==
    /\ {StartTime, EndTime, Window, MaxExt, MaxPrice, MaxAmount, MaxTime,
        MaxSubmits, HistoryLimit} \subseteq Nat
    /\ StartTime < EndTime /\ Inputs \subseteq Int
ASSUME IncrementsAssumption ==
    MinBidIncrement \in Nat \ {0} /\ PlaceholderIncrement \in Nat \ {0}

VARIABLES
    now,        \* the clock
    row, log,   \* the server: the auction's row and its accepted bids
    wire,       \* messages pushed to this page's socket and not yet handled
    socket,     \* the page's WebSocket and its reconnect timer
    page,       \* page.tsx: who looks, how far it has loaded
    shown,      \* page.tsx: the auction it shows
    bids,       \* page.tsx: the history it shows, newest first
    form,       \* BidForm.tsx
    reqs        \* the bids the page has sent, in order

server == <<row, log>>
view   == <<page, shown, bids, form>>
vars   == <<now, server, wire, socket, view, reqs>>

-----------------------------------------------------------------------------
(* The server.                                                              *)

Statuses == {"PENDING", "ACTIVE", "ENDED"}

ServerInit ==
    /\ row = [price |-> 1, end |-> EndTime, ext |-> 0, status |-> "PENDING"]
    /\ log = <<>>

\* The row's price and end time at each version, the loaded one first.
Version(v) == IF v = 0 THEN <<1, EndTime>> ELSE <<log[v].price, log[v].end>>

Envelope(price) == [event |-> "NEW_BID", payload |-> [new_price |-> price]]

Acceptable(price) ==
    /\ row.status = "ACTIVE" /\ now <= row.end
    /\ price >= row.price + MinBidIncrement

\* One accepted bid: the row, the record, the push to every open socket.
Accept(who, n, price) ==
    LET extend == row.end - now <= Window /\ row.ext < MaxExt
        end    == IF extend THEN row.end + Window ELSE row.end
    IN  /\ row' = [row EXCEPT !.price = price, !.end = end,
                              !.ext = IF extend THEN @ + 1 ELSE @]
        /\ log' = Append(log, [who |-> who, n |-> n, price |-> price, end |-> end])
        /\ wire' = IF socket = "open" THEN Append(wire, Envelope(price)) ELSE wire

\* Somebody else bids.
OtherBids(price) ==
    /\ Acceptable(price)
    /\ Accept("other", 0, price)
    /\ UNCHANGED <<now, socket, view, reqs>>

Activate ==
    /\ row.status = "PENDING" /\ now >= StartTime
    /\ row' = [row EXCEPT !.status = "ACTIVE"]
    /\ UNCHANGED <<now, log, wire, socket, view, reqs>>

End ==
    /\ row.status = "ACTIVE" /\ now >= row.end
    /\ row' = [row EXCEPT !.status = "ENDED"]
    /\ UNCHANGED <<now, log, wire, socket, view, reqs>>

Tick ==
    /\ now < MaxTime
    /\ now' = now + 1
    /\ UNCHANGED <<server, wire, socket, view, reqs>>

Answer(n, answer) == reqs' = [reqs EXCEPT ![n].st = "answered", ![n].answer = answer]
NoAnswer == [error |-> "none"]

\* A bid is committed; its answer gets through, or the connection breaks, or
\* the handler timed out on a commit that succeeds (AuctionActor.CommitError).
AcceptMine(n) ==
    /\ reqs[n].st = "sent" /\ page.viewer = "bidder" /\ Acceptable(reqs[n].price)
    /\ Accept("me", n, reqs[n].price)
    /\ \/ Answer(n, [error |-> "none", bid_id |-> Len(log'),
                     current_price |-> row'.price, end_time |-> row'.end])
       \/ Answer(n, [error |-> "network"])
    /\ UNCHANGED <<now, socket, view>>

\* The refusals of the actor.  The fallback is a Go struct without json tags:
\* its fields are called LatestPrice and LatestVersion in the answer.
Refusal(n) ==
    IF row.status # "ACTIVE" \/ now > row.end THEN [error |-> "auction_not_active"]
    ELSE IF page.viewer = "owner" THEN [error |-> "forbidden_self_bid"]
    ELSE [error |-> "bid_too_low",
          fallback_data |-> [LatestPrice |-> row.price, LatestVersion |-> Len(log)]]

RefuseMine(n) ==
    /\ reqs[n].st = "sent" /\ page.viewer # "guest"
    /\ page.viewer = "owner" \/ ~Acceptable(reqs[n].price)
    /\ Answer(n, Refusal(n))
    /\ UNCHANGED <<now, server, wire, socket, view>>

\* Not signed in, limited, the server busy or down, the request never arrives.
FailMine(n) ==
    /\ reqs[n].st = "sent"
    /\ Answer(n, [error |-> "network"])
    /\ UNCHANGED <<now, server, wire, socket, view>>

-----------------------------------------------------------------------------
(* The socket: useAuctionSocket.                                            *)

\* onclose sets a timer that calls connect(), and connect() puts the same handlers
\* on the same WebSocket: it stays closed, and a reconnect changes nothing.
SocketOpens ==
    /\ socket = "connecting"
    /\ socket' = "open"
    /\ UNCHANGED <<now, server, wire, view, reqs>>

SocketCloses ==
    /\ socket \in {"connecting", "open"}
    /\ socket' = "closed"
    /\ wire' = <<>>
    /\ UNCHANGED <<now, server, view, reqs>>

\* message.type === "NEW_BID" && message.bid
IsNewBid(message) ==
    /\ {"type", "bid"} \subseteq DOMAIN message
    /\ message.type = "NEW_BID"

HasBid(id) == \E i \in 1 .. Len(bids) : bids[i].id = id

\* Mutant of Prepend: a new bid goes to the end of the history.
AppendBid(bid) == IF HasBid(bid.id) THEN bids ELSE Append(bids, bid)

Prepend(bid) == IF HasBid(bid.id) THEN bids ELSE <<bid>> \o bids

\* onmessage, and page.tsx's handleNewBid for the messages it recognises.
SocketMessage ==
    /\ wire # <<>>
    /\ wire' = Tail(wire)
    /\ LET message == Head(wire) IN
         IF IsNewBid(message)
           THEN /\ shown' = [shown EXCEPT !.price = message.bid.bid_price]
                /\ bids' = Prepend(message.bid)
           ELSE UNCHANGED <<shown, bids>>
    /\ UNCHANGED <<now, server, socket, page, form, reqs>>

-----------------------------------------------------------------------------
(* The clock of the page: useCountdown, and the effects of BidForm.tsx that *)
(* depend on it.  form.seen is the time the interval timers last read.      *)

Passed(f, time) == f.seen >= time

\* PENDING becomes ACTIVE when the countdown to the start is over.
StatusEffect(f, s) ==
    IF f.status = "PENDING" /\ Passed(f, s.start) THEN [f EXCEPT !.status = "ACTIVE"] ELSE f

\* The popup opens by itself once, at the end shown or on an ENDED auction.
PopupEffect(f, s) ==
    IF ~f.triggered /\ (Passed(f, s.end) \/ f.status = "ENDED")
      THEN [f EXCEPT !.popup = TRUE, !.triggered = TRUE] ELSE f

\* The form after its timers read the clock and its effects ran.
Effects(f, s) == PopupEffect(StatusEffect([f EXCEPT !.seen = now], s), s)

\* setInterval, every second.
CountdownTick ==
    /\ page.phase = "ready" /\ form.seen # now
    /\ form' = Effects(form, shown)
    /\ UNCHANGED <<now, server, wire, socket, page, shown, bids, reqs>>

\* What CountdownTimer displays.
Countdown ==
    IF form.status = "PENDING"
      THEN IF Passed(form, shown.start) THEN "reload the page" ELSE "starts in"
      ELSE IF Passed(form, shown.end) THEN "has ended" ELSE "time left"

-----------------------------------------------------------------------------
(* Opening the page.                                                        *)

NoForm == [amount |-> 0, status |-> "ACTIVE", loading |-> FALSE, seen |-> 0,
           popup |-> FALSE, triggered |-> FALSE]

\* The first render: nothing is shown; the auction is a placeholder.
Init ==
    /\ now = 0
    /\ ServerInit
    /\ wire = <<>>
    /\ socket = "none"
    /\ page \in [phase : {"blank"}, validId : BOOLEAN, viewer : Viewers, detail : {"none"},
                 name : {""}]
    /\ shown = [price |-> 0, inc |-> PlaceholderIncrement, start |-> 0, end |-> 0,
                status |-> "ACTIVE"]
    /\ bids = <<>>
    /\ form = NoForm
    /\ reqs = <<>>

\* The effects of the first render: the name out of the token, the socket
\* (only with a token), the fetch (only with an id).
Mount ==
    /\ page.phase = "blank"
    /\ page' = [page EXCEPT !.phase = IF page.validId THEN "getAuction" ELSE "stuck",
                            !.name = IF page.viewer = "guest" THEN "" ELSE "me"]
    /\ socket' = IF page.viewer = "guest" THEN socket ELSE "connecting"
    /\ shown' = [shown EXCEPT !.start = now, !.end = now]
    /\ UNCHANGED <<now, server, wire, bids, form, reqs>>

\* getAuctionById; on an error the placeholder stays.
AuctionLoads ==
    /\ page.phase = "getAuction"
    /\ \/ /\ shown' = [price |-> row.price, inc |-> MinBidIncrement, start |-> StartTime,
                       end |-> row.end, status |-> row.status]
          /\ page' = [page EXCEPT !.phase = "getBids", !.detail = "loaded"]
       \/ /\ page' = [page EXCEPT !.phase = "getBids", !.detail = "failed"]
          /\ UNCHANGED shown
    /\ UNCHANGED <<now, server, wire, socket, bids, form, reqs>>

\* Mutant of HistoryPage: the oldest bids first.
HistoryOldestFirst ==
    [i \in 1 .. (IF Len(log) < HistoryLimit THEN Len(log) ELSE HistoryLimit) |->
       [id |-> i, who |-> log[i].who, bid_price |-> log[i].price]]

\* One page of the history, newest first.
HistoryPage ==
    LET n == Len(log)
        m == IF n < HistoryLimit THEN n ELSE HistoryLimit
    IN  [i \in 1 .. m |-> [id |-> n + 1 - i, who |-> log[n + 1 - i].who,
                           bid_price |-> log[n + 1 - i].price]]

\* listAuctionBids; then loading is over and the form mounts.
BidsLoad ==
    /\ page.phase = "getBids"
    /\ bids' \in {HistoryPage, <<>>}
    /\ page' = [page EXCEPT !.phase = "ready"]
    /\ form' = Effects([NoForm EXCEPT !.amount = shown.inc, !.status = shown.status], shown)
    /\ UNCHANGED <<now, server, wire, socket, shown, reqs>>

-----------------------------------------------------------------------------
(* The form.                                                                *)

Bidding == page.phase = "ready" /\ form.status = "ACTIVE"

QuickIncrements == {shown.inc * k : k \in {1, 2, 5, 10}}
FinalPrice == shown.price + form.amount

\* The quick buttons and the number field; both also while a bid is sent.
ChooseAmount(amount) ==
    /\ Bidding
    /\ amount \in QuickIncrements \cup Inputs /\ amount <= MaxAmount
    /\ form' = [form EXCEPT !.amount = amount]
    /\ UNCHANGED <<now, server, wire, socket, page, shown, bids, reqs>>

\* Mutant of MainButton: no loading state, so a second click sends a second bid.
MainButtonNoLoading ==
    IF form.status # "ACTIVE" THEN "over" ELSE IF form.amount < shown.inc THEN "too small" ELSE "bid"

\* The label of the main button; it is enabled under "bid" alone.
MainButton ==
    IF form.loading THEN "sending"
    ELSE IF form.status = "PENDING" THEN "not started"
    ELSE IF form.status # "ACTIVE" THEN "over"
    ELSE IF form.amount < shown.inc THEN "too small"
    ELSE "bid"

\* handleSubmit and handlePlaceBid up to the await.
Submit ==
    /\ page.phase = "ready" /\ MainButton = "bid"
    /\ FinalPrice \in 1 .. MaxPrice /\ Len(reqs) < MaxSubmits
    /\ form' = [form EXCEPT !.loading = TRUE]
    /\ reqs' = Append(reqs, [st |-> "sent", price |-> FinalPrice, answer |-> NoAnswer, notice |-> "none"])
    /\ UNCHANGED <<now, server, wire, socket, page, shown, bids>>

\* The price the outbid branch reads: errorData.fallback_data?.latest_price
FallbackPrice(answer) ==
    IF answer.error = "bid_too_low" /\ "latest_price" \in DOMAIN answer.fallback_data
      THEN answer.fallback_data.latest_price ELSE 0

\* Mutant of Notice: an error without an answer is taken for a refusal.
NoticeGuesses(answer) ==
    CASE answer.error = "none" -> "success"
      [] FallbackPrice(answer) > 0 -> "price updated"
      [] answer.error = "bid_too_low" -> "too low"
      [] answer.error = "forbidden_self_bid" -> "own auction"
      [] OTHER -> "not open"

\* translateBidError: what the page tells its user.
Notice(answer) ==
    CASE answer.error = "none" -> "success"
      [] FallbackPrice(answer) > 0 -> "price updated"
      [] answer.error = "bid_too_low" -> "too low"
      [] answer.error = "auction_not_active" -> "not open"
      [] answer.error = "forbidden_self_bid" -> "own auction"
      [] OTHER -> "failed"

BidderName == IF page.name = "" THEN "you" ELSE page.name

\* Mutant of ShownAfter: a bid that extended the auction changes only the price.
ShownAfterKeepsEnd(answer) ==
    IF answer.error = "none" THEN [shown EXCEPT !.price = answer.current_price] ELSE shown

\* handleBidSuccess and handlePriceUpdate: the auction shown after an answer.
ShownAfter(answer) ==
    IF answer.error = "none"
      THEN [shown EXCEPT !.price = answer.current_price, !.end = answer.end_time]
    ELSE IF FallbackPrice(answer) > 0 THEN [shown EXCEPT !.price = FallbackPrice(answer)]
    ELSE shown

\* Mutant of FormAfter: loading ends on the success path only.
FormAfterSuccess(answer) ==
    [form EXCEPT !.loading = answer.error # "none", !.amount = shown.inc]

\* The finally blocks; the amount is reset after every attempt, handlePlaceBid
\* having caught the error.
FormAfter(answer) == [form EXCEPT !.loading = FALSE, !.amount = shown.inc]

\* The rest of handlePlaceBid and of handleSubmit; a changed end time restarts
\* the countdowns.
Settle(n) ==
    /\ reqs[n].st = "answered"
    /\ LET answer == reqs[n].answer
           after  == FormAfter(answer)
       IN  /\ shown' = ShownAfter(answer)
           /\ bids' = IF answer.error # "none" THEN bids
                      ELSE Prepend([id |-> answer.bid_id, who |-> BidderName,
                                    bid_price |-> answer.current_price])
           /\ form' = IF shown'.end = shown.end THEN after ELSE Effects(after, shown')
           /\ reqs' = [reqs EXCEPT ![n].st = "settled", ![n].notice = Notice(answer)]
    /\ UNCHANGED <<now, server, wire, socket, page>>

\* What the page displays of the history: its rows, the first one marked as the
\* lead; the leader under the price; the banner and the popup of an ended auction.
HistoryRow(i) == [who |-> bids[i].who, price |-> bids[i].bid_price, lead |-> i = 1]
Leader == IF bids = <<>> THEN "nobody" ELSE bids[1].who
EndedBanner == page.phase = "ready" /\ form.status = "ENDED"
WinnerPopup ==
    IF bids = <<>> THEN [winner |-> "nobody"]
    ELSE [winner |-> Leader, price |-> bids[1].bid_price]

ClosePopup ==
    /\ form.popup
    /\ form' = [form EXCEPT !.popup = FALSE]
    /\ UNCHANGED <<now, server, wire, socket, page, shown, bids, reqs>>

\* The button of the banner.
OpenPopup ==
    /\ EndedBanner /\ Leader # "nobody"
    /\ form' = [form EXCEPT !.popup = TRUE]
    /\ UNCHANGED <<now, server, wire, socket, page, shown, bids, reqs>>

-----------------------------------------------------------------------------
ServerStep ==
    \/ Activate \/ End \/ \E price \in 1 .. MaxPrice : OtherBids(price)
SocketStep == SocketOpens \/ SocketCloses \/ SocketMessage
LoadStep   == Mount \/ AuctionLoads \/ BidsLoad
UserStep   ==
    \/ \E amount \in QuickIncrements \cup Inputs : ChooseAmount(amount)
    \/ Submit \/ ClosePopup \/ OpenPopup
RequestStep(n) == AcceptMine(n) \/ RefuseMine(n) \/ FailMine(n)

Next ==
    \/ Tick \/ ServerStep \/ SocketStep \/ LoadStep \/ CountdownTick \/ UserStep
    \/ \E n \in 1 .. Len(reqs) : RequestStep(n) \/ Settle(n)

\* The browser ends every request, be it with an error, and runs its timers.
Spec ==
    /\ Init /\ [][Next]_vars
    /\ WF_vars(Tick) /\ WF_vars(LoadStep) /\ WF_vars(CountdownTick)
    /\ \A n \in 1 .. MaxSubmits :
          /\ WF_vars(n \in DOMAIN reqs /\ RequestStep(n))
          /\ WF_vars(n \in DOMAIN reqs /\ Settle(n))

-----------------------------------------------------------------------------
(* Properties.                                                              *)

Rows  == [price : Nat, end : Nat, ext : Nat, status : Statuses]
Log   == [who : {"me", "other"}, n : Nat, price : Nat, end : Nat]
Pages == [phase : {"blank", "stuck", "getAuction", "getBids", "ready"}, validId : BOOLEAN,
          viewer : Viewers, detail : {"none", "loaded", "failed"}, name : {"", "me"}]
Shown == [price : Nat, inc : Nat, start : Nat, end : Nat, status : Statuses]
Forms == [amount : Int, status : Statuses, loading : BOOLEAN, seen : 0 .. now,
          popup : BOOLEAN, triggered : BOOLEAN]
Listed == [id : 1 .. Len(log), who : {"me", "other"}, bid_price : Nat]
Answers ==
    [error : {"none", "network", "auction_not_active", "forbidden_self_bid"}]
      \cup [error : {"none"}, bid_id : Nat, current_price : Nat, end_time : Nat]
      \cup [error : {"bid_too_low"}, fallback_data : [LatestPrice : Nat, LatestVersion : Nat]]
Sent  == [st : {"sent", "answered", "settled"}, price : Nat, answer : Answers,
          notice : {"none", "success", "too low", "not open", "own auction", "failed"}]

TypeOK ==
    /\ now \in Nat /\ row \in Rows /\ log \in Seq(Log)
    /\ socket \in {"none", "connecting", "open", "closed"}
    /\ wire \in Seq([event : {"NEW_BID"}, payload : [new_price : Nat]])
    /\ page \in Pages /\ shown \in Shown /\ form \in Forms
    /\ bids \in Seq(Listed) /\ reqs \in Seq(Sent)

\* PageInv: the price and the end time on the page belong together: they are those of
\* one version of the row, although they come from a GET and from answers to
\* bids.  Only a page whose GET failed shows something else, the placeholder,
\* until its first bid is accepted.
ShownWasTrue ==
    page.phase = "ready" =>
        \/ \E v \in 0 .. Len(log) : <<shown.price, shown.end>> = Version(v)
        \/ page.detail = "failed" /\ shown.price = 0

PageInv == TypeOK /\ ShownWasTrue

\* The history is a true record: every row is an accepted bid with its price
\* and its bidder, none is listed twice, and the row marked as the lead, whose
\* bidder is shown as the leader, is the highest.
HistoryIsReal ==
    /\ \A i \in DOMAIN bids :
          /\ HistoryRow(i).price = log[bids[i].id].price
          /\ HistoryRow(i).who = log[bids[i].id].who
          /\ HistoryRow(i).lead => \A j \in DOMAIN bids : HistoryRow(j).price <= HistoryRow(i).price
    /\ \A i, j \in DOMAIN bids : bids[i].id = bids[j].id => i = j

\* A page that says "ended" under the banner says the last word: its countdown
\* is over, it takes no bid, its price is the final one, and the winner of its
\* popup, when the history has loaded, is the last accepted bidder.
EndedPageIsFinal ==
    EndedBanner =>
        /\ Countdown = "has ended" /\ MainButton \in {"over", "sending"}
        /\ shown.price = row.price
        /\ bids # <<>> => WinnerPopup = [winner |-> log[Len(log)].who, price |-> row.price]

\* What the user is told is true, and the page shows it: a bid reported as
\* placed is on record and on the page; one refused by the rules of the
\* auction is not on record.  Only "failed" leaves it open.
NoticesAreTrue ==
    \A n \in DOMAIN reqs :
        LET recorded == {v \in DOMAIN log : log[v].n = n} IN
        /\ reqs[n].notice = "success" =>
              \E v \in recorded : /\ log[v].price = reqs[n].price
                                  /\ HasBid(v) /\ shown.price >= reqs[n].price
        /\ reqs[n].notice \in {"too low", "not open", "own auction"} => recorded = {}

\* The price on the page never goes down, in whatever order answers come.
PriceNeverFalls == [][shown'.price >= shown.price]_vars

\* The page never hangs: every attempt ends and gives the button back, a page
\* with an auction id leaves its blank screen even if both GETs fail, and one
\* that was opened before the start lets its user bid after it.
PageResponds ==
    /\ form.loading ~> ~form.loading
    /\ page.validId ~> page.phase = "ready"
    /\ page.phase = "ready" /\ form.status = "PENDING" ~> form.status = "ACTIVE"

\* A push about a higher price is on the page once the socket has handed it over.
PushReachesPage ==
    [][page.phase = "ready" /\ wire # <<>> /\ wire' = Tail(wire) /\ socket' = "open"
         => shown'.price >= Head(wire).payload.new_price]_vars
=============================================================================
