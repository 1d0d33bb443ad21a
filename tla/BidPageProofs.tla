---------------------------- MODULE BidPageProofs ----------------------------
(* Safety of BidPage, for every auction, every choice of amounts and any    *)
(* number of bids, by this page and by others; and that the server it is    *)
(* checked against implements AuctionLedger.                                *)
EXTENDS BidPage, TLAPS

-----------------------------------------------------------------------------
(* The inductive invariant.                                                 *)

Recorded(n) == {v \in DOMAIN log : log[v].n = n}
Price(v) == Version(v)[1]

\* The record on the server: each bid beats the one before it, the row is that of
\* the last one, and the auction ends after its time.
Record ==
    /\ Version(Len(log)) = <<row.price, row.end>>
    /\ \A v, w \in 0 .. Len(log) : v < w => Price(v) < Price(w)
    /\ row.status = "ENDED" => now >= row.end
    /\ \A v \in DOMAIN log : log[v].n <= Len(reqs)

\* What is there before the page is ready.
Loading ==
    /\ page.phase # "ready" => form = NoForm /\ bids = <<>> /\ reqs = <<>>
    /\ page.phase \in {"blank", "stuck", "getAuction"} => shown.price = 0 /\ shown.status = "ACTIVE"
    /\ page.phase # "blank" => (page.name = "" <=> page.viewer = "guest")

\* The auction shown is a past version of the row, or the placeholder.
Fits(s) == \E v \in 0 .. Len(log) : <<s.price, s.end>> = Version(v)
ShownIsPast ==
    page.phase \in {"getBids", "ready"} =>
        Fits(shown) \/ (page.detail = "failed" /\ shown.price = 0)

\* The history shown is a part of the record, newest first.
HistoryIsPast ==
    /\ \A i \in DOMAIN bids : /\ bids[i].bid_price = log[bids[i].id].price
                              /\ bids[i].who = log[bids[i].id].who
    /\ \A i, j \in DOMAIN bids : i < j => bids[j].id < bids[i].id

\* The one bid that is under way, and what its answer knows.
InFlight ==
    \A n \in DOMAIN reqs : reqs[n].st # "settled" =>
        /\ n = Len(reqs) /\ form.loading /\ reqs[n].notice = "none"
        /\ reqs[n].st = "sent" => Recorded(n) = {}
        /\ reqs[n].st = "answered" /\ reqs[n].answer.error = "none" =>
              LET a == reqs[n].answer IN
              /\ a \in [error : {"none"}, bid_id : DOMAIN log, current_price : Nat, end_time : Nat]
              /\ log[a.bid_id] = [who |-> "me", n |-> n, price |-> a.current_price, end |-> a.end_time]
              /\ a.current_price = reqs[n].price /\ a.current_price > shown.price
              /\ page.viewer = "bidder"
              /\ \A i \in DOMAIN bids : bids[i].id < a.bid_id
        /\ reqs[n].st = "answered" /\ reqs[n].answer.error \notin {"none", "network"} =>
              Recorded(n) = {}

\* An auction that was over when it was loaded is shown as it ended.
OverIsOver ==
    /\ page.phase \in {"getBids", "ready"} /\ shown.status = "ENDED" =>
          row.status = "ENDED" /\ shown.price = row.price /\ shown.end = row.end
    /\ page.phase = "ready" /\ form.status = "ENDED" =>
          /\ shown.status = "ENDED" /\ form.seen >= shown.end /\ reqs = <<>>
          /\ bids # <<>> => bids[1].id = Len(log)

IInv ==
    /\ TypeOK /\ Record /\ Loading /\ ShownIsPast /\ HistoryIsPast /\ InFlight /\ OverIsOver
    /\ NoticesAreTrue

-----------------------------------------------------------------------------
(* The operators.                                                           *)

\* The constants, one by one.
LEMMA Constants ==
    /\ StartTime \in Nat /\ EndTime \in Nat /\ Window \in Nat /\ MaxExt \in Nat
    /\ MaxPrice \in Nat /\ HistoryLimit \in Nat /\ Inputs \subseteq Int
    /\ MinBidIncrement \in Nat \ {0} /\ PlaceholderIncrement \in Nat \ {0}
BY TimesAssumption, IncrementsAssumption

\* A push has not the shape the page waits for.
LEMMA PushIsNoBid ==
    ASSUME NEW message \in [event : {"NEW_BID"}, payload : [new_price : Nat]]
    PROVE  ~IsNewBid(message)
<1>1. DOMAIN message = {"event", "payload"}
  OBVIOUS
<1> QED  BY <1>1 DEF IsNewBid

\* Neither has a refusal the field that the outbid branch reads.
LEMMA NoFallback ==
    ASSUME NEW a \in Answers
    PROVE  FallbackPrice(a) = 0
<1>1. CASE a.error = "bid_too_low"
  <2>1. PICK b \in [LatestPrice : Nat, LatestVersion : Nat] : a.fallback_data = b
    BY <1>1 DEF Answers
  <2>2. DOMAIN b = {"LatestPrice", "LatestVersion"}
    OBVIOUS
  <2> QED  BY <2>1, <2>2 DEF FallbackPrice
<1>2. CASE a.error # "bid_too_low"
  BY <1>2 DEF FallbackPrice
<1> QED  BY <1>1, <1>2

\* What the page says of an answer.
LEMMA NoticeOfAnswer ==
    ASSUME NEW a \in Answers
    PROVE  /\ a.error = "none" => Notice(a) = "success"
           /\ a.error = "network" => Notice(a) = "failed"
           /\ a.error \notin {"none", "network"} =>
                 Notice(a) \in {"too low", "not open", "own auction"}
<1>1. FallbackPrice(a) = 0 /\ ~(FallbackPrice(a) > 0)
  BY NoFallback
<1>2. a.error \in {"none", "network", "auction_not_active", "forbidden_self_bid", "bid_too_low"}
  BY DEF Answers
<1> QED  BY <1>1, <1>2 DEF Notice

\* A longer record keeps the versions there were.
LEMMA VersionsStay ==
    ASSUME TypeOK, NEW e \in Log, log' = Append(log, e)
    PROVE  /\ Len(log) \in Nat /\ Len(log') = Len(log) + 1 /\ log' \in Seq(Log)
           /\ DOMAIN log = 1 .. Len(log) /\ DOMAIN log' = 1 .. Len(log')
           /\ \A v \in DOMAIN log : log'[v] = log[v]
           /\ log'[Len(log')] = e
           /\ \A v \in 0 .. Len(log) : Version(v)' = Version(v)
           /\ Version(Len(log))' = <<e.price, e.end>>
<1>1. /\ Len(log) \in Nat /\ Len(log') = Len(log) + 1 /\ log' \in Seq(Log)
      /\ DOMAIN log = 1 .. Len(log) /\ DOMAIN log' = 1 .. Len(log')
      /\ \A v \in 1 .. Len(log) : log'[v] = log[v]
      /\ log'[Len(log) + 1] = e
  BY DEF TypeOK
<1>2. \A v \in 0 .. Len(log) : Version(v)' = Version(v)
  BY <1>1 DEF Version
<1>3. Version(Len(log))' = <<e.price, e.end>>
  BY <1>1 DEF Version
<1> QED  BY <1>1, <1>2, <1>3

\* Prices of versions are numbers, the last one is that of the row.
LEMMA PricesAscend ==
    ASSUME TypeOK, Record, NEW v \in 0 .. Len(log)
    PROVE  Price(v) \in Nat /\ Price(v) <= row.price /\ Price(Len(log)) = row.price
<1>1. Len(log) \in Nat /\ row.price \in Nat /\ Price(Len(log)) = row.price
  BY DEF TypeOK, Record, Price, Rows
<1>2. Price(v) \in Nat
  <2>1. v # 0 => log[v] \in Log
    BY DEF TypeOK
  <2>2. v # 0 => log[v].price \in Nat
    BY <2>1 DEF Log
  <2> QED  BY <2>2 DEF Price, Version
<1>3. v < Len(log) => Price(v) < Price(Len(log))
  BY <1>1 DEF Record
<1> QED  BY <1>1, <1>2, <1>3

\* A timer that fires reads the clock; it opens a form and never ends one.
LEMMA EffectsOnForm ==
    ASSUME TypeOK, NEW f \in Forms, NEW s \in Shown
    PROVE  /\ Effects(f, s) \in Forms /\ Effects(f, s).seen = now
           /\ Effects(f, s).loading = f.loading
           /\ Effects(f, s).status = "ENDED" <=> f.status = "ENDED"
<1>0. now \in 0 .. now
  BY DEF TypeOK
<1> DEFINE g == [f EXCEPT !.seen = now]
<1>1. g \in Forms /\ g.seen = now /\ g.loading = f.loading /\ g.status = f.status
  BY <1>0 DEF Forms
<1> DEFINE h == StatusEffect(g, s)
<1> HIDE DEF g
<1>2. h \in Forms /\ h.seen = now /\ h.loading = f.loading /\ (h.status = "ENDED" <=> f.status = "ENDED")
  BY <1>1 DEF StatusEffect, Forms, Statuses
<1> HIDE DEF h
<1>3. LET k == PopupEffect(h, s) IN
      k \in Forms /\ k.seen = now /\ k.loading = f.loading /\ (k.status = "ENDED" <=> f.status = "ENDED")
  BY <1>2 DEF PopupEffect, Forms
<1> QED  BY <1>3 DEF Effects, g, h

-----------------------------------------------------------------------------
(* The start, and what the run checks.                                      *)

\* The blank page satisfies the invariant.
LEMMA InitIInv == Init => IInv
<1> SUFFICES ASSUME Init PROVE IInv
  OBVIOUS
<1>0. /\ now = 0 /\ log = <<>> /\ wire = <<>> /\ bids = <<>> /\ reqs = <<>> /\ form = NoForm
      /\ row = [price |-> 1, end |-> EndTime, ext |-> 0, status |-> "PENDING"]
      /\ shown = [price |-> 0, inc |-> PlaceholderIncrement, start |-> 0, end |-> 0,
                  status |-> "ACTIVE"]
      /\ page.phase = "blank" /\ page \in Pages /\ socket = "none"
  BY DEF Init, ServerInit, Pages
<1>1. TypeOK
  <2>1. row \in Rows
    BY <1>0, Constants DEF Rows, Statuses
  <2>2. NoForm \in Forms
    <3>1. 0 \in 0 .. now
      BY <1>0
    <3> QED  BY <3>1 DEF NoForm, Forms, Statuses
  <2>3. shown \in Shown
    BY <1>0, Constants DEF Shown, Statuses
  <2>4. log \in Seq(Log) /\ bids \in Seq(Listed) /\ reqs \in Seq(Sent)
    BY <1>0
  <2>5. wire \in Seq([event : {"NEW_BID"}, payload : [new_price : Nat]])
    BY <1>0
  <2> QED  BY <1>0, <2>1, <2>2, <2>3, <2>4, <2>5 DEF TypeOK
<1>2. Record
  <2>1. log = <<>> /\ Len(log) = 0 /\ DOMAIN log = {} /\ row.price = 1 /\ row.end = EndTime
        /\ row.status = "PENDING"
    BY <1>0
  <2>2. Version(Len(log)) = <<row.price, row.end>>
    BY <2>1 DEF Version
  <2> QED  BY <2>1, <2>2 DEF Record
<1>3. Loading
  BY <1>0 DEF Loading
<1>4. ShownIsPast /\ HistoryIsPast
  <2>1. DOMAIN bids = {}
    BY <1>0
  <2> QED  BY <1>0, <2>1 DEF ShownIsPast, HistoryIsPast
<1>5. InFlight /\ NoticesAreTrue
  <2>1. DOMAIN reqs = {}
    BY <1>0
  <2> QED  BY <2>1 DEF InFlight, NoticesAreTrue
<1>6. OverIsOver
  BY <1>0 DEF OverIsOver
<1> QED  BY <1>1, <1>2, <1>3, <1>4, <1>5, <1>6 DEF IInv

\* The price and the end time belong together.
LEMMA IInvIsPageInv == IInv => PageInv
BY DEF IInv, PageInv, ShownWasTrue, ShownIsPast, Fits

\* The history is a record, and its first row is the highest.
LEMMA IInvIsHistory == IInv => HistoryIsReal
<1> SUFFICES ASSUME IInv PROVE HistoryIsReal
  OBVIOUS
<1> USE DEF IInv
<1>1. DOMAIN bids = 1 .. Len(bids) /\ Len(bids) \in Nat /\ Len(log) \in Nat
      /\ \A i \in DOMAIN bids : bids[i] \in Listed
  BY DEF TypeOK
<1>2. \A i \in DOMAIN bids : bids[i].id \in 1 .. Len(log) /\ bids[i].bid_price = Price(bids[i].id)
  BY <1>1 DEF Listed, HistoryIsPast, Price, Version
<1>3. ASSUME NEW i \in DOMAIN bids, NEW j \in DOMAIN bids, HistoryRow(i).lead
      PROVE  HistoryRow(j).price <= HistoryRow(i).price
  <2>1. i = 1 /\ (j = i \/ i < j)
    <3>1. HistoryRow(i).lead <=> i = 1
      BY DEF HistoryRow
    <3> QED  BY <1>1, <1>3, <3>1
  <2>2. Price(bids[i].id) \in Nat /\ Price(bids[j].id) \in Nat
    BY <1>1, <1>2, PricesAscend
  <2>3. CASE i < j
    <3>1. bids[j].id < bids[i].id
      BY <2>3 DEF HistoryIsPast
    <3>2. Price(bids[j].id) < Price(bids[i].id)
      BY <1>1, <1>2, <3>1 DEF Record
    <3> QED  BY <1>2, <2>2, <3>2 DEF HistoryRow
  <2> QED  BY <1>2, <2>1, <2>2, <2>3 DEF HistoryRow
<1>4. ASSUME NEW i \in DOMAIN bids, NEW j \in DOMAIN bids, bids[i].id = bids[j].id PROVE i = j
  <2>1. ~(bids[i].id < bids[j].id) /\ ~(bids[j].id < bids[i].id)
    BY <1>1, <1>2, <1>4
  <2> QED  BY <1>1, <2>1 DEF HistoryIsPast
<1>5. ASSUME NEW i \in DOMAIN bids
      PROVE  HistoryRow(i).price = log[bids[i].id].price /\ HistoryRow(i).who = log[bids[i].id].who
  BY DEF HistoryIsPast, HistoryRow
<1> QED  BY <1>3, <1>4, <1>5 DEF HistoryIsReal

\* "Ended" is the last word.
LEMMA IInvIsEnded == IInv => EndedPageIsFinal
<1> SUFFICES ASSUME IInv, EndedBanner PROVE EndedPageIsFinal
  BY DEF EndedPageIsFinal
<1> USE DEF IInv, EndedBanner
<1>1. /\ row.status = "ENDED" /\ shown.price = row.price /\ form.seen >= shown.end /\ reqs = <<>>
      /\ bids # <<>> => bids[1].id = Len(log)
  BY DEF OverIsOver
<1>2. Countdown = "has ended" /\ MainButton \in {"over", "sending"}
  BY <1>1 DEF Countdown, MainButton, Passed
<1>3. ASSUME bids # <<>> PROVE WinnerPopup = [winner |-> log[Len(log)].who, price |-> row.price]
  <2>1. 1 \in DOMAIN bids /\ bids[1] \in Listed
    BY <1>3 DEF TypeOK
  <2>2. Len(log) \in 1 .. Len(log)
    BY <1>1, <1>3, <2>1 DEF Listed
  <2>3. bids[1].bid_price = log[Len(log)].price /\ bids[1].who = log[Len(log)].who
    BY <1>1, <1>3, <2>1 DEF HistoryIsPast
  <2>4. log[Len(log)].price = row.price
    BY <2>2 DEF Record, Version, TypeOK
  <2> QED  BY <1>3, <2>3, <2>4 DEF WinnerPopup, Leader
<1> QED  BY <1>1, <1>2, <1>3 DEF EndedPageIsFinal

-----------------------------------------------------------------------------
(* Steps that leave the record, the auction shown, the history and the bids *)
(* of the page alone: the clock, the status of the row, the socket and the  *)
(* form.                                                                    *)

Wires == Seq([event : {"NEW_BID"}, payload : [new_price : Nat]])

\* Such a step preserves the invariant: nothing it is about has moved.
LEMMA AsideStep ==
    ASSUME IInv, UNCHANGED <<log, page, shown, bids, reqs>>,
           now' \in Nat, now <= now', row' \in Rows, row'.price = row.price, row'.end = row.end,
           row.status = "ENDED" => row'.status = "ENDED", row'.status = "ENDED" => now' >= row.end,
           wire' \in Wires, socket' \in {"none", "connecting", "open", "closed"},
           form' \in Forms', form'.loading <=> form.loading, form.seen <= form'.seen,
           form'.status = "ENDED" <=> form.status = "ENDED",
           page.phase # "ready" => form' = form
    PROVE  IInv'
<1> USE DEF IInv
<1>1. TypeOK'
  BY DEF TypeOK, Wires, Listed, Pages, Shown, Rows, Forms
<1>2. Record'
  <2>1. Version(Len(log))' = Version(Len(log)) /\ Version(Len(log)) = <<row.price, row.end>>
    BY DEF Version, Record
  <2> QED  BY <2>1 DEF Record, Price, Version
<1>3. Loading'
  BY DEF Loading, NoForm
<1>4. ShownIsPast'
  BY DEF ShownIsPast, Fits, Version
<1>5. HistoryIsPast'
  BY DEF HistoryIsPast
<1>6. InFlight'
  BY DEF InFlight, Recorded
<1>7. OverIsOver'
  <2>1. form.seen \in Nat /\ form'.seen \in Nat /\ shown.end \in Nat
    BY <1>1 DEF TypeOK, Forms, Shown
  <2> QED  BY <2>1 DEF OverIsOver
<1>8. NoticesAreTrue'
  BY DEF NoticesAreTrue, HasBid
<1> QED  BY <1>1, <1>2, <1>3, <1>4, <1>5, <1>6, <1>7, <1>8

\* The head of a queue is one of its messages.
LEMMA HeadIsIn ==
    ASSUME NEW S, NEW q \in Seq(S), q # <<>>
    PROVE  Head(q) \in S /\ Tail(q) \in Seq(S)
<1>1. Len(q) \in Nat \ {0} /\ Head(q) = q[1] /\ q[1] \in S
  OBVIOUS
<1> QED  BY <1>1

\* A queue that gets a message is a queue of such messages.
LEMMA AppendIsIn ==
    ASSUME NEW S, NEW q \in Seq(S), NEW x \in S
    PROVE  Append(q, x) \in Seq(S)
OBVIOUS

\* The rows of the history.
LEMMA ListedRows ==
    ASSUME TypeOK
    PROVE  /\ Len(bids) \in Nat /\ DOMAIN bids = 1 .. Len(bids)
           /\ \A i \in DOMAIN bids : bids[i] \in Listed /\ bids[i].id \in DOMAIN log
           /\ DOMAIN log = 1 .. Len(log) /\ Len(log) \in Nat
<1>1. /\ Len(bids) \in Nat /\ DOMAIN bids = 1 .. Len(bids)
      /\ \A i \in DOMAIN bids : bids[i] \in Listed
  BY DEF TypeOK
<1>2. DOMAIN log = 1 .. Len(log) /\ Len(log) \in Nat
  BY DEF TypeOK
<1>3. \A b \in Listed : b.id \in 1 .. Len(log)
  BY DEF Listed
<1> QED  BY <1>1, <1>2, <1>3

\* The clock, the scheduler and the socket.
LEMMA OutsideStep ==
    ASSUME IInv, \/ Tick \/ Activate \/ End
                 \/ SocketOpens \/ SocketCloses \/ SocketMessage \/ UNCHANGED vars
    PROVE  IInv'
<1>1. /\ now \in Nat /\ row \in Rows /\ form \in Forms /\ wire \in Wires
      /\ socket \in {"none", "connecting", "open", "closed"}
      /\ row.status = "ENDED" => now >= row.end
  BY DEF IInv, TypeOK, Record, Wires
<1>2. UNCHANGED <<log, page, shown, bids, reqs, form>>
  <2>1. ASSUME SocketMessage PROVE UNCHANGED <<shown, bids>>
    <3>1. ~IsNewBid(Head(wire))
      <4>1. Head(wire) \in [event : {"NEW_BID"}, payload : [new_price : Nat]]
        BY <1>1, <2>1, HeadIsIn DEF SocketMessage, Wires
      <4> QED  BY <4>1, PushIsNoBid
    <3> QED  BY <2>1, <3>1 DEF SocketMessage
  <2> QED  BY <2>1 DEF Tick, Activate, End, SocketOpens, SocketCloses, SocketMessage, vars, view, server
<1>3. now' \in Nat /\ now <= now'
  BY <1>1 DEF Tick, Activate, End, SocketOpens, SocketCloses, SocketMessage, vars
<1>4. /\ row' \in Rows /\ row'.price = row.price /\ row'.end = row.end
      /\ row.status = "ENDED" => row'.status = "ENDED"
      /\ row'.status = "ENDED" => now' >= row.end
  <2>1. row.end \in Nat
    BY <1>1 DEF Rows
  <2>2. CASE Activate \/ End
    <3>1. row' \in {[row EXCEPT !.status = "ACTIVE"], [row EXCEPT !.status = "ENDED"]} /\ now' = now
          /\ (row'.status = "ENDED" => now >= row.end) /\ row.status # "ENDED"
      BY <1>1, <2>2 DEF Activate, End, Rows
    <3> QED  BY <1>1, <2>1, <3>1 DEF Rows, Statuses
  <2>3. CASE ~(Activate \/ End)
    <3>1. row' = row
      BY <2>3 DEF Tick, SocketOpens, SocketCloses, SocketMessage, vars, server
    <3> QED  BY <1>1, <1>3, <2>1, <3>1
  <2> QED  BY <2>2, <2>3
<1>5. wire' \in Wires /\ socket' \in {"none", "connecting", "open", "closed"}
  <2>1. ASSUME SocketMessage PROVE wire' \in Wires
    <3>1. wire # <<>> /\ wire' = Tail(wire)
      BY <2>1 DEF SocketMessage
    <3> QED  BY <1>1, <3>1 DEF Wires
  <2>2. <<>> \in Wires
    BY DEF Wires
  <2> QED  BY <1>1, <2>1, <2>2 DEF Tick, Activate, End, SocketOpens, SocketCloses, SocketMessage, vars
<1>6. form' \in Forms' /\ form.seen \in Nat
  BY <1>1, <1>2, <1>3 DEF Forms
<1> QED  BY <1>1, <1>2, <1>3, <1>4, <1>5, <1>6, AsideStep

\* The timers, the amount and the popup.
LEMMA FormStep ==
    ASSUME IInv, \/ CountdownTick \/ ClosePopup \/ OpenPopup
                 \/ \E amount \in QuickIncrements \cup Inputs : ChooseAmount(amount)
    PROVE  IInv'
<1>1. /\ now \in Nat /\ row \in Rows /\ form \in Forms /\ wire \in Wires /\ shown \in Shown
      /\ socket \in {"none", "connecting", "open", "closed"} /\ TypeOK
      /\ row.status = "ENDED" => now >= row.end
      /\ page.phase # "ready" => form = NoForm
  BY DEF IInv, TypeOK, Record, Wires, Loading
<1>2. UNCHANGED <<now, server, log, wire, socket, page, shown, bids, reqs>> /\ row' = row
  BY DEF CountdownTick, ClosePopup, OpenPopup, ChooseAmount, server
<1>3. /\ form' \in Forms /\ (form'.loading <=> form.loading) /\ form.seen <= form'.seen
      /\ form'.status = "ENDED" <=> form.status = "ENDED"
  <2>0. form.seen \in 0 .. now
    BY <1>1 DEF Forms
  <2>1. CASE CountdownTick
    <3>1. form' = Effects(form, shown)
      BY <2>1 DEF CountdownTick
    <3> QED  BY <1>1, <2>0, <3>1, EffectsOnForm
  <2>2. CASE ClosePopup \/ OpenPopup
    <3>1. PICK p \in BOOLEAN : form' = [form EXCEPT !.popup = p]
      BY <2>2 DEF ClosePopup, OpenPopup
    <3> QED  BY <1>1, <2>0, <3>1 DEF Forms
  <2>3. ASSUME NEW a \in QuickIncrements \cup Inputs, ChooseAmount(a)
        PROVE  /\ form' \in Forms /\ (form'.loading <=> form.loading) /\ form.seen <= form'.seen
               /\ form'.status = "ENDED" <=> form.status = "ENDED"
    <3>1. a \in Int
      <4>1. shown.inc \in Int
        BY <1>1 DEF Shown
      <4>2. \A k \in {1, 2, 5, 10} : shown.inc * k \in Int
        BY <4>1
      <4> QED  BY <4>2, Constants DEF QuickIncrements
    <3>2. form' = [form EXCEPT !.amount = a]
      BY <2>3 DEF ChooseAmount
    <3> QED  BY <1>1, <2>0, <3>1, <3>2 DEF Forms
  <2> QED  BY <2>1, <2>2, <2>3
<1>4. page.phase # "ready" => form' = form
  BY <1>1 DEF CountdownTick, ClosePopup, OpenPopup, ChooseAmount, EndedBanner, Bidding, NoForm
<1>5. form' \in Forms'
  BY <1>2, <1>3 DEF Forms
<1>6. now <= now' /\ now' \in Nat
  BY <1>1, <1>2
<1> QED  BY <1>1, <1>2, <1>3, <1>4, <1>5, <1>6, AsideStep

-----------------------------------------------------------------------------
(* A bid is accepted.                                                       *)

\* What an accepted bid does to the server and the queue of the socket.
LEMMA AcceptEffect ==
    ASSUME IInv, NEW who \in {"me", "other"}, NEW n \in Nat, NEW price \in Nat,
           Acceptable(price), Accept(who, n, price)
    PROVE  /\ \E e \in Log : /\ log' = Append(log, e) /\ e.who = who /\ e.n = n
                             /\ e.price = price /\ e.end = row'.end
           /\ row' \in Rows /\ row.status = "ACTIVE" /\ row'.status = "ACTIVE"
           /\ row'.price = price /\ row.price < price /\ wire' \in Wires
<1>1. /\ row \in Rows /\ wire \in Wires /\ now \in Nat
      /\ row.price \in Nat /\ row.end \in Nat /\ row.ext \in Nat
  BY DEF IInv, TypeOK, Wires, Rows
<1> DEFINE extend == row.end - now <= Window /\ row.ext < MaxExt
           end == IF extend THEN row.end + Window ELSE row.end
           ext == IF extend THEN row.ext + 1 ELSE row.ext
           e == [who |-> who, n |-> n, price |-> price, end |-> end]
<1>2. end \in Nat /\ ext \in Nat
  BY <1>1, Constants
<1>3. /\ row' = [row EXCEPT !.price = price, !.end = end, !.ext = ext]
      /\ log' = Append(log, e)
      /\ wire' = IF socket = "open" THEN Append(wire, Envelope(price)) ELSE wire
  BY <1>1 DEF Accept, Rows
<1> HIDE DEF extend, end, ext
<1>4. row' \in Rows /\ row'.status = row.status /\ row'.price = price /\ row'.end = end
  BY <1>1, <1>2, <1>3 DEF Rows
<1>5. e \in Log /\ e.who = who /\ e.n = n /\ e.price = price /\ e.end = row'.end
  BY <1>2, <1>4 DEF Log
<1>6. wire' \in Wires
  <2>1. Envelope(price) \in [event : {"NEW_BID"}, payload : [new_price : Nat]]
    BY DEF Envelope
  <2>2. Append(wire, Envelope(price)) \in Wires
    BY <1>1, <2>1, AppendIsIn DEF Wires
  <2> QED  BY <1>1, <1>3, <2>2
<1>7. row.status = "ACTIVE" /\ row.price < price
  BY <1>1, Constants DEF Acceptable
<1> QED  BY <1>3, <1>4, <1>5, <1>6, <1>7

\* The page does not notice: what it shows was true and stays so.
LEMMA RecordGrows ==
    ASSUME IInv, NEW e \in Log, log' = Append(log, e), e.end = row'.end, e.price = row'.price,
           row.price < row'.price, row' \in Rows, wire' \in Wires,
           row.status = "ACTIVE", row'.status = "ACTIVE", e.n <= Len(reqs),
           UNCHANGED <<now, socket, page, shown, bids, form>>,
           reqs' \in Seq(Sent), Len(reqs') = Len(reqs)
    PROVE  /\ TypeOK' /\ Record' /\ Loading' /\ ShownIsPast' /\ HistoryIsPast' /\ OverIsOver'
           /\ \A m : m # e.n => Recorded(m)' = Recorded(m)
           /\ \A v \in DOMAIN log : v \in DOMAIN log' /\ log'[v] = log[v]
           /\ log'[Len(log')] = e /\ Len(log') \in DOMAIN log' /\ Len(log') = Len(log) + 1
<1> USE DEF IInv
<1>1. /\ Len(log) \in Nat /\ Len(log') = Len(log) + 1 /\ log' \in Seq(Log)
      /\ DOMAIN log = 1 .. Len(log) /\ DOMAIN log' = 1 .. Len(log')
      /\ \A v \in DOMAIN log : log'[v] = log[v]
      /\ log'[Len(log')] = e
      /\ \A v \in 0 .. Len(log) : Version(v)' = Version(v)
      /\ Version(Len(log))' = <<e.price, e.end>>
  BY VersionsStay
<1>2. TypeOK'
  <2>1. \A b \in Listed : b \in Listed'
    BY <1>1 DEF Listed
  <2>2. bids' \in Seq(Listed')
    BY <2>1, ListedRows DEF TypeOK
  <2> QED  BY <1>1, <2>2 DEF TypeOK, Wires, Pages, Shown, Forms
<1>3. Record'
  <2>1. ASSUME NEW v \in 0 .. Len(log'), NEW w \in 0 .. Len(log'), v < w
        PROVE  Version(v)'[1] < Version(w)'[1]
    <3>1. v \in 0 .. Len(log) /\ Version(v)'[1] = Price(v) /\ Price(v) \in Nat /\ Price(v) <= row.price
      BY <1>1, <2>1, PricesAscend DEF Price
    <3>2. CASE w = Len(log')
      <4>1. Version(w)'[1] = e.price
        BY <1>1, <3>2 DEF Version
      <4> QED  BY <3>1, <4>1 DEF TypeOK, Rows
    <3>3. CASE w # Len(log')
      <4>1. w \in 0 .. Len(log) /\ Version(w)'[1] = Price(w)
        BY <1>1, <3>3 DEF Price
      <4> QED  BY <2>1, <3>1, <4>1 DEF Record
    <3> QED  BY <3>2, <3>3
  <2>2. \A v \in DOMAIN log' : log'[v].n <= Len(reqs')
    BY <1>1 DEF Record
  <2> QED  BY <1>1, <2>1, <2>2 DEF Record, Price
<1>4. Loading'
  <2>1. reqs = <<>> => reqs' = <<>>
    BY DEF TypeOK
  <2> QED  BY <2>1 DEF Loading, NoForm
<1>5. ShownIsPast'
  <2>1. Fits(shown) => Fits(shown)'
    <3>1. 0 .. Len(log) \subseteq 0 .. Len(log')
      BY <1>1
    <3> QED  BY <1>1, <3>1 DEF Fits
  <2> QED  BY <2>1 DEF ShownIsPast
<1>6. HistoryIsPast'
  <2>1. \A i \in DOMAIN bids : bids[i].id \in DOMAIN log
    BY ListedRows
  <2> QED  BY <1>1, <2>1 DEF HistoryIsPast
<1>7. OverIsOver'
  BY DEF OverIsOver
<1>8. ASSUME NEW m, m # e.n PROVE Recorded(m)' = Recorded(m)
  BY <1>1, <1>8 DEF Recorded
<1> QED  BY <1>1, <1>2, <1>3, <1>4, <1>5, <1>6, <1>7, <1>8

\* Somebody else's bid serves no request of this page.
LEMMA OtherBidsStep ==
    ASSUME IInv, NEW price \in 1 .. MaxPrice, OtherBids(price)
    PROVE  IInv'
<1>0. /\ Acceptable(price) /\ Accept("other", 0, price) /\ price \in Nat
      /\ UNCHANGED <<now, socket, page, shown, bids, form, reqs>>
      /\ "other" \in {"me", "other"} /\ 0 \in Nat
  BY Constants DEF OtherBids, view
<1>accepted. /\ \E e \in Log : /\ log' = Append(log, e) /\ e.who = "other" /\ e.n = 0
                        /\ e.price = price /\ e.end = row'.end
      /\ row' \in Rows /\ row.status = "ACTIVE" /\ row'.status = "ACTIVE"
      /\ row'.price = price /\ row.price < price /\ wire' \in Wires
  BY <1>0, AcceptEffect
<1>1. PICK e \in Log : log' = Append(log, e) /\ e.n = 0 /\ e.price = price /\ e.end = row'.end
  BY <1>accepted
<1>2. /\ row' \in Rows /\ row.status = "ACTIVE" /\ row'.status = "ACTIVE"
      /\ row'.price = price /\ row.price < price /\ wire' \in Wires
  BY <1>accepted
<1> USE DEF IInv
<1>3. reqs \in Seq(Sent) /\ Len(reqs) \in Nat /\ DOMAIN reqs = 1 .. Len(reqs) /\ e.n <= Len(reqs)
  BY <1>1 DEF TypeOK
<1>4. /\ TypeOK' /\ Record' /\ Loading' /\ ShownIsPast' /\ HistoryIsPast' /\ OverIsOver'
      /\ \A m : m # e.n => Recorded(m)' = Recorded(m)
      /\ \A v \in DOMAIN log : v \in DOMAIN log' /\ log'[v] = log[v]
  BY <1>0, <1>1, <1>2, <1>3, RecordGrows
<1>5. \A n \in DOMAIN reqs : n # 0 /\ Recorded(n)' = Recorded(n)
  BY <1>1, <1>3, <1>4
<1>6. InFlight'
  <2> SUFFICES ASSUME NEW n \in DOMAIN reqs, reqs[n].st # "settled"
               PROVE  /\ n = Len(reqs) /\ form.loading /\ reqs[n].notice = "none"
                      /\ reqs[n].st = "sent" => Recorded(n)' = {}
                      /\ reqs[n].st = "answered" /\ reqs[n].answer.error = "none" =>
                           LET a == reqs[n].answer IN
                           /\ a \in [error : {"none"}, bid_id : DOMAIN log', current_price : Nat, end_time : Nat]
                           /\ log'[a.bid_id] = [who |-> "me", n |-> n, price |-> a.current_price, end |-> a.end_time]
                           /\ a.current_price = reqs[n].price /\ a.current_price > shown.price
                           /\ page.viewer = "bidder"
                           /\ \A i \in DOMAIN bids : bids[i].id < a.bid_id
                      /\ reqs[n].st = "answered" /\ reqs[n].answer.error \notin {"none", "network"} =>
                           Recorded(n)' = {}
    BY <1>0 DEF InFlight, Recorded
  <2> QED  BY <1>4, <1>5 DEF InFlight
<1>7. NoticesAreTrue'
  <2>1. \A n \in DOMAIN reqs : {v \in DOMAIN log' : log'[v].n = n} = {v \in DOMAIN log : log[v].n = n}
    BY <1>5 DEF Recorded
  <2> QED  BY <1>0, <1>4, <2>1 DEF NoticesAreTrue, HasBid
<1> QED  BY <1>4, <1>6, <1>7

\* An answer reaches the page's request and no other.
LEMMA AnswerEffect ==
    ASSUME TypeOK, NEW n \in DOMAIN reqs, NEW a \in Answers, Answer(n, a)
    PROVE  /\ reqs' \in Seq(Sent) /\ Len(reqs') = Len(reqs) /\ DOMAIN reqs' = DOMAIN reqs
           /\ reqs'[n].st = "answered" /\ reqs'[n].answer = a
           /\ reqs'[n].price = reqs[n].price /\ reqs'[n].notice = reqs[n].notice
           /\ \A m \in DOMAIN reqs : m # n => reqs'[m] = reqs[m]
<1>1. reqs[n] \in Sent /\ reqs \in Seq(Sent) /\ DOMAIN reqs = 1 .. Len(reqs) /\ Len(reqs) \in Nat
  BY DEF TypeOK
<1>2. PICK r \in Sent : /\ r = [reqs[n] EXCEPT !.st = "answered", !.answer = a]
                        /\ r.st = "answered" /\ r.answer = a
                        /\ r.price = reqs[n].price /\ r.notice = reqs[n].notice
  <2>1. PICK q \in Sent : q = reqs[n]
    BY <1>1
  <2>2. [q EXCEPT !.st = "answered", !.answer = a] \in Sent
    BY DEF Sent
  <2>3. \A r \in Sent : r = [q EXCEPT !.st = "answered", !.answer = a] =>
           r.st = "answered" /\ r.answer = a /\ r.price = q.price /\ r.notice = q.notice
    BY DEF Sent
  <2> QED  BY <2>1, <2>2, <2>3
<1>3. reqs' = [reqs EXCEPT ![n] = r]
  BY <1>1, <1>2 DEF Answer
<1> QED  BY <1>1, <1>2, <1>3

\* The auction shown is no dearer than the row.
LEMMA ShownBelowRow ==
    ASSUME IInv, page.phase = "ready"
    PROVE  shown.price \in Nat /\ shown.price <= row.price /\ row.price \in Nat
<1>1. shown.price \in Nat /\ row.price \in Nat
  BY DEF IInv, TypeOK, Shown, Rows
<1>2. ASSUME NEW v \in 0 .. Len(log), <<shown.price, shown.end>> = Version(v)
      PROVE  shown.price <= row.price
  <2>1. shown.price = Price(v)
    BY <1>2 DEF Price
  <2> QED  BY <2>1, PricesAscend DEF IInv
<1> QED  BY <1>1, <1>2 DEF IInv, ShownIsPast, Fits

\* The one bid under way is the last the page has sent.
LEMMA OnlyOne ==
    ASSUME IInv, NEW n \in DOMAIN reqs, reqs[n].st # "settled"
    PROVE  /\ n = Len(reqs) /\ form.loading /\ reqs[n].notice = "none" /\ page.phase = "ready"
           /\ \A m \in DOMAIN reqs : m # n => reqs[m].st = "settled"
           /\ n \in Nat /\ n # 0 /\ DOMAIN reqs = 1 .. Len(reqs) /\ reqs[n].price \in Nat
<1>1. DOMAIN reqs = 1 .. Len(reqs) /\ Len(reqs) \in Nat /\ reqs[n] \in Sent
  BY DEF IInv, TypeOK
<1>2. page.phase = "ready"
  <2>1. reqs # <<>>
    BY <1>1
  <2> QED  BY <2>1 DEF IInv, Loading
<1>3. reqs[n].price \in Nat
  BY <1>1 DEF Sent
<1>4. \A m \in DOMAIN reqs : reqs[m].st # "settled" =>
         m = Len(reqs) /\ form.loading /\ reqs[m].notice = "none"
  BY DEF IInv, InFlight
<1> QED  BY <1>1, <1>2, <1>3, <1>4

\* NoticesAreTrue of one request.
Told(n) ==
    /\ reqs[n].notice = "success" =>
          \E v \in {w \in DOMAIN log : log[w].n = n} :
              log[v].price = reqs[n].price /\ HasBid(v) /\ shown.price >= reqs[n].price
    /\ reqs[n].notice \in {"too low", "not open", "own auction"} =>
          {w \in DOMAIN log : log[w].n = n} = {}

\* What was said stays true of a longer record, if the page forgets no bid and does not
\* show a lower price.
LEMMA NoticesKeep ==
    ASSUME TypeOK, NoticesAreTrue, \A v \in DOMAIN log : v \in DOMAIN log' /\ log'[v] = log[v],
           \A i \in DOMAIN bids : \E j \in DOMAIN bids' : bids'[j] = bids[i],
           shown'.price \in Nat, shown.price <= shown'.price,
           \A m \in DOMAIN reqs' :
              \/ reqs'[m].notice \in {"none", "failed"}
              \/ Told(m)'
              \/ /\ m \in DOMAIN reqs /\ reqs'[m].notice = reqs[m].notice
                 /\ reqs'[m].price = reqs[m].price /\ Recorded(m)' = Recorded(m)
    PROVE  NoticesAreTrue'
<1> SUFFICES ASSUME NEW m \in DOMAIN reqs', reqs'[m].notice \notin {"none", "failed"}, ~Told(m)'
             PROVE  /\ reqs'[m].notice = "success" =>
                         \E v \in {w \in DOMAIN log' : log'[w].n = m} :
                            /\ log'[v].price = reqs'[m].price
                            /\ \E i \in 1 .. Len(bids') : bids'[i].id = v
                            /\ shown'.price >= reqs'[m].price
                    /\ reqs'[m].notice \in {"too low", "not open", "own auction"} =>
                         {w \in DOMAIN log' : log'[w].n = m} = {}
  BY DEF NoticesAreTrue, Told, HasBid
<1>1. /\ m \in DOMAIN reqs /\ reqs'[m].notice = reqs[m].notice /\ reqs'[m].price = reqs[m].price
      /\ {w \in DOMAIN log' : log'[w].n = m} = {w \in DOMAIN log : log[w].n = m}
  BY DEF Recorded
<1>2. CASE reqs[m].notice = "success"
  <2>0. shown.price \in Nat /\ reqs[m].price \in Nat
    <3>1. reqs[m] \in Sent /\ shown.price \in Nat
      BY <1>1 DEF TypeOK, Shown
    <3> QED  BY <3>1 DEF Sent
  <2>1. PICK v \in {w \in DOMAIN log : log[w].n = m} :
           log[v].price = reqs[m].price /\ HasBid(v) /\ shown.price >= reqs[m].price
    BY <1>1, <1>2 DEF NoticesAreTrue
  <2>2. v \in {w \in DOMAIN log' : log'[w].n = m} /\ log'[v].price = reqs'[m].price
    BY <1>1, <2>1
  <2>3. \E i \in 1 .. Len(bids') : bids'[i].id = v
    BY <2>1 DEF HasBid
  <2>4. shown'.price >= reqs'[m].price
    BY <1>1, <2>0, <2>1
  <2> QED  BY <1>1, <1>2, <2>2, <2>3, <2>4
<1>3. CASE reqs[m].notice # "success"
  BY <1>1, <1>3 DEF NoticesAreTrue
<1> QED  BY <1>2, <1>3

\* The bid of this page is accepted, and is dearer than what the page shows; the answer
\* may be lost.
LEMMA AcceptMineStep ==
    ASSUME IInv, NEW n \in DOMAIN reqs, AcceptMine(n)
    PROVE  IInv'
<1> DEFINE p == reqs[n].price
           yes == [error |-> "none", bid_id |-> Len(log'), current_price |-> row'.price,
                   end_time |-> row'.end]
           no == [error |-> "network"]
<1>0. /\ Acceptable(p) /\ Accept("me", n, p) /\ reqs[n].st = "sent" /\ page.viewer = "bidder"
      /\ UNCHANGED <<now, socket, page, shown, bids, form>>
      /\ Answer(n, yes) \/ Answer(n, no)
  BY DEF AcceptMine, view
<1>1. /\ n = Len(reqs) /\ form.loading /\ reqs[n].notice = "none" /\ page.phase = "ready"
      /\ \A m \in DOMAIN reqs : m # n => reqs[m].st = "settled"
      /\ n \in Nat /\ n # 0 /\ p \in Nat /\ "me" \in {"me", "other"}
  BY <1>0, OnlyOne
<1>accepted. /\ \E e \in Log : /\ log' = Append(log, e) /\ e.who = "me" /\ e.n = n
                        /\ e.price = p /\ e.end = row'.end
      /\ row' \in Rows /\ row.status = "ACTIVE" /\ row'.status = "ACTIVE"
      /\ row'.price = p /\ row.price < p /\ wire' \in Wires
  BY <1>0, <1>1, AcceptEffect
<1>2. PICK e \in Log : /\ log' = Append(log, e) /\ e.who = "me" /\ e.n = n
                       /\ e.price = p /\ e.end = row'.end
  BY <1>accepted
<1>3. /\ row' \in Rows /\ row.status = "ACTIVE" /\ row'.status = "ACTIVE"
      /\ row'.price = p /\ row.price < p /\ wire' \in Wires
  BY <1>accepted
<1> USE DEF IInv
<1>4. yes \in Answers /\ no \in Answers
  <2>1. row'.price \in Nat /\ row'.end \in Nat /\ Len(log') \in Nat
    BY <1>2, <1>3 DEF Rows, TypeOK
  <2> QED  BY <2>1 DEF Answers
<1>5. /\ reqs' \in Seq(Sent) /\ Len(reqs') = Len(reqs) /\ DOMAIN reqs' = DOMAIN reqs
      /\ reqs'[n].st = "answered" /\ reqs'[n].answer \in {yes, no}
      /\ reqs'[n].price = p /\ reqs'[n].notice = "none"
      /\ \A m \in DOMAIN reqs : m # n => reqs'[m] = reqs[m]
  BY <1>0, <1>1, <1>4, AnswerEffect
<1>6. /\ TypeOK' /\ Record' /\ Loading' /\ ShownIsPast' /\ HistoryIsPast' /\ OverIsOver'
      /\ \A m : m # e.n => Recorded(m)' = Recorded(m)
      /\ \A v \in DOMAIN log : v \in DOMAIN log' /\ log'[v] = log[v]
      /\ log'[Len(log')] = e /\ Len(log') \in DOMAIN log' /\ Len(log') = Len(log) + 1
  BY <1>0, <1>1, <1>2, <1>3, <1>5, RecordGrows
<1>7. ASSUME reqs'[n].answer.error = "none"
      PROVE  LET a == reqs'[n].answer IN
             /\ a \in [error : {"none"}, bid_id : DOMAIN log', current_price : Nat, end_time : Nat]
             /\ log'[a.bid_id] = [who |-> "me", n |-> n, price |-> a.current_price, end |-> a.end_time]
             /\ a.current_price = p /\ a.current_price > shown.price
             /\ \A i \in DOMAIN bids : bids[i].id < a.bid_id
  <2>1. reqs'[n].answer = yes
    BY <1>5, <1>7
  <2>2. row'.price = p /\ row'.end \in Nat /\ shown.price < p
    BY <1>1, <1>3, ShownBelowRow DEF Rows
  <2>3. yes \in [error : {"none"}, bid_id : DOMAIN log', current_price : Nat, end_time : Nat]
    BY <1>1, <1>6, <2>2
  <2>4. log'[Len(log')] = [who |-> "me", n |-> n, price |-> row'.price, end |-> row'.end]
    BY <1>2, <1>3, <1>6 DEF Log
  <2>5. \A i \in DOMAIN bids : bids[i].id < Len(log')
    BY <1>6, ListedRows
  <2> QED  BY <1>1, <2>1, <2>2, <2>3, <2>4, <2>5
<1>8. InFlight'
  <2>1. reqs'[n].answer.error \in {"none", "network"}
    BY <1>5
  <2>2. \A m \in DOMAIN reqs' : reqs'[m].st # "settled" => m = n
    BY <1>1, <1>5
  <2> QED  BY <1>0, <1>1, <1>5, <1>7, <2>1, <2>2 DEF InFlight
<1>9. NoticesAreTrue'
  <2>1. \A m \in DOMAIN reqs : m # n => Recorded(m)' = Recorded(m)
    BY <1>2, <1>6
  <2>2. shown'.price \in Nat /\ shown.price <= shown'.price
    BY <1>0 DEF TypeOK, Shown
  <2>3. \A i \in DOMAIN bids : \E j \in DOMAIN bids' : bids'[j] = bids[i]
    BY <1>0
  <2>4. \A m \in DOMAIN reqs' :
              \/ reqs'[m].notice = "none"
              \/ /\ m \in DOMAIN reqs /\ reqs'[m].notice = reqs[m].notice
                 /\ reqs'[m].price = reqs[m].price /\ Recorded(m)' = Recorded(m)
    BY <1>5, <2>1
  <2> QED  BY <1>6, <2>2, <2>3, <2>4, NoticesKeep
<1> QED  BY <1>6, <1>8, <1>9

\* The bid of this page is refused, or nobody knows.
LEMMA RefuseStep ==
    ASSUME IInv, NEW n \in DOMAIN reqs, RefuseMine(n) \/ FailMine(n)
    PROVE  IInv'
<1> USE DEF IInv
<1>0. reqs[n].st = "sent" /\ UNCHANGED <<now, row, log, wire, socket, page, shown, bids, form>>
  BY DEF RefuseMine, FailMine, view, server
<1>1. /\ n = Len(reqs) /\ form.loading /\ reqs[n].notice = "none" /\ page.phase = "ready"
      /\ \A m \in DOMAIN reqs : m # n => reqs[m].st = "settled"
      /\ Recorded(n) = {}
  BY <1>0, OnlyOne DEF InFlight
<1>2. PICK a \in Answers : Answer(n, a) /\ a.error # "none"
  <2>1. Refusal(n) \in Answers /\ Refusal(n).error # "none"
    <3>1. row.price \in Nat /\ Len(log) \in Nat
      BY DEF TypeOK, Rows
    <3> QED  BY <3>1 DEF Refusal, Answers
  <2>2. [error |-> "network"] \in Answers
    BY DEF Answers
  <2> QED  BY <2>1, <2>2 DEF RefuseMine, FailMine
<1>3. /\ reqs' \in Seq(Sent) /\ Len(reqs') = Len(reqs) /\ DOMAIN reqs' = DOMAIN reqs
      /\ reqs'[n].st = "answered" /\ reqs'[n].answer = a
      /\ reqs'[n].price = reqs[n].price /\ reqs'[n].notice = "none"
      /\ \A m \in DOMAIN reqs : m # n => reqs'[m] = reqs[m]
  BY <1>1, <1>2, AnswerEffect
<1>4. TypeOK'
  BY <1>0, <1>3 DEF TypeOK, Listed, Pages, Shown, Forms
<1>5. Record' /\ ShownIsPast' /\ HistoryIsPast'
  BY <1>0, <1>3 DEF Record, ShownIsPast, HistoryIsPast, Fits, Version, Price
<1>6. Loading'
  BY <1>0, <1>1 DEF Loading, NoForm
<1>7. InFlight'
  BY <1>0, <1>1, <1>2, <1>3 DEF InFlight, Recorded
<1>8. OverIsOver'
  <2>1. reqs # <<>>
    BY DEF TypeOK
  <2> QED  BY <1>0, <2>1 DEF OverIsOver
<1>9. NoticesAreTrue'
  <2>1. shown'.price \in Nat /\ shown.price <= shown'.price
    BY <1>0 DEF TypeOK, Shown
  <2>2. \A m \in DOMAIN reqs' :
              \/ reqs'[m].notice = "none"
              \/ /\ m \in DOMAIN reqs /\ reqs'[m].notice = reqs[m].notice
                 /\ reqs'[m].price = reqs[m].price /\ Recorded(m)' = Recorded(m)
    BY <1>0, <1>3 DEF Recorded
  <2> QED  BY <1>0, <2>1, <2>2, NoticesKeep
<1> QED  BY <1>4, <1>5, <1>6, <1>7, <1>8, <1>9

\* A bid is sent only when none is under way.
LEMMA SubmitStep == ASSUME IInv, Submit PROVE IInv'
<1> USE DEF IInv
<1>0. /\ UNCHANGED <<now, row, log, wire, socket, page, shown, bids>>
      /\ page.phase = "ready" /\ FinalPrice \in Nat /\ ~form.loading /\ form.status = "ACTIVE"
      /\ form' = [form EXCEPT !.loading = TRUE]
      /\ reqs' = Append(reqs, [st |-> "sent", price |-> FinalPrice, answer |-> NoAnswer,
                               notice |-> "none"])
  BY Constants DEF Submit, MainButton, server
<1> DEFINE r == [st |-> "sent", price |-> FinalPrice, answer |-> NoAnswer, notice |-> "none"]
<1>1. r \in Sent /\ r.st = "sent" /\ r.notice = "none"
  <2>1. NoAnswer \in Answers
    BY DEF NoAnswer, Answers
  <2> QED  BY <1>0, <2>1 DEF Sent
<1> HIDE DEF r
<1>2. /\ Len(reqs) \in Nat /\ Len(reqs') = Len(reqs) + 1 /\ reqs' \in Seq(Sent)
      /\ DOMAIN reqs = 1 .. Len(reqs) /\ DOMAIN reqs' = 1 .. Len(reqs')
      /\ \A n \in DOMAIN reqs : reqs'[n] = reqs[n]
      /\ reqs'[Len(reqs')] = r
  BY <1>0, <1>1 DEF TypeOK, r
<1>3. form' \in Forms /\ form'.loading /\ form'.status = "ACTIVE" /\ form'.seen = form.seen
  BY <1>0 DEF TypeOK, Forms
<1>4. TypeOK'
  BY <1>0, <1>2, <1>3 DEF TypeOK, Listed, Pages, Shown, Forms
<1>5. Record' /\ ShownIsPast' /\ HistoryIsPast'
  <2>1. \A v \in DOMAIN log : log[v].n <= Len(reqs')
    <3>1. \A v \in DOMAIN log : log[v] \in Log /\ log[v].n <= Len(reqs)
      BY DEF TypeOK, Record
    <3>2. \A e \in Log : e.n \in Nat
      BY DEF Log
    <3> QED  BY <1>2, <3>1, <3>2
  <2> QED  BY <1>0, <2>1 DEF Record, ShownIsPast, HistoryIsPast, Fits, Version, Price
<1>6. Loading' /\ OverIsOver'
  BY <1>0, <1>3 DEF Loading, OverIsOver
<1>7. ~\E n \in DOMAIN reqs : reqs[n].st # "settled"
  BY <1>0 DEF InFlight
<1>8. {v \in DOMAIN log' : log'[v].n = Len(reqs')} = {}
  <2>1. \A v \in DOMAIN log : log[v] \in Log /\ log[v].n <= Len(reqs)
    BY DEF TypeOK, Record
  <2>2. \A e \in Log : e.n \in Nat
    BY DEF Log
  <2> QED  BY <1>0, <1>2, <2>1, <2>2
<1>9. InFlight'
  <2>1. \A n \in DOMAIN reqs' : reqs'[n].st # "settled" => n = Len(reqs')
    BY <1>2, <1>7
  <2> QED  BY <1>1, <1>2, <1>3, <1>8, <2>1 DEF InFlight, Recorded
<1>10. NoticesAreTrue'
  <2>1. shown'.price \in Nat /\ shown.price <= shown'.price
    BY <1>0 DEF TypeOK, Shown
  <2>2. \A m \in DOMAIN reqs' :
              \/ reqs'[m].notice = "none"
              \/ /\ m \in DOMAIN reqs /\ reqs'[m].notice = reqs[m].notice
                 /\ reqs'[m].price = reqs[m].price /\ Recorded(m)' = Recorded(m)
    BY <1>0, <1>1, <1>2 DEF Recorded
  <2> QED  BY <1>0, <2>1, <2>2, NoticesKeep
<1> QED  BY <1>4, <1>5, <1>6, <1>9, <1>10

-----------------------------------------------------------------------------
(* The page loads.                                                          *)

\* The first render.
LEMMA MountStep == ASSUME IInv, Mount PROVE IInv'
<1> USE DEF IInv
<1>0. /\ UNCHANGED <<now, row, log, wire, bids, form, reqs>> /\ page.phase = "blank"
      /\ page' = [page EXCEPT !.phase = IF page.validId THEN "getAuction" ELSE "stuck",
                              !.name = IF page.viewer = "guest" THEN "" ELSE "me"]
      /\ socket' \in {"none", "connecting", "open", "closed"}
      /\ shown' = [shown EXCEPT !.start = now, !.end = now]
  BY DEF Mount, server, TypeOK
<1>1. /\ page' \in Pages /\ page'.phase \in {"stuck", "getAuction"}
      /\ page'.name = "" <=> page'.viewer = "guest"
  BY <1>0 DEF TypeOK, Pages
<1>2. shown' \in Shown /\ shown'.price = shown.price /\ shown'.status = shown.status
  BY <1>0 DEF TypeOK, Shown
<1>3. TypeOK'
  BY <1>0, <1>1, <1>2 DEF TypeOK, Listed, Forms
<1>4. Record' /\ HistoryIsPast'
  BY <1>0 DEF Record, HistoryIsPast, Version, Price
<1>5. Loading'
  BY <1>0, <1>1, <1>2 DEF Loading, NoForm
<1>6. ShownIsPast' /\ OverIsOver'
  BY <1>1 DEF ShownIsPast, OverIsOver
<1>7. InFlight' /\ NoticesAreTrue'
  <2>1. DOMAIN reqs' = {}
    BY <1>0 DEF Loading
  <2> QED  BY <2>1 DEF InFlight, NoticesAreTrue
<1> QED  BY <1>3, <1>4, <1>5, <1>6, <1>7

\* The auction is shown as its row is now, or not at all.
LEMMA AuctionLoadsStep == ASSUME IInv, AuctionLoads PROVE IInv'
<1> USE DEF IInv
<1>0. /\ UNCHANGED <<now, row, log, wire, socket, bids, form, reqs>> /\ page.phase = "getAuction"
      /\ shown.price = 0 /\ shown.status = "ACTIVE" /\ reqs = <<>>
  BY DEF AuctionLoads, server, Loading
<1>1. /\ page' \in Pages /\ page'.phase = "getBids" /\ page'.name = page.name
      /\ page'.viewer = page.viewer
  BY DEF AuctionLoads, TypeOK, Pages
<1>2. /\ shown' \in Shown
      /\ \/ shown'.price = row.price /\ shown'.end = row.end /\ shown'.status = row.status
         \/ page'.detail = "failed" /\ shown' = shown
  <2>1. CASE shown' = [price |-> row.price, inc |-> MinBidIncrement, start |-> StartTime,
                       end |-> row.end, status |-> row.status]
    <3>1. row.price \in Nat /\ row.end \in Nat /\ row.status \in Statuses
      BY DEF TypeOK, Rows
    <3> QED  BY <2>1, <3>1, Constants DEF Shown
  <2>2. CASE shown' = shown /\ page' = [page EXCEPT !.phase = "getBids", !.detail = "failed"]
    BY <2>2 DEF TypeOK, Pages
  <2> QED  BY <2>1, <2>2 DEF AuctionLoads
<1>3. TypeOK'
  BY <1>0, <1>1, <1>2 DEF TypeOK, Listed, Forms
<1>4. Record' /\ HistoryIsPast'
  BY <1>0 DEF Record, HistoryIsPast, Version, Price
<1>5. Loading'
  BY <1>0, <1>1 DEF Loading, NoForm
<1>6. ShownIsPast'
  <2>1. CASE shown'.price = row.price /\ shown'.end = row.end
    <3>1. Len(log) \in 0 .. Len(log)
      BY DEF TypeOK
    <3>2. Version(Len(log))' = <<shown'.price, shown'.end>>
      BY <1>0, <2>1 DEF Record, Version
    <3> QED  BY <1>0, <3>1, <3>2 DEF ShownIsPast, Fits
  <2>2. CASE page'.detail = "failed" /\ shown' = shown
    BY <1>0, <2>2 DEF ShownIsPast
  <2> QED  BY <1>2, <2>1, <2>2
<1>7. OverIsOver'
  BY <1>0, <1>1, <1>2 DEF OverIsOver
<1>8. InFlight' /\ NoticesAreTrue'
  <2>1. DOMAIN reqs' = {}
    BY <1>0
  <2> QED  BY <2>1 DEF InFlight, NoticesAreTrue
<1> QED  BY <1>3, <1>4, <1>5, <1>6, <1>7, <1>8

\* The first page of the history is the end of the record, newest first.
LEMMA HistoryPageIsPast ==
    ASSUME TypeOK
    PROVE  /\ HistoryPage \in Seq(Listed) /\ DOMAIN HistoryPage \subseteq 1 .. Len(log)
           /\ \A i \in DOMAIN HistoryPage :
                 /\ HistoryPage[i].id = Len(log) + 1 - i
                 /\ HistoryPage[i].bid_price = log[HistoryPage[i].id].price
                 /\ HistoryPage[i].who = log[HistoryPage[i].id].who
<1> DEFINE n == Len(log)
           m == IF n < HistoryLimit THEN n ELSE HistoryLimit
           Item(i) == [id |-> n + 1 - i, who |-> log[n + 1 - i].who, bid_price |-> log[n + 1 - i].price]
<1>1. n \in Nat /\ m \in Nat /\ m <= n
  BY Constants DEF TypeOK
<1>2. HistoryPage = [i \in 1 .. m |-> Item(i)]
  BY DEF HistoryPage
<1>3. ASSUME NEW i \in 1 .. m
      PROVE  /\ Item(i) \in Listed /\ i \in 1 .. n /\ Item(i).id = n + 1 - i
             /\ Item(i).bid_price = log[Item(i).id].price /\ Item(i).who = log[Item(i).id].who
  <2>1. n + 1 - i \in 1 .. Len(log) /\ i \in 1 .. n
    BY <1>1
  <2>2. log[n + 1 - i] \in Log
    BY <2>1 DEF TypeOK
  <2>3. log[n + 1 - i].who \in {"me", "other"} /\ log[n + 1 - i].price \in Nat
    BY <2>2 DEF Log
  <2> QED  BY <2>1, <2>3 DEF Listed
<1> HIDE DEF m, Item
<1>4. HistoryPage \in Seq(Listed) /\ DOMAIN HistoryPage = 1 .. m
  BY <1>1, <1>2, <1>3
<1> QED  BY <1>2, <1>3, <1>4

\* The form is there, with the history or without it.
LEMMA BidsLoadStep == ASSUME IInv, BidsLoad PROVE IInv'
<1> USE DEF IInv
<1>0. /\ UNCHANGED <<now, row, log, wire, socket, shown, reqs>> /\ page.phase = "getBids"
      /\ reqs = <<>> /\ bids' \in {HistoryPage, <<>>} /\ page' = [page EXCEPT !.phase = "ready"]
      /\ form' = Effects([NoForm EXCEPT !.amount = shown.inc, !.status = shown.status], shown)
  BY DEF BidsLoad, server, Loading
<1>1. /\ page' \in Pages /\ page'.phase = "ready" /\ page'.name = page.name
      /\ page'.viewer = page.viewer /\ page'.detail = page.detail
  BY <1>0 DEF TypeOK, Pages
<1>2. /\ form' \in Forms /\ form'.seen = now
      /\ form'.status = "ENDED" <=> shown.status = "ENDED"
  <2> DEFINE f == [NoForm EXCEPT !.amount = shown.inc, !.status = shown.status]
  <2>1. f \in Forms /\ f.status = shown.status
    <3>1. 0 \in 0 .. now /\ shown.inc \in Int /\ shown.status \in Statuses
      BY DEF TypeOK, Shown
    <3> QED  BY <3>1 DEF NoForm, Forms
  <2> HIDE DEF f
  <2>2. shown \in Shown
    BY DEF TypeOK
  <2> QED  BY <1>0, <2>1, <2>2, EffectsOnForm DEF f
<1>3. /\ bids' \in Seq(Listed)
      /\ bids' # <<>> => 1 \in DOMAIN bids'
      /\ \A i \in DOMAIN bids' : /\ i \in 1 .. Len(log) /\ bids'[i].id = Len(log) + 1 - i
                                 /\ bids'[i].bid_price = log[bids'[i].id].price
                                 /\ bids'[i].who = log[bids'[i].id].who
  <2>1. bids' \in Seq(Listed)
    <3>1. <<>> \in Seq(Listed)
      OBVIOUS
    <3> QED  BY <1>0, <3>1, HistoryPageIsPast
  <2>2. bids' # <<>> => 1 \in DOMAIN bids'
    BY <2>1
  <2>3. CASE bids' = <<>>
    <3>1. DOMAIN bids' = {}
      BY <2>3
    <3> QED  BY <2>1, <2>2, <3>1
  <2>4. CASE bids' = HistoryPage
    <3> HIDE DEF IInv
    <3>1. IInv => TypeOK
      BY DEF IInv
    <3> QED  BY <2>1, <2>2, <2>4, <3>1, HistoryPageIsPast
  <2> QED  BY <1>0, <2>3, <2>4
<1>4. TypeOK'
  BY <1>0, <1>1, <1>2, <1>3 DEF TypeOK, Listed, Forms
<1>5. Record'
  BY <1>0 DEF Record, Version, Price
<1>6. HistoryIsPast'
  <2>1. Len(log) \in Nat
    BY DEF TypeOK
  <2>2. \A i, j \in DOMAIN bids' : i < j => bids'[j].id < bids'[i].id
    BY <1>3, <2>1
  <2> QED  BY <1>0, <1>3, <2>2 DEF HistoryIsPast
<1>7. Loading'
  BY <1>0, <1>1 DEF Loading
<1>8. ShownIsPast'
  BY <1>0, <1>1 DEF ShownIsPast, Fits, Version
<1>9. OverIsOver'
  <2>1. Len(log) \in Nat /\ shown.end \in Nat /\ now \in Nat
    BY DEF TypeOK, Shown
  <2>2. bids' # <<>> => bids'[1].id = Len(log)
    BY <1>3, <2>1
  <2> QED  BY <1>0, <1>1, <1>2, <2>1, <2>2 DEF OverIsOver, Record
<1>10. InFlight' /\ NoticesAreTrue'
  <2>1. DOMAIN reqs' = {}
    BY <1>0
  <2> QED  BY <2>1 DEF InFlight, NoticesAreTrue
<1> QED  BY <1>4, <1>5, <1>6, <1>7, <1>8, <1>9, <1>10

-----------------------------------------------------------------------------
(* The answer arrives.                                                      *)

\* A request holds an answer.
LEMMA AnswerIsIn ==
    ASSUME TypeOK, NEW n \in DOMAIN reqs
    PROVE  reqs[n].answer \in Answers
<1>1. reqs[n] \in Sent
  BY DEF TypeOK
<1> QED  BY <1>1 DEF Sent

\* A request is settled with its notice, the form is free again.
LEMMA SettleEffect ==
    ASSUME IInv, NEW n \in DOMAIN reqs, Settle(n), shown' \in Shown
    PROVE  /\ reqs' \in Seq(Sent) /\ Len(reqs') = Len(reqs) /\ DOMAIN reqs' = DOMAIN reqs
           /\ reqs'[n].st = "settled" /\ reqs'[n].notice = Notice(reqs[n].answer)
           /\ reqs'[n].price = reqs[n].price
           /\ \A m \in DOMAIN reqs : m # n => reqs'[m] = reqs[m]
           /\ form' \in Forms /\ form.seen <= form'.seen /\ form.status # "ENDED"
           /\ form'.status # "ENDED"
<1> DEFINE a == reqs[n].answer
           after == FormAfter(a)
<1>0. TypeOK /\ reqs[n].st = "answered" /\ reqs[n].st # "settled" /\ page.phase = "ready"
  BY OnlyOne DEF IInv, Settle
<1>1. reqs[n] \in Sent /\ reqs \in Seq(Sent) /\ DOMAIN reqs = 1 .. Len(reqs) /\ Len(reqs) \in Nat
      /\ reqs # <<>>
  BY <1>0 DEF TypeOK
<1>2. a \in Answers
  BY <1>1 DEF Sent
<1>3. Notice(a) \in {"success", "failed", "too low", "not open", "own auction"}
  BY <1>2, NoticeOfAnswer DEF Answers
<1>4. PICK r \in Sent : /\ r = [reqs[n] EXCEPT !.st = "settled", !.notice = Notice(a)]
                        /\ r.st = "settled" /\ r.notice = Notice(a) /\ r.price = reqs[n].price
  <2>1. PICK q \in Sent : q = reqs[n]
    BY <1>1
  <2>2. [q EXCEPT !.st = "settled", !.notice = Notice(a)] \in Sent
    BY <1>3 DEF Sent
  <2>3. \A r \in Sent : r = [q EXCEPT !.st = "settled", !.notice = Notice(a)] =>
           r.st = "settled" /\ r.notice = Notice(a) /\ r.price = q.price
    BY DEF Sent
  <2> QED  BY <2>1, <2>2, <2>3
<1>5. reqs' = [reqs EXCEPT ![n] = r]
  BY <1>1, <1>4 DEF Settle
<1>6. after \in Forms /\ after.status = form.status /\ after.seen = form.seen
  <2>1. form \in Forms /\ shown.inc \in Int
    BY <1>0 DEF TypeOK, Shown
  <2> QED  BY <2>1 DEF FormAfter, Forms
<1>7. form.status # "ENDED" /\ form.seen \in 0 .. now /\ now \in Nat
  BY <1>0, <1>1 DEF IInv, OverIsOver, TypeOK, Forms
<1>8. form' = IF shown'.end = shown.end THEN after ELSE Effects(after, shown')
  BY DEF Settle
<1> HIDE DEF after
<1>9. form' \in Forms /\ form.seen <= form'.seen /\ form'.status # "ENDED"
  BY <1>0, <1>6, <1>7, <1>8, EffectsOnForm
<1> QED  BY <1>1, <1>4, <1>5, <1>7, <1>9

\* What is left to show after an answer: the history, the auction and the notice.
LEMMA Settled ==
    ASSUME IInv, NEW n \in DOMAIN reqs, Settle(n), shown' \in Shown, bids' \in Seq(Listed),
           Fits(shown)' \/ shown' = shown, shown.price <= shown'.price,
           shown'.status = "ENDED" => shown' = shown,
           HistoryIsPast', \A i \in DOMAIN bids : \E j \in DOMAIN bids' : bids'[j] = bids[i],
           Notice(reqs[n].answer) = "failed" \/ Told(n)'
    PROVE  IInv'
<1> USE DEF IInv
<1>0. /\ UNCHANGED <<now, row, log, wire, socket, page>> /\ reqs[n].st # "settled"
      /\ page.phase = "ready" /\ \A m \in DOMAIN reqs : m # n => reqs[m].st = "settled"
  BY OnlyOne DEF Settle, server
<1>1. /\ reqs' \in Seq(Sent) /\ Len(reqs') = Len(reqs) /\ DOMAIN reqs' = DOMAIN reqs
      /\ reqs'[n].st = "settled" /\ reqs'[n].notice = Notice(reqs[n].answer)
      /\ \A m \in DOMAIN reqs : m # n => reqs'[m] = reqs[m]
      /\ form' \in Forms /\ form'.status # "ENDED"
  BY SettleEffect
<1>2. TypeOK'
  BY <1>0, <1>1 DEF TypeOK, Listed, Pages, Shown, Forms
<1>3. Record'
  BY <1>0, <1>1 DEF Record, Version, Price
<1>4. Loading'
  BY <1>0 DEF Loading
<1>5. ShownIsPast'
  BY <1>0 DEF ShownIsPast, Fits, Version
<1>6. InFlight'
  BY <1>0, <1>1 DEF InFlight
<1>7. OverIsOver'
  BY <1>0, <1>1 DEF OverIsOver
<1>8. NoticesAreTrue'
  <2>1. shown'.price \in Nat
    BY DEF Shown
  <2>2. \A m : Recorded(m)' = Recorded(m)
    BY <1>0 DEF Recorded
  <2>3. \A m \in DOMAIN reqs' :
              \/ reqs'[m].notice \in {"none", "failed"}
              \/ Told(m)'
              \/ /\ m \in DOMAIN reqs /\ reqs'[m].notice = reqs[m].notice
                 /\ reqs'[m].price = reqs[m].price /\ Recorded(m)' = Recorded(m)
    BY <1>1, <2>2
  <2> QED  BY <1>0, <2>1, <2>3, NoticesKeep
<1> QED  BY <1>2, <1>3, <1>4, <1>5, <1>6, <1>7, <1>8

\* The bid was accepted: it becomes the first row, and its price and end time are shown.
LEMMA SuccessEffect ==
    ASSUME IInv, NEW n \in DOMAIN reqs, Settle(n), reqs[n].answer.error = "none"
    PROVE  /\ shown' \in Shown /\ bids' \in Seq(Listed) /\ shown.price < shown'.price
           /\ Fits(shown)' /\ shown'.status # "ENDED" /\ HistoryIsPast'
           /\ \A i \in DOMAIN bids : \E j \in DOMAIN bids' : bids'[j] = bids[i]
           /\ Told(n)'
<1> USE DEF IInv
<1> DEFINE a == reqs[n].answer
           b == [id |-> a.bid_id, who |-> BidderName, bid_price |-> a.current_price]
<1>0. /\ UNCHANGED <<now, row, log>> /\ reqs[n].st = "answered" /\ reqs[n].st # "settled"
      /\ page.phase = "ready"
  BY OnlyOne DEF Settle, server
<1>1. /\ a \in [error : {"none"}, bid_id : DOMAIN log, current_price : Nat, end_time : Nat]
      /\ log[a.bid_id] = [who |-> "me", n |-> n, price |-> a.current_price, end |-> a.end_time]
      /\ a.current_price = reqs[n].price /\ a.current_price > shown.price
      /\ page.viewer = "bidder"
      /\ \A i \in DOMAIN bids : bids[i].id < a.bid_id
  BY <1>0 DEF InFlight
<1>2. /\ Len(bids) \in Nat /\ DOMAIN bids = 1 .. Len(bids) /\ bids \in Seq(Listed)
      /\ \A i \in DOMAIN bids : bids[i] \in Listed /\ bids[i].id \in DOMAIN log
      /\ DOMAIN log = 1 .. Len(log) /\ Len(log) \in Nat
  BY ListedRows DEF TypeOK
<1>3. PICK k \in DOMAIN log, p \in Nat, t \in Nat :
         /\ k = a.bid_id /\ p = a.current_price /\ t = a.end_time
         /\ log[k].who = "me" /\ log[k].n = n /\ log[k].price = p /\ log[k].end = t
  BY <1>1
<1>4. shown' = [shown EXCEPT !.price = p, !.end = t]
  BY <1>3 DEF Settle, ShownAfter
<1>5. shown \in Shown /\ shown.price \in Nat
  BY DEF TypeOK, Shown
<1>6. /\ shown' \in Shown /\ shown'.price = p /\ shown'.end = t /\ shown'.status = shown.status
  BY <1>4, <1>5 DEF Shown
<1>7. shown.price < shown'.price
  BY <1>1, <1>3, <1>5, <1>6
<1>8. Version(k) = <<p, t>> /\ k \in 0 .. Len(log) /\ Price(k) = p
  BY <1>2, <1>3 DEF Version, Price
<1>9. Fits(shown)'
  <2>1. Version(k)' = <<shown'.price, shown'.end>> /\ k \in 0 .. Len(log')
    BY <1>0, <1>6, <1>8 DEF Version
  <2> QED  BY <2>1 DEF Fits
<1>10. shown'.status # "ENDED"
  <2>1. p <= row.price /\ row.price \in Nat
    BY <1>8, PricesAscend DEF TypeOK, Rows
  <2>2. shown.status = "ENDED" => shown.price = row.price
    BY <1>0 DEF OverIsOver
  <2> QED  BY <1>6, <1>7, <2>1, <2>2
<1>11. BidderName = "me"
  <2>1. page.name # "" /\ page.name \in {"", "me"}
    BY <1>0, <1>1 DEF Loading, TypeOK, Pages
  <2> QED  BY <2>1 DEF BidderName
<1>12. b \in Listed /\ b.id = k /\ b.who = log[k].who /\ b.bid_price = log[k].price
  BY <1>2, <1>3, <1>11 DEF Listed
<1> HIDE DEF b
<1>13. bids' = <<b>> \o bids
  <2>1. ~HasBid(b.id)
    BY <1>1, <1>2, <1>3, <1>12 DEF HasBid
  <2>2. bids' = Prepend(b)
    BY DEF Settle, b
  <2> QED  BY <2>1, <2>2 DEF Prepend
<1>14. /\ bids' \in Seq(Listed) /\ Len(bids') = Len(bids) + 1 /\ DOMAIN bids' = 1 .. Len(bids')
       /\ bids'[1] = b /\ \A i \in DOMAIN bids : bids'[i + 1] = bids[i]
  BY <1>2, <1>12, <1>13
<1>15. \A i \in DOMAIN bids' : i = 1 \/ (i - 1 \in DOMAIN bids /\ bids'[i] = bids[i - 1])
  <2> SUFFICES ASSUME NEW i \in DOMAIN bids', i # 1
               PROVE  i - 1 \in DOMAIN bids /\ bids'[i] = bids[i - 1]
    OBVIOUS
  <2>1. i - 1 \in DOMAIN bids /\ (i - 1) + 1 = i
    BY <1>2, <1>14
  <2> QED  BY <1>14, <2>1
<1>16. HistoryIsPast'
  <2>1. ASSUME NEW i \in DOMAIN bids'
        PROVE  bids'[i].bid_price = log[bids'[i].id].price /\ bids'[i].who = log[bids'[i].id].who
    BY <1>12, <1>14, <1>15 DEF HistoryIsPast
  <2>2. ASSUME NEW i \in DOMAIN bids', NEW j \in DOMAIN bids', i < j
        PROVE  bids'[j].id < bids'[i].id
    <3>1. j # 1 /\ j - 1 \in DOMAIN bids /\ bids'[j] = bids[j - 1]
      BY <1>14, <1>15, <2>2
    <3>2. CASE i = 1
      BY <1>1, <1>3, <1>12, <1>14, <3>1, <3>2
    <3>3. CASE i # 1
      <4>1. i - 1 \in DOMAIN bids /\ bids'[i] = bids[i - 1] /\ i - 1 < j - 1
        BY <1>14, <1>15, <2>2, <3>3
      <4> QED  BY <3>1, <4>1 DEF HistoryIsPast
    <3> QED  BY <3>2, <3>3
  <2> QED  BY <1>0, <2>1, <2>2 DEF HistoryIsPast
<1>17. \A i \in DOMAIN bids : \E j \in DOMAIN bids' : bids'[j] = bids[i]
  <2>1. \A i \in DOMAIN bids : i + 1 \in DOMAIN bids'
    BY <1>2, <1>14
  <2> QED  BY <1>14, <2>1
<1>18. Told(n)'
  <2>1. reqs'[n].price = p /\ reqs'[n].notice = "success"
    <3>1. reqs[n].answer \in Answers
      BY AnswerIsIn
    <3> QED  BY <1>1, <1>3, <1>6, <3>1, SettleEffect, NoticeOfAnswer
  <2>2. k \in {w \in DOMAIN log' : log'[w].n = n} /\ log'[k].price = p
    BY <1>0, <1>3
  <2>3. HasBid(k)'
    <3>1. 1 \in 1 .. Len(bids') /\ bids'[1].id = k
      BY <1>2, <1>12, <1>14
    <3> QED  BY <3>1 DEF HasBid
  <2> QED  BY <1>6, <2>1, <2>2, <2>3 DEF Told
<1> QED  BY <1>6, <1>7, <1>9, <1>10, <1>14, <1>16, <1>17, <1>18

\* The bid was refused or lost: the page shows what it showed.
LEMMA ErrorEffect ==
    ASSUME IInv, NEW n \in DOMAIN reqs, Settle(n), reqs[n].answer.error # "none"
    PROVE  /\ shown' = shown /\ bids' = bids /\ HistoryIsPast'
           /\ Notice(reqs[n].answer) = "failed" \/ Told(n)'
<1> USE DEF IInv
<1> DEFINE a == reqs[n].answer
<1>0. UNCHANGED log /\ reqs[n].st = "answered"
  BY DEF Settle, server
<1>1. a \in Answers
  BY AnswerIsIn
<1>2. ~(FallbackPrice(a) > 0)
  BY <1>1, NoFallback
<1>3. shown' = shown /\ bids' = bids
  BY <1>2 DEF Settle, ShownAfter
<1>4. HistoryIsPast'
  BY <1>0, <1>3 DEF HistoryIsPast
<1>5. ASSUME a.error # "network" PROVE Told(n)'
  <2>1. Recorded(n) = {} /\ Notice(a) # "success"
    BY <1>0, <1>1, <1>5, NoticeOfAnswer DEF InFlight
  <2>2. reqs'[n].notice = Notice(a)
    BY <1>3, SettleEffect DEF TypeOK
  <2> QED  BY <1>0, <2>1, <2>2 DEF Told, Recorded
<1>6. a.error = "network" => Notice(a) = "failed"
  BY <1>1, NoticeOfAnswer
<1> QED  BY <1>3, <1>4, <1>5, <1>6

\* Whatever the answer, the page keeps to the record.
LEMMA SettleStep ==
    ASSUME IInv, NEW n \in DOMAIN reqs, Settle(n)
    PROVE  IInv' /\ shown.price <= shown'.price
<1>1. shown.price \in Nat /\ shown \in Shown /\ bids \in Seq(Listed)
  BY DEF IInv, TypeOK, Shown
<1>2. CASE reqs[n].answer.error = "none"
  <2>1. /\ shown' \in Shown /\ bids' \in Seq(Listed) /\ shown.price < shown'.price
        /\ Fits(shown)' /\ shown'.status # "ENDED" /\ HistoryIsPast'
        /\ \A i \in DOMAIN bids : \E j \in DOMAIN bids' : bids'[j] = bids[i]
        /\ Told(n)'
    BY <1>2, SuccessEffect
  <2>2. shown.price <= shown'.price
    BY <1>1, <2>1 DEF Shown
  <2> QED  BY <2>1, <2>2, Settled
<1>3. CASE reqs[n].answer.error # "none"
  <2>1. /\ shown' = shown /\ bids' = bids /\ HistoryIsPast'
        /\ Notice(reqs[n].answer) = "failed" \/ Told(n)'
    BY <1>3, ErrorEffect
  <2>2. \A i \in DOMAIN bids : \E j \in DOMAIN bids' : bids'[j] = bids[i]
    BY <2>1
  <2> QED  BY <1>1, <2>1, <2>2, Settled
<1> QED  BY <1>2, <1>3

-----------------------------------------------------------------------------
(* The theorems.                                                            *)

\* Every step preserves the invariant, and none shows a lower price.
LEMMA NextIInv ==
    ASSUME IInv, [Next]_vars
    PROVE  IInv' /\ shown.price <= shown'.price
<1>1. shown.price \in Nat /\ DOMAIN reqs = 1 .. Len(reqs)
  BY DEF IInv, TypeOK, Shown
<1>2. CASE Tick \/ Activate \/ End \/ SocketStep \/ UNCHANGED vars
  <2>1. IInv'
    BY <1>2, OutsideStep DEF SocketStep
  <2>2. shown' = shown
    <3>1. ASSUME SocketMessage PROVE shown' = shown
      <4>1. ~IsNewBid(Head(wire))
        <5>1. Head(wire) \in [event : {"NEW_BID"}, payload : [new_price : Nat]]
          BY <3>1, HeadIsIn DEF SocketMessage, IInv, TypeOK
        <5> QED  BY <5>1, PushIsNoBid
      <4> QED  BY <3>1, <4>1 DEF SocketMessage
    <3> QED  BY <1>2, <3>1 DEF Tick, Activate, End, SocketStep, SocketOpens, SocketCloses, vars, view
  <2> QED  BY <1>1, <2>1, <2>2
<1>3. ASSUME NEW price \in 1 .. MaxPrice, OtherBids(price)
      PROVE  IInv' /\ shown' = shown
  BY <1>3, OtherBidsStep DEF OtherBids, view
<1>4. CASE LoadStep
  <2>1. IInv'
    BY <1>4, MountStep, AuctionLoadsStep, BidsLoadStep DEF LoadStep
  <2>2. page.phase = "getAuction" => shown.price = 0
    BY DEF IInv, Loading
  <2>3. shown' \in Shown
    BY <2>1 DEF IInv, TypeOK, Shown
  <2>4. shown.price <= shown'.price
    <3>1. CASE Mount
      BY <1>1, <3>1 DEF Mount, IInv, TypeOK, Shown
    <3>2. CASE AuctionLoads
      <4>1. shown'.price \in Nat
        BY <2>3 DEF Shown
      <4> QED  BY <2>2, <3>2, <4>1 DEF AuctionLoads
    <3>3. CASE BidsLoad
      BY <1>1, <3>3 DEF BidsLoad
    <3> QED  BY <1>4, <3>1, <3>2, <3>3 DEF LoadStep
  <2> QED  BY <2>1, <2>4
<1>5. CASE CountdownTick \/ UserStep
  <2>1. IInv'
    BY <1>5, FormStep, SubmitStep DEF UserStep
  <2>2. shown' = shown
    BY <1>5 DEF CountdownTick, UserStep, ChooseAmount, Submit, ClosePopup, OpenPopup
  <2> QED  BY <1>1, <2>1, <2>2
<1>6. ASSUME NEW n \in DOMAIN reqs, RequestStep(n)
      PROVE  IInv' /\ shown' = shown
  <2>1. IInv'
    BY <1>6, AcceptMineStep, RefuseStep DEF RequestStep
  <2> QED  BY <1>6, <2>1 DEF RequestStep, AcceptMine, RefuseMine, FailMine, view
<1>7. ASSUME NEW n \in DOMAIN reqs, Settle(n)
      PROVE  IInv' /\ shown.price <= shown'.price
  BY <1>7, SettleStep
<1> QED  BY <1>1, <1>2, <1>3, <1>4, <1>5, <1>6, <1>7 DEF Next, ServerStep

\* The invariant holds of every behaviour, fair or not.
LEMMA PageInvariance == Spec => []IInv
<1>1. IInv /\ [Next]_vars => IInv'
  BY NextIInv
<1> QED  BY InitIInv, <1>1, PTL DEF Spec

\* The price and the end time on the page are those of one version of the row, although a
\* GET and the answers to bids bring them (page.tsx, handleBidSuccess).
THEOREM ShowsOneVersion == Spec => []PageInv
BY PageInvariance, IInvIsPageInv, PTL

\* The history on the page is a part of the record, and its lead is the highest bid.
THEOREM HistoryTrue == Spec => []HistoryIsReal
BY PageInvariance, IInvIsHistory, PTL

\* A page that says the auction has ended shows its last price and its last bidder.
THEOREM EndedFinal == Spec => []EndedPageIsFinal
BY PageInvariance, IInvIsEnded, PTL

\* What the user is told of a bid is true (usePlaceBid, translateBidError).
THEOREM NoticesTrue == Spec => []NoticesAreTrue
<1>1. IInv => NoticesAreTrue
  BY DEF IInv
<1> QED  BY PageInvariance, <1>1, PTL

\* The price on the page never falls.
THEOREM PriceRises == Spec => PriceNeverFalls
<1>1. IInv /\ [Next]_vars => [shown'.price >= shown.price]_vars
  <2>1. ASSUME IInv, [Next]_vars PROVE shown'.price >= shown.price
    <3>1. IInv' /\ shown.price <= shown'.price
      BY <2>1, NextIInv
    <3>2. shown.price \in Nat /\ shown'.price \in Nat
      BY <2>1, <3>1 DEF IInv, TypeOK, Shown
    <3> QED  BY <3>1, <3>2
  <2> QED  BY <2>1
<1> QED  BY PageInvariance, <1>1, PTL DEF Spec, PriceNeverFalls

-----------------------------------------------------------------------------
(* The server of BidPage is a short form of the one AuctionStore models.    *)
(* What makes it fit is that it keeps the same promise: AuctionLedger.      *)

\* The refinement mapping: who bid what, the terms, the last bidder as the winner.
Posted == [i \in 1 .. Len(log) |-> [user |-> log[i].who, price |-> log[i].price]]
Terms  == [price |-> 1, inc |-> MinBidIncrement]
Winner == IF row.status = "ENDED" /\ log # <<>> THEN log[Len(log)].who ELSE "nobody"

Ledger == INSTANCE AuctionLedger
          WITH Users <- {"me", "other"}, Owner <- "owner", NoUser <- "nobody",
               Prices <- Nat, phase <- row.status, terms <- Terms,
               ledger <- Posted, overtime <- MaxExt - row.ext, winner <- Winner

ServerKeepsLedger == Ledger!Spec

\* A function on 1 .. n is a sequence of length n.
LEMMA FunctionIsSeq ==
    ASSUME NEW S, NEW n \in Nat, NEW f \in [1 .. n -> S]
    PROVE  f \in Seq(S) /\ Len(f) = n
OBVIOUS

\* The mapped bids are a sequence, entry by entry that of the record.
LEMMA PostedType ==
    ASSUME TypeOK
    PROVE  /\ Posted \in Seq([user : {"me", "other"}, price : Nat])
           /\ Len(Posted) = Len(log) /\ Len(log) \in Nat
           /\ Posted = <<>> <=> log = <<>>
           /\ \A i \in 1 .. Len(log) :
                 /\ Posted[i] = [user |-> log[i].who, price |-> log[i].price]
                 /\ Posted[i].user = log[i].who /\ Posted[i].price = log[i].price
<1>1. log \in Seq(Log) /\ Len(log) \in Nat
  BY DEF TypeOK
<1>2. \A i \in 1 .. Len(log) : log[i].who \in {"me", "other"} /\ log[i].price \in Nat
  <2> TAKE i \in 1 .. Len(log)
  <2>1. log[i] \in Log
    BY <1>1
  <2> QED  BY <2>1 DEF Log
<1>3. /\ Posted \in [1 .. Len(log) -> [user : {"me", "other"}, price : Nat]]
      /\ \A i \in 1 .. Len(log) : Posted[i] = [user |-> log[i].who, price |-> log[i].price]
  BY <1>2 DEF Posted
<1>4. Posted \in Seq([user : {"me", "other"}, price : Nat]) /\ Len(Posted) = Len(log)
  BY <1>1, <1>3, FunctionIsSeq
<1>5. Posted = <<>> <=> log = <<>>
  BY <1>1, <1>4
<1> QED  BY <1>1, <1>3, <1>4, <1>5

\* The price asked next is one increment above the row, which is the last entry's price.
LEMMA AskedIsRow ==
    ASSUME IInv
    PROVE  Ledger!Asked = MinBidIncrement + row.price
<1>1. /\ Len(Posted) = Len(log) /\ Len(log) \in Nat /\ (Posted = <<>> <=> log = <<>>)
      /\ \A i \in 1 .. Len(log) : Posted[i].price = log[i].price
  BY PostedType DEF IInv
<1>2. Version(Len(log)) = <<row.price, row.end>>
  BY DEF IInv, Record
<1>3. CASE log = <<>>
  <2>1. Len(log) = 0
    BY <1>3
  <2>2. row.price = 1
    BY <1>2, <2>1 DEF Version
  <2> QED  BY <1>1, <1>3, <2>2 DEF Ledger!Asked, Terms
<1>4. CASE log # <<>>
  <2>1. Len(log) # 0 /\ Len(log) \in 1 .. Len(log)
    BY <1>1, <1>4 DEF IInv, TypeOK
  <2>2. Posted[Len(Posted)].price = row.price
    BY <1>1, <1>2, <2>1 DEF Version
  <2> QED  BY <1>1, <1>4, <2>2 DEF Ledger!Asked, Terms
<1> QED  BY <1>3, <1>4

\* An accepted bid is a bid of the ledger: dear enough, never the owner's, and it may
\* use up overtime.
LEMMA AcceptRefines ==
    ASSUME IInv, NEW who \in {"me", "other"}, NEW n \in Nat, NEW price \in Nat,
           Acceptable(price), Accept(who, n, price)
    PROVE  Ledger!Bid(who, price)
<1> DEFINE e == [user |-> who, price |-> price]
<1>1. /\ TypeOK /\ row \in Rows /\ row.ext \in Nat /\ MaxExt \in Nat /\ row.price \in Nat
      /\ row.end \in Nat
  BY Constants DEF IInv, TypeOK, Rows
<1>2. row.status = "ACTIVE" /\ row'.status = "ACTIVE"
  BY AcceptEffect
<1>3. PICK x \in Log : log' = Append(log, x) /\ x.who = who /\ x.price = price
  <2>1. \E x \in Log : log' = Append(log, x) /\ x.who = who /\ x.n = n /\ x.price = price
                       /\ x.end = row'.end
    BY AcceptEffect
  <2> QED  BY <2>1
<1>4. /\ Len(log) \in Nat /\ Len(log') = Len(log) + 1
      /\ \A i \in 1 .. Len(log) : log'[i] = log[i]
      /\ log'[Len(log) + 1] = x
  BY <1>1, <1>3, VersionsStay
<1>5. \/ row'.ext = row.ext
      \/ row.ext < MaxExt /\ row'.ext = row.ext + 1
  BY <1>1 DEF Accept, Rows
<1>6. \/ MaxExt - row'.ext = MaxExt - row.ext
      \/ MaxExt - row.ext > 0 /\ MaxExt - row'.ext = (MaxExt - row.ext) - 1
  BY <1>1, <1>5
<1>7. Posted' = Append(Posted, e)
  <2>1. /\ Posted \in Seq([user : {"me", "other"}, price : Nat]) /\ Len(Posted) = Len(log)
        /\ e \in [user : {"me", "other"}, price : Nat]
        /\ \A i \in 1 .. Len(log) : Posted[i] = [user |-> log[i].who, price |-> log[i].price]
    BY <1>1, PostedType
  <2>2. Append(Posted, e) = [i \in 1 .. Len(log) + 1 |-> IF i = Len(log) + 1 THEN e ELSE Posted[i]]
    BY <1>4, <2>1
  <2>3. [user |-> log'[Len(log) + 1].who, price |-> log'[Len(log) + 1].price] = e
    BY <1>3, <1>4
  <2>4. \A i \in 1 .. Len(log) + 1 :
           [user |-> log'[i].who, price |-> log'[i].price]
              = IF i = Len(log) + 1 THEN e ELSE Posted[i]
    BY <1>4, <2>1, <2>3
  <2>5. Posted' = [i \in 1 .. Len(log) + 1 |-> [user |-> log'[i].who, price |-> log'[i].price]]
    BY <1>4 DEF Posted
  <2> QED  BY <2>2, <2>4, <2>5
<1>8. price >= Ledger!Asked
  <2>1. price >= row.price + MinBidIncrement
    BY DEF Acceptable
  <2> QED  BY <1>1, <2>1, AskedIsRow, Constants
<1>9. Winner' = Winner /\ Terms' = Terms
  BY <1>2 DEF Winner, Terms
<1>10. who # "owner"
  OBVIOUS
<1> QED  BY <1>2, <1>6, <1>7, <1>8, <1>9, <1>10 DEF Ledger!Bid

\* The end of the auction names the last bidder, or nobody.
LEMMA EndRefines ==
    ASSUME IInv, End
    PROVE  Ledger!Close
<1>1. /\ TypeOK /\ row \in Rows /\ UNCHANGED log /\ row.status = "ACTIVE"
      /\ row' = [row EXCEPT !.status = "ENDED"]
  BY DEF End, IInv, TypeOK
<1>2. row'.status = "ENDED" /\ row'.ext = row.ext
  BY <1>1 DEF Rows
<1>3. /\ Len(Posted) = Len(log) /\ Len(log) \in Nat
      /\ \A i \in 1 .. Len(log) : Posted[i].user = log[i].who
  BY <1>1, PostedType
<1>4. Winner' = Ledger!BidderOf(Len(log))
  <2>1. CASE log = <<>>
    <3>1. Len(log) = 0
      BY <2>1
    <3> QED  BY <1>1, <2>1, <3>1 DEF Winner, Ledger!BidderOf
  <2>2. CASE log # <<>>
    <3>1. Len(log) # 0 /\ Len(log) \in 1 .. Len(log)
      BY <1>1, <1>3, <2>2 DEF TypeOK
    <3> QED  BY <1>1, <1>2, <1>3, <2>2, <3>1 DEF Winner, Ledger!BidderOf
  <2> QED  BY <2>1, <2>2
<1>5. Posted' = Posted /\ Terms' = Terms
  BY <1>1 DEF Posted, Terms
<1>6. Len(log) \in 0 .. Len(Posted)
  BY <1>3
<1> QED  BY <1>1, <1>2, <1>3, <1>4, <1>5, <1>6 DEF Ledger!Close

\* The opening of the auction.
LEMMA ActivateRefines ==
    ASSUME IInv, Activate
    PROVE  Ledger!Open
<1>1. /\ row \in Rows /\ UNCHANGED log /\ row.status = "PENDING"
      /\ row' = [row EXCEPT !.status = "ACTIVE"]
  BY DEF Activate, IInv, TypeOK
<1>2. row'.status = "ACTIVE" /\ row'.ext = row.ext
  BY <1>1 DEF Rows
<1>3. Posted' = Posted /\ Terms' = Terms /\ Winner' = Winner
  BY <1>1, <1>2 DEF Posted, Terms, Winner
<1> QED  BY <1>1, <1>2, <1>3 DEF Ledger!Open

\* Every step of page and server is a step of the ledger or leaves it alone.
LEMMA StepRefines ==
    ASSUME IInv, [Next]_vars
    PROVE  [Ledger!Next]_(Ledger!vars)
<1>1. CASE Activate \/ End
  BY <1>1, ActivateRefines, EndRefines DEF Ledger!Next
<1>2. ASSUME NEW price \in 1 .. MaxPrice, OtherBids(price)
      PROVE  Ledger!Next
  <2>1. Acceptable(price) /\ Accept("other", 0, price)
    BY <1>2 DEF OtherBids
  <2>2. price \in Nat /\ 0 \in Nat /\ "other" \in {"me", "other"}
    BY Constants
  <2>3. Ledger!Bid("other", price)
    BY <2>1, <2>2, AcceptRefines
  <2> QED  BY <2>2, <2>3 DEF Ledger!Next
<1>3. ASSUME NEW n \in 1 .. Len(reqs), AcceptMine(n)
      PROVE  Ledger!Next
  <2>1. n \in Nat /\ reqs[n] \in Sent /\ "me" \in {"me", "other"}
    BY DEF IInv, TypeOK
  <2>2. PICK price \in Nat : price = reqs[n].price
    BY <2>1 DEF Sent
  <2>3. Acceptable(price) /\ Accept("me", n, price)
    BY <1>3, <2>2 DEF AcceptMine
  <2>4. Ledger!Bid("me", price)
    BY <2>1, <2>3, AcceptRefines
  <2> QED  BY <2>1, <2>4 DEF Ledger!Next
<1>4. CASE UNCHANGED <<row, log>>
  BY <1>4 DEF Ledger!vars, Posted, Terms, Winner
<1>5. CASE Tick \/ SocketStep \/ LoadStep \/ CountdownTick \/ UserStep \/ UNCHANGED vars
  <2>1. UNCHANGED <<row, log>>
    BY <1>5 DEF Tick, SocketStep, SocketOpens, SocketCloses, SocketMessage, LoadStep, Mount,
       AuctionLoads, BidsLoad, CountdownTick, UserStep, ChooseAmount, Submit, ClosePopup,
       OpenPopup, vars, server
  <2> QED  BY <1>4, <2>1
<1>6. ASSUME NEW n \in 1 .. Len(reqs), RefuseMine(n) \/ FailMine(n) \/ Settle(n)
      PROVE  UNCHANGED <<row, log>>
  BY <1>6 DEF RefuseMine, FailMine, Settle, server
<1> QED
  BY <1>1, <1>2, <1>3, <1>4, <1>5, <1>6 DEF Next, ServerStep, RequestStep

\* The bids the page sends and those of others, as the page's server takes them, are bids
\* of the auction AuctionLedger promises: the same promise AuctionStore and AuctionActor keep.
THEOREM ServerImplementsLedger == Spec => ServerKeepsLedger
<1>1. Init => Ledger!Init
  <2> SUFFICES ASSUME Init PROVE Ledger!Init
    OBVIOUS
  <2>1. row = [price |-> 1, end |-> EndTime, ext |-> 0, status |-> "PENDING"] /\ log = <<>>
    BY DEF Init, ServerInit
  <2>2. row.status = "PENDING" /\ MaxExt - row.ext = MaxExt /\ Winner = "nobody"
    BY <2>1, Constants DEF Winner
  <2>3. Terms \in [price : Nat, inc : Nat]
    BY Constants DEF Terms
  <2>4. Posted = <<>>
    BY <2>1 DEF Posted
  <2> QED  BY <2>2, <2>3, <2>4 DEF Ledger!Init, Ledger!Terms
<1>2. IInv /\ [Next]_vars => [Ledger!Next]_(Ledger!vars)
  BY StepRefines
<1> QED  BY <1>1, <1>2, PageInvariance, PTL DEF Spec, ServerKeepsLedger, Ledger!Spec

=============================================================================
