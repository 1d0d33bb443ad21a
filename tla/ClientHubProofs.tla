--------------------------- MODULE ClientHubProofs ---------------------------
(* Safety of ClientHub, for every number of connections and every capacity  *)
(* of the channels and the mailbox.                                         *)
EXTENDS ClientHub, TLAPS

-----------------------------------------------------------------------------
(* Events on their way to one client: `s` was written last, `b` is queued,  *)
(* and `late` says that it has missed one.                                  *)

Follows(e, f, late) ==
    /\ e.version <= f.version
    /\ ~late => f.version <= e.version + 1

Chain(s, b, late) ==
    /\ \A i \in 1 .. Len(b) - 1 : Follows(b[i], b[i + 1], late)
    /\ s # Nothing /\ b # <<>> => Follows(s, b[1], late)

Latest(s, b) == IF b = <<>> THEN s ELSE b[Len(b)]

\* One more event at the end.
LEMMA ChainAppend ==
    ASSUME NEW s \in Events, NEW b \in Seq(Events), NEW e \in Events, NEW late \in BOOLEAN,
           Chain(s, b, late), Follows(Latest(s, b), e, late)
    PROVE  Chain(s, Append(b, e), late) /\ Latest(s, Append(b, e)) = e
<1> DEFINE d == Append(b, e)
<1>1. /\ Len(b) \in Nat /\ Len(d) = Len(b) + 1 /\ d[Len(b) + 1] = e /\ d # <<>>
      /\ \A i \in 1 .. Len(b) : d[i] = b[i]
  OBVIOUS
<1> HIDE DEF d
<1>2. ASSUME NEW i \in 1 .. Len(d) - 1 PROVE Follows(d[i], d[i + 1], late)
  <2>1. CASE i < Len(b)
    <3>1. d[i] = b[i] /\ d[i + 1] = b[i + 1] /\ i \in 1 .. Len(b) - 1
      BY <1>1, <2>1
    <3> QED  BY <3>1 DEF Chain
  <2>2. CASE ~(i < Len(b))
    <3>1. i = Len(b) /\ b # <<>> /\ d[i] = b[Len(b)] /\ d[i + 1] = e
      BY <1>1, <2>2
    <3> QED  BY <3>1 DEF Latest
  <2> QED  BY <2>1, <2>2
<1>3. s # Nothing => Follows(s, d[1], late)
  <2>1. CASE b = <<>>
    BY <1>1, <2>1 DEF Latest
  <2>2. CASE b # <<>>
    <3>1. d[1] = b[1]
      BY <1>1, <2>2
    <3> QED  BY <2>2, <3>1 DEF Chain
  <2> QED  BY <2>1, <2>2
<1>4. Latest(s, d) = e
  BY <1>1 DEF Latest
<1>5. Chain(s, d, late)
  BY <1>2, <1>3 DEF Chain
<1> QED  BY <1>4, <1>5 DEF d

\* The first of the queue is written.
LEMMA ChainTail ==
    ASSUME NEW s \in Events, NEW b \in Seq(Events), NEW late \in BOOLEAN,
           b # <<>>, Chain(s, b, late)
    PROVE  /\ Chain(Head(b), Tail(b), late)
           /\ Latest(Head(b), Tail(b)) = Latest(s, b)
           /\ Head(b) \in Events /\ Tail(b) \in Seq(Events) /\ Len(Tail(b)) = Len(b) - 1
<1>1. /\ Len(b) \in Nat \ {0} /\ Len(Tail(b)) = Len(b) - 1 /\ Head(b) = b[1]
      /\ \A i \in 1 .. Len(b) - 1 : Tail(b)[i] = b[i + 1]
      /\ Head(b) \in Events /\ Tail(b) \in Seq(Events)
      /\ (Tail(b) = <<>> <=> Len(b) = 1)
  <2>1. Len(b) \in Nat \ {0} /\ Head(b) = b[1] /\ b[1] \in Events
    OBVIOUS
  <2>2. Tail(b) \in Seq(Events) /\ Len(Tail(b)) = Len(b) - 1
    BY <2>1
  <2>3. \A i \in 1 .. Len(b) - 1 : Tail(b)[i] = b[i + 1]
    BY <2>1
  <2>4. Tail(b) = <<>> <=> Len(Tail(b)) = 0
    <3>1. \A t \in Seq(Events) : t = <<>> <=> Len(t) = 0
      OBVIOUS
    <3> QED  BY <2>2, <3>1
  <2> QED  BY <2>1, <2>2, <2>3, <2>4
<1>2. ASSUME NEW i \in 1 .. Len(Tail(b)) - 1 PROVE Follows(Tail(b)[i], Tail(b)[i + 1], late)
  <2>1. /\ Tail(b)[i] = b[i + 1] /\ Tail(b)[i + 1] = b[(i + 1) + 1]
        /\ i + 1 \in 1 .. Len(b) - 1
    BY <1>1
  <2> QED  BY <2>1 DEF Chain
<1>3. Tail(b) # <<>> => Follows(Head(b), Tail(b)[1], late)
  <2>1. Tail(b) # <<>> => 1 \in 1 .. Len(b) - 1 /\ Tail(b)[1] = b[1 + 1]
    BY <1>1
  <2> QED  BY <1>1, <2>1 DEF Chain
<1>4. Latest(Head(b), Tail(b)) = Latest(s, b)
  BY <1>1 DEF Latest
<1> QED  BY <1>1, <1>2, <1>3, <1>4 DEF Chain

\* The form in which EventsInOrder says it.
LEMMA ChainInOrder ==
    ASSUME NEW s \in Events, NEW b \in Seq(Events), NEW late \in BOOLEAN, Chain(s, b, late)
    PROVE  LET es == (IF s = Nothing THEN <<>> ELSE <<s>>) \o b IN
           \A i \in 1 .. Len(es) - 1 : Follows(es[i], es[i + 1], late)
<1>1. CASE s = Nothing
  <2>1. <<>> \o b = b
    OBVIOUS
  <2> QED  BY <1>1, <2>1 DEF Chain
<1>2. CASE s # Nothing
  <2> DEFINE es == <<s>> \o b
  <2>1. /\ Len(b) \in Nat /\ Len(es) = Len(b) + 1 /\ es[1] = s
        /\ \A i \in 1 .. Len(b) : es[i + 1] = b[i]
    OBVIOUS
  <2> HIDE DEF es
  <2>2. ASSUME NEW i \in 1 .. Len(es) - 1 PROVE Follows(es[i], es[i + 1], late)
    <3>1. CASE i = 1
      <4>1. es[i] = s /\ es[i + 1] = b[1] /\ b # <<>>
        BY <2>1, <3>1
      <4> QED  BY <1>2, <4>1 DEF Chain
    <3>2. CASE i # 1
      <4>1. i - 1 \in 1 .. Len(b) - 1
        BY <2>1, <3>2
      <4>2. es[(i - 1) + 1] = b[i - 1] /\ es[i + 1] = b[(i - 1) + 1]
        BY <2>1, <4>1
      <4>3. es[i] = b[i - 1]
        BY <4>2
      <4> QED  BY <4>1, <4>2, <4>3 DEF Chain
    <3> QED  BY <3>1, <3>2
  <2> QED  BY <1>2, <2>2 DEF es
<1> QED  BY <1>1, <1>2

-----------------------------------------------------------------------------
(* The inductive invariant.                                                 *)

Trails ==
    \A c \in Clients : writer[c] = "on" =>
        /\ Chain(seen[c], buf[c], c \in slow)
        /\ Newest(c).version \in 1 .. hub.version

Wiring == TypeOK /\ OnlyCutClientsPanic /\ RegisteredOnce /\ LeavesLast /\ OneBidQueued

HInv == Wiring /\ ClientIsUpToDate /\ Trails

\* It implies the invariant of the run.
LEMMA HInvIsHubInv == HInv => HubInv
<1> SUFFICES ASSUME HInv PROVE HubInv
  OBVIOUS
<1>1. EventsInOrder
  <2> SUFFICES ASSUME NEW c \in Clients, writer[c] = "on"
               PROVE  LET es == (IF seen[c] = Nothing THEN <<>> ELSE <<seen[c]>>) \o buf[c] IN
                      \A i \in 1 .. Len(es) - 1 :
                         /\ es[i].version <= es[i + 1].version
                         /\ c \notin slow => es[i + 1].version <= es[i].version + 1
    BY DEF EventsInOrder
  <2>1. seen[c] \in Events /\ buf[c] \in Seq(Events) /\ Chain(seen[c], buf[c], c \in slow)
          /\ (c \in slow) \in BOOLEAN
    BY DEF HInv, Wiring, TypeOK, Trails
  <2> QED  BY <2>1, ChainInOrder DEF Follows
<1> QED  BY <1>1 DEF HInv, Wiring, HubInv

\* It holds at the start.
LEMMA InitHInv == Init => HInv
<1> SUFFICES ASSUME Init PROVE HInv
  OBVIOUS
<1>1. TypeOK
  BY HubAssumption DEF Init, TypeOK, Hubs, Events, Nothing
<1>2. OnlyCutClientsPanic /\ ClientIsUpToDate /\ Trails /\ RegisteredOnce /\ LeavesLast /\ OneBidQueued
  BY DEF Init, OnlyCutClientsPanic, ClientIsUpToDate, Trails, RegisteredOnce, LeavesLast,
         OneBidQueued, Crashed, InInbox, Fresh, Met
<1> QED  BY <1>1, <1>2 DEF HInv, Wiring

-----------------------------------------------------------------------------
(* The mailbox as a sequence.                                               *)

\* A message joins at the end, within the capacity.
LEMMA PutEffect ==
    ASSUME TypeOK, NEW m \in Msgs, Put(m)
    PROVE  /\ inbox' \in Seq(Msgs) /\ Len(inbox') <= InboxSize
           /\ Len(inbox) \in Nat /\ Len(inbox') = Len(inbox) + 1
           /\ inbox'[Len(inbox) + 1] = m
           /\ \A i \in 1 .. Len(inbox) : inbox'[i] = inbox[i]
BY HubAssumption DEF TypeOK, Put

\* The first message leaves.
LEMMA TailEffect ==
    ASSUME TypeOK, inbox # <<>>, inbox' = Tail(inbox)
    PROVE  /\ inbox' \in Seq(Msgs) /\ Len(inbox') <= InboxSize
           /\ Len(inbox) \in Nat \ {0} /\ Len(inbox') = Len(inbox) - 1
           /\ Head(inbox) = inbox[1] /\ inbox[1] \in Msgs
           /\ \A i \in 1 .. Len(inbox') : inbox'[i] = inbox[i + 1]
BY HubAssumption DEF TypeOK

\* What stays of the order of the messages when the first one leaves.
LEMMA TailOrder ==
    ASSUME Wiring, inbox # <<>>, inbox' = Tail(inbox)
    PROVE  /\ \A k : \A c \in Clients : InInbox(k, c)' => InInbox(k, c)
           /\ \A c \in Clients : \A i, j \in 1 .. Len(inbox') :
                 inbox'[i] = Msg("register", c) /\ inbox'[j] = Msg("register", c) => i = j
           /\ \A c \in Clients : Head(inbox) = Msg("register", c) => ~InInbox("register", c)'
           /\ ~Crashed => \A c \in Clients : \A i \in 1 .. Len(inbox') :
                 inbox'[i] = Msg("unregister", c) =>
                    /\ reader[c] = "left"
                    /\ \A j \in i .. Len(inbox') : inbox'[j] # Msg("sync", c)
           /\ ~Crashed => \A c \in Clients : Head(inbox) = Msg("unregister", c) =>
                 reader[c] = "left" /\ ~InInbox("sync", c)'
           /\ \A i \in 1 .. Len(inbox') : inbox'[i].kind = "bid" =>
                 /\ Head(inbox).kind # "bid" /\ hub.version < MaxVersion
                 /\ \A j \in 1 .. Len(inbox') : inbox'[j].kind = "bid" => i = j
<1>1. /\ Len(inbox) \in Nat \ {0} /\ Len(inbox') = Len(inbox) - 1 /\ Head(inbox) = inbox[1]
      /\ \A i \in 1 .. Len(inbox') : inbox'[i] = inbox[i + 1] /\ i + 1 \in 1 .. Len(inbox)
  BY TailEffect DEF Wiring
<1>2. \A k : \A c \in Clients : InInbox(k, c)' => InInbox(k, c)
  BY <1>1 DEF InInbox
<1>3. ASSUME NEW c \in Clients, NEW i \in 1 .. Len(inbox'), NEW j \in 1 .. Len(inbox'),
             inbox'[i] = Msg("register", c), inbox'[j] = Msg("register", c)
      PROVE  i = j
  <2>1. inbox[i + 1] = Msg("register", c) /\ inbox[j + 1] = Msg("register", c)
    BY <1>1, <1>3
  <2>2. i + 1 = j + 1
    BY <1>1, <2>1 DEF Wiring, RegisteredOnce
  <2> QED  BY <2>2
<1>4. ASSUME NEW c \in Clients, Head(inbox) = Msg("register", c), InInbox("register", c)'
      PROVE  FALSE
  <2>1. PICK i \in 1 .. Len(inbox') : inbox'[i] = Msg("register", c)
    BY <1>4 DEF InInbox
  <2>2. inbox[i + 1] = Msg("register", c) /\ inbox[1] = Msg("register", c) /\ 1 \in 1 .. Len(inbox)
    BY <1>1, <1>4, <2>1
  <2>3. i + 1 = 1
    BY <1>1, <2>2 DEF Wiring, RegisteredOnce
  <2> QED  BY <2>3
<1>5. ASSUME ~Crashed, NEW c \in Clients, NEW i \in 1 .. Len(inbox'), inbox'[i] = Msg("unregister", c)
      PROVE  /\ reader[c] = "left"
             /\ \A j \in i .. Len(inbox') : inbox'[j] # Msg("sync", c)
  <2>1. inbox[i + 1] = Msg("unregister", c) /\ i + 1 \in 1 .. Len(inbox)
    BY <1>1, <1>5
  <2>2. reader[c] = "left" /\ \A j \in i + 1 .. Len(inbox) : inbox[j] # Msg("sync", c)
    BY <1>5, <2>1 DEF Wiring, LeavesLast
  <2>3. \A j \in i .. Len(inbox') : inbox'[j] = inbox[j + 1] /\ j + 1 \in i + 1 .. Len(inbox)
    BY <1>1
  <2> QED  BY <2>2, <2>3
<1>6. ASSUME ~Crashed, NEW c \in Clients, Head(inbox) = Msg("unregister", c)
      PROVE  reader[c] = "left" /\ ~InInbox("sync", c)'
  <2>1. inbox[1] = Msg("unregister", c) /\ 1 \in 1 .. Len(inbox)
    BY <1>1, <1>6
  <2>2. reader[c] = "left" /\ \A j \in 1 .. Len(inbox) : inbox[j] # Msg("sync", c)
    BY <1>6, <2>1 DEF Wiring, LeavesLast
  <2> QED  BY <1>1, <2>2 DEF InInbox
<1>7. ASSUME NEW i \in 1 .. Len(inbox'), inbox'[i].kind = "bid"
      PROVE  /\ Head(inbox).kind # "bid" /\ hub.version < MaxVersion
             /\ \A j \in 1 .. Len(inbox') : inbox'[j].kind = "bid" => i = j
  <2>1. inbox[i + 1].kind = "bid" /\ i + 1 \in 1 .. Len(inbox) /\ 1 \in 1 .. Len(inbox)
    BY <1>1, <1>7
  <2>2. /\ hub.version < MaxVersion
        /\ \A j \in 1 .. Len(inbox) : inbox[j].kind = "bid" => i + 1 = j
    BY <2>1 DEF Wiring, OneBidQueued
  <2>3. Head(inbox).kind # "bid"
    BY <1>1, <2>1, <2>2
  <2>4. ASSUME NEW j \in 1 .. Len(inbox'), inbox'[j].kind = "bid" PROVE i = j
    <3>1. i + 1 = j + 1
      BY <1>1, <2>2, <2>4
    <3> QED  BY <3>1
  <2> QED  BY <2>2, <2>3, <2>4
<1> QED  BY <1>2, <1>3, <1>4, <1>5, <1>6, <1>7

-----------------------------------------------------------------------------
(* The connections and the mailbox: one lemma per group of actions.         *)

\* The loop takes a bid, a notice or the shutdown, or stops idle: nobody joins
\* or leaves, and what it broadcasts goes to registered clients.
Announces ==
    /\ hub.st = "running" /\ hub' \in Hubs /\ hub'.st \in {"running", "stopping"}
    /\ hub.version <= hub'.version /\ hub'.version <= hub.version + 1
    /\ UNCHANGED clients /\ UNCHANGED closed /\ UNCHANGED cut
    /\ UNCHANGED conn /\ UNCHANGED reader /\ UNCHANGED writer /\ UNCHANGED seen
    /\ \/ UNCHANGED buf /\ UNCHANGED slow /\ hub'.version = hub.version /\ hub'.status = hub.status
       \/ Broadcast(hub')
    /\ \/ UNCHANGED inbox /\ hub'.version = hub.version
       \/ /\ inbox # <<>> /\ inbox' = Tail(inbox)
          /\ hub'.version # hub.version => Head(inbox).kind = "bid"

\* The loop's own messages have that shape.
LEMMA LoopAnnounces ==
    ASSUME Wiring, HandleBid \/ HandleActivate \/ HandleEnd \/ StopLoop
    PROVE  Announces
<1>1. hub \in Hubs /\ hub.st = "running"
  BY DEF Wiring, TypeOK, HandleBid, HandleActivate, HandleEnd, StopLoop, Take
<1>2. CASE HandleBid
  <2>1. inbox # <<>> /\ inbox' = Tail(inbox) /\ Head(inbox).kind = "bid"
    BY <1>2 DEF HandleBid, Take, Msg
  <2>2. hub.version < MaxVersion
    <3>1. Head(inbox) = inbox[1] /\ 1 \in 1 .. Len(inbox)
      BY <2>1, TailEffect DEF Wiring
    <3> QED  BY <2>1, <3>1 DEF Wiring, OneBidQueued
  <2>3. CASE UNCHANGED <<hub, clients, closed, buf, slow, cut>>
    BY <1>1, <1>2, <2>1, <2>3 DEF HandleBid, peers, Announces, Hubs
  <2>4. CASE hub' = [hub EXCEPT !.version = @ + 1] /\ Broadcast(hub')
               /\ UNCHANGED <<clients, closed, cut>>
    <3>1. /\ hub' \in Hubs /\ hub'.version = hub.version + 1 /\ hub'.st = hub.st
          /\ hub.version \in Nat
      BY <1>1, <2>2, <2>4, HubAssumption DEF Hubs
    <3> QED  BY <1>1, <1>2, <2>1, <2>4, <3>1 DEF HandleBid, peers, Announces
  <2> QED  BY <1>2, <2>3, <2>4 DEF HandleBid
<1>3. CASE HandleActivate
  BY <1>1, <1>3 DEF HandleActivate, Take, peers, Announces, Hubs
<1>4. CASE HandleEnd
  <2>1. hub' = [hub EXCEPT !.status = "ENDED", !.st = "stopping"]
    BY <1>4 DEF HandleEnd
  <2>2. /\ hub' \in Hubs /\ hub'.st = "stopping"
        /\ hub'.version = hub.version /\ hub.version \in Nat
    <3>1. hub.version \in 1 .. MaxVersion /\ hub.version \in Nat
      BY <1>1, HubAssumption DEF Hubs
    <3>2. hub' \in Hubs
      BY <1>1, <2>1 DEF Hubs
    <3>3. hub'.st = "stopping" /\ hub'.version = hub.version
      BY <1>1, <2>1 DEF Hubs
    <3> QED  BY <3>1, <3>2, <3>3
  <2> QED  BY <1>1, <1>4, <2>2 DEF HandleEnd, Take, peers, Announces
<1>5. CASE StopLoop
  BY <1>1, <1>5 DEF StopLoop, Take, peers, Announces, Hubs
<1> QED  BY <1>2, <1>3, <1>4, <1>5

\* A broadcast appends to the channels with room and remembers the others.
LEMMA BroadcastEffect ==
    ASSUME TypeOK, hub' \in Hubs, Broadcast(hub')
    PROVE  /\ Event(hub') \in Events
           /\ buf' \in [Clients -> Seq(Events)] /\ \A c \in Clients : Len(buf'[c]) <= BufSize
           /\ slow' \subseteq Clients /\ slow \subseteq slow' /\ slow' \subseteq slow \cup clients
           /\ \A c \in Clients :
                 \/ buf'[c] = buf[c] /\ (c \in clients => c \in slow')
                 \/ /\ c \in clients /\ (c \in slow' <=> c \in slow)
                    /\ buf'[c] = Append(buf[c], Event(hub'))
<1>1. PICK e \in Events : e = Event(hub')
  <2>1. hub'.version \in 0 .. MaxVersion /\ hub'.status \in {"PENDING", "ACTIVE", "ENDED"}
    BY HubAssumption DEF Hubs
  <2> QED  BY <2>1 DEF Event, Events
<1>2. /\ buf' = [c \in Clients |-> IF c \in clients /\ ~Full(c) THEN Append(buf[c], e) ELSE buf[c]]
      /\ slow' = slow \cup {c \in clients : Full(c)}
  BY <1>1 DEF Broadcast
<1>3. \A c \in Clients : /\ Append(buf[c], e) \in Seq(Events) /\ buf[c] \in Seq(Events)
                         /\ Len(Append(buf[c], e)) = Len(buf[c]) + 1
                         /\ ~Full(c) => Len(buf[c]) + 1 <= BufSize
  BY HubAssumption DEF TypeOK, Full
<1>4. buf' \in [Clients -> Seq(Events)] /\ \A c \in Clients : Len(buf'[c]) <= BufSize
  BY <1>2, <1>3 DEF TypeOK
<1> QED  BY <1>1, <1>2, <1>4 DEF TypeOK

\* Bids, notices and the stop of the loop leave the connections alone.
LEMMA LoopWiring == ASSUME Wiring, Announces PROVE Wiring'
<1> USE DEF Wiring, Announces
<1>1. /\ buf' \in [Clients -> Seq(Events)] /\ (\A c \in Clients : Len(buf'[c]) <= BufSize)
      /\ slow' \subseteq Clients /\ slow' \subseteq slow \cup clients
      /\ \A c \in Clients : c \notin clients => buf'[c] = buf[c]
  BY BroadcastEffect DEF TypeOK
<1>2. /\ inbox' \in Seq(Msgs) /\ Len(inbox') <= InboxSize
      /\ \A k : \A c \in Clients : InInbox(k, c)' => InInbox(k, c)
      /\ \A c \in Clients : \A i, j \in 1 .. Len(inbox') :
            inbox'[i] = Msg("register", c) /\ inbox'[j] = Msg("register", c) => i = j
      /\ \A c \in Clients : \A i \in 1 .. Len(inbox') :
            inbox'[i] = Msg("unregister", c) =>
               /\ reader[c] = "left"
               /\ \A j \in i .. Len(inbox') : inbox'[j] # Msg("sync", c)
      /\ \A i \in 1 .. Len(inbox') : inbox'[i].kind = "bid" =>
            /\ hub'.version < MaxVersion
            /\ \A j \in 1 .. Len(inbox') : inbox'[j].kind = "bid" => i = j
  <2>1. CASE UNCHANGED inbox /\ hub'.version = hub.version
    BY <2>1 DEF TypeOK, InInbox, RegisteredOnce, LeavesLast, OneBidQueued, Crashed
  <2>2. CASE /\ inbox # <<>> /\ inbox' = Tail(inbox)
             /\ hub'.version # hub.version => Head(inbox).kind = "bid"
    <3>1. inbox' \in Seq(Msgs) /\ Len(inbox') <= InboxSize
      BY <2>2, TailEffect
    <3> QED  BY <2>2, <3>1, TailOrder DEF Crashed
  <2> QED  BY <2>1, <2>2
<1>3. TypeOK'
  BY <1>1, <1>2 DEF TypeOK
<1>4. OnlyCutClientsPanic'
  BY DEF OnlyCutClientsPanic, Crashed
<1>5. \A c \in Clients : Fresh(c) => Fresh(c)'
  BY <1>1 DEF Fresh
<1>6. RegisteredOnce'
  BY <1>2, <1>5 DEF RegisteredOnce, Crashed, Met
<1>7. LeavesLast'
  BY <1>2 DEF LeavesLast, Crashed, Met
<1>8. OneBidQueued'
  BY <1>2 DEF OneBidQueued
<1> QED  BY <1>3, <1>4, <1>6, <1>7, <1>8

\* The message at the head of the mailbox is in it.
LEMMA TakeEffect ==
    ASSUME Wiring, NEW k, NEW c \in Clients, Take(k, c)
    PROVE  /\ hub.st = "running" /\ inbox # <<>> /\ inbox' = Tail(inbox)
           /\ Head(inbox) = Msg(k, c) /\ InInbox(k, c)
           /\ inbox' \in Seq(Msgs) /\ Len(inbox') <= InboxSize
<1>1. /\ hub.st = "running" /\ inbox # <<>> /\ inbox' = Tail(inbox) /\ Head(inbox) = Msg(k, c)
  BY DEF Take
<1>2. Head(inbox) = inbox[1] /\ 1 \in 1 .. Len(inbox)
      /\ inbox' \in Seq(Msgs) /\ Len(inbox') <= InboxSize
  BY <1>1, TailEffect DEF Wiring
<1> QED  BY <1>1, <1>2 DEF InInbox

\* What the loop writes to one channel: an event of its own version.
LEMMA EventType == TypeOK => Event(hub) \in Events
<1> SUFFICES ASSUME TypeOK PROVE Event(hub) \in Events
  OBVIOUS
<1>1. hub.version \in 0 .. MaxVersion /\ hub.status \in {"PENDING", "ACTIVE", "ENDED"}
  BY HubAssumption DEF TypeOK, Hubs
<1> QED  BY <1>1 DEF Event, Events

\* A registration is that of a connection nobody has served yet.
LEMMA RegisterWiring ==
    ASSUME Wiring, NEW c \in Clients, HandleRegister(c)
    PROVE  Wiring' /\ Fresh(c) /\ buf'[c] = <<Event(hub)>>
<1> USE DEF Wiring
<1>1. /\ hub.st = "running" /\ inbox # <<>> /\ inbox' = Tail(inbox)
      /\ Head(inbox) = Msg("register", c) /\ InInbox("register", c)
      /\ inbox' \in Seq(Msgs) /\ Len(inbox') <= InboxSize
  BY TakeEffect DEF HandleRegister
<1>2. /\ clients' = clients \cup {c}
      /\ buf' = [buf EXCEPT ![c] = Append(@, Event(hub))]
      /\ reader' = [reader EXCEPT ![c] = "on"] /\ writer' = [writer EXCEPT ![c] = "on"]
      /\ UNCHANGED hub /\ UNCHANGED closed /\ UNCHANGED conn /\ UNCHANGED seen
      /\ UNCHANGED slow /\ UNCHANGED cut
  BY DEF HandleRegister
<1>3. Fresh(c) /\ reader[c] = "off" /\ conn[c] = "open"
  BY <1>1 DEF RegisteredOnce, Crashed
<1>4. PICK e \in Events : e = Event(hub)
  BY EventType
<1>5. /\ buf' \in [Clients -> Seq(Events)] /\ buf'[c] = <<e>>
      /\ \A d \in Clients \ {c} : buf'[d] = buf[d]
  BY <1>2, <1>3, <1>4 DEF Fresh, TypeOK
<1>6. /\ reader'[c] = "on" /\ writer'[c] = "on"
      /\ \A d \in Clients \ {c} : reader'[d] = reader[d] /\ writer'[d] = writer[d]
  BY <1>2 DEF TypeOK
<1>7. TypeOK'
  <2>1. \A d \in Clients : Len(buf'[d]) <= BufSize
    <3>1. Len(<<e>>) <= BufSize
      BY HubAssumption
    <3> QED  BY <1>5, <3>1 DEF TypeOK
  <2> QED  BY <1>1, <1>2, <1>5, <2>1 DEF TypeOK
<1>8. OnlyCutClientsPanic'
  BY <1>1, <1>2, <1>3 DEF OnlyCutClientsPanic, Crashed, Fresh
<1>9. \A d \in Clients \ {c} : Fresh(d) => Fresh(d)'
  BY <1>2, <1>5, <1>6 DEF Fresh
<1>10. RegisteredOnce'
  BY <1>1, <1>2, <1>3, <1>6, <1>9, TailOrder DEF RegisteredOnce, Crashed, Met
<1>11. LeavesLast'
  <2>1. /\ \A d \in Clients : InInbox("sync", d)' => InInbox("sync", d)
        /\ \A d \in Clients : \A i \in 1 .. Len(inbox') :
              inbox'[i] = Msg("unregister", d) =>
                 /\ reader[d] = "left"
                 /\ \A j \in i .. Len(inbox') : inbox'[j] # Msg("sync", d)
    BY <1>1, TailOrder DEF Crashed
  <2> QED  BY <1>1, <1>2, <1>3, <1>6, <2>1 DEF LeavesLast, Crashed, Met, Fresh
<1>12. OneBidQueued'
  BY <1>1, <1>2, TailOrder DEF OneBidQueued
<1> QED  BY <1>3, <1>4, <1>5, <1>7, <1>8, <1>10, <1>11, <1>12

\* A client leaves in order, or has been dropped before.
LEMMA UnregisterWiring ==
    ASSUME Wiring, NEW c \in Clients, HandleUnregister(c)
    PROVE  Wiring' /\ reader[c] = "left"
<1> USE DEF Wiring
<1>1. /\ hub.st = "running" /\ inbox # <<>> /\ inbox' = Tail(inbox)
      /\ Head(inbox) = Msg("unregister", c)
      /\ inbox' \in Seq(Msgs) /\ Len(inbox') <= InboxSize
  BY TakeEffect DEF HandleUnregister
<1>2. /\ \/ UNCHANGED clients /\ UNCHANGED closed
         \/ c \in clients /\ clients' = clients \ {c} /\ closed' = closed \cup {c}
      /\ UNCHANGED hub /\ UNCHANGED conn /\ UNCHANGED seen /\ UNCHANGED buf
      /\ UNCHANGED reader /\ UNCHANGED writer /\ UNCHANGED slow /\ UNCHANGED cut
  BY DEF HandleUnregister, peers
<1>3. reader[c] = "left" /\ ~InInbox("sync", c)'
  BY <1>1, TailOrder DEF Crashed
<1>4. TypeOK'
  BY <1>1, <1>2 DEF TypeOK
<1>5. OnlyCutClientsPanic'
  BY <1>1, <1>2 DEF OnlyCutClientsPanic, Crashed
<1>6. \A d \in Clients : Fresh(d) => Fresh(d)'
  BY <1>2 DEF Fresh
<1>7. RegisteredOnce'
  BY <1>1, <1>2, <1>6, TailOrder DEF RegisteredOnce, Crashed, Met
<1>8. LeavesLast'
  <2>1. /\ \A d \in Clients : InInbox("sync", d)' => InInbox("sync", d)
        /\ \A d \in Clients : \A i \in 1 .. Len(inbox') :
              inbox'[i] = Msg("unregister", d) =>
                 /\ reader[d] = "left"
                 /\ \A j \in i .. Len(inbox') : inbox'[j] # Msg("sync", d)
    BY <1>1, TailOrder DEF Crashed
  <2> QED  BY <1>1, <1>2, <1>3, <2>1 DEF LeavesLast, Crashed, Met
<1>9. OneBidQueued'
  BY <1>1, <1>2, TailOrder DEF OneBidQueued
<1> QED  BY <1>3, <1>4, <1>5, <1>7, <1>8, <1>9

\* A SYNC of a client whose channel is closed: it had been cut off.
LEMMA PanicWiring ==
    ASSUME Wiring, NEW c \in Clients, Take("sync", c), c \in closed, Panic
    PROVE  Wiring'
<1> USE DEF Wiring
<1>1. /\ hub.st = "running" /\ inbox # <<>> /\ inbox' = Tail(inbox)
      /\ InInbox("sync", c) /\ inbox' \in Seq(Msgs) /\ Len(inbox') <= InboxSize
  BY TakeEffect
<1>2. /\ UNCHANGED clients /\ UNCHANGED closed /\ UNCHANGED buf /\ UNCHANGED seen
      /\ UNCHANGED slow /\ UNCHANGED cut
      /\ hub' \in Hubs /\ hub'.st = "crashed" /\ hub'.version = hub.version
      /\ conn' \in [Clients -> {"none", "open", "closed"}]
      /\ \A d \in Clients : conn'[d] = "none" => conn[d] = "none"
      /\ reader' \in [Clients -> {"off"}] /\ writer' \in [Clients -> {"off"}]
  BY DEF Panic, TypeOK, Hubs
<1>3. c \in cut
  BY <1>1 DEF LeavesLast, Crashed
<1>4. TypeOK'
  BY <1>1, <1>2 DEF TypeOK
<1>5. OnlyCutClientsPanic'
  BY <1>2, <1>3 DEF OnlyCutClientsPanic
<1>6. RegisteredOnce'
  <2>1. \A d \in Clients : Fresh(d) => Fresh(d)'
    BY <1>2 DEF Fresh
  <2> QED  BY <1>1, <1>2, <2>1, TailOrder DEF RegisteredOnce, Crashed, Met
<1>7. LeavesLast'
  BY <1>2 DEF LeavesLast, Crashed
<1>8. OneBidQueued'
  BY <1>1, <1>2, TailOrder DEF OneBidQueued
<1> QED  BY <1>4, <1>5, <1>6, <1>7, <1>8

\* A SYNC of a client whose channel is open: it is registered.
LEMMA SyncWiring ==
    ASSUME Wiring, NEW c \in Clients, Take("sync", c), c \notin closed,
           UNCHANGED hub, UNCHANGED conn, UNCHANGED reader, UNCHANGED writer, UNCHANGED seen,
           SendSync(c)
    PROVE  Wiring' /\ c \in clients
<1> USE DEF Wiring
<1>1. /\ hub.st = "running" /\ inbox # <<>> /\ inbox' = Tail(inbox)
      /\ InInbox("sync", c) /\ inbox' \in Seq(Msgs) /\ Len(inbox') <= InboxSize
  BY TakeEffect
<1>2. Met(c) /\ c \in clients
  BY <1>1 DEF LeavesLast, RegisteredOnce, Crashed
<1>3. /\ UNCHANGED slow
      /\ \/ /\ clients' = clients \ {c} /\ closed' = closed \cup {c} /\ cut' = cut \cup {c}
            /\ UNCHANGED buf
         \/ /\ ~Full(c) /\ buf' = [buf EXCEPT ![c] = Append(@, Event(hub))]
            /\ UNCHANGED clients /\ UNCHANGED closed /\ UNCHANGED cut
  BY DEF SendSync, CutOff
<1>4. /\ buf' \in [Clients -> Seq(Events)] /\ (\A d \in Clients : Len(buf'[d]) <= BufSize)
      /\ \A d \in Clients \ {c} : buf'[d] = buf[d]
  <2>1. CASE UNCHANGED buf
    BY <2>1 DEF TypeOK
  <2>2. CASE ~Full(c) /\ buf' = [buf EXCEPT ![c] = Append(@, Event(hub))]
    <3>1. PICK e \in Events : e = Event(hub)
      BY EventType
    <3>2. /\ buf[c] \in Seq(Events) /\ Append(buf[c], e) \in Seq(Events)
          /\ Len(Append(buf[c], e)) <= BufSize
      BY <2>2, HubAssumption DEF TypeOK, Full
    <3>3. buf' = [buf EXCEPT ![c] = Append(buf[c], e)]
      BY <2>2, <3>1
    <3> QED  BY <3>2, <3>3 DEF TypeOK
  <2> QED  BY <1>3, <2>1, <2>2
<1>5. TypeOK'
  BY <1>1, <1>3, <1>4 DEF TypeOK
<1>6. OnlyCutClientsPanic'
  BY <1>1, <1>3 DEF OnlyCutClientsPanic, Crashed
<1>7. \A d \in Clients \ {c} : Fresh(d) => Fresh(d)'
  BY <1>3, <1>4 DEF Fresh
<1>8. RegisteredOnce'
  BY <1>1, <1>2, <1>3, <1>7, TailOrder DEF RegisteredOnce, Crashed, Met
<1>9. LeavesLast'
  <2>1. /\ \A d \in Clients : InInbox("sync", d)' => InInbox("sync", d)
        /\ \A d \in Clients : \A i \in 1 .. Len(inbox') :
              inbox'[i] = Msg("unregister", d) =>
                 /\ reader[d] = "left"
                 /\ \A j \in i .. Len(inbox') : inbox'[j] # Msg("sync", d)
    BY <1>1, TailOrder DEF Crashed
  <2> QED  BY <1>1, <1>3, <2>1 DEF LeavesLast, Crashed, Met
<1>10. OneBidQueued'
  BY <1>1, TailOrder DEF OneBidQueued
<1> QED  BY <1>2, <1>5, <1>6, <1>8, <1>9, <1>10

\* The deferred function of run.
LEMMA StopWiring ==
    ASSUME Wiring, CloseDone \/ CloseClients \/ DrainEnds
    PROVE  Wiring'
<1> USE DEF Wiring
<1>1. /\ UNCHANGED inbox /\ UNCHANGED buf /\ UNCHANGED slow /\ UNCHANGED cut
      /\ UNCHANGED conn /\ UNCHANGED reader /\ UNCHANGED writer /\ UNCHANGED seen
      /\ clients' \cup closed' = clients \cup closed /\ clients' \subseteq clients
      /\ clients' \cap closed' = {}
  BY DEF CloseDone, CloseClients, DrainEnds, peers, OnlyCutClientsPanic
<1>2. /\ hub' \in Hubs /\ hub'.version = hub.version
      /\ \/ hub.st = "stopping" /\ hub'.st = "closing" /\ UNCHANGED closed
         \/ hub.st \in {"closing", "draining"} /\ hub'.st \in {"draining", "dead"}
  BY DEF CloseDone, CloseClients, DrainEnds, TypeOK, Hubs
<1>3. TypeOK'
  BY <1>1, <1>2 DEF TypeOK
<1>4. OnlyCutClientsPanic'
  BY <1>1, <1>2 DEF OnlyCutClientsPanic, Crashed
<1>5. \A c \in Clients : /\ Fresh(c) => Fresh(c)'
                         /\ \A k : InInbox(k, c)' <=> InInbox(k, c)
  BY <1>1 DEF Fresh, InInbox
<1>6. RegisteredOnce'
  BY <1>1, <1>2, <1>5 DEF RegisteredOnce, Crashed, Met
<1>7. LeavesLast'
  BY <1>1, <1>2, <1>5 DEF LeavesLast, Crashed, Met
<1>8. OneBidQueued'
  BY <1>1, <1>2 DEF OneBidQueued
<1> QED  BY <1>3, <1>4, <1>6, <1>7, <1>8

\* A registration that came too late: the connection is closed.
LEMMA DrainWiring == ASSUME Wiring, Drain PROVE Wiring'
<1> USE DEF Wiring
<1>1. /\ hub.st = "draining" /\ inbox # <<>> /\ inbox' = Tail(inbox)
      /\ inbox' \in Seq(Msgs) /\ Len(inbox') <= InboxSize
      /\ UNCHANGED hub /\ UNCHANGED clients /\ UNCHANGED closed /\ UNCHANGED buf
      /\ UNCHANGED reader /\ UNCHANGED writer /\ UNCHANGED seen /\ UNCHANGED slow /\ UNCHANGED cut
  BY TailEffect DEF Drain
<1>2. /\ conn' \in [Clients -> {"none", "open", "closed"}]
      /\ \A d \in Clients : Head(inbox) # Msg("register", d) => conn'[d] = conn[d]
      /\ \A d \in Clients : conn'[d] = "none" => conn[d] = "none"
  BY DEF Drain, TypeOK
<1>3. TypeOK'
  BY <1>1, <1>2 DEF TypeOK
<1>4. OnlyCutClientsPanic'
  BY <1>1 DEF OnlyCutClientsPanic, Crashed
<1>5. RegisteredOnce'
  <2>1. \A d \in Clients : Fresh(d) => Fresh(d)'
    BY <1>1 DEF Fresh
  <2>2. \A d \in Clients : reader[d] = "register" => conn'[d] = conn[d]
    <3>1. \A d \in Clients : Head(inbox) = Msg("register", d) => InInbox("register", d)
      <4>1. Head(inbox) = inbox[1] /\ 1 \in 1 .. Len(inbox)
        BY <1>1, TailEffect
      <4> QED  BY <4>1 DEF InInbox
    <3> QED  BY <1>1, <1>2, <3>1 DEF RegisteredOnce, Crashed
  <2> QED  BY <1>1, <1>2, <2>1, <2>2, TailOrder DEF RegisteredOnce, Crashed, Met
<1>6. LeavesLast'
  <2>1. /\ \A d \in Clients : InInbox("sync", d)' => InInbox("sync", d)
        /\ \A d \in Clients : \A i \in 1 .. Len(inbox') :
              inbox'[i] = Msg("unregister", d) =>
                 /\ reader[d] = "left"
                 /\ \A j \in i .. Len(inbox') : inbox'[j] # Msg("sync", d)
    BY <1>1, TailOrder DEF Crashed
  <2> QED  BY <1>1, <2>1 DEF LeavesLast, Crashed, Met
<1>7. OneBidQueued'
  BY <1>1, TailOrder DEF OneBidQueued
<1> QED  BY <1>3, <1>4, <1>5, <1>6, <1>7

\* What stays of the order of the messages when one more joins.
LEMMA PutOrder ==
    ASSUME Wiring, NEW m \in Msgs, Put(m)
    PROVE  /\ inbox' \in Seq(Msgs) /\ Len(inbox') <= InboxSize /\ ~Crashed
           /\ \A k : \A c \in Clients : InInbox(k, c)' => InInbox(k, c) \/ m = Msg(k, c)
           /\ \A c \in Clients : \A i, j \in 1 .. Len(inbox') :
                 inbox'[i] = Msg("register", c) /\ inbox'[j] = Msg("register", c) =>
                    i = j \/ (m = Msg("register", c) /\ InInbox("register", c))
           /\ \A c \in Clients : \A i \in 1 .. Len(inbox') : inbox'[i] = Msg("unregister", c) =>
                 /\ reader[c] = "left" \/ m = Msg("unregister", c)
                 /\ \A j \in i .. Len(inbox') : inbox'[j] = Msg("sync", c) =>
                       m = Msg("sync", c) /\ reader[c] = "left"
           /\ m.kind # "bid" => \A i \in 1 .. Len(inbox') : inbox'[i].kind = "bid" =>
                 /\ hub.version < MaxVersion
                 /\ \A j \in 1 .. Len(inbox') : inbox'[j].kind = "bid" => i = j
<1> USE DEF Wiring
<1>1. /\ inbox' \in Seq(Msgs) /\ Len(inbox') <= InboxSize
      /\ Len(inbox) \in Nat /\ Len(inbox') = Len(inbox) + 1 /\ inbox'[Len(inbox) + 1] = m
      /\ \A i \in 1 .. Len(inbox) : inbox'[i] = inbox[i]
  BY PutEffect
<1>2. ~Crashed
  BY DEF Put
<1>3. \A k : \A c \in Clients : InInbox(k, c)' => InInbox(k, c) \/ m = Msg(k, c)
  BY <1>1 DEF InInbox
<1>4. ASSUME NEW c \in Clients, NEW i \in 1 .. Len(inbox'), NEW j \in 1 .. Len(inbox'),
             inbox'[i] = Msg("register", c), inbox'[j] = Msg("register", c)
      PROVE  i = j \/ (m = Msg("register", c) /\ InInbox("register", c))
  BY <1>1, <1>4 DEF RegisteredOnce, InInbox
<1>5. ASSUME NEW c \in Clients, NEW i \in 1 .. Len(inbox'), inbox'[i] = Msg("unregister", c)
      PROVE  /\ reader[c] = "left" \/ m = Msg("unregister", c)
             /\ \A j \in i .. Len(inbox') : inbox'[j] = Msg("sync", c) =>
                   m = Msg("sync", c) /\ reader[c] = "left"
  <2>1. CASE i = Len(inbox) + 1
    BY <1>1, <1>5, <2>1 DEF Msg
  <2>2. CASE i \in 1 .. Len(inbox)
    <3>1. /\ inbox[i] = Msg("unregister", c) /\ reader[c] = "left"
          /\ \A j \in i .. Len(inbox) : inbox[j] # Msg("sync", c)
      BY <1>1, <1>2, <1>5, <2>2 DEF LeavesLast
    <3>2. ASSUME NEW j \in i .. Len(inbox'), inbox'[j] = Msg("sync", c)
          PROVE  m = Msg("sync", c)
      <4>1. CASE j = Len(inbox) + 1
        BY <1>1, <3>2, <4>1
      <4>2. CASE j # Len(inbox) + 1
        <5>1. j \in i .. Len(inbox) /\ j \in 1 .. Len(inbox)
          BY <1>1, <2>2, <4>2
        <5> QED  BY <1>1, <3>1, <3>2, <5>1
      <4> QED  BY <4>1, <4>2
    <3> QED  BY <3>1, <3>2
  <2> QED  BY <1>1, <2>1, <2>2
<1>6. ASSUME m.kind # "bid", NEW i \in 1 .. Len(inbox'), inbox'[i].kind = "bid"
      PROVE  /\ hub.version < MaxVersion
             /\ \A j \in 1 .. Len(inbox') : inbox'[j].kind = "bid" => i = j
  <2>1. \A j \in 1 .. Len(inbox') : inbox'[j].kind = "bid" =>
           j \in 1 .. Len(inbox) /\ inbox[j].kind = "bid"
    BY <1>1, <1>6
  <2> QED  BY <1>6, <2>1 DEF OneBidQueued
<1> QED  BY <1>1, <1>2, <1>3, <1>4, <1>5, <1>6

\* The rest of the world sends a bid, a notice or the shutdown.
LEMMA PostWiring == ASSUME Wiring, NEW k \in Kinds, Post(k) PROVE Wiring'
<1> USE DEF Wiring
<1> DEFINE m == Msg(k, NoClient)
<1>1. /\ m \in Msgs /\ m.kind = k
      /\ \A q : \A c \in Clients : m # Msg(q, c)
  BY HubAssumption DEF Msg, Msgs
<1>2. /\ Put(m)
      /\ UNCHANGED hub /\ UNCHANGED clients /\ UNCHANGED closed /\ UNCHANGED buf
      /\ UNCHANGED conn /\ UNCHANGED reader /\ UNCHANGED writer /\ UNCHANGED seen
      /\ UNCHANGED slow /\ UNCHANGED cut
  BY DEF Post, peers
<1> HIDE DEF m
<1>3. /\ inbox' \in Seq(Msgs) /\ Len(inbox') <= InboxSize /\ ~Crashed
      /\ \A q : \A c \in Clients : InInbox(q, c)' => InInbox(q, c)
      /\ \A c \in Clients : \A i, j \in 1 .. Len(inbox') :
            inbox'[i] = Msg("register", c) /\ inbox'[j] = Msg("register", c) => i = j
      /\ \A c \in Clients : \A i \in 1 .. Len(inbox') : inbox'[i] = Msg("unregister", c) =>
            /\ reader[c] = "left"
            /\ \A j \in i .. Len(inbox') : inbox'[j] # Msg("sync", c)
  BY <1>1, <1>2, PutOrder
<1>4. TypeOK'
  BY <1>2, <1>3 DEF TypeOK
<1>5. OnlyCutClientsPanic'
  BY <1>2 DEF OnlyCutClientsPanic, Crashed
<1>6. RegisteredOnce'
  <2>1. \A c \in Clients : Fresh(c) => Fresh(c)'
    BY <1>2 DEF Fresh
  <2> QED  BY <1>2, <1>3, <2>1 DEF RegisteredOnce, Crashed, Met
<1>7. LeavesLast'
  BY <1>2, <1>3 DEF LeavesLast, Crashed, Met
<1>8. OneBidQueued'
  <2>1. CASE k # "bid"
    BY <1>1, <1>2, <2>1, PutOrder DEF OneBidQueued
  <2>2. CASE k = "bid"
    <3>1. /\ hub.version < MaxVersion
          /\ \A i \in 1 .. Len(inbox) : inbox[i].kind # "bid"
      BY <2>2 DEF Post, Queued
    <3>2. /\ Len(inbox) \in Nat /\ Len(inbox') = Len(inbox) + 1
          /\ \A i \in 1 .. Len(inbox) : inbox'[i] = inbox[i]
      BY <1>1, <1>2, PutEffect
    <3>3. \A i \in 1 .. Len(inbox') : inbox'[i].kind = "bid" => i = Len(inbox) + 1
      BY <3>1, <3>2
    <3> QED  BY <1>2, <3>1, <3>3 DEF OneBidQueued
  <2> QED  BY <2>1, <2>2
<1> QED  BY <1>4, <1>5, <1>6, <1>7, <1>8

\* A connection is upgraded, its reader gets a request or an end, a victim's
\* connection is closed: nothing else moves.
LEMMA ReaderWiring ==
    ASSUME Wiring, NEW c \in Clients, Upgrade(c) \/ ReadSync(c) \/ ReadFails(c) \/ CloseVictim(c)
    PROVE  Wiring'
<1> USE DEF Wiring
<1>1. /\ UNCHANGED hub /\ UNCHANGED inbox /\ UNCHANGED clients /\ UNCHANGED closed
      /\ UNCHANGED buf /\ UNCHANGED writer /\ UNCHANGED seen /\ UNCHANGED slow /\ UNCHANGED cut
  BY DEF Upgrade, ReadSync, ReadFails, CloseVictim
<1>2. /\ reader' \in [Clients -> {"off", "register", "on", "sync", "leave", "left", "lost"}]
      /\ conn' \in [Clients -> {"none", "open", "closed"}]
      /\ \A d \in Clients \ {c} : reader'[d] = reader[d] /\ conn'[d] = conn[d]
  BY DEF Upgrade, ReadSync, ReadFails, CloseVictim, TypeOK
<1>3. \/ /\ Fresh(c) /\ reader[c] = "off" /\ conn[c] = "none" /\ ~Crashed
         /\ reader'[c] = "register" /\ conn'[c] = "open"
      \/ /\ reader[c] = "on" /\ reader'[c] \in {"sync", "leave"} /\ conn'[c] = conn[c]
      \/ /\ c \in slow /\ conn[c] = "open" /\ conn'[c] = "closed" /\ reader'[c] = reader[c]
  BY DEF Upgrade, ReadSync, ReadFails, CloseVictim, TypeOK, RegisteredOnce
<1>4. /\ \A d \in Clients : Fresh(d)' <=> Fresh(d)
      /\ \A k : \A d \in Clients : InInbox(k, d)' <=> InInbox(k, d)
  BY <1>1 DEF Fresh, InInbox
<1>5. TypeOK'
  BY <1>1, <1>2 DEF TypeOK
<1>6. OnlyCutClientsPanic'
  BY <1>1 DEF OnlyCutClientsPanic, Crashed
<1>7. RegisteredOnce'
  <2>1. ~Fresh(c) \/ (~InInbox("register", c) /\ reader'[c] = "register" /\ conn'[c] = "open" /\ ~Crashed)
    BY <1>3 DEF RegisteredOnce, Fresh, Met
  <2>2. \A i, j \in 1 .. Len(inbox) : \A d \in Clients :
           inbox[i] = Msg("register", d) /\ inbox[j] = Msg("register", d) => i = j
    BY DEF RegisteredOnce
  <2> QED  BY <1>1, <1>2, <1>3, <1>4, <2>1, <2>2 DEF RegisteredOnce, Crashed, Met
<1>8. LeavesLast'
  BY <1>1, <1>2, <1>3, <1>4 DEF LeavesLast, Crashed, Met, Fresh
<1>9. OneBidQueued'
  BY <1>1 DEF OneBidQueued
<1> QED  BY <1>5, <1>6, <1>7, <1>8, <1>9

\* The writer of a registered connection writes, fails or says goodbye.
LEMMA WriterWiring ==
    ASSUME Wiring, NEW c \in Clients, Write(c) \/ WriteFails(c) \/ Goodbye(c)
    PROVE  Wiring'
<1> USE DEF Wiring
<1>1. /\ UNCHANGED hub /\ UNCHANGED inbox /\ UNCHANGED clients /\ UNCHANGED closed
      /\ UNCHANGED reader /\ UNCHANGED slow /\ UNCHANGED cut /\ writer[c] = "on"
  BY DEF Write, WriteFails, Goodbye
<1>2. /\ buf' \in [Clients -> Seq(Events)] /\ (\A d \in Clients : Len(buf'[d]) <= BufSize)
      /\ \A d \in Clients \ {c} : buf'[d] = buf[d]
  <2>1. \A b \in Seq(Events) : b # <<>> => Tail(b) \in Seq(Events) /\ Len(Tail(b)) <= Len(b)
                                            /\ Len(b) \in Nat /\ Len(Tail(b)) \in Nat
    OBVIOUS
  <2>2. buf' = buf \/ (buf[c] # <<>> /\ buf' = [buf EXCEPT ![c] = Tail(buf[c])])
    BY DEF Write, WriteFails, Goodbye, TypeOK
  <2>3. CASE buf' = buf
    BY <2>3 DEF TypeOK
  <2>4. CASE buf[c] # <<>> /\ buf' = [buf EXCEPT ![c] = Tail(buf[c])]
    <3>1. Tail(buf[c]) \in Seq(Events) /\ Len(Tail(buf[c])) <= BufSize
      BY <2>1, <2>4, HubAssumption DEF TypeOK
    <3> QED  BY <2>4, <3>1 DEF TypeOK
  <2> QED  BY <2>2, <2>3, <2>4
<1>3. seen' \in [Clients -> Events] /\ \A d \in Clients \ {c} : seen'[d] = seen[d]
  <2>1. \A b \in Seq(Events) : b # <<>> => Head(b) \in Events
    OBVIOUS
  <2>2. UNCHANGED seen \/ (buf[c] # <<>> /\ seen' = [seen EXCEPT ![c] = Head(buf[c])])
    BY DEF Write, WriteFails, Goodbye
  <2>3. buf[c] \in Seq(Events) /\ seen \in [Clients -> Events]
    BY DEF TypeOK
  <2>4. CASE buf[c] # <<>> /\ seen' = [seen EXCEPT ![c] = Head(buf[c])]
    <3>1. Head(buf[c]) \in Events
      BY <2>1, <2>3, <2>4
    <3> QED  BY <2>3, <2>4, <3>1
  <2> QED  BY <2>2, <2>3, <2>4
<1>4. /\ conn' \in [Clients -> {"none", "open", "closed"}]
      /\ writer' \in [Clients -> {"off", "on", "failed", "bye"}]
      /\ \A d \in Clients \ {c} : conn'[d] = conn[d] /\ writer'[d] = writer[d]
      /\ conn'[c] = conn[c] \/ conn'[c] = "closed"
  BY DEF Write, WriteFails, Goodbye, TypeOK
<1>5. /\ Met(c) /\ ~Fresh(c) /\ conn[c] # "none"
      /\ InInbox("register", c) => Crashed
  BY <1>1 DEF RegisteredOnce, Fresh
<1>6. /\ \A d \in Clients \ {c} : Fresh(d)' <=> Fresh(d)
      /\ \A k : \A d \in Clients : InInbox(k, d)' <=> InInbox(k, d)
  BY <1>1, <1>2, <1>3, <1>4 DEF Fresh, InInbox
<1>7. TypeOK'
  BY <1>1, <1>2, <1>3, <1>4 DEF TypeOK
<1>8. OnlyCutClientsPanic'
  BY <1>1 DEF OnlyCutClientsPanic, Crashed
<1>9. RegisteredOnce'
  <2>1. \A i, j \in 1 .. Len(inbox) : \A d \in Clients :
           inbox[i] = Msg("register", d) /\ inbox[j] = Msg("register", d) => i = j
    BY DEF RegisteredOnce
  <2> QED  BY <1>1, <1>4, <1>5, <1>6, <2>1 DEF RegisteredOnce, Crashed, Met
<1>10. LeavesLast'
  BY <1>1, <1>6 DEF LeavesLast, Crashed, Met
<1>11. OneBidQueued'
  BY <1>1 DEF OneBidQueued
<1> QED  BY <1>7, <1>8, <1>9, <1>10, <1>11

\* A connection's own message: its registration, a request for SYNC, its leaving.
LEMMA SenderWiring ==
    ASSUME Wiring, NEW c \in Clients, Register(c) \/ RequestSync(c) \/ Leave(c)
    PROVE  Wiring'
<1> USE DEF Wiring
<1>1. /\ UNCHANGED hub /\ UNCHANGED clients /\ UNCHANGED closed
      /\ UNCHANGED buf /\ UNCHANGED writer /\ UNCHANGED seen /\ UNCHANGED slow /\ UNCHANGED cut
  BY DEF Register, RequestSync, Leave
<1>2. /\ reader' \in [Clients -> {"off", "register", "on", "sync", "leave", "left", "lost"}]
      /\ conn' \in [Clients -> {"none", "open", "closed"}]
      /\ \A d \in Clients \ {c} : reader'[d] = reader[d] /\ conn'[d] = conn[d]
  BY DEF Register, RequestSync, Leave, TypeOK
<1>3. ~Crashed /\ \A k : Msg(k, c).kind = k /\ Msg(k, c).client = c
  BY DEF Register, RequestSync, Leave, Put, Refused, Msg
<1>4. \/ /\ reader[c] = "register" /\ Fresh(c) /\ conn[c] = "open" /\ reader'[c] = "off"
         /\ ~InInbox("register", c)
         /\ \/ Put(Msg("register", c)) /\ conn'[c] = "open"
            \/ UNCHANGED inbox /\ conn'[c] = "closed"
      \/ /\ reader[c] = "sync" /\ reader'[c] = "on" /\ conn'[c] = conn[c]
         /\ Put(Msg("sync", c)) \/ UNCHANGED inbox
      \/ /\ reader[c] = "leave" /\ conn'[c] = "closed"
         /\ \/ Put(Msg("unregister", c)) /\ reader'[c] = "left"
            \/ UNCHANGED inbox /\ reader'[c] = "lost"
  BY <1>3 DEF Register, RequestSync, Leave, Refused, TypeOK, RegisteredOnce
<1>5. \/ UNCHANGED inbox
      \/ \E k \in {"register", "sync", "unregister"} : Put(Msg(k, c))
  BY <1>4
<1>6. \A k \in {"register", "sync", "unregister"} : Msg(k, c) \in Msgs
  BY DEF Msg, Msgs
<1>7. \A d \in Clients : Fresh(d)' <=> Fresh(d)
  BY <1>1 DEF Fresh
<1>8. inbox' \in Seq(Msgs) /\ Len(inbox') <= InboxSize
  BY <1>5, <1>6, PutOrder DEF TypeOK
<1>9. TypeOK'
  BY <1>1, <1>2, <1>8 DEF TypeOK
<1>10. OnlyCutClientsPanic'
  BY <1>1 DEF OnlyCutClientsPanic, Crashed
<1>11. OneBidQueued'
  BY <1>1, <1>3, <1>5, <1>6, PutOrder DEF OneBidQueued
<1>12. RegisteredOnce'
  <2>1. /\ \A d \in Clients : InInbox("register", d)' =>
              InInbox("register", d) \/ (d = c /\ reader[c] = "register" /\ conn'[c] = "open")
        /\ \A d \in Clients : \A i, j \in 1 .. Len(inbox') :
              inbox'[i] = Msg("register", d) /\ inbox'[j] = Msg("register", d) => i = j
    <3>1. CASE UNCHANGED inbox
      BY <3>1 DEF InInbox, RegisteredOnce
    <3>2. CASE reader[c] = "register" /\ conn'[c] = "open" /\ Put(Msg("register", c))
      <4>1. \A d \in Clients : Msg("register", c) = Msg("register", d) => d = c
        BY DEF Msg
      <4>2. ~InInbox("register", c)
        BY <1>4, <3>2
      <4> QED  BY <1>6, <3>2, <4>1, <4>2, PutOrder
    <3>3. CASE \E k \in {"sync", "unregister"} : Put(Msg(k, c))
      <4>1. \A d \in Clients : \A k \in {"sync", "unregister"} : Msg(k, c) # Msg("register", d)
        BY DEF Msg
      <4> QED  BY <1>6, <3>3, <4>1, PutOrder
    <3> QED  BY <1>4, <3>1, <3>2, <3>3
  <2>2. InInbox("register", c) => reader[c] = "off"
    BY <1>3 DEF RegisteredOnce
  <2> QED  BY <1>1, <1>2, <1>3, <1>4, <1>7, <2>1, <2>2 DEF RegisteredOnce, Crashed, Met
<1>13. LeavesLast'
  <2>1. /\ \A d \in Clients : InInbox("sync", d)' => InInbox("sync", d) \/ (d = c /\ reader[c] = "sync")
        /\ \A d \in Clients : \A i \in 1 .. Len(inbox') : inbox'[i] = Msg("unregister", d) =>
              /\ reader[d] = "left" \/ (d = c /\ reader'[c] = "left")
              /\ \A j \in i .. Len(inbox') : inbox'[j] # Msg("sync", d)
    <3>1. CASE UNCHANGED inbox
      BY <1>3, <3>1 DEF InInbox, LeavesLast
    <3>2. CASE reader[c] = "register" /\ Put(Msg("register", c))
      <4>1. \A d \in Clients : \A k \in {"sync", "unregister"} : Msg("register", c) # Msg(k, d)
        BY DEF Msg
      <4> QED  BY <1>6, <3>2, <4>1, PutOrder
    <3>3. CASE reader[c] = "sync" /\ Put(Msg("sync", c))
      <4>1. \A d \in Clients : /\ Msg("sync", c) # Msg("unregister", d)
                               /\ Msg("sync", c) = Msg("sync", d) => d = c
        BY DEF Msg
      <4> QED  BY <1>6, <3>3, <4>1, PutOrder
    <3>4. CASE reader'[c] = "left" /\ Put(Msg("unregister", c))
      <4>1. \A d \in Clients : /\ Msg("unregister", c) # Msg("sync", d)
                               /\ Msg("unregister", c) = Msg("unregister", d) => d = c
        BY DEF Msg
      <4> QED  BY <1>6, <3>4, <4>1, PutOrder
    <3> QED  BY <1>4, <3>1, <3>2, <3>3, <3>4
  <2>2. InInbox("sync", c) => Met(c)
    BY <1>3 DEF LeavesLast
  <2>3. \A d \in Clients : reader[d] = "left" => reader'[d] = "left"
    BY <1>2, <1>4
  <2>4. c \in closed => hub.st \in {"draining", "dead"} \/ c \in cut
    BY <1>3, <1>4 DEF LeavesLast, Fresh
  <2> QED  BY <1>1, <1>2, <1>3, <1>4, <2>1, <2>2, <2>3, <2>4 DEF LeavesLast, Crashed, Met
<1> QED  BY <1>9, <1>10, <1>11, <1>12, <1>13

-----------------------------------------------------------------------------
(* What the clients are told: one lemma per group of actions.               *)

Told == ClientIsUpToDate /\ Trails

\* The clients that ClientIsUpToDate is about.
Follower(c) == c \in clients \/ (c \in closed \ cut /\ reader[c] # "left")

\* A step that sends and writes nothing, and brings back nobody.
LEMMA QuietTold ==
    ASSUME HInv, hub'.version = hub.version, hub'.status = hub.status, UNCHANGED slow,
           \A c \in Clients : writer'[c] = "on" =>
              /\ writer[c] = "on" /\ buf'[c] = buf[c] /\ seen'[c] = seen[c]
              /\ Follower(c)' => Follower(c)
    PROVE  Told'
<1>1. Trails'
  BY DEF HInv, Trails, Newest
<1>2. ClientIsUpToDate'
  BY DEF HInv, ClientIsUpToDate, Newest, Follower
<1> QED  BY <1>1, <1>2 DEF Told

\* A client that misses nothing is at the actor's version, any other one behind it.
LEMMA NextFollows ==
    ASSUME HInv, NEW c \in clients, writer[c] = "on", NEW e \in Events,
           hub.version <= e.version, e.version <= hub.version + 1
    PROVE  Follows(Newest(c), e, c \in slow)
<1>1. c \in Clients /\ hub.version \in Nat /\ e.version \in Nat /\ Newest(c).version \in Nat
      /\ Newest(c).version <= hub.version
  BY HubAssumption DEF HInv, Wiring, TypeOK, Trails, Hubs, Events
<1>2. c \notin slow => Newest(c).version = hub.version
  BY <1>1 DEF HInv, ClientIsUpToDate
<1> QED  BY <1>1, <1>2 DEF Follows

\* One event of version v and status s joins the channel of a client.
LEMMA SendTold ==
    ASSUME HInv, NEW c \in clients, writer[c] = "on", NEW e \in Events,
           hub.version <= e.version, e.version <= hub.version + 1,
           buf'[c] = Append(buf[c], e), seen'[c] = seen[c], c \in slow' <=> c \in slow
    PROVE  Chain(seen[c], buf[c], c \in slow)' /\ Newest(c)' = e
<1>1. /\ c \in Clients /\ seen[c] \in Events /\ buf[c] \in Seq(Events)
      /\ Chain(seen[c], buf[c], c \in slow) /\ (c \in slow) \in BOOLEAN
  BY DEF HInv, Wiring, TypeOK, Trails
<1>2. Newest(c) = Latest(seen[c], buf[c]) /\ Newest(c)' = Latest(seen'[c], buf'[c])
  BY DEF Newest, Latest
<1>3. Follows(Latest(seen[c], buf[c]), e, c \in slow)
  BY <1>2, NextFollows
<1>4. Chain(seen[c], Append(buf[c], e), c \in slow) /\ Latest(seen[c], Append(buf[c], e)) = e
  <2>1. PICK late \in BOOLEAN : late = (c \in slow)
    BY <1>1
  <2>2. Chain(seen[c], buf[c], late) /\ Follows(Latest(seen[c], buf[c]), e, late)
    BY <1>1, <1>3, <2>1
  <2>3. Chain(seen[c], Append(buf[c], e), late) /\ Latest(seen[c], Append(buf[c], e)) = e
    BY <1>1, <2>2, ChainAppend
  <2> QED  BY <2>1, <2>3
<1>5. (c \in slow)' = (c \in slow)
  OBVIOUS
<1> QED  BY <1>2, <1>4, <1>5

\* Bids, notices and the stop of the loop.
LEMMA LoopTold ==
    ASSUME HInv, Announces
    PROVE  Told'
<1> USE DEF Announces
<1>1. CASE UNCHANGED buf /\ UNCHANGED slow /\ hub'.version = hub.version /\ hub'.status = hub.status
  <2>1. \A c \in Clients : Follower(c)' => Follower(c)
    BY DEF Follower
  <2> QED  BY <1>1, <2>1, QuietTold
<1>2. CASE Broadcast(hub')
  <2>1. PICK e \in Events : e = Event(hub')
    BY <1>2, BroadcastEffect DEF HInv, Wiring
  <2>2. e.version = hub'.version /\ e.status = hub'.status
    BY <2>1 DEF Event
  <2>3. /\ slow \subseteq slow' /\ slow' \subseteq slow \cup clients
        /\ \A c \in Clients :
              \/ buf'[c] = buf[c] /\ (c \in clients => c \in slow')
              \/ /\ c \in clients /\ (c \in slow' <=> c \in slow)
                 /\ buf'[c] = Append(buf[c], e)
    BY <1>2, <2>1, BroadcastEffect DEF HInv, Wiring
  <2>4. /\ hub.version \in Nat /\ hub'.version \in Nat /\ hub.version >= 1
        /\ hub.version <= hub'.version
    BY HubAssumption DEF HInv, Wiring, TypeOK, Hubs
  <2>5. ASSUME NEW c \in Clients, writer'[c] = "on"
        PROVE  /\ Chain(seen[c], buf[c], c \in slow)'
               /\ Newest(c).version' \in 1 .. hub'.version
               /\ c \in clients' /\ c \notin slow' =>
                     Newest(c).version' = hub'.version /\ Newest(c).status' = hub'.status
    <3>1. /\ writer[c] = "on" /\ seen'[c] = seen[c]
          /\ Chain(seen[c], buf[c], c \in slow) /\ Newest(c).version \in 1 .. hub.version
      BY <2>5 DEF HInv, Trails
    <3>2. CASE buf'[c] = buf[c] /\ (c \in clients => c \in slow')
      <4>1. Chain(seen[c], buf[c], c \in slow')
        BY <2>3, <3>1 DEF Chain, Follows
      <4>2. Newest(c)' = Newest(c)
        BY <3>1, <3>2 DEF Newest
      <4> QED  BY <2>4, <3>1, <3>2, <4>1, <4>2
    <3>3. CASE /\ c \in clients /\ (c \in slow' <=> c \in slow)
               /\ buf'[c] = Append(buf[c], e)
      <4>1. Chain(seen[c], buf[c], c \in slow)' /\ Newest(c)' = e
        BY <2>2, <3>1, <3>3, SendTold
      <4> QED  BY <2>2, <2>4, <4>1
    <3> QED  BY <2>3, <3>2, <3>3
  <2>6. Trails'
    BY <2>5 DEF Trails
  <2>7. \A c \in Clients : c \in closed \ cut => reader[c] = "left"
    BY DEF HInv, Wiring, LeavesLast, Crashed
  <2>8. ClientIsUpToDate'
    BY <2>5, <2>7 DEF ClientIsUpToDate
  <2> QED  BY <2>6, <2>8 DEF Told
<1> QED  BY <1>1, <1>2

\* A new client's first event is its SYNC.
LEMMA RegisterTold ==
    ASSUME HInv, NEW c \in Clients, HandleRegister(c)
    PROVE  Told'
<1>1. /\ Fresh(c) /\ buf'[c] = <<Event(hub)>>
  BY RegisterWiring DEF HInv
<1>2. /\ UNCHANGED hub /\ UNCHANGED seen /\ UNCHANGED slow /\ UNCHANGED cut /\ UNCHANGED closed
      /\ clients' = clients \cup {c} /\ reader'[c] = "on"
      /\ \A d \in Clients \ {c} : /\ buf'[d] = buf[d] /\ writer'[d] = writer[d]
                                  /\ reader'[d] = reader[d]
  BY DEF HandleRegister, HInv, Wiring, TypeOK
<1>3. PICK e \in Events : e = Event(hub)
  BY EventType DEF HInv, Wiring
<1>4. e.version = hub.version /\ e.status = hub.status /\ hub.version \in 1 .. hub.version
  BY <1>3, HubAssumption DEF Event, HInv, Wiring, TypeOK, Hubs
<1>5. Len(<<e>>) = 1 /\ <<e>>[1] = e /\ <<e>> # <<>>
  OBVIOUS
<1>6. Chain(seen[c], buf[c], c \in slow)' /\ Newest(c)' = e
  <2>1. seen'[c] = Nothing /\ buf'[c] = <<e>>
    BY <1>1, <1>2, <1>3 DEF Fresh
  <2> QED  BY <1>5, <2>1 DEF Chain, Newest
<1>7. Trails'
  BY <1>2, <1>4, <1>6 DEF HInv, Trails, Newest
<1>8. ClientIsUpToDate'
  BY <1>2, <1>4, <1>6 DEF HInv, ClientIsUpToDate, Newest
<1> QED  BY <1>7, <1>8 DEF Told

\* A SYNC on request, or the client is cut off.
LEMMA SyncTold ==
    ASSUME HInv, NEW c \in clients,
           UNCHANGED hub, UNCHANGED conn, UNCHANGED reader, UNCHANGED writer, UNCHANGED seen,
           SendSync(c)
    PROVE  Told'
<1>1. CASE CutOff(c)
  <2>1. \A d \in Clients : Follower(d)' => Follower(d)
    BY <1>1 DEF CutOff, Follower
  <2> QED  BY <1>1, <2>1, QuietTold DEF CutOff, SendSync
<1>2. CASE /\ buf' = [buf EXCEPT ![c] = Append(@, Event(hub))]
           /\ UNCHANGED <<clients, closed, cut>>
  <2>1. PICK e \in Events : e = Event(hub)
    BY EventType DEF HInv, Wiring
  <2>2. /\ e.version = hub.version /\ e.status = hub.status /\ hub.version \in Nat
        /\ hub.version \in 1 .. hub.version
    BY <2>1, HubAssumption DEF Event, HInv, Wiring, TypeOK, Hubs
  <2>3. /\ c \in Clients /\ buf'[c] = Append(buf[c], e) /\ UNCHANGED slow
        /\ \A d \in Clients \ {c} : buf'[d] = buf[d]
    BY <1>2, <2>1 DEF HInv, Wiring, TypeOK, SendSync
  <2>4. writer[c] = "on" => Chain(seen[c], buf[c], c \in slow)' /\ Newest(c)' = e
    <3>1. hub.version <= e.version /\ e.version <= hub.version + 1
      BY <2>2
    <3>2. c \in slow' <=> c \in slow
      BY <2>3
    <3> QED  BY <2>3, <3>1, <3>2, SendTold
  <2>5. Trails'
    BY <2>2, <2>3, <2>4 DEF HInv, Trails, Newest
  <2>6. ClientIsUpToDate'
    BY <1>2, <2>2, <2>3, <2>4 DEF HInv, ClientIsUpToDate, Newest
  <2> QED  BY <2>5, <2>6 DEF Told
<1> QED  BY <1>1, <1>2 DEF SendSync

\* The head of the channel reaches the browser.
LEMMA WriteTold == ASSUME HInv, NEW c \in Clients, Write(c) PROVE Told'
<1>1. /\ UNCHANGED hub /\ UNCHANGED clients /\ UNCHANGED closed /\ UNCHANGED reader
      /\ UNCHANGED writer /\ UNCHANGED slow /\ UNCHANGED cut
      /\ writer[c] = "on" /\ buf[c] # <<>>
      /\ seen'[c] = Head(buf[c]) /\ buf'[c] = Tail(buf[c])
      /\ \A d \in Clients \ {c} : seen'[d] = seen[d] /\ buf'[d] = buf[d]
  BY DEF Write, HInv, Wiring, TypeOK
<1>2. seen[c] \in Events /\ buf[c] \in Seq(Events) /\ (c \in slow) \in BOOLEAN
      /\ Chain(seen[c], buf[c], c \in slow)
  BY <1>1 DEF HInv, Wiring, TypeOK, Trails
<1>3. /\ Chain(Head(buf[c]), Tail(buf[c]), c \in slow)
      /\ Latest(Head(buf[c]), Tail(buf[c])) = Latest(seen[c], buf[c])
  BY <1>1, <1>2, ChainTail
<1>4. Newest(c)' = Newest(c) /\ Chain(seen[c], buf[c], c \in slow)'
  BY <1>1, <1>3 DEF Newest, Latest
<1>5. Trails'
  BY <1>1, <1>4 DEF HInv, Trails, Newest
<1>6. ClientIsUpToDate'
  <2>1. \A d \in Clients : Newest(d)' = Newest(d) /\ (writer'[d] = "on" <=> writer[d] = "on")
    BY <1>1, <1>4 DEF Newest
  <2> QED  BY <1>1, <2>1 DEF HInv, ClientIsUpToDate
<1> QED  BY <1>5, <1>6 DEF Told

-----------------------------------------------------------------------------
(* Every step.                                                              *)

\* The invariant after any step of the actor or of a connection.
LEMMA NextHInv == ASSUME HInv, [Next]_vars PROVE HInv'
<1> SUFFICES Wiring' /\ Told'
  BY DEF HInv, Told
<1> USE DEF HInv
<1>1. ASSUME NEW k \in Kinds, Post(k) PROVE Wiring' /\ Told'
  <2>1. \A c \in Clients : Follower(c)' => Follower(c)
    BY <1>1 DEF Post, Follower, peers
  <2> QED  BY <1>1, <2>1, PostWiring, QuietTold DEF Post, peers
<1>2. ASSUME HandleBid \/ HandleActivate \/ HandleEnd \/ StopLoop PROVE Wiring' /\ Told'
  BY <1>2, LoopAnnounces, LoopWiring, LoopTold
<1>3. ASSUME NEW c \in Clients, HandleRegister(c) PROVE Wiring' /\ Told'
  BY <1>3, RegisterWiring, RegisterTold
<1>4. ASSUME NEW c \in Clients, HandleUnregister(c) PROVE Wiring' /\ Told'
  <2>1. reader[c] = "left" /\ Wiring'
    BY <1>4, UnregisterWiring
  <2>2. \A d \in Clients : Follower(d)' => Follower(d)
    BY <1>4, <2>1 DEF HandleUnregister, Follower, peers
  <2> QED  BY <1>4, <2>1, <2>2, QuietTold DEF HandleUnregister, peers
<1>5. ASSUME NEW c \in Clients, HandleSync(c) PROVE Wiring' /\ Told'
  <2>1. Take("sync", c)
    BY <1>5 DEF HandleSync
  <2>2. CASE c \in closed /\ Panic
    <3>1. Wiring'
      BY <2>1, <2>2, PanicWiring
    <3>2. /\ hub'.version = hub.version /\ hub'.status = hub.status /\ UNCHANGED slow
          /\ \A d \in Clients : writer'[d] = "off"
      BY <2>2 DEF Panic, Wiring, TypeOK, Hubs
    <3>3. Told'
      BY <3>2, QuietTold
    <3> QED  BY <3>1, <3>3
  <2>3. CASE c \notin closed /\ UNCHANGED <<hub, peers>> /\ SendSync(c)
    <3>1. UNCHANGED hub /\ UNCHANGED conn /\ UNCHANGED reader /\ UNCHANGED writer /\ UNCHANGED seen
      BY <2>3 DEF peers
    <3>2. Wiring' /\ c \in clients
      BY <2>1, <2>3, <3>1, SyncWiring
    <3> QED  BY <2>3, <3>1, <3>2, SyncTold
  <2> QED  BY <1>5, <2>2, <2>3 DEF HandleSync
<1>6. ASSUME CloseDone \/ CloseClients \/ DrainEnds PROVE Wiring' /\ Told'
  <2>1. \A c \in Clients : Follower(c)' => Follower(c)
    BY <1>6 DEF CloseDone, CloseClients, DrainEnds, Follower, peers
  <2>2. /\ hub'.version = hub.version /\ hub'.status = hub.status /\ UNCHANGED slow
        /\ UNCHANGED writer /\ UNCHANGED buf /\ UNCHANGED seen
    BY <1>6 DEF CloseDone, CloseClients, DrainEnds, peers, Wiring, TypeOK, Hubs
  <2> QED  BY <1>6, <2>1, <2>2, StopWiring, QuietTold
<1>7. ASSUME Drain PROVE Wiring' /\ Told'
  <2>1. \A c \in Clients : Follower(c)' => Follower(c)
    BY <1>7 DEF Drain, Follower
  <2> QED  BY <1>7, <2>1, DrainWiring, QuietTold DEF Drain
<1>8. ASSUME NEW c \in Clients, Upgrade(c) \/ ReadSync(c) \/ ReadFails(c) \/ CloseVictim(c)
      PROVE  Wiring' /\ Told'
  <2>1. \A d \in Clients : Follower(d)' => Follower(d)
    BY <1>8 DEF Upgrade, ReadSync, ReadFails, CloseVictim, Follower, Wiring, TypeOK,
                RegisteredOnce, Fresh
  <2>2. UNCHANGED hub /\ UNCHANGED slow /\ UNCHANGED writer /\ UNCHANGED buf /\ UNCHANGED seen
    BY <1>8 DEF Upgrade, ReadSync, ReadFails, CloseVictim
  <2> QED  BY <1>8, <2>1, <2>2, ReaderWiring, QuietTold
<1>9. ASSUME NEW c \in Clients, Register(c) \/ RequestSync(c) \/ Leave(c) PROVE Wiring' /\ Told'
  <2>1. \A d \in Clients : Follower(d)' => Follower(d)
    BY <1>9 DEF Register, RequestSync, Leave, Follower, Wiring, TypeOK, RegisteredOnce, Fresh
  <2>2. UNCHANGED hub /\ UNCHANGED slow /\ UNCHANGED writer /\ UNCHANGED buf /\ UNCHANGED seen
    BY <1>9 DEF Register, RequestSync, Leave
  <2> QED  BY <1>9, <2>1, <2>2, SenderWiring, QuietTold
<1>10. ASSUME NEW c \in Clients, Write(c) PROVE Wiring' /\ Told'
  BY <1>10, WriterWiring, WriteTold
<1>11. ASSUME NEW c \in Clients, WriteFails(c) \/ Goodbye(c) PROVE Wiring' /\ Told'
  <2>1. \A d \in Clients : Follower(d)' => Follower(d)
    BY <1>11 DEF WriteFails, Goodbye, Follower
  <2>2. /\ UNCHANGED hub /\ UNCHANGED slow /\ UNCHANGED seen
        /\ writer'[c] # "on"
        /\ \A d \in Clients \ {c} : writer'[d] = writer[d] /\ buf'[d] = buf[d]
    BY <1>11 DEF WriteFails, Goodbye, Wiring, TypeOK
  <2> QED  BY <1>11, <2>1, <2>2, WriterWiring, QuietTold
<1>12. ASSUME UNCHANGED vars PROVE Wiring' /\ Told'
  <2>1. /\ UNCHANGED hub /\ UNCHANGED inbox /\ UNCHANGED clients /\ UNCHANGED closed
        /\ UNCHANGED buf /\ UNCHANGED conn /\ UNCHANGED reader /\ UNCHANGED writer
        /\ UNCHANGED seen /\ UNCHANGED slow /\ UNCHANGED cut
    BY <1>12 DEF vars
  <2>2. TypeOK' /\ OnlyCutClientsPanic' /\ OneBidQueued'
    BY <2>1 DEF Wiring, TypeOK, OnlyCutClientsPanic, OneBidQueued, Crashed
  <2>3. RegisteredOnce' /\ LeavesLast'
    BY <2>1 DEF Wiring, RegisteredOnce, LeavesLast, Crashed, InInbox, Fresh, Met
  <2>4. \A c \in Clients : Follower(c)' => Follower(c)
    BY <2>1 DEF Follower
  <2> QED  BY <2>1, <2>2, <2>3, <2>4, QuietTold DEF Wiring
<1> QED
  <2>1. CASE Next
    BY <1>1, <1>2, <1>3, <1>4, <1>5, <1>6, <1>7, <1>8, <1>9, <1>10, <1>11, <2>1
       DEF Next, HubStep, WriterStep
  <2> QED  BY <1>12, <2>1

-----------------------------------------------------------------------------
\* Only a cut client can bring the process down, who misses nothing is told everything and in
\* order, and the mailbox and the channels are used as actor.go and ws_handler.go intend.
THEOREM HubInvariant == Spec => []HubInv
<1>1. HInv /\ [Next]_vars => HInv'
  BY NextHInv
<1> QED  BY InitHInv, <1>1, HInvIsHubInv, PTL DEF Spec

\* A client that kept up has been told everything when the actor says goodbye.
LEMMA GoodbyeStep ==
    ASSUME HInv, [Next]_vars, NEW c \in Clients \ (slow \cup cut),
           writer[c] = "on", writer'[c] = "bye", Done, reader[c] \in {"on", "sync"}
    PROVE  seen[c].version = hub.version /\ seen[c].status = hub.status
<1>1. c \in closed /\ buf[c] = <<>>
  <2>1. writer[c] # writer'[c] /\ writer'[c] = "bye" /\ hub.st # "running"
    BY DEF Done
  <2>2. \E d \in Clients : WriteFails(d) \/ Goodbye(d)
    <3>1. ~(\E k \in Kinds : Post(k)) /\ ~(UNCHANGED vars)
      BY <2>1 DEF Post, peers, vars
    <3>2. ~HubStep /\ ~StopLoop
      BY <2>1 DEF HubStep, StopLoop, HandleBid, HandleActivate, HandleEnd, HandleRegister,
                  HandleUnregister, HandleSync, Take, CloseDone, CloseClients, Drain, DrainEnds, peers
    <3>3. \A d \in Clients :
             ~(Upgrade(d) \/ Register(d) \/ ReadSync(d) \/ RequestSync(d) \/ ReadFails(d)
               \/ Leave(d) \/ Write(d) \/ CloseVictim(d))
      BY <2>1 DEF Upgrade, Register, ReadSync, RequestSync, ReadFails, Leave, Write, CloseVictim
    <3> QED  BY <3>1, <3>2, <3>3 DEF Next, WriterStep
  <2>3. PICK d \in Clients : WriteFails(d) \/ Goodbye(d)
    BY <2>2
  <2>4. d = c
    BY <2>1, <2>3 DEF WriteFails, Goodbye, HInv, Wiring, TypeOK
  <2>5. ~WriteFails(c)
    BY <2>1 DEF WriteFails, HInv, Wiring, TypeOK
  <2> QED  BY <2>3, <2>4, <2>5 DEF Goodbye
<1> QED  BY <1>1 DEF HInv, ClientIsUpToDate, Newest

\* The close frame comes after the last event.
THEOREM GoodbyeComesLast == Spec => GoodbyeIsLast
<1>1. HInv /\ [Next]_vars => HInv'
  BY NextHInv
<1>2. HInv /\ [Next]_vars =>
         [\A c \in Clients \ (slow \cup cut) :
            writer[c] = "on" /\ writer'[c] = "bye" /\ Done /\ reader[c] \in {"on", "sync"} =>
                seen[c].version = hub.version /\ seen[c].status = hub.status]_vars
  BY GoodbyeStep
<1> QED  BY InitHInv, <1>1, <1>2, PTL DEF Spec, GoodbyeIsLast
=============================================================================
