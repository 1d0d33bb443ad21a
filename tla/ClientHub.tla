------------------------------ MODULE ClientHub ------------------------------
(* The WebSocket side of an auction's actor: the set of clients it          *)
(* broadcasts to, the bounded channel `send` of each client, and the        *)
(* goroutines around one connection: the upgrade handler that registers it, *)
(* readPump that turns its messages into mailbox messages, writePump that   *)
(* empties its channel.  One incarnation of the actor; a Client is one      *)
(* connection, a reconnecting browser is another Client.                    *)
(*                                                                          *)
(* A send on a closed channel and a second close of one are panics in the   *)
(* actor's goroutine, which nothing recovers: the process ends.  HandleSync *)
(* is the one place where that can happen; that the loops over a.clients    *)
(* meet open channels only is the first half of OnlyCutClientsPanic.  The   *)
(* peer may vanish at any moment, seen by a failing read or write.          *)
EXTENDS Integers, Sequences, FiniteSets

CONSTANTS
    Clients, NoClient,      \* connections
    BufSize,                \* sendBufSize, the capacity of Client.send
    InboxSize,              \* capacity of the actor's inbox
    MaxVersion              \* bound on the accepted bids

ASSUME HubAssumption ==
    /\ NoClient \notin Clients
    /\ BufSize \in Nat \ {0} /\ InboxSize \in Nat \ {0}
    /\ MaxVersion \in Nat \ {0}

VARIABLES
    hub,        \* the actor's goroutine: where it is, and its version and status
    inbox,      \* its mailbox
    clients,    \* a.clients
    closed,     \* the clients whose channel `send` is closed
    buf,        \* what each channel holds
    conn,       \* the server's end of each connection
    reader,     \* readPump, and before it the upgrade handler
    writer,     \* writePump
    seen,       \* the last event written to each connection
    slow,       \* clients that missed a broadcast; a goroutine closes their connections
    cut         \* clients dropped by sendSync

vars == <<hub, inbox, clients, closed, buf, conn, reader, writer, seen, slow, cut>>
peers == <<conn, reader, writer, seen>>

Kinds   == {"bid", "activate", "end", "shutdown"}
Nothing == [version |-> 0, status |-> "PENDING"]
Msg(k, c) == [kind |-> k, client |-> c]

Init ==
    /\ hub \in {[st |-> "running", version |-> 1, status |-> s] : s \in {"PENDING", "ACTIVE"}}
    /\ inbox = <<>>
    /\ clients = {} /\ closed = {} /\ slow = {} /\ cut = {}
    /\ buf = [c \in Clients |-> <<>>]
    /\ conn = [c \in Clients |-> "none"]
    /\ reader = [c \in Clients |-> "off"]
    /\ writer = [c \in Clients |-> "off"]
    /\ seen = [c \in Clients |-> Nothing]

Crashed == hub.st = "crashed"
Done    == hub.st \in {"closing", "draining", "dead"}     \* `done` is closed

-----------------------------------------------------------------------------
(* The mailbox.  Send gives up when `done` is closed or the inbox stays     *)
(* full for sendTimeout; with `done` closed and room left, either may win.  *)

Put(m)  == ~Crashed /\ Len(inbox) < InboxSize /\ inbox' = Append(inbox, m)
Refused == ~Crashed /\ (Done \/ Len(inbox) = InboxSize) /\ UNCHANGED inbox

Queued(k) == \E i \in 1 .. Len(inbox) : inbox[i].kind = k

\* Other users' bids, the scheduler's notices and ShutdownAll's, one of a kind at
\* a time; bound: none after `done`, where no client would notice them.
Post(k) ==
    /\ ~Done /\ ~Queued(k)
    /\ CASE k = "bid"      -> hub.version < MaxVersion
         [] k = "activate" -> hub.status = "PENDING"
         [] k = "end"      -> hub.status # "ENDED"
         [] OTHER          -> hub.st = "running"
    /\ Put(Msg(k, NoClient))
    /\ UNCHANGED <<hub, clients, closed, buf, peers, slow, cut>>

-----------------------------------------------------------------------------
(* The actor's goroutine.                                                   *)

\* A panic: no deferred close is sent in order, the process and its sockets end.
Panic ==
    /\ hub' = [hub EXCEPT !.st = "crashed"]
    /\ conn' = [c \in Clients |-> IF conn[c] = "none" THEN "none" ELSE "closed"]
    /\ reader' = [c \in Clients |-> "off"] /\ writer' = [c \in Clients |-> "off"]
    /\ UNCHANGED <<clients, closed, buf, seen, slow, cut>>

Take(k, c) ==
    /\ hub.st = "running" /\ inbox # <<>>
    /\ Head(inbox) = Msg(k, c)
    /\ inbox' = Tail(inbox)

\* What the events SYNC, NEW_BID, AUCTION_ACTIVE and AUCTION_ENDED tell of the actor.
Event(h) == [version |-> h.version, status |-> h.status]

Full(c) == Len(buf[c]) = BufSize

\* Mutant of Broadcast: a full channel is emptied for the new event.
BroadcastOverwrites(h) ==
    /\ buf' = [c \in Clients |-> IF c \notin clients THEN buf[c]
                                 ELSE IF Full(c) THEN <<Event(h)>> ELSE Append(buf[c], Event(h))]
    /\ UNCHANGED slow

Broadcast(h) ==
    /\ buf' = [c \in Clients |-> IF c \in clients /\ ~Full(c) THEN Append(buf[c], Event(h))
                                                             ELSE buf[c]]
    /\ slow' = slow \cup {c \in clients : Full(c)}

\* sendSync when the channel has no room, first as a mutant: the entry stays.

CutOff(c) ==
    /\ clients' = clients \ {c}
    /\ closed' = closed \cup {c} /\ cut' = cut \cup {c}
    /\ UNCHANGED buf

SendSync(c) ==
    /\ UNCHANGED slow
    /\ \/ Full(c) /\ CutOff(c)
       \/ ~Full(c) /\ buf' = [buf EXCEPT ![c] = Append(@, Event(hub))]
                   /\ UNCHANGED <<clients, closed, cut>>

\* handlePlaceBid: refused, or accepted and broadcast after the COMMIT.
HandleBid ==
    /\ Take("bid", NoClient)
    /\ \/ UNCHANGED <<hub, clients, closed, buf, slow, cut>>
       \/ /\ hub.status = "ACTIVE"
          /\ hub' = [hub EXCEPT !.version = @ + 1]
          /\ Broadcast(hub')
          /\ UNCHANGED <<clients, closed, cut>>
    /\ UNCHANGED <<peers>>

HandleActivate ==
    /\ Take("activate", NoClient)
    /\ \/ /\ hub.status = "PENDING"
          /\ hub' = [hub EXCEPT !.status = "ACTIVE"]
          /\ Broadcast(hub')
       \/ hub.status # "PENDING" /\ UNCHANGED <<hub, buf, slow>>
    /\ UNCHANGED <<clients, closed, cut, peers>>

HandleEnd ==
    /\ Take("end", NoClient)
    /\ hub' = [hub EXCEPT !.status = "ENDED", !.st = "stopping"]
    /\ Broadcast(hub')
    /\ UNCHANGED <<clients, closed, cut, peers>>

\* ShutdownMsg, or the idle timer with no client and no message.
StopLoop ==
    /\ \/ Take("shutdown", NoClient)
       \/ hub.st = "running" /\ clients = {} /\ inbox = <<>> /\ UNCHANGED inbox
    /\ hub' = [hub EXCEPT !.st = "stopping"]
    /\ UNCHANGED <<clients, closed, buf, peers, slow, cut>>

\* The channel of a new Client is empty: its SYNC always has room.
HandleRegister(c) ==
    /\ Take("register", c)
    /\ clients' = clients \cup {c}
    /\ buf' = [buf EXCEPT ![c] = Append(@, Event(hub))]
    /\ reader' = [reader EXCEPT ![c] = "on"] /\ writer' = [writer EXCEPT ![c] = "on"]
    /\ UNCHANGED <<hub, closed, conn, seen, slow, cut>>

HandleUnregister(c) ==
    /\ Take("unregister", c)
    /\ \/ c \notin clients /\ UNCHANGED <<hub, clients, closed, buf, slow, cut, peers>>
       \/ /\ c \in clients
          /\ clients' = clients \ {c} /\ closed' = closed \cup {c}
          /\ UNCHANGED <<hub, buf, slow, cut, peers>>

\* Nothing asks here whether the client is still registered.
HandleSync(c) ==
    /\ Take("sync", c)
    /\ \/ c \in closed /\ Panic
       \/ c \notin closed /\ UNCHANGED <<hub, peers>> /\ SendSync(c)

-----------------------------------------------------------------------------
(* The deferred function of run.                                            *)

CloseDone ==
    /\ hub.st = "stopping"
    /\ hub' = [hub EXCEPT !.st = "closing"]
    /\ UNCHANGED <<inbox, clients, closed, buf, peers, slow, cut>>

CloseClients ==
    /\ hub.st = "closing"
    /\ closed' = closed \cup clients
    /\ clients' = {}
    /\ hub' = [hub EXCEPT !.st = "draining"]
    /\ UNCHANGED <<inbox, buf, peers, slow, cut>>

Drain ==
    /\ hub.st = "draining" /\ inbox # <<>>
    /\ inbox' = Tail(inbox)
    /\ conn' = [c \in Clients |-> IF Head(inbox) = Msg("register", c) THEN "closed" ELSE conn[c]]
    /\ UNCHANGED <<hub, clients, closed, buf, reader, writer, seen, slow, cut>>

DrainEnds ==
    /\ hub.st = "draining" /\ inbox = <<>>
    /\ hub' = [hub EXCEPT !.st = "dead"]
    /\ UNCHANGED <<inbox, clients, closed, buf, peers, slow, cut>>

-----------------------------------------------------------------------------
(* A connection.                                                            *)

\* The handler found the actor alive; by now it may have stopped.
Upgrade(c) ==
    /\ conn[c] = "none" /\ ~Crashed
    /\ conn' = [conn EXCEPT ![c] = "open"]
    /\ reader' = [reader EXCEPT ![c] = "register"]
    /\ UNCHANGED <<hub, inbox, clients, closed, buf, writer, seen, slow, cut>>

Register(c) ==
    /\ reader[c] = "register"
    /\ reader' = [reader EXCEPT ![c] = "off"]
    /\ \/ Put(Msg("register", c)) /\ UNCHANGED conn
       \/ Refused /\ conn' = [conn EXCEPT ![c] = "closed"]
    /\ UNCHANGED <<hub, clients, closed, buf, writer, seen, slow, cut>>

ReadSync(c) ==
    /\ reader[c] = "on" /\ conn[c] = "open"
    /\ reader' = [reader EXCEPT ![c] = "sync"]
    /\ UNCHANGED <<hub, inbox, clients, closed, buf, conn, writer, seen, slow, cut>>

RequestSync(c) ==
    /\ reader[c] = "sync"
    /\ Put(Msg("sync", c)) \/ Refused
    /\ reader' = [reader EXCEPT ![c] = "on"]
    /\ UNCHANGED <<hub, clients, closed, buf, conn, writer, seen, slow, cut>>

\* The server closed the connection, the peer went away, or no pong in time.
ReadFails(c) ==
    /\ reader[c] = "on"
    /\ reader' = [reader EXCEPT ![c] = "leave"]
    /\ UNCHANGED <<hub, inbox, clients, closed, buf, conn, writer, seen, slow, cut>>

\* Mutant of Leave: the connection is closed and the actor never told.
LeaveSilently(c) ==
    /\ reader[c] = "leave"
    /\ reader' = [reader EXCEPT ![c] = "left"]
    /\ conn' = [conn EXCEPT ![c] = "closed"]
    /\ UNCHANGED <<hub, inbox, clients, closed, buf, writer, seen, slow, cut>>

\* The deferred function of readPump: its Unregister may get lost.
Leave(c) ==
    /\ reader[c] = "leave"
    /\ \/ Put(Msg("unregister", c)) /\ reader' = [reader EXCEPT ![c] = "left"]
       \/ Refused /\ reader' = [reader EXCEPT ![c] = "lost"]
    /\ conn' = [conn EXCEPT ![c] = "closed"]
    /\ UNCHANGED <<hub, clients, closed, buf, writer, seen, slow, cut>>

Write(c) ==
    /\ writer[c] = "on" /\ conn[c] = "open" /\ buf[c] # <<>>
    /\ seen' = [seen EXCEPT ![c] = Head(buf[c])]
    /\ buf' = [buf EXCEPT ![c] = Tail(@)]
    /\ UNCHANGED <<hub, inbox, clients, closed, conn, reader, writer, slow, cut>>

\* A write or a ping fails; the deferred function closes the connection.
WriteFails(c) ==
    /\ writer[c] = "on"
    /\ writer' = [writer EXCEPT ![c] = "failed"]
    /\ conn' = [conn EXCEPT ![c] = "closed"]
    /\ buf' = [buf EXCEPT ![c] = IF @ = <<>> THEN @ ELSE Tail(@)]
    /\ UNCHANGED <<hub, inbox, clients, closed, reader, seen, slow, cut>>

\* Mutant of Goodbye: closing the channel overtakes what is queued in it.
GoodbyeAtOnce(c) ==
    /\ writer[c] = "on" /\ c \in closed
    /\ writer' = [writer EXCEPT ![c] = "bye"]
    /\ conn' = [conn EXCEPT ![c] = "closed"]
    /\ UNCHANGED <<hub, inbox, clients, closed, buf, reader, seen, slow, cut>>

\* The channel is closed and empty: the close frame, then the connection.
Goodbye(c) ==
    /\ writer[c] = "on" /\ c \in closed /\ buf[c] = <<>>
    /\ writer' = [writer EXCEPT ![c] = "bye"]
    /\ conn' = [conn EXCEPT ![c] = "closed"]
    /\ UNCHANGED <<hub, inbox, clients, closed, buf, reader, seen, slow, cut>>

\* Mutant of CloseVictim: the client is taken out of the set, its connection kept.
DropVictim(c) ==
    /\ c \in slow \cap clients /\ ~Crashed
    /\ clients' = clients \ {c}
    /\ UNCHANGED <<hub, inbox, closed, buf, peers, slow, cut>>

\* The goroutine broadcast starts for its slow clients.
CloseVictim(c) ==
    /\ c \in slow /\ conn[c] = "open" /\ ~Crashed
    /\ conn' = [conn EXCEPT ![c] = "closed"]
    /\ UNCHANGED <<hub, inbox, clients, closed, buf, reader, writer, seen, slow, cut>>

-----------------------------------------------------------------------------
HubStep ==
    \/ HandleBid \/ HandleActivate \/ HandleEnd
    \/ \E c \in Clients : HandleRegister(c) \/ HandleUnregister(c) \/ HandleSync(c)
    \/ CloseDone \/ CloseClients \/ Drain \/ DrainEnds

WriterStep(c) == Write(c) \/ Goodbye(c)
HasWork(c)    == buf[c] # <<>> \/ c \in closed \/ conn[c] = "closed"

Next ==
    \/ \E k \in Kinds : Post(k)
    \/ HubStep \/ StopLoop
    \/ \E c \in Clients :
          \/ Upgrade(c) \/ Register(c)
          \/ ReadSync(c) \/ RequestSync(c) \/ ReadFails(c) \/ Leave(c)
          \/ WriterStep(c) \/ WriteFails(c) \/ CloseVictim(c)

Spec == Init /\ [][Next]_vars

\* Goroutines run.  A write ends within writeWait, a read of a closed connection
\* at once; nothing forces bids, notices, connections or requests to come.
LiveSpec ==
    /\ Spec
    /\ WF_vars(HubStep \/ (StopLoop /\ inbox # <<>>))
    /\ \A c \in Clients :
          /\ WF_vars(Register(c)) /\ WF_vars(RequestSync(c)) /\ WF_vars(Leave(c))
          /\ WF_vars(ReadFails(c) /\ conn[c] = "closed")
          /\ WF_vars((WriterStep(c) \/ WriteFails(c)) /\ HasWork(c))
          /\ WF_vars(CloseVictim(c))

-----------------------------------------------------------------------------
(* Properties.                                                              *)

Hubs == [st : {"running", "stopping", "closing", "draining", "dead", "crashed"},
         version : 1 .. MaxVersion, status : {"PENDING", "ACTIVE", "ENDED"}]
Events == [version : 0 .. MaxVersion, status : {"PENDING", "ACTIVE", "ENDED"}]
Msgs == [kind : Kinds \cup {"register", "unregister", "sync"}, client : Clients \cup {NoClient}]

\* Where each goroutine may be, and the channels within their capacity.
TypeOK ==
    /\ hub \in Hubs
    /\ inbox \in Seq(Msgs) /\ Len(inbox) <= InboxSize
    /\ clients \subseteq Clients /\ closed \subseteq Clients
    /\ slow \subseteq Clients /\ cut \subseteq Clients
    /\ buf \in [Clients -> Seq(Events)] /\ \A c \in Clients : Len(buf[c]) <= BufSize
    /\ conn \in [Clients -> {"none", "open", "closed"}]
    /\ reader \in [Clients -> {"off", "register", "on", "sync", "leave", "left", "lost"}]
    /\ writer \in [Clients -> {"off", "on", "failed", "bye"}]
    /\ seen \in [Clients -> Events]

\* HubInv: the loops over a.clients (broadcast, the deferred close) touch open channels
\* only: three places close a channel and each of them drops the entry as well.
\* So only a SYNC of a client that sendSync has dropped can bring the process down.
OnlyCutClientsPanic == (clients \cap closed = {}) /\ (Crashed => cut # {})

\* The last event a client got or will get from its channel.
Newest(c) == IF buf[c] = <<>> THEN seen[c] ELSE buf[c][Len(buf[c])]

\* HubInv: a client that missed no broadcast has the actor's version and status as its
\* newest event, as long as it is registered and after the actor's goodbye.
ClientIsUpToDate ==
    \A c \in Clients \ slow :
        writer[c] = "on" /\ (c \in clients \/ (c \in closed \ cut /\ reader[c] # "left")) =>
            Newest(c).version = hub.version /\ Newest(c).status = hub.status

\* HubInv: events reach a browser in the order of the bids, and up to the first one it
\* misses there is no gap: after a SYNC the price history is complete.
EventsInOrder ==
    \A c \in Clients : writer[c] = "on" =>
        LET es == (IF seen[c] = Nothing THEN <<>> ELSE <<seen[c]>>) \o buf[c] IN
        \A i \in 1 .. Len(es) - 1 :
            /\ es[i].version <= es[i + 1].version
            /\ c \notin slow => es[i + 1].version <= es[i].version + 1

InInbox(k, c) == \E i \in 1 .. Len(inbox) : inbox[i] = Msg(k, c)

\* Nothing has happened to this client's channel yet.
Fresh(c) ==
    /\ writer[c] = "off" /\ buf[c] = <<>> /\ seen[c] = Nothing
    /\ c \notin clients \cup closed \cup slow \cup cut

Met(c) == reader[c] \notin {"off", "register"}

\* HubInv: a connection registers once, with a channel nobody has used, and from then on
\* it is in a.clients or its channel is closed.
RegisteredOnce ==
    \A c \in Clients :
        /\ conn[c] = "none" => Fresh(c) /\ reader[c] = "off"
        /\ reader[c] = "register" => Fresh(c) /\ conn[c] = "open"
        /\ InInbox("register", c) /\ ~Crashed => Fresh(c) /\ reader[c] = "off" /\ conn[c] = "open"
        /\ \A i, j \in 1 .. Len(inbox) :
              inbox[i] = Msg("register", c) /\ inbox[j] = Msg("register", c) => i = j
        /\ Met(c) => c \in clients \cup closed
        /\ writer[c] = "on" => Met(c)
        /\ Crashed => reader[c] = "off"

\* HubInv: readPump's last message is its Unregister, so that a client that left in order
\* never has a SYNC behind it; while the loop runs, any other closed channel was cut off.
LeavesLast ==
    ~Crashed => \A c \in Clients :
        /\ InInbox("sync", c) => Met(c)
        /\ \A i \in 1 .. Len(inbox) : inbox[i] = Msg("unregister", c) =>
              /\ reader[c] = "left"
              /\ \A j \in i .. Len(inbox) : inbox[j] # Msg("sync", c)
        /\ c \in closed =>
              \/ hub.st \in {"draining", "dead"}
              \/ c \in cut
              \/ reader[c] = "left" /\ ~InInbox("sync", c)

\* HubInv: one bid of the others at a time, within the bound.
OneBidQueued ==
    \A i \in 1 .. Len(inbox) : inbox[i].kind = "bid" =>
        /\ hub.version < MaxVersion
        /\ \A j \in 1 .. Len(inbox) : inbox[j].kind = "bid" => i = j

HubInv ==
    /\ TypeOK /\ OnlyCutClientsPanic /\ ClientIsUpToDate /\ EventsInOrder
    /\ RegisteredOnce /\ LeavesLast /\ OneBidQueued

\* When the actor stops, a client that kept up is told everything, the end of
\* the auction included, before its connection is closed.
GoodbyeIsLast ==
    [][\A c \in Clients \ (slow \cup cut) :
          writer[c] = "on" /\ writer'[c] = "bye" /\ Done /\ reader[c] \in {"on", "sync"} =>
              seen[c].version = hub.version /\ seen[c].status = hub.status]_vars

\* A client that missed an event is disconnected, so that it comes back for a SYNC.
SlowIsDisconnected == \A c \in Clients : (c \in slow) ~> (conn[c] = "closed")

\* A closed connection leaves the set of clients, which would keep the actor
\* from its idle stop, unless its Unregister was refused.
ClosedIsForgotten ==
    \A c \in Clients : (conn[c] = "closed") ~> (c \notin clients \/ reader[c] = "lost" \/ Crashed)

\* A registration that slipped into the inbox of an actor that had been drained.
Stranded(c) == hub.st = "dead" /\ \E i \in 1 .. Len(inbox) : inbox[i] = Msg("register", c)

\* An upgraded connection is sent its SYNC or closed, unless it was stranded.
UpgradedIsServed ==
    \A c \in Clients : (conn[c] = "open") ~> (seen[c] # Nothing \/ conn[c] = "closed" \/ Stranded(c))

\* An actor that stops leaves no connection open behind it, but for a stranded one.
StopDisconnects ==
    \A c \in Clients : (Done /\ conn[c] = "open") ~> (conn[c] = "closed" \/ Stranded(c))

\* ConnectionsClose: who missed an event and who is left when the actor stops
\* loses his connection.  ClientsAreKept: every connection is served, and none
\* stays among the clients after it has closed.
ConnectionsClose == SlowIsDisconnected /\ StopDisconnects
ClientsAreKept   == UpgradedIsServed /\ ClosedIsForgotten
=============================================================================
