------------------------ MODULE ActorRegistryProofs -------------------------
(* Theorems about ActorRegistry, for every number of request goroutines, of *)
(* incarnations of the actor and of places in an inbox.                     *)
EXTENDS ActorRegistry, TLAPS

\* A message put into an inbox: it is there, and so is all that was there.
LEMMA PutLemma ==
    ASSUME TypeOK, NEW a \in Actors, NEW m \in Messages, Put(a, m)
    PROVE  /\ inbox' \in [Actors -> Seq(Messages)] /\ \A b \in Actors : Len(inbox'[b]) <= InboxSize
           /\ \E i \in 1 .. Len(inbox'[a]) : inbox'[a][i] = m
           /\ \A b \in Actors : \A i \in 1 .. Len(inbox[b]) :
                 i \in 1 .. Len(inbox'[b]) /\ inbox'[b][i] = inbox[b][i]
<1>1. /\ inbox \in [Actors -> Seq(Messages)] /\ \A b \in Actors : Len(inbox[b]) <= InboxSize
      /\ inbox' = [inbox EXCEPT ![a] = Append(inbox[a], m)] /\ Len(inbox[a]) < InboxSize
  BY DEF TypeOK, Put
<1>2. /\ Append(inbox[a], m) \in Seq(Messages)
      /\ Len(Append(inbox[a], m)) = Len(inbox[a]) + 1 /\ Len(inbox[a]) \in Nat
      /\ Append(inbox[a], m)[Len(inbox[a]) + 1] = m
      /\ \A i \in 1 .. Len(inbox[a]) : Append(inbox[a], m)[i] = inbox[a][i]
  BY <1>1
<1>3. inbox'[a] = Append(inbox[a], m) /\ \A b \in Actors \ {a} : inbox'[b] = inbox[b]
  BY <1>1
<1>4. inbox' \in [Actors -> Seq(Messages)]
  BY <1>1, <1>2
<1>5. \A b \in Actors : Len(inbox'[b]) <= InboxSize
  BY <1>1, <1>2, <1>3, RegistryAssumption
<1>6. \E i \in 1 .. Len(inbox'[a]) : inbox'[a][i] = m
  <2>1. Len(inbox[a]) + 1 \in 1 .. Len(inbox'[a])
    BY <1>2, <1>3
  <2> QED BY <1>2, <1>3, <2>1
<1>7. ASSUME NEW b \in Actors, NEW i \in 1 .. Len(inbox[b])
      PROVE  i \in 1 .. Len(inbox'[b]) /\ inbox'[b][i] = inbox[b][i]
  BY <1>2, <1>3, <1>7
<1> QED BY <1>4, <1>5, <1>6, <1>7

\* A message taken from an inbox: what stood behind it is still there, and only
\* a handler that waits for its reply is freed.
LEMMA TakeLemma ==
    ASSUME TypeOK, NEW a \in Actors, inbox[a] # <<>>,
           inbox' = [inbox EXCEPT ![a] = Tail(@)], Reply(Head(inbox[a]))
    PROVE  /\ Head(inbox[a]) \in Messages
           /\ inbox' \in [Actors -> Seq(Messages)] /\ \A b \in Actors : Len(inbox'[b]) <= InboxSize
           /\ \A b \in Actors : \A i \in 1 .. Len(inbox[b]) :
                 \/ b = a /\ inbox[b][i] = Head(inbox[a])
                 \/ \E j \in 1 .. Len(inbox'[b]) : inbox'[b][j] = inbox[b][i]
           /\ handler' \in [Handlers -> HandlerStates]
           /\ \A h \in Handlers :
                 \/ handler'[h] = handler[h] /\ ~(handler[h].pc = "wait" /\ Head(inbox[a]) = Bid(h))
                 \/ handler'[h] = Free
<1>1. /\ inbox[a] \in Seq(Messages) /\ inbox \in [Actors -> Seq(Messages)]
      /\ \A b \in Actors : Len(inbox[b]) <= InboxSize
      /\ InboxSize \in Nat
  BY RegistryAssumption DEF TypeOK
<1>2. /\ Head(inbox[a]) \in Messages /\ Tail(inbox[a]) \in Seq(Messages)
      /\ Len(inbox[a]) \in Nat \ {0} /\ Len(Tail(inbox[a])) = Len(inbox[a]) - 1
      /\ Head(inbox[a]) = inbox[a][1]
      /\ \A i \in 1 .. Len(Tail(inbox[a])) : Tail(inbox[a])[i] = inbox[a][i + 1]
  BY <1>1
<1>3. inbox'[a] = Tail(inbox[a]) /\ \A b \in Actors \ {a} : inbox'[b] = inbox[b]
  BY <1>1
<1>4. inbox' \in [Actors -> Seq(Messages)]
  BY <1>1, <1>2
<1>5. \A b \in Actors : Len(inbox'[b]) <= InboxSize
  BY <1>1, <1>2, <1>3
<1>6. ASSUME NEW b \in Actors, NEW i \in 1 .. Len(inbox[b]),
             ~(b = a /\ inbox[b][i] = Head(inbox[a]))
      PROVE  \E j \in 1 .. Len(inbox'[b]) : inbox'[b][j] = inbox[b][i]
  <2>1. CASE b # a
    BY <1>3, <2>1
  <2>2. CASE b = a
    <3>1. i # 1 /\ i - 1 \in 1 .. Len(Tail(inbox[a]))
      BY <1>2, <1>6, <2>2
    <3>2. Tail(inbox[a])[i - 1] = inbox[a][i]
      BY <1>2, <3>1
    <3> QED BY <1>3, <2>2, <3>1, <3>2
  <2> QED BY <2>1, <2>2
<1>7. Free \in HandlerStates
  BY DEF Free, HandlerStates
<1>8. PICK m \in Messages : m = Head(inbox[a])
  BY <1>2
<1>9. \/ \E g \in Handlers : m = Bid(g) /\ m.kind = "bid" /\ m.from = g
      \/ m.kind # "bid" /\ \A g \in Handlers : m # Bid(g)
  BY DEF Messages, Bid, Notice
<1>10. /\ handler' \in [Handlers -> HandlerStates]
       /\ \A h \in Handlers :
             \/ handler'[h] = handler[h] /\ ~(handler[h].pc = "wait" /\ m = Bid(h))
             \/ handler'[h] = Free
  <2>1. CASE m.kind # "bid" /\ \A g \in Handlers : m # Bid(g)
    BY <1>8, <2>1 DEF Reply, TypeOK
  <2>2. ASSUME NEW g \in Handlers, m = Bid(g), m.kind = "bid", m.from = g
        PROVE  <1>10!1 /\ <1>10!2
    <3>1. \A h \in Handlers : m = Bid(h) => h = g
      BY <2>2 DEF Bid
    <3>2. CASE handler[g].pc = "wait"
      <4>1. handler' = [handler EXCEPT ![g] = Free]
        BY <1>8, <2>2, <3>2 DEF Reply
      <4> QED BY <1>7, <3>1, <4>1 DEF TypeOK
    <3>3. CASE handler[g].pc # "wait"
      <4>1. handler' = handler
        BY <1>8, <2>2, <3>3 DEF Reply
      <4> QED BY <3>1, <3>3, <4>1 DEF TypeOK
    <3> QED BY <3>2, <3>3
  <2> QED BY <1>9, <2>1, <2>2
<1> QED BY <1>2, <1>4, <1>5, <1>6, <1>8, <1>10

-----------------------------------------------------------------------------
(* Each process keeps the invariant.                                        *)

LEMMA InitLemma == Init => IInv
<1> SUFFICES ASSUME Init PROVE IInv
  OBVIOUS
<1>1. TypeOK
  <2>1. inbox \in [Actors -> Seq(Messages)] /\ \A a \in Actors : Len(inbox[a]) <= InboxSize
    BY RegistryAssumption DEF Init
  <2> QED BY <2>1, RegistryAssumption DEF Init, TypeOK, Free, HandlerStates, Statuses
<1>2. RunningIsRegistered /\ EntryIsAlive /\ WaitingIsQueued /\ MutexProtects /\ EnderKnowsEntry
  BY DEF Init, RunningIsRegistered, EntryIsAlive, WaitingIsQueued, MutexProtects, EnderKnowsEntry, Free
<1>3. ActivationIsSeen /\ EndedIsUnregistered
  BY DEF Init, ActivationIsSeen, EndedIsUnregistered
<1> QED BY <1>1, <1>2, <1>3 DEF IInv, RegistryInv

\* A handler goes on, but for Create and SendBid: it takes, keeps or gives back
\* the mutex, and beyond the double check it holds it and there is no entry.
LEMMA HandlerMoves ==
    ASSUME IInv, NEW h \in Handlers, NEW v \in HandlerStates,
           handler' = [handler EXCEPT ![h] = v],
           UNCHANGED <<db, entry, actor, inbox, activator, ender, shutdown, noticeLost>>,
           mu' \in Handlers \cup {NoHandler}, mu' = mu \/ mu \in {h, NoHandler},
           v.pc # "wait",
           v.pc \in {"check", "read", "create"} => mu' = h,
           v.pc \in {"read", "create"} => entry = NoActor,
           v.pc = "create" => /\ db = "ACTIVE" /\ v.seen = "PENDING" => activator.pc = "lookup" \/ noticeLost
                              /\ ender.pc \in {"idle", "lookup", "failed"}
    PROVE  IInv'
<1> USE RegistryAssumption DEF IInv, RegistryInv
<1>1. handler'[h] = v /\ \A g \in Handlers \ {h} : handler'[g] = handler[g]
  BY DEF TypeOK
<1>2. TypeOK'
  BY DEF TypeOK
<1>3. RunningIsRegistered' /\ EntryIsAlive' /\ EnderKnowsEntry' /\ EndedIsUnregistered'
  BY DEF RunningIsRegistered, EntryIsAlive, EnderKnowsEntry, EndedIsUnregistered
<1>4. ActivationIsSeen'
  BY DEF ActivationIsSeen
<1>5. WaitingIsQueued'
  BY <1>1 DEF WaitingIsQueued
<1>6. MutexProtects'
  BY <1>1 DEF MutexProtects
<1> QED BY <1>2, <1>3, <1>4, <1>5, <1>6

\* GetOrCreate up to the entry, and the ends of a request.
LEMMA RequestStep ==
    ASSUME IInv, NEW h \in Handlers,
           FastPath(h) \/ Lock(h) \/ DoubleCheck(h) \/ ReadRow(h) \/ ReadRefused(h)
             \/ GiveUp(h) \/ SendRefused(h)
    PROVE  IInv'
<1> USE DEF IInv, RegistryInv
<1>1. \A pc \in {"lock", "check", "read", "gone"} :
        /\ [handler[h] EXCEPT !.pc = pc] \in HandlerStates
        /\ [handler[h] EXCEPT !.pc = pc].pc = pc
  BY DEF TypeOK, HandlerStates
<1>2. Free \in HandlerStates /\ Free.pc = "idle"
  BY DEF Free, HandlerStates
<1>3. \A a \in Actors : LET v == [Free EXCEPT !.pc = "send", !.at = a]
                        IN  v \in HandlerStates /\ v.pc = "send"
  BY DEF Free, HandlerStates
<1>4. Alive(entry) => entry \in Actors
  BY DEF TypeOK, Alive
<1>5. ~Alive(entry) => entry = NoActor
  BY DEF TypeOK, EntryIsAlive, Alive, Done
<1>6. mu \in Handlers \cup {NoHandler}
  BY DEF TypeOK
<1>7. CASE FastPath(h)
  <2>1. CASE Alive(entry)
    BY <1>3, <1>4, <1>6, <1>7, <2>1, HandlerMoves DEF FastPath, GotActor
  <2>2. CASE ~Alive(entry)
    <3>1. handler' = [handler EXCEPT ![h] = [handler[h] EXCEPT !.pc = "lock"]]
      BY <1>7, <2>2 DEF FastPath, Goto, TypeOK
    <3> QED BY <1>1, <1>6, <1>7, <3>1, HandlerMoves DEF FastPath
  <2> QED BY <2>1, <2>2
<1>8. CASE Lock(h)
  <2>1. handler' = [handler EXCEPT ![h] = [handler[h] EXCEPT !.pc = "check"]]
    BY <1>8 DEF Lock, Goto, TypeOK
  <2> QED BY <1>1, <1>8, <2>1, HandlerMoves DEF Lock
<1>9. CASE DoubleCheck(h)
  <2>1. mu = h
    BY <1>9 DEF DoubleCheck, MutexProtects
  <2>2. CASE Alive(entry)
    BY <1>3, <1>4, <1>9, <2>1, <2>2, HandlerMoves DEF DoubleCheck, GotActor
  <2>3. CASE ~Alive(entry)
    <3>1. handler' = [handler EXCEPT ![h] = [handler[h] EXCEPT !.pc = "read"]] /\ entry' = entry
      BY <1>5, <1>9, <2>3 DEF DoubleCheck, Goto, TypeOK
    <3> QED BY <1>1, <1>5, <1>9, <2>1, <2>3, <3>1, HandlerMoves DEF DoubleCheck
  <2> QED BY <2>2, <2>3
<1>10. CASE ReadRow(h)
  <2> DEFINE v == [handler[h] EXCEPT !.pc = "create", !.seen = db]
  <2>1. mu = h /\ entry = NoActor
    BY <1>10 DEF ReadRow, MutexProtects
  <2>2. handler' = [handler EXCEPT ![h] = v]
    BY <1>10 DEF ReadRow, TypeOK
  <2>3. v \in HandlerStates /\ v.pc = "create" /\ v.seen = db
    BY <1>10 DEF ReadRow, TypeOK, HandlerStates, Statuses
  <2>4. db # "ENDED" /\ ender.pc \in {"idle", "lookup", "failed"}
    BY <1>10 DEF ReadRow, EnderKnowsEntry, TypeOK
  <2> HIDE DEF v
  <2> QED BY <1>6, <1>10, <2>1, <2>2, <2>3, <2>4, HandlerMoves DEF ReadRow
<1>11. CASE ReadRefused(h)
  <2>1. mu = h
    BY <1>11 DEF ReadRefused, MutexProtects
  <2> QED BY <1>2, <1>11, <2>1, HandlerMoves DEF ReadRefused, Responds
<1>12. CASE GiveUp(h)
  <2>1. handler' = [handler EXCEPT ![h] = [handler[h] EXCEPT !.pc = "gone"]]
    BY <1>12 DEF GiveUp, Goto, TypeOK
  <2> QED BY <1>1, <1>6, <1>12, <2>1, HandlerMoves DEF GiveUp
<1>13. CASE SendRefused(h)
  BY <1>2, <1>6, <1>13, HandlerMoves DEF SendRefused, Responds
<1> QED BY <1>7, <1>8, <1>9, <1>10, <1>11, <1>12, <1>13

\* The new actor is the only one that runs, and it has not missed the activation.
LEMMA CreateStep ==
    ASSUME IInv, NEW h \in Handlers, Create(h) PROVE IInv'
<1> USE RegistryAssumption DEF IInv, RegistryInv
<1>1. PICK a \in Actors :
        /\ actor[a].st = "none"
        /\ actor' = [actor EXCEPT ![a] = [st |-> "running", status |-> handler[h].seen]]
        /\ entry' = a
        /\ handler' = [handler EXCEPT ![h] = [Free EXCEPT !.pc = "send", !.at = a]]
  BY DEF Create, GotActor
<1> DEFINE v == [Free EXCEPT !.pc = "send", !.at = a]
<1>2. v \in HandlerStates /\ v.pc = "send" /\ handler' = [handler EXCEPT ![h] = v]
  BY <1>1 DEF HandlerStates, Free
<1> HIDE DEF v
<1>3. /\ handler[h].pc = "create" /\ handler[h].seen \in {"PENDING", "ACTIVE"}
      /\ mu' = NoHandler /\ UNCHANGED <<db, inbox, activator, ender, shutdown, noticeLost>>
  BY DEF Create, TypeOK, HandlerStates
<1>4. /\ entry = NoActor /\ ender.pc \in {"idle", "lookup", "failed"}
      /\ db = "ACTIVE" /\ handler[h].seen = "PENDING" => activator.pc = "lookup" \/ noticeLost
      /\ \A g \in Handlers \ {h} : handler[g].pc \notin {"check", "read", "create"}
  BY <1>3 DEF MutexProtects
<1>5. /\ handler'[h] = v /\ \A g \in Handlers \ {h} : handler'[g] = handler[g]
      /\ actor'[a] = [st |-> "running", status |-> handler[h].seen]
      /\ \A b \in Actors \ {a} : actor'[b] = actor[b]
  BY <1>1, <1>2 DEF TypeOK
<1>6. TypeOK'
  BY <1>1, <1>2, <1>3 DEF TypeOK, Statuses
<1>7. RunningIsRegistered'
  BY <1>1, <1>3, <1>4, <1>5 DEF RunningIsRegistered, TypeOK
<1>8. EntryIsAlive' /\ EnderKnowsEntry' /\ EndedIsUnregistered'
  BY <1>1, <1>3, <1>4, <1>5 DEF EntryIsAlive, EnderKnowsEntry, EndedIsUnregistered
<1>9. ActivationIsSeen'
  BY <1>1, <1>3, <1>4, <1>5 DEF ActivationIsSeen
<1>10. WaitingIsQueued'
  BY <1>2, <1>3, <1>5 DEF WaitingIsQueued
<1>11. MutexProtects'
  BY <1>2, <1>4, <1>5 DEF MutexProtects
<1> QED BY <1>6, <1>7, <1>8, <1>9, <1>10, <1>11

LEMMA SendBidStep ==
    ASSUME IInv, NEW h \in Handlers, SendBid(h) PROVE IInv'
<1> USE RegistryAssumption DEF IInv, RegistryInv
<1> DEFINE a == handler[h].at
           v == [handler[h] EXCEPT !.pc = "wait"]
<1>1. /\ a \in Actors /\ v \in HandlerStates /\ v.pc = "wait" /\ v.at = a
      /\ handler' = [handler EXCEPT ![h] = v] /\ Bid(h) \in Messages
  BY DEF SendBid, Goto, TypeOK, HandlerStates, Messages
<1>2. Put(a, Bid(h)) /\ UNCHANGED <<db, mu, entry, actor, activator, ender, shutdown, noticeLost>>
  BY DEF SendBid
<1> HIDE DEF a, v
<1>3. /\ inbox' \in [Actors -> Seq(Messages)] /\ \A b \in Actors : Len(inbox'[b]) <= InboxSize
      /\ \E i \in 1 .. Len(inbox'[a]) : inbox'[a][i] = Bid(h)
      /\ \A b \in Actors : \A i \in 1 .. Len(inbox[b]) :
            i \in 1 .. Len(inbox'[b]) /\ inbox'[b][i] = inbox[b][i]
  BY <1>1, <1>2, PutLemma
<1>4. handler'[h] = v /\ \A g \in Handlers \ {h} : handler'[g] = handler[g]
  BY <1>1 DEF TypeOK
<1>5. TypeOK'
  BY <1>1, <1>2, <1>3 DEF TypeOK
<1>6. RunningIsRegistered' /\ EntryIsAlive' /\ EnderKnowsEntry' /\ EndedIsUnregistered'
  BY <1>2 DEF RunningIsRegistered, EntryIsAlive, EnderKnowsEntry, EndedIsUnregistered
<1>7. ActivationIsSeen'
  BY <1>2, <1>3 DEF ActivationIsSeen, TypeOK
<1>8. WaitingIsQueued'
  <2> SUFFICES ASSUME NEW g \in Handlers, handler'[g].pc = "wait"
               PROVE  \E i \in 1 .. Len(inbox'[handler'[g].at]) : inbox'[handler'[g].at][i] = Bid(g)
    BY DEF WaitingIsQueued, Bid
  <2>1. CASE g = h
    BY <1>1, <1>3, <1>4, <2>1
  <2>2. CASE g # h
    <3>1. handler'[g] = handler[g] /\ handler[g].at \in Actors
      BY <1>4, <2>2 DEF TypeOK, HandlerStates
    <3>2. PICK i \in 1 .. Len(inbox[handler[g].at]) : inbox[handler[g].at][i] = Bid(g)
      BY <3>1 DEF WaitingIsQueued
    <3> QED BY <1>3, <3>1, <3>2
  <2> QED BY <2>1, <2>2
<1>9. MutexProtects'
  BY <1>1, <1>2, <1>4 DEF MutexProtects
<1> QED BY <1>5, <1>6, <1>7, <1>8, <1>9

\* Taking a message: only the handler it frees stops waiting, and only an
\* activation that is read leaves the inbox.
LEMMA ReceiveStep ==
    ASSUME IInv, NEW a \in Actors, Receive(a) \/ Drain(a) PROVE IInv'
<1> USE RegistryAssumption DEF IInv, RegistryInv
<1> DEFINE m == Head(inbox[a])
<1>1. /\ inbox[a] # <<>> /\ inbox' = [inbox EXCEPT ![a] = Tail(@)] /\ Reply(m)
      /\ UNCHANGED <<db, mu, entry, activator, ender, shutdown, noticeLost>>
  BY DEF Receive, Drain
<1>2. m \in Messages
  BY <1>1, TakeLemma
<1>3. \E st \in {"running", "stopping", "removed", "draining", "dead"}, status \in Statuses :
        /\ actor' = [actor EXCEPT ![a] = [st |-> st, status |-> status]]
        /\ actor[a].st \in {"running", "stopping"} <=> st \in {"running", "stopping"}
        /\ status = "PENDING" => actor[a].status = "PENDING" /\ (Running(a) => m # Notice("activate"))
  <2>1. CASE Receive(a)
    <3> DEFINE st == IF m.kind \in {"end", "shutdown"} THEN "stopping" ELSE "running"
               status == IF m.kind = "end" THEN "ENDED"
                         ELSE IF m.kind = "activate" /\ actor[a].status = "PENDING" THEN "ACTIVE"
                         ELSE actor[a].status
    <3>1. actor' = [actor EXCEPT ![a] = [st |-> st, status |-> status]]
      BY <2>1 DEF Receive, TypeOK
    <3>2. status = "PENDING" => actor[a].status = "PENDING" /\ m # Notice("activate")
      BY DEF Notice
    <3>3. st \in {"running", "stopping"} /\ status \in Statuses /\ actor[a].st = "running"
      BY <2>1 DEF Receive, TypeOK, Running, Statuses
    <3> QED BY <3>1, <3>2, <3>3
  <2>2. CASE Drain(a)
    BY <2>2 DEF Drain, TypeOK, Running
  <2> QED BY <2>1, <2>2
<1>4. PICK st \in {"running", "stopping", "removed", "draining", "dead"}, status \in Statuses :
        /\ actor' = [actor EXCEPT ![a] = [st |-> st, status |-> status]]
        /\ actor[a].st \in {"running", "stopping"} <=> st \in {"running", "stopping"}
        /\ status = "PENDING" => actor[a].status = "PENDING" /\ (Running(a) => m # Notice("activate"))
  BY <1>3
<1>5. /\ inbox' \in [Actors -> Seq(Messages)] /\ \A b \in Actors : Len(inbox'[b]) <= InboxSize
      /\ \A b \in Actors : \A i \in 1 .. Len(inbox[b]) :
            \/ b = a /\ inbox[b][i] = m
            \/ \E j \in 1 .. Len(inbox'[b]) : inbox'[b][j] = inbox[b][i]
      /\ handler' \in [Handlers -> HandlerStates]
      /\ \A h \in Handlers :
            \/ handler'[h] = handler[h] /\ ~(handler[h].pc = "wait" /\ m = Bid(h))
            \/ handler'[h] = Free
  BY <1>1, TakeLemma
<1> HIDE DEF m
<1>6. /\ actor'[a] = [st |-> st, status |-> status] /\ \A b \in Actors \ {a} : actor'[b] = actor[b]
  BY <1>4 DEF TypeOK
<1>7. TypeOK'
  BY <1>1, <1>4, <1>5 DEF TypeOK
<1>8. RunningIsRegistered' /\ EntryIsAlive'
  BY <1>1, <1>4, <1>6 DEF RunningIsRegistered, EntryIsAlive, TypeOK
<1>9. EnderKnowsEntry' /\ EndedIsUnregistered'
  BY <1>1 DEF EnderKnowsEntry, EndedIsUnregistered
<1>10. MutexProtects'
  BY <1>1, <1>5 DEF MutexProtects, Free
<1>11. WaitingIsQueued'
  <2> SUFFICES ASSUME NEW h \in Handlers, handler'[h].pc = "wait"
               PROVE  \E i \in 1 .. Len(inbox'[handler'[h].at]) : inbox'[handler'[h].at][i] = Bid(h)
    BY DEF WaitingIsQueued, Bid
  <2>1. handler'[h] = handler[h] /\ handler[h].at \in Actors /\ m # Bid(h)
    BY <1>5 DEF Free, TypeOK, HandlerStates
  <2>2. PICK i \in 1 .. Len(inbox[handler[h].at]) : inbox[handler[h].at][i] = Bid(h)
    BY <2>1 DEF WaitingIsQueued
  <2> QED BY <1>5, <2>1, <2>2
<1>12. ActivationIsSeen'
  <2> SUFFICES ASSUME db = "ACTIVE", entry \in Actors, actor'[entry].status = "PENDING", ~noticeLost,
                      activator.pc # "lookup", activator.at # entry
               PROVE  \E i \in 1 .. Len(inbox'[entry]) : inbox'[entry][i].kind = "activate"
    BY <1>1 DEF ActivationIsSeen, TypeOK
  <2>1. actor[entry].status = "PENDING"
    BY <1>4, <1>6
  <2>2. PICK i \in 1 .. Len(inbox[entry]) : inbox[entry][i].kind = "activate"
    BY <2>1 DEF ActivationIsSeen, TypeOK
  <2>3. ~(entry = a /\ inbox[entry][i] = m)
    <3> SUFFICES ASSUME entry = a, inbox[entry][i] = m PROVE FALSE
      OBVIOUS
    <3>1. m = Notice("activate")
      BY <1>2, <2>2 DEF Messages, Bid, Notice
    <3>2. Running(a) \/ actor[a].st = "stopping"
      BY DEF EntryIsAlive, TypeOK, Running
    <3>3. Running(a)
      BY <3>2 DEF Receive, Drain, Running
    <3> QED BY <1>4, <1>6, <3>1, <3>3
  <2> QED BY <1>5, <2>2, <2>3
<1> QED BY <1>7, <1>8, <1>9, <1>10, <1>11, <1>12

\* The deferred function of an actor and its idle stop: no actor comes up, and
\* onRemove takes away the entry of the actor itself, if anyone's.
LEMMA ActorStep ==
    ASSUME IInv, NEW a \in Actors, IdleStop(a) \/ OnRemove(a) \/ CloseDone(a) \/ DrainEnds(a)
    PROVE  IInv'
<1> USE DEF IInv, RegistryInv
<1>1. UNCHANGED <<db, mu, inbox, handler, activator, ender, shutdown, noticeLost>>
  BY DEF IdleStop, OnRemove, CloseDone, DrainEnds
<1>2. PICK st \in {"stopping", "removed", "draining", "dead"} :
        /\ actor' = [actor EXCEPT ![a].st = st]
        /\ \/ entry' = entry /\ (actor[a].st \in {"running", "stopping"} <=> st = "stopping")
           \/ actor[a].st = "stopping" /\ st = "removed" /\ entry' = NoActor
  BY DEF IdleStop, OnRemove, CloseDone, DrainEnds, Running
<1>3. /\ actor'[a].st = st /\ actor'[a].status = actor[a].status
      /\ \A b \in Actors \ {a} : actor'[b] = actor[b]
  BY <1>2 DEF TypeOK
<1>4. TypeOK'
  <2>1. actor' \in [Actors -> [st : {"none", "running", "stopping", "removed", "draining", "dead"},
                              status : Statuses]]
    BY <1>2 DEF TypeOK
  <2>2. entry' \in Actors \cup {NoActor}
    BY <1>2 DEF TypeOK
  <2> QED BY <1>1, <2>1, <2>2 DEF TypeOK
<1>5. RunningIsRegistered' /\ EntryIsAlive'
  <2>1. CASE entry' = entry /\ (actor[a].st \in {"running", "stopping"} <=> st = "stopping")
    BY <1>1, <1>3, <2>1 DEF RunningIsRegistered, EntryIsAlive, TypeOK
  <2>2. CASE actor[a].st = "stopping" /\ st = "removed" /\ entry' = NoActor
    BY <1>1, <1>3, <2>2 DEF RunningIsRegistered, EntryIsAlive, TypeOK
  <2> QED BY <1>2, <2>1, <2>2
<1>6. WaitingIsQueued'
  BY <1>1 DEF WaitingIsQueued
<1>7. MutexProtects' /\ EnderKnowsEntry' /\ EndedIsUnregistered'
  BY <1>1, <1>2 DEF MutexProtects, EnderKnowsEntry, EndedIsUnregistered
<1>8. ActivationIsSeen'
  BY <1>1, <1>2, <1>3 DEF ActivationIsSeen, TypeOK
<1> QED BY <1>4, <1>5, <1>6, <1>7, <1>8

\* The loops and the shutdown: a notice lands in an inbox or is lost, the entry
\* goes only when the mutex is free, and no actor changes.
LEMMA NoticeLemma ==
    ASSUME TypeOK, NEW a \in Actors, NEW k \in {"activate", "end", "shutdown"}, Put(a, Notice(k))
    PROVE  /\ inbox' \in [Actors -> Seq(Messages)] /\ \A b \in Actors : Len(inbox'[b]) <= InboxSize
           /\ \E i \in 1 .. Len(inbox'[a]) : inbox'[a][i] = Notice(k)
           /\ \A b \in Actors : \A i \in 1 .. Len(inbox[b]) :
                 i \in 1 .. Len(inbox'[b]) /\ inbox'[b][i] = inbox[b][i]
<1>1. Notice(k) \in Messages
  BY DEF Messages
<1> QED BY <1>1, PutLemma

\* A step that takes nothing out of an inbox keeps the messages somebody counts on.
LEMMA KeptLemma ==
    ASSUME TypeOK, UNCHANGED <<handler, entry, actor>>,
           \A b \in Actors : \A i \in 1 .. Len(inbox[b]) :
              i \in 1 .. Len(inbox'[b]) /\ inbox'[b][i] = inbox[b][i]
    PROVE  /\ WaitingIsQueued => WaitingIsQueued'
           /\ ActivationIsSeen /\ UNCHANGED <<db, activator, noticeLost>> => ActivationIsSeen'
<1>1. ASSUME WaitingIsQueued PROVE WaitingIsQueued'
  <2> SUFFICES ASSUME NEW h \in Handlers, handler[h].pc = "wait"
               PROVE  \E i \in 1 .. Len(inbox'[handler[h].at]) : inbox'[handler[h].at][i] = Bid(h)
    BY DEF WaitingIsQueued, Bid
  <2>1. handler[h].at \in Actors
    BY DEF TypeOK, HandlerStates
  <2>2. PICK i \in 1 .. Len(inbox[handler[h].at]) : inbox[handler[h].at][i] = Bid(h)
    BY <1>1 DEF WaitingIsQueued
  <2> QED BY <2>1, <2>2
<1>2. ASSUME ActivationIsSeen, UNCHANGED <<db, activator, noticeLost>> PROVE ActivationIsSeen'
  <2> SUFFICES ASSUME db = "ACTIVE", entry \in Actors, actor[entry].status = "PENDING", ~noticeLost,
                      activator.pc # "lookup", activator.at # entry
               PROVE  \E i \in 1 .. Len(inbox'[entry]) : inbox'[entry][i].kind = "activate"
    BY <1>2 DEF ActivationIsSeen, TypeOK
  <2>1. PICK i \in 1 .. Len(inbox[entry]) : inbox[entry][i].kind = "activate"
    BY <1>2, RegistryAssumption DEF ActivationIsSeen
  <2> QED BY <2>1
<1> QED BY <1>1, <1>2

LEMMA ActivatorStep ==
    ASSUME IInv, Activator PROVE IInv'
<1> USE DEF IInv, RegistryInv
<1>1. UNCHANGED <<mu, entry, actor, handler, ender, shutdown>>
  BY DEF Activator, ActivateTick, NotifyActivated, SendActivated
<1>2. RunningIsRegistered' /\ EntryIsAlive' /\ EnderKnowsEntry' /\ EndedIsUnregistered'
  BY <1>1 DEF RunningIsRegistered, EntryIsAlive, EnderKnowsEntry, EndedIsUnregistered,
              Activator, ActivateTick, NotifyActivated, SendActivated
<1>3. CASE ActivateTick
  <2>1. TypeOK'
    BY <1>3 DEF TypeOK, ActivateTick, Statuses
  <2>2. db' = "ACTIVE" /\ (activator'.pc = "lookup" \/ noticeLost') /\ UNCHANGED <<inbox, handler>>
    BY <1>3 DEF ActivateTick, TypeOK
  <2>3. MutexProtects'
    BY <1>1, <2>2 DEF MutexProtects
  <2>4. WaitingIsQueued' /\ ActivationIsSeen'
    BY <2>2 DEF WaitingIsQueued, ActivationIsSeen
  <2> QED BY <1>2, <2>1, <2>3, <2>4
<1>4. CASE NotifyActivated
  <2>1. TypeOK'
    BY <1>4, RegistryAssumption DEF TypeOK, NotifyActivated
  <2>2. MutexProtects'
    BY <1>4, RegistryAssumption DEF MutexProtects, NotifyActivated, TypeOK
  <2>3. WaitingIsQueued' /\ ActivationIsSeen'
    BY <1>4 DEF WaitingIsQueued, ActivationIsSeen, NotifyActivated
  <2> QED BY <1>2, <2>1, <2>2, <2>3
<1>5. CASE SendActivated
  <2>1. activator.pc = "send" /\ activator.at \in Actors
    BY <1>5 DEF SendActivated, TypeOK
  <2>2. /\ activator' = [pc |-> "idle", at |-> NoActor]
        /\ UNCHANGED <<db, mu, entry, actor, handler, ender, shutdown>>
    BY <1>5 DEF SendActivated
  <2>3. CASE UNCHANGED inbox /\ noticeLost' = TRUE
    <3>1. TypeOK'
      BY <2>2, <2>3, RegistryAssumption DEF TypeOK
    <3>2. MutexProtects' /\ WaitingIsQueued' /\ ActivationIsSeen'
      BY <2>2, <2>3 DEF MutexProtects, WaitingIsQueued, ActivationIsSeen
    <3> QED BY <1>2, <3>1, <3>2
  <2>4. CASE Put(activator.at, Notice("activate")) /\ UNCHANGED noticeLost
    <3>1. /\ inbox' \in [Actors -> Seq(Messages)] /\ \A b \in Actors : Len(inbox'[b]) <= InboxSize
          /\ \E i \in 1 .. Len(inbox'[activator.at]) : inbox'[activator.at][i] = Notice("activate")
          /\ \A b \in Actors : \A i \in 1 .. Len(inbox[b]) :
                i \in 1 .. Len(inbox'[b]) /\ inbox'[b][i] = inbox[b][i]
      BY <2>1, <2>4, NoticeLemma
    <3>2. TypeOK'
      BY <2>2, <2>4, <3>1, RegistryAssumption DEF TypeOK
    <3>3. MutexProtects'
      BY <2>1, <2>2, <2>4 DEF MutexProtects
    <3>4. WaitingIsQueued'
      BY <2>2, <3>1, KeptLemma
    <3>5. ActivationIsSeen'
      BY <2>1, <2>2, <2>4, <3>1 DEF ActivationIsSeen, TypeOK, Notice
    <3> QED BY <1>2, <3>2, <3>3, <3>4, <3>5
  <2> QED BY <1>5, <2>3, <2>4 DEF SendActivated
<1> QED BY <1>3, <1>4, <1>5 DEF Activator

LEMMA EnderStep ==
    ASSUME IInv, Ender PROVE IInv'
<1> USE DEF IInv, RegistryInv
<1>1. /\ UNCHANGED <<mu, actor, handler, activator, shutdown, noticeLost>>
      /\ db' = db \/ (db = "ACTIVE" /\ db' = "ENDED")
      /\ entry' = entry \/ (entry' = NoActor /\ mu = NoHandler /\ db = "ENDED")
  <2>1. CASE EndTick
    BY <2>1 DEF EndTick
  <2>2. CASE RemoveEnded
    BY <2>2 DEF RemoveEnded, EnderKnowsEntry
  <2>3. CASE NotifyEnded \/ SendEnded \/ AwaitEnded
    BY <2>3 DEF NotifyEnded, SendEnded, AwaitEnded
  <2> QED BY <2>1, <2>2, <2>3 DEF Ender
<1>2. RunningIsRegistered' /\ EntryIsAlive'
  BY <1>1 DEF RunningIsRegistered, EntryIsAlive
<1>3. MutexProtects'
  <2>1. \/ mu = NoHandler \/ ender.pc \in {"send", "await"} \/ ender'.pc \in {"lookup", "failed"}
    BY DEF Ender, EndTick, NotifyEnded, SendEnded, AwaitEnded, RemoveEnded, TypeOK
  <2>2. ASSUME NEW h \in Handlers, handler[h].pc = "create"
        PROVE  mu = h /\ mu # NoHandler /\ ender.pc \in {"idle", "lookup", "failed"}
    BY <2>2, RegistryAssumption DEF MutexProtects
  <2>3. ASSUME NEW h \in Handlers, handler[h].pc = "create"
        PROVE  ender'.pc \in {"idle", "lookup", "failed"}
    BY <2>1, <2>2, <2>3
  <2>4. ASSUME NEW h \in Handlers, handler[h].pc = "create", db' = "ACTIVE"
        PROVE  db = "ACTIVE"
    BY <1>1, <2>4
  <2>5. ASSUME NEW h \in Handlers, handler[h].pc \in {"read", "create"}
        PROVE  entry' = NoActor
    BY <1>1, <2>5 DEF MutexProtects
  <2> QED BY <1>1, <2>3, <2>4, <2>5 DEF MutexProtects
<1>4. EnderKnowsEntry' /\ EndedIsUnregistered'
  <2>1. CASE EndTick
    <3>1. ender'.pc \in {"lookup", "failed"} /\ db' = "ENDED"
      BY <2>1 DEF EndTick, TypeOK
    <3> QED BY <3>1 DEF EnderKnowsEntry, EndedIsUnregistered
  <2>2. CASE NotifyEnded
    BY <2>2 DEF NotifyEnded, EnderKnowsEntry, EndedIsUnregistered
  <2>3. CASE SendEnded
    <3>1. /\ ender'.pc \in {"await", "remove"} /\ ender'.at = ender.at /\ ender.pc = "send"
          /\ UNCHANGED <<db, entry>>
      BY <2>3 DEF SendEnded, TypeOK
    <3> QED BY <3>1 DEF EnderKnowsEntry, EndedIsUnregistered
  <2>4. CASE AwaitEnded
    <3>1. /\ ender.pc = "await" /\ UNCHANGED <<db, entry>>
          /\ \/ Done(ender.at) /\ ender'.pc = "over"
             \/ ender'.pc = "remove" /\ ender'.at = ender.at
      BY <2>4 DEF AwaitEnded, TypeOK
    <3>2. Done(ender.at) => entry = NoActor
      BY <3>1 DEF EnderKnowsEntry, EntryIsAlive, Done
    <3> QED BY <3>1, <3>2 DEF EnderKnowsEntry, EndedIsUnregistered
  <2>5. CASE RemoveEnded
    BY <2>5 DEF RemoveEnded, EnderKnowsEntry, EndedIsUnregistered
  <2> QED BY <2>1, <2>2, <2>3, <2>4, <2>5 DEF Ender
<1>5. CASE UNCHANGED inbox
  <2>1. TypeOK'
    <3>1. /\ db' \in Statuses /\ entry' \in Actors \cup {NoActor}
      BY <1>1 DEF TypeOK, Statuses
    <3>2. /\ ender' \in [pc : {"idle", "lookup", "failed", "send", "await", "remove", "over"},
                         at : Actors \cup {NoActor}]
          /\ ender'.pc \in {"send", "await", "remove"} => ender'.at \in Actors
      <4>1. CASE EndTick
        BY <4>1 DEF EndTick, TypeOK
      <4>2. CASE NotifyEnded
        BY <4>2 DEF NotifyEnded, TypeOK
      <4>3. CASE SendEnded
        BY <4>3 DEF SendEnded, TypeOK
      <4>4. CASE AwaitEnded
        <5>1. CASE ender' = [ender EXCEPT !.pc = "remove"]
          BY <4>4, <5>1 DEF AwaitEnded, TypeOK
        <5> QED BY <4>4, <5>1 DEF AwaitEnded
      <4>5. CASE RemoveEnded
        BY <4>5 DEF RemoveEnded, TypeOK
      <4> QED BY <4>1, <4>2, <4>3, <4>4, <4>5 DEF Ender
    <3> QED BY <1>1, <1>5, <3>1, <3>2 DEF TypeOK
  <2>2. WaitingIsQueued' /\ ActivationIsSeen'
    BY <1>1, <1>5 DEF WaitingIsQueued, ActivationIsSeen
  <2> QED BY <1>2, <1>3, <1>4, <2>1, <2>2
<1>6. CASE SendEnded /\ Put(ender.at, Notice("end")) /\ ender' = [ender EXCEPT !.pc = "await"]
  <2>1. ender.pc = "send" /\ ender.at \in Actors /\ UNCHANGED <<db, entry>>
    BY <1>6 DEF SendEnded, TypeOK
  <2>2. /\ inbox' \in [Actors -> Seq(Messages)] /\ \A b \in Actors : Len(inbox'[b]) <= InboxSize
        /\ \A b \in Actors : \A i \in 1 .. Len(inbox[b]) :
              i \in 1 .. Len(inbox'[b]) /\ inbox'[b][i] = inbox[b][i]
    BY <1>6, <2>1, NoticeLemma
  <2>3. TypeOK'
    BY <1>1, <1>6, <2>1, <2>2 DEF TypeOK
  <2>4. WaitingIsQueued' /\ ActivationIsSeen'
    BY <1>1, <2>1, <2>2, KeptLemma
  <2> QED BY <1>2, <1>3, <1>4, <2>3, <2>4
<1> QED BY <1>5, <1>6 DEF Ender, EndTick, NotifyEnded, SendEnded, AwaitEnded, RemoveEnded

LEMMA ShutdownStep ==
    ASSUME IInv, Shutdown PROVE IInv'
<1> USE DEF IInv, RegistryInv
<1>1. /\ UNCHANGED <<db, mu, actor, handler, activator, ender, noticeLost>>
      /\ \/ entry' = entry /\ (shutdown.pc = "over" <=> shutdown'.pc = "over")
         \/ entry' = NoActor /\ mu = NoHandler /\ shutdown'.pc = "over"
  BY DEF Shutdown, ShutdownSnapshot, SendShutdown, AwaitShutdown, ResetRegistry, TypeOK
<1>2. RunningIsRegistered' /\ EntryIsAlive' /\ EnderKnowsEntry' /\ EndedIsUnregistered'
  BY <1>1 DEF RunningIsRegistered, EntryIsAlive, EnderKnowsEntry, EndedIsUnregistered
<1>3. MutexProtects'
  BY <1>1, RegistryAssumption DEF MutexProtects
<1>4. CASE UNCHANGED inbox
  <2>1. TypeOK'
    <3>1. entry' \in Actors \cup {NoActor}
      BY <1>1 DEF TypeOK
    <3>2. /\ shutdown' \in [pc : {"idle", "send", "await", "reset", "over"}, at : Actors \cup {NoActor}]
          /\ shutdown'.pc \in {"send", "await"} => shutdown'.at \in Actors
      <4>1. CASE ShutdownSnapshot
        BY <4>1 DEF ShutdownSnapshot, TypeOK
      <4>2. CASE SendShutdown
        BY <4>2 DEF SendShutdown, TypeOK
      <4>3. CASE AwaitShutdown
        BY <4>3 DEF AwaitShutdown, TypeOK
      <4>4. CASE ResetRegistry
        BY <4>4 DEF ResetRegistry, TypeOK
      <4> QED BY <4>1, <4>2, <4>3, <4>4 DEF Shutdown
    <3> QED BY <1>1, <1>4, <3>1, <3>2 DEF TypeOK
  <2>2. WaitingIsQueued' /\ ActivationIsSeen'
    BY <1>1, <1>4 DEF WaitingIsQueued, ActivationIsSeen
  <2> QED BY <1>2, <1>3, <2>1, <2>2
<1>5. CASE SendShutdown /\ Put(shutdown.at, Notice("shutdown"))
  <2>1. /\ shutdown.pc = "send" /\ shutdown.at \in Actors /\ UNCHANGED entry
        /\ shutdown' = [shutdown EXCEPT !.pc = "await"]
    BY <1>5 DEF SendShutdown, TypeOK
  <2>2. /\ inbox' \in [Actors -> Seq(Messages)] /\ \A b \in Actors : Len(inbox'[b]) <= InboxSize
        /\ \A b \in Actors : \A i \in 1 .. Len(inbox[b]) :
              i \in 1 .. Len(inbox'[b]) /\ inbox'[b][i] = inbox[b][i]
    BY <1>5, <2>1, NoticeLemma
  <2>3. TypeOK'
    BY <1>1, <2>1, <2>2 DEF TypeOK
  <2>4. WaitingIsQueued' /\ ActivationIsSeen'
    BY <1>1, <2>1, <2>2, KeptLemma
  <2> QED BY <1>2, <1>3, <2>3, <2>4
<1> QED BY <1>4, <1>5 DEF Shutdown, ShutdownSnapshot, SendShutdown, AwaitShutdown, ResetRegistry

-----------------------------------------------------------------------------
(* The theorems.                                                            *)

LEMMA NextLemma == IInv /\ [Next]_vars => IInv'
<1> SUFFICES ASSUME IInv, [Next]_vars PROVE IInv'
  OBVIOUS
<1>1. CASE UNCHANGED vars
  BY <1>1 DEF vars, IInv, RegistryInv, TypeOK, RunningIsRegistered, EntryIsAlive, WaitingIsQueued,
     MutexProtects, EnderKnowsEntry, ActivationIsSeen, EndedIsUnregistered
<1>2. ASSUME NEW h \in Handlers, Request(h) PROVE IInv'
  BY <1>2, RequestStep, CreateStep, SendBidStep DEF Request, GetOrCreate
<1>3. ASSUME NEW a \in Actors, Run(a) PROVE IInv'
  BY <1>3, ReceiveStep, ActorStep DEF Run, Finish
<1> QED BY <1>1, <1>2, <1>3, ActivatorStep, EnderStep, ShutdownStep DEF Next

LEMMA RegistryInvariance == Spec => []IInv
BY InitLemma, NextLemma, PTL DEF Spec

\* An auction has one actor, the registry hands out no actor that has gone, and
\* no waiting request was dropped (GetOrCreate, onRemove, drainInbox).
THEOREM OneActor == Spec => []RegistryInv
<1>1. IInv => RegistryInv
  BY DEF IInv
<1> QED BY <1>1, RegistryInvariance, PTL

\* An activation reaches the actor that was built before it, or is known to be
\* lost (GetOrCreate reads the row and registers the actor under one lock).
THEOREM ActivationSeen == Spec => []ActivationIsSeen
<1>1. IInv => ActivationIsSeen
  BY DEF IInv
<1> QED BY <1>1, RegistryInvariance, PTL

\* Nobody finds the actor of an auction after NotifyEnded has returned, although
\* it waits five seconds only and requests are creating actors meanwhile.
THEOREM EndedUnregistered == Spec => []EndedIsUnregistered
<1>1. IInv => EndedIsUnregistered
  BY DEF IInv
<1> QED BY <1>1, RegistryInvariance, PTL
=============================================================================
