--------------------------- MODULE ActorRegistry ----------------------------
(* The registry that finds or creates the actor of an auction, the life of  *)
(* the actor's goroutine from its start to the end of its drain, and the    *)
(* processes that race for both: request handlers (GetOrCreate + Send), the *)
(* two loops of the scheduler (NotifyActivated, NotifyEnded) and            *)
(* ShutdownAll.  One auction; its row is reduced to its status.             *)
(*                                                                          *)
(* GetOrCreate holds the registry mutex while it reads the row.  Go's       *)
(* select chooses at random among the ready cases, so a Send to an actor    *)
(* whose `done` is closed may still put its message in the inbox.           *)
EXTENDS Integers, Sequences, FiniteSets

CONSTANTS
    Handlers, NoHandler,    \* request goroutines
    Actors, NoActor,        \* incarnations of the auction's actor
    InboxSize,              \* capacity of an inbox
    Watched                 \* some WebSocket client stays connected: no idle stop

ASSUME RegistryAssumption ==
    /\ NoHandler \notin Handlers /\ NoActor \notin Actors
    /\ InboxSize \in Nat \ {0} /\ Watched \in BOOLEAN

VARIABLES
    db,         \* the status in the row
    mu,         \* the handler that holds the mutex across steps, or NoHandler
    entry,      \* r.actors[auctionID]
    actor,      \* the goroutines
    inbox,      \* their mailboxes
    handler,    \* the request handlers
    activator, ender, shutdown,    \* activateLoop, endLoop, ShutdownAll
    noticeLost  \* an activation was committed and its notice never delivered

vars == <<db, mu, entry, actor, inbox, handler, activator, ender, shutdown, noticeLost>>

Free      == [pc |-> "idle", at |-> NoActor, seen |-> "PENDING"]
Bid(h)    == [kind |-> "bid", from |-> h]
Notice(k) == [kind |-> k, from |-> NoHandler]

Running(a) == actor[a].st = "running"
Done(a)    == actor[a].st \in {"draining", "dead"}      \* `done` is closed
Alive(a)   == a # NoActor /\ ~Done(a)

Init ==
    /\ db = "PENDING"
    /\ mu = NoHandler
    /\ entry = NoActor
    /\ actor = [a \in Actors |-> [st |-> "none", status |-> "PENDING"]]
    /\ inbox = [a \in Actors |-> <<>>]
    /\ handler = [h \in Handlers |-> Free]
    /\ activator = [pc |-> "idle", at |-> NoActor]
    /\ ender = [pc |-> "idle", at |-> NoActor]
    /\ shutdown = [pc |-> "idle", at |-> NoActor]
    /\ noticeLost = FALSE

-----------------------------------------------------------------------------
(* Send: done, room, or a full inbox for sendTimeout.                       *)

Refuses(a) == Done(a) \/ Len(inbox[a]) >= InboxSize
Put(a, m)  == Len(inbox[a]) < InboxSize /\ inbox' = [inbox EXCEPT ![a] = Append(@, m)]

-----------------------------------------------------------------------------
(* A request: GetOrCreate, Send, wait for the reply.                        *)

Goto(h, pc)     == handler' = [handler EXCEPT ![h].pc = pc]
GotActor(h, a)  == handler' = [handler EXCEPT ![h] = [Free EXCEPT !.pc = "send", !.at = a]]
Responds(h)     == handler' = [handler EXCEPT ![h] = Free]      \* and the next request comes

\* Lookup under RLock.
FastPath(h) ==
    /\ handler[h].pc = "idle" /\ mu = NoHandler
    /\ IF Alive(entry) THEN GotActor(h, entry) ELSE Goto(h, "lock")
    /\ UNCHANGED <<db, mu, entry, actor, inbox, activator, ender, shutdown, noticeLost>>

Lock(h) ==
    /\ handler[h].pc = "lock" /\ mu = NoHandler
    /\ mu' = h
    /\ Goto(h, "check")
    /\ UNCHANGED <<db, entry, actor, inbox, activator, ender, shutdown, noticeLost>>

DoubleCheckSkipped(h) ==
    /\ handler[h].pc = "check"
    /\ Goto(h, "read") /\ entry' = NoActor /\ UNCHANGED mu
    /\ UNCHANGED <<db, actor, inbox, activator, ender, shutdown, noticeLost>>

\* "double check": another goroutine may have created the actor meanwhile.
DoubleCheck(h) ==
    /\ handler[h].pc = "check"
    /\ IF Alive(entry)
         THEN GotActor(h, entry) /\ mu' = NoHandler /\ UNCHANGED entry
         ELSE Goto(h, "read") /\ entry' = NoActor /\ UNCHANGED mu
    /\ UNCHANGED <<db, actor, inbox, activator, ender, shutdown, noticeLost>>

ReadRowUnlocked(h) ==
    /\ handler[h].pc = "read"
    /\ db # "ENDED" /\ \E a \in Actors : actor[a].st = "none"
    /\ handler' = [handler EXCEPT ![h].pc = "create", ![h].seen = db]
    /\ mu' = NoHandler
    /\ UNCHANGED <<db, entry, actor, inbox, activator, ender, shutdown, noticeLost>>

\* GetAuctionForActor; the mutex stays locked.  Bound: one actor is left to start.
ReadRow(h) ==
    /\ handler[h].pc = "read"
    /\ db # "ENDED" /\ \E a \in Actors : actor[a].st = "none"
    /\ handler' = [handler EXCEPT ![h].pc = "create", ![h].seen = db]
    /\ UNCHANGED <<db, mu, entry, actor, inbox, activator, ender, shutdown, noticeLost>>

ReadRefusedLocked(h) ==
    /\ handler[h].pc = "read"
    /\ Responds(h)
    /\ UNCHANGED <<db, mu, entry, actor, inbox, activator, ender, shutdown, noticeLost>>

\* A query error, or ErrAuctionAlreadyEnded.
ReadRefused(h) ==
    /\ handler[h].pc = "read"
    /\ mu' = NoHandler
    /\ Responds(h)
    /\ UNCHANGED <<db, entry, actor, inbox, activator, ender, shutdown, noticeLost>>

Create(h) ==
    /\ handler[h].pc = "create"
    /\ \E a \in Actors :
          /\ actor[a].st = "none"
          /\ actor' = [actor EXCEPT ![a] = [st |-> "running", status |-> handler[h].seen]]
          /\ entry' = a
          /\ GotActor(h, a)
    /\ mu' = NoHandler
    /\ UNCHANGED <<db, inbox, activator, ender, shutdown, noticeLost>>

SendBid(h) ==
    /\ handler[h].pc = "send"
    /\ Put(handler[h].at, Bid(h))
    /\ Goto(h, "wait")
    /\ UNCHANGED <<db, mu, entry, actor, activator, ender, shutdown, noticeLost>>

\* ctx.Done while waiting: the client went away, the reply goes nowhere.
GiveUp(h) ==
    /\ handler[h].pc = "wait"
    /\ Goto(h, "gone")
    /\ UNCHANGED <<db, mu, entry, actor, inbox, activator, ender, shutdown, noticeLost>>

\* SendWithContext returns false: `done` is closed, or the client went away.
SendRefused(h) ==
    /\ handler[h].pc = "send"
    /\ Responds(h)
    /\ UNCHANGED <<db, mu, entry, actor, inbox, activator, ender, shutdown, noticeLost>>

-----------------------------------------------------------------------------
(* The actor's goroutine.                                                   *)

Reply(m) == handler' = IF m.kind = "bid" /\ handler[m.from].pc = "wait"
                         THEN [handler EXCEPT ![m.from] = Free]
                         ELSE handler

Receive(a) ==
    /\ Running(a) /\ inbox[a] # <<>>
    /\ inbox' = [inbox EXCEPT ![a] = Tail(@)]
    /\ Reply(Head(inbox[a]))
    /\ LET k == Head(inbox[a]).kind IN
         actor' = [actor EXCEPT ![a] =
            [st     |-> IF k \in {"end", "shutdown"} THEN "stopping" ELSE "running",
             status |-> IF k = "end" THEN "ENDED"
                        ELSE IF k = "activate" /\ @.status = "PENDING" THEN "ACTIVE"
                        ELSE @.status]]
    /\ UNCHANGED <<db, mu, entry, activator, ender, shutdown, noticeLost>>

IdleStop(a) ==
    /\ Running(a) /\ inbox[a] = <<>> /\ ~Watched
    /\ actor' = [actor EXCEPT ![a].st = "stopping"]
    /\ UNCHANGED <<db, mu, entry, inbox, handler, activator, ender, shutdown, noticeLost>>

\* The deferred function of run: onRemove, close(done), drain.
OnRemove(a) ==
    /\ actor[a].st = "stopping" /\ mu = NoHandler
    /\ entry' = NoActor
    /\ actor' = [actor EXCEPT ![a].st = "removed"]
    /\ UNCHANGED <<db, mu, inbox, handler, activator, ender, shutdown, noticeLost>>

CloseDone(a) ==
    /\ actor[a].st = "removed"
    /\ actor' = [actor EXCEPT ![a].st = "draining"]
    /\ UNCHANGED <<db, mu, entry, inbox, handler, activator, ender, shutdown, noticeLost>>

Drain(a) ==
    /\ actor[a].st = "draining" /\ inbox[a] # <<>>
    /\ inbox' = [inbox EXCEPT ![a] = Tail(@)]
    /\ Reply(Head(inbox[a]))
    /\ UNCHANGED <<db, mu, entry, actor, activator, ender, shutdown, noticeLost>>

DrainEnds(a) ==
    /\ actor[a].st = "draining" /\ inbox[a] = <<>>
    /\ actor' = [actor EXCEPT ![a].st = "dead"]
    /\ UNCHANGED <<db, mu, entry, inbox, handler, activator, ender, shutdown, noticeLost>>

-----------------------------------------------------------------------------
(* activateLoop and endLoop.  A statement may commit and still return an    *)
(* error; then nobody is notified and no later tick finds the row again.    *)

ActivateTick ==
    /\ activator.pc = "idle" /\ db = "PENDING"
    /\ db' = "ACTIVE"
    /\ \/ activator' = [activator EXCEPT !.pc = "lookup"] /\ UNCHANGED noticeLost
       \/ noticeLost' = TRUE /\ UNCHANGED activator
    /\ UNCHANGED <<mu, entry, actor, inbox, handler, ender, shutdown>>

NotifyActivated ==
    /\ activator.pc = "lookup" /\ mu = NoHandler
    /\ activator' = IF entry = NoActor THEN [pc |-> "idle", at |-> NoActor]
                                       ELSE [pc |-> "send", at |-> entry]
    /\ UNCHANGED <<db, mu, entry, actor, inbox, handler, ender, shutdown, noticeLost>>

\* The result of Send is ignored.
SendActivated ==
    /\ activator.pc = "send"
    /\ \/ Put(activator.at, Notice("activate")) /\ UNCHANGED noticeLost
       \/ /\ Refuses(activator.at)
          /\ noticeLost' = TRUE
          /\ UNCHANGED inbox
    /\ activator' = [pc |-> "idle", at |-> NoActor]
    /\ UNCHANGED <<db, mu, entry, actor, handler, ender, shutdown>>

EndTick ==
    /\ ender.pc = "idle" /\ db = "ACTIVE"
    /\ db' = "ENDED"
    /\ \/ ender' = [ender EXCEPT !.pc = "lookup"]
       \/ ender' = [ender EXCEPT !.pc = "failed"]
    /\ UNCHANGED <<mu, entry, actor, inbox, handler, activator, shutdown, noticeLost>>

NotifyEnded ==
    /\ ender.pc = "lookup" /\ mu = NoHandler
    /\ ender' = IF entry = NoActor THEN [pc |-> "over", at |-> NoActor]
                                   ELSE [pc |-> "send", at |-> entry]
    /\ UNCHANGED <<db, mu, entry, actor, inbox, handler, activator, shutdown, noticeLost>>

SendEnded ==
    /\ ender.pc = "send"
    /\ \/ Put(ender.at, Notice("end")) /\ ender' = [ender EXCEPT !.pc = "await"]
       \/ Refuses(ender.at) /\ ender' = [ender EXCEPT !.pc = "remove"] /\ UNCHANGED inbox
    /\ UNCHANGED <<db, mu, entry, actor, handler, activator, shutdown, noticeLost>>

AwaitEndedForgets ==
    /\ ender.pc = "await"
    /\ ender' = [pc |-> "over", at |-> NoActor]
    /\ UNCHANGED <<db, mu, entry, actor, inbox, handler, activator, shutdown, noticeLost>>

\* `done`, or five seconds.
AwaitEnded ==
    /\ ender.pc = "await"
    /\ \/ Done(ender.at) /\ ender' = [pc |-> "over", at |-> NoActor]
       \/ ~Done(ender.at) /\ ender' = [ender EXCEPT !.pc = "remove"]
    /\ UNCHANGED <<db, mu, entry, actor, inbox, handler, activator, shutdown, noticeLost>>

RemoveEnded ==
    /\ ender.pc = "remove" /\ mu = NoHandler
    /\ entry' = NoActor
    /\ ender' = [pc |-> "over", at |-> NoActor]
    /\ UNCHANGED <<db, mu, actor, inbox, handler, activator, shutdown, noticeLost>>

-----------------------------------------------------------------------------
(* ShutdownAll.                                                             *)

ShutdownSnapshot ==
    /\ shutdown.pc = "idle" /\ mu = NoHandler
    /\ shutdown' = IF entry = NoActor THEN [pc |-> "reset", at |-> NoActor]
                                      ELSE [pc |-> "send", at |-> entry]
    /\ UNCHANGED <<db, mu, entry, actor, inbox, handler, activator, ender, noticeLost>>

\* The result of Send is ignored here too.
SendShutdown ==
    /\ shutdown.pc = "send"
    /\ \/ Put(shutdown.at, Notice("shutdown"))
       \/ Refuses(shutdown.at) /\ UNCHANGED inbox
    /\ shutdown' = [shutdown EXCEPT !.pc = "await"]
    /\ UNCHANGED <<db, mu, entry, actor, handler, activator, ender, noticeLost>>

AwaitShutdown ==
    /\ shutdown.pc = "await" /\ Done(shutdown.at)
    /\ shutdown' = [pc |-> "reset", at |-> NoActor]
    /\ UNCHANGED <<db, mu, entry, actor, inbox, handler, activator, ender, noticeLost>>

ResetRegistry ==
    /\ shutdown.pc = "reset" /\ mu = NoHandler
    /\ entry' = NoActor
    /\ shutdown' = [pc |-> "over", at |-> NoActor]
    /\ UNCHANGED <<db, mu, actor, inbox, handler, activator, ender, noticeLost>>

-----------------------------------------------------------------------------
GetOrCreate(h) ==
    FastPath(h) \/ Lock(h) \/ DoubleCheck(h) \/ ReadRow(h) \/ ReadRefused(h) \/ Create(h)
Locked(h)  == DoubleCheck(h) \/ ReadRow(h) \/ ReadRefused(h) \/ Create(h)
Request(h) == GetOrCreate(h) \/ SendBid(h) \/ GiveUp(h) \/ SendRefused(h)
Finish(a)  == OnRemove(a) \/ CloseDone(a) \/ Drain(a) \/ DrainEnds(a)
Run(a)     == Receive(a) \/ IdleStop(a) \/ Finish(a)
Activator  == ActivateTick \/ NotifyActivated \/ SendActivated
Ender      == EndTick \/ NotifyEnded \/ SendEnded \/ AwaitEnded \/ RemoveEnded
Shutdown   == ShutdownSnapshot \/ SendShutdown \/ AwaitShutdown \/ ResetRegistry

Next ==
    \/ \E h \in Handlers : Request(h)
    \/ \E a \in Actors : Run(a)
    \/ Activator \/ Ender \/ Shutdown

Spec == Init /\ [][Next]_vars

\* Goroutines that can run do run, and sync.RWMutex starves nobody: a waiting
\* Lock holds back later readers, a reader the next writer (strong fairness of
\* the steps that take the mutex).  Nothing forces new requests, a client to go
\* away, the tickers to find work or the operator to stop the server.
StopAndEndSpec ==
    /\ Spec
    /\ WF_vars(\E h \in Handlers : Locked(h))
    /\ \A a \in Actors : SF_vars(OnRemove(a)) /\ WF_vars(CloseDone(a))
    /\ SF_vars(NotifyEnded \/ RemoveEnded) /\ WF_vars(SendEnded \/ AwaitEnded)

LiveSpec ==
    /\ StopAndEndSpec
    /\ \A h \in Handlers : SF_vars(Lock(h))
    /\ \A a \in Actors : WF_vars(Receive(a)) /\ WF_vars(Drain(a) \/ DrainEnds(a))
    /\ SF_vars(NotifyActivated) /\ WF_vars(SendActivated)
    /\ SF_vars(ResetRegistry) /\ WF_vars(SendShutdown \/ AwaitShutdown)

-----------------------------------------------------------------------------
(* Properties.                                                              *)

Statuses == {"PENDING", "ACTIVE", "ENDED"}
Messages == {Bid(h) : h \in Handlers} \cup {Notice(k) : k \in {"activate", "end", "shutdown"}}
HandlerStates ==
    {v \in [pc : {"idle", "lock", "check", "read", "create", "send", "wait", "gone"},
            at : Actors \cup {NoActor}, seen : {"PENDING", "ACTIVE"}] :
        v.pc \in {"send", "wait"} => v.at \in Actors}

TypeOK ==
    /\ db \in Statuses /\ noticeLost \in BOOLEAN
    /\ mu \in Handlers \cup {NoHandler} /\ entry \in Actors \cup {NoActor}
    /\ actor \in [Actors -> [st : {"none", "running", "stopping", "removed", "draining", "dead"},
                             status : Statuses]]
    /\ inbox \in [Actors -> Seq(Messages)] /\ \A a \in Actors : Len(inbox[a]) <= InboxSize
    /\ handler \in [Handlers -> HandlerStates]
    /\ activator \in [pc : {"idle", "lookup", "send"}, at : Actors \cup {NoActor}]
    /\ activator.pc = "send" <=> activator.at \in Actors
    /\ ender \in [pc : {"idle", "lookup", "failed", "send", "await", "remove", "over"},
                  at : Actors \cup {NoActor}]
    /\ ender.pc \in {"send", "await", "remove"} => ender.at \in Actors
    /\ shutdown \in [pc : {"idle", "send", "await", "reset", "over"}, at : Actors \cup {NoActor}]
    /\ shutdown.pc \in {"send", "await"} => shutdown.at \in Actors

\* RegistryInv: a running actor is the one the registry hands out, so no auction has two:
\* two would keep two caches of one row.  Left over are an actor that was too
\* slow to end (its auction is ENDED) and one created while ShutdownAll runs.
RunningIsRegistered ==
    db # "ENDED" /\ shutdown.pc # "over" =>
        \A a \in Actors : actor[a].st \in {"running", "stopping"} => entry = a

\* The registry never keeps an actor that has removed itself or closed `done`.
EntryIsAlive == entry # NoActor => actor[entry].st \in {"running", "stopping"}

\* A handler that waits for a reply has its message in an inbox, never in none.
WaitingIsQueued ==
    \A h \in Handlers : handler[h].pc = "wait" =>
        \E i \in 1 .. Len(inbox[handler[h].at]) : inbox[handler[h].at][i] = Bid(h)

\* What the mutex protects: whoever holds it past the double check finds no
\* entry, his reading of the row is overtaken only by a notice still to come, and
\* NotifyEnded does not look the actor up between his reading and his entry.
MutexProtects ==
    \A h \in Handlers :
        /\ handler[h].pc \in {"check", "read", "create"} => mu = h
        /\ handler[h].pc \in {"read", "create"} => entry = NoActor
        /\ handler[h].pc = "create" =>
              /\ db = "ACTIVE" /\ handler[h].seen = "PENDING" => activator.pc = "lookup" \/ noticeLost
              /\ ender.pc \in {"idle", "lookup", "failed"}

EnderKnowsEntry ==
    /\ ender.pc # "idle" => db = "ENDED"
    /\ ender.pc \in {"send", "await", "remove"} => entry \in {ender.at, NoActor}

RegistryInv ==
    /\ TypeOK /\ RunningIsRegistered /\ EntryIsAlive /\ WaitingIsQueued
    /\ MutexProtects /\ EnderKnowsEntry

\* An actor that still believes PENDING of an ACTIVE auction has the notice on
\* its way: GetOrCreate cannot read the row before the activation and register
\* the actor after NotifyActivated looked it up.  Only a lost notice leaves it.
ActivationIsSeen ==
    db = "ACTIVE" /\ entry # NoActor /\ actor[entry].status = "PENDING" /\ ~noticeLost =>
        \/ activator.pc = "lookup"
        \/ activator.at = entry
        \/ \E i \in 1 .. Len(inbox[entry]) : inbox[entry][i].kind = "activate"

\* Once NotifyEnded has returned nobody can find the actor any more.
EndedIsUnregistered == ender.pc = "over" => entry = NoActor

IInv == RegistryInv /\ ActivationIsSeen /\ EndedIsUnregistered

\* An actor that stops gets through its deferred function: no circular wait
\* between the mutex, the inbox and `done`.
StopFinishes == \A a \in Actors : actor[a].st = "stopping" ~> Done(a)

\* NotifyEnded returns, so one stuck auction does not stop the endLoop.
EndLoopContinues == (ender.pc = "lookup") ~> (ender.pc = "over")

NobodyGetsStuck == StopFinishes /\ EndLoopContinues

\* Does not hold: drainInbox answers "Auction is no longer available" to what is left in the
\* inbox (actor.go:390-394): a dead actor owes nobody an answer.
DeadOwesNothing == \A a \in Actors : actor[a].st = "dead" => inbox[a] = <<>>

\* Does not hold: ShutdownAll returns and Run logs "exited cleanly" (app.go:161-163).
ShutdownReturns == (shutdown.pc # "idle") ~> (shutdown.pc = "over")
=============================================================================
