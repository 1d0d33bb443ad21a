---------------------------- MODULE Idempotency -----------------------------
(* The store of idempotency keys and the bid requests that use it.          *)
(*                                                                          *)
(* One shard: a key hashes to one shard, and shards share nothing.  A key   *)
(* stands for the pair of Idempotency-Key and user.  TryAcquire, Complete   *)
(* and the sweep read the clock BEFORE they take the shard's mutex, so each *)
(* is two steps and may act on an old reading.                              *)
EXTENDS Integers, Sequences, FiniteSets

CONSTANTS
    Keys,       \* (Idempotency-Key, user) pairs
    Reqs,       \* POST /auctions/:id/bids requests
    NoKey,
    TTL,        \* Store.ttl, 120 seconds
    MaxTime,    \* bound on the clock
    LastCall    \* bound: requests read the clock no later than this

ASSUME IdempotencyAssumption ==
    NoKey \notin Keys /\ TTL \in Nat \ {0} /\ MaxTime \in Nat /\ LastCall \in Nat

VARIABLES
    clock,      \* time.Now()
    m, q,       \* shard.m and shard.q
    req,        \* the requests
    sweep,      \* cleanupLoop
    placed,     \* keys whose bid is on record
    last,       \* the ExpireAt most recently written for a key
    doneUntil   \* the ExpireAt of a key's completion

vars == <<clock, m, q, req, sweep, placed, last, doneUntil>>

Absent  == [status |-> "ABSENT", expireAt |-> 0]
Present(k) == m[k].status # "ABSENT"
Item(k, e) == [key |-> k, expireAt |-> e]
Expired(e, now) == now > e                      \* now.After(e)

Init ==
    /\ clock = 1
    /\ m = [k \in Keys |-> Absent]
    /\ q = <<>>
    /\ req = [r \in Reqs |-> [pc |-> "new", key |-> NoKey, now |-> 0]]
    /\ sweep = [pc |-> "idle", now |-> 0]
    /\ placed = {}
    /\ last = [k \in Keys |-> 0]
    /\ doneUntil = [k \in Keys |-> 0]

\* Mutant of Write: the entry is replaced without a queue item of its own.
WriteUnqueued(k, status, expire) ==
    /\ m' = [m EXCEPT ![k] = [status |-> status, expireAt |-> expire]]
    /\ q' = IF m[k].status = "ABSENT" THEN Append(q, Item(k, expire)) ELSE q
    /\ last' = [last EXCEPT ![k] = expire]

\* sh.m[key] = &entry{...}; sh.q.PushBack(...)
Write(k, status, expire) ==
    /\ m' = [m EXCEPT ![k] = [status |-> status, expireAt |-> expire]]
    /\ q' = Append(q, Item(k, expire))
    /\ last' = [last EXCEPT ![k] = expire]

-----------------------------------------------------------------------------
(* BidHandler.PlaceBid.                                                     *)

Arrive(r, k) ==
    /\ req[r].pc = "new" /\ clock <= LastCall
    /\ req' = [req EXCEPT ![r] = [pc |-> "acquire", key |-> k, now |-> clock]]
    /\ UNCHANGED <<clock, m, q, sweep, placed, last, doneUntil>>

Free(r) ==
    LET k == req[r].key IN ~Present(k) \/ Expired(m[k].expireAt, req[r].now)

\* Mutant of AcquireNew: a completed entry is not looked at.
AcquireAnyway(r) ==
    /\ req[r].pc = "acquire"
    /\ Free(r) \/ m[req[r].key].status = "COMPLETED"
    /\ Write(req[r].key, "IN_PROGRESS", req[r].now + TTL)
    /\ req' = [req EXCEPT ![r].pc = "work"]
    /\ UNCHANGED <<clock, sweep, placed, doneUntil>>

AcquireNew(r) ==
    /\ req[r].pc = "acquire"
    /\ Free(r)
    /\ Write(req[r].key, "IN_PROGRESS", req[r].now + TTL)
    /\ req' = [req EXCEPT ![r].pc = "work"]
    /\ UNCHANGED <<clock, sweep, placed, doneUntil>>

\* StatusCompleted: the cached response.  StatusInProgress: 409.
AcquireOld(r) ==
    /\ req[r].pc = "acquire"
    /\ ~Free(r)
    /\ req' = [req EXCEPT ![r].pc = IF m[req[r].key].status = "COMPLETED"
                                      THEN "replayed" ELSE "inUse"]
    /\ UNCHANGED <<clock, m, q, sweep, placed, last, doneUntil>>

\* Invalid body, no actor, mailbox closed, a refusal by the actor, or ctx.Done:
\* the handler returns and the key stays as it is.  (A bid that lands after its
\* client left is Place followed by Disconnects: the store cannot tell.)
Fails(r) ==
    /\ req[r].pc = "work"
    /\ req' = [req EXCEPT ![r].pc = "failed"]
    /\ UNCHANGED <<clock, m, q, sweep, placed, last, doneUntil>>

\* The actor commits the bid.  A second bid of the same amount is refused by
\* the price rule (AuctionStore!BidsAscend), so a key succeeds once.
Place(r) ==
    /\ req[r].pc = "work"
    /\ req[r].key \notin placed
    /\ placed' = placed \cup {req[r].key}
    /\ req' = [req EXCEPT ![r].pc = "placed"]
    /\ UNCHANGED <<clock, m, q, sweep, last, doneUntil>>

\* ctx.Done wins against the reply: the bid is on record, the key never completes.
Disconnects(r) ==
    /\ req[r].pc = "placed"
    /\ req' = [req EXCEPT ![r].pc = "failed"]
    /\ UNCHANGED <<clock, m, q, sweep, placed, last, doneUntil>>

BeginComplete(r) ==
    /\ req[r].pc = "placed" /\ clock <= LastCall
    /\ req' = [req EXCEPT ![r].pc = "complete", ![r].now = clock]
    /\ UNCHANGED <<clock, m, q, sweep, placed, last, doneUntil>>

Complete(r) ==
    /\ req[r].pc = "complete"
    /\ Write(req[r].key, "COMPLETED", req[r].now + TTL)
    /\ doneUntil' = [doneUntil EXCEPT ![req[r].key] = req[r].now + TTL]
    /\ req' = [req EXCEPT ![r].pc = "done"]
    /\ UNCHANGED <<clock, sweep, placed>>

-----------------------------------------------------------------------------
(* cleanupLoop: every 30 seconds, the expired head of the queue.            *)

BeginSweep ==
    /\ sweep.pc = "idle"
    /\ sweep' = [pc |-> "sweep", now |-> clock]
    /\ UNCHANGED <<clock, m, q, req, placed, last, doneUntil>>

\* Mutant of Sweeps: the item's key is deleted whatever its entry says.
SweepsAnyway(k, n) == \E i \in 1 .. n : q[i].key = k

\* "Lazy deletion check": an entry renewed after this item was queued stays.
Sweeps(k, n) == \E i \in 1 .. n : q[i].key = k /\ m[k].expireAt <= q[i].expireAt

\* The first n items are expired, the next one is not.
Sweep ==
    /\ sweep.pc = "sweep"
    /\ \E n \in 0 .. Len(q) :
          /\ \A i \in 1 .. n : Expired(q[i].expireAt, sweep.now)
          /\ n < Len(q) => ~Expired(q[n + 1].expireAt, sweep.now)
          /\ m' = [k \in Keys |-> IF Sweeps(k, n) THEN Absent ELSE m[k]]
          /\ q' = SubSeq(q, n + 1, Len(q))
    /\ sweep' = [pc |-> "idle", now |-> 0]
    /\ UNCHANGED <<clock, req, placed, last, doneUntil>>

Tick ==
    /\ clock < MaxTime
    /\ clock' = clock + 1
    /\ UNCHANGED <<m, q, req, sweep, placed, last, doneUntil>>

-----------------------------------------------------------------------------
Handle(r) ==
    \/ AcquireNew(r) \/ AcquireOld(r) \/ Fails(r) \/ Place(r)
    \/ Disconnects(r) \/ BeginComplete(r) \/ Complete(r)

Next ==
    \/ Tick \/ BeginSweep \/ Sweep
    \/ \E r \in Reqs : Handle(r) \/ \E k \in Keys : Arrive(r, k)

Spec == Init /\ [][Next]_vars

\* The clock and the ticker go on.
LiveSpec == Spec /\ WF_vars(Tick) /\ WF_vars(BeginSweep) /\ WF_vars(Sweep)

-----------------------------------------------------------------------------
(* Properties.                                                              *)

Pcs == {"new", "acquire", "work", "placed", "complete", "done",
        "replayed", "inUse", "failed"}

TypeOK ==
    /\ clock \in Nat
    /\ m \in [Keys -> [status : {"ABSENT", "IN_PROGRESS", "COMPLETED"}, expireAt : Nat]]
    /\ q \in Seq([key : Keys, expireAt : Nat])
    /\ req \in [Reqs -> [pc : Pcs, key : Keys \cup {NoKey}, now : Nat]]
    /\ \A r \in Reqs : req[r].pc # "new" => req[r].key \in Keys
    /\ sweep \in [pc : {"idle", "sweep"}, now : Nat]
    /\ placed \subseteq Keys
    /\ last \in [Keys -> Nat] /\ doneUntil \in [Keys -> Nat]

\* No leak: every entry has an item in the queue that will sweep it, however
\* often the entry was renewed and in whatever order the items were queued.
EntryQueued ==
    \A k \in Keys : Present(k) => \E i \in 1 .. Len(q) : q[i] = Item(k, m[k].expireAt)

\* A key is free again only after the expiry most recently written for it: the
\* sweep, which works from old queue items, never drops an entry that lives.
FreeMeansExpired ==
    \A k \in Keys : IF Present(k) THEN m[k].expireAt = last[k] ELSE clock > last[k]

\* Once a success is cached, its key answers with it until it expires: no slow
\* request, retry or sweep turns the key back into new or in progress.
SuccessIsReplayed ==
    \A k \in Keys : clock <= doneUntil[k] =>
        m[k] = [status |-> "COMPLETED", expireAt |-> doneUntil[k]]

\* Every entry is swept in the end, although the queue is not in the order of
\* the expiries and the sweep stops at the first item that is not expired.
EntriesVanish == \A k \in Keys : Present(k) ~> ~Present(k)

\* Does not hold: "Request is already being processed" (bid_handler.go:107).
InUseMeansWorking ==
    [][\A r \in Reqs : req[r].pc = "acquire" /\ req'[r].pc = "inUse" =>
          \E s \in Reqs : req[s].key = req[r].key /\ req[s].pc \in {"work", "placed", "complete"}]_vars

-----------------------------------------------------------------------------
(* The inductive invariant.                                                 *)

\* Nobody works with a clock reading from the future.
ReadingsArePast ==
    /\ \A r \in Reqs : req[r].now <= clock
    /\ sweep.now <= clock
    /\ clock > 0

\* A key completes once: by the one request that placed its bid.
OneCompletion ==
    /\ \A r \in Reqs : req[r].pc \in {"placed", "complete", "done"} => req[r].key \in placed
    /\ \A r, s \in Reqs :
          /\ req[r].pc \in {"placed", "complete"} /\ req[s].pc \in {"placed", "complete", "done"}
          /\ req[r].key = req[s].key
          => r = s
    /\ \A k \in Keys : doneUntil[k] # 0 =>
          \A r \in Reqs : req[r].key = k => req[r].pc \notin {"placed", "complete"}
    /\ \A k \in Keys : doneUntil[k] # 0 => k \in placed

IInv ==
    /\ TypeOK /\ ReadingsArePast /\ OneCompletion
    /\ EntryQueued /\ FreeMeansExpired /\ SuccessIsReplayed
=============================================================================
