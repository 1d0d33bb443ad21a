-------------------------- MODULE IdempotencyProofs -------------------------
(* Theorems about Idempotency, for every set of keys, every set of requests *)
(* and every TTL.                                                           *)
EXTENDS Idempotency, TLAPS

\* What a write does to the entries, the queue and the history: the entry of k
\* and its queue item agree, and nothing else moves (sh.m[...] = and PushBack).
LEMMA WriteLemma ==
    ASSUME TypeOK, EntryQueued, NEW k \in Keys, NEW e \in Nat,
           NEW s \in {"IN_PROGRESS", "COMPLETED"}, Write(k, s, e)
    PROVE  /\ m' \in [Keys -> [status : {"ABSENT", "IN_PROGRESS", "COMPLETED"}, expireAt : Nat]]
           /\ q' \in Seq([key : Keys, expireAt : Nat])
           /\ last' \in [Keys -> Nat]
           /\ m'[k] = [status |-> s, expireAt |-> e] /\ last'[k] = e
           /\ \A j \in Keys \ {k} : m'[j] = m[j] /\ last'[j] = last[j]
           /\ EntryQueued'
<1>1. Item(k, e) \in [key : Keys, expireAt : Nat]
  BY DEF Item
<1>2. /\ m' = [m EXCEPT ![k] = [status |-> s, expireAt |-> e]]
      /\ q' = Append(q, Item(k, e))
      /\ last' = [last EXCEPT ![k] = e]
  BY DEF Write
<1>3. /\ Len(q') = Len(q) + 1 /\ Len(q) \in Nat
      /\ q'[Len(q) + 1] = Item(k, e)
      /\ \A i \in 1 .. Len(q) : q'[i] = q[i]
      /\ q' \in Seq([key : Keys, expireAt : Nat])
  BY <1>1, <1>2 DEF TypeOK
<1>4. /\ m' \in [Keys -> [status : {"ABSENT", "IN_PROGRESS", "COMPLETED"}, expireAt : Nat]]
      /\ last' \in [Keys -> Nat]
      /\ m'[k] = [status |-> s, expireAt |-> e] /\ last'[k] = e
      /\ \A j \in Keys \ {k} : m'[j] = m[j] /\ last'[j] = last[j]
  BY <1>2 DEF TypeOK
<1>5. EntryQueued'
  <2> SUFFICES ASSUME NEW j \in Keys, Present(j)'
               PROVE  \E i \in 1 .. Len(q') : q'[i] = Item(j, m'[j].expireAt)
    BY DEF EntryQueued, Item
  <2>1. CASE j = k
    <3>1. Len(q) + 1 \in 1 .. Len(q')
      BY <1>3
    <3>2. q'[Len(q) + 1] = Item(j, m'[j].expireAt)
      BY <1>3, <1>4, <2>1
    <3> QED BY <3>1, <3>2
  <2>2. CASE j # k
    <3>1. Present(j) /\ m'[j] = m[j]
      BY <1>4, <2>2 DEF Present
    <3>2. PICK i \in 1 .. Len(q) : q[i] = Item(j, m[j].expireAt)
      BY <3>1 DEF EntryQueued
    <3>3. i \in 1 .. Len(q') /\ q'[i] = Item(j, m'[j].expireAt)
      BY <1>3, <3>1, <3>2
    <3> QED BY <3>3
  <2> QED BY <2>1, <2>2
<1> QED BY <1>3, <1>4, <1>5

\* A request that goes to another control point keeps its type and its key.
LEMMA GotoLemma ==
    ASSUME TypeOK, NEW r \in Reqs, NEW pc \in Pcs \ {"new"}, NEW now \in Nat,
           req[r].pc # "new",
           req' = [req EXCEPT ![r].pc = pc] \/ req' = [req EXCEPT ![r].pc = pc, ![r].now = now]
    PROVE  /\ req' \in [Reqs -> [pc : Pcs, key : Keys \cup {NoKey}, now : Nat]]
           /\ \A s \in Reqs : req'[s].pc # "new" => req'[s].key \in Keys
           /\ \A s \in Reqs : req'[s].key = req[s].key
           /\ req'[r].pc = pc /\ req'[r].now \in {req[r].now, now}
           /\ \A s \in Reqs \ {r} : req'[s] = req[s]
<1>1. req \in [Reqs -> [pc : Pcs, key : Keys \cup {NoKey}, now : Nat]]
  BY DEF TypeOK
<1>2. \A s \in Reqs : req[s].pc # "new" => req[s].key \in Keys
  BY DEF TypeOK
<1>3. CASE req' = [req EXCEPT ![r].pc = pc]
  BY <1>1, <1>2, <1>3
<1>4. CASE req' = [req EXCEPT ![r].pc = pc, ![r].now = now]
  BY <1>1, <1>2, <1>4
<1> QED BY <1>3, <1>4

-----------------------------------------------------------------------------
(* The inductive invariant.                                                 *)

LEMMA InitLemma == Init => IInv
<1> SUFFICES ASSUME Init PROVE IInv
  OBVIOUS
<1>1. TypeOK
  BY IdempotencyAssumption DEF Init, TypeOK, Absent, Pcs
<1>2. EntryQueued /\ FreeMeansExpired /\ SuccessIsReplayed
  BY DEF Init, EntryQueued, FreeMeansExpired, SuccessIsReplayed, Present, Absent
<1>3. ReadingsArePast /\ OneCompletion
  BY DEF Init, ReadingsArePast, OneCompletion
<1> QED BY <1>1, <1>2, <1>3 DEF IInv

LEMMA ArriveStep ==
    ASSUME IInv, NEW r \in Reqs, NEW k \in Keys, Arrive(r, k) PROVE IInv'
<1> USE DEF IInv, Arrive
<1>1. TypeOK'
  BY DEF TypeOK, Pcs
<1>2. ReadingsArePast'
  BY DEF TypeOK, ReadingsArePast
<1>3. OneCompletion'
  BY DEF TypeOK, OneCompletion
<1>4. EntryQueued' /\ FreeMeansExpired' /\ SuccessIsReplayed'
  BY DEF EntryQueued, FreeMeansExpired, SuccessIsReplayed, Present, Item
<1> QED BY <1>1, <1>2, <1>3, <1>4

LEMMA AcquireNewStep ==
    ASSUME IInv, NEW r \in Reqs, AcquireNew(r) PROVE IInv'
<1> DEFINE k == req[r].key
<1> DEFINE e == req[r].now + TTL
<1> USE DEF IInv
<1>1. k \in Keys /\ e \in Nat /\ Write(k, "IN_PROGRESS", e) /\ Free(r)
  BY IdempotencyAssumption DEF AcquireNew, TypeOK
<1>2. /\ req' = [req EXCEPT ![r].pc = "work"]
      /\ UNCHANGED <<clock, sweep, placed, doneUntil>>
  BY DEF AcquireNew
<1> HIDE DEF k, e
<1>3. /\ m' \in [Keys -> [status : {"ABSENT", "IN_PROGRESS", "COMPLETED"}, expireAt : Nat]]
      /\ q' \in Seq([key : Keys, expireAt : Nat])
      /\ last' \in [Keys -> Nat]
      /\ m'[k] = [status |-> "IN_PROGRESS", expireAt |-> e] /\ last'[k] = e
      /\ \A j \in Keys \ {k} : m'[j] = m[j] /\ last'[j] = last[j]
      /\ EntryQueued'
  BY <1>1, WriteLemma
<1>4. TypeOK'
  <2>1. /\ req' \in [Reqs -> [pc : Pcs, key : Keys \cup {NoKey}, now : Nat]]
        /\ \A s \in Reqs : req'[s].pc # "new" => req'[s].key \in Keys
    BY <1>2, GotoLemma, 0 \in Nat DEF AcquireNew, Pcs
  <2> QED BY <1>2, <1>3, <2>1 DEF TypeOK
<1>5. ReadingsArePast'
  BY <1>2 DEF TypeOK, ReadingsArePast
<1>6. OneCompletion'
  BY <1>2 DEF TypeOK, OneCompletion, AcquireNew
<1>7. FreeMeansExpired'
  <2> SUFFICES ASSUME NEW j \in Keys
               PROVE  IF Present(j)' THEN m'[j].expireAt = last'[j] ELSE clock' > last'[j]
    BY DEF FreeMeansExpired
  <2>1. CASE j = k
    BY <1>3, <2>1 DEF Present
  <2>2. CASE j # k
    BY <1>2, <1>3, <2>2 DEF FreeMeansExpired, Present
  <2> QED BY <2>1, <2>2
<1>8. SuccessIsReplayed'
  <2>1. clock > doneUntil[k]
    <3> SUFFICES ASSUME clock <= doneUntil[k] PROVE FALSE
      BY <1>1 DEF TypeOK
    <3>1. m[k] = [status |-> "COMPLETED", expireAt |-> doneUntil[k]]
      BY <1>1 DEF SuccessIsReplayed
    <3>2. req[r].now > doneUntil[k]
      BY <1>1, <3>1 DEF Free, Present, Expired, k
    <3>3. doneUntil[k] \in Nat /\ req[r].now \in Nat /\ clock \in Nat /\ req[r].now <= clock
      BY <1>1 DEF ReadingsArePast, TypeOK
    <3> QED BY <3>2, <3>3
  <2> SUFFICES ASSUME NEW j \in Keys, clock <= doneUntil[j]
               PROVE  m'[j] = [status |-> "COMPLETED", expireAt |-> doneUntil[j]]
    BY <1>2 DEF SuccessIsReplayed
  <2>2. j # k
    <3>1. doneUntil[j] \in Nat /\ clock \in Nat
      BY DEF TypeOK
    <3> QED BY <2>1, <3>1
  <2> QED BY <1>3, <2>2 DEF SuccessIsReplayed
<1> QED BY <1>3, <1>4, <1>5, <1>6, <1>7, <1>8

LEMMA CompleteStep ==
    ASSUME IInv, NEW r \in Reqs, Complete(r) PROVE IInv'
<1> DEFINE k == req[r].key
<1> DEFINE e == req[r].now + TTL
<1> USE DEF IInv
<1>1. k \in Keys /\ e \in Nat /\ Write(k, "COMPLETED", e) /\ req[r].pc = "complete"
  BY IdempotencyAssumption DEF Complete, TypeOK
<1>2. /\ req' = [req EXCEPT ![r].pc = "done"]
      /\ doneUntil' = [doneUntil EXCEPT ![k] = e]
      /\ UNCHANGED <<clock, sweep, placed>>
  BY DEF Complete
<1>0. k = req[r].key
  OBVIOUS
<1> HIDE DEF k, e
<1>3. /\ m' \in [Keys -> [status : {"ABSENT", "IN_PROGRESS", "COMPLETED"}, expireAt : Nat]]
      /\ q' \in Seq([key : Keys, expireAt : Nat])
      /\ last' \in [Keys -> Nat]
      /\ m'[k] = [status |-> "COMPLETED", expireAt |-> e] /\ last'[k] = e
      /\ \A j \in Keys \ {k} : m'[j] = m[j] /\ last'[j] = last[j]
      /\ EntryQueued'
  BY <1>1, WriteLemma
<1>4. TypeOK'
  BY <1>1, <1>2, <1>3 DEF TypeOK, Pcs
<1>5. ReadingsArePast'
  BY <1>2 DEF TypeOK, ReadingsArePast
<1>6. OneCompletion'
  BY <1>0, <1>1, <1>2 DEF TypeOK, OneCompletion
<1>7. FreeMeansExpired'
  <2> SUFFICES ASSUME NEW j \in Keys
               PROVE  IF Present(j)' THEN m'[j].expireAt = last'[j] ELSE clock' > last'[j]
    BY DEF FreeMeansExpired
  <2>1. CASE j = k
    BY <1>3, <2>1 DEF Present
  <2>2. CASE j # k
    BY <1>2, <1>3, <2>2 DEF FreeMeansExpired, Present
  <2> QED BY <2>1, <2>2
<1>8. SuccessIsReplayed'
  BY <1>1, <1>2, <1>3 DEF SuccessIsReplayed, TypeOK
<1> QED BY <1>3, <1>4, <1>5, <1>6, <1>7, <1>8

\* The steps of a request that leave the store alone.
LEMMA HandlerStep ==
    ASSUME IInv, NEW r \in Reqs,
           AcquireOld(r) \/ Fails(r) \/ Place(r) \/ Disconnects(r) \/ BeginComplete(r)
    PROVE  IInv'
<1> USE DEF IInv
<1>1. UNCHANGED <<clock, m, q, sweep, last, doneUntil>>
  BY DEF AcquireOld, Fails, Place, Disconnects, BeginComplete
<1>2. EntryQueued' /\ FreeMeansExpired' /\ SuccessIsReplayed'
  BY <1>1 DEF EntryQueued, FreeMeansExpired, SuccessIsReplayed, Present, Item
<1>5. clock \in Nat /\ req[r].now \in Nat /\ req[r].pc # "new"
  BY DEF TypeOK, AcquireOld, Fails, Place, Disconnects, BeginComplete
<1>6. PICK pc \in Pcs \ {"new"} :
          req' = [req EXCEPT ![r].pc = pc] \/ req' = [req EXCEPT ![r].pc = pc, ![r].now = clock]
  BY DEF AcquireOld, Fails, Place, Disconnects, BeginComplete, Pcs
<1>7. /\ req' \in [Reqs -> [pc : Pcs, key : Keys \cup {NoKey}, now : Nat]]
      /\ \A s \in Reqs : req'[s].pc # "new" => req'[s].key \in Keys
      /\ req'[r].now \in {req[r].now, clock}
      /\ \A s \in Reqs \ {r} : req'[s] = req[s]
  BY <1>5, <1>6, GotoLemma
<1>8. placed' \subseteq Keys
  BY DEF TypeOK, AcquireOld, Fails, Place, Disconnects, BeginComplete
<1>3. TypeOK' /\ ReadingsArePast'
  <2>1. TypeOK'
    BY <1>1, <1>7, <1>8 DEF TypeOK
  <2>2. \A s \in Reqs : req'[s].now <= clock
    <3>1. \A s \in Reqs : req[s].now <= clock
      BY DEF ReadingsArePast
    <3> QED BY <1>5, <1>7, <3>1
  <2> QED BY <1>1, <2>1, <2>2 DEF ReadingsArePast
<1>4. OneCompletion'
  <2>1. CASE AcquireOld(r)
    BY <2>1 DEF AcquireOld, TypeOK, OneCompletion
  <2>2. CASE Fails(r)
    BY <2>2 DEF Fails, TypeOK, OneCompletion
  <2>5. CASE Disconnects(r)
    BY <2>5 DEF Disconnects, TypeOK, OneCompletion
  <2>3. CASE Place(r)
    BY <2>3 DEF Place, TypeOK, OneCompletion
  <2>4. CASE BeginComplete(r)
    BY <2>4 DEF BeginComplete, TypeOK, OneCompletion
  <2> QED BY <2>1, <2>2, <2>3, <2>4, <2>5
<1> QED BY <1>2, <1>3, <1>4

\* The sweep: what it deletes has expired, and what it keeps keeps its item.
LEMMA SweepStep == ASSUME IInv, Sweep PROVE IInv'
<1> USE DEF IInv
<1>1. PICK n \in 0 .. Len(q) :
          /\ \A i \in 1 .. n : Expired(q[i].expireAt, sweep.now)
          /\ m' = [k \in Keys |-> IF Sweeps(k, n) THEN Absent ELSE m[k]]
          /\ q' = SubSeq(q, n + 1, Len(q))
  BY DEF Sweep
<1>2. /\ sweep' = [pc |-> "idle", now |-> 0]
      /\ UNCHANGED <<clock, req, placed, last, doneUntil>>
  BY DEF Sweep
<1>0. /\ \A i \in 1 .. Len(q) : q[i].key \in Keys /\ q[i].expireAt \in Nat
      /\ sweep.now \in Nat /\ clock \in Nat /\ sweep.now <= clock
      /\ \A k \in Keys : m[k].expireAt \in Nat
  <2>0. \A Q : q \in Seq(Q) => \A i \in 1 .. Len(q) : q[i] \in Q
    OBVIOUS
  <2>1. \A i \in 1 .. Len(q) : q[i] \in [key : Keys, expireAt : Nat]
    BY <2>0 DEF TypeOK
  <2>2. \A k \in Keys : m[k].expireAt \in Nat
    BY DEF TypeOK
  <2>3. sweep.now \in Nat /\ clock \in Nat /\ sweep.now <= clock
    BY DEF TypeOK, ReadingsArePast
  <2> QED BY <2>1, <2>2, <2>3
<1>3. /\ Len(q) \in Nat /\ Len(q') = Len(q) - n
      /\ \A i \in 1 .. Len(q') : q'[i] = q[i + n]
      /\ q' \in Seq([key : Keys, expireAt : Nat])
  <2> DEFINE Q == [key : Keys, expireAt : Nat]
  <2>1. q \in Seq(Q) /\ Len(q) \in Nat
    BY DEF TypeOK
  <2> HIDE DEF Q
  <2>2. n \in 0 .. Len(q) /\ q' = SubSeq(q, n + 1, Len(q))
    BY <1>1
  <2>3. n + 1 \in 1 .. Len(q) + 1 /\ \A i \in n + 1 .. Len(q) : i \in 1 .. Len(q)
    BY <2>1, <2>2
  <2>4. q' \in Seq(Q)
    BY <2>1, <2>2, <2>3
  <2>5. Len(q') = Len(q) - n
    BY <2>1, <2>2, <2>3
  <2>6. \A i \in 1 .. Len(q') : q'[i] = q[i + n]
    BY <2>1, <2>2, <2>3, <2>5
  <2> QED BY <2>1, <2>4, <2>5, <2>6 DEF Q
<1>4. ASSUME NEW k \in Keys, Sweeps(k, n) PROVE clock > m[k].expireAt
  <2>1. PICK i \in 1 .. n : m[k].expireAt <= q[i].expireAt
    BY <1>4 DEF Sweeps
  <2>2. q[i].expireAt < sweep.now /\ q[i].expireAt \in Nat
    BY <1>0, <1>1, <2>1 DEF Expired
  <2> QED BY <1>0, <2>1, <2>2
<1>5. TypeOK'
  BY <1>1, <1>2, <1>3 DEF TypeOK, Absent
<1>6. ReadingsArePast' /\ OneCompletion'
  BY <1>2 DEF ReadingsArePast, OneCompletion, TypeOK
<1>7. FreeMeansExpired'
  BY <1>1, <1>2, <1>4 DEF FreeMeansExpired, Present, Absent
<1>8. SuccessIsReplayed'
  <2> SUFFICES ASSUME NEW k \in Keys, clock <= doneUntil[k]
               PROVE  m'[k] = [status |-> "COMPLETED", expireAt |-> doneUntil[k]]
    BY <1>2 DEF SuccessIsReplayed
  <2>1. m[k] = [status |-> "COMPLETED", expireAt |-> doneUntil[k]]
    BY DEF SuccessIsReplayed
  <2>2. ~Sweeps(k, n)
    BY <1>4, <2>1 DEF TypeOK
  <2> QED BY <1>1, <2>1, <2>2
<1>9. EntryQueued'
  <2> SUFFICES ASSUME NEW k \in Keys, Present(k)'
               PROVE  \E i \in 1 .. Len(q') : q'[i] = Item(k, m'[k].expireAt)
    BY DEF EntryQueued, Item
  <2>1. ~Sweeps(k, n) /\ m'[k] = m[k] /\ Present(k)
    BY <1>1 DEF Present, Absent
  <2>2. PICK i \in 1 .. Len(q) : q[i] = Item(k, m[k].expireAt)
    BY <2>1 DEF EntryQueued
  <2>3. i > n
    <3> SUFFICES ASSUME i <= n PROVE FALSE
      BY <1>0, <1>1
    <3>1. i \in 1 .. n /\ q[i].key = k /\ m[k].expireAt <= q[i].expireAt
      BY <1>0, <2>2 DEF Item
    <3> QED BY <2>1, <3>1 DEF Sweeps
  <2>4. i - n \in 1 .. Len(q') /\ q'[i - n] = q[i]
    BY <1>0, <1>1, <1>3, <2>2, <2>3
  <2> QED BY <2>1, <2>2, <2>4
<1> QED BY <1>5, <1>6, <1>7, <1>8, <1>9

LEMMA ClockStep == ASSUME IInv, Tick \/ BeginSweep PROVE IInv'
<1> USE DEF IInv
<1>1. clock' \in Nat /\ clock <= clock' /\ UNCHANGED <<m, q, req, placed, last, doneUntil>>
  BY DEF Tick, BeginSweep, TypeOK
<1>2. sweep' \in [pc : {"idle", "sweep"}, now : Nat] /\ sweep'.now <= clock'
  BY DEF Tick, BeginSweep, TypeOK, ReadingsArePast
<1>3. TypeOK' /\ ReadingsArePast' /\ OneCompletion'
  BY <1>1, <1>2 DEF TypeOK, ReadingsArePast, OneCompletion
<1>4. EntryQueued' /\ FreeMeansExpired' /\ SuccessIsReplayed'
  BY <1>1 DEF TypeOK, EntryQueued, FreeMeansExpired, SuccessIsReplayed, Present, Item
<1> QED BY <1>3, <1>4

LEMMA StutterStep == ASSUME IInv, UNCHANGED vars PROVE IInv'
BY DEF IInv, vars, TypeOK, ReadingsArePast, OneCompletion, EntryQueued,
       FreeMeansExpired, SuccessIsReplayed, Present, Item

\* The inductive invariant holds in every state.
THEOREM KeysInvariance == Spec => []IInv
<1>1. Init => IInv
  BY InitLemma
<1>2. IInv /\ [Next]_vars => IInv'
  <2> SUFFICES ASSUME IInv, [Next]_vars PROVE IInv'
    OBVIOUS
  <2>1. CASE Tick \/ BeginSweep
    BY <2>1, ClockStep
  <2>2. CASE Sweep
    BY <2>2, SweepStep
  <2>3. CASE \E r \in Reqs : Handle(r) \/ \E k \in Keys : Arrive(r, k)
    BY <2>3, AcquireNewStep, CompleteStep, HandlerStep, ArriveStep DEF Handle
  <2>4. CASE UNCHANGED vars
    BY <2>4, StutterStep
  <2> QED BY <2>1, <2>2, <2>3, <2>4 DEF Next
<1> QED BY <1>1, <1>2, PTL DEF Spec

\* No entry of the store leaks: each has a queue item that sweeps it (store.go:78-134).
THEOREM NothingLeaks == Spec => []EntryQueued
<1>1. IInv => EntryQueued
  BY DEF IInv
<1> QED BY <1>1, KeysInvariance, PTL

\* The sweep never frees a key before the expiry last written for it (store.go:116-127).
THEOREM FreedWhenExpired == Spec => []FreeMeansExpired
<1>1. IInv => FreeMeansExpired
  BY DEF IInv
<1> QED BY <1>1, KeysInvariance, PTL

\* A cached success answers every request with its key until it expires,
\* whatever slow requests, retries and sweeps do (store.go:69-104).
THEOREM SuccessReplayed == Spec => []SuccessIsReplayed
<1>1. IInv => SuccessIsReplayed
  BY DEF IInv
<1> QED BY <1>1, KeysInvariance, PTL
=============================================================================
