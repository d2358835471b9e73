--------------------------- MODULE DMServerProofs ---------------------------
(***************************************************************************)
(* Theorems of DMServer for any number of threads, consumers and requests: *)
(* the types, no stranded job, the bound of the queue, each job once, and  *)
(* that the server implements the map of DistributedMap.                   *)
(*                                                                         *)
(* NoStrandedJobs is not inductive: that a notify was rightly skipped, or  *)
(* found nobody to wake, depends on what the counters _num_consumers and   *)
(* _waiting_thrds say of the threads.  Inv adds that.  EachJobOnce counts  *)
(* copies; OnceInv says instead which sets of requests are disjoint, which *)
(* each step of the queue keeps, and the count follows.                    *)
(***************************************************************************)
EXTENDS DMServer, TLAPS, FiniteSetTheorems

At(L) == {th \in Threads : pc[th] \in L}

\* The counters count the threads that are consumers, and those of them that
\* are in wait() or have still to leave it.
Counters ==
  /\ numConsumers = Cardinality(At(Consuming))
  /\ waitingThrds = Cardinality(At({"waiting", "notified"}))

\* Where a thread uses the request in hand it has one.
InHand ==
  \A th \in Threads : pc[th] \in {"removing", "c_reply", "h_reply"} => mine[th] # <<>>

Inv ==
  /\ TypeOK
  /\ Counters
  /\ InHand
  /\ QueueBelowFull
  /\ NoStrandedJobs

-----------------------------------------------------------------------------
Waiting == {"waiting", "notified"}

One(b) == IF b THEN 1 ELSE 0

\* Two sets that differ in one element at most.
LEMMA CountMoves ==
  ASSUME NEW F, NEW G, NEW x, IsFiniteSet(F), F \ {x} = G \ {x}
  PROVE  /\ Cardinality(F) \in Nat
         /\ Cardinality(G) = Cardinality(F) + One(x \in G) - One(x \in F)
<1>1. Cardinality(F) \in Nat
  BY FS_CardinalityType
<1>2. CASE x \in F /\ x \in G
  <2>1. G = F
    BY <1>2
  <2> QED  BY <1>1, <1>2, <2>1 DEF One
<1>3. CASE x \in F /\ x \notin G
  <2>1. G = F \ {x}
    BY <1>3
  <2> QED  BY <1>1, <1>3, <2>1, FS_RemoveElement DEF One
<1>4. CASE x \notin F /\ x \in G
  <2>1. G = F \cup {x}
    BY <1>4
  <2> QED  BY <1>1, <1>4, <2>1, FS_AddElement DEF One
<1>5. CASE x \notin F /\ x \notin G
  <2>1. G = F
    BY <1>5
  <2> QED  BY <1>1, <1>5, <2>1 DEF One
<1> QED  BY <1>1, <1>2, <1>3, <1>4, <1>5

LEMMA AtFinite == \A L : IsFiniteSet(At(L)) /\ Cardinality(At(L)) \in Nat
<1> SUFFICES ASSUME NEW L PROVE IsFiniteSet(At(L)) /\ Cardinality(At(L)) \in Nat
  OBVIOUS
<1>1. At(L) \in SUBSET Threads
  BY DEF At
<1> QED  BY <1>1, ServerAssumption, FS_Subset, FS_CardinalityType

\* A chunk is a part of the queue, empty only when the queue is.
LEMMA ChunkOfQueue ==
  ASSUME NEW q \in Seq(Jobs)
  PROVE  /\ ChunkSize(q) \in 0..Len(q)
         /\ q # <<>> => ChunkSize(q) > 0
         /\ SubSeq(q, 1, ChunkSize(q)) \in Seq(Jobs)
         /\ SubSeq(q, 1, ChunkSize(q)) \in Seq(Requests)
         /\ SubSeq(q, ChunkSize(q) + 1, Len(q)) \in Seq(Jobs)
         /\ Len(SubSeq(q, ChunkSize(q) + 1, Len(q))) = Len(q) - ChunkSize(q)
<1>1. ChunkSize(q) \in 0..Len(q) /\ (q # <<>> => ChunkSize(q) > 0)
  BY ServerAssumption DEF ChunkSize
<1>2. q \in Seq(Requests)
  BY DEF Jobs
<1> QED  BY <1>1, <1>2

-----------------------------------------------------------------------------
LEMMA InitInv == Init => Inv
<1> SUFFICES ASSUME Init PROVE Inv
  OBVIOUS
<1>1. At(Consuming) = {} /\ At({"waiting", "notified"}) = {}
  BY DEF Init, At, Consuming
<1>2. Counters
  BY <1>1, FS_EmptySet DEF Init, Counters
<1>3. TypeOK
  BY ServerAssumption DEF Init, TypeOK, PC, Consuming
<1>4. InHand /\ QueueBelowFull /\ NoStrandedJobs
  BY ServerAssumption DEF Init, InHand, QueueBelowFull, NoStrandedJobs
<1> QED  BY <1>2, <1>3, <1>4 DEF Inv

-----------------------------------------------------------------------------
\* Thread th goes to v, and the counters account for it.
Moves(th, v) ==
  /\ pc' = [pc EXCEPT ![th] = v]
  /\ numConsumers' = numConsumers + One(v \in Consuming) - One(pc[th] \in Consuming)
  /\ waitingThrds' = waitingThrds + One(v \in Waiting) - One(pc[th] \in Waiting)

LEMMA CountersMove ==
  ASSUME TypeOK, Counters, NEW th \in Threads, NEW v, Moves(th, v)
  PROVE  Counters'
<1>1. ASSUME NEW L
      PROVE  Cardinality(At(L)') = Cardinality(At(L)) + One(v \in L) - One(pc[th] \in L)
  <2>1. pc'[th] = v /\ \A t \in Threads \ {th} : pc'[t] = pc[t]
    BY DEF TypeOK, Moves
  <2>2. At(L) \ {th} = At(L)' \ {th}
    BY <2>1 DEF At
  <2>3. (th \in At(L)' <=> v \in L) /\ (th \in At(L) <=> pc[th] \in L)
    BY <2>1 DEF At
  <2>4. Cardinality(At(L)') = Cardinality(At(L)) + One(th \in At(L)') - One(th \in At(L))
    BY <2>2, AtFinite, CountMoves
  <2> QED  BY <2>3, <2>4 DEF One
<1>2. numConsumers' = Cardinality(At(Consuming)')
  BY <1>1 DEF Counters, Moves
<1>3. waitingThrds' = Cardinality(At(Waiting)')
  BY <1>1 DEF Counters, Moves, Waiting
<1> QED  BY <1>2, <1>3 DEF Counters, Waiting

LEMMA CountersStay ==
  Counters /\ UNCHANGED <<pc, numConsumers, waitingThrds>> => Counters'
BY DEF Counters, At

LEMMA CountersStep ==
  TypeOK /\ Counters /\ [Next]_vars => Counters'
<1> SUFFICES ASSUME TypeOK, Counters, [Next]_vars PROVE Counters'
  OBVIOUS
<1>0. pc \in [Threads -> PC] /\ numConsumers \in Int /\ waitingThrds \in Int
  BY ServerAssumption DEF TypeOK
<1>1. ASSUME NEW th \in Threads, NEW r \in Requests, Handle(th, r) PROVE Counters'
  <2>1. CASE HandlePut(th, r)
    BY <2>1, CountersStay DEF HandlePut
  <2>2. CASE HandleGet(th, r)
    BY <2>2, CountersStay DEF HandleGet
  <2>3. CASE HandleRemove(th, r)
    <3>1. UNCHANGED <<pc, numConsumers, waitingThrds>> \/ Moves(th, "removing")
      BY <1>0, <2>3 DEF HandleRemove, Dispatch, Moves, One, Consuming, Waiting
    <3> QED  BY <3>1, CountersStay, CountersMove
  <2>4. CASE QueueJob(th, r)
    <3>1. UNCHANGED <<pc, numConsumers, waitingThrds>>
            \/ \E s \in Threads : Moves(s, "notified")
      BY <1>0, <2>4 DEF QueueJob, Notify, Sleepers, Moves, One, Consuming, Waiting
    <3> QED  BY <3>1, CountersStay, CountersMove
  <2>5. CASE HelpOut(th, r)
    <3>1. Moves(th, "helping")
      BY <1>0, <2>5 DEF HelpOut, Dispatch, Moves, One, Consuming, Waiting
    <3> QED  BY <3>1, CountersMove
  <2>6. CASE BecomeConsumer(th, r)
    <3>1. Moves(th, "consume")
      BY <1>0, <2>6 DEF BecomeConsumer, Dispatch, Moves, One, Consuming, Waiting
    <3> QED  BY <3>1, CountersMove
  <2> QED  BY <1>1, <2>1, <2>2, <2>3, <2>4, <2>5, <2>6 DEF Handle
<1>2. ASSUME NEW th \in Threads, Continue(th) \/ SpuriousWake(th) PROVE Counters'
  <2> SUFFICES \E v : Moves(th, v)
    BY CountersMove
  <2>1. CASE Erase(th)
    <3>1. Moves(th, "idle")
      BY <1>0, <2>1 DEF Erase, Moves, One, Consuming, Waiting
    <3> QED  BY <3>1
  <2>2. CASE ProcessJob(th)
    <3>1. Moves(th, IF pc[th] = "consume" THEN "c_reply" ELSE "h_reply")
      BY <1>0, <2>2 DEF ProcessJob, Moves, One, Consuming, Waiting
    <3> QED  BY <3>1
  <2>3. CASE Respond(th)
    <3>1. Moves(th, IF pc[th] = "c_reply" THEN "consume"
                    ELSE IF Len(mine[th]) = 1 THEN "idle" ELSE "helping")
      BY <1>0, <2>3 DEF Respond, Moves, One, Consuming, Waiting
    <3> QED  BY <3>1
  <2>4. CASE NextChunk(th)
    <3>1. Moves(th, "consume")
      BY <1>0, <2>4 DEF NextChunk, HasMonitor, Awake, Moves, One, Consuming, Waiting
    <3> QED  BY <3>1
  <2>5. CASE Sleep(th)
    <3>1. Moves(th, "waiting")
      BY <1>0, <2>5 DEF Sleep, HasMonitor, Awake, Moves, One, Consuming, Waiting
    <3> QED  BY <3>1
  <2>6. CASE SpuriousWake(th)
    <3>1. Moves(th, "notified")
      BY <1>0, <2>6 DEF SpuriousWake, Moves, One, Consuming, Waiting
    <3> QED  BY <3>1
  <2> QED  BY <1>2, <2>1, <2>2, <2>3, <2>4, <2>5, <2>6 DEF Continue
<1>3. CASE UNCHANGED vars
  BY <1>3, CountersStay DEF vars
<1> QED  BY <1>1, <1>2, <1>3 DEF Next

-----------------------------------------------------------------------------
\* Consumers that wait or have just been woken are consumers.
LEMMA CountersBound ==
  Counters /\ numConsumers \in 0..NUM_CONSUMERS => waitingThrds \in 0..NUM_CONSUMERS
<1> SUFFICES ASSUME Counters, numConsumers \in 0..NUM_CONSUMERS
             PROVE  waitingThrds \in 0..NUM_CONSUMERS
  OBVIOUS
<1>1. At({"waiting", "notified"}) \in SUBSET At(Consuming)
  BY DEF At, Consuming
<1>2. Cardinality(At({"waiting", "notified"})) <= Cardinality(At(Consuming))
  BY <1>1, AtFinite, FS_Subset
<1> QED  BY <1>2, AtFinite, ServerAssumption DEF Counters

\* What TypeOK says of the table.
TableOK(t) == DOMAIN t \subseteq Words /\ \A w \in DOMAIN t : t[w] \in Int

LEMMA TableTypes ==
  ASSUME NEW t, TableOK(t), NEW w \in Words, NEW v \in Int
  PROVE  /\ TableOK(Accumulated(t, w, v)) /\ Accumulated(t, w, v)[w] \in Int
         /\ TableOK(Stored(t, w, v))
         /\ TableOK(Forgotten(t, w))
<1>1. CountsOf(t, w) + v \in Int
  BY DEF CountsOf, TableOK
<1>2. ASSUME NEW n \in Int PROVE TableOK(Stored(t, w, n)) /\ Stored(t, w, n)[w] \in Int
  BY DEF Stored, TableOK
<1>3. TableOK(Forgotten(t, w))
  BY DEF Forgotten, TableOK
<1> QED  BY <1>1, <1>2, <1>3 DEF Accumulated

\* The variables of a handler and of a consumer that a step leaves well typed.
QueueTypes ==
  /\ sent \subseteq Requests
  /\ jobs \in Seq(Jobs)
  /\ numConsumers \in 0..NUM_CONSUMERS
  /\ pc \in [Threads -> PC]
  /\ mine \in [Threads -> Seq(Requests)]

DataTypes ==
  /\ reply \in [Threads -> Int]
  /\ TableOK(table)
  /\ answers \subseteq [call : Requests, counts : Int]

LEMMA QueueTypesStep ==
  TypeOK /\ InHand /\ [Next]_vars => QueueTypes'
<1> SUFFICES ASSUME TypeOK, InHand, [Next]_vars PROVE QueueTypes'
  OBVIOUS
<1> USE DEF TypeOK, QueueTypes, PC, Consuming
<1>1. ASSUME NEW th \in Threads, NEW r \in Requests, Handle(th, r) PROVE QueueTypes'
  <2>1. CASE HandlePut(th, r)
    BY <2>1 DEF HandlePut, Dispatch
  <2>2. CASE HandleGet(th, r)
    BY <2>2 DEF HandleGet, Dispatch
  <2>3. CASE HandleRemove(th, r)
    <3>1. <<r>> \in Seq(Requests)
      OBVIOUS
    <3>2. mine' \in [Threads -> Seq(Requests)] /\ pc' \in [Threads -> PC]
      BY <2>3, <3>1 DEF HandleRemove
    <3> QED  BY <2>3, <3>2 DEF HandleRemove, Dispatch
  <2>4. CASE r \in Jobs /\ Append(jobs, r) \in Seq(Jobs)
    <3>1. CASE QueueJob(th, r)
      BY <2>4, <3>1 DEF QueueJob, Dispatch, Notify, Sleepers
    <3>2. CASE HelpOut(th, r)
      <4>1. jobs' \in Seq(Jobs) /\ mine' \in [Threads -> Seq(Requests)]
        BY <2>4, <3>2, ChunkOfQueue DEF HelpOut, TakeChunk
      <4> QED  BY <3>2, <4>1 DEF HelpOut, Dispatch
    <3>3. CASE BecomeConsumer(th, r)
      <4>1. numConsumers' \in 0..NUM_CONSUMERS
        BY <3>3, ServerAssumption DEF BecomeConsumer, ConsumerMissing
      <4>2. jobs' \in Seq(Jobs) /\ mine' \in [Threads -> Seq(Requests)]
        BY <2>4, <3>3, ChunkOfQueue DEF BecomeConsumer, TakeChunk
      <4> QED  BY <3>3, <4>1, <4>2 DEF BecomeConsumer, Dispatch
    <3> QED  BY <1>1, <2>1, <2>2, <2>3, <3>1, <3>2, <3>3 DEF Handle
  <2>5. QueueJob(th, r) \/ HelpOut(th, r) \/ BecomeConsumer(th, r)
          => r \in Jobs /\ Append(jobs, r) \in Seq(Jobs)
    BY DEF QueueJob, HelpOut, BecomeConsumer, Jobs
  <2> QED  BY <1>1, <2>1, <2>2, <2>3, <2>4, <2>5 DEF Handle
<1>2. ASSUME NEW th \in Threads, Continue(th) \/ SpuriousWake(th) PROVE QueueTypes'
  <2>1. CASE Erase(th)
    BY <2>1 DEF Erase
  <2>2. CASE ProcessJob(th)
    BY <2>2 DEF ProcessJob
  <2>3. CASE Respond(th)
    <3>1. mine' \in [Threads -> Seq(Requests)]
      BY <2>3 DEF Respond, InHand
    <3>2. pc' \in [Threads -> PC]
      BY <2>3 DEF Respond
    <3> QED  BY <2>3, <3>1, <3>2 DEF Respond
  <2>4. CASE NextChunk(th)
    BY <2>4, ChunkOfQueue DEF NextChunk, TakeChunk
  <2>5. CASE Sleep(th)
    BY <2>5 DEF Sleep
  <2>6. CASE SpuriousWake(th)
    BY <2>6 DEF SpuriousWake
  <2> QED  BY <1>2, <2>1, <2>2, <2>3, <2>4, <2>5, <2>6 DEF Continue
<1>3. CASE UNCHANGED vars
  BY <1>3 DEF vars
<1> QED  BY <1>1, <1>2, <1>3 DEF Next

LEMMA DataTypesStep ==
  TypeOK /\ InHand /\ [Next]_vars => DataTypes'
<1> SUFFICES ASSUME TypeOK, InHand, [Next]_vars PROVE DataTypes'
  OBVIOUS
<1>0. /\ DataTypes
      /\ mine \in [Threads -> Seq(Requests)]
      /\ \A r \in Requests : r.word \in Words /\ r.val \in Int
      /\ \A r \in Jobs : r \in Requests
  BY ServerAssumption DEF TypeOK, DataTypes, TableOK, Jobs
<1>1. ASSUME NEW th \in Threads, NEW r \in Requests, Handle(th, r) PROVE DataTypes'
  <2>1. CASE HandlePut(th, r)
    <3>1. TableOK(table')
      BY <1>0, <2>1, TableTypes DEF HandlePut, DataTypes
    <3> QED  BY <1>0, <2>1, <3>1 DEF HandlePut, DataTypes
  <2>2. CASE HandleGet(th, r)
    BY <1>0, <2>2 DEF HandleGet, DataTypes, TableOK
  <2>3. CASE HandleRemove(th, r)
    BY <1>0, <2>3 DEF HandleRemove, DataTypes, TableOK
  <2>4. CASE QueueJob(th, r) \/ HelpOut(th, r) \/ BecomeConsumer(th, r)
    BY <1>0, <2>4 DEF QueueJob, HelpOut, BecomeConsumer, DataTypes, TableOK
  <2> QED  BY <1>1, <2>1, <2>2, <2>3, <2>4 DEF Handle
<1>2. ASSUME NEW th \in Threads, Continue(th) \/ SpuriousWake(th) PROVE DataTypes'
  <2>1. CASE Erase(th)
    <3>1. Head(mine[th]) \in Requests
      BY <1>0, <2>1 DEF Erase, InHand
    <3>2. TableOK(table')
      BY <1>0, <2>1, <3>1, TableTypes, 0 \in Int DEF Erase, DataTypes
    <3> QED  BY <1>0, <2>1, <3>1, <3>2 DEF Erase, DataTypes
  <2>2. CASE ProcessJob(th)
    <3>1. Head(mine[th]) \in Requests
      BY <1>0, <2>2 DEF ProcessJob
    <3>2. TableOK(table') /\ table'[Head(mine[th]).word] \in Int
      BY <1>0, <2>2, <3>1, TableTypes DEF ProcessJob, DataTypes
    <3> QED  BY <1>0, <2>2, <3>2 DEF ProcessJob, DataTypes
  <2>3. CASE Respond(th)
    <3>1. Head(mine[th]) \in Requests
      BY <1>0, <2>3 DEF Respond, InHand
    <3> QED  BY <1>0, <2>3, <3>1 DEF Respond, DataTypes, TableOK
  <2>4. CASE NextChunk(th) \/ Sleep(th) \/ SpuriousWake(th)
    BY <1>0, <2>4 DEF NextChunk, Sleep, SpuriousWake, DataTypes, TableOK
  <2> QED  BY <1>2, <2>1, <2>2, <2>3, <2>4 DEF Continue
<1>3. CASE UNCHANGED vars
  BY <1>0, <1>3 DEF vars, DataTypes, TableOK
<1> QED  BY <1>1, <1>2, <1>3 DEF Next

LEMMA TypeStep ==
  TypeOK /\ Counters /\ InHand /\ [Next]_vars => TypeOK'
<1> SUFFICES ASSUME TypeOK, Counters, InHand, [Next]_vars PROVE TypeOK'
  OBVIOUS
<1>1. QueueTypes' /\ DataTypes'
  BY QueueTypesStep, DataTypesStep
<1>2. waitingThrds' \in 0..NUM_CONSUMERS
  <2>1. Counters' /\ numConsumers' \in 0..NUM_CONSUMERS
    BY <1>1, CountersStep DEF QueueTypes
  <2>2. (Counters /\ numConsumers \in 0..NUM_CONSUMERS => waitingThrds \in 0..NUM_CONSUMERS)'
    BY CountersBound, PTL
  <2> QED  BY <2>1, <2>2
<1> QED  BY <1>1, <1>2 DEF TypeOK, QueueTypes, DataTypes, TableOK

LEMMA InHandStep ==
  TypeOK /\ InHand /\ [Next]_vars => InHand'
<1> SUFFICES ASSUME TypeOK, InHand, [Next]_vars PROVE InHand'
  OBVIOUS
<1> USE DEF InHand, TypeOK
<1>1. ASSUME NEW th \in Threads, NEW r \in Requests, Handle(th, r) PROVE InHand'
  <2>1. CASE HandlePut(th, r) \/ HandleGet(th, r)
    BY <2>1 DEF HandlePut, HandleGet
  <2>2. CASE HandleRemove(th, r)
    <3>1. CASE UNCHANGED <<pc, mine>>
      BY <3>1
    <3>2. CASE /\ pc' = [pc EXCEPT ![th] = "removing"]
               /\ mine' = [mine EXCEPT ![th] = <<r>>]
      <4>1. mine'[th] # <<>>
        BY <3>2
      <4> QED  BY <3>2, <4>1
    <3> QED  BY <2>2, <3>1, <3>2 DEF HandleRemove
  <2>3. CASE QueueJob(th, r)
    BY <2>3 DEF QueueJob, Notify, Sleepers
  <2>4. CASE HelpOut(th, r)
    BY <2>4 DEF HelpOut, TakeChunk
  <2>5. CASE BecomeConsumer(th, r)
    BY <2>5 DEF BecomeConsumer, TakeChunk
  <2> QED  BY <1>1, <2>1, <2>2, <2>3, <2>4, <2>5 DEF Handle
<1>2. ASSUME NEW th \in Threads, Continue(th) \/ SpuriousWake(th) PROVE InHand'
  <2>1. CASE Erase(th)
    BY <2>1 DEF Erase
  <2>2. CASE ProcessJob(th)
    BY <2>2 DEF ProcessJob
  <2>3. CASE Respond(th)
    BY <2>3 DEF Respond
  <2>4. CASE NextChunk(th)
    BY <2>4 DEF NextChunk, TakeChunk
  <2>5. CASE Sleep(th) \/ SpuriousWake(th)
    BY <2>5 DEF Sleep, SpuriousWake
  <2> QED  BY <1>2, <2>1, <2>2, <2>3, <2>4, <2>5 DEF Continue
<1>3. CASE UNCHANGED vars
  BY <1>3 DEF vars
<1> QED  BY <1>1, <1>2, <1>3 DEF Next

-----------------------------------------------------------------------------
(***************************************************************************)
(* The queue: what a step leaves in it is no more than before, except for  *)
(* the job that QueueJob adds below the bound.                             *)
(***************************************************************************)
LEMMA QueueStep ==
  TypeOK /\ QueueBelowFull /\ [Next]_vars => QueueBelowFull'
<1> SUFFICES ASSUME TypeOK, QueueBelowFull, [Next]_vars PROVE QueueBelowFull'
  OBVIOUS
<1>0. jobs \in Seq(Jobs) /\ Len(jobs) \in Nat /\ Len(jobs) < QUE_FULL
  BY DEF TypeOK, QueueBelowFull
<1>1. ASSUME NEW th \in Threads, NEW r \in Jobs, TakeChunk(th, Append(jobs, r))
      PROVE  Len(jobs') <= Len(jobs)
  <2> DEFINE q == Append(jobs, r)
  <2>1. q \in Seq(Jobs) /\ q # <<>> /\ Len(q) = Len(jobs) + 1
    BY <1>0
  <2>2. jobs' = SubSeq(q, ChunkSize(q) + 1, Len(q))
    BY <1>1 DEF TakeChunk
  <2> HIDE DEF q
  <2>3. ChunkSize(q) \in 1..Len(q) /\ Len(jobs') = Len(q) - ChunkSize(q)
    <3>1. ChunkSize(q) \in 0..Len(q) /\ ChunkSize(q) > 0
      BY <2>1, ChunkOfQueue
    <3> QED  BY <2>1, <2>2, <3>1, ChunkOfQueue
  <2> QED  BY <1>0, <2>1, <2>3
<1>2. ASSUME NEW th \in Threads, NEW r \in Requests, Handle(th, r) PROVE QueueBelowFull'
  <2>1. CASE HandlePut(th, r) \/ HandleGet(th, r) \/ HandleRemove(th, r)
    BY <1>0, <2>1 DEF HandlePut, HandleGet, HandleRemove, QueueBelowFull
  <2>2. CASE QueueJob(th, r)
    <3>1. Len(jobs') = Len(jobs) + 1
      BY <1>0, <2>2 DEF QueueJob
    <3> QED  BY <1>0, <2>2, <3>1, ServerAssumption DEF QueueJob, QueueFull, QueueBelowFull
  <2>3. CASE HelpOut(th, r) \/ BecomeConsumer(th, r)
    <3>1. Len(jobs') <= Len(jobs)
      BY <1>1, <2>3 DEF HelpOut, BecomeConsumer, Jobs
    <3>2. Len(jobs') \in Nat
      <4>1. jobs' \in Seq(Jobs)
        <5>1. Append(jobs, r) \in Seq(Jobs)
          BY <1>0, <2>3 DEF HelpOut, BecomeConsumer, Jobs
        <5> QED  BY <2>3, <5>1, ChunkOfQueue DEF HelpOut, BecomeConsumer, TakeChunk
      <4> QED  BY <4>1
    <3> QED  BY <1>0, <3>1, <3>2, ServerAssumption DEF QueueBelowFull
  <2> QED  BY <1>2, <2>1, <2>2, <2>3 DEF Handle
<1>3. ASSUME NEW th \in Threads, Continue(th) \/ SpuriousWake(th) PROVE QueueBelowFull'
  <2>1. CASE NextChunk(th)
    <3>1. Len(jobs') = Len(jobs) - ChunkSize(jobs) /\ ChunkSize(jobs) \in 0..Len(jobs)
      BY <1>0, <2>1, ChunkOfQueue DEF NextChunk, TakeChunk
    <3> QED  BY <1>0, <3>1, ServerAssumption DEF QueueBelowFull
  <2>2. CASE jobs' = jobs
    BY <2>2 DEF QueueBelowFull
  <2> QED  BY <1>3, <2>1, <2>2 DEF Continue, Erase, ProcessJob, Respond, Sleep, SpuriousWake
<1>4. CASE UNCHANGED vars
  BY <1>4 DEF vars, QueueBelowFull
<1> QED  BY <1>2, <1>3, <1>4 DEF Next

-----------------------------------------------------------------------------
\* A consumer that will look at the queue before it sleeps.
Awaken == Consuming \ {"waiting"}

(***************************************************************************)
(* Some consumer stays awake while there are jobs.  The one step that adds *)
(* a job to an empty queue for others to take is QueueJob: then there are  *)
(* consumers, and if none is notified the counter shows that none sleeps.  *)
(***************************************************************************)
LEMMA StrandStep ==
  TypeOK /\ Counters /\ NoStrandedJobs /\ [Next]_vars => NoStrandedJobs'
<1> SUFFICES ASSUME TypeOK, Counters, NoStrandedJobs, [Next]_vars, jobs' # <<>>
             PROVE  \E th \in Threads : pc'[th] \in Awaken
  BY DEF NoStrandedJobs, Awaken
<1>0. jobs \in Seq(Jobs) /\ pc \in [Threads -> PC]
  BY DEF TypeOK
<1>a. ASSUME jobs # <<>> PROVE \E th \in Threads : pc[th] \in Awaken
  BY <1>a DEF NoStrandedJobs, Awaken
<1>1. ASSUME NEW th \in Threads, NEW r \in Requests, Handle(th, r)
      PROVE  \E t \in Threads : pc'[t] \in Awaken
  <2>0. pc[th] = "idle"
    BY <1>1 DEF Handle, HandlePut, HandleGet, HandleRemove, QueueJob, HelpOut,
                BecomeConsumer, Dispatch
  <2>1. CASE HandlePut(th, r) \/ HandleGet(th, r)
    BY <1>a, <2>1 DEF HandlePut, HandleGet
  <2>2. CASE HandleRemove(th, r)
    BY <1>0, <1>a, <2>0, <2>2 DEF HandleRemove, Awaken, Consuming
  <2>3. CASE QueueJob(th, r)
    <3>1. CASE \E s \in Sleepers : pc' = [pc EXCEPT ![s] = "notified"]
      BY <1>0, <3>1 DEF Sleepers, Awaken, Consuming
    <3>2. CASE (waitingThrds = 0 \/ Sleepers = {}) /\ UNCHANGED pc
      <4>1. Sleepers = {}
        <5>1. CASE waitingThrds = 0
          <6>1. At({"waiting", "notified"}) = {}
            BY <5>1, AtFinite, FS_EmptySet DEF Counters
          <6> QED  BY <6>1 DEF At, Sleepers
        <5> QED  BY <3>2, <5>1
      <4>2. At(Consuming) # {}
        <5>1. Cardinality(At(Consuming)) # 0
          BY <2>3, ServerAssumption DEF QueueJob, ConsumerMissing, Counters, TypeOK
        <5> QED  BY <5>1, FS_EmptySet
      <4> QED  BY <3>2, <4>1, <4>2 DEF At, Sleepers, Awaken
    <3> QED  BY <2>3, <3>1, <3>2 DEF QueueJob, Notify
  <2>4. CASE HelpOut(th, r)
    <3>1. jobs # <<>>
      <4> SUFFICES ASSUME jobs = <<>> PROVE FALSE
        OBVIOUS
      <4>1. Append(jobs, r) \in Seq(Jobs) /\ Len(Append(jobs, r)) = 1
        BY <1>0, <2>4 DEF HelpOut, Jobs
      <4>2. ChunkSize(Append(jobs, r)) = 1
        BY <4>1, ServerAssumption DEF ChunkSize
      <4>3. jobs' \in Seq(Jobs) /\ Len(jobs') = 0
        BY <2>4, <4>1, <4>2, ChunkOfQueue DEF HelpOut, TakeChunk
      <4> QED  BY <4>3
    <3> QED  BY <1>0, <1>a, <2>0, <2>4, <3>1 DEF HelpOut, Awaken, Consuming
  <2>5. CASE BecomeConsumer(th, r)
    BY <1>0, <2>5 DEF BecomeConsumer, Awaken, Consuming
  <2> QED  BY <1>1, <2>1, <2>2, <2>3, <2>4, <2>5 DEF Handle
<1>2. ASSUME NEW th \in Threads, Continue(th) \/ SpuriousWake(th)
      PROVE  \E t \in Threads : pc'[t] \in Awaken
  <2>1. CASE Erase(th)
    BY <1>0, <1>a, <2>1 DEF Erase, Awaken, Consuming
  <2>2. CASE ProcessJob(th)
    BY <1>0, <1>a, <2>2 DEF ProcessJob, Awaken, Consuming
  <2>3. CASE Respond(th)
    BY <1>0, <1>a, <2>3 DEF Respond, Awaken, Consuming
  <2>4. CASE NextChunk(th) \/ SpuriousWake(th)
    BY <1>0, <2>4 DEF NextChunk, SpuriousWake, Awaken, Consuming
  <2>5. CASE Sleep(th)
    BY <2>5 DEF Sleep
  <2> QED  BY <1>2, <2>1, <2>2, <2>3, <2>4, <2>5 DEF Continue
<1>3. CASE UNCHANGED vars
  BY <1>3, <1>a DEF vars
<1> QED  BY <1>1, <1>2, <1>3 DEF Next

-----------------------------------------------------------------------------
\* Inv is an inductive invariant of the server.
THEOREM InvCorrect == Spec => []Inv
<1>1. Init => Inv
  BY InitInv
<1>2. Inv /\ [Next]_vars => Inv'
  BY TypeStep, CountersStep, InHandStep, QueueStep, StrandStep DEF Inv
<1> QED  BY <1>1, <1>2, PTL DEF Spec

(***************************************************************************)
(* The variables keep their types, and no more than NUM_CONSUMERS threads  *)
(* are ever held, or counted as asleep, by the queue.                      *)
(***************************************************************************)
THEOREM TypeCorrect == Spec => []TypeOK
<1>1. Inv => TypeOK
  BY DEF Inv
<1> QED  BY <1>1, InvCorrect, PTL

(***************************************************************************)
(* No lost notify leaves jobs to consumers that all sleep.                 *)
(***************************************************************************)
THEOREM NoJobIsStranded == Spec => []NoStrandedJobs
<1>1. Inv => NoStrandedJobs
  BY DEF Inv
<1> QED  BY <1>1, InvCorrect, PTL

(***************************************************************************)
(* However many handlers race, the queue never reaches QUE_FULL jobs.      *)
(***************************************************************************)
THEOREM QueueNeverFull == Spec => []QueueBelowFull
<1>1. Inv => QueueBelowFull
  BY DEF Inv
<1> QED  BY <1>1, InvCorrect, PTL
-----------------------------------------------------------------------------
(***************************************************************************)
(* Each job once.  Queues are compared by the requests in them; that a job *)
(* is held twice nowhere is that the queues hold no request twice and      *)
(* share none, and that it is never held nowhere needs an account of all.  *)
(***************************************************************************)
In(q) == {q[i] : i \in 1..Len(q)}

Distinct(q) == \A i, j \in 1..Len(q) : q[i] = q[j] => i = j

\* What a thread may have in hand, by where it is.
HandOK(p, q) ==
  /\ p \in {"idle", "waiting", "notified"} => q = <<>>
  /\ p = "helping" => q # <<>>
  /\ p = "removing" => Len(q) = 1 /\ q[1] \notin Jobs
  /\ p # "removing" => q \in Seq(Jobs)

Hands == \A th \in Threads : HandOK(pc[th], mine[th])

\* A request is in one place: not dispatched, queued, or of one thread's chunk.
Apart ==
  /\ Distinct(jobs)
  /\ sent \cap In(jobs) = {}
  /\ \A th \in Threads :
       /\ Distinct(mine[th])
       /\ In(mine[th]) \cap (sent \cup In(jobs)) = {}
       /\ \A u \in Threads \ {th} : In(mine[th]) \cap In(mine[u]) = {}

Held == sent \cup In(jobs) \cup UNION {In(mine[th]) : th \in Threads}

\* What is answered is held no more, and what is not is still held.
AnsweredIsDone == \A a \in answers : a.call \notin Held

NothingLost == \A r \in Jobs : r \in Held \/ Answered(r)

OnceInv == Hands /\ Apart /\ AnsweredIsDone /\ NothingLost

LEMMA InitOnce == Init => OnceInv
<1> SUFFICES ASSUME Init PROVE OnceInv
  OBVIOUS
<1>1. Hands
  BY DEF Init, Hands, HandOK
<1>2. In(<<>>) = {} /\ Distinct(<<>>)
  BY DEF In, Distinct
<1>3. jobs = <<>> /\ \A th \in Threads : mine[th] = <<>>
  BY DEF Init
<1>4. Apart
  BY <1>2, <1>3 DEF Apart
<1>5. Held = Requests
  BY <1>2, <1>3 DEF Init, Held
<1>6. AnsweredIsDone /\ NothingLost
  BY <1>5 DEF Init, AnsweredIsDone, NothingLost, Jobs
<1> QED  BY <1>1, <1>4, <1>6 DEF OnceInv

\* What the sequence operators of the queue do to the requests in it.
LEMMA InAppend ==
  ASSUME NEW q \in Seq(Requests), NEW r \in Requests, Distinct(q), r \notin In(q)
  PROVE  Distinct(Append(q, r)) /\ In(Append(q, r)) = In(q) \cup {r}
<1>1. /\ Len(Append(q, r)) = Len(q) + 1 /\ Len(q) \in Nat
      /\ \A i \in 1..Len(q) : Append(q, r)[i] = q[i]
      /\ Append(q, r)[Len(q) + 1] = r
  OBVIOUS
<1>2. In(Append(q, r)) = In(q) \cup {r}
  BY <1>1 DEF In
<1>3. Distinct(Append(q, r))
  BY <1>1 DEF Distinct, In
<1> QED  BY <1>2, <1>3

LEMMA InTail ==
  ASSUME NEW q \in Seq(Requests), q # <<>>, Distinct(q)
  PROVE  Distinct(Tail(q)) /\ In(Tail(q)) = In(q) \ {Head(q)} /\ Head(q) \in In(q)
<1>1. /\ Len(Tail(q)) = Len(q) - 1 /\ Len(q) \in Nat \ {0} /\ Head(q) = q[1]
      /\ \A i \in 1..(Len(q) - 1) : Tail(q)[i] = q[i + 1]
  OBVIOUS
<1>2. \A i \in 2..Len(q) : i - 1 \in 1..(Len(q) - 1) /\ Tail(q)[i - 1] = q[i] /\ q[i] # q[1]
  BY <1>1 DEF Distinct
<1>3. In(Tail(q)) = In(q) \ {Head(q)}
  <2>1. ASSUME NEW x \in In(Tail(q)) PROVE x \in In(q) \ {Head(q)}
    BY <1>1, <1>2 DEF In, Distinct
  <2>2. ASSUME NEW x \in In(q) \ {Head(q)} PROVE x \in In(Tail(q))
    BY <1>1, <1>2 DEF In
  <2> QED  BY <2>1, <2>2
<1>4. Distinct(Tail(q))
  BY <1>1 DEF Distinct
<1>5. Head(q) \in In(q)
  BY <1>1 DEF In
<1> QED  BY <1>3, <1>4, <1>5

\* The requests of a queue are those of the chunk and those that stay.
Splits(q, k, a, b) ==
  /\ k \in Nat /\ Len(q) \in Nat /\ k <= Len(q)
  /\ Len(a) = k /\ \A i \in 1..k : a[i] = q[i]
  /\ Len(b) = Len(q) - k /\ \A i \in 1..(Len(q) - k) : b[i] = q[k + i]

LEMMA InChunk ==
  ASSUME NEW q, NEW k, NEW a, NEW b, Distinct(q), Splits(q, k, a, b)
  PROVE  /\ Distinct(a) /\ Distinct(b)
         /\ In(a) \cup In(b) = In(q)
         /\ In(a) \cap In(b) = {}
<1>1. /\ k \in Nat /\ k <= Len(q) /\ Len(q) \in Nat /\ Len(a) = k /\ Len(b) = Len(q) - k
      /\ \A i \in 1..k : a[i] = q[i]
      /\ \A i \in 1..(Len(q) - k) : b[i] = q[k + i]
  BY DEF Splits
<1>2. Distinct(a) /\ Distinct(b)
  <2>1. Distinct(a)
    BY <1>1 DEF Distinct
  <2>2. ASSUME NEW i \in 1..(Len(q) - k), NEW j \in 1..(Len(q) - k), b[i] = b[j]
        PROVE  i = j
    <3>1. k + i \in 1..Len(q) /\ k + j \in 1..Len(q) /\ q[k + i] = q[k + j]
      BY <1>1, <2>2
    <3>2. k + i = k + j
      BY <3>1 DEF Distinct
    <3> QED  BY <1>1, <3>2
  <2> QED  BY <1>1, <2>1, <2>2 DEF Distinct
<1>3. \A i \in 1..Len(q) :
        \/ i \in 1..k
        \/ i - k \in 1..(Len(q) - k) /\ b[i - k] = q[i]
  BY <1>1
<1>4. ASSUME NEW x \in In(a) PROVE \E i \in 1..k : i \in 1..Len(q) /\ x = q[i]
  <2>1. PICK i \in 1..k : x = a[i]
    BY <1>1 DEF In
  <2> QED  BY <1>1, <2>1
<1>5. ASSUME NEW x \in In(b) PROVE \E i \in 1..Len(q) : i \notin 1..k /\ x = q[i]
  <2>1. PICK i \in 1..(Len(q) - k) : x = b[i]
    BY <1>1 DEF In
  <2>2. k + i \in 1..Len(q) /\ k + i \notin 1..k /\ x = q[k + i]
    BY <1>1, <2>1
  <2> QED  BY <2>2
<1>6. In(q) \subseteq In(a) \cup In(b)
  <2>1. ASSUME NEW i \in 1..Len(q) PROVE q[i] \in In(a) \cup In(b)
    <3>1. CASE i \in 1..k
      <4>1. a[i] \in In(a)
        BY <1>1, <3>1 DEF In
      <4> QED  BY <1>1, <3>1, <4>1
    <3>2. CASE i - k \in 1..(Len(q) - k) /\ b[i - k] = q[i]
      <4>1. b[i - k] \in In(b)
        BY <1>1, <3>2 DEF In
      <4> QED  BY <3>2, <4>1
    <3> QED  BY <1>3, <3>1, <3>2
  <2> QED  BY <2>1 DEF In
<1>7. In(a) \cup In(b) \subseteq In(q)
  BY <1>4, <1>5 DEF In
<1>8. In(a) \cap In(b) = {}
  BY <1>4, <1>5 DEF Distinct
<1> QED  BY <1>2, <1>6, <1>7, <1>8

LEMMA InSubSeq ==
  ASSUME NEW q \in Seq(Requests), Distinct(q), NEW k \in 0..Len(q)
  PROVE  /\ Distinct(SubSeq(q, 1, k)) /\ Distinct(SubSeq(q, k + 1, Len(q)))
         /\ In(SubSeq(q, 1, k)) \cup In(SubSeq(q, k + 1, Len(q))) = In(q)
         /\ In(SubSeq(q, 1, k)) \cap In(SubSeq(q, k + 1, Len(q))) = {}
<1> DEFINE a == SubSeq(q, 1, k)
           b == SubSeq(q, k + 1, Len(q))
<1>1. Len(q) \in Nat /\ k \in Nat /\ k <= Len(q)
  OBVIOUS
<1>2. Len(a) = k /\ \A i \in 1..k : a[i] = q[i]
  BY <1>1
<1>3. Len(b) = Len(q) - k
  BY <1>1
<1>4. \A i \in 1..(Len(q) - k) : b[i] = q[k + i]
  BY <1>1
<1> HIDE DEF a, b
<1>s. Splits(q, k, a, b)
  BY <1>1, <1>2, <1>3, <1>4 DEF Splits
<1>5. /\ Distinct(a) /\ Distinct(b)
      /\ In(a) \cup In(b) = In(q)
      /\ In(a) \cap In(b) = {}
  BY <1>s, InChunk
<1> QED  BY <1>5 DEF a, b

LEMMA ChunkTaken ==
  ASSUME NEW q \in Seq(Jobs), Distinct(q), NEW th \in Threads, TakeChunk(th, q),
         mine \in [Threads -> Seq(Requests)]
  PROVE  /\ \A u \in Threads \ {th} : mine'[u] = mine[u]
         /\ mine'[th] \in Seq(Jobs)
         /\ q # <<>> => mine'[th] # <<>>
         /\ Distinct(mine'[th]) /\ Distinct(jobs')
         /\ In(mine'[th]) \cup In(jobs') = In(q)
         /\ In(mine'[th]) \cap In(jobs') = {}
<1>1. /\ mine' = [mine EXCEPT ![th] = SubSeq(q, 1, ChunkSize(q))]
      /\ jobs' = SubSeq(q, ChunkSize(q) + 1, Len(q))
  BY DEF TakeChunk
<1>2. q \in Seq(Requests)
  BY DEF Jobs
<1>3. /\ ChunkSize(q) \in 0..Len(q)
      /\ q # <<>> => ChunkSize(q) > 0
      /\ SubSeq(q, 1, ChunkSize(q)) \in Seq(Jobs)
  BY ChunkOfQueue
<1>4. mine'[th] = SubSeq(q, 1, ChunkSize(q))
  BY <1>1
<1>5. q # <<>> => mine'[th] # <<>>
  BY <1>2, <1>3, <1>4
<1>6. /\ Distinct(mine'[th]) /\ Distinct(jobs')
      /\ In(mine'[th]) \cup In(jobs') = In(q)
      /\ In(mine'[th]) \cap In(jobs') = {}
  <2> DEFINE a == mine'[th]
             b == jobs'
             k == ChunkSize(q)
  <2>1. k \in 0..Len(q) /\ a = SubSeq(q, 1, k) /\ b = SubSeq(q, k + 1, Len(q))
    BY <1>1, <1>3, <1>4
  <2> QED  BY <1>2, <2>1, InSubSeq
<1>7. \A u \in Threads \ {th} : mine'[u] = mine[u]
  BY <1>1
<1> QED  BY <1>3, <1>4, <1>5, <1>6, <1>7

-----------------------------------------------------------------------------
\* The hand of one thread changes.
LEMMA HandChanges ==
  ASSUME NEW th \in Threads, Hands,
         \A u \in Threads \ {th} : pc'[u] = pc[u] /\ mine'[u] = mine[u],
         HandOK(pc'[th], mine'[th])
  PROVE  Hands'
BY DEF Hands

LEMMA HandsStep ==
  TypeOK /\ InHand /\ OnceInv /\ [Next]_vars => Hands'
<1> SUFFICES ASSUME TypeOK, InHand, OnceInv, [Next]_vars PROVE Hands'
  OBVIOUS
<1>0. /\ Hands /\ Distinct(jobs) /\ jobs \in Seq(Jobs)
      /\ pc \in [Threads -> PC] /\ mine \in [Threads -> Seq(Requests)]
  BY DEF OnceInv, Apart, TypeOK
<1>1. ASSUME NEW th \in Threads, NEW r \in Requests, Handle(th, r) PROVE Hands'
  <2>0. pc[th] = "idle" /\ r \in sent
    BY <1>1 DEF Handle, HandlePut, HandleGet, HandleRemove, QueueJob, HelpOut,
                BecomeConsumer, Dispatch
  <2>1. CASE HandlePut(th, r) \/ HandleGet(th, r)
    BY <1>0, <2>1 DEF HandlePut, HandleGet, Hands, HandOK
  <2>2. CASE HandleRemove(th, r)
    <3>1. CASE UNCHANGED <<pc, mine>>
      BY <1>0, <3>1 DEF Hands, HandOK
    <3>2. CASE /\ pc' = [pc EXCEPT ![th] = "removing"]
               /\ mine' = [mine EXCEPT ![th] = <<r>>]
      <4>1. Len(<<r>>) = 1 /\ <<r>>[1] = r /\ r \notin Jobs
        BY <2>2 DEF HandleRemove, Jobs
      <4> QED  BY <1>0, <3>2, <4>1, HandChanges DEF HandOK
    <3> QED  BY <2>2, <3>1, <3>2 DEF HandleRemove
  <2>3. CASE QueueJob(th, r)
    <3>1. CASE \E s \in Sleepers : pc' = [pc EXCEPT ![s] = "notified"]
      <4>1. PICK s \in Threads : pc[s] = "waiting" /\ pc' = [pc EXCEPT ![s] = "notified"]
        BY <3>1 DEF Sleepers
      <4>2. mine' = mine /\ mine[s] = <<>>
        BY <1>0, <2>3, <4>1 DEF QueueJob, Hands, HandOK
      <4> QED  BY <1>0, <4>1, <4>2, HandChanges DEF HandOK
    <3>2. CASE UNCHANGED pc
      BY <1>0, <2>3, <3>2 DEF QueueJob, Hands, HandOK
    <3> QED  BY <2>3, <3>1, <3>2 DEF QueueJob, Notify
  <2>4. CASE HelpOut(th, r) \/ BecomeConsumer(th, r)
    <3> DEFINE q == Append(jobs, r)
    <3>1. r \in Jobs /\ r \notin In(jobs)
      BY <2>0, <2>4 DEF HelpOut, BecomeConsumer, Jobs, OnceInv, Apart
    <3>2. q \in Seq(Jobs) /\ q # <<>>
      BY <1>0, <3>1
    <3>3. Distinct(q)
      BY <1>0, <3>1, InAppend DEF Jobs
    <3>4. TakeChunk(th, q)
      BY <2>4 DEF HelpOut, BecomeConsumer
    <3> HIDE DEF q
    <3>5. /\ \A u \in Threads \ {th} : mine'[u] = mine[u]
          /\ mine'[th] \in Seq(Jobs) /\ mine'[th] # <<>>
      BY <1>0, <3>2, <3>3, <3>4, ChunkTaken
    <3>6. \E v \in {"helping", "consume"} : pc' = [pc EXCEPT ![th] = v]
      BY <2>4 DEF HelpOut, BecomeConsumer
    <3> QED  BY <1>0, <3>5, <3>6, HandChanges DEF HandOK
  <2> QED  BY <1>1, <2>1, <2>2, <2>3, <2>4 DEF Handle
<1>2. ASSUME NEW th \in Threads, Continue(th) \/ SpuriousWake(th) PROVE Hands'
  <2>1. CASE Erase(th)
    <3>1. pc' = [pc EXCEPT ![th] = "idle"] /\ mine' = [mine EXCEPT ![th] = <<>>]
      BY <2>1 DEF Erase
    <3>2. <<>> \in Seq(Jobs)
      OBVIOUS
    <3> QED  BY <1>0, <3>1, <3>2, HandChanges DEF HandOK
  <2>2. CASE ProcessJob(th)
    <3>1. \E v \in {"c_reply", "h_reply"} : pc' = [pc EXCEPT ![th] = v]
      BY <2>2 DEF ProcessJob
    <3>2. mine' = mine /\ mine[th] \in Seq(Jobs)
      BY <1>0, <2>2 DEF ProcessJob, Hands, HandOK
    <3> QED  BY <1>0, <3>1, <3>2, HandChanges DEF HandOK
  <2>3. CASE Respond(th)
    <3> DEFINE v == IF pc[th] = "c_reply" THEN "consume"
                    ELSE IF Len(mine[th]) = 1 THEN "idle" ELSE "helping"
    <3>1. pc' = [pc EXCEPT ![th] = v] /\ mine' = [mine EXCEPT ![th] = Tail(mine[th])]
      BY <2>3 DEF Respond
    <3>2. mine[th] \in Seq(Jobs) /\ mine[th] # <<>>
      <4>1. pc[th] # "removing"
        BY <2>3 DEF Respond
      <4> QED  BY <1>0, <2>3, <4>1 DEF Respond, Hands, HandOK, InHand
    <3>3. Tail(mine[th]) \in Seq(Jobs) /\ (Len(mine[th]) = 1 <=> Tail(mine[th]) = <<>>)
      <4> DEFINE m == mine[th]
      <4>1. m \in Seq(Jobs) /\ m # <<>>
        BY <3>2
      <4> HIDE DEF m
      <4>2. Tail(m) \in Seq(Jobs) /\ Len(Tail(m)) = Len(m) - 1 /\ Len(m) \in Nat
        BY <4>1
      <4>3. ASSUME NEW t \in Seq(Jobs) PROVE t = <<>> <=> Len(t) = 0
        OBVIOUS
      <4>4. Tail(m) = <<>> <=> Len(Tail(m)) = 0
        BY <4>2, <4>3
      <4> QED  BY <4>2, <4>4 DEF m
    <3>4. v \notin {"waiting", "notified", "removing"} /\ (v = "idle" => Len(mine[th]) = 1)
            /\ (v = "helping" => Len(mine[th]) # 1)
      OBVIOUS
    <3>5. \A u \in Threads \ {th} : pc'[u] = pc[u] /\ mine'[u] = mine[u]
      BY <1>0, <3>1
    <3>6. pc'[th] = v /\ mine'[th] = Tail(mine[th])
      BY <1>0, <3>1
    <3> HIDE DEF v
    <3> QED  BY <1>0, <3>3, <3>4, <3>5, <3>6, HandChanges DEF HandOK
  <2>4. CASE NextChunk(th)
    <3>1. \A u \in Threads \ {th} : mine'[u] = mine[u]
      BY <1>0, <2>4 DEF NextChunk, TakeChunk
    <3>2. mine'[th] \in Seq(Jobs)
      BY <1>0, <2>4, ChunkTaken DEF NextChunk
    <3>3. pc'[th] = "consume" /\ \A u \in Threads \ {th} : pc'[u] = pc[u]
      BY <1>0, <2>4 DEF NextChunk
    <3> QED  BY <1>0, <3>1, <3>2, <3>3, HandChanges DEF HandOK
  <2>5. CASE Sleep(th) \/ SpuriousWake(th)
    <3>1. mine' = mine /\ mine[th] = <<>>
      BY <1>0, <2>5 DEF Sleep, SpuriousWake, HasMonitor, Hands, HandOK
    <3>2. \E v \in {"waiting", "notified"} : pc' = [pc EXCEPT ![th] = v]
      BY <2>5 DEF Sleep, SpuriousWake
    <3>3. <<>> \in Seq(Jobs)
      OBVIOUS
    <3> QED  BY <1>0, <3>1, <3>2, <3>3, HandChanges DEF HandOK
  <2> QED  BY <1>2, <2>1, <2>2, <2>3, <2>4, <2>5 DEF Continue
<1>3. CASE UNCHANGED vars
  BY <1>0, <1>3 DEF vars, Hands, HandOK
<1> QED  BY <1>1, <1>2, <1>3 DEF Next

\* What a step of th can move: it leaves out the requests of D and loses no other.
Near(th) == sent \cup In(jobs) \cup In(mine[th])

Shifts(th, D) ==
  /\ \A u \in Threads \ {th} : mine'[u] = mine[u]
  /\ Distinct(jobs') /\ Distinct(mine'[th])
  /\ sent' \cap In(jobs') = {}
  /\ In(mine'[th]) \cap (sent' \cup In(jobs')) = {}
  /\ D \subseteq Near(th)
  /\ sent' \cup In(jobs') \cup In(mine'[th]) = Near(th) \ D

LEMMA ApartMoves ==
  ASSUME Apart, NEW th \in Threads, NEW D, Shifts(th, D)
  PROVE  Apart' /\ Held' = Held \ D
<1> USE DEF Shifts
<1>1. ASSUME NEW u \in Threads \ {th}
      PROVE  In(mine'[u]) \cap Near(th) = {}
  BY <1>1 DEF Apart, Near
<1>2. ASSUME NEW u \in Threads \ {th}
      PROVE  /\ Distinct(mine'[u])
             /\ In(mine'[u]) \cap (sent' \cup In(jobs')) = {}
             /\ In(mine'[u]) \cap In(mine'[th]) = {}
             /\ \A v \in Threads \ {u, th} : In(mine'[u]) \cap In(mine'[v]) = {}
  BY <1>1, <1>2 DEF Apart
<1>3. Apart'
  <2>1. ASSUME NEW u \in Threads
        PROVE  /\ Distinct(mine'[u])
               /\ In(mine'[u]) \cap (sent' \cup In(jobs')) = {}
               /\ \A v \in Threads \ {u} : In(mine'[u]) \cap In(mine'[v]) = {}
    <3>1. CASE u = th
      BY <1>2, <3>1
    <3>2. CASE u # th
      BY <1>2, <3>2
    <3> QED  BY <3>1, <3>2
  <2> QED  BY <2>1 DEF Apart
<1>4. Held' = Held \ D
  <2> DEFINE Others == UNION {In(mine[u]) : u \in Threads \ {th}}
  <2>1. Held = Near(th) \cup Others
    BY DEF Held, Near
  <2>2. Others \cap Near(th) = {}
    BY <1>1
  <2>3. Held' = (sent' \cup In(jobs') \cup In(mine'[th]))
                  \cup UNION {In(mine'[u]) : u \in Threads \ {th}}
    BY DEF Held
  <2>4. UNION {In(mine'[u]) : u \in Threads \ {th}} = Others
    OBVIOUS
  <2> HIDE DEF Others
  <2> QED  BY <2>1, <2>2, <2>3, <2>4
<1> QED  BY <1>3, <1>4

\* What a step of thread th does to what is held.
Keeps == Apart' /\ Held' = Held /\ answers' = answers

Finishes(r) ==
  /\ Apart'
  /\ r \in Held /\ Held' = Held \ {r}
  /\ answers \subseteq answers'
  /\ \A a \in answers' : a \in answers \/ a.call = r
  /\ r \in Jobs => Answered(r)'

LEMMA ApartStep ==
  TypeOK /\ InHand /\ OnceInv /\ [Next]_vars => Keeps \/ \E r \in Requests : Finishes(r)
<1> SUFFICES ASSUME TypeOK, InHand, OnceInv, [Next]_vars
             PROVE  Keeps \/ \E r \in Requests : Finishes(r)
  OBVIOUS
<1>0. /\ Hands /\ Apart /\ jobs \in Seq(Jobs) /\ sent \subseteq Requests
      /\ pc \in [Threads -> PC] /\ mine \in [Threads -> Seq(Requests)]
      /\ \A r \in Jobs : r \in Requests
  BY DEF OnceInv, TypeOK, Jobs
<1>n. Distinct(<<>>) /\ In(<<>>) = {}
  BY DEF Distinct, In
<1>1. ASSUME NEW th \in Threads, NEW r \in Requests, Handle(th, r)
      PROVE  Keeps \/ Finishes(r)
  <2>0. pc[th] = "idle" /\ r \in sent /\ sent' = sent \ {r} /\ mine[th] = <<>>
        /\ r \in Near(th) /\ r \in Held
    <3>1. Dispatch(th, r)
      BY <1>1 DEF Handle, HandlePut, HandleGet, HandleRemove, QueueJob, HelpOut, BecomeConsumer
    <3> QED  BY <1>0, <3>1 DEF Dispatch, Hands, HandOK, Near, Held
  <2>a. ASSUME UNCHANGED <<jobs, mine>> PROVE Apart' /\ Held' = Held \ {r}
    <3>1. /\ sent' \cup In(jobs') \cup In(mine'[th]) = Near(th) \ {r}
          /\ sent' \cap In(jobs') = {}
      BY <1>0, <1>n, <2>0, <2>a DEF Near, Apart
    <3>2. Shifts(th, {r})
      BY <1>0, <1>n, <2>0, <2>a, <3>1 DEF Apart, Shifts
    <3> QED  BY <1>0, <3>2, ApartMoves
  <2>1. CASE HandlePut(th, r)
    BY <2>0, <2>1, <2>a DEF HandlePut, Finishes, Jobs
  <2>2. CASE HandleGet(th, r)
    BY <2>0, <2>2, <2>a DEF HandleGet, Finishes, Jobs
  <2>3. CASE HandleRemove(th, r)
    <3>1. CASE UNCHANGED <<pc, mine, reply>>
      BY <2>0, <2>3, <3>1, <2>a DEF HandleRemove, Finishes, Jobs
    <3>2. CASE mine' = [mine EXCEPT ![th] = <<r>>]
      <4>1. mine'[th] = <<r>> /\ \A u \in Threads \ {th} : mine'[u] = mine[u]
        BY <1>0, <3>2
      <4>2. Distinct(<<r>>) /\ In(<<r>>) = {r}
        BY DEF Distinct, In
      <4>3. jobs' = jobs /\ answers' = answers
        BY <2>3 DEF HandleRemove
      <4>4. /\ sent' \cup In(jobs') \cup In(mine'[th]) = Near(th) \ {}
            /\ sent' \cap In(jobs') = {}
            /\ In(mine'[th]) \cap (sent' \cup In(jobs')) = {}
        BY <1>0, <1>n, <2>0, <4>1, <4>2, <4>3 DEF Near, Apart
      <4>5. Apart' /\ Held' = Held \ {}
        <5>1. Shifts(th, {})
          BY <1>0, <4>1, <4>2, <4>3, <4>4 DEF Apart, Shifts
        <5> QED  BY <1>0, <5>1, ApartMoves
      <4> QED  BY <4>3, <4>5 DEF Keeps
    <3> QED  BY <2>3, <3>1, <3>2 DEF HandleRemove
  <2>4. CASE QueueJob(th, r) \/ HelpOut(th, r) \/ BecomeConsumer(th, r)
    <3> DEFINE q == Append(jobs, r)
    <3>1. r \in Jobs /\ r \notin In(jobs) /\ jobs \in Seq(Requests)
      BY <1>0, <2>0, <2>4 DEF QueueJob, HelpOut, BecomeConsumer, Jobs, Apart
    <3>2. q \in Seq(Jobs)
      BY <1>0, <3>1
    <3>3. Distinct(q) /\ In(q) = In(jobs) \cup {r}
      BY <1>0, <3>1, InAppend DEF Apart
    <3>4. answers' = answers
      BY <2>4 DEF QueueJob, HelpOut, BecomeConsumer
    <3>5. /\ \A u \in Threads \ {th} : mine'[u] = mine[u]
          /\ Distinct(mine'[th]) /\ Distinct(jobs')
          /\ In(mine'[th]) \cup In(jobs') = In(q)
          /\ In(mine'[th]) \cap In(jobs') = {}
      <4>1. CASE QueueJob(th, r)
        BY <1>n, <2>0, <3>3, <4>1 DEF QueueJob
      <4>2. CASE TakeChunk(th, q)
        <5> HIDE DEF q
        <5> QED  BY <1>0, <3>2, <3>3, <4>2, ChunkTaken
      <4> QED  BY <2>4, <4>1, <4>2 DEF HelpOut, BecomeConsumer
    <3> HIDE DEF q
    <3>6. sent' \cup In(jobs') \cup In(mine'[th]) = Near(th) \ {}
      BY <1>n, <2>0, <3>3, <3>5 DEF Near
    <3>7. /\ sent' \cap In(jobs') = {}
          /\ In(mine'[th]) \cap (sent' \cup In(jobs')) = {}
      BY <1>0, <2>0, <3>3, <3>5 DEF Apart
    <3>8. Apart' /\ Held' = Held \ {}
      <4>1. Shifts(th, {})
        BY <3>5, <3>6, <3>7 DEF Shifts
      <4> QED  BY <1>0, <4>1, ApartMoves
    <3> QED  BY <3>4, <3>8 DEF Keeps
  <2> QED  BY <1>1, <2>1, <2>2, <2>3, <2>4 DEF Handle
<1>2. ASSUME NEW th \in Threads, Continue(th) \/ SpuriousWake(th)
      PROVE  Keeps \/ \E r \in Requests : Finishes(r)
  <2>1. CASE Erase(th) \/ Respond(th)
    <3> DEFINE m == mine[th]
    <3>1. m \in Seq(Requests) /\ m # <<>> /\ Distinct(m)
      BY <1>0, <2>1 DEF Erase, Respond, InHand, Apart
    <3>a. PICK r \in Requests : r = Head(m)
      <4> HIDE DEF m
      <4> QED  BY <3>1
    <3>2. Distinct(Tail(m)) /\ In(Tail(m)) = In(m) \ {r} /\ r \in In(m)
      <4> HIDE DEF m
      <4> QED  BY <3>1, <3>a, InTail
    <3>3. mine' = [mine EXCEPT ![th] = Tail(m)] /\ UNCHANGED <<sent, jobs>>
      <4>1. CASE Erase(th)
        <5>1. Len(m) = 1
          BY <1>0, <4>1 DEF Erase, Hands, HandOK
        <5>2. Tail(m) = <<>>
          <6> HIDE DEF m
          <6>1. Tail(m) \in Seq(Requests) /\ Len(Tail(m)) = 0
            BY <3>1, <5>1
          <6>2. ASSUME NEW t \in Seq(Requests), Len(t) = 0 PROVE t = <<>>
            BY <6>2
          <6> QED  BY <6>1, <6>2
        <5> QED  BY <4>1, <5>2 DEF Erase
      <4>2. CASE Respond(th)
        BY <4>2 DEF Respond
      <4> QED  BY <2>1, <4>1, <4>2
    <3>4. mine'[th] = Tail(m) /\ \A u \in Threads \ {th} : mine'[u] = mine[u]
      BY <1>0, <3>3
    <3>5. In(m) \subseteq Near(th) /\ In(m) \subseteq Held /\ In(m) \cap (sent \cup In(jobs)) = {}
      BY <1>0 DEF Near, Held, Apart
    <3>6. answers' = answers \cup {[call |-> r, counts |-> reply[th]]}
      BY <2>1, <3>a DEF Erase, Respond
    <3>7. /\ answers \subseteq answers'
          /\ \A a \in answers' : a \in answers \/ a.call = r
          /\ Answered(r)'
      <4> DEFINE a == [call |-> r, counts |-> reply[th]]
      <4>1. a.call = r /\ answers' = answers \cup {a}
        BY <3>6
      <4> HIDE DEF a
      <4> QED  BY <4>1 DEF Answered
    <3>8. Near(th) = sent \cup In(jobs) \cup In(m)
      BY DEF Near
    <3> HIDE DEF m
    <3>9. Apart' /\ Held' = Held \ {r}
      <4>1. sent' \cup In(jobs') \cup In(mine'[th]) = Near(th) \ {r}
        BY <3>2, <3>3, <3>4, <3>5, <3>8
      <4>2. /\ Distinct(jobs') /\ Distinct(mine'[th])
            /\ sent' \cap In(jobs') = {}
            /\ In(mine'[th]) \cap (sent' \cup In(jobs')) = {}
        BY <1>0, <3>2, <3>3, <3>4, <3>5 DEF Apart
      <4>3. Shifts(th, {r})
        BY <3>2, <3>4, <3>5, <4>1, <4>2 DEF Shifts
      <4> QED  BY <1>0, <4>3, ApartMoves
    <3> QED  BY <3>2, <3>5, <3>7, <3>9 DEF Finishes
  <2>2. CASE NextChunk(th)
    <3>0. TakeChunk(th, jobs) /\ sent' = sent /\ answers' = answers
      BY <2>2 DEF NextChunk
    <3>1. In(mine[th]) = {}
      BY <1>0, <1>n, <2>2 DEF NextChunk, HasMonitor, Hands, HandOK
    <3>2. /\ \A u \in Threads \ {th} : mine'[u] = mine[u]
          /\ Distinct(mine'[th]) /\ Distinct(jobs')
          /\ In(mine'[th]) \cup In(jobs') = In(jobs)
          /\ In(mine'[th]) \cap In(jobs') = {}
      BY <1>0, <3>0, ChunkTaken DEF Apart
    <3>3. /\ sent' \cup In(jobs') \cup In(mine'[th]) = Near(th) \ {}
          /\ sent' \cap In(jobs') = {}
          /\ In(mine'[th]) \cap (sent' \cup In(jobs')) = {}
      BY <1>0, <3>0, <3>1, <3>2 DEF Near, Apart
    <3>4. Apart' /\ Held' = Held \ {}
      <4>1. Shifts(th, {})
        BY <3>2, <3>3 DEF Shifts
      <4> QED  BY <1>0, <4>1, ApartMoves
    <3> QED  BY <3>0, <3>4 DEF Keeps
  <2>3. CASE ProcessJob(th) \/ Sleep(th) \/ SpuriousWake(th)
    BY <1>0, <2>3 DEF ProcessJob, Sleep, SpuriousWake, Keeps, Apart, Held
  <2> QED  BY <1>2, <2>1, <2>2, <2>3 DEF Continue
<1>3. CASE UNCHANGED vars
  BY <1>0, <1>3 DEF vars, Keeps, Apart, Held
<1> QED  BY <1>1, <1>2, <1>3 DEF Next

LEMMA OnceStep ==
  TypeOK /\ InHand /\ OnceInv /\ [Next]_vars => OnceInv'
<1> SUFFICES ASSUME TypeOK, InHand, OnceInv, [Next]_vars PROVE OnceInv'
  OBVIOUS
<1>1. Hands'
  BY HandsStep
<1>2. CASE Keeps
  BY <1>1, <1>2 DEF Keeps, OnceInv, AnsweredIsDone, NothingLost, Answered
<1>3. ASSUME NEW r \in Requests, Finishes(r) PROVE OnceInv'
  BY <1>1, <1>3 DEF Finishes, OnceInv, AnsweredIsDone, NothingLost, Answered
<1> QED  BY <1>2, <1>3, ApartStep

\* Counted in places, as EachJobOnce does.
LEMMA OncePlaces ==
  TypeOK /\ OnceInv => EachJobOnce
<1> SUFFICES ASSUME TypeOK, OnceInv, NEW r \in Jobs
             PROVE  Copies(r) = IF r \in sent \/ Answered(r) THEN 0 ELSE 1
  BY DEF EachJobOnce
<1> DEFINE Q == {i \in 1..Len(jobs) : jobs[i] = r}
           M == UNION {PlacesIn(th, r) : th \in Threads}
<1>0. Copies(r) = Cardinality(Q) + Cardinality(M)
  BY DEF Copies
<1>c. Cardinality({}) = 0 /\ \A x : Cardinality({x}) = 1
  BY FS_EmptySet, FS_Singleton
<1>1. r \notin In(jobs) => Q = {}
  BY DEF In
<1>2. ASSUME NEW th \in Threads, r \notin In(mine[th]) PROVE PlacesIn(th, r) = {}
  BY <1>2 DEF In, PlacesIn
<1>3. CASE r \in sent \/ Answered(r)
  <2>1. r \notin In(jobs) /\ \A th \in Threads : r \notin In(mine[th])
    BY <1>3 DEF OnceInv, Apart, AnsweredIsDone, Answered, Held
  <2>2. Q = {} /\ M = {}
    BY <1>1, <1>2, <2>1
  <2>3. Cardinality(Q) = 0 /\ Cardinality(M) = 0
    BY <1>c, <2>2
  <2> HIDE DEF Q, M
  <2> QED  BY <1>0, <1>3, <2>3 DEF Answered
<1>4. CASE r \in In(jobs)
  <2>1. r \notin sent /\ ~Answered(r) /\ \A th \in Threads : r \notin In(mine[th])
    BY <1>4 DEF OnceInv, Apart, AnsweredIsDone, Answered, Held
  <2>2. M = {}
    BY <1>2, <2>1
  <2>3. PICK i \in 1..Len(jobs) : jobs[i] = r
    BY <1>4 DEF In
  <2>4. Q = {i}
    BY <2>3 DEF OnceInv, Apart, Distinct
  <2> HIDE DEF Q, M
  <2>5. Cardinality(Q) = 1 /\ Cardinality(M) = 0
    BY <1>c, <2>2, <2>4
  <2> QED  BY <1>0, <2>1, <2>5 DEF Answered
<1>5. ASSUME NEW th \in Threads, r \in In(mine[th])
      PROVE  Copies(r) = IF r \in sent \/ Answered(r) THEN 0 ELSE 1
  <2>1. r \notin sent /\ ~Answered(r) /\ r \notin In(jobs)
    BY <1>5 DEF OnceInv, Apart, AnsweredIsDone, Answered, Held
  <2>2. \A u \in Threads \ {th} : PlacesIn(u, r) = {}
    BY <1>2, <1>5 DEF OnceInv, Apart
  <2>3. PICK i \in 1..Len(mine[th]) : mine[th][i] = r
    BY <1>5 DEF In
  <2>4. PlacesIn(th, r) = {<<th, i>>}
    BY <2>3 DEF OnceInv, Apart, Distinct, PlacesIn
  <2>5. M = {<<th, i>>}
    BY <2>2, <2>4
  <2>6. Q = {}
    BY <1>1, <2>1
  <2> HIDE DEF Q, M
  <2>7. Cardinality(Q) = 0 /\ Cardinality(M) = 1
    BY <1>c, <2>5, <2>6
  <2> QED  BY <1>0, <2>1, <2>7 DEF Answered
<1> QED  BY <1>3, <1>4, <1>5 DEF OnceInv, NothingLost, Held

\* OnceInv is an inductive invariant of the server, relative to Inv.
THEOREM OnceInvCorrect == Spec => []OnceInv
<1>1. Init => OnceInv
  BY InitOnce
<1>2. Inv => TypeOK /\ InHand
  BY DEF Inv
<1>3. TypeOK /\ InHand /\ OnceInv /\ [Next]_vars => OnceInv'
  BY OnceStep
<1> QED  BY <1>1, <1>2, <1>3, InvCorrect, PTL DEF Spec

(***************************************************************************)
(* No job is lost between the socket, the queue and the chunks, and none   *)
(* is queued or processed twice, whatever the threads interleave.          *)
(***************************************************************************)
THEOREM EachJobOnceCorrect == Spec => []EachJobOnce
<1>1. Inv /\ OnceInv => EachJobOnce
  BY OncePlaces DEF Inv
<1> QED  BY <1>1, InvCorrect, OnceInvCorrect, PTL

-----------------------------------------------------------------------------
(***************************************************************************)
(* The server implements the map: what a step of one thread changes of the *)
(* abstract pending and answers is in the queue and its own chunk.         *)
(***************************************************************************)
Reply(th) ==
  IF pc[th] \in {"c_reply", "h_reply"}
    THEN {[call |-> Head(mine[th]), counts |-> reply[th]]} ELSE {}

JobAnswers == {a \in answers : a.call \in Jobs}

LEMMA PendingMoves ==
  ASSUME NEW th \in Threads,
         \A u \in Threads \ {th} : pc'[u] = pc[u] /\ mine'[u] = mine[u]
  PROVE  \E rest : /\ Pending  = In(jobs) \cup Unprocessed(th) \cup rest
                   /\ Pending' = In(jobs') \cup Unprocessed(th)' \cup rest
                   /\ rest \subseteq UNION {Unprocessed(u) : u \in Threads \ {th}}
<1> DEFINE rest == UNION {Unprocessed(u) : u \in Threads \ {th}}
<1>1. \A u \in Threads \ {th} : Unprocessed(u)' = Unprocessed(u)
  BY DEF Unprocessed
<1>2. Pending = In(jobs) \cup Unprocessed(th) \cup rest
  BY DEF Pending, In
<1>3. Pending' = In(jobs') \cup Unprocessed(th)' \cup UNION {Unprocessed(u)' : u \in Threads \ {th}}
  BY DEF Pending, In
<1>4. UNION {Unprocessed(u)' : u \in Threads \ {th}} = rest
  BY <1>1
<1> QED  BY <1>2, <1>3, <1>4

LEMMA ComputedMoves ==
  ASSUME NEW th \in Threads,
         \A u \in Threads \ {th} : pc'[u] = pc[u] /\ mine'[u] = mine[u] /\ reply'[u] = reply[u]
  PROVE  \E rest : /\ Computed  = JobAnswers \cup Reply(th) \cup rest
                   /\ Computed' = JobAnswers' \cup Reply(th)' \cup rest
<1> DEFINE rest == UNION {Reply(u) : u \in Threads \ {th}}
<1>1. \A u \in Threads \ {th} : Reply(u)' = Reply(u)
  BY DEF Reply
<1>2. Computed = JobAnswers \cup UNION {Reply(u) : u \in Threads}
  BY DEF Computed, JobAnswers, Replying, Reply
<1>3. Computed' = JobAnswers' \cup UNION {Reply(u)' : u \in Threads}
  BY DEF Computed, JobAnswers, Replying, Reply
<1>4. Computed' = JobAnswers' \cup Reply(th)' \cup UNION {Reply(u)' : u \in Threads \ {th}}
  BY <1>3
<1>5. UNION {Reply(u)' : u \in Threads \ {th}} = rest
  BY <1>1
<1>6. Computed = JobAnswers \cup Reply(th) \cup rest
  BY <1>2
<1> QED  BY <1>4, <1>5, <1>6

\* The chunk in terms of the requests in it.
LEMMA UnprocessedIn ==
  ASSUME TypeOK, InHand, Hands, Apart, NEW th \in Threads
  PROVE  /\ pc[th] \in {"consume", "helping"} => Unprocessed(th) = In(mine[th])
         /\ pc[th] \in {"c_reply", "h_reply"} =>
              Unprocessed(th) = In(mine[th]) \ {Head(mine[th])}
         /\ pc[th] \notin {"consume", "helping", "c_reply", "h_reply"} =>
              Unprocessed(th) = {}
         /\ Unprocessed(th) \subseteq In(mine[th])
<1> DEFINE m == mine[th]
<1>1. CASE pc[th] \in {"c_reply", "h_reply"}
  <2>1. m # <<>> /\ m \in Seq(Requests) /\ Distinct(m)
    BY <1>1 DEF InHand, TypeOK, Apart
  <2>2. Unprocessed(th) = {m[i] : i \in 2..Len(m)}
    BY <1>1 DEF Unprocessed
  <2> HIDE DEF m
  <2>3. Head(m) = m[1] /\ Len(m) \in Nat /\ Len(m) >= 1
    BY <2>1
  <2>4. {m[i] : i \in 2..Len(m)} = In(m) \ {Head(m)}
    BY <2>1, <2>3 DEF In, Distinct
  <2> QED  BY <1>1, <2>2, <2>4 DEF m
<1>2. CASE pc[th] \in {"consume", "helping"}
  BY <1>2 DEF Unprocessed, In
<1>3. CASE pc[th] \notin {"consume", "helping", "c_reply", "h_reply"}
  BY <1>3 DEF Unprocessed
<1> QED  BY <1>1, <1>2, <1>3

\* A request that no thread has dispatched is new to the map.
LEMMA SentIsNew ==
  ASSUME TypeOK, InHand, OnceInv, NEW r \in sent
  PROVE  r \notin Pending /\ \A a \in Computed : a.call # r
<1>1. r \notin In(jobs) /\ \A th \in Threads : r \notin In(mine[th])
  BY DEF OnceInv, Apart
<1>2. r \notin Pending
  <2>1. \A th \in Threads : r \notin Unprocessed(th)
    BY <1>1, UnprocessedIn DEF OnceInv
  <2>2. r \notin {jobs[i] : i \in 1..Len(jobs)}
    BY <1>1 DEF In
  <2> QED  BY <2>1, <2>2 DEF Pending
<1>3. ASSUME NEW a \in answers PROVE a.call # r
  BY <1>3 DEF OnceInv, AnsweredIsDone, Held
<1>4. ASSUME NEW th \in Replying PROVE Head(mine[th]) # r
  <2>1. mine[th] \in Seq(Requests) /\ mine[th] # <<>> /\ Distinct(mine[th])
    BY DEF Replying, TypeOK, InHand, OnceInv, Apart
  <2>2. Head(mine[th]) \in In(mine[th])
    BY <2>1, InTail
  <2> QED  BY <1>1, <2>2 DEF Replying
<1> QED  BY <1>2, <1>3, <1>4 DEF Computed

\* The steps of the map, in the server's terms.
MapStep ==
  \/ UNCHANGED <<table, Pending, Computed>>
  \/ \E r \in Requests :
       /\ \/ table' = Accumulated(table, r.word, r.val)
          \/ table' = Stored(table, r.word, r.val)
          \/ table' = Forgotten(table, r.word)
       /\ UNCHANGED <<Pending, Computed>>
  \/ \E r \in Jobs :
       /\ r \notin Pending /\ \A a \in Computed : a.call # r
       /\ Pending' = Pending \cup {r}
       /\ UNCHANGED <<table, Computed>>
  \/ \E r \in Jobs :
       /\ r \in Pending
       /\ Pending' = Pending \ {r}
       /\ table' = Accumulated(table, r.word, r.val)
       /\ Computed' = Computed \cup {[call |-> r, counts |-> table'[r.word]]}

LEMMA MapSteps ==
  TypeOK /\ InHand /\ OnceInv /\ OnceInv' /\ [Next]_vars => MapStep
<1> SUFFICES ASSUME TypeOK, InHand, OnceInv, OnceInv', [Next]_vars PROVE MapStep
  OBVIOUS
<1>0. /\ Hands /\ Apart /\ jobs \in Seq(Jobs) /\ sent \subseteq Requests
      /\ pc \in [Threads -> PC] /\ mine \in [Threads -> Seq(Requests)]
      /\ reply \in [Threads -> Int]
      /\ \A r \in Jobs : r \in Requests
  BY DEF OnceInv, TypeOK, Jobs
<1>n. Distinct(<<>>) /\ In(<<>>) = {}
  BY DEF Distinct, In
<1>a. ASSUME UNCHANGED <<jobs, pc, mine, reply>>
      PROVE  Pending' = Pending /\ (JobAnswers' = JobAnswers => Computed' = Computed)
  BY <1>a DEF Pending, Computed, JobAnswers, Unprocessed, Replying
<1>1. ASSUME NEW th \in Threads, NEW r \in Requests, Handle(th, r) PROVE MapStep
  <2>0. pc[th] = "idle" /\ r \in sent /\ mine[th] = <<>>
    <3>1. Dispatch(th, r)
      BY <1>1 DEF Handle, HandlePut, HandleGet, HandleRemove, QueueJob, HelpOut, BecomeConsumer
    <3> QED  BY <1>0, <3>1 DEF Dispatch, Hands, HandOK
  <2>e. Unprocessed(th) = {} /\ Reply(th) = {}
    BY <2>0 DEF Unprocessed, Reply
  <2>1. CASE HandlePut(th, r)
    BY <1>a, <2>1 DEF HandlePut, MapStep, JobAnswers
  <2>2. CASE HandleGet(th, r)
    <3>1. JobAnswers' = JobAnswers
      BY <2>2 DEF HandleGet, JobAnswers, Jobs
    <3> QED  BY <1>a, <2>2, <3>1 DEF HandleGet, MapStep
  <2>3. CASE HandleRemove(th, r)
    <3>1. CASE UNCHANGED <<pc, mine, reply>>
      BY <1>a, <2>3, <3>1 DEF HandleRemove, MapStep, JobAnswers
    <3>2. CASE /\ pc' = [pc EXCEPT ![th] = "removing"]
               /\ mine' = [mine EXCEPT ![th] = <<r>>]
               /\ reply' = [reply EXCEPT ![th] = table[r.word]]
      <4>1. Unprocessed(th)' = {} /\ Reply(th)' = {} /\ JobAnswers' = JobAnswers
        BY <1>0, <2>3, <3>2 DEF HandleRemove, Unprocessed, Reply, JobAnswers
      <4>2. \A u \in Threads \ {th} :
              pc'[u] = pc[u] /\ mine'[u] = mine[u] /\ reply'[u] = reply[u]
        BY <1>0, <3>2
      <4>3. Pending' = Pending
        BY <2>3, <2>e, <4>1, <4>2, PendingMoves DEF HandleRemove
      <4>4. Computed' = Computed
        BY <2>e, <4>1, <4>2, ComputedMoves
      <4> QED  BY <2>3, <4>3, <4>4 DEF HandleRemove, MapStep
    <3> QED  BY <2>3, <3>1, <3>2 DEF HandleRemove
  <2>4. CASE QueueJob(th, r) \/ HelpOut(th, r) \/ BecomeConsumer(th, r)
    <3> DEFINE q == Append(jobs, r)
    <3>1. r \in Jobs /\ r \notin In(jobs) /\ jobs \in Seq(Requests)
      BY <1>0, <2>0, <2>4 DEF QueueJob, HelpOut, BecomeConsumer, Jobs, Apart
    <3>2. q \in Seq(Jobs)
      BY <1>0, <3>1
    <3>3. Distinct(q) /\ In(q) = In(jobs) \cup {r}
      BY <1>0, <3>1, InAppend DEF Apart
    <3>4. r \notin Pending /\ \A a \in Computed : a.call # r
      BY <2>0, SentIsNew
    <3>5. UNCHANGED <<table, reply, answers>> /\ JobAnswers' = JobAnswers
      BY <2>4 DEF QueueJob, HelpOut, BecomeConsumer, JobAnswers
    <3>6. CASE QueueJob(th, r)
      <4>1. PICK s \in Threads :
              /\ \A u \in Threads \ {s} : pc'[u] = pc[u]
              /\ pc'[s] = pc[s] \/ (pc[s] = "waiting" /\ pc'[s] = "notified")
        BY <1>0, <3>6 DEF QueueJob, Notify, Sleepers
      <4>2. mine' = mine /\ jobs' = q
        BY <3>6 DEF QueueJob
      <4>3. Unprocessed(s)' = Unprocessed(s) /\ Reply(s)' = Reply(s)
        BY <3>5, <4>1, <4>2 DEF Unprocessed, Reply
      <4> HIDE DEF q
      <4>4. Pending' = Pending \cup {r}
        <5>1. PICK rest : /\ Pending  = In(jobs) \cup Unprocessed(s) \cup rest
                          /\ Pending' = In(jobs') \cup Unprocessed(s)' \cup rest
          BY <4>1, <4>2, PendingMoves
        <5> QED  BY <3>3, <4>2, <4>3, <5>1
      <4>5. Computed' = Computed
        BY <3>5, <4>1, <4>2, <4>3, ComputedMoves
      <4> QED  BY <3>1, <3>4, <3>5, <4>4, <4>5 DEF MapStep
    <3>7. CASE HelpOut(th, r) \/ BecomeConsumer(th, r)
      <4>1. pc'[th] \in {"helping", "consume"} /\ \A u \in Threads \ {th} : pc'[u] = pc[u]
        BY <1>0, <3>7 DEF HelpOut, BecomeConsumer
      <4>2. TakeChunk(th, q)
        BY <3>7 DEF HelpOut, BecomeConsumer
      <4> HIDE DEF q
      <4>3. /\ \A u \in Threads \ {th} : mine'[u] = mine[u]
            /\ In(mine'[th]) \cup In(jobs') = In(q)
        BY <1>0, <3>2, <3>3, <4>2, ChunkTaken
      <4>4. Unprocessed(th)' = In(mine'[th]) /\ Reply(th)' = {}
        BY <4>1 DEF Unprocessed, Reply, In
      <4>5. Pending' = Pending \cup {r}
        <5>1. PICK rest : /\ Pending  = In(jobs) \cup Unprocessed(th) \cup rest
                          /\ Pending' = In(jobs') \cup Unprocessed(th)' \cup rest
          BY <4>1, <4>3, PendingMoves
        <5> QED  BY <2>e, <3>3, <4>3, <4>4, <5>1
      <4>6. Computed' = Computed
        BY <2>e, <3>5, <4>1, <4>3, <4>4, ComputedMoves
      <4> QED  BY <3>1, <3>4, <3>5, <4>5, <4>6 DEF MapStep
    <3> QED  BY <2>4, <3>6, <3>7
  <2> QED  BY <1>1, <2>1, <2>2, <2>3, <2>4 DEF Handle
<1>2. ASSUME NEW th \in Threads, Continue(th) \/ SpuriousWake(th) PROVE MapStep
  <2>u. /\ pc[th] \in {"consume", "helping"} => Unprocessed(th) = In(mine[th])
        /\ pc[th] \in {"c_reply", "h_reply"} =>
             Unprocessed(th) = In(mine[th]) \ {Head(mine[th])}
        /\ pc[th] \notin {"consume", "helping", "c_reply", "h_reply"} => Unprocessed(th) = {}
    BY <1>0, UnprocessedIn
  <2>p. ASSUME \A u \in Threads \ {th} :
                 pc'[u] = pc[u] /\ mine'[u] = mine[u] /\ reply'[u] = reply[u],
               In(jobs') \cup Unprocessed(th)' = In(jobs) \cup Unprocessed(th),
               JobAnswers' \cup Reply(th)' = JobAnswers \cup Reply(th)
        PROVE  Pending' = Pending /\ Computed' = Computed
    <3>1. PICK rest : /\ Pending  = In(jobs) \cup Unprocessed(th) \cup rest
                      /\ Pending' = In(jobs') \cup Unprocessed(th)' \cup rest
      BY <2>p, PendingMoves
    <3>2. PICK more : /\ Computed  = JobAnswers \cup Reply(th) \cup more
                      /\ Computed' = JobAnswers' \cup Reply(th)' \cup more
      BY <2>p, ComputedMoves
    <3> QED  BY <2>p, <3>1, <3>2
  <2>1. CASE Erase(th)
    <3>1. Head(mine[th]) \in Requests /\ Head(mine[th]) \notin Jobs
      BY <1>0, <2>1 DEF Erase, Hands, HandOK
    <3>2. JobAnswers' = JobAnswers
      BY <2>1, <3>1 DEF Erase, JobAnswers
    <3>3. /\ Unprocessed(th)' = {} /\ Unprocessed(th) = {}
          /\ Reply(th)' = {} /\ Reply(th) = {} /\ jobs' = jobs
      BY <1>0, <2>1 DEF Erase, Unprocessed, Reply
    <3>4. \A u \in Threads \ {th} :
            pc'[u] = pc[u] /\ mine'[u] = mine[u] /\ reply'[u] = reply[u]
      BY <1>0, <2>1 DEF Erase
    <3>5. Pending' = Pending /\ Computed' = Computed
      BY <2>p, <3>2, <3>3, <3>4
    <3> QED  BY <2>1, <3>1, <3>5 DEF Erase, MapStep
  <2>2. CASE ProcessJob(th)
    <3>1. PICK r \in Jobs : r = Head(mine[th])
      BY <1>0, <2>2 DEF ProcessJob, Hands, HandOK
    <3>2. r \in In(mine[th])
      BY <1>0, <2>2, <3>1, InTail DEF ProcessJob, Apart
    <3>3. /\ \A u \in Threads \ {th} :
               pc'[u] = pc[u] /\ mine'[u] = mine[u] /\ reply'[u] = reply[u]
          /\ pc'[th] \in {"c_reply", "h_reply"} /\ mine' = mine /\ jobs' = jobs
          /\ reply'[th] = table'[r.word] /\ table' = Accumulated(table, r.word, r.val)
          /\ JobAnswers' = JobAnswers
      BY <1>0, <2>2, <3>1 DEF ProcessJob, JobAnswers
    <3>4. Unprocessed(th) = In(mine[th]) /\ Reply(th) = {}
      BY <2>2, <2>u DEF ProcessJob, Reply
    <3>5. Unprocessed(th)' = In(mine[th]) \ {r}
      <4> DEFINE m == mine[th]
      <4>1. m # <<>> /\ m \in Seq(Requests) /\ Distinct(m) /\ r = Head(m)
        BY <1>0, <2>2, <3>1 DEF ProcessJob, Apart
      <4>2. Unprocessed(th)' = {m[i] : i \in 2..Len(m)}
        BY <3>3 DEF Unprocessed
      <4> HIDE DEF m
      <4>3. Head(m) = m[1] /\ Len(m) \in Nat /\ Len(m) >= 1
        BY <4>1
      <4>4. {m[i] : i \in 2..Len(m)} = In(m) \ {r}
        BY <4>1, <4>3 DEF In, Distinct
      <4> QED  BY <4>2, <4>4 DEF m
    <3>6. Reply(th)' = {[call |-> r, counts |-> table'[r.word]]}
      BY <3>1, <3>3 DEF Reply
    <3>7. /\ r \in Pending
          /\ Pending' = Pending \ {r}
      <4>1. PICK rest : /\ Pending  = In(jobs) \cup Unprocessed(th) \cup rest
                        /\ Pending' = In(jobs') \cup Unprocessed(th)' \cup rest
                        /\ rest \subseteq UNION {Unprocessed(u) : u \in Threads \ {th}}
        BY <3>3, PendingMoves
      <4>2. \A u \in Threads \ {th} : r \notin Unprocessed(u)
        BY <1>0, <3>2, UnprocessedIn DEF Apart
      <4>3. r \notin rest /\ r \notin In(jobs)
        BY <1>0, <3>2, <4>1, <4>2 DEF Apart
      <4> QED  BY <3>2, <3>3, <3>4, <3>5, <4>1, <4>3
    <3>8. Computed' = Computed \cup {[call |-> r, counts |-> table'[r.word]]}
      <4>1. PICK rest : /\ Computed  = JobAnswers \cup Reply(th) \cup rest
                        /\ Computed' = JobAnswers' \cup Reply(th)' \cup rest
        BY <3>3, ComputedMoves
      <4> QED  BY <3>3, <3>4, <3>6, <4>1
    <3> QED  BY <3>3, <3>7, <3>8 DEF MapStep
  <2>3. CASE Respond(th)
    <3> DEFINE m == mine[th]
    <3>1. m \in Seq(Jobs) /\ m \in Seq(Requests) /\ m # <<>> /\ Distinct(m)
      BY <1>0, <2>3 DEF Respond, InHand, Hands, HandOK, Apart
    <3>2. Head(m) \in Jobs
      <4> HIDE DEF m
      <4> QED  BY <3>1
    <3>3. In(Tail(m)) = In(m) \ {Head(m)} /\ (Len(m) = 1 => In(Tail(m)) = {})
      <4> HIDE DEF m
      <4>1. In(Tail(m)) = In(m) \ {Head(m)}
        BY <3>1, InTail
      <4>2. Head(m) = m[1]
        BY <3>1
      <4>3. Len(m) = 1 => In(m) = {m[1]}
        BY DEF In
      <4> QED  BY <4>1, <4>2, <4>3
    <3>4. \A u \in Threads \ {th} :
            pc'[u] = pc[u] /\ mine'[u] = mine[u] /\ reply'[u] = reply[u]
      BY <1>0, <2>3 DEF Respond
    <3>5. /\ mine'[th] = Tail(m) /\ jobs' = jobs /\ table' = table
          /\ pc'[th] \in {"consume", "helping"} \/ (pc'[th] = "idle" /\ Len(m) = 1)
      BY <1>0, <2>3 DEF Respond
    <3>6. Unprocessed(th)' = In(m) \ {Head(m)} /\ Reply(th)' = {}
      <4> HIDE DEF m
      <4>1. CASE pc'[th] \in {"consume", "helping"}
        BY <3>3, <3>5, <4>1 DEF Unprocessed, Reply, In
      <4>2. CASE pc'[th] = "idle" /\ Len(m) = 1
        BY <3>3, <3>5, <4>2 DEF Unprocessed, Reply
      <4> QED  BY <3>5, <4>1, <4>2
    <3>7. Unprocessed(th) = In(m) \ {Head(m)}
      BY <2>3, <2>u DEF Respond
    <3>8. JobAnswers' = JobAnswers \cup Reply(th)
      BY <2>3, <3>2 DEF Respond, JobAnswers, Reply
    <3>9. Pending' = Pending /\ Computed' = Computed
      <4> HIDE DEF m
      <4> QED  BY <2>p, <3>4, <3>5, <3>6, <3>7, <3>8
    <3> QED  BY <3>5, <3>9 DEF MapStep
  <2>4. CASE NextChunk(th)
    <3>1. /\ In(mine[th]) = {}
          /\ pc[th] \in {"consume", "notified"}
      BY <1>0, <1>n, <2>4 DEF NextChunk, HasMonitor, Hands, HandOK
    <3>2. Unprocessed(th) = {} /\ Reply(th) = {}
      BY <2>u, <3>1 DEF Reply
    <3>3. /\ TakeChunk(th, jobs) /\ pc'[th] = "consume" /\ reply' = reply /\ table' = table
          /\ answers' = answers /\ \A u \in Threads \ {th} : pc'[u] = pc[u]
      BY <1>0, <2>4 DEF NextChunk
    <3>4. /\ \A u \in Threads \ {th} : mine'[u] = mine[u]
          /\ In(mine'[th]) \cup In(jobs') = In(jobs)
      BY <1>0, <3>3, ChunkTaken DEF Apart
    <3>5. Unprocessed(th)' = In(mine'[th]) /\ Reply(th)' = {} /\ JobAnswers' = JobAnswers
      BY <3>3 DEF Unprocessed, Reply, In, JobAnswers
    <3>6. Pending' = Pending /\ Computed' = Computed
      BY <2>p, <3>2, <3>3, <3>4, <3>5
    <3> QED  BY <3>3, <3>6 DEF MapStep
  <2>5. CASE Sleep(th) \/ SpuriousWake(th)
    <3>1. /\ In(mine[th]) = {}
          /\ pc[th] \in {"consume", "waiting", "notified"}
      BY <1>0, <1>n, <2>5 DEF Sleep, SpuriousWake, HasMonitor, Hands, HandOK
    <3>2. Unprocessed(th) = {} /\ Reply(th) = {}
      BY <2>u, <3>1 DEF Reply
    <3>3. /\ pc'[th] \in {"waiting", "notified"}
          /\ UNCHANGED <<jobs, mine, reply, table, answers>>
          /\ \A u \in Threads \ {th} : pc'[u] = pc[u]
      BY <1>0, <2>5 DEF Sleep, SpuriousWake
    <3>4. Unprocessed(th)' = {} /\ Reply(th)' = {} /\ JobAnswers' = JobAnswers
      BY <3>3 DEF Unprocessed, Reply, JobAnswers
    <3>5. Pending' = Pending /\ Computed' = Computed
      BY <2>p, <3>2, <3>3, <3>4
    <3> QED  BY <3>3, <3>5 DEF MapStep
  <2> QED  BY <1>2, <2>1, <2>2, <2>3, <2>4, <2>5 DEF Continue
<1>3. CASE UNCHANGED vars
  BY <1>a, <1>3 DEF vars, MapStep, JobAnswers
<1> QED  BY <1>1, <1>2, <1>3 DEF Next

LEMMA MapStepIsMapNext ==
  ASSUME MapStep
  PROVE  [Map!MapNext]_(Map!mapVars)
<1>0. \A r \in Requests : r.word \in Words /\ r.val \in {x.val : x \in Requests}
  BY ServerAssumption
<1>1. CASE UNCHANGED <<table, Pending, Computed>>
  BY <1>1 DEF Map!mapVars
<1>2. CASE \E r \in Requests :
             /\ \/ table' = Accumulated(table, r.word, r.val)
                \/ table' = Stored(table, r.word, r.val)
                \/ table' = Forgotten(table, r.word)
             /\ UNCHANGED <<Pending, Computed>>
  BY <1>0, <1>2 DEF Map!MapNext, Map!Put, Map!Set, Map!Remove, Map!Accumulated, Map!Stored, Map!Forgotten, Map!CountsOf, Accumulated, Stored, Forgotten, CountsOf
<1>3. CASE \E r \in Jobs :
             /\ r \notin Pending /\ \A a \in Computed : a.call # r
             /\ Pending' = Pending \cup {r}
             /\ UNCHANGED <<table, Computed>>
  BY <1>3 DEF Map!MapNext, Map!Invoke
<1>4. CASE \E r \in Jobs :
             /\ r \in Pending
             /\ Pending' = Pending \ {r}
             /\ table' = Accumulated(table, r.word, r.val)
             /\ Computed' = Computed \cup {[call |-> r, counts |-> table'[r.word]]}
  BY <1>4 DEF Map!MapNext, Map!Combine, Map!Accumulated, Map!Stored, Map!CountsOf, Accumulated, Stored, CountsOf
<1> QED  BY <1>1, <1>2, <1>3, <1>4 DEF MapStep

(***************************************************************************)
(* Every behaviour of the server is one of the map: a dispatched putNget   *)
(* is combined with the entry in one step, once, and is answered with the  *)
(* counts of right after that step.                                        *)
(***************************************************************************)
THEOREM ServerImplementsMap == Spec => ImplementsMap
<1>1. Init => Map!MapInit
  <2> SUFFICES ASSUME Init PROVE Map!MapInit
    OBVIOUS
  <2>1. \A th \in Threads : Unprocessed(th) = {}
    BY DEF Init, Unprocessed
  <2>2. Pending = {} /\ Computed = {}
    BY <2>1 DEF Init, Pending, Computed, Replying
  <2> QED  BY <2>2 DEF Init, Map!MapInit
<1>2. Inv /\ OnceInv /\ OnceInv' /\ [Next]_vars => [Map!MapNext]_(Map!mapVars)
  BY MapSteps, MapStepIsMapNext DEF Inv
<1> QED  BY <1>1, <1>2, InvCorrect, OnceInvCorrect, PTL DEF Spec, ImplementsMap, Map!MapSpec
=============================================================================
