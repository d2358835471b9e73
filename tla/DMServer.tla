------------------------------ MODULE DMServer ------------------------------
(***************************************************************************)
(* One DM_Server process (commons/Server/DM_Server.cpp): the dispatch      *)
(* threads of its Ice thread pool, the queue of putNget jobs guarded by    *)
(* the monitor _monitor_mutex, the consumers that serve it, and the        *)
(* table of accumulated counts guarded by per-bucket read/write locks.     *)
(*                                                                         *)
(* putNget is an asynchronous dispatch: the handler only queues a job.     *)
(* The first NUM_CONSUMERS handlers never return: they become consumers    *)
(* that take up to CHUNK jobs at a time and sleep on the monitor while the *)
(* queue is empty.  Once QUE_FULL jobs are queued the handler's own thread *)
(* processes one chunk before it returns.                                  *)
(*                                                                         *)
(* A step is what one thread does between two points where another can     *)
(* interfere: a critical section of the monitor, a critical section of a   *)
(* bucket lock, or one ice_response.                                       *)
(***************************************************************************)
EXTENDS CountTable, Sequences, FiniteSets

CONSTANTS NUM_CONSUMERS,  \* DM_Server.h: 3
          QUE_FULL,       \* DM_Server.h: 50
          CHUNK,          \* DM_Server.h: 10
          Threads,        \* the pool: --Ice.ThreadPool.Server.SizeMax=9
          Words,
          Requests        \* the requests clients may send, each one once

Ops == {"putNget", "put", "set", "get", "remove"}

ASSUME ServerAssumption ==
  /\ NUM_CONSUMERS \in Nat \ {0}
  /\ QUE_FULL \in Nat \ {0}
  /\ CHUNK \in Nat \ {0}
  /\ IsFiniteSet(Threads)
  /\ \A r \in Requests : r.op \in Ops /\ r.word \in Words /\ r.val \in Int

\* Consumers keep their dispatch thread for ever, so the pool must be larger.
ASSUME PoolAssumption == Cardinality(Threads) > NUM_CONSUMERS

Jobs == {r \in Requests : r.op = "putNget"}

VARIABLES
  sent,          \* requests no thread has dispatched: in a socket, or yet to come
  jobs,          \* _png_jobs
  numConsumers,  \* _num_consumers
  waitingThrds,  \* _waiting_thrds
  pc,            \* where each dispatch thread is
  mine,          \* my_png_jobs of each thread, from the one in hand on
  reply,         \* counts read for the job in hand
  table,         \* _tc_table
  answers        \* ice_responses sent for putNget jobs

vars == <<sent, jobs, numConsumers, waitingThrds, pc, mine, reply, table, answers>>

(***************************************************************************)
(* idle      in the pool, free to dispatch                                 *)
(* removing  inside remove(), between reading the entry and erasing it     *)
(* consume   a consumer, about to take the next job of its chunk           *)
(* helping   a handler that found the queue full, likewise                 *)
(* c_reply, h_reply   the same, about to send the answer of the job in hand *)
(* waiting   a consumer asleep in _monitor_mutex.wait()                    *)
(* notified  a consumer woken that has still to re-acquire the monitor     *)
(***************************************************************************)
Consuming == {"consume", "c_reply", "waiting", "notified"}
PC == {"idle", "removing", "helping", "h_reply"} \cup Consuming

Init ==
  /\ sent = Requests
  /\ jobs = <<>>
  /\ numConsumers = 0
  /\ waitingThrds = 0
  /\ pc = [th \in Threads |-> "idle"]
  /\ mine = [th \in Threads |-> <<>>]
  /\ reply = [th \in Threads |-> 0]
  /\ table = [w \in {} |-> 0]
  /\ answers = {}

\* A thread of the pool takes a request from a connection.
Dispatch(th, r) ==
  /\ pc[th] = "idle"
  /\ r \in sent
  /\ sent' = sent \ {r}

-----------------------------------------------------------------------------
\* The table, operation by operation.

\* A writer gets the lock of the entry: no remove() holds it for reading.
WriteLocked(w) ==
  \A th \in Threads : pc[th] = "removing" => Head(mine[th]).word # w

HandlePut(th, r) ==
  /\ Dispatch(th, r)
  /\ r.op \in {"put", "set"}
  /\ WriteLocked(r.word)
  /\ table' = IF r.op = "put" THEN Accumulated(table, r.word, r.val)
                              ELSE Stored(table, r.word, r.val)
  /\ UNCHANGED <<jobs, numConsumers, waitingThrds, pc, mine, reply, answers>>

\* get() returns false, and no counts, when the key is absent.
HandleGet(th, r) ==
  /\ Dispatch(th, r)
  /\ r.op = "get"
  /\ answers' = IF r.word \in DOMAIN table
                  THEN answers \cup {[call |-> r, counts |-> table[r.word]]}
                  ELSE answers
  /\ UNCHANGED <<jobs, numConsumers, waitingThrds, pc, mine, reply, table>>

\* remove() takes the lock for reading (its second argument is false).
HandleRemove(th, r) ==
  /\ Dispatch(th, r)
  /\ r.op = "remove"
  /\ IF r.word \in DOMAIN table
       THEN /\ pc' = [pc EXCEPT ![th] = "removing"]
            /\ mine' = [mine EXCEPT ![th] = <<r>>]
            /\ reply' = [reply EXCEPT ![th] = table[r.word]]
       ELSE UNCHANGED <<pc, mine, reply>>
  /\ UNCHANGED <<jobs, numConsumers, waitingThrds, table, answers>>

Erase(th) ==
  /\ pc[th] = "removing"
  /\ table' = Forgotten(table, Head(mine[th]).word)
  /\ answers' = answers \cup {[call |-> Head(mine[th]), counts |-> reply[th]]}
  /\ pc' = [pc EXCEPT ![th] = "idle"]
  /\ mine' = [mine EXCEPT ![th] = <<>>]
  /\ UNCHANGED <<sent, jobs, numConsumers, waitingThrds, reply>>

-----------------------------------------------------------------------------
(***************************************************************************)
(* putNget_async: each handler runs its critical section of the monitor in *)
(* one step.                                                               *)
(***************************************************************************)
\* Fault: one more handler than NUM_CONSUMERS stays.
OneMoreConsumer == numConsumers <= NUM_CONSUMERS

ConsumerMissing == numConsumers < NUM_CONSUMERS

\* Fault: the queue may fill up before a handler helps.
FullTooLate == Len(jobs) + 1 > QUE_FULL

\* With the job just pushed.
QueueFull == Len(jobs) + 1 >= QUE_FULL

ChunkSize(q) == IF Len(q) < CHUNK THEN Len(q) ELSE CHUNK

\* Fault: the last job of the chunk stays queued.
TakeChunkAgain(th, q) ==
  /\ mine' = [mine EXCEPT ![th] = SubSeq(q, 1, ChunkSize(q))]
  /\ jobs' = SubSeq(q, ChunkSize(q), Len(q))

\* The first jobs of q become th's own, the others stay queued.
TakeChunk(th, q) ==
  /\ mine' = [mine EXCEPT ![th] = SubSeq(q, 1, ChunkSize(q))]
  /\ jobs' = SubSeq(q, ChunkSize(q) + 1, Len(q))

Sleepers == {th \in Threads : pc[th] = "waiting"}

\* Fault: notify() forgotten.
NotifyNobody == UNCHANGED pc

\* notify() wakes one sleeper; a consumer already woken is still counted in
\* _waiting_thrds, and then there may be none left to wake.
Notify ==
  \/ waitingThrds > 0 /\ \E s \in Sleepers : pc' = [pc EXCEPT ![s] = "notified"]
  \/ (waitingThrds = 0 \/ Sleepers = {}) /\ UNCHANGED pc

QueueJob(th, r) ==
  /\ Dispatch(th, r)
  /\ r.op = "putNget"
  /\ ~ConsumerMissing
  /\ ~QueueFull
  /\ jobs' = Append(jobs, r)
  /\ Notify
  /\ UNCHANGED <<numConsumers, waitingThrds, mine, reply, table, answers>>

HelpOut(th, r) ==
  /\ Dispatch(th, r)
  /\ r.op = "putNget"
  /\ ~ConsumerMissing
  /\ QueueFull
  /\ TakeChunk(th, Append(jobs, r))
  /\ pc' = [pc EXCEPT ![th] = "helping"]
  /\ UNCHANGED <<numConsumers, waitingThrds, reply, table, answers>>

BecomeConsumer(th, r) ==
  /\ Dispatch(th, r)
  /\ r.op = "putNget"
  /\ ConsumerMissing
  /\ numConsumers' = numConsumers + 1
  /\ TakeChunk(th, Append(jobs, r))
  /\ pc' = [pc EXCEPT ![th] = "consume"]
  /\ UNCHANGED <<waitingThrds, reply, table, answers>>

\* Fault: the counts are read before the delta is added.
ProcessJobStale(th) ==
  /\ pc[th] \in {"consume", "helping"}
  /\ mine[th] # <<>>
  /\ WriteLocked(Head(mine[th]).word)
  /\ table' = Accumulated(table, Head(mine[th]).word, Head(mine[th]).val)
  /\ reply' = [reply EXCEPT ![th] = CountsOf(table, Head(mine[th]).word)]
  /\ pc' = [pc EXCEPT ![th] = IF pc[th] = "consume" THEN "c_reply" ELSE "h_reply"]
  /\ UNCHANGED <<sent, jobs, numConsumers, waitingThrds, mine, answers>>

\* upd_counts and get_counts under one write lock of the entry.
ProcessJob(th) ==
  /\ pc[th] \in {"consume", "helping"}
  /\ mine[th] # <<>>
  /\ WriteLocked(Head(mine[th]).word)
  /\ table' = Accumulated(table, Head(mine[th]).word, Head(mine[th]).val)
  /\ reply' = [reply EXCEPT ![th] = table'[Head(mine[th]).word]]
  /\ pc' = [pc EXCEPT ![th] = IF pc[th] = "consume" THEN "c_reply" ELSE "h_reply"]
  /\ UNCHANGED <<sent, jobs, numConsumers, waitingThrds, mine, answers>>

\* ice_response, after the lock is released; a helper whose chunk is done returns.
Respond(th) ==
  /\ pc[th] \in {"c_reply", "h_reply"}
  /\ answers' = answers \cup {[call |-> Head(mine[th]), counts |-> reply[th]]}
  /\ mine' = [mine EXCEPT ![th] = Tail(mine[th])]
  /\ pc' = [pc EXCEPT ![th] = IF pc[th] = "c_reply" THEN "consume"
                              ELSE IF Len(mine[th]) = 1 THEN "idle" ELSE "helping"]
  /\ UNCHANGED <<sent, jobs, numConsumers, waitingThrds, reply, table>>

\* A consumer holds the monitor again: after its chunk, or woken from its sleep.
HasMonitor(th) ==
  \/ pc[th] = "consume" /\ mine[th] = <<>>
  \/ pc[th] = "notified"

\* Fault: a woken consumer stays on the count.
AwakeUncounted(th) == waitingThrds

\* A woken consumer takes itself off the count.
Awake(th) == IF pc[th] = "notified" THEN waitingThrds - 1 ELSE waitingThrds

NextChunk(th) ==
  /\ HasMonitor(th)
  /\ jobs # <<>>
  /\ waitingThrds' = Awake(th)
  /\ TakeChunk(th, jobs)
  /\ pc' = [pc EXCEPT ![th] = "consume"]
  /\ UNCHANGED <<sent, numConsumers, reply, table, answers>>

Sleep(th) ==
  /\ HasMonitor(th)
  /\ jobs = <<>>
  /\ waitingThrds' = Awake(th) + 1
  /\ pc' = [pc EXCEPT ![th] = "waiting"]
  /\ UNCHANGED <<sent, jobs, numConsumers, mine, reply, table, answers>>

\* A condition variable may wake its waiter for no reason.
SpuriousWake(th) ==
  /\ pc[th] = "waiting"
  /\ pc' = [pc EXCEPT ![th] = "notified"]
  /\ UNCHANGED <<sent, jobs, numConsumers, waitingThrds, mine, reply,
                 table, answers>>

-----------------------------------------------------------------------------
Handle(th, r) ==
  \/ HandlePut(th, r) \/ HandleGet(th, r) \/ HandleRemove(th, r)
  \/ QueueJob(th, r) \/ HelpOut(th, r) \/ BecomeConsumer(th, r)

Continue(th) ==
  Erase(th) \/ ProcessJob(th) \/ Respond(th) \/ NextChunk(th) \/ Sleep(th)

Next ==
  \/ \E th \in Threads, r \in Requests : Handle(th, r)
  \/ \E th \in Threads : Continue(th) \/ SpuriousWake(th)

(***************************************************************************)
(* A thread that can go on does.  Nothing makes a client send or a request *)
(* be dispatched, so that no later request can make up for a consumer that *)
(* was not woken; and nothing makes a sleeper wake up by itself.           *)
(***************************************************************************)
Fairness == \A th \in Threads : WF_vars(Continue(th))

Spec == Init /\ [][Next]_vars

FairSpec == Spec /\ Fairness

-----------------------------------------------------------------------------
(***************************************************************************)
(* Every variable has its type; the two counters of consumers never exceed *)
(* the number of consumers the server is to have.                          *)
(***************************************************************************)
TypeOK ==
  /\ sent \subseteq Requests
  /\ jobs \in Seq(Jobs)
  /\ numConsumers \in 0..NUM_CONSUMERS
  /\ waitingThrds \in 0..NUM_CONSUMERS
  /\ pc \in [Threads -> PC]
  /\ mine \in [Threads -> Seq(Requests)]
  /\ reply \in [Threads -> Int]
  /\ DOMAIN table \subseteq Words
  /\ \A w \in DOMAIN table : table[w] \in Int
  /\ answers \subseteq [call : Requests, counts : Int]

(***************************************************************************)
(* No job is stranded: while the queue holds jobs, some consumer is awake  *)
(* and will look at the queue again before it sleeps.  The notify of       *)
(* QueueJob is skipped when nobody waits and when the queue is full, and   *)
(* may hit a consumer that finds the queue already emptied.                *)
(***************************************************************************)
NoStrandedJobs ==
  jobs # <<>> => \E th \in Threads : pc[th] \in Consuming \ {"waiting"}

(***************************************************************************)
(* The queue stays below QUE_FULL between two critical sections, whatever  *)
(* the consumers do: the handler that would fill it empties a chunk.       *)
(***************************************************************************)
QueueBelowFull == Len(jobs) < QUE_FULL

(***************************************************************************)
(* A putNget that was sent and is not answered is held in exactly one      *)
(* place: a socket, the queue or the chunk of one thread, there once; an   *)
(* answered one is held nowhere.  So none is lost or processed twice.      *)
(***************************************************************************)
PlacesIn(th, r) == {<<th, i>> : i \in {n \in 1..Len(mine[th]) : mine[th][n] = r}}

Copies(r) ==
    Cardinality({i \in 1..Len(jobs) : jobs[i] = r})
  + Cardinality(UNION {PlacesIn(th, r) : th \in Threads})

Answered(r) == \E a \in answers : a.call = r

EachJobOnce ==
  \A r \in Jobs :
    Copies(r) = IF r \in sent \/ Answered(r) THEN 0 ELSE 1

(***************************************************************************)
(* Every putNget that was dispatched is answered, even if the server never *)
(* receives another request.                                               *)
(***************************************************************************)
EveryJobAnswered == \A r \in Jobs : (r \notin sent) ~> Answered(r)

(***************************************************************************)
(* The server never runs out of dispatch threads for good: whatever is     *)
(* queued, a thread of the pool becomes free to take the next request.     *)
(***************************************************************************)
PoolRecovers == []<>(\E th \in Threads : pc[th] = "idle")

(***************************************************************************)
(* The server implements the map: a call is invoked when its request is    *)
(* dispatched and pending until a thread processes the job; its answer is  *)
(* computed then, before it is sent.                                       *)
(***************************************************************************)
Unprocessed(th) ==
  CASE pc[th] \in {"consume", "helping"} -> {mine[th][i] : i \in 1..Len(mine[th])}
    [] pc[th] \in {"c_reply", "h_reply"} -> {mine[th][i] : i \in 2..Len(mine[th])}
    [] OTHER -> {}

Pending == {jobs[i] : i \in 1..Len(jobs)} \cup UNION {Unprocessed(th) : th \in Threads}

Replying == {th \in Threads : pc[th] \in {"c_reply", "h_reply"}}

Computed ==
  {a \in answers : a.call \in Jobs}
    \cup {[call |-> Head(mine[th]), counts |-> reply[th]] : th \in Replying}

Map == INSTANCE DistributedMap WITH
         Calls <- Jobs,
         Vals <- {r.val : r \in Requests},
         pending <- Pending,
         answers <- Computed

ImplementsMap == Map!MapSpec
=============================================================================
