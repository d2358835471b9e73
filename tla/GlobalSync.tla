----------------------------- MODULE GlobalSync -----------------------------
(***************************************************************************)
(* The learners of a multi-machine run and the distributed map that keeps  *)
(* their topic counts in sync: Unigram_Model_Synchronizer_Helper on top of *)
(* the window of DMClient, the map as DistributedMap promises it, and the  *)
(* barrier of ClientBarrier.                                               *)
(*                                                                         *)
(* Each client keeps the table it samples from (_ttc, shared with the      *)
(* updater of its pipeline) and _prev_ttc, its view of the global counts   *)
(* when it last heard of them.  The difference is what the client has yet  *)
(* to tell the others.  Values are one topic's count of a word: all the    *)
(* operations work topic by topic.  A step is what a thread does under one *)
(* word lock of one table.                                                 *)
(***************************************************************************)
EXTENDS DMClient, CountTable, Functions

CONSTANTS InitialCount,  \* tokens of each word in each client's documents
          Changing,      \* the words whose tokens the sampler moves
          MaxChanges     \* bound on the changes of topics

ASSUME SyncAssumption ==
  /\ IsFiniteSet(Clients)
  /\ IsFiniteSet(Callbacks)
  /\ InitialCount \in [Clients -> [Entities -> Nat]]
  /\ Changing \subseteq Entities
  /\ MaxChanges \in Nat

VARIABLES
  table, pending, answers,                 \* the distributed map
  clientsDone, cbs, arrived, released,     \* its barrier
  local,    \* tokens of the word in the client's documents with this topic
  ttc,      \* _ttc
  prev,     \* _prev_ttc
  phase,    \* of the client: put, barrier, get (initialize()), then run
  ind,      \* word_ind of the loops of initialize()
  buf,      \* synchronizer thread: tc_client, then the delta it sends
  stage,    \* what it does next inside synchronize()
  cbBuf,    \* callback threads: tc_global, then the delta they apply
  cbStage,  \* what they do next inside end_putNget
  changes   \* changes of topics so far

mapVars == <<table, pending, answers>>
barrierVars == <<clientsDone, cbs, arrived, released>>
tableVars == <<local, ttc, prev, changes>>
bufVars == <<buf, stage, cbBuf, cbStage>>
vars == <<clientVars, mapVars, barrierVars, tableVars, phase, ind, bufVars>>

Map == INSTANCE DistributedMap WITH Words <- Entities, Vals <- Int,
         Calls <- [client : Clients, word : Entities, id : Ids, val : Int]

Barrier == INSTANCE ClientBarrier

Init ==
  /\ ClientInit
  /\ Map!MapInit
  /\ Barrier!BarrierInit
  /\ local = InitialCount
  /\ ttc = InitialCount
  /\ prev = InitialCount
  /\ changes = 0
  /\ phase = [c \in Clients |-> "put"]
  /\ ind = [c \in Clients |-> 0]
  /\ buf = [c \in Clients |-> 0]
  /\ stage = [c \in Clients |-> "idle"]
  /\ cbBuf = [c \in Clients |-> [k \in Callbacks |-> 0]]
  /\ cbStage = [c \in Clients |-> [k \in Callbacks |-> "idle"]]

-----------------------------------------------------------------------------
(***************************************************************************)
(* initialize(), before the pipeline and the synchronizer thread start:    *)
(* the client adds its counts to the map, waits for all the others, and    *)
(* fetches the global counts.                                              *)
(***************************************************************************)
PutInitial(c) ==
  /\ phase[c] = "put"
  /\ Map!Put(ind[c], ttc[c][ind[c]])
  /\ ind' = [ind EXCEPT ![c] = (ind[c] + 1) % NumEntities]
  /\ phase' = [phase EXCEPT ![c] = IF ind[c] + 1 = NumEntities THEN "barrier" ELSE "put"]
  /\ UNCHANGED <<clientVars, barrierVars, tableVars, bufVars>>

Arrive(c) ==
  /\ phase[c] = "barrier"
  /\ arrived[c] = 0
  /\ Barrier!WaitForAllClients(c)
  /\ UNCHANGED <<clientVars, mapVars, tableVars, phase, ind, bufVars>>

\* Fault: the client does not wait for the answer of the barrier.
PassAtOnce(c) ==
  /\ phase[c] = "barrier"
  /\ phase' = [phase EXCEPT ![c] = "get"]
  /\ UNCHANGED <<clientVars, mapVars, barrierVars, tableVars, ind, bufVars>>

Pass(c) ==
  /\ phase[c] = "barrier"
  /\ released[c] = 1
  /\ phase' = [phase EXCEPT ![c] = "get"]
  /\ UNCHANGED <<clientVars, mapVars, barrierVars, tableVars, ind, bufVars>>

\* delta = global - ttc, added to both tables.
GetInitial(c) ==
  LET w == ind[c]
      delta == CountsOf(table, w) - ttc[c][w]
  IN /\ phase[c] = "get"
     /\ ttc' = [ttc EXCEPT ![c][w] = @ + delta]
     /\ prev' = [prev EXCEPT ![c][w] = @ + delta]
     /\ ind' = [ind EXCEPT ![c] = (w + 1) % NumEntities]
     /\ phase' = [phase EXCEPT ![c] = IF w + 1 = NumEntities THEN "run" ELSE "get"]
     /\ UNCHANGED <<clientVars, mapVars, barrierVars, local, changes, bufVars>>

-----------------------------------------------------------------------------
HasOldTopic(c, w) == local[c][w] > 0 /\ ttc[c][w] # 0

(***************************************************************************)
(* The updater gives one token this topic, or takes the topic from one:    *)
(* upd_count(word, old, new) under the word's lock.  It aborts the process *)
(* when it does not find the old topic; OldTopicFound says it never does.  *)
(***************************************************************************)
Change(c, w, d) ==
  /\ phase[c] = "run"
  /\ ~itersDone[c]
  /\ w \in Changing
  /\ changes < MaxChanges
  /\ d = -1 => HasOldTopic(c, w)
  /\ local' = [local EXCEPT ![c][w] = @ + d]
  /\ ttc' = [ttc EXCEPT ![c][w] = @ + d]
  /\ changes' = changes + 1
  /\ UNCHANGED <<clientVars, mapVars, barrierVars, prev, phase, ind, bufVars>>

-----------------------------------------------------------------------------
\* synchronize(): _ttc.get_counts
ReadCounts(c) ==
  /\ phase[c] = "run"
  /\ StartEntity(c)
  /\ buf' = [buf EXCEPT ![c] = ttc[c][word[c]]]
  /\ stage' = [stage EXCEPT ![c] = "old"]
  /\ UNCHANGED <<mapVars, barrierVars, tableVars, phase, ind, cbBuf, cbStage>>

\* _prev_ttc->get_counts, tc_client -= tc_old
SubtractOld(c) ==
  /\ stage[c] = "old"
  /\ buf' = [buf EXCEPT ![c] = @ - prev[c][word[c]]]
  /\ stage' = [stage EXCEPT ![c] = "prev"]
  /\ UNCHANGED <<clientVars, mapVars, barrierVars, tableVars, phase, ind, cbBuf, cbStage>>

\* Fault: prev is not updated by what is sent.
UpdatePrevForgotten(c) ==
  /\ stage[c] = "prev"
  /\ BeginPutNget(c)
  /\ stage' = [stage EXCEPT ![c] = "send"]
  /\ UNCHANGED <<mapVars, barrierVars, tableVars, phase, ind, buf, cbBuf, cbStage>>

\* _prev_ttc->upd_count, and on into begin_putNget
UpdatePrev(c) ==
  /\ stage[c] = "prev"
  /\ BeginPutNget(c)
  /\ prev' = [prev EXCEPT ![c][word[c]] = @ + buf[c]]
  /\ stage' = [stage EXCEPT ![c] = "send"]
  /\ UNCHANGED <<mapVars, barrierVars, local, ttc, changes, phase, ind, buf, cbBuf, cbStage>>

SendDelta(c) ==
  /\ Send(c)
  /\ Map!Invoke([client |-> c, word |-> word[c], id |-> cur[c], val |-> buf[c]])
  /\ buf' = [buf EXCEPT ![c] = 0]
  /\ stage' = [stage EXCEPT ![c] = "idle"]
  /\ UNCHANGED <<barrierVars, tableVars, phase, ind, cbBuf, cbStage>>

\* The steps of the window that leave the tables alone.
Window(c) ==
  /\ phase[c] = "run"
  /\ \/ Block(c) \/ SlotFree(c) \/ WindowDone(c) \/ EndPass(c) \/ PassDone(c)
     \/ SetAllItersDone(c)
  /\ UNCHANGED <<mapVars, barrierVars, tableVars, phase, ind, bufVars>>

Serve(call) ==
  /\ Map!Combine(call)
  /\ UNCHANGED <<clientVars, barrierVars, tableVars, phase, ind, bufVars>>

-----------------------------------------------------------------------------
\* finished(): the answer arrives at a callback thread.
BeginEnd(c, k, a) ==
  /\ a.call.client = c
  /\ StartCallback(c, k, [entity |-> a.call.word, id |-> a.call.id])
  /\ Map!Receive(a)
  /\ cbBuf' = [cbBuf EXCEPT ![c][k] = a.counts]
  /\ cbStage' = [cbStage EXCEPT ![c][k] = "old"]
  /\ UNCHANGED <<barrierVars, tableVars, phase, ind, buf, stage>>

\* end_putNget: _prev_ttc->get_counts, tc_global -= tc_old
EndSubtractOld(c, k) ==
  /\ cbStage[c][k] = "old"
  /\ cbBuf' = [cbBuf EXCEPT ![c][k] = @ - prev[c][cb[c][k].entity]]
  /\ cbStage' = [cbStage EXCEPT ![c][k] = "ttc"]
  /\ UNCHANGED <<clientVars, mapVars, barrierVars, tableVars, phase, ind, buf, stage>>

\* Fault: what the others did never reaches the table that is sampled from.
EndUpdateTtcForgotten(c, k) ==
  /\ cbStage[c][k] = "ttc"
  /\ cbStage' = [cbStage EXCEPT ![c][k] = "prev"]
  /\ UNCHANGED <<clientVars, mapVars, barrierVars, tableVars, phase, ind,
                 buf, stage, cbBuf>>

\* _ttc.upd_count
EndUpdateTtc(c, k) ==
  /\ cbStage[c][k] = "ttc"
  /\ ttc' = [ttc EXCEPT ![c][cb[c][k].entity] = @ + cbBuf[c][k]]
  /\ cbStage' = [cbStage EXCEPT ![c][k] = "prev"]
  /\ UNCHANGED <<clientVars, mapVars, barrierVars, local, prev, changes, phase, ind,
                 buf, stage, cbBuf>>

\* _prev_ttc->upd_count, then the status of the message
EndUpdatePrev(c, k) ==
  /\ cbStage[c][k] = "prev"
  /\ FinishCallback(c, k)
  /\ prev' = [prev EXCEPT ![c][cb[c][k].entity] = @ + cbBuf[c][k]]
  /\ cbBuf' = [cbBuf EXCEPT ![c][k] = 0]
  /\ cbStage' = [cbStage EXCEPT ![c][k] = "idle"]
  /\ UNCHANGED <<mapVars, barrierVars, local, ttc, changes, phase, ind, buf, stage>>

-----------------------------------------------------------------------------
Initialize(c) == PutInitial(c) \/ Arrive(c) \/ Pass(c) \/ GetInitial(c)

Synchronize(c) ==
  ReadCounts(c) \/ SubtractOld(c) \/ UpdatePrev(c) \/ SendDelta(c) \/ Window(c)

EndPutNget(c, k) ==
  \/ \E a \in answers : BeginEnd(c, k, a)
  \/ EndSubtractOld(c, k) \/ EndUpdateTtc(c, k) \/ EndUpdatePrev(c, k)

(***************************************************************************)
(* Every answer arrives here: CallbackThrows of the window is left out, as *)
(* a learner that misses one comes to wait for it and sends no more; so is *)
(* SpuriousWakeup, after which the thread looks at the status again.       *)
(* DMClient's own specification has both.                                  *)
(***************************************************************************)
Next ==
  \/ \E c \in Clients :
       \/ Initialize(c)
       \/ \E w \in Entities, d \in {-1, 1} : Change(c, w, d)
       \/ Synchronize(c)
       \/ \E k \in Callbacks : EndPutNget(c, k)
  \/ \E call \in pending : Serve(call)

Fairness ==
  /\ \A c \in Clients :
       /\ WF_vars(Initialize(c))
       /\ WF_vars(Synchronize(c))
       /\ \A k \in Callbacks : WF_vars(EndPutNget(c, k))
  /\ WF_vars(\E call \in pending : Serve(call))

Spec == Init /\ [][Next]_vars

FairSpec == Spec /\ Fairness

-----------------------------------------------------------------------------
\* What callback thread k has told the table of the samplers and not prev.
Heard(c, k, w) ==
  IF cbStage[c][k] = "prev" /\ cb[c][k].entity = w THEN cbBuf[c][k] ELSE 0

\* What client c knows of its own tokens of w and has yet to send.
Unsent(c, w) ==
    (IF phase[c] = "put" /\ ind[c] <= w THEN ttc[c][w] ELSE ttc[c][w] - prev[c][w])
  + (IF stage[c] = "send" /\ word[c] = w THEN buf[c] ELSE 0)
  - SumFunction([k \in Callbacks |-> Heard(c, k, w)])

\* What c has sent and the map has not combined yet.
OnTheWay(c, w) ==
  SumFunctionOnSet([p \in pending |-> p.val], {p \in pending : p.client = c /\ p.word = w})

Told(c, w) == local[c][w] - Unsent(c, w) - OnTheWay(c, w)

(***************************************************************************)
(* No update of the map or of a table is forgotten or made twice, whatever *)
(* the threads interleave: the map holds of every word what the clients    *)
(* have told it, which is the tokens of all their documents but for the    *)
(* deltas on their way and what they have yet to send.  What is left to    *)
(* send may be negative: that a client does not tell more than it has is   *)
(* left to OldTopicFound.                                                  *)
(***************************************************************************)
TokensConserved ==
  \A w \in Entities : CountsOf(table, w) = SumFunction([c \in Clients |-> Told(c, w)])

(***************************************************************************)
(* A client's counts never fall below the tokens of its own documents, so  *)
(* the updater, which aborts the process with "Old Topic Not Found", does  *)
(* find the topic it takes a token from.                                   *)
(***************************************************************************)
OldTopicFound ==
  \A c \in Clients, w \in Entities : ttc[c][w] >= local[c][w]

(***************************************************************************)
(* When initialize() has fetched the counts of a word they are those of    *)
(* all the documents, put by every client: nobody starts to sample, or to  *)
(* send differences, from a partial table.                                 *)
(***************************************************************************)
Fetched(c, w) == phase[c] = "run" \/ (phase[c] = "get" /\ ind[c] > w)

InitialCountsComplete ==
  changes = 0 =>
    \A c \in Clients, w \in Entities :
      Fetched(c, w) => ttc[c][w] = SumFunction([d \in Clients |-> InitialCount[d][w]])

(***************************************************************************)
(* While the learners run on, their tables and the map end up agreeing on  *)
(* the tokens of all documents once the sampler settles.                   *)
(***************************************************************************)
InAgreement ==
  \A c \in Clients, w \in Entities :
    ttc[c][w] = SumFunction([d \in Clients |-> local[d][w]]) /\ prev[c][w] = ttc[c][w]
    /\ CountsOf(table, w) = ttc[c][w]

EventuallyAgree ==
  (\A c \in Clients : []~itersDone[c]) => <>[]InAgreement
=============================================================================
