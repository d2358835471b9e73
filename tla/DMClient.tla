------------------------------ MODULE DMClient ------------------------------
(***************************************************************************)
(* The sliding window of a client of the distributed map                   *)
(* (commons/TopicLearner/DM_Client.{h,cpp}) as its synchronizer thread     *)
(* drives it (commons/TopicLearner/Synchronizer.cpp): pass after pass over *)
(* all entities, one putNget for each, at most max_msgs unanswered.        *)
(*                                                                         *)
(* Message ids are slots of the window.  begin_putNget waits for its slot, *)
(* then sends; after the last slot it waits for that last message only,    *)
(* and so does the end of a pass.  The threads of Ice's client pool run    *)
(* PNGCallback::finished as answers arrive, in any order: there may be     *)
(* several servers, a server has several consumers, and the client has     *)
(* more than one callback thread.                                          *)
(*                                                                         *)
(* All clients are alike; every variable is a function of the client.      *)
(***************************************************************************)
EXTENDS Integers, FiniteSets

CONSTANTS Clients,
          NumEntities,   \* entities are numbered from 0: words of the dictionary
          MAX_MSGS,      \* constants.h: 10
          Callbacks,     \* threads of the client pool: ThreadPool.Client.SizeMax=2
          NoMsg,         \* a callback thread without a message
          MaxLost        \* bound on the messages whose end_putNget throws

MaxMsgs == IF NumEntities < MAX_MSGS THEN NumEntities ELSE MAX_MSGS  \* _max_msgs

Ids == 0..MaxMsgs - 1
Entities == 0..NumEntities - 1

\* A putNget in progress, with the entity and the id of its cookie.
Msgs == [entity : Entities, id : Ids]

ASSUME ClientAssumption ==
  /\ NumEntities \in Nat \ {0}
  /\ MAX_MSGS \in Nat \ {0}
  /\ MaxLost \in Nat
  /\ NoMsg \notin Msgs

VARIABLES
  pc,         \* where the synchronizer thread is
  after,      \* what it waits for: its slot, the window or the pass
  word,       \* _cur_word of the helper
  cur,        \* _cur_msg_id
  status,     \* _status
  waiting,    \* _waiting
  flying,     \* messages sent whose answer no callback thread has picked up
  cb,         \* the message each callback thread is finishing
  lost,       \* messages whose finished() threw: their status stays false
  itersDone   \* _all_iters_done

clientVars == <<pc, after, word, cur, status, waiting, flying, cb, lost, itersDone>>

(***************************************************************************)
(* next    head of the loop of a pass: has_to_synchronize()                *)
(* compute inside synchronize(), before begin_putNget                      *)
(* check   in wait_till_done(id), about to look at the status              *)
(* asleep  in _monitor.wait(); woken: notified, about to look again        *)
(* send    in begin_putNget, its slot is free                              *)
(* done    the thread has returned                                         *)
(***************************************************************************)
PC == {"next", "compute", "check", "asleep", "woken", "send", "done"}

\* Fault: it waits for the first message of the window, not for the last.
TargetFirst(c) == IF after[c] = "slot" THEN cur[c] ELSE 0

\* The id the synchronizer thread waits for.
Target(c) == IF after[c] = "slot" THEN cur[c] ELSE cur[c] - 1

\* Messages sent and not ended, wherever they are.
Unended(c) == flying[c] \cup {cb[c][k] : k \in {j \in Callbacks : cb[c][j] # NoMsg}}
                        \cup lost[c]

ClientInit ==
  /\ pc = [c \in Clients |-> "next"]
  /\ after = [c \in Clients |-> "slot"]
  /\ word = [c \in Clients |-> 0]
  /\ cur = [c \in Clients |-> 0]
  /\ status = [c \in Clients |-> [i \in Ids |-> TRUE]]
  /\ waiting = [c \in Clients |-> -1]
  /\ flying = [c \in Clients |-> {}]
  /\ cb = [c \in Clients |-> [k \in Callbacks |-> NoMsg]]
  /\ lost = [c \in Clients |-> {}]
  /\ itersDone = [c \in Clients |-> FALSE]

-----------------------------------------------------------------------------
\* The helper's synchronize() begins on the next entity.
StartEntity(c) ==
  /\ pc[c] = "next"
  /\ word[c] < NumEntities
  /\ pc' = [pc EXCEPT ![c] = "compute"]
  /\ UNCHANGED <<after, word, cur, status, waiting, flying, cb, lost, itersDone>>

\* begin_putNget, up to its first look at the status of the slot.
BeginPutNget(c) ==
  /\ pc[c] = "compute"
  /\ pc' = [pc EXCEPT ![c] = "check"]
  /\ after' = [after EXCEPT ![c] = "slot"]
  /\ UNCHANGED <<word, cur, status, waiting, flying, cb, lost, itersDone>>

(***************************************************************************)
(* wait_till_done(id): a look without the lock, then under the monitor a   *)
(* loop around wait().  A look that misses a status set meanwhile only     *)
(* leads to the second one, so both are this action.                       *)
(***************************************************************************)
Block(c) ==
  /\ pc[c] \in {"check", "woken"}
  /\ ~status[c][Target(c)]
  /\ waiting' = [waiting EXCEPT ![c] = Target(c)]
  /\ pc' = [pc EXCEPT ![c] = "asleep"]
  /\ UNCHANGED <<after, word, cur, status, flying, cb, lost, itersDone>>

SpuriousWakeup(c) ==
  /\ pc[c] = "asleep"
  /\ pc' = [pc EXCEPT ![c] = "woken"]
  /\ UNCHANGED <<after, word, cur, status, waiting, flying, cb, lost, itersDone>>

\* Fault: the status is not looked at.
WaitEndsAnyway(c) ==
  /\ pc[c] \in {"check", "woken"}
  /\ waiting' = [waiting EXCEPT ![c] = -1]

\* The wait is over; a thread that slept resets _waiting.
WaitEnds(c) ==
  /\ pc[c] \in {"check", "woken"}
  /\ status[c][Target(c)]
  /\ waiting' = [waiting EXCEPT ![c] = -1]

SlotFree(c) ==
  /\ WaitEnds(c)
  /\ after[c] = "slot"
  /\ pc' = [pc EXCEPT ![c] = "send"]
  /\ UNCHANGED <<after, word, cur, status, flying, cb, lost, itersDone>>

\* set_done(id, false), the asynchronous call, and ++_cur_msg_id.
Send(c) ==
  /\ pc[c] = "send"
  /\ status' = [status EXCEPT ![c][cur[c]] = FALSE]
  /\ flying' = [flying EXCEPT ![c] = @ \cup {[entity |-> word[c], id |-> cur[c]]}]
  /\ cur' = [cur EXCEPT ![c] = @ + 1]
  /\ IF cur[c] + 1 = MaxMsgs
       THEN /\ pc' = [pc EXCEPT ![c] = "check"]
            /\ after' = [after EXCEPT ![c] = "window"]
            /\ UNCHANGED word
       ELSE /\ pc' = [pc EXCEPT ![c] = "next"]
            /\ word' = [word EXCEPT ![c] = @ + 1]
            /\ UNCHANGED after
  /\ UNCHANGED <<waiting, cb, lost, itersDone>>

\* wait_till_done() returns to begin_putNget, which returns to synchronize().
WindowDone(c) ==
  /\ WaitEnds(c)
  /\ after[c] = "window"
  /\ cur' = [cur EXCEPT ![c] = 0]
  /\ word' = [word EXCEPT ![c] = @ + 1]
  /\ pc' = [pc EXCEPT ![c] = "next"]
  /\ UNCHANGED <<after, status, flying, cb, lost, itersDone>>

\* reset_to_synchronize() after a pass; nothing to wait for when cur is 0.
EndPass(c) ==
  /\ pc[c] = "next"
  /\ word[c] = NumEntities
  /\ cur[c] > 0
  /\ pc' = [pc EXCEPT ![c] = "check"]
  /\ after' = [after EXCEPT ![c] = "pass"]
  /\ UNCHANGED <<word, cur, status, waiting, flying, cb, lost, itersDone>>

\* Fault: the end of the iterations is not looked at.
RestartForever(c) ==
  /\ word' = [word EXCEPT ![c] = 0]
  /\ pc' = [pc EXCEPT ![c] = "next"]

\* The next pass begins, or the thread returns: while (!is_all_iters_done()).
Restart(c) ==
  /\ word' = [word EXCEPT ![c] = 0]
  /\ pc' = [pc EXCEPT ![c] = IF itersDone[c] THEN "done" ELSE "next"]

PassDone(c) ==
  /\ \/ /\ WaitEnds(c)
        /\ after[c] = "pass"
        /\ cur' = [cur EXCEPT ![c] = 0]
     \/ /\ pc[c] = "next"
        /\ word[c] = NumEntities
        /\ cur[c] = 0
        /\ UNCHANGED <<cur, waiting>>
  /\ Restart(c)
  /\ UNCHANGED <<after, status, flying, cb, lost, itersDone>>

\* set_all_iters_done(), called by the thread that ran the iterations.
SetAllItersDone(c) ==
  /\ ~itersDone[c]
  /\ itersDone' = [itersDone EXCEPT ![c] = TRUE]
  /\ UNCHANGED <<pc, after, word, cur, status, waiting, flying, cb, lost>>

-----------------------------------------------------------------------------
\* A callback thread picks up an answer: finished() begins.
StartCallback(c, k, m) ==
  /\ cb[c][k] = NoMsg
  /\ m \in flying[c]
  /\ flying' = [flying EXCEPT ![c] = @ \ {m}]
  /\ cb' = [cb EXCEPT ![c][k] = m]
  /\ UNCHANGED <<pc, after, word, cur, status, waiting, lost, itersDone>>

\* Fault: the waiter of another message is notified.
AwaitedNext(c, m) == pc[c] = "asleep" /\ waiting[c] = m.id + 1

\* notify() is for the thread that sleeps until this very message is ended.
Awaited(c, m) == pc[c] = "asleep" /\ waiting[c] = m.id

\* The helper has ended the message: mark it and wake its waiter, if any.
FinishCallback(c, k) ==
  /\ cb[c][k] # NoMsg
  /\ status' = [status EXCEPT ![c][cb[c][k].id] = TRUE]
  /\ pc' = [pc EXCEPT ![c] = IF Awaited(c, cb[c][k]) THEN "woken" ELSE @]
  /\ cb' = [cb EXCEPT ![c][k] = NoMsg]
  /\ UNCHANGED <<after, word, cur, waiting, flying, lost, itersDone>>

\* end_putNget throws (the call failed): finished() leaves before the helper runs.
CallbackThrows(c, k) ==
  /\ cb[c][k] # NoMsg
  /\ Cardinality(lost[c]) < MaxLost
  /\ lost' = [lost EXCEPT ![c] = @ \cup {cb[c][k]}]
  /\ cb' = [cb EXCEPT ![c][k] = NoMsg]
  /\ UNCHANGED <<pc, after, word, cur, status, waiting, flying, itersDone>>

-----------------------------------------------------------------------------
SyncStep(c) ==
  \/ StartEntity(c) \/ BeginPutNget(c) \/ Block(c) \/ SlotFree(c) \/ Send(c)
  \/ WindowDone(c) \/ EndPass(c) \/ PassDone(c)

CallbackStep(c, k) ==
  \/ \E m \in flying[c] : StartCallback(c, k, m)
  \/ FinishCallback(c, k)

ClientNext ==
  \E c \in Clients :
    \/ SyncStep(c) \/ SpuriousWakeup(c) \/ SetAllItersDone(c)
    \/ \E k \in Callbacks : CallbackStep(c, k) \/ CallbackThrows(c, k)

ClientSpec == ClientInit /\ [][ClientNext]_clientVars

(***************************************************************************)
(* The synchronizer thread runs; every call is answered, since the server  *)
(* answers every job, and a callback thread of the pool finishes it.       *)
(***************************************************************************)
ClientFairness ==
  \A c \in Clients :
    /\ WF_clientVars(SyncStep(c))
    /\ \A k \in Callbacks : WF_clientVars(CallbackStep(c, k))

FairClientSpec == ClientSpec /\ ClientFairness

-----------------------------------------------------------------------------
ClientTypeOK ==
  /\ pc \in [Clients -> PC]
  /\ after \in [Clients -> {"slot", "window", "pass"}]
  /\ word \in [Clients -> 0..NumEntities]
  /\ cur \in [Clients -> 0..MaxMsgs]
  /\ status \in [Clients -> [Ids -> BOOLEAN]]
  /\ waiting \in [Clients -> Ids \cup {-1}]
  /\ flying \in [Clients -> SUBSET Msgs]
  /\ cb \in [Clients -> [Callbacks -> Msgs \cup {NoMsg}]]
  /\ lost \in [Clients -> SUBSET Msgs]
  /\ itersDone \in [Clients -> BOOLEAN]

(***************************************************************************)
(* A slot has at most one message that is not ended, and has one exactly   *)
(* while its status is false: the answer of an older message can never     *)
(* free the slot of a newer one.                                           *)
(***************************************************************************)
SlotsAreExclusive ==
  \A c \in Clients :
    /\ \A m, n \in Unended(c) : m.id = n.id => m = n
    /\ \A i \in Ids : ~status[c][i] <=> \E m \in Unended(c) : m.id = i
    /\ \A j, k \in Callbacks : j # k /\ cb[c][j] # NoMsg => cb[c][j] # cb[c][k]
    /\ \A k \in Callbacks : cb[c][k] \notin flying[c]

(***************************************************************************)
(* When the helper starts on an entity, no earlier message for this entity *)
(* is under way: its callback and synchronize() never work on the same     *)
(* entity at the same time.  Waiting for the last message alone does not   *)
(* give this; it takes a vocabulary that goes round the window once more.  *)
(***************************************************************************)
OneMessagePerEntity ==
  \A c \in Clients :
    pc[c] \in {"next", "compute"} => \A m \in Unended(c) : m.entity # word[c]

(***************************************************************************)
(* A synchronizer thread asleep waits for a message that is still to be    *)
(* ended, or whose end_putNget threw: no notify is ever lost.              *)
(***************************************************************************)
NoLostWakeup ==
  \A c \in Clients :
    pc[c] = "asleep" =>
      /\ waiting[c] = Target(c)
      /\ \E m \in Unended(c) : m.id = waiting[c]

(***************************************************************************)
(* When every call is answered the synchronizer thread returns after the   *)
(* iterations are done, so that pthread_join of the learner does.          *)
(***************************************************************************)
SynchronizerReturns ==
  \A c \in Clients : itersDone[c] ~> (pc[c] = "done" \/ lost[c] # {})
=============================================================================
