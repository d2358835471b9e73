-------------------------- MODULE GlobalSyncProofs --------------------------
(***************************************************************************)
(* Theorems of GlobalSync, for any finite number of learners and callback  *)
(* threads, any vocabulary, window and initial counts: no token is lost or *)
(* counted twice, the counts fetched by initialize() are complete, and,    *)
(* when no two messages for a word can be under way, the old topic of a    *)
(* token is always found.                                                  *)
(*                                                                         *)
(* SyncInv is inductive as it stands.  Its parts: the types; LinksInv,     *)
(* which ties the place of the helper in synchronize() to the place of the *)
(* window's thread; the barrier's own invariant and Met, who has arrived   *)
(* and been released; CallsInFlight, the calls and answers of the map are  *)
(* the messages in flight of the windows; TokensConserved; and Quiet, what *)
(* is exchanged before the first change of topics.                         *)
(*                                                                         *)
(* OldTopicFound needs more: Announced is what a client has told or is     *)
(* about to tell of its own tokens.  It is never negative, the entry of    *)
(* the map is at least what the client has told since the parts of the     *)
(* others are not negative either, and an answer is at least Announced, so *)
(* that what the callback adds to _ttc leaves it at least at the tokens of *)
(* the client's own documents.  This takes a window that never holds two   *)
(* messages of a word (EntitiesAreExclusive): with two, what one of them   *)
(* changes between the reads of the other would be counted twice.          *)
(***************************************************************************)
EXTENDS GlobalSync, SumTheorems

-----------------------------------------------------------------------------
(***************************************************************************)
(* The window, without what its messages carry: theorems of DMClient for   *)
(* any number of clients, callback threads, entities and messages.  The    *)
(* slots are exclusive, no wakeup is lost, and, when the vocabulary goes   *)
(* round the window once more (NumEntities >= 2 * MaxMsgs - 1), no two     *)
(* messages for the same entity are under way.                             *)
(*                                                                         *)
(* ClientInv follows one client: Position says where the synchronizer      *)
(* thread can be in its pass, Slots what the statuses say of the messages  *)
(* under way, Asleep why a sleeping thread will be notified, and Placed    *)
(* which entity a message under way can have, slot by slot.                *)
(***************************************************************************)
Waits == {"check", "asleep", "woken"}

Position(c) ==
  /\ pc[c] \in {"next", "compute", "send", "done"} => cur[c] < MaxMsgs
  /\ pc[c] \in {"compute", "send"} => word[c] < NumEntities
  /\ pc[c] = "send" => after[c] = "slot" /\ status[c][cur[c]]
  /\ pc[c] \in Waits /\ after[c] = "slot" => cur[c] < MaxMsgs /\ word[c] < NumEntities
  /\ pc[c] \in Waits /\ after[c] = "window" => cur[c] = MaxMsgs /\ word[c] < NumEntities
  /\ pc[c] \in Waits /\ after[c] = "pass" =>
       cur[c] > 0 /\ cur[c] < MaxMsgs /\ word[c] = NumEntities

\* A slot is false exactly while one message has it.
SlotStatus(c) ==
  /\ \A m, n \in Unended(c) : m.id = n.id => m = n
  /\ \A i \in Ids : ~status[c][i] <=> \E m \in Unended(c) : m.id = i

\* A message is in one place.
OnePlace(c) ==
  /\ \A j, k \in Callbacks : j # k /\ cb[c][j] # NoMsg => cb[c][j] # cb[c][k]
  /\ \A k \in Callbacks : cb[c][k] \notin flying[c] /\ cb[c][k] \notin lost[c]
  /\ flying[c] \cap lost[c] = {}

Asleep(c) ==
  pc[c] = "asleep" => waiting[c] = Target(c) /\ ~status[c][waiting[c]]

SlotInv(c) == Position(c) /\ SlotStatus(c) /\ OnePlace(c) /\ Asleep(c)

-----------------------------------------------------------------------------
LEMMA MaxMsgsType ==
  MaxMsgs \in Nat \ {0} /\ MaxMsgs <= NumEntities /\ NumEntities \in Nat \ {0}
BY ClientAssumption DEF MaxMsgs

LEMMA TargetType ==
  ASSUME ClientTypeOK, NEW c \in Clients, Position(c), pc[c] \in Waits
  PROVE  Target(c) \in Ids
BY MaxMsgsType DEF ClientTypeOK, Position, Waits, Target, Ids

\* All that is known of a client is the same after a step.
Same(c) ==
  /\ pc'[c] = pc[c]
  /\ after'[c] = after[c]
  /\ word'[c] = word[c]
  /\ cur'[c] = cur[c]
  /\ status'[c] = status[c]
  /\ waiting'[c] = waiting[c]
  /\ flying'[c] = flying[c]
  /\ cb'[c] = cb[c]
  /\ lost'[c] = lost[c]

LEMMA SameInv ==
  ASSUME NEW c \in Clients, SlotInv(c), Same(c)
  PROVE  SlotInv(c)'
<1>1. Unended(c)' = Unended(c)
  BY DEF Same, Unended
<1>2. Target(c)' = Target(c)
  BY DEF Same, Target
<1> QED  BY <1>1, <1>2 DEF Same, SlotInv, Position, SlotStatus, OnePlace, Asleep

-----------------------------------------------------------------------------
LEMMA ClientInitInv == ClientInit => ClientTypeOK /\ \A c \in Clients : SlotInv(c)
<1> SUFFICES ASSUME ClientInit PROVE ClientTypeOK /\ \A c \in Clients : SlotInv(c)
  OBVIOUS
<1>1. ClientTypeOK
  BY MaxMsgsType DEF ClientInit, ClientTypeOK, PC, Ids
<1>2. ASSUME NEW c \in Clients PROVE SlotInv(c)
  <2>1. Unended(c) = {}
    BY DEF ClientInit, Unended
  <2>2. Position(c)
    BY MaxMsgsType DEF ClientInit, Position, Waits
  <2>3. SlotStatus(c)
    BY <2>1 DEF ClientInit, SlotStatus, Ids
  <2>4. OnePlace(c) /\ Asleep(c)
    BY DEF ClientInit, OnePlace, Asleep
  <2> QED  BY <2>2, <2>3, <2>4 DEF SlotInv
<1> QED  BY <1>1, <1>2

-----------------------------------------------------------------------------
\* The steps of the synchronizer thread that leave the messages alone.
LEMMA QuietStep ==
  ASSUME ClientTypeOK, NEW c \in Clients, SlotInv(c),
         \/ StartEntity(c) \/ BeginPutNget(c) \/ Block(c) \/ SpuriousWakeup(c)
         \/ SlotFree(c) \/ WindowDone(c) \/ EndPass(c) \/ PassDone(c)
         \/ SetAllItersDone(c)
  PROVE  ClientTypeOK' /\ SlotInv(c)' /\ \A d \in Clients \ {c} : Same(d)
<1> USE DEF ClientTypeOK
<1>1. status' = status /\ flying' = flying /\ cb' = cb /\ lost' = lost
  BY DEF StartEntity, BeginPutNget, Block, SpuriousWakeup, SlotFree, WindowDone, EndPass,
         PassDone, SetAllItersDone
<1>2. Unended(c)' = Unended(c)
  BY <1>1 DEF Unended
<1>3. SlotStatus(c)' /\ OnePlace(c)'
  BY <1>1, <1>2 DEF SlotInv, SlotStatus, OnePlace
<1> SUFFICES Position(c)' /\ Asleep(c)' /\ ClientTypeOK' /\ \A d \in Clients \ {c} : Same(d)
  BY <1>3 DEF SlotInv
<1> USE MaxMsgsType DEF SlotInv, Position, Asleep, Same, Target, Waits, PC
<1>4. CASE StartEntity(c)
  BY <1>4 DEF StartEntity
<1>5. CASE BeginPutNget(c)
  BY <1>5 DEF BeginPutNget
<1>6. CASE Block(c)
  <2>1. Target(c) \in Ids
    BY <1>6, TargetType DEF Block
  <2> QED  BY <1>6, <2>1 DEF Block
<1>7. CASE SpuriousWakeup(c)
  BY <1>7 DEF SpuriousWakeup
<1>8. CASE SlotFree(c)
  BY <1>8 DEF SlotFree, WaitEnds
<1>9. CASE WindowDone(c)
  BY <1>9 DEF WindowDone, WaitEnds
<1>10. CASE EndPass(c)
  BY <1>10 DEF EndPass
<1>11. CASE PassDone(c)
  <2>1. /\ pc' = [pc EXCEPT ![c] = IF itersDone[c] THEN "done" ELSE "next"]
        /\ word' = [word EXCEPT ![c] = 0]
        /\ UNCHANGED <<after, status, flying, cb, lost, itersDone>>
    BY <1>11 DEF PassDone, Restart
  <2>2. CASE WaitEnds(c) /\ after[c] = "pass" /\ cur' = [cur EXCEPT ![c] = 0]
    BY <2>1, <2>2 DEF WaitEnds
  <2>3. CASE pc[c] = "next" /\ cur[c] = 0 /\ UNCHANGED <<cur, waiting>>
    BY <2>1, <2>3
  <2> QED  BY <1>11, <2>2, <2>3 DEF PassDone
<1>12. CASE SetAllItersDone(c)
  BY <1>12 DEF SetAllItersDone
<1> QED  BY <1>4, <1>5, <1>6, <1>7, <1>8, <1>9, <1>10, <1>11, <1>12

\* The answered slot is free: the new message is the only one that has it.
LEMMA SendStep ==
  ASSUME ClientTypeOK, NEW c \in Clients, SlotInv(c), Send(c)
  PROVE  ClientTypeOK' /\ SlotInv(c)' /\ \A d \in Clients \ {c} : Same(d)
<1> DEFINE new == [entity |-> word[c], id |-> cur[c]]
<1> USE MaxMsgsType
<1>0. /\ pc[c] = "send" /\ cur[c] \in Ids /\ word[c] \in Entities /\ status[c][cur[c]]
      /\ cur[c] \in Nat /\ word[c] \in Nat /\ cur[c] < MaxMsgs /\ word[c] < NumEntities
  BY DEF Send, SlotInv, Position, ClientTypeOK, Ids, Entities
<1>1. new \in Msgs /\ new # NoMsg
  BY <1>0, ClientAssumption DEF Msgs
<1>2. /\ status' = [status EXCEPT ![c][cur[c]] = FALSE]
      /\ flying' = [flying EXCEPT ![c] = @ \cup {new}]
      /\ cur' = [cur EXCEPT ![c] = @ + 1]
      /\ UNCHANGED <<waiting, cb, lost, itersDone>>
  BY DEF Send
<1>3. \/ /\ cur[c] + 1 = MaxMsgs
         /\ pc' = [pc EXCEPT ![c] = "check"]
         /\ after' = [after EXCEPT ![c] = "window"]
         /\ word' = word
      \/ /\ cur[c] + 1 < MaxMsgs
         /\ pc' = [pc EXCEPT ![c] = "next"]
         /\ word' = [word EXCEPT ![c] = @ + 1]
         /\ after' = after
  BY <1>0 DEF Send
<1>4. /\ status'[c] = [status[c] EXCEPT ![cur[c]] = FALSE]
      /\ flying'[c] = flying[c] \cup {new}
      /\ cur'[c] = cur[c] + 1
      /\ cb'[c] = cb[c] /\ lost'[c] = lost[c]
  BY <1>2 DEF ClientTypeOK
<1>5. ClientTypeOK'
  <2>1. /\ status' \in [Clients -> [Ids -> BOOLEAN]]
        /\ waiting' \in [Clients -> Ids \cup {-1}]
        /\ cb' \in [Clients -> [Callbacks -> Msgs \cup {NoMsg}]]
        /\ lost' \in [Clients -> SUBSET Msgs]
        /\ itersDone' \in [Clients -> BOOLEAN]
    BY <1>2 DEF ClientTypeOK
  <2>2. flying' \in [Clients -> SUBSET Msgs]
    BY <1>1, <1>2 DEF ClientTypeOK
  <2>3. cur' \in [Clients -> 0..MaxMsgs]
    BY <1>0, <1>2 DEF ClientTypeOK
  <2>4. /\ pc' \in [Clients -> PC]
        /\ after' \in [Clients -> {"slot", "window", "pass"}]
        /\ word' \in [Clients -> 0..NumEntities]
    <3>1. CASE pc' = [pc EXCEPT ![c] = "check"] /\ word' = word
      BY <1>3, <3>1 DEF ClientTypeOK, PC
    <3>2. CASE pc' = [pc EXCEPT ![c] = "next"] /\ word' = [word EXCEPT ![c] = @ + 1]
      BY <1>0, <1>3, <3>2 DEF ClientTypeOK, PC
    <3> QED  BY <1>3, <3>1, <3>2
  <2> QED  BY <2>1, <2>2, <2>3, <2>4 DEF ClientTypeOK
<1>6. \A d \in Clients \ {c} : Same(d)
  BY <1>2, <1>3 DEF ClientTypeOK, Same
<1>7. Unended(c)' = Unended(c) \cup {new}
  BY <1>4 DEF Unended
<1>8. ASSUME NEW m \in Unended(c) PROVE m.id # cur[c]
  BY <1>0 DEF SlotInv, SlotStatus
<1>9. Position(c)' /\ Asleep(c)'
  BY <1>0, <1>3, <1>4 DEF Position, Asleep, Waits, ClientTypeOK
<1>10. SlotStatus(c)'
  <2>1. \A m, n \in Unended(c)' : m.id = n.id => m = n
    BY <1>7, <1>8 DEF SlotInv, SlotStatus
  <2>2. ASSUME NEW i \in Ids
        PROVE  ~status'[c][i] <=> \E m \in Unended(c)' : m.id = i
    <3>1. CASE i = cur[c]
      <4>1. ~status'[c][i]
        BY <1>0, <1>4, <3>1 DEF ClientTypeOK
      <4>2. new \in Unended(c)' /\ new.id = i
        BY <1>7, <3>1
      <4> QED  BY <4>1, <4>2
    <3>2. CASE i # cur[c]
      <4>1. status'[c][i] = status[c][i]
        BY <1>4, <3>2 DEF ClientTypeOK
      <4>2. (\E m \in Unended(c)' : m.id = i) <=> \E m \in Unended(c) : m.id = i
        BY <1>7, <3>2
      <4>3. ~status[c][i] <=> \E m \in Unended(c) : m.id = i
        BY DEF SlotInv, SlotStatus
      <4> QED  BY <4>1, <4>2, <4>3
    <3> QED  BY <3>1, <3>2
  <2> QED  BY <2>1, <2>2 DEF SlotStatus
<1>11. OnePlace(c)'
  <2>1. new \notin Unended(c)
    BY <1>8
  <2>2. new \notin lost[c] /\ \A k \in Callbacks : cb[c][k] # new
    BY <1>1, <2>1 DEF Unended
  <2> QED  BY <1>4, <2>2 DEF SlotInv, OnePlace
<1> QED  BY <1>5, <1>6, <1>9, <1>10, <1>11 DEF SlotInv

-----------------------------------------------------------------------------
\* A message that changes its place stays under way.
LEMMA MovedStep ==
  ASSUME ClientTypeOK, NEW c \in Clients, SlotInv(c), NEW k \in Callbacks,
         (\E m \in flying[c] : StartCallback(c, k, m)) \/ CallbackThrows(c, k)
  PROVE  ClientTypeOK' /\ SlotInv(c)' /\ \A d \in Clients \ {c} : Same(d)
<1>1. /\ UNCHANGED <<pc, after, word, cur, status, waiting, itersDone>>
      /\ Unended(c)' = Unended(c)
      /\ OnePlace(c)'
      /\ ClientTypeOK'
      /\ \A d \in Clients \ {c} : Same(d)
  <2>1. CASE CallbackThrows(c, k)
    <3>1. /\ lost' = [lost EXCEPT ![c] = @ \cup {cb[c][k]}]
          /\ cb' = [cb EXCEPT ![c][k] = NoMsg]
          /\ UNCHANGED <<pc, after, word, cur, status, waiting, flying, itersDone>>
          /\ cb[c][k] # NoMsg
      BY <2>1 DEF CallbackThrows
    <3>2. /\ lost'[c] = lost[c] \cup {cb[c][k]}
          /\ cb'[c] = [cb[c] EXCEPT ![k] = NoMsg]
          /\ flying'[c] = flying[c]
          /\ cb[c] \in [Callbacks -> Msgs \cup {NoMsg}]
          /\ NoMsg \notin flying[c] /\ NoMsg \notin lost[c]
      BY <3>1, ClientAssumption DEF ClientTypeOK
    <3>3. Unended(c)' = Unended(c)
      BY <3>1, <3>2 DEF Unended
    <3>4. OnePlace(c)'
      BY <3>1, <3>2 DEF OnePlace, SlotInv
    <3>5. ClientTypeOK'
      BY <3>1 DEF ClientTypeOK
    <3>6. \A d \in Clients \ {c} : Same(d)
      BY <3>1 DEF ClientTypeOK, Same
    <3> QED  BY <3>1, <3>3, <3>4, <3>5, <3>6
  <2>2. ASSUME NEW m \in flying[c], StartCallback(c, k, m)
        PROVE  <1>1!:
    <3>1. /\ flying' = [flying EXCEPT ![c] = @ \ {m}]
          /\ cb' = [cb EXCEPT ![c][k] = m]
          /\ UNCHANGED <<pc, after, word, cur, status, waiting, lost, itersDone>>
          /\ cb[c][k] = NoMsg
      BY <2>2 DEF StartCallback
    <3>2. /\ flying'[c] = flying[c] \ {m}
          /\ cb'[c] = [cb[c] EXCEPT ![k] = m]
          /\ lost'[c] = lost[c]
          /\ cb[c] \in [Callbacks -> Msgs \cup {NoMsg}]
          /\ m \in Msgs /\ m # NoMsg
      BY <3>1, ClientAssumption DEF ClientTypeOK
    <3>3. Unended(c)' = Unended(c)
      BY <3>1, <3>2 DEF Unended
    <3>4. OnePlace(c)'
      BY <3>1, <3>2 DEF OnePlace, SlotInv
    <3>5. ClientTypeOK'
      BY <3>1, <3>2 DEF ClientTypeOK
    <3>6. \A d \in Clients \ {c} : Same(d)
      BY <3>1 DEF ClientTypeOK, Same
    <3> QED  BY <3>1, <3>3, <3>4, <3>5, <3>6
  <2> QED  BY <2>1, <2>2
<1> QED  BY <1>1 DEF SlotInv, Position, SlotStatus, Asleep, Target

\* The message is in one place, so it is gone from all, and its slot is free.
LEMMA FinishStep ==
  ASSUME ClientTypeOK, NEW c \in Clients, SlotInv(c), NEW k \in Callbacks,
         FinishCallback(c, k)
  PROVE  ClientTypeOK' /\ SlotInv(c)' /\ \A d \in Clients \ {c} : Same(d)
<1> DEFINE msg == cb[c][k]
<1>1. /\ msg # NoMsg
      /\ status' = [status EXCEPT ![c][msg.id] = TRUE]
      /\ pc' = [pc EXCEPT ![c] = IF Awaited(c, msg) THEN "woken" ELSE @]
      /\ cb' = [cb EXCEPT ![c][k] = NoMsg]
      /\ UNCHANGED <<after, word, cur, waiting, flying, lost, itersDone>>
  BY DEF FinishCallback
<1>2. /\ msg \in Msgs /\ msg.id \in Ids
      /\ cb[c] \in [Callbacks -> Msgs \cup {NoMsg}]
      /\ status[c] \in [Ids -> BOOLEAN]
      /\ pc[c] \in PC
  BY <1>1 DEF ClientTypeOK, Msgs
<1>3. /\ status'[c] = [status[c] EXCEPT ![msg.id] = TRUE]
      /\ cb'[c] = [cb[c] EXCEPT ![k] = NoMsg]
      /\ pc'[c] = IF Awaited(c, msg) THEN "woken" ELSE pc[c]
      /\ flying'[c] = flying[c] /\ lost'[c] = lost[c]
  BY <1>1 DEF ClientTypeOK
<1>4. msg \in Unended(c)
  BY <1>1 DEF Unended
<1>5. Unended(c)' = Unended(c) \ {msg}
  BY <1>1, <1>2, <1>3 DEF Unended, SlotInv, OnePlace
<1>6. ClientTypeOK'
  <2>1. status' \in [Clients -> [Ids -> BOOLEAN]]
    BY <1>1, <1>2 DEF ClientTypeOK
  <2>2. pc' \in [Clients -> PC]
    BY <1>1 DEF ClientTypeOK, PC
  <2>3. cb' \in [Clients -> [Callbacks -> Msgs \cup {NoMsg}]]
    BY <1>1 DEF ClientTypeOK
  <2> QED  BY <1>1, <2>1, <2>2, <2>3 DEF ClientTypeOK
<1>7. \A d \in Clients \ {c} : Same(d)
  BY <1>1 DEF ClientTypeOK, Same
<1>8. SlotStatus(c)'
  <2>1. \A m, n \in Unended(c)' : m.id = n.id => m = n
    BY <1>5 DEF SlotInv, SlotStatus
  <2>2. ASSUME NEW i \in Ids
        PROVE  ~status'[c][i] <=> \E m \in Unended(c)' : m.id = i
    <3>1. CASE i = msg.id
      <4>1. status'[c][i] = TRUE
        BY <1>2, <1>3, <3>1
      <4>2. ASSUME NEW m \in Unended(c)' PROVE m.id # i
        BY <1>4, <1>5, <3>1 DEF SlotInv, SlotStatus
      <4> QED  BY <4>1, <4>2
    <3>2. CASE i # msg.id
      <4>1. status'[c][i] = status[c][i]
        BY <1>2, <1>3, <3>2
      <4>2. (\E m \in Unended(c)' : m.id = i) <=> \E m \in Unended(c) : m.id = i
        BY <1>5, <3>2
      <4>3. ~status[c][i] <=> \E m \in Unended(c) : m.id = i
        BY DEF SlotInv, SlotStatus
      <4> QED  BY <4>1, <4>2, <4>3
    <3> QED  BY <3>1, <3>2
  <2> QED  BY <2>1, <2>2 DEF SlotStatus
<1>9. OnePlace(c)'
  <2>1. NoMsg \notin flying[c] /\ NoMsg \notin lost[c]
    BY ClientAssumption DEF ClientTypeOK
  <2> QED  BY <1>2, <1>3, <2>1 DEF SlotInv, OnePlace
<1>10. Position(c)'
  <2>1. pc[c] = "send" => status'[c][cur[c]]
    BY <1>2, <1>3 DEF SlotInv, Position
  <2> QED  BY <1>1, <1>3, <2>1 DEF SlotInv, Position, Waits, Awaited
<1>11. Asleep(c)'
  <2> SUFFICES ASSUME pc'[c] = "asleep"
               PROVE  waiting'[c] = Target(c)' /\ ~status'[c][waiting'[c]]
    BY DEF Asleep
  <2>1. pc[c] = "asleep" /\ waiting[c] # msg.id
    BY <1>3 DEF Awaited
  <2>2. waiting[c] = Target(c) /\ ~status[c][waiting[c]]
    BY <2>1 DEF SlotInv, Asleep
  <2>3. waiting[c] \in Ids
    BY <2>1, <2>2, TargetType DEF SlotInv, Waits
  <2>4. ~status'[c][waiting[c]]
    BY <1>2, <1>3, <2>1, <2>2, <2>3
  <2>5. Target(c)' = Target(c)
    BY <1>1 DEF Target
  <2> QED  BY <1>1, <2>2, <2>4, <2>5
<1> QED  BY <1>6, <1>7, <1>8, <1>9, <1>10, <1>11 DEF SlotInv

-----------------------------------------------------------------------------
ClientInv == ClientTypeOK /\ \A c \in Clients : SlotInv(c)

\* A step is a step of one client: nothing is different for the others.
LEMMA OneClientSteps ==
  ASSUME NEW c \in Clients, ClientTypeOK, SlotInv(c),
         \/ SyncStep(c) \/ SpuriousWakeup(c) \/ SetAllItersDone(c)
         \/ \E k \in Callbacks : CallbackStep(c, k) \/ CallbackThrows(c, k)
  PROVE  ClientTypeOK' /\ SlotInv(c)' /\ \A d \in Clients \ {c} : Same(d)
<1>1. CASE Send(c)
  BY <1>1, SendStep
<1>2. CASE \E k \in Callbacks : FinishCallback(c, k)
  BY <1>2, FinishStep
<1>3. CASE \E k \in Callbacks :
             (\E m \in flying[c] : StartCallback(c, k, m)) \/ CallbackThrows(c, k)
  BY <1>3, MovedStep
<1>4. CASE \/ StartEntity(c) \/ BeginPutNget(c) \/ Block(c) \/ SpuriousWakeup(c)
           \/ SlotFree(c) \/ WindowDone(c) \/ EndPass(c) \/ PassDone(c)
           \/ SetAllItersDone(c)
  BY <1>4, QuietStep
<1> QED  BY <1>1, <1>2, <1>3, <1>4 DEF SyncStep, CallbackStep

LEMMA ClientStepInv == ClientInv /\ [ClientNext]_clientVars => ClientInv'
<1> SUFFICES ASSUME ClientInv, [ClientNext]_clientVars PROVE ClientInv'
  OBVIOUS
<1>1. CASE UNCHANGED clientVars
  <2>1. ClientTypeOK'
    BY <1>1 DEF ClientInv, ClientTypeOK, clientVars
  <2>2. ASSUME NEW d \in Clients PROVE SlotInv(d)'
    <3>1. Same(d)
      BY <1>1 DEF Same, clientVars
    <3> QED  BY <3>1, SameInv DEF ClientInv
  <2> QED  BY <2>1, <2>2 DEF ClientInv
<1>2. CASE ClientNext
  <2>1. PICK c \in Clients :
          \/ SyncStep(c) \/ SpuriousWakeup(c) \/ SetAllItersDone(c)
          \/ \E k \in Callbacks : CallbackStep(c, k) \/ CallbackThrows(c, k)
    BY <1>2 DEF ClientNext
  <2>2. ClientTypeOK /\ SlotInv(c)
    BY DEF ClientInv
  <2>3. ClientTypeOK' /\ SlotInv(c)' /\ \A d \in Clients \ {c} : Same(d)
    BY <2>1, <2>2, OneClientSteps
  <2>4. ASSUME NEW d \in Clients \ {c} PROVE SlotInv(d)'
    BY <2>3, SameInv DEF ClientInv
  <2> QED  BY <2>3, <2>4 DEF ClientInv
<1> QED  BY <1>1, <1>2

\* The slots of the window and the thread that waits for one agree at every step.
THEOREM ClientInvCorrect == ClientSpec => []ClientInv
<1>1. ClientInit => ClientInv
  BY ClientInitInv DEF ClientInv
<1> QED  BY <1>1, ClientStepInv, PTL DEF ClientSpec

\* Every variable of the client keeps its type: _cur_msg_id stays within the
\* array of statuses, _waiting names a slot or none.
THEOREM ClientTypeCorrect == ClientSpec => []ClientTypeOK
<1>1. ClientInv => ClientTypeOK
  BY DEF ClientInv
<1> QED  BY <1>1, ClientInvCorrect, PTL

\* However the answers arrive, a slot has at most one message under way, and
\* has one exactly while its status is false.
THEOREM SlotsCorrect == ClientSpec => []SlotsAreExclusive
<1>1. ClientInv => SlotsAreExclusive
  BY DEF ClientInv, SlotInv, SlotStatus, OnePlace, SlotsAreExclusive
<1> QED  BY <1>1, ClientInvCorrect, PTL

\* The synchronizer thread never sleeps on a message that has been ended.
THEOREM NoWakeupIsLost == ClientSpec => []NoLostWakeup
<1>1. ClientInv => NoLostWakeup
  <2> SUFFICES ASSUME ClientInv, NEW c \in Clients, pc[c] = "asleep"
               PROVE  /\ waiting[c] = Target(c)
                      /\ \E m \in Unended(c) : m.id = waiting[c]
    BY DEF NoLostWakeup
  <2>1. waiting[c] = Target(c) /\ ~status[c][waiting[c]]
    BY DEF ClientInv, SlotInv, Asleep
  <2>2. waiting[c] \in Ids
    BY <2>1, TargetType DEF ClientInv, SlotInv, Waits
  <2> QED  BY <2>1, <2>2 DEF ClientInv, SlotInv, SlotStatus
<1> QED  BY <1>1, ClientInvCorrect, PTL

-----------------------------------------------------------------------------
(***************************************************************************)
(* Which entity a message under way can have.  Base is the entity of slot  *)
(* 0 of this window.  A slot already used in this window has the entity of *)
(* this window; one that is not, the entity of the window before, unless   *)
(* it was that window's last message, which was waited for.  In the first  *)
(* window of a pass the window before is the tail of the pass before.      *)
(***************************************************************************)
Base(c) ==
  IF pc[c] \in Waits /\ after[c] = "window" THEN word[c] - cur[c] + 1
                                            ELSE word[c] - cur[c]

PlacedMsg(c, m) ==
  \/ m.id < cur[c] /\ m.entity = Base(c) + m.id
  \/ m.id >= cur[c] /\ m.id <= MaxMsgs - 2 /\ m.entity = Base(c) - MaxMsgs + m.id
  \/ /\ Base(c) = 0
     /\ m.id >= cur[c] /\ m.id <= MaxMsgs - 2
     /\ m.entity >= NumEntities - MaxMsgs

Placed(c) == \A m \in Unended(c) : PlacedMsg(c, m)

LEMMA UnendedType ==
  ASSUME ClientTypeOK, NEW c \in Clients
  PROVE  Unended(c) \subseteq Msgs
BY DEF ClientTypeOK, Unended

LEMMA PlacedSame ==
  ASSUME NEW c \in Clients, Placed(c), Unended(c)' \subseteq Unended(c),
         cur'[c] = cur[c], Base(c)' = Base(c)
  PROVE  Placed(c)'
BY DEF Placed, PlacedMsg

LEMMA PlacedStep ==
  ASSUME ClientTypeOK, NEW c \in Clients, SlotInv(c), Placed(c),
         \/ SyncStep(c) \/ SpuriousWakeup(c) \/ SetAllItersDone(c)
         \/ \E k \in Callbacks : CallbackStep(c, k) \/ CallbackThrows(c, k)
  PROVE  Placed(c)'
<1> USE MaxMsgsType
<1>0. /\ cur[c] \in Nat /\ word[c] \in Nat /\ cur[c] <= MaxMsgs /\ word[c] <= NumEntities
      /\ Unended(c) \subseteq Msgs
      /\ \A m \in Msgs : m.id \in 0..MaxMsgs - 1 /\ m.entity \in 0..NumEntities - 1
  BY UnendedType DEF ClientTypeOK, Msgs, Ids, Entities
<1>1. Position(c)
  BY DEF SlotInv
\* An ended slot has no message.
<1>2. ASSUME WaitEnds(c), NEW m \in Unended(c) PROVE m.id # Target(c)
  <2>1. Target(c) \in Ids /\ status[c][Target(c)]
    BY <1>1, <1>2, TargetType DEF WaitEnds, Waits
  <2> QED  BY <2>1 DEF SlotInv, SlotStatus
<1>3. CASE StartEntity(c) \/ BeginPutNget(c) \/ Block(c) \/ SpuriousWakeup(c) \/ EndPass(c)
           \/ SlotFree(c) \/ SetAllItersDone(c)
  <2>1. cur' = cur /\ word' = word /\ Unended(c)' = Unended(c)
    BY <1>3 DEF StartEntity, BeginPutNget, Block, SpuriousWakeup, EndPass, SlotFree,
                SetAllItersDone, Unended
  <2>2. (pc'[c] \in Waits /\ after'[c] = "window") <=> (pc[c] \in Waits /\ after[c] = "window")
    BY <1>3 DEF StartEntity, BeginPutNget, Block, SpuriousWakeup, EndPass, SlotFree, WaitEnds,
                SetAllItersDone, Waits, ClientTypeOK
  <2>3. Base(c)' = Base(c)
    BY <2>1, <2>2 DEF Base
  <2> QED  BY <2>1, <2>3, PlacedSame
<1>4. CASE Send(c)
  <2> DEFINE new == [entity |-> word[c], id |-> cur[c]]
  <2>1. /\ pc[c] = "send" /\ cur[c] < MaxMsgs /\ status[c][cur[c]]
        /\ cur'[c] = cur[c] + 1
        /\ flying'[c] = flying[c] \cup {new}
        /\ cb' = cb /\ lost' = lost
    BY <1>1, <1>4 DEF Send, Position, ClientTypeOK
  <2>2. Base(c) = word[c] - cur[c]
    BY <2>1 DEF Base, Waits
  <2>3. Base(c)' = Base(c)
    <3>1. CASE cur[c] + 1 = MaxMsgs
      <4>1. pc'[c] = "check" /\ after'[c] = "window" /\ word'[c] = word[c]
        BY <1>4, <3>1 DEF Send, ClientTypeOK
      <4> QED  BY <1>0, <2>1, <2>2, <4>1 DEF Base, Waits
    <3>2. CASE cur[c] + 1 # MaxMsgs
      <4>1. pc'[c] = "next" /\ word'[c] = word[c] + 1
        BY <1>4, <3>2 DEF Send, ClientTypeOK
      <4> QED  BY <1>0, <2>1, <2>2, <4>1 DEF Base, Waits
    <3> QED  BY <3>1, <3>2
  <2>4. Unended(c)' = Unended(c) \cup {new}
    BY <2>1 DEF Unended
  <2>5. ASSUME NEW m, m = new PROVE PlacedMsg(c, m)'
    BY <2>5, <1>0, <2>1, <2>2, <2>3 DEF PlacedMsg
  <2>6. ASSUME NEW m \in Unended(c) PROVE PlacedMsg(c, m)'
    <3>1. m.id # cur[c]
      BY <1>0, <2>1 DEF SlotInv, SlotStatus, Ids
    <3>2. m.id \in Nat /\ PlacedMsg(c, m)
      BY <1>0 DEF Placed
    <3> QED  BY <1>0, <2>1, <2>3, <3>1, <3>2 DEF PlacedMsg
  <2> QED  BY <2>4, <2>5, <2>6 DEF Placed
<1>5. CASE WindowDone(c)
  <2>1. /\ WaitEnds(c) /\ after[c] = "window" /\ pc[c] \in Waits
        /\ cur'[c] = 0 /\ word'[c] = word[c] + 1 /\ pc'[c] = "next"
        /\ Unended(c)' = Unended(c)
    BY <1>5 DEF WindowDone, WaitEnds, Waits, ClientTypeOK, Unended
  <2>2. cur[c] = MaxMsgs /\ Target(c) = MaxMsgs - 1
    BY <1>1, <2>1 DEF Position, Target
  <2>3. Base(c)' = Base(c) + MaxMsgs /\ Base(c) = word[c] - MaxMsgs + 1
    BY <1>0, <2>1, <2>2 DEF Base, Waits
  <2>4. ASSUME NEW m \in Unended(c) PROVE PlacedMsg(c, m)'
    <3>1. m.id # MaxMsgs - 1 /\ m.id \in 0..MaxMsgs - 1 /\ PlacedMsg(c, m)
      BY <1>0, <1>2, <2>1, <2>2 DEF Placed
    <3>2. m.entity = Base(c) + m.id
      BY <2>2, <3>1 DEF PlacedMsg
    <3> QED  BY <1>0, <2>1, <2>3, <3>1, <3>2 DEF PlacedMsg
  <2> QED  BY <2>1, <2>4 DEF Placed
<1>6. CASE PassDone(c)
  <2>1. /\ word'[c] = 0 /\ pc'[c] \in {"next", "done"}
        /\ Unended(c)' = Unended(c)
    BY <1>6 DEF PassDone, Restart, ClientTypeOK, Unended
  <2>2. \/ WaitEnds(c) /\ after[c] = "pass" /\ pc[c] \in Waits /\ cur'[c] = 0
        \/ pc[c] = "next" /\ word[c] = NumEntities /\ cur[c] = 0 /\ cur'[c] = 0
    BY <1>6 DEF PassDone, WaitEnds, Waits, ClientTypeOK
  <2>3. Base(c)' = 0 /\ cur'[c] = 0
    BY <2>1, <2>2 DEF Base, Waits
  <2>4. ASSUME NEW m \in Unended(c)
        PROVE  m.id <= MaxMsgs - 2 /\ m.entity >= NumEntities - MaxMsgs
    <3>1. m.id \in 0..MaxMsgs - 1 /\ m.entity \in 0..NumEntities - 1 /\ PlacedMsg(c, m)
      BY <1>0 DEF Placed
    <3>2. CASE pc[c] = "next" /\ word[c] = NumEntities /\ cur[c] = 0
      <4>1. Base(c) = NumEntities
        BY <3>2 DEF Base, Waits
      <4> QED  BY <1>0, <3>1, <3>2, <4>1 DEF PlacedMsg
    <3>3. CASE WaitEnds(c) /\ after[c] = "pass" /\ pc[c] \in Waits
      <4>1. cur[c] > 0 /\ cur[c] < MaxMsgs /\ word[c] = NumEntities
        BY <1>1, <3>3 DEF Position
      <4>2. Base(c) = NumEntities - cur[c]
        BY <3>3, <4>1 DEF Base
      <4> QED  BY <1>0, <3>1, <4>1, <4>2 DEF PlacedMsg
    <3> QED  BY <2>2, <3>2, <3>3
  <2>5. ASSUME NEW m \in Unended(c) PROVE PlacedMsg(c, m)'
    BY <1>0, <2>3, <2>4 DEF PlacedMsg
  <2> QED  BY <2>1, <2>5 DEF Placed
<1>7. CASE \E k \in Callbacks : CallbackStep(c, k) \/ CallbackThrows(c, k)
  <2>1. PICK k \in Callbacks : \/ \E m \in flying[c] : StartCallback(c, k, m)
                               \/ FinishCallback(c, k) \/ CallbackThrows(c, k)
    BY <1>7 DEF CallbackStep
  <2>2. cur' = cur /\ word' = word /\ after' = after
    BY <2>1 DEF StartCallback, FinishCallback, CallbackThrows
  <2>3. pc'[c] = pc[c] \/ (pc[c] = "asleep" /\ pc'[c] = "woken")
    <3>1. CASE FinishCallback(c, k)
      BY <3>1 DEF FinishCallback, Awaited, ClientTypeOK
    <3>2. CASE (\E m \in flying[c] : StartCallback(c, k, m)) \/ CallbackThrows(c, k)
      BY <3>2 DEF StartCallback, CallbackThrows
    <3> QED  BY <2>1, <3>1, <3>2
  <2>4. Base(c)' = Base(c)
    BY <2>2, <2>3 DEF Base, Waits
  <2>5. Unended(c)' \subseteq Unended(c)
    <3>1. CASE \E m \in flying[c] : StartCallback(c, k, m)
      BY <3>1 DEF StartCallback, ClientTypeOK, Unended
    <3>2. CASE FinishCallback(c, k)
      BY <3>2 DEF FinishCallback, ClientTypeOK, Unended
    <3>3. CASE CallbackThrows(c, k)
      BY <3>3 DEF CallbackThrows, ClientTypeOK, Unended
    <3> QED  BY <2>1, <3>1, <3>2, <3>3
  <2> QED  BY <2>2, <2>4, <2>5, PlacedSame
<1> QED  BY <1>3, <1>4, <1>5, <1>6, <1>7 DEF SyncStep

PlacedInv == \A c \in Clients : Placed(c)

\* Every message under way has an entity of its window or of the one before.
THEOREM PlacedCorrect == ClientSpec => []PlacedInv
<1>1. ClientInit => PlacedInv
  BY DEF ClientInit, PlacedInv, Placed, Unended
<1>2. ClientInv /\ PlacedInv /\ [ClientNext]_clientVars => PlacedInv'
  <2> SUFFICES ASSUME ClientInv, PlacedInv, [ClientNext]_clientVars, NEW d \in Clients
               PROVE  Placed(d)'
    BY DEF PlacedInv
  <2>0. ClientTypeOK /\ SlotInv(d) /\ Placed(d)
    BY DEF ClientInv, PlacedInv
  <2>1. CASE Same(d)
    <3>1. Unended(d)' = Unended(d) /\ Base(d)' = Base(d) /\ cur'[d] = cur[d]
      BY <2>1 DEF Same, Unended, Base
    <3> QED  BY <2>0, <3>1, PlacedSame
  <2>2. CASE UNCHANGED clientVars
    BY <2>1, <2>2 DEF clientVars, Same
  <2>3. ASSUME NEW c \in Clients,
               \/ SyncStep(c) \/ SpuriousWakeup(c) \/ SetAllItersDone(c)
               \/ \E k \in Callbacks : CallbackStep(c, k) \/ CallbackThrows(c, k)
        PROVE  Placed(d)'
    <3>1. ClientTypeOK /\ SlotInv(c)
      BY DEF ClientInv
    <3>2. CASE d = c
      BY <2>0, <2>3, <3>2, PlacedStep
    <3>3. CASE d # c
      BY <2>1, <2>3, <3>1, <3>3, OneClientSteps
    <3> QED  BY <3>2, <3>3
  <2> QED  BY <2>2, <2>3 DEF ClientNext
<1> QED  BY <1>1, <1>2, ClientInvCorrect, PTL DEF ClientSpec

\* With a vocabulary that goes round the window once more, synchronize() never
\* starts on an entity whose previous putNget has not ended.
THEOREM EntitiesAreExclusive ==
  NumEntities >= 2 * MaxMsgs - 1 => (ClientSpec => []OneMessagePerEntity)
<1> SUFFICES ASSUME NumEntities >= 2 * MaxMsgs - 1 PROVE ClientSpec => []OneMessagePerEntity
  OBVIOUS
<1>1. ClientInv /\ PlacedInv => OneMessagePerEntity
  <2> SUFFICES ASSUME ClientInv, PlacedInv, NEW c \in Clients, pc[c] \in {"next", "compute"},
                      NEW m \in Unended(c)
               PROVE  m.entity # word[c]
    BY DEF OneMessagePerEntity
  <2>1. cur[c] \in Nat /\ word[c] \in Nat /\ cur[c] < MaxMsgs
    BY MaxMsgsType DEF ClientInv, ClientTypeOK, SlotInv, Position
  <2>2. m.id \in 0..MaxMsgs - 1 /\ m.entity \in 0..NumEntities - 1
    BY UnendedType DEF ClientInv, Msgs, Ids, Entities
  <2>3. PlacedMsg(c, m) /\ Base(c) = word[c] - cur[c]
    BY DEF PlacedInv, Placed, Base, Waits
  <2> QED  BY <2>1, <2>2, <2>3, MaxMsgsType DEF PlacedMsg
<1> QED  BY <1>1, ClientInvCorrect, PlacedCorrect, PTL

-----------------------------------------------------------------------------
(***************************************************************************)
(* The composition.                                                        *)
(***************************************************************************)

\* The calls of the map.
CallRecords == [client : Clients, word : Entities, id : Ids, val : Int]

CallSet(S) == S \subseteq CallRecords /\ IsFiniteSet(S)

IsTable(t) == DOMAIN t \subseteq Entities /\ \A x \in DOMAIN t : t[x] \in Int

\* The type of every variable the window does not have.
SyncTypeOK ==
  /\ IsTable(table)
  /\ CallSet(pending)
  /\ answers \subseteq [call : CallRecords, counts : Int]
  /\ local \in [Clients -> [Entities -> Nat]]
  /\ ttc \in [Clients -> [Entities -> Int]]
  /\ prev \in [Clients -> [Entities -> Int]]
  /\ changes \in Nat
  /\ phase \in [Clients -> {"put", "barrier", "get", "run"}]
  /\ ind \in [Clients -> Entities]
  /\ buf \in [Clients -> Int]
  /\ stage \in [Clients -> {"idle", "old", "prev", "send"}]
  /\ cbBuf \in [Clients -> [Callbacks -> Int]]
  /\ cbStage \in [Clients -> [Callbacks -> {"idle", "old", "ttc", "prev"}]]

\* How the helper's place in its work and the window's go together.
Links(c) ==
  /\ phase[c] # "run" => pc[c] = "next" /\ Unended(c) = {} /\ prev[c] = ttc[c]
  /\ phase[c] \in {"put", "barrier"} => local[c] = ttc[c]
  /\ phase[c] = "barrier" => ind[c] = 0
  /\ stage[c] = "send" <=> (pc[c] \in Waits /\ after[c] = "slot") \/ pc[c] = "send"
  /\ stage[c] \in {"old", "prev"} <=> pc[c] = "compute"
  /\ \A k \in Callbacks : cbStage[c][k] = "idle" <=> cb[c][k] = NoMsg

LinksInv == \A c \in Clients : Links(c)

-----------------------------------------------------------------------------
(***************************************************************************)
(* The operators of the map, and what a step of one client leaves alone.   *)
(***************************************************************************)
\* The map accumulates as CountTable says.
LEMMA SameTable ==
  ASSUME NEW t, NEW w, NEW v
  PROVE  Map!Accumulated(t, w, v) = Accumulated(t, w, v)
BY DEF Map!Accumulated, Map!Stored, Map!CountsOf, Accumulated, Stored, CountsOf

\* Accumulating adds to the count of the one word.
LEMMA TableAdds ==
  ASSUME NEW t, IsTable(t), NEW w \in Entities, NEW v \in Int
  PROVE  /\ IsTable(Accumulated(t, w, v))
         /\ \A x : CountsOf(Accumulated(t, w, v), x) =
                     IF x = w THEN CountsOf(t, w) + v ELSE CountsOf(t, x)
         /\ Accumulated(t, w, v)[w] = CountsOf(t, w) + v
BY DEF IsTable, Accumulated, Stored, CountsOf

LEMMA CountsType ==
  ASSUME NEW t, IsTable(t), NEW w
  PROVE  CountsOf(t, w) \in Int
BY DEF IsTable, CountsOf

\* The loops of initialize() go through the entities in order.
LEMMA NextEntity ==
  ASSUME NEW w \in Entities
  PROVE  (w + 1) % NumEntities \in Entities /\ w + 1 \in Nat
         /\ (w + 1 = NumEntities => (w + 1) % NumEntities = 0)
         /\ (w + 1 # NumEntities => (w + 1) % NumEntities = w + 1)
BY ClientAssumption DEF Entities

\* Nothing of the client has changed.
Untouched(d) ==
  /\ Same(d)
  /\ local'[d] = local[d] /\ ttc'[d] = ttc[d] /\ prev'[d] = prev[d]
  /\ phase'[d] = phase[d] /\ ind'[d] = ind[d]
  /\ buf'[d] = buf[d] /\ stage'[d] = stage[d]
  /\ cbBuf'[d] = cbBuf[d] /\ cbStage'[d] = cbStage[d]

\* A step of a client's threads.
Act(c) ==
  \/ Initialize(c)
  \/ \E w \in Entities, d \in {-1, 1} : Change(c, w, d)
  \/ Synchronize(c)
  \/ \E k \in Callbacks : EndPutNget(c, k)

\* Every step of a client is one of its window's, or none of it.
LEMMA WindowStep ==
  ASSUME NEW c \in Clients, Act(c)
  PROVE  \/ SyncStep(c) \/ SetAllItersDone(c)
         \/ \E k \in Callbacks : CallbackStep(c, k)
         \/ UNCHANGED clientVars
<1>1. CASE Initialize(c)
  BY <1>1 DEF Initialize, PutInitial, Arrive, Pass, GetInitial
<1>2. CASE \E w \in Entities, d \in {-1, 1} : Change(c, w, d)
  BY <1>2 DEF Change
<1>3. CASE Synchronize(c)
  BY <1>3 DEF Synchronize, ReadCounts, SubtractOld, UpdatePrev, SendDelta, Window, SyncStep
<1>4. ASSUME NEW k \in Callbacks, EndPutNget(c, k)
      PROVE  CallbackStep(c, k) \/ UNCHANGED clientVars
  <2>1. ASSUME NEW a \in answers, BeginEnd(c, k, a) PROVE CallbackStep(c, k)
    BY <2>1 DEF BeginEnd, StartCallback, CallbackStep
  <2> QED  BY <1>4, <2>1 DEF EndPutNget, EndSubtractOld, EndUpdateTtc, EndUpdatePrev, CallbackStep
<1> QED  BY <1>1, <1>2, <1>3, <1>4 DEF Act

LEMMA NextActs == Next <=> (\E c \in Clients : Act(c)) \/ \E call \in pending : Serve(call)
BY DEF Next, Act

LEMMA StepsOfTheWindow == [Next]_vars => [ClientNext]_clientVars
<1> SUFFICES ASSUME Next PROVE [ClientNext]_clientVars
  BY DEF vars
<1>1. ASSUME NEW c \in Clients, Act(c) PROVE [ClientNext]_clientVars
  BY <1>1, WindowStep DEF ClientNext
<1>2. ASSUME NEW call \in pending, Serve(call) PROVE UNCHANGED clientVars
  BY <1>2 DEF Serve
<1> QED  BY <1>1, <1>2, NextActs

LEMMA NextLater ==
  ASSUME NEW w \in Entities, NEW x \in Entities
  PROVE  w <= x <=> x = w \/ w + 1 <= x
BY ClientAssumption DEF Entities

\* A step of one client leaves the windows of the others as they are.
LEMMA SameWindow ==
  ASSUME ClientTypeOK, NEW c \in Clients, NEW d \in Clients \ {c},
         \/ SyncStep(c) \/ SetAllItersDone(c)
         \/ \E k \in Callbacks : CallbackStep(c, k)
         \/ UNCHANGED clientVars
  PROVE  Same(d)
<1> USE DEF ClientTypeOK, Same
<1>1. CASE SyncStep(c)
  BY <1>1 DEF SyncStep, StartEntity, BeginPutNget, Block, SlotFree, WaitEnds, Send, WindowDone,
              EndPass, PassDone, Restart
<1>2. CASE SetAllItersDone(c)
  BY <1>2 DEF SetAllItersDone
<1>3. CASE \E k \in Callbacks : CallbackStep(c, k)
  BY <1>3 DEF CallbackStep, StartCallback, FinishCallback
<1>4. CASE UNCHANGED clientVars
  BY <1>4 DEF clientVars
<1> QED  BY <1>1, <1>2, <1>3, <1>4

\* ... and everything else of them.
LEMMA OthersUntouched ==
  ASSUME ClientTypeOK, SyncTypeOK, NEW c \in Clients, Act(c), NEW d \in Clients \ {c}
  PROVE  Untouched(d)
<1> USE DEF SyncTypeOK, tableVars, bufVars
<1> SUFFICES ASSUME Same(d) => Untouched(d) PROVE Same(d)
  <2>1. CASE Initialize(c)
    BY <2>1 DEF Initialize, PutInitial, Arrive, Pass, GetInitial, Untouched
  <2>2. CASE \E w \in Entities, e \in {-1, 1} : Change(c, w, e)
    BY <2>2 DEF Change, Untouched
  <2>3. CASE Synchronize(c)
    BY <2>3 DEF Synchronize, ReadCounts, SubtractOld, UpdatePrev, SendDelta, Window, Untouched
  <2>4. CASE \E k \in Callbacks : EndPutNget(c, k)
    BY <2>4 DEF EndPutNget, BeginEnd, EndSubtractOld, EndUpdateTtc, EndUpdatePrev, Untouched
  <2> QED  BY <2>1, <2>2, <2>3, <2>4 DEF Act
<1> QED  BY WindowStep, SameWindow

-----------------------------------------------------------------------------
(***************************************************************************)
(* The types, action by action.                                            *)
(***************************************************************************)
LEMMA WordType ==
  ASSUME ClientInv, NEW c \in Clients
  PROVE  /\ pc[c] = "compute" \/ pc[c] = "send" => word[c] \in Entities /\ cur[c] \in Ids
         /\ \A k \in Callbacks :
              cb[c][k] # NoMsg => cb[c][k] \in Msgs /\ cb[c][k].entity \in Entities
BY MaxMsgsType DEF ClientInv, ClientTypeOK, SlotInv, Position, Entities, Ids, Msgs

\* The initial state has the types and the links.
LEMMA SyncInitType == Init => SyncTypeOK /\ LinksInv
<1> SUFFICES ASSUME Init PROVE SyncTypeOK /\ LinksInv
  OBVIOUS
<1>1. 0 \in Entities
  BY ClientAssumption DEF Entities
<1>2. IsFiniteSet({})
  BY FS_EmptySet
<1>3. SyncTypeOK
  BY <1>1, <1>2, SyncAssumption DEF Init, Map!MapInit, SyncTypeOK, IsTable, CallSet
<1>4. ASSUME NEW c \in Clients PROVE Links(c)
  <2>1. Unended(c) = {}
    BY DEF Init, ClientInit, Unended
  <2> QED  BY <2>1 DEF Init, ClientInit, Links, Waits
<1> QED  BY <1>3, <1>4 DEF LinksInv

\* Every step keeps the types.
LEMMA SyncTypeStep ==
  ASSUME ClientInv, SyncTypeOK, LinksInv, Next
  PROVE  SyncTypeOK'
<1> USE DEF SyncTypeOK, CallSet, tableVars, bufVars, mapVars
<1>1. ASSUME NEW c \in Clients, PutInitial(c) PROVE SyncTypeOK'
  <2>1. table' = Accumulated(table, ind[c], ttc[c][ind[c]]) /\ UNCHANGED <<pending, answers>>
    BY <1>1, SameTable DEF PutInitial, Map!Put
  <2>2. IsTable(table')
    BY <2>1, TableAdds
  <2>3. (ind[c] + 1) % NumEntities \in Entities
    BY NextEntity
  <2> QED  BY <1>1, <2>1, <2>2, <2>3 DEF PutInitial
<1>2. ASSUME NEW c \in Clients, Arrive(c) PROVE SyncTypeOK'
  BY <1>2 DEF Arrive
<1>3. ASSUME NEW c \in Clients, Pass(c) PROVE SyncTypeOK'
  BY <1>3 DEF Pass
<1>4. ASSUME NEW c \in Clients, GetInitial(c) PROVE SyncTypeOK'
  <2>1. CountsOf(table, ind[c]) \in Int
    BY CountsType
  <2>3. (ind[c] + 1) % NumEntities \in Entities
    BY NextEntity
  <2> QED  BY <1>4, <2>1, <2>3 DEF GetInitial
<1>5. ASSUME NEW c \in Clients, NEW w \in Entities, NEW d \in {-1, 1}, Change(c, w, d)
      PROVE  SyncTypeOK'
  BY <1>5 DEF Change, HasOldTopic
<1>6. ASSUME NEW c \in Clients, ReadCounts(c) PROVE SyncTypeOK'
  <2>1. word[c] \in Entities
    BY <1>6, ClientAssumption DEF ReadCounts, StartEntity, ClientInv, ClientTypeOK, Entities
  <2> QED  BY <1>6, <2>1 DEF ReadCounts
<1>7. ASSUME NEW c \in Clients, SubtractOld(c) PROVE SyncTypeOK'
  <2>1. word[c] \in Entities
    BY <1>7, WordType DEF SubtractOld, LinksInv, Links
  <2> QED  BY <1>7, <2>1 DEF SubtractOld
<1>8. ASSUME NEW c \in Clients, UpdatePrev(c) PROVE SyncTypeOK'
  <2>1. word[c] \in Entities
    BY <1>8, WordType DEF UpdatePrev, BeginPutNget
  <2> QED  BY <1>8, <2>1 DEF UpdatePrev
<1>9. ASSUME NEW c \in Clients, SendDelta(c) PROVE SyncTypeOK'
  <2> DEFINE q == [client |-> c, word |-> word[c], id |-> cur[c], val |-> buf[c]]
  <2>1. q \in CallRecords
    BY <1>9, WordType DEF SendDelta, Send, CallRecords
  <2>2. pending' = pending \cup {q} /\ UNCHANGED <<table, answers>>
    BY <1>9 DEF SendDelta, Map!Invoke
  <2>3. IsFiniteSet(pending')
    BY <2>2, FS_AddElement
  <2> HIDE DEF q
  <2> QED  BY <1>9, <2>1, <2>2, <2>3 DEF SendDelta
<1>10. ASSUME NEW c \in Clients, Window(c) PROVE SyncTypeOK'
  BY <1>10 DEF Window
<1>11. ASSUME NEW call \in pending, Serve(call) PROVE SyncTypeOK'
  <2>1. call \in CallRecords /\ call.word \in Entities /\ call.val \in Int
    BY DEF CallRecords
  <2>2. /\ table' = Accumulated(table, call.word, call.val)
        /\ pending' = pending \ {call}
        /\ answers' = answers \cup {[call |-> call, counts |-> table'[call.word]]}
    BY <1>11, SameTable DEF Serve, Map!Combine
  <2>3. IsTable(table') /\ table'[call.word] \in Int
    BY <2>1, <2>2, TableAdds, CountsType
  <2>4. IsFiniteSet(pending')
    BY <2>2, FS_RemoveElement
  <2>5. [call |-> call, counts |-> table'[call.word]] \in [call : CallRecords, counts : Int]
    BY <2>1, <2>3
  <2> QED  BY <1>11, <2>2, <2>3, <2>4, <2>5 DEF Serve
<1>12. ASSUME NEW c \in Clients, NEW k \in Callbacks, NEW a \in answers, BeginEnd(c, k, a)
       PROVE  SyncTypeOK'
  BY <1>12 DEF BeginEnd, Map!Receive
<1>13. ASSUME NEW c \in Clients, NEW k \in Callbacks, EndSubtractOld(c, k) PROVE SyncTypeOK'
  <2>1. cb[c][k].entity \in Entities
    BY <1>13, WordType DEF EndSubtractOld, LinksInv, Links
  <2> QED  BY <1>13, <2>1 DEF EndSubtractOld
<1>14. ASSUME NEW c \in Clients, NEW k \in Callbacks, EndUpdateTtc(c, k) PROVE SyncTypeOK'
  <2>1. cb[c][k].entity \in Entities
    BY <1>14, WordType DEF EndUpdateTtc, LinksInv, Links
  <2> QED  BY <1>14, <2>1 DEF EndUpdateTtc
<1>15. ASSUME NEW c \in Clients, NEW k \in Callbacks, EndUpdatePrev(c, k) PROVE SyncTypeOK'
  <2>1. cb[c][k].entity \in Entities
    BY <1>15, WordType DEF EndUpdatePrev, LinksInv, Links
  <2> QED  BY <1>15, <2>1 DEF EndUpdatePrev
<1> HIDE DEF SyncTypeOK, CallSet, tableVars, bufVars, mapVars
<1> QED  BY <1>1, <1>2, <1>3, <1>4, <1>5, <1>6, <1>7, <1>8, <1>9, <1>10, <1>11, <1>12, <1>13,
            <1>14, <1>15 DEF Next, Initialize, Synchronize, EndPutNget

-----------------------------------------------------------------------------
(***************************************************************************)
(* The links between the helper and the window.                            *)
(***************************************************************************)
LEMMA UntouchedUnended ==
  ASSUME NEW d \in Clients, Same(d) PROVE Unended(d)' = Unended(d)
BY DEF Same, Unended

LEMMA UntouchedLinks ==
  ASSUME NEW d \in Clients, Links(d), Untouched(d) PROVE Links(d)'
<1>1. Unended(d)' = Unended(d)
  BY UntouchedUnended DEF Untouched
<1> QED  BY <1>1 DEF Links, Untouched, Same

\* A client that is at work on nothing has no callback thread at work.
LEMMA NothingUnended ==
  ASSUME NEW c \in Clients, Links(c), phase[c] # "run"
  PROVE  /\ stage[c] \notin {"old", "prev", "send"}
         /\ flying[c] = {} /\ \A k \in Callbacks : cb[c][k] = NoMsg /\ cbStage[c][k] = "idle"
BY DEF Links, Unended, Waits

LEMMA InitializeLinks ==
  ASSUME ClientInv, SyncTypeOK, NEW c \in Clients, Links(c), Initialize(c)
  PROVE  Links(c)'
<1> USE DEF Links, SyncTypeOK
<1>1. UNCHANGED clientVars /\ UNCHANGED bufVars
  BY DEF Initialize, PutInitial, Arrive, Pass, GetInitial
<1>2. Unended(c)' = Unended(c) /\ UNCHANGED <<pc, after, word, cur, cb, stage, cbStage>>
  BY <1>1 DEF Unended, clientVars, bufVars
<1>3. CASE PutInitial(c)
  BY <1>2, <1>3, NextEntity DEF PutInitial, tableVars
<1>4. CASE Arrive(c)
  BY <1>2, <1>4 DEF Arrive, tableVars
<1>5. CASE Pass(c)
  BY <1>2, <1>5 DEF Pass, tableVars
<1>6. CASE GetInitial(c)
  <2> DEFINE delta == CountsOf(table, ind[c]) - ttc[c][ind[c]]
  <2>1. delta \in Int
    BY CountsType
  <2>2. /\ phase[c] = "get" /\ phase'[c] \in {"get", "run"}
        /\ ttc'[c] = [ttc[c] EXCEPT ![ind[c]] = @ + delta]
        /\ prev'[c] = [prev[c] EXCEPT ![ind[c]] = @ + delta]
    BY <1>6 DEF GetInitial
  <2> HIDE DEF delta
  <2> QED  BY <1>2, <2>1, <2>2
<1> QED  BY <1>3, <1>4, <1>5, <1>6 DEF Initialize

LEMMA SynchronizeLinks ==
  ASSUME ClientInv, SyncTypeOK, NEW c \in Clients, Links(c), Synchronize(c)
  PROVE  Links(c)'
<1> USE DEF Links, SyncTypeOK, ClientInv, ClientTypeOK, Waits
<1>1. CASE ReadCounts(c)
  <2>1. Unended(c)' = Unended(c)
    BY <1>1 DEF ReadCounts, StartEntity, Unended
  <2> QED  BY <1>1, <2>1 DEF ReadCounts, StartEntity, tableVars
<1>2. CASE SubtractOld(c)
  <2>1. Unended(c)' = Unended(c)
    BY <1>2 DEF SubtractOld, clientVars, Unended
  <2> QED  BY <1>2, <2>1 DEF SubtractOld, clientVars, tableVars
<1>3. CASE UpdatePrev(c)
  BY <1>3 DEF UpdatePrev, BeginPutNget
<1>4. CASE SendDelta(c)
  BY <1>4 DEF SendDelta, Send, tableVars
<1>5. CASE Window(c)
  BY <1>5 DEF Window, Block, SlotFree, WaitEnds, WindowDone, EndPass, PassDone, Restart,
              SetAllItersDone, tableVars, bufVars
<1> QED  BY <1>1, <1>2, <1>3, <1>4, <1>5 DEF Synchronize

LEMMA EndPutNgetLinks ==
  ASSUME ClientInv, SyncTypeOK, NEW c \in Clients, Links(c), NEW k \in Callbacks, EndPutNget(c, k)
  PROVE  Links(c)'
<1> USE DEF Links, SyncTypeOK, ClientInv, ClientTypeOK, Waits
<1>0. phase[c] = "run" /\ phase' = phase
  <2>1. cb[c][k] # NoMsg \/ flying[c] # {}
    BY DEF EndPutNget, BeginEnd, StartCallback, EndSubtractOld, EndUpdateTtc, EndUpdatePrev
  <2>2. phase[c] = "run"
    BY <2>1, NothingUnended
  <2> QED  BY <2>2 DEF EndPutNget, BeginEnd, EndSubtractOld, EndUpdateTtc, EndUpdatePrev
<1>1. ASSUME NEW a \in answers, BeginEnd(c, k, a) PROVE Links(c)'
  <2>1. [entity |-> a.call.word, id |-> a.call.id] # NoMsg
    BY ClientAssumption DEF CallRecords, Msgs
  <2> QED  BY <1>0, <1>1, <2>1 DEF BeginEnd, StartCallback, tableVars
<1>2. CASE EndSubtractOld(c, k)
  BY <1>0, <1>2 DEF EndSubtractOld, clientVars
<1>3. CASE EndUpdateTtc(c, k)
  BY <1>0, <1>3 DEF EndUpdateTtc, clientVars
<1>4. CASE EndUpdatePrev(c, k)
  <2>1. /\ pc'[c] = pc[c] \/ (pc[c] = "asleep" /\ pc'[c] = "woken")
        /\ cb'[c] = [cb[c] EXCEPT ![k] = NoMsg]
        /\ cbStage'[c] = [cbStage[c] EXCEPT ![k] = "idle"]
        /\ stage' = stage /\ after' = after
    BY <1>4 DEF EndUpdatePrev, FinishCallback, Awaited
  <2> QED  BY <1>0, <2>1
<1> QED  BY <1>1, <1>2, <1>3, <1>4 DEF EndPutNget

\* Every step keeps the links.
LEMMA LinksStep ==
  ASSUME ClientInv, SyncTypeOK, LinksInv, Next
  PROVE  LinksInv'
<1>1. ASSUME NEW c \in Clients, Act(c) PROVE LinksInv'
  <2>1. \A d \in Clients \ {c} : Links(d)'
    BY <1>1, OthersUntouched, UntouchedLinks DEF LinksInv, ClientInv
  <2>2. CASE \E w \in Entities, d \in {-1, 1} : Change(c, w, d)
    <3>1. Unended(c)' = Unended(c)
      BY <2>2 DEF Change, clientVars, Unended
    <3>2. Links(c)'
      BY <2>2, <3>1 DEF Change, clientVars, bufVars, Links, LinksInv
    <3> QED  BY <2>1, <3>2 DEF LinksInv
  <2> QED  BY <1>1, <2>1, <2>2, InitializeLinks, SynchronizeLinks, EndPutNgetLinks DEF Act, LinksInv
<1>2. ASSUME NEW call \in pending, Serve(call) PROVE LinksInv'
  BY <1>2 DEF Serve, LinksInv, Links, clientVars, tableVars, bufVars, Unended
<1> QED  BY <1>1, <1>2, NextActs

-----------------------------------------------------------------------------
(***************************************************************************)
(* What the callback threads have told one of the two tables only.         *)
(***************************************************************************)
\* The sum over the callback threads.
AllHeard(c, w) == SumFunction([k \in Callbacks |-> Heard(c, k, w)])

LEMMA HeardType ==
  ASSUME SyncTypeOK, NEW c \in Clients, NEW w
  PROVE  /\ [k \in Callbacks |-> Heard(c, k, w)] \in [Callbacks -> Int]
         /\ AllHeard(c, w) \in Int
<1>1. \A k \in Callbacks : Heard(c, k, w) \in Int
  BY DEF SyncTypeOK, Heard
<1>2. [k \in Callbacks |-> Heard(c, k, w)] \in [Callbacks -> Int]
  BY <1>1
<1> QED  BY <1>2, TotalInt, SyncAssumption DEF AllHeard

\* A callback thread changes the sum by its own part.
LEMMA HeardChange ==
  ASSUME SyncTypeOK, SyncTypeOK', NEW c \in Clients, NEW w, NEW k \in Callbacks,
         \A j \in Callbacks \ {k} : Heard(c, j, w)' = Heard(c, j, w)
  PROVE  AllHeard(c, w)' = AllHeard(c, w) + Heard(c, k, w)' - Heard(c, k, w)
<1> DEFINE f == [j \in Callbacks |-> Heard(c, j, w)]
           g == [j \in Callbacks |-> Heard(c, j, w)']
<1>1. f \in [Callbacks -> Int] /\ g \in [Callbacks -> Int]
  <2>1. \A j \in Callbacks : Heard(c, j, w) \in Int /\ Heard(c, j, w)' \in Int
    BY DEF SyncTypeOK, Heard
  <2> QED  BY <2>1
<1>2. f[k] = Heard(c, k, w) /\ g[k] = Heard(c, k, w)'
  OBVIOUS
<1>3. \A j \in Callbacks : j # k => g[j] = f[j]
  OBVIOUS
<1>4. AllHeard(c, w) = SumFunction(f) /\ AllHeard(c, w)' = SumFunction(g)
  BY DEF AllHeard
<1> HIDE DEF f, g
<1>5. SumFunction(g) = SumFunction(f) + g[k] - f[k]
  BY <1>1, <1>3, TotalChange, SyncAssumption
<1> QED  BY <1>2, <1>4, <1>5

LEMMA HeardSame ==
  ASSUME NEW c \in Clients, NEW w,
         \A k \in Callbacks : Heard(c, k, w)' = Heard(c, k, w)
  PROVE  AllHeard(c, w)' = AllHeard(c, w)
<1>1. [k \in Callbacks |-> Heard(c, k, w)]' = [k \in Callbacks |-> Heard(c, k, w)]
  OBVIOUS
<1> QED  BY <1>1 DEF AllHeard

\* Nothing is half told by the callback threads.
LEMMA NothingHeard ==
  ASSUME NEW c \in Clients, NEW w,
         \A k \in Callbacks : cbStage[c][k] = "prev" => cb[c][k].entity # w
  PROVE  AllHeard(c, w) = 0
<1> DEFINE f == [k \in Callbacks |-> Heard(c, k, w)]
<1>1. DOMAIN f = Callbacks /\ \A k \in Callbacks : f[k] = 0
  BY DEF Heard
<1> HIDE DEF f
<1>2. SumFunction(f) = 0
  BY <1>1, TotalZero, SyncAssumption
<1> QED  BY <1>2 DEF f, AllHeard

-----------------------------------------------------------------------------
(***************************************************************************)
(* The deltas on their way: sums over the calls the map has not combined   *)
(* yet.                                                                    *)
(***************************************************************************)
\* The calls of S for the word of the client.
Sent(S, c, w) == {p \in S : p.client = c /\ p.word = w}

Val(S) == [p \in S |-> p.val]

\* The sum of the deltas of the calls in S for the word of the client.
Carried(S, c, w) == SumFunctionOnSet(Val(S), Sent(S, c, w))

LEMMA OnTheWayIs == \A c, w : OnTheWay(c, w) = Carried(pending, c, w)
BY DEF OnTheWay, Carried, Val, Sent

LEMMA CarriedType ==
  ASSUME NEW S, CallSet(S), NEW c, NEW w
  PROVE  Carried(S, c, w) \in Int
<1>1. IsFiniteSet(Sent(S, c, w))
  BY FS_Subset DEF Sent, CallSet
<1>2. \A p \in Sent(S, c, w) : Val(S)[p] \in Int
  BY DEF Val, Sent, CallRecords, CallSet
<1> QED  BY <1>1, <1>2, SumInt DEF Carried

\* One more call adds its delta to the word of its client.
LEMMA CarriedAdds ==
  ASSUME NEW S, CallSet(S), NEW q \in CallRecords, q \notin S,
         NEW c, NEW w
  PROVE  Carried(S \cup {q}, c, w) =
           Carried(S, c, w) + (IF q.client = c /\ q.word = w THEN q.val ELSE 0)
<1> DEFINE T == S \cup {q}
<1>1. IsFiniteSet(Sent(S, c, w))
  BY FS_Subset DEF Sent, CallSet
<1>2. \A p \in Sent(S, c, w) : Val(S)[p] \in Int /\ Val(T)[p] = Val(S)[p]
  BY DEF Val, Sent, CallRecords, CallSet
<1>3. SumFunctionOnSet(Val(T), Sent(S, c, w)) = Carried(S, c, w)
  BY <1>1, <1>2, SumSame DEF Carried
<1>4. CASE q.client = c /\ q.word = w
  <2>1. Sent(T, c, w) = Sent(S, c, w) \cup {q} /\ q \notin Sent(S, c, w)
    BY <1>4 DEF Sent
  <2>2. \A p \in Sent(S, c, w) \cup {q} : Val(T)[p] \in Int
    BY DEF Val, Sent, CallRecords, CallSet
  <2>3. Carried(T, c, w) = Val(T)[q] + SumFunctionOnSet(Val(T), Sent(S, c, w))
    BY <1>1, <2>1, <2>2, SumAdd DEF Carried
  <2>4. Val(T)[q] = q.val /\ q.val \in Int
    BY DEF Val, CallRecords
  <2>5. Carried(S, c, w) \in Int
    BY CarriedType
  <2> QED  BY <1>3, <1>4, <2>3, <2>4, <2>5
<1>5. CASE ~(q.client = c /\ q.word = w)
  <2>1. Sent(T, c, w) = Sent(S, c, w)
    BY <1>5 DEF Sent
  <2>2. Carried(S, c, w) \in Int
    BY CarriedType
  <2>3. Carried(T, c, w) = Carried(S, c, w)
    BY <1>3, <2>1 DEF Carried
  <2> QED  BY <1>5, <2>2, <2>3
<1> QED  BY <1>4, <1>5

\* No call for the word: nothing is on its way.
LEMMA CarriedNothing ==
  ASSUME NEW S, IsFiniteSet(S), NEW c, NEW w, \A p \in S : p.client = c => p.word # w \/ p.val = 0
  PROVE  Carried(S, c, w) = 0
<1>1. IsFiniteSet(Sent(S, c, w)) /\ \A p \in Sent(S, c, w) : Val(S)[p] = 0
  BY FS_Subset DEF Sent, Val
<1> QED  BY <1>1, SumZero DEF Carried

\* Sending a delta puts it on its way.
LEMMA CallInvoked ==
  ASSUME SyncTypeOK, NEW q \in CallRecords, q \notin pending, pending' = pending \cup {q},
         NEW c, NEW w
  PROVE  OnTheWay(c, w)' = OnTheWay(c, w) + (IF q.client = c /\ q.word = w THEN q.val ELSE 0)
<1>1. CallSet(pending)
  BY DEF SyncTypeOK
<1>2. OnTheWay(c, w)' = Carried(pending \cup {q}, c, w)
  BY DEF OnTheWay, Carried, Val, Sent
<1>3. Carried(pending \cup {q}, c, w) =
        Carried(pending, c, w) + (IF q.client = c /\ q.word = w THEN q.val ELSE 0)
  BY <1>1, CarriedAdds, SMT
<1> QED  BY <1>2, <1>3, OnTheWayIs

\* Combining it takes it off.
LEMMA CallServed ==
  ASSUME SyncTypeOK, NEW q \in pending, pending' = pending \ {q}, NEW c, NEW w
  PROVE  OnTheWay(c, w)' = OnTheWay(c, w) - (IF q.client = c /\ q.word = w THEN q.val ELSE 0)
<1> DEFINE S == pending \ {q}
<1>1. CallSet(S) /\ q \in CallRecords /\ q \notin S /\ S \cup {q} = pending
  BY FS_RemoveElement DEF SyncTypeOK, CallSet
<1>2. OnTheWay(c, w)' = Carried(S, c, w)
  BY DEF OnTheWay, Carried, Val, Sent
<1> HIDE DEF S
<1>3. Carried(S \cup {q}, c, w) =
        Carried(S, c, w) + (IF q.client = c /\ q.word = w THEN q.val ELSE 0)
  BY <1>1, CarriedAdds, SMT
<1>4. OnTheWay(c, w) = OnTheWay(c, w)' + (IF q.client = c /\ q.word = w THEN q.val ELSE 0)
  BY <1>1, <1>2, <1>3, OnTheWayIs
<1>5. OnTheWay(c, w)' \in Int /\ q.val \in Int
  BY <1>1, <1>2, CarriedType DEF CallRecords
<1> QED  BY <1>4, <1>5

-----------------------------------------------------------------------------
(***************************************************************************)
(* What a client has told, in its parts: what it owes, what it is sending, *)
(* what is half told and what is on its way.                               *)
(***************************************************************************)
LEMMA UntouchedTold ==
  ASSUME NEW d \in Clients, Untouched(d), NEW w, OnTheWay(d, w)' = OnTheWay(d, w)
  PROVE  Told(d, w)' = Told(d, w)
<1>1. \A k \in Callbacks : Heard(d, k, w)' = Heard(d, k, w)
  BY DEF Heard, Untouched, Same
<1>2. AllHeard(d, w)' = AllHeard(d, w)
  BY <1>1, HeardSame
<1> HIDE DEF AllHeard
<1>3. Unsent(d, w)' = Unsent(d, w)
  BY <1>2 DEF Unsent, AllHeard, Untouched, Same
<1> QED  BY <1>3 DEF Told, Untouched

\* What the tables say has yet to be told, and what is being sent.
Owed(c, w) == IF phase[c] = "put" /\ ind[c] <= w THEN ttc[c][w] ELSE ttc[c][w] - prev[c][w]
Sending(c, w) == IF stage[c] = "send" /\ word[c] = w THEN buf[c] ELSE 0

\* What c has told the others, or is about to.
Announced(c, w) == local[c][w] - Owed(c, w) + AllHeard(c, w)

ToldParts(c, w) ==
  /\ Told(c, w) = Announced(c, w) - Sending(c, w) - OnTheWay(c, w)
  /\ Announced(c, w) = local[c][w] - Owed(c, w) + AllHeard(c, w)
  /\ local[c][w] \in Int /\ Owed(c, w) \in Int /\ Sending(c, w) \in Int
  /\ AllHeard(c, w) \in Int /\ OnTheWay(c, w) \in Int
  /\ ttc[c][w] \in Int /\ prev[c][w] \in Int /\ buf[c] \in Int

AllParts == \A c \in Clients, w \in Entities : ToldParts(c, w)

\* Told, in its parts.
LEMMA ToldIs == SyncTypeOK => AllParts
<1> SUFFICES ASSUME SyncTypeOK, NEW c \in Clients, NEW w \in Entities PROVE ToldParts(c, w)
  BY DEF AllParts
<1>1. OnTheWay(c, w) \in Int /\ AllHeard(c, w) \in Int
  BY OnTheWayIs, CarriedType, HeardType DEF SyncTypeOK
<1>2. /\ local[c][w] \in Int /\ ttc[c][w] \in Int /\ prev[c][w] \in Int /\ buf[c] \in Int
      /\ Owed(c, w) \in Int /\ Sending(c, w) \in Int
  BY DEF SyncTypeOK, Owed, Sending
<1> QED  BY <1>1, <1>2 DEF Unsent, AllHeard, Told, Owed, Sending, Announced, ToldParts

LEMMA ToldBefore ==
  ASSUME SyncTypeOK, SyncTypeOK', NEW c \in Clients, NEW w \in Entities
  PROVE  ToldParts(c, w) /\ ToldParts(c, w)'
<1>1. SyncTypeOK' => AllParts'
  BY ToldIs, PTL
<1> QED  BY <1>1, ToldIs DEF AllParts

\* What the steps of a client do to its part of the counts.
LEMMA InitializeTold ==
  ASSUME ClientInv, SyncTypeOK, SyncTypeOK', NEW c \in Clients, Links(c), Initialize(c),
         NEW w \in Entities
  PROVE  /\ Told(c, w)' = Told(c, w) +
                          (IF PutInitial(c) /\ w = ind[c] THEN ttc[c][w] ELSE 0)
         /\ Announced(c, w)' = Announced(c, w) +
                               (IF PutInitial(c) /\ w = ind[c] THEN ttc[c][w] ELSE 0)
<1>0. ToldParts(c, w) /\ ToldParts(c, w)'
  BY ToldBefore
<1> USE <1>0 DEF ToldParts
<1>1. UNCHANGED <<clientVars, bufVars, local, pending>>
  BY DEF Initialize, PutInitial, Map!Put, Arrive, Pass, GetInitial, mapVars, tableVars
<1>2. AllHeard(c, w)' = AllHeard(c, w) /\ Sending(c, w)' = Sending(c, w)
  BY <1>1, HeardSame DEF Heard, Sending, clientVars, bufVars
<1>3. OnTheWay(c, w)' = OnTheWay(c, w)
  BY <1>1 DEF OnTheWay
<1> SUFFICES Owed(c, w)' = Owed(c, w) - (IF PutInitial(c) /\ w = ind[c] THEN ttc[c][w] ELSE 0)
  BY <1>1, <1>2, <1>3
<1>4. CASE PutInitial(c)
  <2>1. prev[c] = ttc[c] /\ phase[c] = "put"
    BY <1>4 DEF PutInitial, Links
  <2>2. /\ ttc' = ttc /\ prev' = prev
        /\ ind'[c] = (ind[c] + 1) % NumEntities
        /\ phase'[c] = IF ind[c] + 1 = NumEntities THEN "barrier" ELSE "put"
    BY <1>4 DEF PutInitial, tableVars, SyncTypeOK
  <2>3. ttc[c][w] \in Int /\ w \in Nat /\ ind[c] \in Nat /\ w < NumEntities /\ NumEntities \in Nat
        /\ ind[c] \in Entities
    BY ClientAssumption DEF Entities, SyncTypeOK
  <2>4. CASE ind[c] + 1 = NumEntities
    BY <1>4, <2>1, <2>2, <2>3, <2>4 DEF Owed
  <2>5. CASE ind[c] + 1 # NumEntities
    <3>1. ind'[c] = ind[c] + 1 /\ phase'[c] = "put"
      BY <2>2, <2>3, <2>5, NextEntity
    <3>2. ind[c] <= w <=> w = ind[c] \/ ind'[c] <= w
      BY <2>3, <3>1, NextLater
    <3>3. ttc'[c][w] = ttc[c][w] /\ prev'[c][w] = ttc[c][w] /\ prev[c][w] = ttc[c][w]
      BY <2>1, <2>2
    <3>4. w = ind[c] => ~(ind'[c] <= w)
      BY <2>3, <3>1
    <3>5. Owed(c, w)' = IF ind'[c] <= w THEN ttc[c][w] ELSE 0
      BY <2>3, <3>1, <3>3 DEF Owed
    <3>6. Owed(c, w) = IF ind[c] <= w THEN ttc[c][w] ELSE 0
      BY <2>1, <2>3, <3>3 DEF Owed
    <3> QED  BY <1>4, <2>3, <3>2, <3>4, <3>5, <3>6
  <2> QED  BY <2>4, <2>5
<1>5. CASE Arrive(c) \/ Pass(c)
  <2>1. ~PutInitial(c)
    BY <1>5 DEF PutInitial, Arrive, Pass
  <2> QED  BY <1>5, <2>1 DEF Arrive, Pass, tableVars, Owed, SyncTypeOK
<1>6. CASE GetInitial(c)
  <2> DEFINE delta == CountsOf(table, ind[c]) - ttc[c][ind[c]]
  <2>1. delta \in Int
    BY CountsType DEF SyncTypeOK
  <2>2. /\ phase[c] = "get" /\ phase'[c] # "put"
        /\ ttc'[c][w] = ttc[c][w] + (IF w = ind[c] THEN delta ELSE 0)
        /\ prev'[c][w] = prev[c][w] + (IF w = ind[c] THEN delta ELSE 0)
    BY <1>6, <2>1 DEF GetInitial, SyncTypeOK
  <2>3. ~PutInitial(c)
    BY <2>2 DEF PutInitial
  <2> HIDE DEF delta
  <2> QED  BY <2>1, <2>2, <2>3 DEF Owed
<1> QED  BY <1>4, <1>5, <1>6 DEF Initialize

LEMMA ChangeTold ==
  ASSUME SyncTypeOK, SyncTypeOK', NEW c \in Clients, NEW x \in Entities, NEW d \in {-1, 1},
         Change(c, x, d), NEW w \in Entities
  PROVE  Told(c, w)' = Told(c, w) /\ Announced(c, w)' = Announced(c, w)
<1>0. ToldParts(c, w) /\ ToldParts(c, w)'
  BY ToldBefore
<1> USE <1>0 DEF ToldParts
<1>1. UNCHANGED <<clientVars, mapVars, bufVars, prev, phase, ind>> /\ phase[c] = "run"
  BY DEF Change
<1>2. AllHeard(c, w)' = AllHeard(c, w) /\ Sending(c, w)' = Sending(c, w)
  BY <1>1, HeardSame DEF Heard, Sending, clientVars, bufVars
<1>3. OnTheWay(c, w)' = OnTheWay(c, w)
  BY <1>1 DEF OnTheWay, mapVars
<1>4. /\ local'[c][w] = local[c][w] + (IF x = w THEN d ELSE 0)
      /\ Owed(c, w)' = Owed(c, w) + (IF x = w THEN d ELSE 0)
  BY <1>1 DEF Change, SyncTypeOK, Owed
<1> QED  BY <1>2, <1>3, <1>4

LEMMA SynchronizeTold ==
  ASSUME ClientInv, SyncTypeOK, SyncTypeOK', NEW c \in Clients, Links(c), Synchronize(c),
         NEW w \in Entities
  PROVE  /\ Told(c, w)' = Told(c, w)
         /\ Announced(c, w)' =
              Announced(c, w) + (IF UpdatePrev(c) /\ word[c] = w THEN buf[c] ELSE 0)
<1>0. ToldParts(c, w) /\ ToldParts(c, w)'
  BY ToldBefore
<1> USE <1>0 DEF ToldParts
<1>1. UNCHANGED <<cb, cbBuf, cbStage, local, ttc, phase, ind>>
  BY DEF Synchronize, ReadCounts, StartEntity, SubtractOld, UpdatePrev, BeginPutNget, SendDelta,
         Send, Window, Block, SlotFree, WindowDone, EndPass, PassDone, SetAllItersDone,
         tableVars, bufVars, clientVars
<1>2. AllHeard(c, w)' = AllHeard(c, w)
  BY <1>1, HeardSame DEF Heard
<1>3. CASE ReadCounts(c) \/ SubtractOld(c)
  <2>1. /\ stage[c] # "send" /\ stage'[c] # "send" /\ UNCHANGED <<prev, pending>>
        /\ ~UpdatePrev(c)
    BY <1>3 DEF ReadCounts, StartEntity, SubtractOld, UpdatePrev, BeginPutNget, Links, Waits,
                mapVars, tableVars, SyncTypeOK
  <2>2. OnTheWay(c, w)' = OnTheWay(c, w)
    BY <2>1 DEF OnTheWay
  <2> QED  BY <1>1, <1>2, <2>1, <2>2 DEF Owed, Sending
<1>4. CASE UpdatePrev(c)
  <2>1. /\ stage[c] = "prev" /\ stage'[c] = "send" /\ word' = word /\ pending' = pending
        /\ buf' = buf
        /\ prev'[c][w] = prev[c][w] + (IF word[c] = w THEN buf[c] ELSE 0)
    BY <1>4 DEF UpdatePrev, BeginPutNget, mapVars, SyncTypeOK
  <2>2. phase[c] # "put"
    BY <1>4 DEF UpdatePrev, BeginPutNget, Links
  <2>3. OnTheWay(c, w)' = OnTheWay(c, w)
    BY <2>1 DEF OnTheWay
  <2>4. /\ Owed(c, w)' = Owed(c, w) - (IF word[c] = w THEN buf[c] ELSE 0)
        /\ Sending(c, w) = 0 /\ Sending(c, w)' = IF word[c] = w THEN buf[c] ELSE 0
    BY <1>1, <2>1, <2>2 DEF Owed, Sending
  <2> QED  BY <1>1, <1>2, <1>4, <2>3, <2>4
<1>5. CASE SendDelta(c)
  <2> DEFINE q == [client |-> c, word |-> word[c], id |-> cur[c], val |-> buf[c]]
  <2>1. q \in CallRecords /\ q.client = c /\ q.word = word[c] /\ q.val = buf[c]
    BY <1>5, WordType DEF SendDelta, Send, CallRecords, SyncTypeOK
  <2>2. q \notin pending /\ pending' = pending \cup {q} /\ prev' = prev
    BY <1>5 DEF SendDelta, Map!Invoke, tableVars
  <2>3. stage[c] = "send" /\ stage'[c] = "idle" /\ ~UpdatePrev(c)
    BY <1>5 DEF UpdatePrev, SendDelta, Send, Links, SyncTypeOK
  <2> HIDE DEF q
  <2>4. OnTheWay(c, w)' = OnTheWay(c, w) + (IF word[c] = w THEN buf[c] ELSE 0)
    BY <2>1, <2>2, CallInvoked
  <2>5. /\ Sending(c, w) = (IF word[c] = w THEN buf[c] ELSE 0) /\ Sending(c, w)' = 0
        /\ Owed(c, w)' = Owed(c, w)
    BY <1>1, <2>2, <2>3 DEF Owed, Sending
  <2>6. Announced(c, w)' = Announced(c, w) /\ Announced(c, w) \in Int
    BY <1>1, <1>2, <2>5
  <2> HIDE DEF Announced
  <2>7. Told(c, w)' = Told(c, w)
    BY <2>4, <2>5, <2>6
  <2> QED  BY <2>3, <2>6, <2>7
<1>6. CASE Window(c)
  <2>1. UNCHANGED <<prev, pending, buf, stage>>
    BY <1>6 DEF Window, mapVars, tableVars, bufVars
  <2>2. stage[c] = "send" => word'[c] = word[c]
    BY <1>6 DEF Window, Block, SlotFree, WaitEnds, WindowDone, EndPass, PassDone,
                SetAllItersDone, Links, Waits
  <2>3. OnTheWay(c, w)' = OnTheWay(c, w)
    BY <2>1 DEF OnTheWay
  <2>4. ~UpdatePrev(c)
    BY <2>1 DEF UpdatePrev, SyncTypeOK
  <2> QED  BY <2>4, <1>1, <1>2, <2>1, <2>2, <2>3 DEF Owed, Sending
<1> QED  BY <1>3, <1>4, <1>5, <1>6 DEF Synchronize

LEMMA EndPutNgetTold ==
  ASSUME ClientInv, SyncTypeOK, SyncTypeOK', NEW c \in Clients, Links(c), NEW k \in Callbacks,
         EndPutNget(c, k), NEW w \in Entities
  PROVE  Told(c, w)' = Told(c, w) /\ Announced(c, w)' = Announced(c, w)
<1>0. ToldParts(c, w) /\ ToldParts(c, w)'
  BY ToldBefore
<1> USE <1>0 DEF ToldParts
<1>1. UNCHANGED <<local, phase, ind, buf, stage, word, pending>>
  BY DEF EndPutNget, BeginEnd, Map!Receive, StartCallback, EndSubtractOld, EndUpdateTtc,
         EndUpdatePrev, FinishCallback, tableVars, clientVars, mapVars
<1>2. Sending(c, w)' = Sending(c, w) /\ OnTheWay(c, w)' = OnTheWay(c, w)
  BY <1>1 DEF Sending, OnTheWay
<1>3. phase[c] = "run"
  <2>1. cb[c][k] # NoMsg \/ flying[c] # {}
    BY DEF EndPutNget, BeginEnd, StartCallback, EndSubtractOld, EndUpdateTtc, EndUpdatePrev,
           Links
  <2> QED  BY <2>1, NothingUnended
<1>4. \A j \in Callbacks \ {k} : Heard(c, j, w)' = Heard(c, j, w)
  <2>1. \A j \in Callbacks \ {k} : /\ cb'[c][j] = cb[c][j] /\ cbBuf'[c][j] = cbBuf[c][j]
                                   /\ cbStage'[c][j] = cbStage[c][j]
    <3> USE DEF SyncTypeOK, ClientInv, ClientTypeOK
    <3>1. CASE \E a \in answers : BeginEnd(c, k, a)
      BY <3>1 DEF BeginEnd, StartCallback
    <3>2. CASE EndSubtractOld(c, k) \/ EndUpdateTtc(c, k)
      BY <3>2 DEF EndSubtractOld, EndUpdateTtc, clientVars
    <3>3. CASE EndUpdatePrev(c, k)
      BY <3>3 DEF EndUpdatePrev, FinishCallback
    <3> QED  BY <3>1, <3>2, <3>3 DEF EndPutNget
  <2> QED  BY <2>1 DEF Heard
<1>5. AllHeard(c, w)' = AllHeard(c, w) + Heard(c, k, w)' - Heard(c, k, w)
  BY <1>4, HeardChange
<1>6. Heard(c, k, w) \in Int /\ Heard(c, k, w)' \in Int
  BY DEF SyncTypeOK, Heard
<1>7. CASE \E a \in answers : BeginEnd(c, k, a)
  <2>1. Heard(c, k, w) = 0 /\ Heard(c, k, w)' = 0 /\ UNCHANGED <<ttc, prev>>
    BY <1>7 DEF BeginEnd, StartCallback, Heard, Links, SyncTypeOK, tableVars
  <2> QED  BY <1>1, <1>2, <1>3, <1>5, <2>1 DEF Owed
<1>8. CASE EndSubtractOld(c, k)
  <2>1. Heard(c, k, w) = 0 /\ Heard(c, k, w)' = 0 /\ UNCHANGED <<ttc, prev>>
    BY <1>8 DEF EndSubtractOld, Heard, SyncTypeOK, tableVars
  <2> QED  BY <1>1, <1>2, <1>3, <1>5, <2>1 DEF Owed
<1>9. CASE EndUpdateTtc(c, k)
  <2>1. /\ prev' = prev
        /\ ttc'[c][w] = ttc[c][w] + (IF cb[c][k].entity = w THEN cbBuf[c][k] ELSE 0)
        /\ Heard(c, k, w) = 0
        /\ Heard(c, k, w)' = IF cb[c][k].entity = w THEN cbBuf[c][k] ELSE 0
    BY <1>9 DEF EndUpdateTtc, Heard, SyncTypeOK, clientVars
  <2> QED  BY <1>1, <1>2, <1>3, <1>5, <1>6, <2>1 DEF Owed
<1>10. CASE EndUpdatePrev(c, k)
  <2>1. /\ ttc' = ttc
        /\ prev'[c][w] = prev[c][w] + (IF cb[c][k].entity = w THEN cbBuf[c][k] ELSE 0)
        /\ Heard(c, k, w)' = 0
        /\ Heard(c, k, w) = IF cb[c][k].entity = w THEN cbBuf[c][k] ELSE 0
    BY <1>10 DEF EndUpdatePrev, Heard, SyncTypeOK
  <2> QED  BY <1>1, <1>2, <1>3, <1>5, <1>6, <2>1 DEF Owed
<1> QED  BY <1>7, <1>8, <1>9, <1>10 DEF EndPutNget

-----------------------------------------------------------------------------
(***************************************************************************)
(* Every step changes what the clients have told and the map alike.        *)
(***************************************************************************)
\* What each client has told the map of a word.
Parts(w) == [c \in Clients |-> Told(c, w)]

LEMMA PartsType == SyncTypeOK => \A w \in Entities : Parts(w) \in [Clients -> Int]
<1> SUFFICES ASSUME SyncTypeOK, NEW w \in Entities, NEW c \in Clients PROVE Told(c, w) \in Int
  BY DEF Parts
<1> QED  BY ToldIs DEF AllParts, ToldParts

\* A step moves what one client has told of a word, and the map's entry with it.
LEMMA TokensMove ==
  ASSUME SyncTypeOK, SyncTypeOK', TokensConserved, NEW c \in Clients, NEW x \in Entities,
         NEW v \in Int, table' = Accumulated(table, x, v),
         \A d \in Clients, w \in Entities :
           Told(d, w)' = Told(d, w) + (IF d = c /\ w = x THEN v ELSE 0)
  PROVE  TokensConserved'
<1> SUFFICES ASSUME NEW w \in Entities
             PROVE  CountsOf(table', w) = SumFunction(Parts(w)')
  BY DEF TokensConserved, Parts
<1>1. Parts(w) \in [Clients -> Int]
  BY PartsType
<1>2. Parts(w)' \in [Clients -> Int]
  <2>1. ASSUME NEW d \in Clients PROVE Told(d, w)' \in Int
    BY ToldBefore DEF ToldParts
  <2> QED  BY <2>1 DEF Parts
<1>3. \A d \in Clients : d # c => Parts(w)'[d] = Parts(w)[d]
  BY <1>1 DEF Parts
<1>4. SumFunction(Parts(w)') = SumFunction(Parts(w)) + Parts(w)'[c] - Parts(w)[c]
  BY <1>1, <1>2, <1>3, TotalChange, SyncAssumption
<1>5. Parts(w)'[c] = Parts(w)[c] + (IF w = x THEN v ELSE 0)
  BY DEF Parts
<1>6. CountsOf(table', w) = CountsOf(table, w) + (IF w = x THEN v ELSE 0)
  <2>1. IsTable(table)
    BY DEF SyncTypeOK
  <2>2. CountsOf(Accumulated(table, x, v), w) =
          IF w = x THEN CountsOf(table, x) + v ELSE CountsOf(table, w)
    BY <2>1, TableAdds
  <2>3. CountsOf(table, w) \in Int
    BY <2>1, CountsType
  <2> QED  BY <2>2, <2>3
<1>7. CountsOf(table, w) = SumFunction(Parts(w))
  BY DEF TokensConserved, Parts
<1>8. SumFunction(Parts(w)) \in Int /\ Parts(w)[c] \in Int
  BY <1>1, TotalInt, SyncAssumption
<1> QED  BY <1>4, <1>5, <1>6, <1>7, <1>8

\* A step that moves nothing keeps the sums equal.
LEMMA TokensStay ==
  ASSUME TokensConserved, table' = table, SyncTypeOK, 
         \A d \in Clients, w \in Entities : Told(d, w)' = Told(d, w)
  PROVE  TokensConserved'
<1> SUFFICES ASSUME NEW w \in Entities
             PROVE  CountsOf(table, w) = SumFunction(Parts(w)')
  BY DEF TokensConserved, Parts
<1>1. Parts(w)' = Parts(w)
  BY DEF Parts
<1> QED  BY <1>1 DEF TokensConserved, Parts

\* The steps of the others leave what a client has told as it is.
LEMMA OthersTold ==
  ASSUME ClientInv, SyncTypeOK, SyncTypeOK', LinksInv, NEW c \in Clients, Act(c),
         NEW d \in Clients \ {c}, NEW w \in Entities
  PROVE  Told(d, w)' = Told(d, w)
<1>1. Untouched(d)
  BY OthersUntouched DEF ClientInv
<1>2. OnTheWay(d, w)' = OnTheWay(d, w)
  <2>1. CASE pending' = pending
    BY <2>1 DEF OnTheWay
  <2>2. CASE SendDelta(c)
    <3> DEFINE q == [client |-> c, word |-> word[c], id |-> cur[c], val |-> buf[c]]
    <3>1. q \in CallRecords /\ q.client = c
      BY <2>2, WordType DEF SendDelta, Send, CallRecords, SyncTypeOK
    <3>2. q \notin pending /\ pending' = pending \cup {q}
      BY <2>2 DEF SendDelta, Map!Invoke
    <3> HIDE DEF q
    <3>3. OnTheWay(d, w)' = OnTheWay(d, w) + (IF q.client = d /\ q.word = w THEN q.val ELSE 0)
      BY <3>1, <3>2, CallInvoked
    <3>4. OnTheWay(d, w) \in Int
      BY ToldIs DEF AllParts, ToldParts
    <3> QED  BY <3>1, <3>3, <3>4
  <2> QED  BY <2>1, <2>2 DEF Act, Initialize, PutInitial, Map!Put, Arrive, Pass, GetInitial, Change,
              Synchronize, ReadCounts, SubtractOld, UpdatePrev, Window, EndPutNget, BeginEnd,
              Map!Receive, EndSubtractOld, EndUpdateTtc, EndUpdatePrev, mapVars
<1> QED  BY <1>1, <1>2, UntouchedTold

\* Serving a call tells the map its delta.
LEMMA ServeTold ==
  ASSUME SyncTypeOK, SyncTypeOK', NEW call \in pending, Serve(call), NEW d \in Clients,
         NEW w \in Entities
  PROVE  Told(d, w)' = Told(d, w) + (IF call.client = d /\ call.word = w THEN call.val ELSE 0)
<1>1. UNCHANGED <<clientVars, local, ttc, prev, phase, ind, bufVars>> /\ pending' = pending \ {call}
  BY DEF Serve, Map!Combine, tableVars
<1>2. OnTheWay(d, w)' = OnTheWay(d, w) - (IF call.client = d /\ call.word = w THEN call.val ELSE 0)
  BY <1>1, CallServed
<1>3. call.val \in Int
  BY DEF SyncTypeOK, CallSet, CallRecords
<1>4. AllHeard(d, w)' = AllHeard(d, w) /\ Owed(d, w)' = Owed(d, w) /\ Sending(d, w)' = Sending(d, w)
  BY <1>1, HeardSame DEF Heard, Owed, Sending, clientVars, bufVars
<1>5. ToldParts(d, w) /\ ToldParts(d, w)'
  BY ToldBefore
<1> QED  BY <1>1, <1>2, <1>3, <1>4, <1>5 DEF ToldParts

\* Every step keeps the map at what the clients have told it.
LEMMA TokensStep ==
  ASSUME ClientInv, SyncTypeOK, SyncTypeOK', LinksInv, TokensConserved, Next
  PROVE  TokensConserved'
<1>1. ASSUME NEW c \in Clients, PutInitial(c) PROVE TokensConserved'
  <2>1. Act(c)
    BY <1>1 DEF Act, Initialize
  <2>2. table' = Accumulated(table, ind[c], ttc[c][ind[c]])
    BY <1>1, SameTable DEF PutInitial, Map!Put
  <2>3. ind[c] \in Entities /\ ttc[c][ind[c]] \in Int
    BY DEF SyncTypeOK
  <2>4. ASSUME NEW d \in Clients, NEW w \in Entities
        PROVE  Told(d, w)' = Told(d, w) + (IF d = c /\ w = ind[c] THEN ttc[c][ind[c]] ELSE 0)
    <3>1. Told(d, w) \in Int
      BY PartsType DEF Parts
    <3>2. d # c => Told(d, w)' = Told(d, w)
      BY <2>1, OthersTold
    <3>3. Told(c, w)' = Told(c, w) + (IF w = ind[c] THEN ttc[c][w] ELSE 0)
      BY <1>1, InitializeTold DEF Initialize, LinksInv
    <3> QED  BY <3>1, <3>2, <3>3
  <2> QED  BY <2>2, <2>3, <2>4, TokensMove
<1>2. ASSUME NEW c \in Clients, Act(c), ~PutInitial(c) PROVE TokensConserved'
  <2>1. table' = table
    BY <1>2 DEF Act, Initialize, Arrive, Pass, GetInitial, Change, Synchronize, ReadCounts,
          SubtractOld, UpdatePrev, SendDelta, Map!Invoke, Window, EndPutNget, BeginEnd, Map!Receive,
          EndSubtractOld, EndUpdateTtc, EndUpdatePrev, mapVars
  <2>2. ASSUME NEW w \in Entities PROVE Told(c, w)' = Told(c, w)
    <3>1. Initialize(c) => Told(c, w)' = Told(c, w)
      <4>1. Told(c, w) \in Int
        BY PartsType DEF Parts
      <4> QED  BY <1>2, <4>1, InitializeTold DEF LinksInv
    <3> QED  BY <1>2, <3>1, ChangeTold, SynchronizeTold, EndPutNgetTold DEF Act, LinksInv
  <2> QED  BY <1>2, <2>1, <2>2, OthersTold, TokensStay
<1>3. ASSUME NEW call \in pending, Serve(call) PROVE TokensConserved'
  <2>1. table' = Accumulated(table, call.word, call.val)
    BY <1>3, SameTable DEF Serve, Map!Combine
  <2>2. call.client \in Clients /\ call.word \in Entities /\ call.val \in Int
    BY DEF SyncTypeOK, CallSet, CallRecords
  <2> QED  BY <1>3, <2>1, <2>2, ServeTold, TokensMove
<1> QED  BY <1>1, <1>2, <1>3, NextActs

-----------------------------------------------------------------------------
(***************************************************************************)
(* The barrier of initialize() is used once: the clients that have come to *)
(* it are those whose calls wait, until the last one has all of them       *)
(* answered.                                                               *)
(***************************************************************************)
BarrierOK ==
  /\ arrived \in [Clients -> Nat] /\ released \in [Clients -> Nat]
  /\ cbs \subseteq Clients /\ clientsDone = Cardinality(cbs)
  /\ \/ \A c \in Clients : released[c] = 0 /\ arrived[c] = (IF c \in cbs THEN 1 ELSE 0)
     \/ cbs = {} /\ \A c \in Clients : released[c] = 1 /\ arrived[c] = 1

\* The instance of the barrier counts its clients as this module does.
LEMMA SameCardinality ==
  \A S : Barrier!Cardinality(S) = Cardinality(S)
BY Zenon DEF Cardinality, Barrier!Cardinality

LEMMA BarrierStarts == Barrier!BarrierInit => BarrierOK
BY FS_EmptySet DEF Barrier!BarrierInit, BarrierOK

LEMMA BarrierStays ==
  ASSUME BarrierOK,
         \/ \E c \in Clients : arrived[c] = 0 /\ Barrier!WaitForAllClients(c)
         \/ UNCHANGED barrierVars
  PROVE  BarrierOK'
<1>1. ASSUME NEW c \in Clients, arrived[c] = 0, Barrier!WaitForAllClients(c)
      PROVE  BarrierOK'
  <2>1. /\ IsFiniteSet(Clients) /\ IsFiniteSet(cbs) /\ c \notin cbs
        /\ Cardinality(cbs) \in Nat /\ Cardinality(Clients) \in Nat
    BY <1>1, SyncAssumption, FS_Subset, FS_CardinalityType
       DEF BarrierOK, Barrier!WaitForAllClients
  <2>2. Cardinality(cbs \cup {c}) = Cardinality(cbs) + 1 /\ cbs \cup {c} \in SUBSET Clients
    BY <2>1, FS_AddElement DEF BarrierOK
  <2>3. \A d \in Clients : released[d] = 0 /\ arrived[d] = (IF d \in cbs THEN 1 ELSE 0)
    BY <1>1 DEF BarrierOK
  <2>4. /\ DOMAIN arrived' = Clients /\ arrived' = [arrived EXCEPT ![c] = @ + 1]
        /\ \A d \in Clients : arrived'[d] = (IF d \in cbs \cup {c} THEN 1 ELSE 0)
    BY <1>1, <2>1, <2>3 DEF BarrierOK, Barrier!WaitForAllClients
  <2>5. CASE clientsDone + 1 = Cardinality(Clients)
    <3>1. cbs \cup {c} = Clients
      BY <2>1, <2>2, <2>5, FS_Subset DEF BarrierOK
    <3>2. /\ clientsDone' = 0 /\ cbs' = {}
          /\ released' = [d \in Clients |->
                            IF d \in cbs \cup {c} THEN released[d] + 1 ELSE released[d]]
      BY <1>1, <2>5, SameCardinality DEF Barrier!WaitForAllClients, Barrier!LastCall
    <3>3. \A d \in Clients : released'[d] = 1 /\ arrived'[d] = 1
      BY <2>3, <2>4, <3>1, <3>2
    <3> QED  BY <2>4, <3>2, <3>3, FS_EmptySet DEF BarrierOK
  <2>6. CASE clientsDone + 1 # Cardinality(Clients)
    <3>1. clientsDone' = clientsDone + 1 /\ cbs' = cbs \cup {c} /\ released' = released
      BY <1>1, <2>6, SameCardinality DEF Barrier!WaitForAllClients, Barrier!LastCall
    <3> QED  BY <2>2, <2>3, <2>4, <3>1 DEF BarrierOK
  <2> QED  BY <2>5, <2>6
<1>2. ASSUME UNCHANGED barrierVars PROVE BarrierOK'
  BY <1>2 DEF BarrierOK, barrierVars
<1> QED  BY <1>1, <1>2

\* Nobody is released before everybody has arrived.
LEMMA BarrierFacts ==
  ASSUME BarrierOK
  PROVE  /\ arrived \in [Clients -> Nat] /\ released \in [Clients -> Nat]
         /\ \A c, d \in Clients : released[c] <= arrived[d]
BY DEF BarrierOK

\* Nobody waits at the barrier before it has put its counts, or fetches before
\* the barrier has let it.
Met ==
  \A c \in Clients :
    /\ phase[c] = "put" => arrived[c] = 0
    /\ phase[c] \in {"get", "run"} => released[c] > 0

\* When one client fetches, nobody has counts left to put.
LEMMA AllHavePut ==
  ASSUME BarrierOK, Met, NEW c \in Clients, phase[c] \in {"get", "run"}, NEW d \in Clients
  PROVE  phase[d] # "put"
<1>1. released[c] > 0 /\ released[c] <= arrived[d]
  BY BarrierFacts DEF Met
<1>2. released[c] \in Nat /\ arrived[d] \in Nat
  BY BarrierFacts
<1> QED  BY <1>1, <1>2 DEF Met

\* Every step keeps the barrier and who has met there.
LEMMA MetStep ==
  ASSUME BarrierOK, Met, SyncTypeOK, Next
  PROVE  BarrierOK' /\ Met'
<1>0. /\ arrived \in [Clients -> Nat] /\ released \in [Clients -> Nat]
      /\ phase \in [Clients -> {"put", "barrier", "get", "run"}]
      /\ \A d \in Clients : /\ phase[d] = "put" => arrived[d] = 0
                           /\ phase[d] \in {"get", "run"} => released[d] > 0
  BY BarrierFacts DEF SyncTypeOK, Met
<1> USE DEF Met
<1>1. ASSUME NEW c \in Clients, PutInitial(c) PROVE BarrierOK' /\ Met'
  <2>1. BarrierOK'
    BY <1>1, BarrierStays DEF PutInitial
  <2> QED  BY <1>0, <1>1, <2>1 DEF PutInitial, barrierVars
<1>2. ASSUME NEW c \in Clients, Arrive(c) PROVE BarrierOK' /\ Met'
  <2>1. BarrierOK'
    BY <1>2, BarrierStays DEF Arrive
  <2>2. \A d \in Clients : /\ released'[d] = released[d] \/ released'[d] = released[d] + 1
                           /\ d # c => arrived'[d] = arrived[d]
    BY <1>2 DEF Arrive, Barrier!WaitForAllClients
  <2>3. phase' = phase /\ phase[c] = "barrier"
    BY <1>2 DEF Arrive
  <2>4. ASSUME NEW d \in Clients
        PROVE  /\ phase'[d] = "put" => arrived'[d] = 0
               /\ phase'[d] \in {"get", "run"} => released'[d] > 0
    <3>1. released[d] \in Nat
      BY <1>0
    <3> QED  BY <1>0, <2>2, <2>3, <3>1
  <2> QED  BY <2>1, <2>4
<1>3. ASSUME NEW c \in Clients, Pass(c) PROVE BarrierOK' /\ Met'
  <2>1. BarrierOK'
    BY <1>3, BarrierStays DEF Pass
  <2> QED  BY <1>0, <1>3, <2>1 DEF Pass, barrierVars
<1>4. ASSUME NEW c \in Clients, GetInitial(c) PROVE BarrierOK' /\ Met'
  <2>1. BarrierOK'
    BY <1>4, BarrierStays DEF GetInitial
  <2>2. /\ phase[c] = "get"
        /\ \A d \in Clients \ {c} : phase'[d] = phase[d]
        /\ phase'[c] \in {"get", "run"} /\ UNCHANGED <<arrived, released>>
    BY <1>0, <1>4 DEF GetInitial, barrierVars
  <2>3. ASSUME NEW d \in Clients
        PROVE  /\ phase'[d] = "put" => arrived'[d] = 0
               /\ phase'[d] \in {"get", "run"} => released'[d] > 0
    BY <1>0, <2>2
  <2> QED  BY <2>1, <2>3
<1>5. CASE UNCHANGED <<barrierVars, phase>>
  <2>1. BarrierOK'
    BY <1>5, BarrierStays
  <2> QED  BY <1>0, <1>5, <2>1 DEF barrierVars
<1>6. ASSUME NEW c \in Clients, Synchronize(c) PROVE UNCHANGED <<barrierVars, phase>>
  BY <1>6 DEF Synchronize, ReadCounts, SubtractOld, UpdatePrev, SendDelta, Window
<1>7. ASSUME NEW c \in Clients, NEW k \in Callbacks, EndPutNget(c, k)
      PROVE  UNCHANGED <<barrierVars, phase>>
  BY <1>7 DEF EndPutNget, BeginEnd, EndSubtractOld, EndUpdateTtc, EndUpdatePrev
<1>8. ASSUME NEW c, NEW w, NEW d, Change(c, w, d) PROVE UNCHANGED <<barrierVars, phase>>
  BY <1>8 DEF Change
<1>9. ASSUME NEW call \in pending, Serve(call) PROVE UNCHANGED <<barrierVars, phase>>
  BY <1>9 DEF Serve
<1> QED  BY <1>1, <1>2, <1>3, <1>4, <1>5, <1>6, <1>7, <1>8, <1>9 DEF Next, Initialize

-----------------------------------------------------------------------------
(***************************************************************************)
(* Calls and answers are the messages in flight of the window.             *)
(***************************************************************************)
\* The message of a call, and calls that are the same message.
Msg(p) == [entity |-> p.word, id |-> p.id]

SameMsg(p, q) == p.client = q.client /\ p.word = q.word /\ p.id = q.id

\* A message in flight is a call or an answer, not both, and once.
CallsInFlight ==
  /\ \A p \in pending : Msg(p) \in flying[p.client]
  /\ \A a \in answers : Msg(a.call) \in flying[a.call.client]
  /\ \A p, q \in pending : SameMsg(p, q) => p = q
  /\ \A p \in pending, a \in answers : ~SameMsg(p, a.call)
  /\ \A a, b \in answers : SameMsg(a.call, b.call) => a = b

\* Every step keeps the calls and the messages in flight together.
LEMMA CallsStep ==
  ASSUME ClientInv, SyncTypeOK, CallsInFlight, Next
  PROVE  CallsInFlight'
<1>0. /\ \A p \in pending : p \in CallRecords
      /\ \A a \in answers : a.call \in CallRecords /\ a \in [call : CallRecords, counts : Int]
      /\ flying \in [Clients -> SUBSET Msgs]
  BY DEF SyncTypeOK, CallSet, ClientInv, ClientTypeOK
<1>1. ASSUME NEW c \in Clients, SendDelta(c) PROVE CallsInFlight'
  <2> DEFINE q == [client |-> c, word |-> word[c], id |-> cur[c], val |-> buf[c]]
  <2>1. /\ q \in CallRecords /\ q.client = c /\ q.id = cur[c]
        /\ Msg(q) = [entity |-> word[c], id |-> cur[c]]
    BY <1>1, WordType DEF SendDelta, Send, CallRecords, SyncTypeOK, Msg
  <2>2. /\ pending' = pending \cup {q} /\ answers' = answers
        /\ flying' = [flying EXCEPT ![c] = @ \cup {Msg(q)}]
    BY <1>1, <2>1 DEF SendDelta, Send, Map!Invoke
  <2>3. \A m \in flying[c] : m.id # cur[c]
    <3>1. status[c][cur[c]] /\ cur[c] \in Ids
      BY <1>1, WordType DEF SendDelta, Send, ClientInv, SlotInv, Position
    <3>2. \A m \in Unended(c) : m.id # cur[c]
      BY <3>1 DEF ClientInv, SlotInv, SlotStatus
    <3> QED  BY <3>2 DEF Unended
  <2> HIDE DEF q
  <2>4. \A a \in answers : ~SameMsg(q, a.call)
    <3> SUFFICES ASSUME NEW a \in answers, SameMsg(q, a.call) PROVE FALSE
      OBVIOUS
    <3>1. Msg(a.call) \in flying[c] /\ Msg(a.call).id = cur[c]
      BY <2>1 DEF CallsInFlight, SameMsg, Msg
    <3> QED  BY <2>3, <3>1
  <2>5. \A p \in pending : ~SameMsg(q, p) /\ ~SameMsg(p, q)
    <3> SUFFICES ASSUME NEW p \in pending, SameMsg(q, p) PROVE FALSE
      BY DEF SameMsg
    <3>1. Msg(p) \in flying[c] /\ Msg(p).id = cur[c]
      BY <2>1 DEF CallsInFlight, SameMsg, Msg
    <3> QED  BY <2>3, <3>1
  <2>6. \A p, r \in pending' : SameMsg(p, r) => p = r
    BY <2>2, <2>5 DEF CallsInFlight
  <2>7. \A d \in Clients : flying[d] \subseteq flying'[d]
    BY <1>0, <2>2
  <2>8. Msg(q) \in flying'[q.client]
    BY <1>0, <2>1, <2>2
  <2>9. \A p \in pending' : Msg(p) \in flying'[p.client]
    BY <1>0, <2>2, <2>7, <2>8 DEF CallsInFlight, CallRecords
  <2>10. \A a \in answers' : Msg(a.call) \in flying'[a.call.client]
    BY <1>0, <2>2, <2>7 DEF CallsInFlight, CallRecords
  <2>11. \A p \in pending', a \in answers' : ~SameMsg(p, a.call)
    BY <2>2, <2>4 DEF CallsInFlight
  <2>12. \A a, b \in answers' : SameMsg(a.call, b.call) => a = b
    BY <2>2 DEF CallsInFlight
  <2> QED  BY <2>9, <2>10, <2>11, <2>12, <2>6 DEF CallsInFlight
<1>2. ASSUME NEW call \in pending, Serve(call) PROVE CallsInFlight'
  <2> DEFINE b == [call |-> call, counts |-> table'[call.word]]
  <2>1. /\ pending' = pending \ {call} /\ answers' = answers \cup {b} /\ flying' = flying
    BY <1>2 DEF Serve, Map!Combine, clientVars
  <2>2. b.call = call
    OBVIOUS
  <2> HIDE DEF b
  <2>3. \A a \in answers' : Msg(a.call) \in flying'[a.call.client]
    BY <2>1, <2>2 DEF CallsInFlight
  <2>4. \A p \in pending' : ~SameMsg(p, call)
    BY <2>1 DEF CallsInFlight
  <2>5. \A p \in pending', a \in answers' : ~SameMsg(p, a.call)
    BY <2>1, <2>2, <2>4 DEF CallsInFlight
  <2>6. \A a \in answers : ~SameMsg(a.call, call) /\ ~SameMsg(call, a.call)
    BY DEF CallsInFlight, SameMsg
  <2>7. \A a, e \in answers' : SameMsg(a.call, e.call) => a = e
    BY <2>1, <2>2, <2>6 DEF CallsInFlight
  <2>8. \A p, r \in pending' : SameMsg(p, r) => p = r
    BY <2>1 DEF CallsInFlight
  <2> QED  BY <2>1, <2>3, <2>5, <2>7, <2>8 DEF CallsInFlight
<1>3. ASSUME NEW c \in Clients, NEW k \in Callbacks, NEW a \in answers, BeginEnd(c, k, a)
      PROVE  CallsInFlight'
  <2>1. /\ a.call.client = c /\ answers' = answers \ {a} /\ pending' = pending
        /\ flying' = [flying EXCEPT ![c] = @ \ {Msg(a.call)}]
    BY <1>3 DEF BeginEnd, StartCallback, Map!Receive, Msg
  <2>2. ASSUME NEW p, p.client = c, Msg(p) = Msg(a.call) PROVE SameMsg(p, a.call)
    BY <2>1, <2>2 DEF SameMsg, Msg
  <2>3. \A p \in pending : Msg(p) \in flying'[p.client]
    BY <1>0, <2>1, <2>2 DEF CallsInFlight, CallRecords
  <2>4. \A b \in answers' : Msg(b.call) \in flying'[b.call.client]
    BY <1>0, <2>1, <2>2 DEF CallsInFlight, CallRecords
  <2> QED  BY <2>1, <2>3, <2>4 DEF CallsInFlight
<1>4. CASE UNCHANGED <<flying, pending, answers>>
  BY <1>4 DEF CallsInFlight
<1>5. ASSUME NEW c \in Clients, Window(c) PROVE UNCHANGED <<flying, pending, answers>>
  BY <1>5 DEF Window, Block, SlotFree, WindowDone, EndPass, PassDone, SetAllItersDone, mapVars
<1> QED  BY <1>1, <1>2, <1>3, <1>4, <1>5 DEF Next, Initialize, PutInitial, Map!Put, Arrive, Pass,
            GetInitial, Change, Synchronize, ReadCounts, StartEntity, SubtractOld, UpdatePrev,
            BeginPutNget, EndPutNget, EndSubtractOld, EndUpdateTtc, EndUpdatePrev, FinishCallback,
            clientVars, mapVars

-----------------------------------------------------------------------------
(***************************************************************************)
(* While the sampler has not moved a token, all that the learners exchange *)
(* are the initial counts, and nothing.                                    *)
(***************************************************************************)
InitialTotal(w) == SumFunction([d \in Clients |-> InitialCount[d][w]])

\* The tables of a client while no topic has changed.
QuietTables(c) ==
  \A w \in Entities :
    /\ prev[c][w] = ttc[c][w]
    /\ ttc[c][w] = IF Fetched(c, w) THEN InitialTotal(w) ELSE InitialCount[c][w]

\* What its threads work on then.
QuietThreads(c) ==
  /\ stage[c] = "old" => buf[c] = InitialTotal(word[c])
  /\ stage[c] \in {"prev", "send"} => buf[c] = 0
  /\ \A k \in Callbacks :
       /\ cbStage[c][k] = "old" => cbBuf[c][k] = InitialTotal(cb[c][k].entity)
       /\ cbStage[c][k] \in {"ttc", "prev"} => cbBuf[c][k] = 0

QuietCalls ==
  /\ \A p \in pending : p.val = 0
  /\ \A a \in answers : a.counts = InitialTotal(a.call.word)

\* While no topic has changed, all that is exchanged are the initial counts.
QuietState ==
  /\ local = InitialCount
  /\ \A c \in Clients : QuietTables(c) /\ QuietThreads(c)
  /\ QuietCalls

Quiet == changes = 0 => QuietState

LEMMA InitialTotalType ==
  ASSUME NEW w \in Entities PROVE InitialTotal(w) \in Int
<1>1. [d \in Clients |-> InitialCount[d][w]] \in [Clients -> Int]
  BY SyncAssumption
<1> QED  BY <1>1, TotalInt, SyncAssumption DEF InitialTotal

\* Once everybody has put, the map holds the initial counts of all.
LEMMA QuietTable ==
  ASSUME SyncTypeOK, LinksInv, BarrierOK, Met, TokensConserved, QuietState, changes = 0,
         NEW c \in Clients, phase[c] \in {"get", "run"}, NEW w \in Entities
  PROVE  CountsOf(table, w) = InitialTotal(w)
<1>1. ASSUME NEW d \in Clients PROVE Told(d, w) = InitialCount[d][w]
  <2>1. ToldParts(d, w)
    BY ToldIs DEF AllParts
  <2>2. Owed(d, w) = 0
    <3>1. phase[d] # "put" /\ prev[d][w] = ttc[d][w]
      BY AllHavePut DEF QuietState, QuietTables
    <3> QED  BY <2>1, <3>1 DEF Owed, ToldParts
  <2>3. Sending(d, w) = 0
    BY DEF Sending, QuietState, QuietThreads
  <2>4. AllHeard(d, w) = 0
    <3> DEFINE f == [k \in Callbacks |-> Heard(d, k, w)]
    <3>1. DOMAIN f = Callbacks /\ \A k \in Callbacks : f[k] = 0
      BY DEF Heard, QuietState, QuietThreads
    <3> HIDE DEF f
    <3>2. SumFunction(f) = 0
      BY <3>1, TotalZero, SyncAssumption
    <3> QED  BY <3>2 DEF f, AllHeard
  <2>5. OnTheWay(d, w) = 0
    BY OnTheWayIs, CarriedNothing DEF QuietState, QuietCalls, SyncTypeOK, CallSet
  <2>6. local[d][w] = InitialCount[d][w]
    BY DEF QuietState
  <2> QED  BY <2>1, <2>2, <2>3, <2>4, <2>5, <2>6 DEF ToldParts
<1>2. [d \in Clients |-> Told(d, w)] = [d \in Clients |-> InitialCount[d][w]]
  BY <1>1
<1> QED  BY <1>2 DEF TokensConserved, InitialTotal

\* What the steps of a quiet state rely on.
QuietInv == SyncTypeOK /\ LinksInv /\ BarrierOK /\ Met /\ TokensConserved /\ CallsInFlight

LEMMA UntouchedQuiet ==
  ASSUME NEW d \in Clients, Untouched(d), QuietTables(d), QuietThreads(d)
  PROVE  QuietTables(d)' /\ QuietThreads(d)'
BY DEF Untouched, Same, QuietTables, QuietThreads, Fetched

LEMMA InitializeQuiet ==
  ASSUME QuietInv, QuietState, changes = 0, NEW c \in Clients, Initialize(c)
  PROVE  QuietTables(c)' /\ QuietThreads(c)'
<1>0. QuietTables(c) /\ QuietThreads(c) /\ SyncTypeOK /\ Links(c)
  BY DEF QuietState, QuietInv, LinksInv
<1>1. UNCHANGED <<clientVars, bufVars>>
  BY DEF Initialize, PutInitial, Arrive, Pass, GetInitial
<1>2. QuietThreads(c)'
  BY <1>0, <1>1 DEF QuietThreads, clientVars, bufVars
<1>3. CASE ~GetInitial(c)
  <2>1. UNCHANGED <<ttc, prev>>
    BY <1>3 DEF Initialize, PutInitial, Arrive, Pass, tableVars
  <2>2. \A w \in Entities : ~Fetched(c, w) /\ ~Fetched(c, w)'
    BY <1>0, <1>3, ClientAssumption DEF Initialize, PutInitial, Arrive, Pass, Fetched, SyncTypeOK,
       Links, Entities
  <2> QED  BY <1>0, <1>2, <2>1, <2>2 DEF QuietTables
<1>4. CASE GetInitial(c)
  <2> DEFINE x == ind[c]
             delta == CountsOf(table, x) - ttc[c][x]
  <2>1. phase[c] = "get" /\ x \in Entities
    BY <1>0, <1>4 DEF GetInitial, SyncTypeOK
  <2>2. CountsOf(table, x) = InitialTotal(x)
    BY <1>0, <2>1, QuietTable DEF QuietInv
  <2>3. InitialTotal(x) \in Int /\ ttc[c][x] \in Int /\ prev[c][x] = ttc[c][x]
    BY <1>0, <2>1, InitialTotalType DEF SyncTypeOK, QuietTables
  <2>4. \A w \in Entities : /\ ttc'[c][w] = IF w = x THEN ttc[c][x] + delta ELSE ttc[c][w]
                            /\ prev'[c][w] = IF w = x THEN prev[c][x] + delta ELSE prev[c][w]
    BY <1>0, <1>4, <2>1 DEF GetInitial, SyncTypeOK
  <2>5. prev[c][x] + delta = InitialTotal(x) /\ ttc[c][x] + delta = InitialTotal(x)
    BY <2>2, <2>3
  <2>6. /\ ind'[c] = (x + 1) % NumEntities
        /\ phase'[c] = IF x + 1 = NumEntities THEN "run" ELSE "get"
    BY <1>0, <1>4 DEF GetInitial, SyncTypeOK
  <2>7. ASSUME NEW w \in Entities PROVE Fetched(c, w)' <=> w = x \/ Fetched(c, w)
    <3>1. x \in Nat /\ w \in Nat /\ w < NumEntities /\ NumEntities \in Nat
      BY <2>1, ClientAssumption DEF Entities
    <3>2. CASE x + 1 = NumEntities
      BY <2>1, <2>6, <3>1, <3>2 DEF Fetched
    <3>3. CASE x + 1 # NumEntities
      <4>1. ind'[c] = x + 1 /\ phase'[c] = "get"
        BY <2>1, <2>6, <3>3, NextEntity
      <4> HIDE DEF x
      <4>2. x + 1 > w <=> w = x \/ x > w
        BY <3>1
      <4> QED  BY <2>1, <4>1, <4>2 DEF Fetched, x
    <3> QED  BY <3>2, <3>3
  <2> HIDE DEF x, delta
  <2>8. QuietTables(c)'
    BY <1>0, <2>4, <2>5, <2>7 DEF QuietTables
  <2> QED  BY <1>2, <2>8
<1> QED  BY <1>3, <1>4

LEMMA SynchronizeQuiet ==
  ASSUME ClientInv, QuietInv, QuietState, changes = 0, NEW c \in Clients, Synchronize(c)
  PROVE  QuietTables(c)' /\ QuietThreads(c)'
<1>0. QuietTables(c) /\ QuietThreads(c) /\ SyncTypeOK /\ Links(c)
  BY DEF QuietState, QuietInv, LinksInv
<1>1. /\ UNCHANGED <<cb, cbBuf, cbStage, ttc, phase, ind>>
      /\ UpdatePrev(c) \/ prev' = prev
  BY DEF Synchronize, ReadCounts, StartEntity, SubtractOld, UpdatePrev, BeginPutNget, SendDelta,
         Send, Window, Block, SlotFree, WindowDone, EndPass, PassDone, SetAllItersDone,
         tableVars, bufVars, clientVars
<1>2. QuietTables(c)'
  <2>1. CASE UpdatePrev(c)
    <3>1. buf[c] = 0
      BY <1>0, <2>1 DEF UpdatePrev, QuietThreads
    <3>2. \A w \in Entities : prev'[c][w] = prev[c][w]
      BY <1>0, <2>1, <3>1 DEF UpdatePrev, SyncTypeOK
    <3> QED  BY <1>0, <1>1, <3>2 DEF QuietTables, Fetched
  <2>2. CASE prev' = prev
    BY <1>0, <1>1, <2>2 DEF QuietTables, Fetched
  <2> QED  BY <1>1, <2>1, <2>2
<1> SUFFICES /\ stage'[c] = "old" => buf'[c] = InitialTotal(word'[c])
             /\ stage'[c] \in {"prev", "send"} => buf'[c] = 0
  BY <1>0, <1>1, <1>2 DEF QuietThreads
<1>3. CASE ReadCounts(c)
  <2>1. word[c] \in Entities /\ word' = word /\ phase[c] = "run"
    BY <1>3, ClientAssumption DEF ReadCounts, StartEntity, ClientInv, ClientTypeOK, Entities
  <2>2. ttc[c][word[c]] = InitialTotal(word[c])
    BY <1>0, <2>1 DEF QuietTables, Fetched
  <2> QED  BY <1>0, <1>3, <2>1, <2>2 DEF ReadCounts, SyncTypeOK
<1>4. CASE SubtractOld(c)
  <2>1. word[c] \in Entities /\ phase[c] = "run" /\ stage[c] = "old"
    BY <1>0, <1>4, WordType DEF SubtractOld, Links
  <2>2. buf[c] = prev[c][word[c]] /\ prev[c][word[c]] \in Int
    BY <1>0, <2>1 DEF QuietTables, QuietThreads, Fetched, SyncTypeOK
  <2> QED  BY <1>0, <1>4, <2>2 DEF SubtractOld, SyncTypeOK
<1>5. CASE UpdatePrev(c)
  BY <1>0, <1>5 DEF UpdatePrev, QuietThreads, SyncTypeOK
<1>6. CASE SendDelta(c)
  BY <1>0, <1>6 DEF SendDelta, SyncTypeOK
<1>7. CASE Window(c)
  <2>1. UNCHANGED <<buf, stage>>
    BY <1>7 DEF Window, bufVars
  <2>2. stage[c] = "old" => word'[c] = word[c]
    BY <1>0, <1>7 DEF Window, Block, SlotFree, WaitEnds, WindowDone, EndPass, PassDone,
                      SetAllItersDone, Links
  <2> QED  BY <1>0, <2>1, <2>2 DEF QuietThreads
<1> QED  BY <1>3, <1>4, <1>5, <1>6, <1>7 DEF Synchronize

LEMMA EndPutNgetQuiet ==
  ASSUME ClientInv, QuietInv, QuietState, changes = 0, NEW c \in Clients, NEW k \in Callbacks,
         EndPutNget(c, k)
  PROVE  QuietTables(c)' /\ QuietThreads(c)'
<1>0. QuietTables(c) /\ QuietThreads(c) /\ SyncTypeOK /\ Links(c) /\ QuietCalls
  BY DEF QuietState, QuietInv, LinksInv
<1>1. UNCHANGED <<buf, stage, word, phase, ind>>
  BY DEF EndPutNget, BeginEnd, StartCallback, EndSubtractOld, EndUpdateTtc, EndUpdatePrev,
         FinishCallback, clientVars
<1>2. phase[c] = "run"
  <2>1. cb[c][k] # NoMsg \/ flying[c] # {}
    BY <1>0 DEF EndPutNget, BeginEnd, StartCallback, EndSubtractOld, EndUpdateTtc, EndUpdatePrev,
           Links
  <2> QED  BY <1>0, <2>1, NothingUnended
<1> USE DEF SyncTypeOK, ClientInv, ClientTypeOK, QuietTables, QuietThreads, Fetched
<1>3. CASE \E a \in answers : BeginEnd(c, k, a)
  <2>1. PICK a \in answers : BeginEnd(c, k, a)
    BY <1>3
  <2>2. /\ UNCHANGED <<ttc, prev>>
        /\ cb'[c] = [cb[c] EXCEPT ![k] = [entity |-> a.call.word, id |-> a.call.id]]
        /\ cbBuf'[c] = [cbBuf[c] EXCEPT ![k] = a.counts]
        /\ cbStage'[c] = [cbStage[c] EXCEPT ![k] = "old"]
    BY <1>0, <2>1 DEF BeginEnd, StartCallback, tableVars
  <2>3. a.counts = InitialTotal(a.call.word)
    BY <1>0 DEF QuietCalls
  <2> QED  BY <1>0, <1>1, <2>2, <2>3
<1>4. CASE EndSubtractOld(c, k)
  <2>1. cb[c][k].entity \in Entities /\ cbStage[c][k] = "old"
    BY <1>0, <1>4, WordType DEF EndSubtractOld, Links
  <2>2. cbBuf[c][k] - prev[c][cb[c][k].entity] = 0
    <3>1. cbBuf[c][k] = prev[c][cb[c][k].entity] /\ prev[c][cb[c][k].entity] \in Int
      BY <1>0, <1>2, <2>1
    <3> QED  BY <3>1
  <2>3. /\ UNCHANGED <<ttc, prev, cb>>
        /\ cbBuf'[c] = [cbBuf[c] EXCEPT ![k] = 0]
        /\ cbStage'[c] = [cbStage[c] EXCEPT ![k] = "ttc"]
    BY <1>0, <1>4, <2>2 DEF EndSubtractOld, tableVars, clientVars
  <2> QED  BY <1>0, <1>1, <2>3
<1>5. CASE EndUpdateTtc(c, k)
  <2>1. cbBuf[c][k] = 0
    BY <1>0, <1>5 DEF EndUpdateTtc
  <2>2. /\ UNCHANGED <<prev, cb, cbBuf>>
        /\ \A w \in Entities : ttc'[c][w] = ttc[c][w]
        /\ cbStage'[c] = [cbStage[c] EXCEPT ![k] = "prev"]
    BY <1>0, <1>5, <2>1 DEF EndUpdateTtc, clientVars
  <2> QED  BY <1>0, <1>1, <2>1, <2>2
<1>6. CASE EndUpdatePrev(c, k)
  <2>1. cbBuf[c][k] = 0
    BY <1>0, <1>6 DEF EndUpdatePrev
  <2>2. /\ ttc' = ttc /\ cb'[c] = [cb[c] EXCEPT ![k] = NoMsg]
        /\ \A w \in Entities : prev'[c][w] = prev[c][w]
        /\ cbBuf'[c] = [cbBuf[c] EXCEPT ![k] = 0]
        /\ cbStage'[c] = [cbStage[c] EXCEPT ![k] = "idle"]
    BY <1>0, <1>6, <2>1 DEF EndUpdatePrev, FinishCallback
  <2> QED  BY <1>0, <1>1, <2>1, <2>2
<1> QED  BY <1>3, <1>4, <1>5, <1>6 DEF EndPutNget

\* Every call of a quiet state is of nothing, every answer of the initial counts.
LEMMA CallsQuiet ==
  ASSUME ClientInv, QuietInv, QuietState, changes = 0, Next
  PROVE  QuietCalls'
<1>0. QuietCalls /\ SyncTypeOK
  BY DEF QuietState, QuietInv
<1>1. ASSUME NEW c \in Clients, SendDelta(c) PROVE QuietCalls'
  <2> DEFINE q == [client |-> c, word |-> word[c], id |-> cur[c], val |-> buf[c]]
  <2>1. buf[c] = 0
    BY <1>1 DEF SendDelta, Send, QuietInv, LinksInv, Links, QuietState, QuietThreads
  <2>2. pending' = pending \cup {q} /\ answers' = answers
    BY <1>1 DEF SendDelta, Map!Invoke
  <2>3. q.val = 0
    BY <2>1
  <2> HIDE DEF q
  <2> QED  BY <1>0, <2>2, <2>3 DEF QuietCalls
<1>2. ASSUME NEW call \in pending, Serve(call) PROVE QuietCalls'
  <2> DEFINE b == [call |-> call, counts |-> table'[call.word]]
  <2>1. call.client \in Clients /\ call.word \in Entities /\ call.val = 0
    BY <1>0 DEF SyncTypeOK, CallSet, CallRecords, QuietCalls
  <2>2. phase[call.client] = "run"
    <3>1. flying[call.client] # {}
      BY DEF QuietInv, CallsInFlight
    <3> QED  BY <2>1, <3>1, NothingUnended DEF QuietInv, LinksInv
  <2>3. CountsOf(table, call.word) = InitialTotal(call.word)
    BY <2>1, <2>2, QuietTable DEF QuietInv
  <2>4. table' = Accumulated(table, call.word, call.val)
    BY <1>2, SameTable DEF Serve, Map!Combine
  <2>5. table'[call.word] = InitialTotal(call.word)
    <3>1. IsTable(table)
      BY <1>0 DEF SyncTypeOK
    <3>2. table'[call.word] = CountsOf(table, call.word) + 0
      BY <2>1, <2>4, <3>1, TableAdds
    <3> QED  BY <2>1, <2>3, <3>2, InitialTotalType
  <2>6. pending' = pending \ {call} /\ answers' = answers \cup {b}
    BY <1>2 DEF Serve, Map!Combine
  <2>7. b.call = call /\ b.counts = InitialTotal(call.word)
    BY <2>5
  <2> HIDE DEF b
  <2> QED  BY <1>0, <2>6, <2>7 DEF QuietCalls
<1>3. ASSUME NEW c \in Clients, NEW k \in Callbacks, NEW a \in answers, BeginEnd(c, k, a)
      PROVE  QuietCalls'
  BY <1>0, <1>3 DEF BeginEnd, Map!Receive, QuietCalls
<1>4. CASE UNCHANGED <<pending, answers>>
  BY <1>0, <1>4 DEF QuietCalls
<1> QED  BY <1>1, <1>2, <1>3, <1>4 DEF Next, Initialize, PutInitial, Map!Put, Arrive, Pass,
            GetInitial, Change, Synchronize, ReadCounts, SubtractOld, UpdatePrev, Window,
            EndPutNget, EndSubtractOld, EndUpdateTtc, EndUpdatePrev, mapVars

\* Every step but a change of topics stays quiet.
LEMMA QuietStays ==
  ASSUME ClientInv, QuietInv, Quiet, Next
  PROVE  Quiet'
<1> SUFFICES ASSUME changes' = 0 PROVE QuietState'
  BY DEF Quiet
<1>0. /\ \A c \in Clients, w \in Entities, d \in {-1, 1} : ~Change(c, w, d)
      /\ changes = 0 /\ local' = local
  <2>1. \A c \in Clients, w \in Entities, d \in {-1, 1} : ~Change(c, w, d)
    <3>1. changes \in Nat
      BY DEF QuietInv, SyncTypeOK
    <3> QED  BY <3>1 DEF Change
  <2>2. ASSUME NEW c \in Clients, Initialize(c) PROVE UNCHANGED <<changes, local>>
    BY <2>2 DEF Initialize, PutInitial, Arrive, Pass, GetInitial, tableVars
  <2>3. ASSUME NEW c \in Clients, Synchronize(c) PROVE UNCHANGED <<changes, local>>
    BY <2>3 DEF Synchronize, ReadCounts, SubtractOld, UpdatePrev, SendDelta, Window, tableVars
  <2>4. ASSUME NEW c \in Clients, NEW k \in Callbacks, EndPutNget(c, k)
        PROVE  UNCHANGED <<changes, local>>
    BY <2>4 DEF EndPutNget, BeginEnd, EndSubtractOld, EndUpdateTtc, EndUpdatePrev, tableVars
  <2>5. ASSUME NEW call \in pending, Serve(call) PROVE UNCHANGED <<changes, local>>
    BY <2>5 DEF Serve, tableVars
  <2> QED  BY <2>1, <2>2, <2>3, <2>4, <2>5 DEF Next
<1>1. /\ \A c \in Clients : QuietTables(c) /\ QuietThreads(c)
      /\ QuietState /\ local' = InitialCount
  BY <1>0 DEF Quiet, QuietState
<1>2. ASSUME NEW c \in Clients, Act(c), NEW d \in Clients
      PROVE  QuietTables(d)' /\ QuietThreads(d)'
  <2>1. CASE d # c
    BY <1>1, <1>2, <2>1, OthersUntouched, UntouchedQuiet DEF QuietInv, ClientInv
  <2>2. QuietTables(c)' /\ QuietThreads(c)'
    BY <1>0, <1>1, <1>2, InitializeQuiet, SynchronizeQuiet, EndPutNgetQuiet DEF Act
  <2> QED  BY <2>1, <2>2
<1>3. ASSUME NEW call \in pending, Serve(call), NEW d \in Clients
      PROVE  QuietTables(d)' /\ QuietThreads(d)'
  BY <1>1, <1>3 DEF Serve, clientVars, tableVars, bufVars, QuietTables, QuietThreads, Fetched
<1>4. QuietCalls'
  BY <1>0, <1>1, CallsQuiet
<1> QED  BY <1>1, <1>2, <1>3, <1>4, NextActs DEF QuietState

-----------------------------------------------------------------------------
(***************************************************************************)
(* No two threads of a client work on the same word.                       *)
(***************************************************************************)
\* While the helper works on a word, no message for the word is under way.
Alone(c) == stage[c] # "idle" => \A m \in Unended(c) : m.entity # word[c]

EntityOnce(c) == \A m, n \in Unended(c) : m.entity = n.entity => m = n

AloneInv == \A c \in Clients : Alone(c) /\ EntityOnce(c)

\* The helper only starts on a word that no message has.
LEMMA AloneSynchronize ==
  ASSUME ClientInv, SyncTypeOK, OneMessagePerEntity, NEW c \in Clients, Links(c),
         Alone(c), EntityOnce(c), Synchronize(c)
  PROVE  Alone(c)' /\ EntityOnce(c)'
<1> USE DEF Alone, EntityOnce
<1>1. CASE ReadCounts(c)
  <2>1. Unended(c)' = Unended(c) /\ word' = word /\ pc[c] = "next"
    BY <1>1 DEF ReadCounts, StartEntity, Unended
  <2> QED  BY <2>1 DEF OneMessagePerEntity
<1>2. CASE SubtractOld(c) \/ UpdatePrev(c)
  <2>1. Unended(c)' = Unended(c) /\ word' = word
    BY <1>2 DEF SubtractOld, UpdatePrev, BeginPutNget, Unended, clientVars
  <2>2. stage[c] # "idle"
    BY <1>2 DEF SubtractOld, UpdatePrev
  <2> QED  BY <2>1, <2>2
<1>3. CASE SendDelta(c)
  <2> DEFINE new == [entity |-> word[c], id |-> cur[c]]
  <2>1. stage[c] = "send" /\ stage'[c] = "idle"
    BY <1>3 DEF SendDelta, Send, Links, SyncTypeOK
  <2>2. Unended(c)' = Unended(c) \cup {new}
    BY <1>3 DEF SendDelta, Send, Unended, ClientInv, ClientTypeOK
  <2>3. new.entity = word[c]
    OBVIOUS
  <2> HIDE DEF new
  <2> QED  BY <2>1, <2>2, <2>3
<1>4. CASE Window(c)
  <2>1. stage' = stage /\ UNCHANGED <<flying, cb, lost>>
    BY <1>4 DEF Window, bufVars, Block, SlotFree, WindowDone, EndPass, PassDone, SetAllItersDone
  <2>2. Unended(c)' = Unended(c)
    BY <2>1 DEF Unended
  <2>3. stage[c] # "idle" => word'[c] = word[c]
    BY <1>4 DEF Window, Block, SlotFree, WaitEnds, WindowDone, EndPass, PassDone,
                SetAllItersDone, Links, Waits, SyncTypeOK
  <2> QED  BY <2>1, <2>2, <2>3
<1> QED  BY <1>1, <1>2, <1>3, <1>4 DEF Synchronize

\* Every step keeps the threads of a client on different words.
LEMMA AloneStep ==
  ASSUME ClientInv, SyncTypeOK, LinksInv, OneMessagePerEntity, AloneInv, Next
  PROVE  AloneInv'
<1>1. ASSUME NEW c \in Clients, Act(c), NEW d \in Clients PROVE Alone(d)' /\ EntityOnce(d)'
  <2>1. Alone(d) /\ EntityOnce(d)
    BY DEF AloneInv
  <2>2. CASE d # c
    <3>1. Untouched(d)
      BY <1>1, <2>2, OthersUntouched DEF ClientInv
    <3>2. Unended(d)' = Unended(d)
      BY <3>1, UntouchedUnended DEF Untouched
    <3> QED  BY <2>1, <3>1, <3>2 DEF Alone, EntityOnce, Untouched, Same
  <2>3. ASSUME UNCHANGED <<clientVars, stage>> PROVE Alone(d)' /\ EntityOnce(d)'
    BY <2>1, <2>3 DEF clientVars, Unended, Alone, EntityOnce
  <2>4. CASE Initialize(c)
    BY <2>3, <2>4 DEF Initialize, PutInitial, Arrive, Pass, GetInitial, bufVars
  <2>5. CASE \E w \in Entities, e \in {-1, 1} : Change(c, w, e)
    BY <2>3, <2>5 DEF Change, bufVars
  <2>6. CASE \E k \in Callbacks : EndPutNget(c, k)
    <3>1. UNCHANGED <<word, stage>> /\ Unended(c)' \subseteq Unended(c)
      <4>0. PICK k \in Callbacks : EndPutNget(c, k)
        BY <2>6
      <4>1. UNCHANGED <<word, stage>>
        BY <4>0 DEF EndPutNget, BeginEnd, StartCallback, EndSubtractOld, EndUpdateTtc,
               EndUpdatePrev, FinishCallback, clientVars
      <4>2. ASSUME NEW a \in answers, BeginEnd(c, k, a) PROVE Unended(c)' \subseteq Unended(c)
        <5> DEFINE new == [entity |-> a.call.word, id |-> a.call.id]
        <5>1. /\ new \in flying[c] /\ flying'[c] \subseteq flying[c] /\ lost' = lost
              /\ \A j \in Callbacks : cb'[c][j] = IF j = k THEN new ELSE cb[c][j]
          BY <4>2 DEF BeginEnd, StartCallback, ClientInv, ClientTypeOK
        <5> HIDE DEF new
        <5> QED  BY <5>1 DEF Unended
      <4>3. ASSUME EndSubtractOld(c, k) \/ EndUpdateTtc(c, k)
            PROVE  Unended(c)' \subseteq Unended(c)
        BY <4>3 DEF EndSubtractOld, EndUpdateTtc, clientVars, Unended
      <4>4. ASSUME EndUpdatePrev(c, k) PROVE Unended(c)' \subseteq Unended(c)
        <5>1. /\ UNCHANGED <<flying, lost>>
              /\ \A j \in Callbacks : cb'[c][j] = NoMsg \/ cb'[c][j] = cb[c][j]
          BY <4>4 DEF EndUpdatePrev, FinishCallback, ClientInv, ClientTypeOK
        <5> SUFFICES ASSUME NEW m \in Unended(c)' PROVE m \in Unended(c)
          OBVIOUS
        <5>2. CASE m \in flying'[c] \/ m \in lost'[c]
          BY <5>1, <5>2 DEF Unended
        <5>3. ASSUME NEW j \in Callbacks, cb'[c][j] # NoMsg, m = cb'[c][j]
              PROVE  m \in Unended(c)
          BY <5>1, <5>3 DEF Unended
        <5> QED  BY <5>2, <5>3 DEF Unended
      <4>5. Unended(c)' \subseteq Unended(c)
        BY <4>0, <4>2, <4>3, <4>4, Zenon DEF EndPutNget
      <4> QED  BY <4>1, <4>5
    <3>2. Alone(c) /\ EntityOnce(c)
      BY DEF AloneInv
    <3>3. Alone(c)' /\ EntityOnce(c)'
      BY <3>1, <3>2 DEF Alone, EntityOnce
    <3> QED  BY <2>2, <3>3
  <2>7. CASE Synchronize(c)
    BY <2>1, <2>2, <2>7, AloneSynchronize DEF LinksInv
  <2> QED  BY <1>1, <2>4, <2>5, <2>6, <2>7 DEF Act
<1>2. ASSUME NEW call \in pending, Serve(call) PROVE AloneInv'
  BY <1>2 DEF Serve, clientVars, bufVars, AloneInv, Alone, EntityOnce, Unended
<1> QED  BY <1>1, <1>2, NextActs DEF AloneInv

-----------------------------------------------------------------------------
(***************************************************************************)
(* What a client knows of the counts of others never is negative.          *)
(***************************************************************************)
\* What the client and the answers to it know of a word is never less than
\* what it has told of its own tokens.
ViewTables(c) ==
  \A w \in Entities : Announced(c, w) >= 0 /\ Told(c, w) >= 0 /\ ttc[c][w] >= local[c][w]

ViewHelper(c) ==
  /\ stage[c] = "old" => buf[c] - prev[c][word[c]] + Announced(c, word[c]) >= 0
  /\ stage[c] = "prev" => buf[c] + Announced(c, word[c]) >= 0

ViewCallbacks(c) ==
  \A k \in Callbacks :
    /\ cbStage[c][k] = "old" => cbBuf[c][k] >= Announced(c, cb[c][k].entity)
    /\ cbStage[c][k] = "ttc" =>
         cbBuf[c][k] + prev[c][cb[c][k].entity] >= Announced(c, cb[c][k].entity)

ViewAnswers(c) ==
  \A a \in answers : a.call.client = c => a.counts >= Announced(c, a.call.word)

View(c) == ViewTables(c) /\ ViewHelper(c) /\ ViewCallbacks(c) /\ ViewAnswers(c)

ViewInv == \A c \in Clients : View(c)

\* The steps of the others leave the view of a client.
LEMMA UntouchedView ==
  ASSUME NEW d \in Clients, Untouched(d), View(d), answers' \subseteq answers,
         \A w \in Entities : Told(d, w)' = Told(d, w)
  PROVE  View(d)'
<1>1. ASSUME NEW w PROVE Announced(d, w)' = Announced(d, w)
  <2>1. \A k \in Callbacks : Heard(d, k, w)' = Heard(d, k, w)
    BY DEF Heard, Untouched, Same
  <2>2. AllHeard(d, w)' = AllHeard(d, w)
    BY <2>1, HeardSame
  <2> QED  BY <2>2 DEF Announced, Owed, Untouched
<1>2. ViewTables(d)'
  BY <1>1 DEF View, ViewTables, Untouched
<1>3. ViewHelper(d)' /\ ViewCallbacks(d)'
  BY <1>1 DEF View, ViewHelper, ViewCallbacks, Untouched, Same
<1>4. ViewAnswers(d)'
  BY <1>1 DEF View, ViewAnswers
<1> QED  BY <1>2, <1>3, <1>4 DEF View

\* The map's entry is at least what each client has told.
AllTold == \A c \in Clients, w \in Entities : Told(c, w) >= 0

Covered == \A c \in Clients, w \in Entities : CountsOf(table, w) >= Told(c, w)

LEMMA TableCovers == SyncTypeOK /\ TokensConserved /\ AllTold => Covered
<1> SUFFICES ASSUME SyncTypeOK, TokensConserved, AllTold, NEW c \in Clients, NEW w \in Entities
             PROVE  CountsOf(table, w) >= Told(c, w)
  BY DEF Covered
<1>1. Parts(w) \in [Clients -> Nat]
  BY PartsType DEF Parts, AllTold
<1>2. Parts(w)[c] <= SumFunction(Parts(w))
  BY <1>1, TotalNat, SyncAssumption
<1>3. SumFunction(Parts(w)) \in Int
  BY <1>1, TotalNat, SyncAssumption
<1>4. CountsOf(table, w) = SumFunction(Parts(w)) /\ Parts(w)[c] = Told(c, w)
  BY DEF TokensConserved, Parts
<1> QED  BY <1>1, <1>2, <1>3, <1>4

-----------------------------------------------------------------------------
(***************************************************************************)
(* The view, action by action.                                             *)
(***************************************************************************)
\* What the steps below rely on.
ViewState ==
  /\ ClientInv /\ SyncTypeOK /\ LinksInv /\ CallsInFlight /\ OneMessagePerEntity /\ AloneInv
  /\ ViewInv

LEMMA UnendedParts ==
  ASSUME NEW c \in Clients
  PROVE  /\ flying[c] \subseteq Unended(c)
         /\ \A k \in Callbacks : cb[c][k] # NoMsg => cb[c][k] \in Unended(c)
BY DEF Unended

\* What the tables of a client say in the terms of the view.
LEMMA ViewOf ==
  ASSUME ViewState, NEW c \in Clients
  PROVE  /\ Links(c) /\ Alone(c) /\ EntityOnce(c) /\ View(c)
         /\ \A w \in Entities :
              /\ ToldParts(c, w)
              /\ Announced(c, w) >= 0 /\ Told(c, w) >= 0 /\ ttc[c][w] >= local[c][w]
         /\ \A k \in Callbacks : cbStage[c][k] # "idle" => cb[c][k] \in Unended(c)
         /\ \A a \in answers : a.call.client = c =>
              Msg(a.call) \in Unended(c) /\ Msg(a.call).entity = a.call.word
<1>1. Links(c) /\ Alone(c) /\ EntityOnce(c) /\ View(c)
  BY DEF ViewState, LinksInv, AloneInv, ViewInv
<1>2. \A k \in Callbacks : cbStage[c][k] # "idle" => cb[c][k] \in Unended(c)
  BY <1>1, UnendedParts DEF Links
<1>3. \A a \in answers : a.call.client = c =>
              Msg(a.call) \in Unended(c) /\ Msg(a.call).entity = a.call.word
  BY UnendedParts DEF ViewState, CallsInFlight, Msg
<1>4. \A w \in Entities :
        /\ ToldParts(c, w)
        /\ Announced(c, w) >= 0 /\ Told(c, w) >= 0 /\ ttc[c][w] >= local[c][w]
  BY <1>1, ToldIs DEF AllParts, ViewState, View, ViewTables
<1> QED  BY <1>1, <1>2, <1>3, <1>4

\* initialize() fetches at least what the client has put.
LEMMA InitializeView ==
  ASSUME ViewState, SyncTypeOK', TokensConserved, NEW c \in Clients, Initialize(c)
  PROVE  View(c)'
<1>0. /\ Links(c) /\ SyncTypeOK /\ ClientInv
      /\ \A w \in Entities :
           /\ ToldParts(c, w)
           /\ Announced(c, w) >= 0 /\ Told(c, w) >= 0 /\ ttc[c][w] >= local[c][w]
  BY ViewOf DEF ViewState
<1>1. /\ UNCHANGED <<clientVars, bufVars, local, answers>>
      /\ phase[c] # "run"
  BY DEF Initialize, PutInitial, Map!Put, Arrive, Pass, GetInitial, mapVars, tableVars
<1>2. /\ stage[c] \notin {"old", "prev", "send"}
      /\ flying[c] = {} /\ \A k \in Callbacks : cbStage[c][k] = "idle"
  BY <1>0, <1>1, NothingUnended
<1>3. ViewHelper(c)' /\ ViewCallbacks(c)'
  BY <1>1, <1>2 DEF ViewHelper, ViewCallbacks, bufVars
<1>4. ViewAnswers(c)'
  <2>1. \A a \in answers : a.call.client # c
    BY <1>2 DEF ViewState, CallsInFlight
  <2> QED  BY <1>1, <2>1 DEF ViewAnswers
<1>5. ASSUME NEW w \in Entities
      PROVE  Announced(c, w)' >= 0 /\ Told(c, w)' >= 0 /\ ttc'[c][w] >= local'[c][w]
  <2> DEFINE put == IF PutInitial(c) /\ w = ind[c] THEN ttc[c][w] ELSE 0
  <2>1. put \in Nat
    <3>1. CASE PutInitial(c)
      <4>1. ttc[c][w] = local[c][w] /\ local[c][w] \in Nat
        BY <1>0, <3>1 DEF PutInitial, Links, SyncTypeOK
      <4> QED  BY <4>1
    <3> QED  BY <3>1
  <2>2. Told(c, w)' = Told(c, w) + put /\ Announced(c, w)' = Announced(c, w) + put
    BY <1>0, InitializeTold
  <2> HIDE DEF put
  <2>3. Told(c, w) \in Int /\ Announced(c, w) \in Int
    BY <1>0 DEF ToldParts
  <2>4. Told(c, w)' >= 0 /\ Announced(c, w)' >= 0
    BY <1>0, <2>1, <2>2, <2>3
  <2>5. CASE ~GetInitial(c)
    <3>1. ttc' = ttc /\ local' = local
      BY <1>1, <2>5 DEF Initialize, PutInitial, Arrive, Pass, tableVars
    <3> QED  BY <1>0, <2>4, <3>1
  <2>6. CASE GetInitial(c)
    <3>1. AllTold
      BY ViewOf DEF AllTold
    <3>2. CountsOf(table, w) >= Told(c, w)
      BY <1>0, <3>1, TableCovers DEF Covered
    <3>3. Told(c, w) = local[c][w]
      <4>1. Owed(c, w) = 0
        BY <1>0, <2>6 DEF GetInitial, Links, Owed, ToldParts
      <4>2. Sending(c, w) = 0
        BY <1>2 DEF Sending
      <4>3. AllHeard(c, w) = 0
        BY <1>2, NothingHeard
      <4>4. OnTheWay(c, w) = 0
        <5>1. \A p \in pending : p.client # c
          BY <1>2 DEF ViewState, CallsInFlight
        <5>2. Carried(pending, c, w) = 0
          BY <1>0, <5>1, CarriedNothing DEF SyncTypeOK, CallSet
        <5> QED  BY <5>2, OnTheWayIs
      <4> QED  BY <1>0, <4>1, <4>2, <4>3, <4>4 DEF ToldParts
    <3>4. ttc'[c][w] = IF w = ind[c] THEN CountsOf(table, w) ELSE ttc[c][w]
      <4>1. CountsOf(table, w) \in Int /\ ttc[c][w] \in Int
        BY <1>0, CountsType DEF SyncTypeOK
      <4> QED  BY <1>0, <2>6, <4>1 DEF GetInitial, SyncTypeOK
    <3> QED  BY <1>0, <1>1, <2>4, <3>2, <3>3, <3>4
  <2> QED  BY <2>5, <2>6
<1> QED  BY <1>3, <1>4, <1>5 DEF View, ViewTables

\* A change of topics is not told yet.
LEMMA ChangeView ==
  ASSUME ViewState, SyncTypeOK', NEW c \in Clients, NEW x \in Entities, NEW d \in {-1, 1},
         Change(c, x, d)
  PROVE  View(c)'
<1>0. /\ Links(c) /\ SyncTypeOK /\ ClientInv /\ View(c)
      /\ \A w \in Entities :
           /\ ToldParts(c, w)
           /\ Announced(c, w) >= 0 /\ Told(c, w) >= 0 /\ ttc[c][w] >= local[c][w]
  BY ViewOf DEF ViewState
<1>1. \A w \in Entities : Told(c, w)' = Told(c, w) /\ Announced(c, w)' = Announced(c, w)
  BY <1>0, ChangeTold
<1>2. UNCHANGED <<clientVars, answers, bufVars, prev>>
  BY DEF Change, mapVars
<1>3. \A w \in Entities : /\ ttc'[c][w] = IF w = x THEN ttc[c][w] + d ELSE ttc[c][w]
                         /\ local'[c][w] = IF w = x THEN local[c][w] + d ELSE local[c][w]
  BY <1>0 DEF Change, SyncTypeOK
<1>4. ViewTables(c)'
  BY <1>0, <1>1, <1>3 DEF ViewTables, ToldParts
<1>5. ViewHelper(c)'
  <2>1. stage[c] \in {"old", "prev"} => word[c] \in Entities
    BY <1>0, WordType DEF Links, SyncTypeOK
  <2> QED  BY <1>0, <1>1, <1>2, <2>1 DEF View, ViewHelper, bufVars, clientVars
<1>6. ViewCallbacks(c)'
  <2>1. \A k \in Callbacks : cbStage[c][k] # "idle" => cb[c][k].entity \in Entities
    BY <1>0, WordType DEF Links, SyncTypeOK
  <2> QED  BY <1>0, <1>1, <1>2, <2>1 DEF View, ViewCallbacks, bufVars, clientVars
<1>7. ViewAnswers(c)'
  <2>1. \A a \in answers : a.call.word \in Entities
    BY <1>0 DEF SyncTypeOK, CallRecords
  <2> QED  BY <1>0, <1>1, <1>2, <2>1 DEF View, ViewAnswers
<1> QED  BY <1>4, <1>5, <1>6, <1>7 DEF View

\* The helper tells no more than the difference it has read.
LEMMA SynchronizeView ==
  ASSUME ViewState, SyncTypeOK', NEW c \in Clients, Synchronize(c)
  PROVE  View(c)'
<1>0. /\ Links(c) /\ SyncTypeOK /\ ClientInv /\ View(c) /\ Alone(c)
      /\ \A w \in Entities :
           /\ ToldParts(c, w)
           /\ Announced(c, w) >= 0 /\ Told(c, w) >= 0 /\ ttc[c][w] >= local[c][w]
      /\ \A k \in Callbacks : cbStage[c][k] # "idle" => cb[c][k] \in Unended(c)
      /\ \A a \in answers : a.call.client = c =>
           Msg(a.call) \in Unended(c) /\ Msg(a.call).entity = a.call.word
  BY ViewOf DEF ViewState
<1>1. /\ UNCHANGED <<cb, cbBuf, cbStage, ttc, local, phase, ind>>
      /\ UpdatePrev(c) \/ prev' = prev
      /\ answers' = answers
  BY DEF Synchronize, ReadCounts, StartEntity, SubtractOld, UpdatePrev, BeginPutNget, SendDelta,
         Send, Map!Invoke, Window, Block, SlotFree, WindowDone, EndPass, PassDone,
         SetAllItersDone, mapVars, tableVars, bufVars, clientVars
<1>2. \A w \in Entities :
        /\ Told(c, w)' = Told(c, w)
        /\ Announced(c, w)' = Announced(c, w) + (IF UpdatePrev(c) /\ word[c] = w THEN buf[c] ELSE 0)
  BY <1>0, SynchronizeTold
<1>3. UpdatePrev(c) => stage[c] = "prev" /\ stage'[c] = "send"
  BY <1>0 DEF UpdatePrev, SyncTypeOK
<1>4. \A w \in Entities : ~UpdatePrev(c) \/ w # word[c] =>
        Announced(c, w)' = Announced(c, w) /\ prev'[c][w] = prev[c][w]
  <2>1. ASSUME NEW w \in Entities, ~UpdatePrev(c) \/ w # word[c]
        PROVE  Announced(c, w)' = Announced(c, w)
    BY <1>0, <1>2, <2>1 DEF ToldParts
  <2>2. ASSUME NEW w \in Entities, ~UpdatePrev(c) \/ w # word[c]
        PROVE  prev'[c][w] = prev[c][w]
    BY <1>0, <1>1, <2>2 DEF UpdatePrev, SyncTypeOK
  <2> QED  BY <2>1, <2>2
<1>5. ViewTables(c)'
  <2>1. ASSUME NEW w \in Entities PROVE Announced(c, w)' >= 0
    <3>1. CASE UpdatePrev(c) /\ w = word[c]
      BY <1>0, <1>2, <1>3, <3>1 DEF View, ViewHelper, ToldParts
    <3>2. CASE ~(UpdatePrev(c) /\ w = word[c])
      BY <1>0, <1>4, <3>2
    <3> QED  BY <3>1, <3>2
  <2> QED  BY <1>0, <1>1, <1>2, <2>1 DEF ViewTables
<1>6. ViewCallbacks(c)'
  <2>1. ASSUME NEW k \in Callbacks, cbStage[c][k] # "idle"
        PROVE  /\ Announced(c, cb[c][k].entity)' = Announced(c, cb[c][k].entity)
               /\ prev'[c][cb[c][k].entity] = prev[c][cb[c][k].entity]
    <3>1. cb[c][k].entity \in Entities
      BY <1>0, <2>1, WordType DEF Links
    <3>2. UpdatePrev(c) => cb[c][k].entity # word[c]
      BY <1>0, <1>3, <2>1 DEF Alone
    <3> QED  BY <1>1, <1>4, <3>1, <3>2
  <2> QED  BY <1>0, <1>1, <2>1 DEF View, ViewCallbacks
<1>7. ViewAnswers(c)'
  <2>1. ASSUME NEW a \in answers, a.call.client = c
        PROVE  Announced(c, a.call.word)' = Announced(c, a.call.word)
    <3>1. a.call.word \in Entities
      BY <1>0 DEF SyncTypeOK, CallRecords
    <3>2. UpdatePrev(c) => a.call.word # word[c]
      BY <1>0, <1>3, <2>1 DEF Alone
    <3> QED  BY <1>4, <3>1, <3>2
  <2> QED  BY <1>0, <1>1, <2>1 DEF View, ViewAnswers
<1>8. ViewHelper(c)'
  <2>1. CASE ReadCounts(c)
    <3>1. /\ phase[c] = "run" /\ stage'[c] = "old" /\ buf'[c] = ttc[c][word[c]]
          /\ word' = word /\ pc[c] = "next" /\ word[c] \in Entities
      BY <1>0, <2>1, ClientAssumption
         DEF ReadCounts, StartEntity, SyncTypeOK, ClientInv, ClientTypeOK, Entities
    <3>2. AllHeard(c, word[c]) = 0
      <4>1. \A k \in Callbacks : cbStage[c][k] = "prev" => cb[c][k].entity # word[c]
        BY <1>0, <3>1 DEF ViewState, OneMessagePerEntity
      <4> QED  BY <4>1, NothingHeard
    <3>3. ~UpdatePrev(c)
      BY <2>1, <3>1 DEF UpdatePrev, BeginPutNget
    <3>4. Announced(c, word[c])' = Announced(c, word[c]) /\ prev' = prev
      BY <1>1, <1>4, <3>1, <3>3
    <3>5. Owed(c, word[c]) = ttc[c][word[c]] - prev[c][word[c]]
      BY <3>1 DEF Owed
    <3>6. local[c][word[c]] >= 0
      BY <1>0, <3>1 DEF SyncTypeOK
    <3>7. ttc[c][word[c]] - prev[c][word[c]] + Announced(c, word[c]) = local[c][word[c]]
      BY <1>0, <3>1, <3>2, <3>5 DEF ToldParts
    <3> QED  BY <3>1, <3>4, <3>6, <3>7 DEF ViewHelper
  <2>2. CASE SubtractOld(c)
    <3>1. /\ stage[c] = "old" /\ stage'[c] = "prev" /\ word' = word /\ word[c] \in Entities
          /\ buf'[c] = buf[c] - prev[c][word[c]]
      BY <1>0, <2>2, WordType DEF SubtractOld, Links, SyncTypeOK, clientVars
    <3>2. ~UpdatePrev(c)
      BY <1>3, <3>1
    <3>3. Announced(c, word[c])' = Announced(c, word[c])
      BY <1>4, <3>1, <3>2
    <3> QED  BY <1>0, <3>1, <3>3 DEF View, ViewHelper
  <2>3. CASE UpdatePrev(c)
    BY <1>3, <2>3 DEF ViewHelper
  <2>4. CASE SendDelta(c)
    BY <1>0, <2>4 DEF SendDelta, ViewHelper, SyncTypeOK
  <2>5. CASE Window(c)
    <3>1. UNCHANGED <<buf, stage, prev>>
      BY <2>5 DEF Window, bufVars, tableVars
    <3>2. ~UpdatePrev(c)
      BY <1>3, <3>1
    <3>3. stage[c] \in {"old", "prev"} => word[c] \in Entities
      BY <1>0, WordType DEF Links
    <3>4. stage[c] \in {"old", "prev"} => word'[c] = word[c]
      BY <1>0, <2>5 DEF Window, Block, SlotFree, WaitEnds, WindowDone, EndPass, PassDone,
                        SetAllItersDone, Links
    <3>5. stage[c] \in {"old", "prev"} => Announced(c, word[c])' = Announced(c, word[c])
      BY <1>4, <3>2, <3>3, <3>4
    <3> QED  BY <1>0, <3>1, <3>4, <3>5 DEF View, ViewHelper
  <2> QED  BY <2>1, <2>2, <2>3, <2>4, <2>5 DEF Synchronize
<1> QED  BY <1>5, <1>6, <1>7, <1>8 DEF View

\* The answer covers what the client had told when it was sent.
LEMMA EndPutNgetView ==
  ASSUME ViewState, SyncTypeOK', NEW c \in Clients, NEW k \in Callbacks, EndPutNget(c, k)
  PROVE  View(c)'
<1>0. /\ Links(c) /\ SyncTypeOK /\ ClientInv /\ View(c) /\ Alone(c) /\ EntityOnce(c)
      /\ \A w \in Entities :
           /\ ToldParts(c, w)
           /\ Announced(c, w) >= 0 /\ Told(c, w) >= 0 /\ ttc[c][w] >= local[c][w]
      /\ \A j \in Callbacks : cbStage[c][j] # "idle" => cb[c][j] \in Unended(c)
  BY ViewOf DEF ViewState
<1>1. UNCHANGED <<buf, stage, word, local, phase, ind>>
  BY DEF EndPutNget, BeginEnd, StartCallback, EndSubtractOld, EndUpdateTtc, EndUpdatePrev,
         FinishCallback, clientVars, tableVars
<1>2. phase[c] = "run"
  <2>1. cb[c][k] # NoMsg \/ flying[c] # {}
    BY <1>0 DEF EndPutNget, BeginEnd, StartCallback, EndSubtractOld, EndUpdateTtc,
                EndUpdatePrev, Links
  <2> QED  BY <1>0, <2>1, NothingUnended
<1>3. \A w \in Entities : Told(c, w)' = Told(c, w) /\ Announced(c, w)' = Announced(c, w)
  BY <1>0, EndPutNgetTold
<1>4. /\ stage[c] \in {"old", "prev"} => word[c] \in Entities
      /\ \A j \in Callbacks : cbStage[c][j] # "idle" => cb[c][j].entity \in Entities
      /\ \A a \in answers : a.call.word \in Entities
  BY <1>0, WordType DEF Links, SyncTypeOK, CallRecords
<1>5. answers' \subseteq answers
  BY DEF EndPutNget, BeginEnd, Map!Receive, EndSubtractOld, EndUpdateTtc, EndUpdatePrev, mapVars
<1>6. ViewAnswers(c)'
  BY <1>0, <1>3, <1>4, <1>5 DEF View, ViewAnswers
\* The entities of two threads of the client at work are not the same.
<1>7. ASSUME cbStage[c][k] # "idle"
      PROVE  /\ \A j \in Callbacks \ {k} :
                  cbStage[c][j] # "idle" => cb[c][j].entity # cb[c][k].entity
             /\ stage[c] # "idle" => word[c] # cb[c][k].entity
  <2>1. ASSUME NEW j \in Callbacks \ {k}, cbStage[c][j] # "idle"
        PROVE  cb[c][j].entity # cb[c][k].entity
    <3>1. cb[c][j] # cb[c][k]
      BY <1>0, <2>1 DEF ClientInv, SlotInv, OnePlace, Links
    <3>2. cb[c][j] \in Unended(c) /\ cb[c][k] \in Unended(c)
      BY <1>0, <1>7, <2>1
    <3> QED  BY <1>0, <3>1, <3>2 DEF EntityOnce
  <2> QED  BY <1>0, <1>7, <2>1 DEF Alone
<1>8. CASE \E a \in answers : BeginEnd(c, k, a)
  <2>1. PICK a \in answers : BeginEnd(c, k, a)
    BY <1>8
  <2>2. /\ UNCHANGED <<ttc, prev>> /\ a.call.client = c /\ a.call.word \in Entities
        /\ cb'[c] = [cb[c] EXCEPT ![k] = [entity |-> a.call.word, id |-> a.call.id]]
        /\ cbBuf'[c] = [cbBuf[c] EXCEPT ![k] = a.counts]
        /\ cbStage'[c] = [cbStage[c] EXCEPT ![k] = "old"]
    BY <1>0, <1>4, <2>1 DEF BeginEnd, StartCallback, tableVars, SyncTypeOK, ClientInv, ClientTypeOK
  <2>3. a.counts >= Announced(c, a.call.word)
    BY <1>0, <2>2 DEF View, ViewAnswers
  <2>4. ViewTables(c)' /\ ViewHelper(c)'
    BY <1>0, <1>1, <1>3, <1>4, <2>2 DEF View, ViewTables, ViewHelper
  <2>5. ASSUME NEW j \in Callbacks
        PROVE  /\ cbStage'[c][j] = "old" => cbBuf'[c][j] >= Announced(c, cb[c][j].entity)'
               /\ cbStage'[c][j] = "ttc" =>
                    cbBuf'[c][j] + prev'[c][cb'[c][j].entity] >= Announced(c, cb[c][j].entity)'
    <3>1. CASE j = k
      <4>1. /\ cbStage'[c][j] = "old" /\ cbBuf'[c][j] = a.counts
            /\ cb'[c][j] = [entity |-> a.call.word, id |-> a.call.id]
        BY <1>0, <2>2, <3>1 DEF SyncTypeOK, ClientInv, ClientTypeOK
      <4>2. cb'[c][j].entity = a.call.word
        BY <4>1
      <4>3. Announced(c, a.call.word)' = Announced(c, a.call.word)
        BY <1>3, <2>2
      <4> QED  BY <2>3, <4>1, <4>2, <4>3
    <3>2. CASE j # k
      <4>1. /\ cbStage'[c][j] = cbStage[c][j] /\ cbBuf'[c][j] = cbBuf[c][j]
            /\ cb'[c][j] = cb[c][j]
        BY <1>0, <2>2, <3>2 DEF SyncTypeOK, ClientInv, ClientTypeOK
      <4>2. cbStage[c][j] # "idle" =>
              Announced(c, cb[c][j].entity)' = Announced(c, cb[c][j].entity)
        BY <1>3, <1>4, <4>1
      <4> QED  BY <1>0, <2>2, <4>1, <4>2 DEF View, ViewCallbacks
    <3> QED  BY <3>1, <3>2
  <2>6. ViewCallbacks(c)'
    BY <2>5 DEF ViewCallbacks
  <2> QED  BY <1>6, <2>4, <2>6 DEF View
<1>9. CASE EndSubtractOld(c, k)
  <2> DEFINE e == cb[c][k].entity
  <2>1. /\ UNCHANGED <<ttc, prev, cb>> /\ cbStage[c][k] = "old"
        /\ cbStage'[c] = [cbStage[c] EXCEPT ![k] = "ttc"]
        /\ cbBuf'[c] = [cbBuf[c] EXCEPT ![k] = cbBuf[c][k] - prev[c][e]]
    BY <1>0, <1>9 DEF EndSubtractOld, SyncTypeOK, tableVars, clientVars
  <2>2. ViewTables(c)' /\ ViewHelper(c)'
    BY <1>0, <1>1, <1>3, <1>4, <2>1 DEF View, ViewTables, ViewHelper
  <2>3. ASSUME NEW j \in Callbacks
        PROVE  /\ cbStage'[c][j] = "old" => cbBuf'[c][j] >= Announced(c, cb[c][j].entity)'
               /\ cbStage'[c][j] = "ttc" =>
                    cbBuf'[c][j] + prev'[c][cb'[c][j].entity] >= Announced(c, cb[c][j].entity)'
    <3>1. cbStage[c][j] # "idle" =>
            Announced(c, cb[c][j].entity)' = Announced(c, cb[c][j].entity)
      BY <1>3, <1>4, <2>1
    <3>2. CASE j = k
      <4>1. cbStage'[c][j] = "ttc" /\ cbBuf'[c][j] = cbBuf[c][k] - prev[c][e]
        BY <1>0, <2>1, <3>2 DEF SyncTypeOK
      <4>2. cbBuf[c][k] \in Int /\ prev[c][e] \in Int
        BY <1>0, <1>4, <2>1 DEF SyncTypeOK
      <4>3. cbBuf[c][k] >= Announced(c, e)
        BY <1>0, <2>1 DEF View, ViewCallbacks
      <4> QED  BY <2>1, <3>1, <3>2, <4>1, <4>2, <4>3
    <3>3. CASE j # k
      <4>1. cbStage'[c][j] = cbStage[c][j] /\ cbBuf'[c][j] = cbBuf[c][j]
        BY <1>0, <2>1, <3>3 DEF SyncTypeOK
      <4> QED  BY <1>0, <2>1, <3>1, <4>1 DEF View, ViewCallbacks
    <3> QED  BY <3>2, <3>3
  <2>4. ViewCallbacks(c)'
    BY <2>3 DEF ViewCallbacks
  <2> QED  BY <1>6, <2>2, <2>4 DEF View
<1>10. CASE EndUpdateTtc(c, k)
  <2> DEFINE e == cb[c][k].entity
  <2>1. /\ UNCHANGED <<prev, cb, cbBuf>> /\ cbStage[c][k] = "ttc" /\ e \in Entities
        /\ cbStage'[c] = [cbStage[c] EXCEPT ![k] = "prev"]
        /\ \A w \in Entities : ttc'[c][w] = IF w = e THEN ttc[c][w] + cbBuf[c][k] ELSE ttc[c][w]
    BY <1>0, <1>4, <1>10 DEF EndUpdateTtc, SyncTypeOK, clientVars
  <2>2. ttc[c][e] + cbBuf[c][k] >= local[c][e]
    <3>1. cbBuf[c][k] + prev[c][e] >= Announced(c, e)
      BY <1>0, <2>1 DEF View, ViewCallbacks
    <3>2. AllHeard(c, e) = 0
      <4>1. \A j \in Callbacks : cbStage[c][j] = "prev" => cb[c][j].entity # e
        BY <1>7, <2>1
      <4> QED  BY <4>1, NothingHeard
    <3>3. Owed(c, e) = ttc[c][e] - prev[c][e]
      BY <1>2 DEF Owed
    <3>4. cbBuf[c][k] \in Int /\ ToldParts(c, e)
      BY <1>0, <2>1 DEF SyncTypeOK
    <3> QED  BY <3>1, <3>2, <3>3, <3>4 DEF ToldParts
  <2>3. ViewTables(c)'
    BY <1>0, <1>1, <1>3, <2>1, <2>2 DEF ViewTables
  <2>4. ViewHelper(c)'
    BY <1>0, <1>1, <1>3, <1>4, <2>1 DEF View, ViewHelper
  <2>5. ViewCallbacks(c)'
    <3>1. \A j \in Callbacks : cbStage'[c][j] \in {"old", "ttc"} => cbStage'[c][j] = cbStage[c][j]
      BY <1>0, <2>1 DEF SyncTypeOK
    <3>2. \A j \in Callbacks : cbStage[c][j] # "idle" =>
            Announced(c, cb[c][j].entity)' = Announced(c, cb[c][j].entity)
      BY <1>3, <1>4, <2>1
    <3> QED  BY <1>0, <2>1, <3>1, <3>2 DEF View, ViewCallbacks
  <2> QED  BY <1>6, <2>3, <2>4, <2>5 DEF View
<1>11. CASE EndUpdatePrev(c, k)
  <2> DEFINE e == cb[c][k].entity
  <2>1. /\ ttc' = ttc /\ cbStage[c][k] = "prev" /\ e \in Entities
        /\ \A j \in Callbacks \ {k} : /\ cbStage'[c][j] = cbStage[c][j]
                                      /\ cbBuf'[c][j] = cbBuf[c][j] /\ cb'[c][j] = cb[c][j]
        /\ cbStage'[c][k] = "idle"
        /\ \A w \in Entities : w # e => prev'[c][w] = prev[c][w]
    BY <1>0, <1>4, <1>11 DEF EndUpdatePrev, FinishCallback, SyncTypeOK, ClientInv, ClientTypeOK
  <2>2. ViewTables(c)'
    BY <1>0, <1>1, <1>3, <2>1 DEF View, ViewTables
  <2>3. ViewHelper(c)'
    <3>1. stage[c] \in {"old", "prev"} => prev'[c][word[c]] = prev[c][word[c]]
      BY <1>4, <1>7, <2>1
    <3> QED  BY <1>0, <1>1, <1>3, <1>4, <3>1 DEF View, ViewHelper
  <2>4. ASSUME NEW j \in Callbacks
        PROVE  /\ cbStage'[c][j] = "old" => cbBuf'[c][j] >= Announced(c, cb[c][j].entity)'
               /\ cbStage'[c][j] = "ttc" =>
                    cbBuf'[c][j] + prev'[c][cb'[c][j].entity] >= Announced(c, cb[c][j].entity)'
    <3>1. CASE j = k
      BY <2>1, <3>1
    <3>2. CASE j # k
      <4>1. cbStage[c][j] # "idle" => prev'[c][cb[c][j].entity] = prev[c][cb[c][j].entity]
        BY <1>4, <1>7, <2>1, <3>2
      <4>2. cbStage[c][j] # "idle" =>
              Announced(c, cb[c][j].entity)' = Announced(c, cb[c][j].entity)
        BY <1>3, <1>4, <2>1, <3>2
      <4> QED  BY <1>0, <2>1, <3>2, <4>1, <4>2 DEF View, ViewCallbacks
    <3> QED  BY <3>1, <3>2
  <2>5. ViewCallbacks(c)'
    BY <2>4 DEF ViewCallbacks
  <2> QED  BY <1>6, <2>2, <2>3, <2>5 DEF View
<1> QED  BY <1>8, <1>9, <1>10, <1>11 DEF EndPutNget

\* An answer is the count of the entry right after the call.
LEMMA ServeView ==
  ASSUME ViewState, SyncTypeOK', TokensConserved', NEW call \in pending, Serve(call)
  PROVE  ViewInv'
<1> DEFINE who == call.client
           e == call.word
           b == [call |-> call, counts |-> table'[call.word]]
<1>1. /\ UNCHANGED <<clientVars, local, ttc, prev, phase, ind, bufVars>>
      /\ pending' = pending \ {call} /\ answers' = answers \cup {b}
  BY DEF Serve, Map!Combine, tableVars
<1>2. who \in Clients /\ e \in Entities /\ call.val \in Int
  BY DEF ViewState, SyncTypeOK, CallSet, CallRecords
<1>3. b.call = call /\ b.counts = table'[e]
  OBVIOUS
<1> HIDE DEF b
<1>4. Msg(call) \in Unended(who) /\ Msg(call).entity = e
  BY <1>2, UnendedParts DEF ViewState, CallsInFlight, Msg
<1>5. ASSUME NEW c \in Clients, NEW w \in Entities
      PROVE  Announced(c, w)' = Announced(c, w) /\ Sending(c, w)' = Sending(c, w)
  BY <1>1, HeardSame DEF Heard, Owed, Sending, Announced, clientVars, bufVars
<1>6. Told(who, e)' = Announced(who, e)
  <2>1. ToldParts(who, e)'
    BY <1>2, ToldBefore DEF ViewState
  <2>2. Sending(who, e) = 0
    BY <1>2, <1>4, ViewOf DEF Sending, Alone
  <2>3. OnTheWay(who, e)' = 0
    <3>1. ASSUME NEW p \in pending', p.client = who, p.word = e PROVE FALSE
      <4>1. p \in pending /\ p # call
        BY <1>1, <3>1
      <4>2. Msg(p) \in Unended(who) /\ Msg(p).entity = e
        BY <1>2, <3>1, <4>1, UnendedParts DEF ViewState, CallsInFlight, Msg
      <4>3. Msg(p) = Msg(call)
        BY <1>2, <1>4, <4>2, ViewOf DEF EntityOnce
      <4>4. p.id = call.id
        BY <4>3 DEF Msg
      <4> QED  BY <3>1, <4>1, <4>4 DEF ViewState, CallsInFlight, SameMsg
    <3>2. IsFiniteSet(pending')
      BY DEF SyncTypeOK, CallSet
    <3>3. Carried(pending', who, e) = 0
      BY <3>1, <3>2, CarriedNothing
    <3> QED  BY <3>3 DEF OnTheWay, Carried, Val, Sent
  <2> QED  BY <1>2, <1>5, <2>1, <2>2, <2>3 DEF ToldParts
<1>7. ASSUME NEW c \in Clients, NEW w \in Entities PROVE Told(c, w)' >= 0
  <2>1. CASE c = who /\ w = e
    BY <1>2, <1>6, <2>1, ViewOf
  <2>2. CASE ~(c = who /\ w = e)
    <3>1. Told(c, w) \in Int /\ Told(c, w) >= 0
      BY ViewOf, PartsType DEF ViewState, Parts
    <3> QED  BY <2>2, <3>1, ServeTold DEF ViewState
  <2> QED  BY <2>1, <2>2
<1>8. table'[e] >= Announced(who, e)
  <2>1. SyncTypeOK' /\ TokensConserved' /\ AllTold' => Covered'
    BY TableCovers, PTL
  <2>2. CountsOf(table', e) >= Told(who, e)'
    BY <1>2, <1>7, <2>1 DEF AllTold, Covered
  <2>3. table'[e] = CountsOf(table', e)
    <3>1. table' = Accumulated(table, e, call.val)
      BY SameTable DEF Serve, Map!Combine
    <3> QED  BY <1>2, <3>1 DEF Accumulated, Stored, CountsOf
  <2> QED  BY <1>6, <2>2, <2>3
<1> SUFFICES ASSUME NEW c \in Clients PROVE View(c)'
  BY DEF ViewInv
<1>9. View(c) /\ SyncTypeOK /\ Links(c) /\ ClientInv
  BY ViewOf DEF ViewState
<1>10. ViewTables(c)'
  BY <1>1, <1>5, <1>7, <1>9 DEF View, ViewTables
<1>11. ViewHelper(c)'
  <2>1. stage[c] \in {"old", "prev"} => word[c] \in Entities
    BY <1>9, WordType DEF Links
  <2> QED  BY <1>1, <1>5, <1>9, <2>1 DEF View, ViewHelper, clientVars, bufVars
<1>12. ViewCallbacks(c)'
  <2>1. \A k \in Callbacks : cbStage[c][k] # "idle" => cb[c][k].entity \in Entities
    BY <1>9, WordType DEF Links
  <2> QED  BY <1>1, <1>5, <1>9, <2>1 DEF View, ViewCallbacks, clientVars, bufVars
<1>13. ViewAnswers(c)'
  <2>1. ASSUME NEW a \in answers', a.call.client = c PROVE a.counts >= Announced(c, a.call.word)'
    <3>1. CASE a \in answers
      <4>1. a.call.word \in Entities /\ a.counts >= Announced(c, a.call.word)
        BY <1>9, <2>1, <3>1 DEF View, ViewAnswers, SyncTypeOK, CallRecords
      <4> QED  BY <1>5, <4>1
    <3>2. CASE a = b
      BY <1>2, <1>3, <1>5, <1>8, <2>1, <3>2
    <3> QED  BY <1>1, <2>1, <3>1, <3>2
  <2> QED  BY <2>1 DEF ViewAnswers
<1> QED  BY <1>10, <1>11, <1>12, <1>13 DEF View

\* Every step keeps the view.
LEMMA ViewStep ==
  ASSUME ViewState, SyncTypeOK', TokensConserved, TokensConserved', Next
  PROVE  ViewInv'
<1>1. ASSUME NEW c \in Clients, Act(c), NEW d \in Clients PROVE View(d)'
  <2>1. CASE d # c
    <3>1. Untouched(d)
      BY <1>1, <2>1, OthersUntouched DEF ViewState, ClientInv
    <3>2. \A w \in Entities : Told(d, w)' = Told(d, w)
      BY <1>1, <2>1, OthersTold DEF ViewState
    <3>3. answers' \subseteq answers
      BY <1>1 DEF Act, Initialize, PutInitial, Map!Put, Arrive, Pass, GetInitial, Change,
         Synchronize, ReadCounts, SubtractOld, UpdatePrev, SendDelta, Map!Invoke, Window,
         EndPutNget, BeginEnd, Map!Receive, EndSubtractOld, EndUpdateTtc, EndUpdatePrev, mapVars
    <3> QED  BY <3>1, <3>2, <3>3, UntouchedView DEF ViewState, ViewInv
  <2>2. View(c)'
    BY <1>1, InitializeView, ChangeView, SynchronizeView, EndPutNgetView DEF Act
  <2> QED  BY <2>1, <2>2
<1>2. ASSUME NEW call \in pending, Serve(call) PROVE ViewInv'
  BY <1>2, ServeView
<1> QED  BY <1>1, <1>2, NextActs DEF ViewInv

-----------------------------------------------------------------------------
(***************************************************************************)
(* The invariant of every run, and what it gives.                          *)
(***************************************************************************)
\* All that is known of every reachable state.
SyncInv ==
  /\ ClientInv /\ SyncTypeOK /\ LinksInv /\ BarrierOK /\ Met
  /\ TokensConserved /\ CallsInFlight /\ Quiet

\* Before the first step nothing has been told.
LEMMA NothingTold ==
  ASSUME Init, SyncTypeOK, NEW c \in Clients, NEW w \in Entities
  PROVE  Told(c, w) = 0 /\ Announced(c, w) = 0
<1>1. ToldParts(c, w)
  BY ToldIs DEF AllParts
<1>2. Owed(c, w) = local[c][w]
  <2>1. phase[c] = "put" /\ ind[c] = 0 /\ 0 <= w /\ ttc[c][w] = local[c][w]
    BY ClientAssumption DEF Init, Entities
  <2> QED  BY <2>1 DEF Owed
<1>3. Sending(c, w) = 0
  BY DEF Init, Sending
<1>4. AllHeard(c, w) = 0
  BY NothingHeard DEF Init
<1>5. OnTheWay(c, w) = 0
  <2>1. Carried({}, c, w) = 0
    BY CarriedNothing, FS_EmptySet
  <2> QED  BY <2>1, OnTheWayIs DEF Init, Map!MapInit
<1> QED  BY <1>1, <1>2, <1>3, <1>4, <1>5 DEF ToldParts

\* The invariant holds initially,
LEMMA SyncInitInv == Init => SyncInv
<1> SUFFICES ASSUME Init PROVE SyncInv
  OBVIOUS
<1>1. SyncTypeOK /\ LinksInv
  BY SyncInitType
<1>2. ClientInv
  BY ClientInitInv DEF Init, ClientInv
<1>3. BarrierOK
  BY BarrierStarts DEF Init
<1>4. Met
  BY DEF Init, Barrier!BarrierInit, Met
<1>5. TokensConserved
  <2> SUFFICES ASSUME NEW w \in Entities PROVE CountsOf(table, w) = SumFunction(Parts(w))
    BY DEF TokensConserved, Parts
  <2>1. DOMAIN Parts(w) = Clients /\ \A c \in Clients : Parts(w)[c] = 0
    BY <1>1, NothingTold DEF Parts
  <2>2. SumFunction(Parts(w)) = 0
    BY <2>1, TotalZero, SyncAssumption
  <2>3. CountsOf(table, w) = 0
    BY DEF Init, Map!MapInit, CountsOf
  <2> QED  BY <2>2, <2>3
<1>6. CallsInFlight
  BY DEF Init, Map!MapInit, CallsInFlight
<1>7. Quiet
  <2>1. \A c \in Clients, w \in Entities : ~Fetched(c, w)
    BY DEF Init, Fetched
  <2>2. local = InitialCount /\ \A c \in Clients : QuietTables(c) /\ QuietThreads(c)
    BY <2>1 DEF Init, QuietTables, QuietThreads
  <2>3. QuietCalls
    BY DEF Init, Map!MapInit, QuietCalls
  <2> QED  BY <2>2, <2>3 DEF Quiet, QuietState
<1> QED  BY <1>1, <1>2, <1>3, <1>4, <1>5, <1>6, <1>7 DEF SyncInv

\* A state with the same variables is the same.
LEMMA NothingHappens ==
  ASSUME UNCHANGED vars, NEW d \in Clients
  PROVE  /\ Untouched(d) /\ Unended(d)' = Unended(d)
         /\ \A w : OnTheWay(d, w)' = OnTheWay(d, w) /\ Told(d, w)' = Told(d, w)
<1>1. Untouched(d)
  BY DEF vars, clientVars, tableVars, bufVars, Untouched, Same
<1>2. Unended(d)' = Unended(d)
  BY <1>1, UntouchedUnended DEF Untouched
<1>3. \A w : OnTheWay(d, w)' = OnTheWay(d, w)
  BY DEF vars, mapVars, OnTheWay
<1> QED  BY <1>1, <1>2, <1>3, UntouchedTold

\* ... when nothing happens,
LEMMA SyncStutter ==
  ASSUME SyncInv, UNCHANGED vars
  PROVE  SyncInv'
<1>1. ClientInv'
  BY ClientStepInv DEF SyncInv, vars
<1>2. SyncTypeOK'
  BY DEF SyncInv, SyncTypeOK, vars, mapVars, tableVars, bufVars
<1>3. LinksInv'
  BY NothingHappens, UntouchedLinks DEF SyncInv, LinksInv
<1>4. BarrierOK' /\ Met'
  BY BarrierStays DEF SyncInv, Met, vars, barrierVars
<1>5. TokensConserved'
  BY NothingHappens, TokensStay DEF SyncInv, vars, mapVars
<1>6. CallsInFlight'
  BY DEF SyncInv, CallsInFlight, vars, mapVars, clientVars
<1>7. Quiet'
  <2>1. QuietState => QuietState'
    <3>1. UNCHANGED <<local, pending, answers>>
      BY DEF vars, tableVars, mapVars
    <3> QED  BY <3>1, NothingHappens, UntouchedQuiet DEF QuietState, QuietCalls
  <2> QED  BY <2>1 DEF SyncInv, Quiet, vars, tableVars
<1> QED  BY <1>1, <1>2, <1>3, <1>4, <1>5, <1>6, <1>7 DEF SyncInv

\* ... and after every step.
LEMMA SyncStepInv == SyncInv /\ [Next]_vars => SyncInv'
<1> SUFFICES ASSUME SyncInv, Next PROVE SyncInv'
  BY SyncStutter
<1> USE DEF SyncInv
<1>1. ClientInv'
  BY StepsOfTheWindow, ClientStepInv
<1>2. SyncTypeOK'
  BY SyncTypeStep
<1>3. LinksInv'
  BY LinksStep
<1>4. BarrierOK' /\ Met'
  BY MetStep
<1>5. TokensConserved'
  BY <1>2, TokensStep
<1>6. CallsInFlight'
  BY CallsStep
<1>7. Quiet'
  BY QuietStays DEF QuietInv
<1> QED  BY <1>1, <1>2, <1>3, <1>4, <1>5, <1>6, <1>7

\* The invariant, in every reachable state: the types, what the helper and the
\* window know of each other, the barrier, the calls in flight and the counts.
THEOREM SyncInvCorrect == Spec => []SyncInv
BY SyncInitInv, SyncStepInv, PTL DEF Spec

\* Whatever the threads and the messages interleave, the map holds of every
\* word exactly what the clients have told it.
THEOREM NoTokenIsLost == Spec => []TokensConserved
<1>1. SyncInv => TokensConserved
  BY DEF SyncInv
<1> QED  BY <1>1, SyncInvCorrect, PTL

\* A client that has fetched a word in initialize() has the counts of everybody.
THEOREM InitialCountsAreComplete == Spec => []InitialCountsComplete
<1>1. SyncInv => InitialCountsComplete
  BY DEF SyncInv, Quiet, QuietState, QuietTables, InitialTotal, InitialCountsComplete
<1> QED  BY <1>1, SyncInvCorrect, PTL

-----------------------------------------------------------------------------
(***************************************************************************)
(* The counts of a client, when its window never holds two messages of a   *)
(* word.                                                                   *)
(***************************************************************************)
\* The steps of the learners are steps of their windows.
THEOREM LearnersUseTheWindow == Spec => ClientSpec
<1>1. Init => ClientInit
  BY DEF Init
<1> QED  BY <1>1, StepsOfTheWindow, PTL DEF Spec, ClientSpec

ViewsInv == AloneInv /\ ViewInv

\* The views hold initially,
LEMMA ViewsInitInv == Init => ViewsInv
<1> SUFFICES ASSUME Init PROVE ViewsInv
  OBVIOUS
<1>0. SyncTypeOK
  BY SyncInitType
<1>1. \A c \in Clients : Unended(c) = {} /\ stage[c] = "idle"
  BY DEF Init, ClientInit, Unended
<1>2. AloneInv
  BY <1>1 DEF AloneInv, Alone, EntityOnce
<1>3. ASSUME NEW c \in Clients PROVE View(c)
  <2>1. ViewTables(c)
    <3>1. \A w \in Entities : Announced(c, w) = 0 /\ Told(c, w) = 0
      BY <1>0, NothingTold
    <3>2. \A w \in Entities : ttc[c][w] = local[c][w] /\ ttc[c][w] \in Int
      BY <1>0 DEF Init, SyncTypeOK
    <3> QED  BY <3>1, <3>2 DEF ViewTables
  <2>2. ViewHelper(c) /\ ViewCallbacks(c) /\ ViewAnswers(c)
    BY DEF Init, Map!MapInit, ViewHelper, ViewCallbacks, ViewAnswers
  <2> QED  BY <2>1, <2>2 DEF View
<1> QED  BY <1>2, <1>3 DEF ViewsInv, ViewInv

\* ... when nothing happens,
LEMMA ViewsStutter ==
  ASSUME ViewsInv, UNCHANGED vars
  PROVE  ViewsInv'
<1>1. ASSUME NEW c \in Clients PROVE Alone(c)' /\ EntityOnce(c)'
  <2>1. Untouched(c) /\ Unended(c)' = Unended(c) /\ Alone(c) /\ EntityOnce(c)
    BY NothingHappens DEF ViewsInv, AloneInv
  <2> QED  BY <2>1 DEF Alone, EntityOnce, Untouched, Same
<1>2. ASSUME NEW c \in Clients PROVE View(c)'
  <2>1. Untouched(c) /\ View(c) /\ \A w \in Entities : Told(c, w)' = Told(c, w)
    BY NothingHappens DEF ViewsInv, ViewInv
  <2>2. answers' \subseteq answers
    BY DEF vars, mapVars
  <2> QED  BY <2>1, <2>2, UntouchedView
<1> QED  BY <1>1, <1>2 DEF ViewsInv, AloneInv, ViewInv

\* ... and after every step of clients whose windows hold no word twice.
LEMMA ViewsStepInv ==
  SyncInv /\ SyncInv' /\ OneMessagePerEntity /\ ViewsInv /\ [Next]_vars => ViewsInv'
<1> SUFFICES ASSUME SyncInv, SyncInv', OneMessagePerEntity, ViewsInv, Next PROVE ViewsInv'
  BY ViewsStutter
<1> USE DEF SyncInv, ViewsInv
<1>1. AloneInv'
  BY AloneStep
<1>2. ViewInv'
  BY ViewStep DEF ViewState
<1> QED  BY <1>1, <1>2

\* With a vocabulary that goes round the window once more, no client's count
\* of a word ever falls below the tokens of its own documents: the updater
\* finds the topic it takes a token from.
THEOREM OldTopicIsFound ==
  NumEntities >= 2 * MaxMsgs - 1 => (Spec => []OldTopicFound)
<1> SUFFICES ASSUME NumEntities >= 2 * MaxMsgs - 1 PROVE Spec => []OldTopicFound
  OBVIOUS
<1>1. Spec => []OneMessagePerEntity
  BY EntitiesAreExclusive, LearnersUseTheWindow, PTL
<1>2. ViewsInv => OldTopicFound
  BY DEF ViewsInv, ViewInv, View, ViewTables, OldTopicFound
<1> QED  BY <1>1, <1>2, SyncInvCorrect, ViewsInitInv, ViewsStepInv, PTL DEF Spec
=============================================================================
