------------------------------ MODULE JobProofs ------------------------------
(***************************************************************************)
(* Theorems of Job, and of the barrier of its servers (ClientBarrier), for *)
(* any number of machines and attempts, with failures at any point.        *)
(*                                                                         *)
(* The barriers of the scripts hold because a file in a barrier's          *)
(* directory is a task that has come to it, and because a task gets past   *)
(* it only when all files are there (Marked); the rest follows from where  *)
(* the tasks can be between two barriers.                                  *)
(***************************************************************************)
EXTENDS Job, TLAPS, FiniteSetTheorems

-----------------------------------------------------------------------------
(***************************************************************************)
(* The barrier of a server, for any finite set of clients and any number   *)
(* of rounds.  It only counts calls.  That all clients are there when it   *)
(* opens follows because the count is the size of the set of clients that  *)
(* wait, each of them once, and that all have been through equally many    *)
(* rounds: BarrierInv says both.                                           *)
(***************************************************************************)
\* The count is that of the calls waiting for their answers.
CountsCalls == clientsDone = Cardinality(cbs)

\* Every round answers everybody.
SameRounds == \A c, d \in Clients : released[c] = released[d]

BarrierInv ==
  /\ BarrierTypeOK
  /\ CountsCalls
  /\ SameRounds
  /\ SomebodyIsMissing

-----------------------------------------------------------------------------
\* A call that joins a set of others.
LEMMA CallAdds ==
  ASSUME cbs \subseteq Clients, NEW c \in Clients, c \notin cbs
  PROVE  /\ Cardinality(Clients) \in Nat
         /\ Cardinality(cbs) \in Nat
         /\ Cardinality(cbs \cup {c}) = Cardinality(cbs) + 1
         /\ Cardinality(cbs \cup {c}) <= Cardinality(Clients)
         /\ Cardinality(cbs \cup {c}) = Cardinality(Clients) => cbs \cup {c} = Clients
<1>1. IsFiniteSet(cbs)
  BY BarrierAssumption, FS_Subset
<1>2. cbs \cup {c} \in SUBSET Clients
  OBVIOUS
<1> QED  BY <1>1, <1>2, BarrierAssumption, FS_CardinalityType, FS_AddElement, FS_Subset

LEMMA BarrierInitInv == BarrierInit => BarrierInv
<1> SUFFICES ASSUME BarrierInit PROVE BarrierInv
  OBVIOUS
<1>1. Cardinality(Clients) \in Nat
  BY BarrierAssumption, FS_CardinalityType
<1>2. CountsCalls
  BY FS_EmptySet DEF BarrierInit, CountsCalls
<1> QED  BY <1>1, <1>2 DEF BarrierInit, BarrierInv, BarrierTypeOK, SameRounds, SomebodyIsMissing

LEMMA BarrierStep == BarrierInv /\ [BarrierNext]_barrierVars => BarrierInv'
<1> SUFFICES ASSUME BarrierInv, [BarrierNext]_barrierVars PROVE BarrierInv'
  OBVIOUS
<1> USE DEF BarrierInv, BarrierTypeOK, CountsCalls, SameRounds, SomebodyIsMissing
<1>1. ASSUME NEW c \in Clients, WaitForAllClients(c), LastCall PROVE BarrierInv'
  <2>1. cbs \cup {c} = Clients
    BY <1>1, CallAdds DEF WaitForAllClients, LastCall
  <2>2. /\ clientsDone' = 0
        /\ cbs' = {}
        /\ arrived' = [arrived EXCEPT ![c] = @ + 1]
        /\ released' = [d \in Clients |-> released[d] + 1]
    BY <1>1, <2>1 DEF WaitForAllClients
  <2>3. BarrierTypeOK' /\ CountsCalls'
    BY <1>1, <2>2, CallAdds, FS_EmptySet DEF WaitForAllClients
  <2>4. SameRounds'
    BY <2>2
  <2>5. SomebodyIsMissing'
    <3>1. \A d \in Clients : arrived[d] = released[d] + (IF d \in cbs THEN 1 ELSE 0)
      OBVIOUS
    <3>2. c \notin cbs /\ \A d \in Clients \ {c} : d \in cbs
      BY <1>1, <2>1 DEF WaitForAllClients
    <3> QED  BY <2>2, <3>1, <3>2
  <2> QED  BY <2>3, <2>4, <2>5
<1>2. ASSUME NEW c \in Clients, WaitForAllClients(c), ~LastCall PROVE BarrierInv'
  <2>1. /\ clientsDone' = clientsDone + 1
        /\ cbs' = cbs \cup {c}
        /\ c \notin cbs
        /\ arrived' = [arrived EXCEPT ![c] = @ + 1]
        /\ released' = released
    BY <1>2 DEF WaitForAllClients
  <2>2. /\ clientsDone' = Cardinality(cbs')
        /\ clientsDone' \in 0..Cardinality(Clients)
        /\ cbs' # Clients
    BY <1>2, <2>1, CallAdds DEF LastCall
  <2>3. BarrierTypeOK' /\ CountsCalls' /\ SameRounds'
    BY <2>1, <2>2
  <2>4. SomebodyIsMissing'
    BY <2>1, <2>2
  <2> QED  BY <2>3, <2>4
<1>3. CASE UNCHANGED barrierVars
  BY <1>3 DEF barrierVars
<1> QED  BY <1>1, <1>2, <1>3 DEF BarrierNext

-----------------------------------------------------------------------------
\* BarrierInv is an inductive invariant of the barrier.
THEOREM BarrierInvCorrect == BarrierSpec => []BarrierInv
BY BarrierInitInv, BarrierStep, PTL DEF BarrierSpec

(***************************************************************************)
(* In every round, no client's n-th call is answered before every client   *)
(* has made n calls.                                                       *)
(***************************************************************************)
THEOREM BarrierHolds == BarrierSpec => []NobodyPassesEarly
<1>1. BarrierInv => NobodyPassesEarly
  <2> SUFFICES ASSUME BarrierInv, NEW c \in Clients, NEW d \in Clients
               PROVE  released[c] <= arrived[d]
    BY DEF NobodyPassesEarly
  <2>1. released[c] = released[d] /\ released[d] \in Nat
    BY DEF BarrierInv, SameRounds, BarrierTypeOK
  <2>2. arrived[d] = released[d] + (IF d \in cbs THEN 1 ELSE 0)
    BY DEF BarrierInv, SomebodyIsMissing
  <2> QED  BY <2>1, <2>2
<1> QED  BY <1>1, BarrierInvCorrect, PTL

(***************************************************************************)
(* The barrier never holds all of its clients: the last one opens it.      *)
(***************************************************************************)
THEOREM BarrierOpens == BarrierSpec => [](BarrierTypeOK /\ SomebodyIsMissing)
<1>1. BarrierInv => BarrierTypeOK /\ SomebodyIsMissing
  BY DEF BarrierInv
<1> QED  BY <1>1, BarrierInvCorrect, PTL

-----------------------------------------------------------------------------
\* The stages of the script by number.
LEMMA Stages ==
  /\ DOMAIN Script = 1..15
  /\ Script[1] = "clid_names" /\ Script[2] = "start_server" /\ Script[3] = "ice"
  /\ Script[4] = "store" /\ Script[5] = "meet" /\ Script[6] = "learn"
  /\ Script[7] = "learntopics" /\ Script[8] = "put_output" /\ Script[9] = "output"
  /\ Script[10] = "merge" /\ Script[11] = "global_dict" /\ Script[12] = "get_counts"
  /\ Script[13] = "merge_topcnts" /\ Script[14] = "put_counts" /\ Script[15] = "end"
BY DEF Script

LEMMA Indices ==
  /\ Index("clid_names") = 1 /\ Index("ice") = 3 /\ Index("store") = 4
  /\ Index("learntopics") = 7 /\ Index("output") = 9 /\ Index("global_dict") = 11
  /\ Index("get_counts") = 12 /\ Index("merge_topcnts") = 13
<1>1. \A i \in 1..15 : /\ Script[i] = "clid_names" <=> i = 1
                       /\ Script[i] = "ice" <=> i = 3
                       /\ Script[i] = "store" <=> i = 4
                       /\ Script[i] = "learntopics" <=> i = 7
                       /\ Script[i] = "output" <=> i = 9
                       /\ Script[i] = "global_dict" <=> i = 11
                       /\ Script[i] = "get_counts" <=> i = 12
                       /\ Script[i] = "merge_topcnts" <=> i = 13
  BY Stages
<1> QED  BY <1>1, Stages DEF Index

\* Where a task is that is at a stage.
LEMMA AtStage ==
  ASSUME NEW p \in Partitions, pc[p] \in 1..15
  PROVE  /\ At(p, "start_server") => pc[p] = 2
         /\ At(p, "store") => pc[p] = 4
         /\ At(p, "meet") => pc[p] = 5
         /\ At(p, "learn") => pc[p] = 6
         /\ At(p, "put_output") => pc[p] = 8
         /\ At(p, "merge") => pc[p] = 10
         /\ At(p, "get_counts") => pc[p] = 12
         /\ At(p, "put_counts") => pc[p] = 14
         /\ \A b \in Barriers : At(p, b) => pc[p] = Index(b)
BY Stages, Indices DEF At, Barriers

LEMMA BarrierIndices ==
  /\ \A b \in Barriers : Index(b) \in {1, 3, 7, 9, 11, 13}
  /\ \A b, d \in Barriers : Index(b) = Index(d) => b = d
BY Indices DEF Barriers

LEMMA PartitionsAreN ==
  /\ IsFiniteSet(Partitions) /\ Cardinality(Partitions) = N
  /\ 0 \in Partitions
  /\ \A S \in SUBSET Partitions : Cardinality(S) >= N => S = Partitions
<1>1. Partitions = 0..N - 1 /\ N \in Nat \ {0}
  BY JobAssumption DEF Partitions
<1>2. IsFiniteSet(Partitions) /\ Cardinality(Partitions) = N
  BY <1>1, FS_Interval
<1>3. ASSUME NEW S \in SUBSET Partitions, Cardinality(S) >= N PROVE S = Partitions
  <2>1. Cardinality(S) <= Cardinality(Partitions) /\ Cardinality(S) \in Nat
    BY <1>2, FS_Subset, FS_CardinalityType
  <2>2. Cardinality(Partitions) = Cardinality(S)
    BY <1>1, <1>2, <1>3, <2>1
  <2> QED  BY <1>2, <2>2, FS_Subset
<1> QED  BY <1>1, <1>2, <1>3

-----------------------------------------------------------------------------
\* TypeOK, action by action.
LEMMA TypeInit == Init => TypeOK
BY JobAssumption, Stages DEF Init, TypeOK

LEMMA WorkTypes ==
  ASSUME TypeOK, NEW p \in Partitions, Work(p) PROVE TypeOK'
<1> USE DEF TypeOK, outputDir, servers
<1>1. /\ pc[p] \in 1..15 /\ pc \in [Partitions -> 1..15]
  BY Stages
<1>2. ASSUME NEW b \in Barriers, Mark(p, b) PROVE TypeOK'
  <2>1. marks' \in [Barriers -> SUBSET Partitions]
    BY <1>2 DEF Mark
  <2>2. lost' \in [Barriers -> SUBSET Partitions]
    BY <1>2 DEF Mark
  <2> QED  BY <1>2, <2>1, <2>2 DEF Mark
<1>3. ASSUME NEW b \in Barriers, Pass(p, b) PROVE TypeOK'
  BY <1>1, <1>3, AtStage, BarrierIndices, Stages DEF Pass, GoOn
<1>4. ASSUME StartServer(p) PROVE TypeOK'
  <2>1. stored' \in [Partitions -> [Partitions -> Nat]]
    BY <1>4 DEF StartServer
  <2>2. pc' \in [Partitions -> DOMAIN Script]
    BY <1>1, <1>4, AtStage, Stages DEF StartServer, GoOn
  <2> QED  BY <1>4, <2>1, <2>2 DEF StartServer
<1>5. ASSUME Store(p) PROVE TypeOK'
  <2>1. stored' \in [Partitions -> [Partitions -> Nat]]
    BY <1>5 DEF Store
  <2> QED  BY <1>1, <1>5, <2>1, AtStage, Stages DEF Store, GoOn
<1>6. ASSUME Meet(p) PROVE TypeOK'
  BY <1>6 DEF Meet
<1>7. ASSUME Part(p) PROVE TypeOK'
  BY <1>1, <1>7, AtStage, Stages DEF Part, GoOn
<1>8. ASSUME Learn(p) PROVE TypeOK'
  BY <1>1, <1>8, AtStage, Stages DEF Learn, GoOn
<1>9. ASSUME PutOutput(p) PROVE TypeOK'
  BY <1>1, <1>9, AtStage, Stages DEF PutOutput, GoOn
<1>10. ASSUME Merge(p) PROVE TypeOK'
  <2>1. CASE p = 0 /\ outputs # Partitions
    BY <1>10, <2>1 DEF Merge
  <2>2. CASE ~(p = 0 /\ outputs # Partitions)
    BY <1>1, <1>10, <2>2, AtStage, Stages DEF Merge, GoOn
  <2> QED  BY <2>1, <2>2
<1>11. ASSUME GetCounts(p) PROVE TypeOK'
  BY <1>1, <1>11, AtStage, Stages DEF GetCounts, GoOn
<1>12. ASSUME PutCounts(p) PROVE TypeOK'
  BY <1>1, <1>12, AtStage, Stages DEF PutCounts, GoOn
<1> QED  BY <1>2, <1>3, <1>4, <1>5, <1>6, <1>7, <1>8, <1>9, <1>10, <1>11, <1>12 DEF Work

LEMMA TypeStep == TypeOK /\ [Next]_vars => TypeOK'
<1> SUFFICES ASSUME TypeOK, [Next]_vars PROVE TypeOK'
  OBVIOUS
<1>1. ASSUME NEW p \in Partitions, Step(p) PROVE TypeOK'
  <2>1. CASE Work(p)
    BY <2>1, WorkTypes
  <2>2. CASE Abort(p)
    BY <2>2, Stages, Indices DEF Abort, TypeOK, outputDir, servers
  <2>3. CASE Fail(p)
    BY <2>3 DEF Fail, TypeOK, outputDir
  <2>4. CASE Timeout(p)
    BY <2>4 DEF Timeout, TypeOK, outputDir, servers
  <2> QED  BY <1>1, <2>1, <2>2, <2>3, <2>4 DEF Step
<1>2. CASE Retry
  <2>1. attempt' \in 1..max_attempts
    BY <1>2, JobAssumption DEF Retry, TypeOK
  <2>2. alive' \subseteq Partitions
    BY <1>2 DEF Retry, AttemptFails, TypeOK
  <2> QED  BY <1>2, <2>1, <2>2, Stages DEF Retry, AttemptFails, TypeOK
<1>3. CASE GiveUp
  BY <1>3 DEF GiveUp, AttemptFails, TypeOK, outputDir
<1>4. CASE Succeed
  BY <1>4 DEF Succeed, TypeOK, outputDir, servers
<1>5. CASE UNCHANGED vars
  BY <1>5 DEF vars, TypeOK, outputDir, servers
<1> QED  BY <1>1, <1>2, <1>3, <1>4, <1>5 DEF Next
-----------------------------------------------------------------------------
(***************************************************************************)
(* The barriers of the scripts.                                            *)
(***************************************************************************)
Marked ==
  \A p \in Partitions : \A b \in Barriers :
    /\ p \in marks[b] => pc[p] >= Index(b)
    /\ pc[p] > Index(b) => marks[b] = Partitions

LEMMA MarkedInit == Init => Marked
BY BarrierIndices DEF Init, Marked

\* A task goes on: from a barrier only if all files are there.
LEMMA GoOnKeepsMarked ==
  ASSUME TypeOK, Marked, NEW p \in Partitions, GoOn(p), UNCHANGED marks,
         \A b \in Barriers : pc[p] = Index(b) => marks[b] = Partitions
  PROVE  Marked'
BY Stages, BarrierIndices DEF TypeOK, Marked, GoOn

LEMMA WorkKeepsMarked ==
  ASSUME TypeOK, Marked, NEW p \in Partitions, Work(p) PROVE Marked'
<1>1. pc[p] \in 1..15 /\ pc \in [Partitions -> 1..15]
  BY Stages DEF TypeOK
<1>2. ASSUME NEW b \in Barriers, Mark(p, b) PROVE Marked'
  <2>1. pc[p] = Index(b) /\ UNCHANGED pc
    BY <1>1, <1>2, AtStage DEF Mark
  <2> QED  BY <1>1, <1>2, <2>1, BarrierIndices DEF Mark, Marked, TypeOK
<1>3. ASSUME NEW b \in Barriers, Pass(p, b) PROVE Marked'
  <2>1. pc[p] = Index(b)
    BY <1>1, <1>3, AtStage DEF Pass
  <2>2. marks[b] = Partitions
    BY <1>3, PartitionsAreN DEF Pass, AllDone, TypeOK
  <2>3. \A d \in Barriers : pc[p] = Index(d) => marks[d] = Partitions
    BY <2>1, <2>2, BarrierIndices
  <2> QED  BY <1>3, <2>3, GoOnKeepsMarked DEF Pass, outputDir
<1>4. pc[p] \notin {1, 3, 7, 9, 11, 13} =>
         \A b \in Barriers : pc[p] = Index(b) => marks[b] = Partitions
  BY BarrierIndices
<1>5. CASE StartServer(p)
  BY <1>1, <1>4, <1>5, AtStage, GoOnKeepsMarked DEF StartServer, outputDir
<1>6. CASE Store(p)
  BY <1>1, <1>4, <1>6, AtStage, GoOnKeepsMarked DEF Store, outputDir
<1>7. CASE Meet(p)
  BY <1>7 DEF Meet, outputDir, Marked
<1>8. CASE Part(p)
  BY <1>1, <1>4, <1>8, AtStage, GoOnKeepsMarked DEF Part, outputDir
<1>9. CASE Learn(p)
  BY <1>1, <1>4, <1>9, AtStage, GoOnKeepsMarked DEF Learn, outputDir
<1>10. CASE PutOutput(p)
  <2>1. CASE p \in lterr
    BY <1>10, <2>1 DEF PutOutput, Marked
  <2>2. CASE p \notin lterr
    BY <1>1, <1>4, <1>10, <2>2, AtStage, GoOnKeepsMarked DEF PutOutput
  <2> QED  BY <2>1, <2>2
<1>11. CASE Merge(p)
  <2>1. CASE p = 0 /\ outputs # Partitions
    BY <1>11, <2>1 DEF Merge, Marked
  <2>2. CASE ~(p = 0 /\ outputs # Partitions)
    BY <1>1, <1>4, <1>11, <2>2, AtStage, GoOnKeepsMarked DEF Merge
  <2> QED  BY <2>1, <2>2
<1>12. CASE GetCounts(p)
  BY <1>1, <1>4, <1>12, AtStage, GoOnKeepsMarked DEF GetCounts, outputDir
<1>13. CASE PutCounts(p)
  BY <1>1, <1>4, <1>13, AtStage, GoOnKeepsMarked DEF PutCounts
<1> QED  BY <1>2, <1>3, <1>5, <1>6, <1>7, <1>8, <1>9, <1>10, <1>11, <1>12, <1>13
         DEF Work

LEMMA MarkedStep == TypeOK /\ Marked /\ [Next]_vars => Marked'
<1> SUFFICES ASSUME TypeOK, Marked, [Next]_vars PROVE Marked'
  OBVIOUS
<1>1. ASSUME NEW p \in Partitions, Step(p) PROVE Marked'
  <2>1. CASE Work(p)
    BY <2>1, WorkKeepsMarked
  <2>2. CASE Abort(p)
    <3>1. pc[p] \in {4, 5, 6} /\ pc' = [pc EXCEPT ![p] = 7] /\ UNCHANGED marks
      BY <2>2, AtStage, Stages, Indices DEF Abort, TypeOK, outputDir
    <3> QED  BY <3>1, BarrierIndices, Stages DEF TypeOK, Marked
  <2>3. CASE Fail(p)
    BY <2>3 DEF Fail, outputDir, Marked
  <2>4. CASE Timeout(p)
    BY <2>4 DEF Timeout, outputDir, Marked
  <2> QED  BY <1>1, <2>1, <2>2, <2>3, <2>4 DEF Step
<1>2. CASE Retry
  BY <1>2, BarrierIndices DEF Retry, Marked
<1>3. CASE GiveUp
  BY <1>3 DEF GiveUp, outputDir, Marked
<1>4. CASE Succeed
  BY <1>4 DEF Succeed, outputDir, Marked
<1>5. CASE UNCHANGED vars
  BY <1>5 DEF vars, outputDir, Marked
<1> QED  BY <1>1, <1>2, <1>3, <1>4, <1>5 DEF Next

LEMMA MarkedHolds ==
  ASSUME TypeOK, Marked PROVE BarriersHold
BY BarrierIndices, Stages DEF TypeOK, Marked, BarriersHold

\* Nobody gets past a barrier of the scripts that another has not reached.
THEOREM ScriptBarriersHold == Spec => []BarriersHold
<1>1. Init => TypeOK /\ Marked
  BY TypeInit, MarkedInit
<1>2. TypeOK /\ Marked /\ [Next]_vars => (TypeOK /\ Marked)'
  BY TypeStep, MarkedStep
<1>3. TypeOK /\ Marked => BarriersHold
  BY MarkedHolds
<1> QED  BY <1>1, <1>2, <1>3, PTL DEF Spec

-----------------------------------------------------------------------------
(***************************************************************************)
(* What the tasks have done by their place in the script: a started server *)
(* runs until its task is through, unless the attempt is lost; a learner   *)
(* that has failed gets no further than the put of its output; and the     *)
(* outputs, the dictionary and the dumps are there that the place says.    *)
(* That the outputs are there nobody has seen before the merge.            *)
(***************************************************************************)
Lost == job = "failed" \/ \E q \in Partitions : task[q] = "failed"

Served == \A p \in Partitions : pc[p] \in 3..14 => p \in alive \/ Lost

Delivered ==
  /\ \A p \in Partitions : pc[p] > 8 => p \notin lterr
  /\ \A p \in Partitions : pc[p] = 15 => p \in dumps
  /\ pc[0] > 10 => outputs = Partitions /\ global_dict = Partitions
  /\ \A p \in Partitions : task[p] = "done" => pc[p] = 15
  /\ job = "succeeded" => \A p \in Partitions : task[p] = "done"

JobInv == TypeOK /\ Marked /\ Served /\ Delivered

LEMMA JobInit == Init => JobInv
<1> SUFFICES ASSUME Init PROVE JobInv
  OBVIOUS
<1>1. TypeOK /\ Marked
  BY TypeInit, MarkedInit
<1>2. Served /\ Delivered
  BY PartitionsAreN DEF Init, Served, Delivered
<1> QED  BY <1>1, <1>2 DEF JobInv

\* What a task does to itself by going on.
LEMMA GoOnKeepsServed ==
  ASSUME TypeOK, Served, NEW p \in Partitions, GoOn(p), job = "running",
         UNCHANGED <<job, task>>, alive \subseteq alive',
         pc[p] # 2 \/ p \in alive', pc[p] # 14
  PROVE  Served'
<1>1. pc \in [Partitions -> 1..15]
  BY Stages DEF TypeOK
<1> QED  BY <1>1 DEF Served, Lost, GoOn

LEMMA WorkKeepsServed ==
  ASSUME TypeOK, Served, NEW p \in Partitions, Work(p) PROVE Served'
<1>1. pc[p] \in 1..15 /\ pc \in [Partitions -> 1..15]
  BY Stages DEF TypeOK
<1> USE DEF servers
<1>2. ASSUME NEW b \in Barriers, Mark(p, b) PROVE Served'
  BY <1>2 DEF Mark, Served, Lost
<1>3. ASSUME NEW b \in Barriers, Pass(p, b) PROVE Served'
  BY <1>1, <1>3, AtStage, BarrierIndices, GoOnKeepsServed DEF Pass, At
<1>4. CASE StartServer(p)
  BY <1>1, <1>4, AtStage, GoOnKeepsServed DEF StartServer, At
<1>5. CASE Store(p)
  BY <1>1, <1>5, AtStage, GoOnKeepsServed DEF Store, At
<1>6. CASE Meet(p)
  BY <1>6 DEF Meet, Served, Lost
<1>7. CASE Part(p)
  BY <1>1, <1>7, AtStage, GoOnKeepsServed DEF Part, At
<1>8. CASE Learn(p)
  BY <1>1, <1>8, AtStage, GoOnKeepsServed DEF Learn, At
<1>9. CASE PutOutput(p)
  <2>1. CASE p \in lterr
    BY <1>9, <2>1 DEF PutOutput, Served, Lost, TypeOK
  <2>2. CASE p \notin lterr
    BY <1>1, <1>9, <2>2, AtStage, GoOnKeepsServed DEF PutOutput, At
  <2> QED  BY <2>1, <2>2
<1>10. CASE Merge(p)
  <2>1. CASE p = 0 /\ outputs # Partitions
    BY <1>10, <2>1 DEF Merge, Served, Lost, TypeOK
  <2>2. CASE ~(p = 0 /\ outputs # Partitions)
    BY <1>1, <1>10, <2>2, AtStage, GoOnKeepsServed DEF Merge, At
  <2> QED  BY <2>1, <2>2
<1>11. CASE GetCounts(p)
  BY <1>1, <1>11, AtStage, GoOnKeepsServed DEF GetCounts, At
<1>12. CASE PutCounts(p)
  <2>1. /\ pc[p] = 14 /\ pc' = [pc EXCEPT ![p] = 15] /\ task[p] = "running"
        /\ alive' = alive \ {p} /\ task' = [task EXCEPT ![p] = "done"]
        /\ job' = job
    <3>1. pc[p] = 14
      BY <1>1, <1>12, AtStage DEF PutCounts
    <3>2. pc' = [pc EXCEPT ![p] = pc[p] + 1]
      BY <1>12 DEF PutCounts, GoOn
    <3> QED  BY <1>12, <3>1, <3>2 DEF PutCounts, At
  <2>2. Lost => Lost'
    BY <2>1 DEF Lost, TypeOK
  <2> QED  BY <1>1, <2>1, <2>2 DEF Served
<1> QED  BY <1>2, <1>3, <1>4, <1>5, <1>6, <1>7, <1>8, <1>9, <1>10, <1>11, <1>12
         DEF Work

LEMMA ServedStep == TypeOK /\ Served /\ [Next]_vars => Served'
<1> SUFFICES ASSUME TypeOK, Served, [Next]_vars PROVE Served'
  OBVIOUS
<1>1. ASSUME NEW p \in Partitions, Step(p) PROVE Served'
  <2>1. CASE Work(p)
    BY <2>1, WorkKeepsServed
  <2>2. CASE Abort(p)
    <3>1. /\ pc[p] \in {4, 5, 6} /\ pc' = [pc EXCEPT ![p] = 7]
          /\ UNCHANGED <<job, task, alive>>
      BY <2>2, AtStage, Stages, Indices DEF Abort, TypeOK, servers
    <3> QED  BY <3>1, Stages DEF TypeOK, Served, Lost
  <2>3. CASE Fail(p) \/ Timeout(p)
    <3>1. task' = [task EXCEPT ![p] = "failed"]
      BY <2>3 DEF Fail, Timeout
    <3>2. Lost'
      BY <3>1 DEF Lost, TypeOK
    <3> QED  BY <3>2 DEF Served
  <2> QED  BY <1>1, <2>1, <2>2, <2>3 DEF Step
<1>2. CASE Retry
  BY <1>2 DEF Retry, Served
<1>3. CASE GiveUp
  BY <1>3 DEF GiveUp, Served, Lost
<1>4. CASE Succeed
  BY <1>4 DEF Succeed, servers, Served, Lost
<1>5. CASE UNCHANGED vars
  BY <1>5 DEF vars, servers, Served, Lost
<1> QED  BY <1>1, <1>2, <1>3, <1>4, <1>5 DEF Next

\* A task that has gone on past the output or the merge has done it.
LEMMA GoOnKeepsDelivered ==
  ASSUME TypeOK, Delivered, NEW p \in Partitions, GoOn(p), job = "running",
         task[p] = "running", UNCHANGED <<job, task, lterr, global_dict>>,
         UNCHANGED outputs, dumps \subseteq dumps',
         pc[p] \notin {8, 10, 14}
  PROVE  Delivered'
<1>1. pc \in [Partitions -> 1..15] /\ 0 \in Partitions
  BY Stages, PartitionsAreN DEF TypeOK
<1>2. pc' = [pc EXCEPT ![p] = pc[p] + 1]
  BY DEF GoOn
<1>3. pc'[0] > 10 => pc[0] > 10
  BY <1>1, <1>2
<1>4. \A q \in Partitions : pc'[q] > 8 => pc[q] > 8
  BY <1>1, <1>2
<1>5. \A q \in Partitions : pc'[q] = 15 => pc[q] = 15
  BY <1>1, <1>2
<1>6. \A q \in Partitions : task[q] = "done" => pc'[q] = pc[q]
  BY <1>1, <1>2
<1> QED  BY <1>3, <1>4, <1>5, <1>6 DEF Delivered

LEMMA WorkKeepsDelivered ==
  ASSUME TypeOK, Marked, Delivered, NEW p \in Partitions, Work(p) PROVE Delivered'
<1>1. pc[p] \in 1..15 /\ pc \in [Partitions -> 1..15] /\ 0 \in Partitions
  BY Stages, PartitionsAreN DEF TypeOK
<1> USE DEF outputDir
<1>2. ASSUME NEW b \in Barriers, Mark(p, b) PROVE Delivered'
  BY <1>2 DEF Mark, Delivered
<1>3. ASSUME NEW b \in Barriers, Pass(p, b) PROVE Delivered'
  BY <1>1, <1>3, AtStage, BarrierIndices, GoOnKeepsDelivered DEF Pass, At
<1>4. CASE StartServer(p)
  BY <1>1, <1>4, AtStage, GoOnKeepsDelivered DEF StartServer, At
<1>5. CASE Store(p)
  BY <1>1, <1>5, AtStage, GoOnKeepsDelivered DEF Store, At
<1>6. CASE Meet(p)
  BY <1>6 DEF Meet, Delivered
<1>7. CASE Part(p)
  BY <1>1, <1>7, AtStage, GoOnKeepsDelivered DEF Part, At
<1>8. CASE Learn(p)
  BY <1>1, <1>8, AtStage, GoOnKeepsDelivered DEF Learn, At
<1>9. CASE PutOutput(p)
  <2>1. /\ pc[p] = 8 /\ task[p] = "running" /\ job = "running"
        /\ outputs' \in {outputs, outputs \cup {p}}
        /\ UNCHANGED <<job, lterr, global_dict, dumps>>
        /\ pc' = pc \/ (p \notin lterr /\ pc' = [pc EXCEPT ![p] = 9])
        /\ task' = task \/ task' = [task EXCEPT ![p] = "failed"]
    BY <1>1, <1>9, AtStage DEF PutOutput, At, GoOn
  <2>2. outputs = Partitions => outputs' = Partitions
    BY <2>1
  <2>3. pc'[0] > 10 => pc[0] > 10
    BY <1>1, <2>1
  <2>4. \A q \in Partitions : pc'[q] > 8 => q \notin lterr
    BY <1>1, <2>1 DEF Delivered
  <2>5. \A q \in Partitions : pc'[q] = 15 => q \in dumps
    BY <1>1, <2>1 DEF Delivered
  <2>6. \A q \in Partitions : task'[q] = "done" => pc'[q] = 15
    BY <1>1, <2>1 DEF Delivered, TypeOK
  <2> QED  BY <2>1, <2>2, <2>3, <2>4, <2>5, <2>6 DEF Delivered
<1>10. CASE Merge(p)
  <2>1. pc[p] = 10 /\ task[p] = "running" /\ job = "running"
    BY <1>1, <1>10, AtStage DEF Merge, At
  <2>2. UNCHANGED <<job, lterr, outputs, dumps>>
    BY <1>10 DEF Merge
  <2>3. CASE p = 0 /\ outputs # Partitions
    <3>1. task' = [task EXCEPT ![p] = "failed"] /\ UNCHANGED <<pc, global_dict>>
      BY <1>10, <2>3 DEF Merge
    <3> QED  BY <1>1, <2>1, <2>2, <3>1 DEF Delivered, TypeOK
  <2>4. CASE ~(p = 0 /\ outputs # Partitions)
    <3>1. /\ pc' = [pc EXCEPT ![p] = pc[p] + 1] /\ UNCHANGED task
          /\ global_dict' = IF p = 0 THEN outputs ELSE global_dict
      BY <1>10, <2>4 DEF Merge, GoOn
    <3>2. pc' = [pc EXCEPT ![p] = 11]
      BY <2>1, <3>1
    <3>3. p = 0 => outputs = Partitions
      BY <2>4
    <3> QED  BY <1>1, <2>1, <2>2, <3>1, <3>2, <3>3 DEF Delivered
  <2> QED  BY <2>3, <2>4
<1>11. CASE GetCounts(p)
  BY <1>1, <1>11, AtStage, GoOnKeepsDelivered DEF GetCounts, At
<1>12. CASE PutCounts(p)
  <2>1. /\ pc[p] = 14 /\ pc' = [pc EXCEPT ![p] = 15] /\ task[p] = "running"
        /\ task' = [task EXCEPT ![p] = "done"] /\ dumps' = dumps \cup {p}
        /\ job = "running" /\ UNCHANGED <<job, lterr, outputs, global_dict>>
    <3>1. pc[p] = 14
      BY <1>1, <1>12, AtStage DEF PutCounts
    <3>2. pc' = [pc EXCEPT ![p] = pc[p] + 1]
      BY <1>12 DEF PutCounts, GoOn
    <3> QED  BY <1>12, <3>1, <3>2 DEF PutCounts, At
  <2> QED  BY <1>1, <2>1 DEF Delivered, TypeOK
<1> QED  BY <1>2, <1>3, <1>4, <1>5, <1>6, <1>7, <1>8, <1>9, <1>10, <1>11, <1>12
         DEF Work

LEMMA DeliveredStep == TypeOK /\ Marked /\ Delivered /\ [Next]_vars => Delivered'
<1> SUFFICES ASSUME TypeOK, Marked, Delivered, [Next]_vars PROVE Delivered'
  OBVIOUS
<1>0. pc \in [Partitions -> 1..15] /\ 0 \in Partitions
  BY Stages, PartitionsAreN DEF TypeOK
<1>1. ASSUME NEW p \in Partitions, Step(p) PROVE Delivered'
  <2>1. CASE Work(p)
    BY <2>1, WorkKeepsDelivered
  <2>2. CASE Abort(p)
    <3>1. /\ pc[p] \in {4, 5, 6} /\ pc' = [pc EXCEPT ![p] = 7]
          /\ task[p] = "running" /\ job = "running" /\ lterr' = lterr \cup {p}
          /\ UNCHANGED <<job, task, outputs, dumps, global_dict>>
      BY <1>0, <2>2, AtStage, Indices DEF Abort, At, outputDir
    <3> QED  BY <1>0, <3>1 DEF Delivered
  <2>3. CASE Fail(p) \/ Timeout(p)
    BY <2>3 DEF Fail, Timeout, At, outputDir, Delivered, TypeOK
  <2> QED  BY <1>1, <2>1, <2>2, <2>3 DEF Step
<1>2. CASE Retry
  BY <1>0, <1>2 DEF Retry, AttemptFails, Delivered
<1>3. CASE GiveUp
  BY <1>3 DEF GiveUp, outputDir, Delivered
<1>4. CASE Succeed
  BY <1>4 DEF Succeed, outputDir, Delivered
<1>5. CASE UNCHANGED vars
  BY <1>5 DEF vars, outputDir, Delivered
<1> QED  BY <1>1, <1>2, <1>3, <1>4, <1>5 DEF Next

LEMMA JobStep == JobInv /\ [Next]_vars => JobInv'
BY TypeStep, MarkedStep, ServedStep, DeliveredStep DEF JobInv

\* The servers outlive the tasks that need them.
THEOREM ServersOutlive == Spec => []ServersOutliveClients
<1>1. JobInv => ServersOutliveClients
  <2> SUFFICES ASSUME JobInv, NEW p \in Partitions, pc[p] \in 4..12
               PROVE  alive = Partitions \/ Lost
    BY Indices DEF ServersOutliveClients, Lost
  <2>1. "ice" \in Barriers /\ "merge_topcnts" \in Barriers
    BY DEF Barriers
  <2>2. pc \in [Partitions -> 1..15]
    BY Stages DEF JobInv, TypeOK
  <2>3. \A q \in Partitions : pc[q] >= 3 /\ ~(pc[q] > 13)
    BY <2>1, <2>2, MarkedHolds, Indices DEF JobInv, BarriersHold
  <2>4. \A q \in Partitions : pc[q] \in 3..14
    BY <2>2, <2>3
  <2> QED  BY <2>4 DEF JobInv, Served, TypeOK
<1> QED  BY <1>1, JobInit, JobStep, PTL DEF Spec

\* A job that succeeds has everything.
THEOREM SuccessComplete == Spec => []SuccessIsComplete
<1>1. JobInv => SuccessIsComplete
  <2> SUFFICES ASSUME JobInv, job = "succeeded"
               PROVE  /\ outputs = Partitions /\ dumps = Partitions /\ lterr = {}
                      /\ global_dict = Partitions
    BY DEF SuccessIsComplete
  <2>1. \A p \in Partitions : pc[p] = 15
    BY DEF JobInv, Delivered
  <2>2. \A p \in Partitions : p \in dumps /\ p \notin lterr
    BY <2>1 DEF JobInv, Delivered
  <2>3. outputs = Partitions /\ global_dict = Partitions
    BY <2>1, PartitionsAreN DEF JobInv, Delivered
  <2> QED  BY <2>2, <2>3 DEF JobInv, TypeOK
<1> QED  BY <1>1, JobInit, JobStep, PTL DEF Spec

-----------------------------------------------------------------------------
(***************************************************************************)
(* The counts in the servers, if no server survives its attempt: the       *)
(* barrier of server 0 is a sound ClientBarrier while the server runs, who *)
(* has arrived there has stored its counts, and a server that is started   *)
(* is started before anybody stores.                                       *)
(***************************************************************************)
Met ==
  /\ cbs \subseteq Clients
  /\ arrived \in [Clients -> Nat] /\ released \in [Clients -> Nat]
  /\ SameRounds /\ SomebodyIsMissing
  /\ 0 \in alive => CountsCalls
  /\ \A p \in Partitions : arrived[p] >= 1 => pc[p] >= 5
  /\ \A p \in Partitions : pc[p] = 6 => released[p] >= 1

StoredOnce ==
  \A q \in alive : \A r \in Partitions :
    /\ pc[r] <= 4 => stored[q][r] = 0
    /\ pc[r] \in {5, 6} \/ arrived[r] >= 1 => stored[q][r] = 1

BarrierState == <<cbs, arrived, released>>

LEMMA MetInit == Init => Met /\ StoredOnce
<1> SUFFICES ASSUME Init PROVE Met /\ StoredOnce
  OBVIOUS
<1>1. Clients # {} /\ Clients = Partitions
  BY PartitionsAreN DEF Partitions
<1>2. BarrierInv
  BY BarrierInitInv DEF Init
<1> QED  BY <1>1, <1>2 DEF Init, BarrierInit, BarrierInv, BarrierTypeOK, Met, StoredOnce

\* A step that leaves the barrier and its clients where they are in it.
LEMMA KeepsMet ==
  ASSUME Met, UNCHANGED BarrierState,
         0 \in alive' => 0 \in alive /\ UNCHANGED clientsDone,
         \A p \in Partitions : pc[p] >= 5 => pc'[p] >= 5,
         \A p \in Partitions : pc'[p] = 6 => released[p] >= 1
  PROVE  Met'
BY DEF Met, BarrierState, SameRounds, SomebodyIsMissing, CountsCalls, Partitions

\* A step of a task that is neither about to store nor between that and learning.
LEMMA KeepsStored ==
  ASSUME StoredOnce, UNCHANGED <<stored, arrived>>, alive' \subseteq alive,
         \A p \in Partitions : pc'[p] <= 4 => pc[p] <= 4,
         \A p \in Partitions : pc'[p] \in {5, 6} => pc[p] \in {5, 6}
  PROVE  StoredOnce'
BY DEF StoredOnce

LEMMA GoOnKeepsCounts ==
  ASSUME JobInv, Met, StoredOnce, NEW p \in Partitions, GoOn(p),
         UNCHANGED BarrierState, UNCHANGED <<clientsDone, stored>>,
         alive' \subseteq alive,
         pc[p] # 4, pc[p] = 5 => released[p] >= 1
  PROVE  Met' /\ StoredOnce'
<1>1. pc \in [Partitions -> 1..15]
  BY Stages DEF JobInv, TypeOK
<1>2. pc' = [pc EXCEPT ![p] = pc[p] + 1]
  BY DEF GoOn
<1>3. /\ \A q \in Partitions : pc[q] >= 5 => pc'[q] >= 5
      /\ \A q \in Partitions : pc'[q] <= 4 => pc[q] <= 4
      /\ \A q \in Partitions : pc'[q] \in {5, 6} => pc[q] \in {5, 6}
  BY <1>1, <1>2
<1>4. \A q \in Partitions : pc'[q] = 6 => released[q] >= 1
  BY <1>1, <1>2 DEF Met
<1>5. arrived' = arrived
  BY DEF BarrierState
<1>6. Met'
  BY <1>3, <1>4, KeepsMet
<1> QED  BY <1>3, <1>5, <1>6, KeepsStored

LEMMA StartServerKeepsCounts ==
  ASSUME JobInv, Met, StoredOnce, NEW p \in Partitions, StartServer(p)
  PROVE  Met' /\ StoredOnce'
<1>1. pc \in [Partitions -> 1..15] /\ pc[p] = 2
  BY AtStage, Stages DEF JobInv, TypeOK, StartServer
<1>2. pc' = [pc EXCEPT ![p] = 3] /\ UNCHANGED BarrierState
  <2>1. pc' = [pc EXCEPT ![p] = pc[p] + 1]
    BY DEF StartServer, GoOn
  <2> QED  BY <1>1, <2>1 DEF StartServer, BarrierState
<1>3. \A r \in Partitions : pc[r] <= 3
  <2>1. "ice" \in Barriers
    BY DEF Barriers
  <2> QED  BY <1>1, <2>1, MarkedHolds, Indices DEF JobInv, BarriersHold
<1>4. \A r \in Partitions : arrived[r] = 0
  BY <1>1, <1>3 DEF Met, Partitions
<1>5. cbs = {}
  <2>1. Clients # {}
    BY PartitionsAreN DEF Partitions
  <2>2. \A c \in Clients : arrived[c] = released[c] + (IF c \in cbs THEN 1 ELSE 0)
    BY <2>1 DEF Met, SomebodyIsMissing
  <2>3. \A c \in Clients : c \notin cbs
    BY <1>4, <2>2 DEF Met, Partitions
  <2> QED  BY <2>3 DEF Met
<1>6. 0 \in alive' => CountsCalls'
  <2>1. Cardinality(cbs') = 0
    BY <1>2, <1>5, FS_EmptySet DEF BarrierState
  <2>2. CASE p \in alive
    BY <1>2, <2>2 DEF StartServer, Met, CountsCalls, BarrierState
  <2>3. CASE p \notin alive
    <3>1. CASE p = 0
      BY <2>1, <2>3, <3>1 DEF StartServer, CountsCalls
    <3>2. CASE p # 0
      BY <1>2, <2>3, <3>2 DEF StartServer, Met, CountsCalls, BarrierState
    <3> QED  BY <3>1, <3>2
  <2> QED  BY <2>2, <2>3
<1>7. Met'
  BY <1>1, <1>2, <1>3, <1>4, <1>6 DEF Met, BarrierState, SameRounds, SomebodyIsMissing, Partitions
<1>8. StoredOnce'
  <2> SUFFICES ASSUME NEW q \in alive', NEW r \in Partitions
               PROVE  stored'[q][r] = 0 /\ pc'[r] <= 4 /\ arrived'[r] = 0
    BY <1>1, <1>2, <1>4 DEF StoredOnce
  <2>1. pc'[r] <= 4 /\ arrived'[r] = 0
    BY <1>1, <1>2, <1>3, <1>4 DEF BarrierState
  <2>2. q \in alive => stored[q][r] = 0
    BY <1>1, <1>3 DEF StoredOnce
  <2>3. stored'[q][r] = 0
    BY <2>2 DEF StartServer, JobInv, TypeOK
  <2> QED  BY <2>1, <2>3
<1> QED  BY <1>7, <1>8

LEMMA StoreKeepsCounts ==
  ASSUME JobInv, Met, StoredOnce, NEW p \in Partitions, Store(p)
  PROVE  Met' /\ StoredOnce'
<1>1. pc \in [Partitions -> 1..15] /\ pc[p] = 4
  BY AtStage, Stages DEF JobInv, TypeOK, Store
<1>2. pc' = [pc EXCEPT ![p] = 5] /\ UNCHANGED <<BarrierState, clientsDone, alive>>
  <2>1. pc' = [pc EXCEPT ![p] = pc[p] + 1]
    BY DEF Store, GoOn
  <2> QED  BY <1>1, <2>1 DEF Store, BarrierState, barrierVars
<1>3. Met'
  <2>1. UNCHANGED BarrierState /\ alive' = alive /\ clientsDone' = clientsDone
    BY <1>2
  <2>2. /\ \A q \in Partitions : pc[q] >= 5 => pc'[q] >= 5
        /\ \A q \in Partitions : pc'[q] = 6 => released[q] >= 1
    BY <1>1, <1>2 DEF Met
  <2> QED  BY <2>1, <2>2, KeepsMet
<1>4. StoredOnce'
  <2> SUFFICES ASSUME NEW q \in alive, NEW r \in Partitions
               PROVE  /\ pc'[r] <= 4 => stored'[q][r] = 0
                      /\ pc'[r] \in {5, 6} \/ arrived[r] >= 1 => stored'[q][r] = 1
    BY <1>2 DEF StoredOnce, BarrierState
  <2>1. q \in Partitions
    BY DEF JobInv, TypeOK
  <2>2. stored'[q][r] = IF r = p THEN stored[q][r] + 1 ELSE stored[q][r]
    BY <2>1 DEF Store, JobInv, TypeOK
  <2>3. CASE r = p
    <3>1. stored[q][r] = 0
      BY <1>1, <2>3 DEF StoredOnce
    <3> QED  BY <1>1, <1>2, <2>2, <2>3, <3>1
  <2>4. CASE r # p
    <3>1. pc'[r] = pc[r]
      BY <1>1, <1>2, <2>4
    <3> QED  BY <2>2, <2>4, <3>1 DEF StoredOnce
  <2> QED  BY <2>3, <2>4
<1> QED  BY <1>3, <1>4

LEMMA MeetKeepsCounts ==
  ASSUME JobInv, Met, StoredOnce, NEW p \in Partitions, Meet(p)
  PROVE  Met' /\ StoredOnce'
<1>1. pc \in [Partitions -> 1..15] /\ pc[p] = 5 /\ UNCHANGED <<pc, alive, stored>>
  BY AtStage, Stages DEF JobInv, TypeOK, Meet
<1>2. BarrierInv
  <2>1. Cardinality(cbs) <= Cardinality(Clients) /\ Cardinality(cbs) \in Nat
        /\ Cardinality(Clients) \in Nat
    BY BarrierAssumption, FS_Subset, FS_CardinalityType DEF Met
  <2> QED  BY <2>1 DEF Meet, Met, BarrierInv, BarrierTypeOK, CountsCalls
<1>3. BarrierInv'
  BY <1>2, BarrierStep DEF Meet, BarrierNext, Partitions
<1>4. arrived' = [arrived EXCEPT ![p] = @ + 1]
  BY DEF Meet, WaitForAllClients
<1>5. \A q \in Partitions : arrived'[q] >= 1 => pc[q] >= 5
  BY <1>1, <1>4 DEF Met, Partitions
<1>6. \A c \in Clients : released'[c] >= released[c]
  BY DEF Meet, WaitForAllClients, Met
<1>7. \A q \in Partitions : pc[q] = 6 => released'[q] >= 1
  BY <1>3, <1>6 DEF Met, BarrierInv, BarrierTypeOK, Partitions
<1>8. Met'
  BY <1>1, <1>3, <1>5, <1>7 DEF Met, BarrierInv, BarrierTypeOK
<1>9. StoredOnce'
  BY <1>1, <1>4 DEF StoredOnce, Met, Partitions
<1> QED  BY <1>8, <1>9

LEMMA WorkKeepsCounts ==
  ASSUME JobInv, Met, StoredOnce, NEW p \in Partitions, Work(p)
  PROVE  Met' /\ StoredOnce'
<1>1. pc[p] \in 1..15 /\ pc \in [Partitions -> 1..15]
  BY Stages DEF JobInv, TypeOK
<1> USE DEF servers, barrierVars, BarrierState
<1>2. ASSUME NEW b \in Barriers, Mark(p, b) PROVE Met' /\ StoredOnce'
  BY <1>2, KeepsMet, KeepsStored DEF Mark, Met
<1>3. ASSUME NEW b \in Barriers, Pass(p, b) PROVE Met' /\ StoredOnce'
  BY <1>1, <1>3, AtStage, BarrierIndices, GoOnKeepsCounts DEF Pass
<1>4. CASE StartServer(p)
  BY <1>4, StartServerKeepsCounts
<1>5. CASE Store(p)
  BY <1>5, StoreKeepsCounts
<1>6. CASE Meet(p)
  BY <1>6, MeetKeepsCounts
<1>7. CASE Part(p)
  BY <1>1, <1>7, AtStage, GoOnKeepsCounts DEF Part
<1>8. CASE Learn(p)
  BY <1>1, <1>8, AtStage, GoOnKeepsCounts DEF Learn
<1>9. CASE PutOutput(p)
  <2>1. CASE p \in lterr
    BY <1>9, <2>1, KeepsMet, KeepsStored DEF PutOutput, Met
  <2>2. CASE p \notin lterr
    BY <1>1, <1>9, <2>2, AtStage, GoOnKeepsCounts DEF PutOutput
  <2> QED  BY <2>1, <2>2
<1>10. CASE Merge(p)
  <2>1. CASE p = 0 /\ outputs # Partitions
    BY <1>10, <2>1, KeepsMet, KeepsStored DEF Merge, Met
  <2>2. CASE ~(p = 0 /\ outputs # Partitions)
    BY <1>1, <1>10, <2>2, AtStage, GoOnKeepsCounts DEF Merge
  <2> QED  BY <2>1, <2>2
<1>11. CASE GetCounts(p)
  BY <1>1, <1>11, AtStage, GoOnKeepsCounts DEF GetCounts
<1>12. CASE PutCounts(p)
  BY <1>1, <1>12, AtStage, GoOnKeepsCounts DEF PutCounts
<1> QED  BY <1>2, <1>3, <1>4, <1>5, <1>6, <1>7, <1>8, <1>9, <1>10, <1>11, <1>12
         DEF Work

LEMMA CountsStep ==
  ASSUME ~Leftovers
  PROVE  JobInv /\ Met /\ StoredOnce /\ [Next]_vars => Met' /\ StoredOnce'
<1> SUFFICES ASSUME JobInv, Met, StoredOnce, [Next]_vars PROVE Met' /\ StoredOnce'
  OBVIOUS
<1>1. ASSUME NEW p \in Partitions, Step(p) PROVE Met' /\ StoredOnce'
  <2>1. CASE Work(p)
    BY <2>1, WorkKeepsCounts
  <2>2. CASE Abort(p)
    <3>1. /\ pc[p] \in {4, 5, 6} /\ pc' = [pc EXCEPT ![p] = 7]
          /\ UNCHANGED BarrierState /\ UNCHANGED <<clientsDone, alive, stored>>
      BY <2>2, AtStage, Stages, Indices DEF Abort, JobInv, TypeOK, servers, barrierVars, BarrierState
    <3>2. pc \in [Partitions -> 1..15]
      BY Stages DEF JobInv, TypeOK
    <3>3. Met'
      BY <3>1, <3>2, KeepsMet DEF Met
    <3> QED  BY <3>1, <3>2, <3>3, KeepsStored DEF BarrierState
  <2>3. CASE Fail(p) \/ Timeout(p)
    <3>1. /\ UNCHANGED BarrierState /\ UNCHANGED <<clientsDone, stored, pc>>
          /\ alive' \subseteq alive
      BY <2>3 DEF Fail, Timeout, servers, barrierVars, BarrierState
    <3>2. Met'
      BY <3>1, KeepsMet DEF Met
    <3> QED  BY <3>1, <3>2, KeepsStored DEF BarrierState
  <2> QED  BY <1>1, <2>1, <2>2, <2>3 DEF Step
<1>2. CASE Retry
  <2>1. /\ alive' = {} /\ cbs' = {} /\ arrived' = [p \in Partitions |-> 0]
        /\ released' = [p \in Partitions |-> 0] /\ pc' = [p \in Partitions |-> 1]
    BY <1>2 DEF Retry, AttemptFails
  <2>2. Clients # {}
    BY PartitionsAreN DEF Partitions
  <2> QED  BY <2>1, <2>2 DEF Met, StoredOnce, SameRounds, SomebodyIsMissing, Partitions
<1>3. CASE GiveUp
  <2>1. /\ alive' = {} /\ UNCHANGED BarrierState /\ UNCHANGED pc
    BY <1>3 DEF GiveUp, AttemptFails, BarrierState
  <2> QED  BY <2>1, KeepsMet DEF Met, StoredOnce
<1>4. CASE Succeed
  <2>1. UNCHANGED BarrierState /\ UNCHANGED <<clientsDone, alive, stored, pc>>
    BY <1>4 DEF Succeed, servers, barrierVars, BarrierState
  <2>2. Met'
    BY <2>1, KeepsMet DEF Met
  <2> QED  BY <2>1, <2>2, KeepsStored DEF BarrierState
<1>5. CASE UNCHANGED vars
  <2>1. UNCHANGED BarrierState /\ UNCHANGED <<clientsDone, alive, stored, pc>>
    BY <1>5 DEF vars, servers, barrierVars, BarrierState
  <2>2. Met'
    BY <2>1, KeepsMet DEF Met
  <2> QED  BY <2>1, <2>2, KeepsStored DEF BarrierState
<1> QED  BY <1>1, <1>2, <1>3, <1>4, <1>5 DEF Next

\* Nor does the servers' barrier let anybody pass before all have called.
THEOREM LearnersMeet ==
  ASSUME ~Leftovers PROVE Spec => []NobodyPassesEarly
<1>1. Init => JobInv /\ Met /\ StoredOnce
  BY JobInit, MetInit
<1>2. JobInv /\ Met /\ StoredOnce /\ [Next]_vars => (JobInv /\ Met /\ StoredOnce)'
  BY JobStep, CountsStep
<1>3. Met => NobodyPassesEarly
  <2> SUFFICES ASSUME Met, NEW c \in Clients, NEW d \in Clients
               PROVE  released[c] <= arrived[d]
    BY DEF NobodyPassesEarly
  <2>1. released[c] = released[d] /\ released[d] \in Nat
    BY DEF Met, SameRounds
  <2>2. arrived[d] = released[d] + (IF d \in cbs THEN 1 ELSE 0)
    BY DEF Met, SomebodyIsMissing
  <2> QED  BY <2>1, <2>2
<1> QED  BY <1>1, <1>2, <1>3, PTL DEF Spec

(***************************************************************************)
(* A learner samples with counts to which every partition has contributed  *)
(* once, if no DM_Server survives its attempt.                             *)
(***************************************************************************)
THEOREM CountsComplete ==
  ASSUME ~Leftovers PROVE Spec => []CountsAreComplete
<1>1. Init => JobInv /\ Met /\ StoredOnce
  BY JobInit, MetInit
<1>2. JobInv /\ Met /\ StoredOnce /\ [Next]_vars => (JobInv /\ Met /\ StoredOnce)'
  BY JobStep, CountsStep
<1>3. JobInv /\ Met /\ StoredOnce => CountsAreComplete
  <2> SUFFICES ASSUME JobInv, Met, StoredOnce, NEW p \in Partitions, At(p, "learn"),
                      NEW q \in alive, NEW r \in Partitions
               PROVE  stored[q][r] = 1
    BY DEF CountsAreComplete
  <2>1. pc[p] = 6
    BY AtStage, Stages DEF JobInv, TypeOK
  <2>2. released[r] >= 1 /\ released[r] \in Nat
    BY <2>1 DEF Met, SameRounds, Partitions
  <2>3. arrived[r] >= 1
    BY <2>2 DEF Met, SomebodyIsMissing, Partitions
  <2> QED  BY <2>3 DEF StoredOnce
<1> QED  BY <1>1, <1>2, <1>3, PTL DEF Spec
=============================================================================
