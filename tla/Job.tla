-------------------------------- MODULE Job --------------------------------
(***************************************************************************)
(* The distributed training job: runLDA.sh starts a Hadoop job whose tasks *)
(* all run LDA.sh, and starts it again when it fails.  The tasks keep in   *)
(* step through wait_for_all (functions.sh): each puts a file named after  *)
(* its partition into the barrier's directory and waits until the          *)
(* directory has as many files as there are tasks.  Between the barriers   *)
(* each starts a DM_Server, learns, puts its output, and helps to merge.   *)
(*                                                                         *)
(* A task is one partition on one machine.  Hadoop (external) lets every   *)
(* task run once, kills the others when one fails, and fails a task that   *)
(* stays silent.                                                           *)
(***************************************************************************)
EXTENDS ClientBarrier, Sequences

CONSTANTS
  N,            \* mapred_map_tasks, the number of machines
  max_attempts, \* runLDA.sh: 5
  Leftovers     \* whether the DM_Servers of a failed attempt may survive it

ASSUME JobAssumption ==
  /\ N \in Nat \ {0} /\ max_attempts \in Nat \ {0} /\ Leftovers \in BOOLEAN
  /\ Clients = 0..N - 1

\* Each task's learner is a client of the servers.
Partitions == Clients

VARIABLES
  job,        \* running, succeeded or failed
  attempt,    \* cur_attempt + 1
  task,       \* per partition: running, failed or done
  pc,         \* per partition: where its script is
  marks,      \* per barrier: the partitions that have a file in its directory
  lost,       \* per barrier: the partitions whose put of the file has failed
  lterr,      \* partitions whose learntopics ended with an error
  alive,      \* partitions on whose machines a DM_Server runs
  stored,     \* per server: how often it was sent each partition's counts
  outputs,    \* partitions whose dictionary is in their output directory
  global_dict,\* partitions whose dictionaries are in the merged one
  dumps       \* partitions with a dump of their part of the global counts

outputDir == <<marks, lost, outputs, global_dict, dumps>>
servers == <<alive, stored, barrierVars>>
vars == <<job, attempt, task, pc, lterr, servers, outputDir>>

\* The steps of LDA.sh when training the unigram model.
Script ==
  <<"clid_names", "start_server", "ice", "store", "meet", "learn", "learntopics",
    "put_output", "output", "merge", "global_dict", "get_counts",
    "merge_topcnts", "put_counts", "end">>

Barriers == {"clid_names", "ice", "learntopics", "output", "global_dict",
             "merge_topcnts"}

Index(stage) == CHOOSE i \in DOMAIN Script : Script[i] = stage

At(p, stage) == job = "running" /\ task[p] = "running" /\ Script[pc[p]] = stage

GoOn(p) == pc' = [pc EXCEPT ![p] = @ + 1]

Init ==
  /\ job = "running" /\ attempt = 1
  /\ task = [p \in Partitions |-> "running"]
  /\ pc = [p \in Partitions |-> 1]
  /\ marks = [b \in Barriers |-> {}] /\ lost = marks
  /\ lterr = {}
  /\ alive = {}
  /\ stored = [q \in Partitions |-> [p \in Partitions |-> 0]]
  /\ BarrierInit
  /\ outputs = {} /\ global_dict = {} /\ dumps = {}

-----------------------------------------------------------------------------
(***************************************************************************)
(* wait_for_all: put the file, then look until there are N files.  Nobody  *)
(* looks at how the put ends: a task whose file has not got there waits    *)
(* like the others.                                                        *)
(***************************************************************************)
Mark(p, b) ==
  /\ At(p, b) /\ p \notin marks[b] \cup lost[b]
  /\ \/ marks' = [marks EXCEPT ![b] = @ \cup {p}] /\ UNCHANGED lost
     \/ lost' = [lost EXCEPT ![b] = @ \cup {p}] /\ UNCHANGED marks
  /\ UNCHANGED <<job, attempt, task, pc, lterr, servers, outputs,
                 global_dict, dumps>>

\* Fault: the heading of the directory's listing is counted as a file.
AllDoneWithHeading(b) == Cardinality(marks[b]) + 1 >= N

AllDone(b) == Cardinality(marks[b]) >= N

Pass(p, b) ==
  /\ At(p, b) /\ p \in marks[b] \cup lost[b] /\ AllDone(b)
  /\ GoOn(p)
  /\ UNCHANGED <<job, attempt, task, lterr, servers, outputDir>>

(***************************************************************************)
(* DM_Server is started in the background.  If a server still has the      *)
(* port, the new one ends, and the test of $?, which is that of &, does    *)
(* not notice: the old server stays.                                       *)
(***************************************************************************)
StartServer(p) ==
  /\ At(p, "start_server")
  /\ alive' = alive \cup {p}
  /\ IF p \in alive
       THEN UNCHANGED <<stored, clientsDone>>
       ELSE /\ stored' = [stored EXCEPT ![p] = [q \in Partitions |-> 0]]
            /\ clientsDone' = IF p = 0 THEN 0 ELSE clientsDone
  /\ GoOn(p)
  /\ UNCHANGED <<job, attempt, task, lterr, cbs, arrived, released, outputDir>>

\* learntopics: the initial counts of the partition go to all the servers.
Store(p) ==
  /\ At(p, "store") /\ alive = Partitions
  /\ stored' = [q \in Partitions |-> [stored[q] EXCEPT ![p] = @ + 1]]
  /\ GoOn(p)
  /\ UNCHANGED <<job, attempt, task, lterr, alive, barrierVars, outputDir>>

\* learntopics: the barrier of server 0, and its answer.
Meet(p) ==
  /\ At(p, "meet") /\ arrived[p] = 0 /\ 0 \in alive
  /\ WaitForAllClients(p)
  /\ UNCHANGED <<job, attempt, task, pc, lterr, alive, stored, outputDir>>

Part(p) ==
  /\ At(p, "meet") /\ released[p] = 1
  /\ GoOn(p)
  /\ UNCHANGED <<job, attempt, task, lterr, servers, outputDir>>

\* learntopics: the iterations, which need all the servers.
Learn(p) ==
  /\ At(p, "learn") /\ alive = Partitions
  /\ GoOn(p)
  /\ UNCHANGED <<job, attempt, task, lterr, servers, outputDir>>

\* learntopics aborts: LDA.sh keeps its exit code and goes to the barrier.
Abort(p) ==
  /\ At(p, "store") \/ At(p, "meet") \/ At(p, "learn")
  /\ lterr' = lterr \cup {p}
  /\ pc' = [pc EXCEPT ![p] = Index("learntopics")]
  /\ UNCHANGED <<job, attempt, task, servers, outputDir>>

(***************************************************************************)
(* The output is put in any case, and only the exit code of learntopics is *)
(* checked: a put that fails goes unnoticed here.                          *)
(***************************************************************************)
PutOutput(p) ==
  /\ At(p, "put_output")
  /\ outputs' \in {outputs, outputs \cup {p}}
  /\ IF p \in lterr
       THEN task' = [task EXCEPT ![p] = "failed"] /\ UNCHANGED pc
       ELSE GoOn(p) /\ UNCHANGED task
  /\ UNCHANGED <<job, attempt, lterr, servers, marks, lost, global_dict, dumps>>

\* Fault: the dictionaries that are not there are left out.
MergeWhatIsThere(p) ==
  /\ At(p, "merge")
  /\ global_dict' = IF p = 0 THEN outputs ELSE global_dict
  /\ GoOn(p)
  /\ UNCHANGED <<job, attempt, task, lterr, servers, marks, lost, outputs, dumps>>

(***************************************************************************)
(* Partition 0 merges the dictionaries of all the outputs.  If one is not  *)
(* there, Merge_Dictionaries ends without writing the merged one, and the  *)
(* put of that is checked.                                                 *)
(***************************************************************************)
Merge(p) ==
  /\ At(p, "merge")
  /\ IF p = 0 /\ outputs # Partitions
       THEN task' = [task EXCEPT ![p] = "failed"] /\ UNCHANGED <<pc, global_dict>>
       ELSE /\ global_dict' = IF p = 0 THEN outputs ELSE global_dict
            /\ GoOn(p) /\ UNCHANGED task
  /\ UNCHANGED <<job, attempt, lterr, servers, marks, lost, outputs, dumps>>

\* Merge_Topic_Counts asks the servers for the words of its part.
GetCounts(p) ==
  /\ At(p, "get_counts") /\ alive = Partitions
  /\ GoOn(p)
  /\ UNCHANGED <<job, attempt, task, lterr, servers, outputDir>>

\* The part is put, and the script ends with pkill DM_Server.
PutCounts(p) ==
  /\ At(p, "put_counts")
  /\ dumps' = dumps \cup {p}
  /\ alive' = alive \ {p}
  /\ task' = [task EXCEPT ![p] = "done"]
  /\ GoOn(p)
  /\ UNCHANGED <<job, attempt, lterr, stored, barrierVars, marks, lost, outputs,
                 global_dict>>

-----------------------------------------------------------------------------
(***************************************************************************)
(* A task fails: a command whose exit code is checked fails, or the        *)
(* machine does, with or without its server.                               *)
(***************************************************************************)
Fail(p) ==
  /\ job = "running" /\ task[p] = "running"
  /\ task' = [task EXCEPT ![p] = "failed"]
  /\ alive' \in {alive, alive \ {p}}
  /\ UNCHANGED <<job, attempt, pc, lterr, stored, barrierVars, outputDir>>

\* Fault: the waiting learner counts as alive, because top runs beside it.
TimeoutNever(p) == FALSE /\ Fail(p)

\* Hadoop fails a task whose learner has been silent in the barrier.
Timeout(p) ==
  /\ At(p, "meet") /\ p \in cbs
  /\ task' = [task EXCEPT ![p] = "failed"]
  /\ UNCHANGED <<job, attempt, pc, lterr, servers, outputDir>>

\* Fault: nobody stops the DM_Servers of a failed attempt.
AttemptFailsAlone ==
  /\ job = "running" /\ \E p \in Partitions : task[p] = "failed"
  /\ UNCHANGED <<alive, stored, clientsDone>>

(***************************************************************************)
(* The Hadoop job fails with a task, and runLDA.sh removes the output and  *)
(* tries again.                                                            *)
(***************************************************************************)
AttemptFails ==
  /\ job = "running" /\ \E p \in Partitions : task[p] = "failed"
  /\ alive' \in IF Leftovers THEN SUBSET alive ELSE {{}}
  /\ UNCHANGED <<stored, clientsDone>>

\* Fault: the output directory is not removed.
RetryInPlace ==
  /\ AttemptFails /\ attempt < max_attempts
  /\ attempt' = attempt + 1
  /\ task' = [p \in Partitions |-> "running"]
  /\ pc' = [p \in Partitions |-> 1]
  /\ lterr' = {}
  /\ cbs' = {}
  /\ arrived' = [p \in Partitions |-> 0] /\ released' = arrived'
  /\ UNCHANGED <<job, outputDir>>

Retry ==
  /\ AttemptFails /\ attempt < max_attempts
  /\ attempt' = attempt + 1
  /\ task' = [p \in Partitions |-> "running"]
  /\ pc' = [p \in Partitions |-> 1]
  /\ marks' = [b \in Barriers |-> {}] /\ lost' = marks'
  /\ lterr' = {}
  /\ cbs' = {}
  /\ arrived' = [p \in Partitions |-> 0] /\ released' = arrived'
  /\ outputs' = {} /\ global_dict' = {} /\ dumps' = {}
  /\ UNCHANGED job

GiveUp ==
  /\ AttemptFails /\ attempt = max_attempts
  /\ job' = "failed"
  /\ UNCHANGED <<attempt, task, pc, lterr, cbs, arrived, released, outputDir>>

Succeed ==
  /\ job = "running" /\ \A p \in Partitions : task[p] = "done"
  /\ job' = "succeeded"
  /\ UNCHANGED <<attempt, task, pc, lterr, servers, outputDir>>

Work(p) ==
  \/ \E b \in Barriers : Mark(p, b) \/ Pass(p, b)
  \/ StartServer(p) \/ Store(p) \/ Meet(p) \/ Part(p) \/ Learn(p)
  \/ PutOutput(p) \/ Merge(p) \/ GetCounts(p) \/ PutCounts(p)

Step(p) == Work(p) \/ Abort(p) \/ Fail(p) \/ Timeout(p)

Next == Retry \/ GiveUp \/ Succeed \/ \E p \in Partitions : Step(p)

Spec == Init /\ [][Next]_vars

-----------------------------------------------------------------------------
(***************************************************************************)
(* Fairness: a script that can go on does, and Hadoop ends the attempt     *)
(* with its failed task and fails a silent one.                            *)
(***************************************************************************)
Fairness ==
  /\ WF_vars(Retry \/ GiveUp \/ Succeed)
  /\ \A p \in Partitions : WF_vars(Work(p)) /\ WF_vars(Timeout(p))

FairSpec == Spec /\ Fairness

-----------------------------------------------------------------------------
\* The types of the variables.
TypeOK ==
  /\ job \in {"running", "succeeded", "failed"}
  /\ attempt \in 1..max_attempts
  /\ task \in [Partitions -> {"running", "failed", "done"}]
  /\ pc \in [Partitions -> DOMAIN Script]
  /\ marks \in [Barriers -> SUBSET Partitions]
  /\ lost \in [Barriers -> SUBSET Partitions]
  /\ alive \subseteq Partitions
  /\ stored \in [Partitions -> [Partitions -> Nat]]
  /\ lterr \subseteq Partitions
  /\ outputs \subseteq Partitions /\ dumps \subseteq Partitions
  /\ global_dict \subseteq Partitions

(***************************************************************************)
(* Nobody is past a barrier of LDA.sh that another task has not reached,   *)
(* whatever has failed before (wait_for_all counts files; runLDA.sh        *)
(* removes those of the last attempt).                                     *)
(***************************************************************************)
BarriersHold ==
  \A p, q \in Partitions : \A b \in Barriers :
    pc[p] > Index(b) => pc[q] >= Index(b)

(***************************************************************************)
(* A learner that has left the servers' barrier works on counts to which   *)
(* every partition has contributed once ("attempt to re-run the task again *)
(* from the previous checkpoint", multi_mcahine_usage.h:126).              *)
(***************************************************************************)
CountsAreComplete ==
  \A p \in Partitions : At(p, "learn") =>
    \A q \in alive, r \in Partitions : stored[q][r] = 1

(***************************************************************************)
(* No DM_Server is stopped while a task that can still succeed needs it:   *)
(* pkill comes after the last barrier.                                     *)
(***************************************************************************)
ServersOutliveClients ==
  \A p \in Partitions :
    pc[p] \in Index("store")..Index("get_counts") =>
      alive = Partitions \/ \E q \in Partitions : task[q] = "failed"
                         \/ job = "failed"

(***************************************************************************)
(* A job that succeeds leaves the dictionary of every partition, one       *)
(* merged from all of them and all the parts of the counts, and none of    *)
(* its learners has failed, though nobody checks that the outputs are put  *)
(* (LDA.sh:108).                                                           *)
(***************************************************************************)
SuccessIsComplete ==
  job = "succeeded" =>
    /\ outputs = Partitions /\ dumps = Partitions /\ lterr = {}
    /\ global_dict = Partitions

\* A barrier has lost a file, so that nobody gets past it any more.
BarrierBroken == \E b \in Barriers : lost[b] # {}

(***************************************************************************)
(* The job comes to an end, with success or after its attempts, though     *)
(* learners abort at any point and leave the others in a barrier, and      *)
(* outputs do not get to their place.  Only one thing keeps it for ever:   *)
(* the file of a barrier that was not put (functions.sh:7), for which all  *)
(* wait with a message a minute.                                           *)
(***************************************************************************)
JobEnds == <>(job # "running") \/ <>[]BarrierBroken
=============================================================================
