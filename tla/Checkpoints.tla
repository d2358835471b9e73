---------------------------- MODULE Checkpoints ----------------------------
(***************************************************************************)
(* The iterations of one learner, the files it leaves behind and its       *)
(* restarts.  A learner dies between any two commands, with its machine in *)
(* the Hadoop set-up, and is started again on the files that are left.     *)
(*                                                                         *)
(* A file of topic assignments is abstracted to the number of iterations   *)
(* that made it, a file of metadata to the iteration it names.  Every      *)
(* record is flushed as it is written (DocumentWriter.h:67), so the only   *)
(* incomplete files are those still being written.                         *)
(***************************************************************************)
EXTENDS Integers

CONSTANTS Modes,          \* set-ups: "local", or "hadoop" with servers given
          IterFlags,      \* values the flag iter takes from run to run
          ChkptInterval,  \* the flag chkptinterval
          MaxAttempts     \* bound on the starts of the learner

(***************************************************************************)
(* Iterations stay below 2560, where the newline cannot be the second byte *)
(* of the saved int: then a piece of the int would be read as an int.      *)
(***************************************************************************)
ASSUME CheckpointAssumption ==
  /\ Modes \subseteq {"local", "hadoop"}
  /\ IterFlags \subseteq 1 .. 2559
  /\ ChkptInterval \in Nat \ {0}
  /\ MaxAttempts \in Nat

StartIter == 1    \* default of the flag startiter

File == [state : {"absent", "partial", "whole"}, n : Nat]
Absent == [state |-> "absent", n |-> 0]
Partial == [state |-> "partial", n |-> 0]
Whole(k) == [state |-> "whole", n |-> k]
Exists(f) == f.state # "absent"

VARIABLES
  mode, online,                     \* set-up and flag of this corpus
  iters,                            \* the flag iter of this run
  attempts,                         \* starts of the learner so far
  pc, iter,                         \* place in main() and execute()
  ignore_old_topic, tdoc_rdr,       \* the trainer; the assignments it reads
  input_t, output_t,                \* lda.top and lda.top.tmp
  chkpt_file, new_chkpt_file,       \* lda.chk and lda.chk.new
  hdfs,                             \* the copies in chkptdir
  copying                           \* which of them checkpoint() is making

corpus == <<mode, online>>
trainer == <<ignore_old_topic, tdoc_rdr>>
assignments == <<input_t, output_t>>
metadata == <<chkpt_file, new_chkpt_file>>
vars == <<corpus, iters, attempts, pc, iter, trainer, assignments, metadata,
          hdfs, copying>>

Copies == {"top", "chk"}
InitPlaces == {"topics", "random", "open", "load"}
LoopPlaces == {"loaded", "next"}
CopyPlaces == {"put", "putting", "rm", "mv"}
Places == InitPlaces \cup LoopPlaces \cup CopyPlaces
            \cup {"ran", "moved", "save", "rename", "output", "done"}

(* The formatter's output: words and dictionary, no assignments. *)
Init ==
  /\ mode \in Modes
  /\ online \in BOOLEAN
  /\ iters \in IterFlags
  /\ attempts = 1
  /\ pc = "topics" /\ iter = StartIter
  /\ ignore_old_topic = FALSE /\ tdoc_rdr = Absent
  /\ input_t = Absent /\ output_t = Absent
  /\ chkpt_file = Absent /\ new_chkpt_file = Absent
  /\ hdfs = [c \in Copies |-> [dest |-> Absent, tmp |-> Absent]]
  /\ copying = "top"

(***************************************************************************)
(* create_model_refiner(): the first assignments, and the trainer's files. *)
(***************************************************************************)
SkipTopics ==
  /\ pc = "topics" /\ Exists(input_t)
  /\ pc' = "open" /\ ignore_old_topic' = FALSE
  /\ UNCHANGED <<corpus, iters, attempts, iter, tdoc_rdr, assignments,
                 metadata, hdfs, copying>>

IgnoreTopics ==
  /\ pc = "topics" /\ ~Exists(input_t) /\ online
  /\ pc' = "open" /\ ignore_old_topic' = TRUE
  /\ UNCHANGED <<corpus, iters, attempts, iter, tdoc_rdr, assignments,
                 metadata, hdfs, copying>>

\* Fault: assignments that are there are not looked for.
BeginRandomTopicsAlways ==
  /\ pc = "topics" /\ ~online
  /\ pc' = "random" /\ ignore_old_topic' = FALSE
  /\ input_t' = Partial
  /\ UNCHANGED <<corpus, iters, attempts, iter, tdoc_rdr, output_t, metadata,
                 hdfs, copying>>

BeginRandomTopics ==
  /\ pc = "topics" /\ ~Exists(input_t) /\ ~online
  /\ pc' = "random" /\ ignore_old_topic' = FALSE
  /\ input_t' = Partial
  /\ UNCHANGED <<corpus, iters, attempts, iter, tdoc_rdr, output_t, metadata,
                 hdfs, copying>>

EndRandomTopics ==
  /\ pc = "random"
  /\ pc' = "open" /\ input_t' = Whole(0)
  /\ UNCHANGED <<corpus, iters, attempts, iter, trainer, output_t, metadata,
                 hdfs, copying>>

set_up_io ==
  /\ tdoc_rdr' = IF ignore_old_topic' THEN Absent ELSE input_t
  /\ output_t' = Partial

CreateTrainer ==
  /\ pc = "open"
  /\ pc' = "load"
  /\ UNCHANGED ignore_old_topic
  /\ set_up_io
  /\ UNCHANGED <<corpus, iters, attempts, iter, input_t, metadata, hdfs,
                 copying>>

(***************************************************************************)
(* Training_Execution_Strategy::execute().  The state is the raw bytes of  *)
(* an int, read back up to the first newline: nothing is read of an int    *)
(* whose low byte is one.                                                  *)
(***************************************************************************)
NewLine == 10

load_metadata ==
  IF chkpt_file.state = "whole" /\ chkpt_file.n % 256 # NewLine
  THEN chkpt_file ELSE Absent

\* Fault: the iteration of the checkpoint is done again.
LoadMetadataAgain ==
  /\ pc = "load"
  /\ pc' = "loaded"
  /\ iter' = IF Exists(load_metadata) THEN load_metadata.n ELSE StartIter
  /\ UNCHANGED <<corpus, iters, attempts, trainer, assignments, metadata, hdfs,
                 copying>>

LoadMetadata ==
  /\ pc = "load"
  /\ pc' = "loaded"
  /\ iter' = IF Exists(load_metadata) THEN load_metadata.n + 1 ELSE StartIter
  /\ UNCHANGED <<corpus, iters, attempts, trainer, assignments, metadata, hdfs,
                 copying>>

(* One run of the pipeline.  Documents whose assignments are missing have  *)
(* none written either, unless reading them already aborted the learner.   *)
RunPipeline ==
  /\ pc \in LoopPlaces /\ iter <= iters
  /\ pc' = "ran"
  /\ output_t' = IF tdoc_rdr.state = "partial" THEN Partial
                                               ELSE Whole(tdoc_rdr.n + 1)
  /\ UNCHANGED <<corpus, iters, attempts, iter, trainer, input_t, metadata,
                 hdfs, copying>>

\* Fault: the output is opened again before it is moved.
MoveOutputReopened ==
  /\ pc = "ran"
  /\ pc' = "moved"
  /\ input_t' = Partial /\ output_t' = Absent
  /\ UNCHANGED <<corpus, iters, attempts, iter, trainer, metadata, hdfs,
                 copying>>

(* iteration_done(): the output becomes the input, and the files are opened *)
(* again.                                                                   *)
MoveOutput ==
  /\ pc = "ran"
  /\ pc' = "moved"
  /\ input_t' = output_t /\ output_t' = Absent
  /\ UNCHANGED <<corpus, iters, attempts, iter, trainer, metadata, hdfs,
                 copying>>

NextIteration == pc' = "next" /\ iter' = iter + 1

RestartIO ==
  /\ pc = "moved"
  /\ ignore_old_topic' = FALSE
  /\ set_up_io
  /\ IF iter % ChkptInterval = 0
     THEN pc' = "save" /\ UNCHANGED iter
     ELSE NextIteration
  /\ UNCHANGED <<corpus, iters, attempts, input_t, metadata, hdfs, copying>>

(***************************************************************************)
(* Local_Checkpointer::save_metadata(), and what follows it: nothing more  *)
(* in the local set-up, Hadoop_Checkpointer::checkpoint() in the other.    *)
(***************************************************************************)
WriteMetadata ==
  /\ pc = "save"
  /\ pc' = "rename" /\ new_chkpt_file' = Whole(iter)
  /\ UNCHANGED <<corpus, iters, attempts, iter, trainer, assignments,
                 chkpt_file, hdfs, copying>>

\* Fault: checkpoint() copies the metadata alone.
RenameMetadataFirst ==
  /\ pc = "rename"
  /\ chkpt_file' = new_chkpt_file /\ new_chkpt_file' = Absent
  /\ IF mode = "local"
     THEN NextIteration /\ UNCHANGED copying
     ELSE pc' = "put" /\ copying' = "chk" /\ UNCHANGED iter
  /\ UNCHANGED <<corpus, iters, attempts, trainer, assignments, hdfs>>

RenameMetadata ==
  /\ pc = "rename"
  /\ chkpt_file' = new_chkpt_file /\ new_chkpt_file' = Absent
  /\ IF mode = "local"
     THEN NextIteration /\ UNCHANGED copying
     ELSE pc' = "put" /\ copying' = "top" /\ UNCHANGED iter
  /\ UNCHANGED <<corpus, iters, attempts, trainer, assignments, hdfs>>

CopySource == IF copying = "top" THEN input_t ELSE chkpt_file

(* hadoop dfs -put <file> <dest>.tmp refuses to replace a file that is     *)
(* there; nobody looks at its status.                                      *)
BeginPut ==
  /\ pc = "put"
  /\ IF Exists(hdfs[copying].tmp)
     THEN pc' = "rm" /\ UNCHANGED hdfs
     ELSE pc' = "putting" /\ hdfs' = [hdfs EXCEPT ![copying].tmp = Partial]
  /\ UNCHANGED <<corpus, iters, attempts, iter, trainer, assignments, metadata,
                 copying>>

EndPut ==
  /\ pc = "putting"
  /\ pc' = "rm" /\ hdfs' = [hdfs EXCEPT ![copying].tmp = CopySource]
  /\ UNCHANGED <<corpus, iters, attempts, iter, trainer, assignments, metadata,
                 copying>>

(* hadoop dfs -rmr <dest> *)
RemoveOld ==
  /\ pc = "rm"
  /\ pc' = "mv" /\ hdfs' = [hdfs EXCEPT ![copying].dest = Absent]
  /\ UNCHANGED <<corpus, iters, attempts, iter, trainer, assignments, metadata,
                 copying>>

(* hadoop dfs -mv <dest>.tmp <dest>; the metadata follow the assignments. *)
MoveNew ==
  /\ pc = "mv"
  /\ hdfs' = [hdfs EXCEPT ![copying] = [dest |-> @.tmp, tmp |-> Absent]]
  /\ IF copying = "top"
     THEN pc' = "put" /\ copying' = "chk" /\ UNCHANGED iter
     ELSE NextIteration /\ UNCHANGED copying
  /\ UNCHANGED <<corpus, iters, attempts, trainer, assignments, metadata>>

\* Fault: the last iteration is left out.
LeaveLoopEarly ==
  /\ pc \in LoopPlaces /\ iter >= iters
  /\ pc' = "output"
  /\ UNCHANGED <<corpus, iters, attempts, iter, trainer, assignments, metadata,
                 hdfs, copying>>

LeaveLoop ==
  /\ pc \in LoopPlaces /\ iter > iters
  /\ pc' = "output"
  /\ UNCHANGED <<corpus, iters, attempts, iter, trainer, assignments, metadata,
                 hdfs, copying>>

(* create_output() writes the results from lda.top and the tables. *)
CreateOutput ==
  /\ pc = "output"
  /\ pc' = "done" /\ output_t' = Absent
  /\ UNCHANGED <<corpus, iters, attempts, iter, trainer, input_t, metadata,
                 hdfs, copying>>

(***************************************************************************)
(* A start of the learner after the first: on the files that are there in  *)
(* the local set-up, on a copy of chkptdir in a new directory in the other.*)
(***************************************************************************)
FilesOfRestart ==
  \/ /\ mode = "local"
     /\ UNCHANGED <<assignments, metadata>>
  \/ /\ mode = "hadoop"
     /\ input_t' = hdfs["top"].dest
     /\ output_t' = hdfs["top"].tmp
     /\ chkpt_file' = hdfs["chk"].dest
     /\ new_chkpt_file' = Absent

Restart ==
  /\ attempts < MaxAttempts
  /\ attempts' = attempts + 1
  /\ pc' = "topics" /\ iter' = StartIter
  /\ ignore_old_topic' = FALSE /\ tdoc_rdr' = Absent
  /\ copying' = "top"
  /\ FilesOfRestart
  /\ UNCHANGED <<corpus, hdfs>>

(* The learner, or any other of its job, dies and the job is tried again. *)
Crash == pc # "done" /\ Restart /\ UNCHANGED iters

(* An incremental run on the files of one that has ended. *)
RunAgain == pc = "done" /\ Restart /\ iters' \in IterFlags

Initialize == SkipTopics \/ IgnoreTopics \/ BeginRandomTopics
                \/ EndRandomTopics \/ CreateTrainer
Iterate == LoadMetadata \/ RunPipeline \/ MoveOutput \/ RestartIO \/ LeaveLoop
             \/ CreateOutput
Save == WriteMetadata \/ RenameMetadata
Checkpoint == BeginPut \/ EndPut \/ RemoveOld \/ MoveNew

Next == Initialize \/ Iterate \/ Save \/ Checkpoint \/ Crash \/ RunAgain

Spec == Init /\ [][Next]_vars

-----------------------------------------------------------------------------
(* Types of all variables. *)
TypeOK ==
  /\ mode \in Modes /\ online \in BOOLEAN /\ iters \in IterFlags
  /\ attempts \in Nat /\ pc \in Places /\ iter \in Nat \ {0}
  /\ ignore_old_topic \in BOOLEAN
  /\ {tdoc_rdr, input_t, output_t, chkpt_file, new_chkpt_file} \subseteq File
  /\ hdfs \in [Copies -> [dest : File, tmp : File]]
  /\ copying \in Copies

(* In the local set-up the iteration named by lda.chk is always backed by  *)
(* assignments on disk that went through as many, wherever the learner     *)
(* dies: save_metadata() runs after iteration_done().  Assignments that    *)
(* were never complete stay so, see FirstAssignmentsAreComplete.           *)
MetadataBacked ==
  mode = "local" /\ Exists(chkpt_file) =>
    /\ chkpt_file.state = "whole"
    /\ Exists(input_t)
    /\ input_t.state = "whole" => input_t.n >= chkpt_file.n

(* In the local set-up a run that ends has put the assignments, if they    *)
(* ever were complete, through as many iterations as it was asked for,     *)
(* however often it was restarted.                                         *)
DoneMeansAllIterations ==
  mode = "local" /\ pc = "done" /\ input_t.state = "whole" =>
    input_t.n >= iters

(* In the local set-up a restart repeats at most the iterations between    *)
(* two checkpoints: what the assignments went through exceeds what the     *)
(* loop counts by no more than that for every restart.                     *)
ReworkIsBounded ==
  mode = "local" /\ pc \in LoopPlaces /\ tdoc_rdr.state = "whole" =>
    tdoc_rdr.n <= (iter - 1) + (attempts - 1) * ChkptInterval

(* Once there is a checkpoint in chkptdir, some copy of assignments is     *)
(* there at every moment of checkpoint(): the new one is put beside the    *)
(* old one before that is removed.                                         *)
SomeCopyRemains ==
  (\E f \in {"dest", "tmp"} : Exists(hdfs["chk"][f]))
    => \E f \in {"dest", "tmp"} : Exists(hdfs["top"][f])

(* In the local set-up complete assignments are replaced only by complete  *)
(* ones that went through no fewer iterations (lda.top, in                 *)
(* iteration_done() and initialize_topics()).                              *)
AssignmentsOnlyAdvance ==
  [][mode = "local" /\ input_t.state = "whole"
       => input_t'.state = "whole" /\ input_t'.n >= input_t.n]_vars

(* The assignments a learner starts from are complete: initialize_topics() *)
(* made them, or a run before.                                             *)
FirstAssignmentsAreComplete == pc = "load" => tdoc_rdr.state # "partial"

(* A learner that finds the metadata of a checkpoint starts after the      *)
(* iteration they name (execute(), load_metadata()).                       *)
StartsFromCheckpoint ==
  pc = "loaded" /\ chkpt_file.state = "whole" => iter = chkpt_file.n + 1

(* A learner that finds the metadata of a checkpoint also finds            *)
(* assignments that went through as many iterations.                       *)
CheckpointIsComplete ==
  pc = "topics" /\ chkpt_file.state = "whole" =>
    input_t.state = "whole" /\ input_t.n >= chkpt_file.n
=============================================================================
