------------------------- MODULE CheckpointsProofs -------------------------
(***************************************************************************)
(* What a learner keeps on disk across its iterations, crashes and         *)
(* restarts, for any checkpoint interval, any number of restarts and any   *)
(* values of the flag iter.                                                *)
(*                                                                         *)
(* lda.chk alone does not say how far the assignments are: LocalInv says   *)
(* at every place of execute() what the loop's count owes to the           *)
(* assignments the trainer reads, and that those are the ones on disk.     *)
(***************************************************************************)
EXTENDS Checkpoints, TLAPS

LEMMA FileTypes ==
  /\ Absent \in File /\ Partial \in File
  /\ \A k \in Nat : Whole(k) \in File
  /\ \A f \in File : f.n \in Nat
BY DEF Absent, Partial, Whole, File

LEMMA CopyTypes ==
  ASSUME TypeOK
  PROVE  /\ \A c \in Copies : hdfs[c].dest \in File /\ hdfs[c].tmp \in File
         /\ \A c \in Copies, f \in File :
              /\ [hdfs EXCEPT ![c].tmp = f] \in [Copies -> [dest : File, tmp : File]]
              /\ [hdfs EXCEPT ![c].dest = f] \in [Copies -> [dest : File, tmp : File]]
         /\ \A c \in Copies :
              [hdfs EXCEPT ![c] = [dest |-> @.tmp, tmp |-> Absent]]
                \in [Copies -> [dest : File, tmp : File]]
BY FileTypes DEF TypeOK

LEMMA TypeInit == Init => TypeOK
<1> SUFFICES ASSUME Init PROVE TypeOK
  OBVIOUS
<1>1. hdfs \in [Copies -> [dest : File, tmp : File]] /\ copying \in Copies
  BY FileTypes DEF Init, Copies
<1>2. {tdoc_rdr, input_t, output_t, chkpt_file, new_chkpt_file} \subseteq File
  BY FileTypes DEF Init
<1>3. pc \in Places
  BY DEF Init, Places, InitPlaces
<1>4. attempts \in Nat /\ iter \in Nat \ {0}
  BY DEF Init, StartIter
<1>5. mode \in Modes /\ online \in BOOLEAN /\ iters \in IterFlags
        /\ ignore_old_topic \in BOOLEAN
  BY DEF Init
<1> QED  BY <1>1, <1>2, <1>3, <1>4, <1>5 DEF TypeOK

LEMMA TypeNext == TypeOK /\ [Next]_vars => TypeOK'
<1> SUFFICES ASSUME TypeOK, [Next]_vars PROVE TypeOK'
  OBVIOUS
<1> USE FileTypes, CopyTypes
        DEF TypeOK, Places, InitPlaces, LoopPlaces, CopyPlaces, StartIter,
        corpus, trainer, assignments, metadata
<1>1. CASE SkipTopics  BY <1>1 DEF SkipTopics
<1>2. CASE IgnoreTopics  BY <1>2 DEF IgnoreTopics
<1>3. CASE BeginRandomTopics  BY <1>3 DEF BeginRandomTopics
<1>4. CASE EndRandomTopics  BY <1>4 DEF EndRandomTopics
<1>5. CASE CreateTrainer  BY <1>5 DEF CreateTrainer, set_up_io
<1>6. CASE LoadMetadata  BY <1>6 DEF LoadMetadata, load_metadata
<1>7. CASE RunPipeline  BY <1>7 DEF RunPipeline
<1>8. CASE MoveOutput  BY <1>8 DEF MoveOutput
<1>9. CASE RestartIO
  <2>1. /\ iter' \in Nat \ {0} /\ pc' \in Places
    BY <1>9 DEF RestartIO, NextIteration
  <2>2. tdoc_rdr' \in File /\ output_t' \in File
    BY <1>9 DEF RestartIO, set_up_io
  <2> QED  BY <1>9, <2>1, <2>2 DEF RestartIO
<1>10. CASE LeaveLoop  BY <1>10 DEF LeaveLoop
<1>11. CASE CreateOutput  BY <1>11 DEF CreateOutput
<1>12. CASE WriteMetadata  BY <1>12 DEF WriteMetadata
<1>13. CASE RenameMetadata  BY <1>13 DEF RenameMetadata, NextIteration, Copies
<1>14. CASE BeginPut
  <2>1. hdfs' \in [Copies -> [dest : File, tmp : File]]
    <3>1. [hdfs EXCEPT ![copying].tmp = Partial]
             \in [Copies -> [dest : File, tmp : File]]
      OBVIOUS
    <3>2. hdfs' = hdfs \/ hdfs' = [hdfs EXCEPT ![copying].tmp = Partial]
      BY <1>14, Zenon DEF BeginPut
    <3> QED  BY <3>1, <3>2
  <2>2. pc' \in Places
    BY <1>14 DEF BeginPut
  <2> QED  BY <1>14, <2>1, <2>2 DEF BeginPut
<1>15. CASE EndPut  BY <1>15 DEF EndPut, CopySource
<1>16. CASE RemoveOld  BY <1>16 DEF RemoveOld
<1>17. CASE MoveNew  BY <1>17 DEF MoveNew, NextIteration, Copies
<1>18. CASE Restart /\ iters' \in IterFlags
  <2>1. {input_t', output_t', chkpt_file', new_chkpt_file'} \subseteq File
    BY <1>18 DEF Restart, FilesOfRestart, Copies
  <2>2. copying' \in Copies
    BY <1>18 DEF Restart, Copies
  <2>3. attempts' \in Nat /\ iter' \in Nat \ {0} /\ pc' \in Places
    BY <1>18 DEF Restart
  <2>4. UNCHANGED <<mode, online, hdfs>> /\ ignore_old_topic' \in BOOLEAN
          /\ tdoc_rdr' \in File
    BY <1>18 DEF Restart
  <2> QED  BY <1>18, <2>1, <2>2, <2>3, <2>4
<1>19. CASE Crash \/ RunAgain  BY <1>18, <1>19 DEF Crash, RunAgain
<1>20. CASE UNCHANGED vars  BY <1>20 DEF vars
<1> QED
  BY <1>1, <1>2, <1>3, <1>4, <1>5, <1>6, <1>7, <1>8, <1>9, <1>10,
     <1>11, <1>12, <1>13, <1>14, <1>15, <1>16, <1>17, <1>18, <1>19, <1>20
     DEF Next, Initialize, Iterate, Save, Checkpoint

(* Every variable keeps its type, in both set-ups. *)
THEOREM CheckpointTypeCorrect == Spec => []TypeOK
BY TypeInit, TypeNext, PTL DEF Spec

-----------------------------------------------------------------------------
(* Only complete files count iterations. *)
Counted(f) == f.state # "whole" => f.n = 0

(* The assignments f went through k iterations, unless f never was complete. *)
Covers(f, k) == Exists(f) /\ (f.state = "whole" => f.n >= k)

(* As Covers, but nothing to show where there is nothing to cover yet. *)
Reaches(f, k) == f.state # "partial" => f.n >= k

(* What the pipeline makes of the assignments f. *)
Follows(g, f) ==
  /\ f.state = "whole" => g.state = "whole"
  /\ g.state = "whole" => f.state # "partial" /\ g.n >= f.n

Reading == {"load", "loaded", "next", "ran", "save", "rename", "output", "done"}

ReaderInv ==
  /\ pc = "open" => (ignore_old_topic <=> ~Exists(input_t))
  /\ pc \in Reading => tdoc_rdr = input_t

LoopInv ==
  /\ pc \in LoopPlaces => Reaches(input_t, iter - 1)
  /\ pc = "ran" => Covers(output_t, iter)
  /\ pc \in {"moved", "save", "rename"} => Covers(input_t, iter)
  /\ pc = "rename" => new_chkpt_file = Whole(iter)
  /\ pc \in {"output", "done"} => Reaches(input_t, iters)

LocalInv ==
  mode = "local" =>
    /\ Counted(input_t) /\ Counted(output_t)
    /\ pc \notin CopyPlaces
    /\ Exists(chkpt_file) => /\ chkpt_file.state = "whole"
                             /\ Covers(input_t, chkpt_file.n)
    /\ pc = "random" => /\ input_t = Partial /\ ~Exists(chkpt_file)
                        /\ ~ignore_old_topic
    /\ pc = "ran" => Follows(output_t, tdoc_rdr)
    /\ ReaderInv
    /\ LoopInv

LEMMA LocalInit == Init => LocalInv
BY DEF Init, LocalInv, Counted, Covers, Reaches, Reading, ReaderInv, LoopInv,
   Follows, Exists, Absent, CopyPlaces, LoopPlaces

LEMMA LocalNext == TypeOK /\ LocalInv /\ [Next]_vars => LocalInv'
<1> SUFFICES ASSUME TypeOK, LocalInv, [Next]_vars, mode' = "local"
             PROVE  LocalInv'
  BY DEF LocalInv
<1>0. mode = "local"
  BY DEF Next, Initialize, Iterate, Save, Checkpoint, SkipTopics, IgnoreTopics,
     BeginRandomTopics, EndRandomTopics, CreateTrainer, LoadMetadata,
     RunPipeline, MoveOutput, RestartIO, LeaveLoop, CreateOutput, WriteMetadata,
     RenameMetadata, BeginPut, EndPut, RemoveOld, MoveNew, Crash, RunAgain,
     Restart, corpus, vars
<1> USE <1>0, CheckpointAssumption
        DEF TypeOK, LocalInv, LoopPlaces, CopyPlaces, Reading, ReaderInv, LoopInv,
        Counted, Covers, Reaches, Follows, Exists, File, Absent, Partial, Whole,
        StartIter, corpus, trainer, assignments, metadata
<1>1. CASE SkipTopics  BY <1>1 DEF SkipTopics
<1>2. CASE IgnoreTopics  BY <1>2 DEF IgnoreTopics
<1>3. CASE BeginRandomTopics  BY <1>3 DEF BeginRandomTopics
<1>4. CASE EndRandomTopics  BY <1>4 DEF EndRandomTopics
<1>5. CASE CreateTrainer  BY <1>5 DEF CreateTrainer, set_up_io
<1>6. CASE LoadMetadata  BY <1>6 DEF LoadMetadata, load_metadata
<1>7. CASE RunPipeline  BY <1>7 DEF RunPipeline
<1>8. CASE MoveOutput  BY <1>8 DEF MoveOutput
<1>9. CASE RestartIO  BY <1>9 DEF RestartIO, set_up_io, NextIteration
<1>10. CASE LeaveLoop  BY <1>10 DEF LeaveLoop
<1>11. CASE CreateOutput  BY <1>11 DEF CreateOutput
<1>12. CASE WriteMetadata  BY <1>12 DEF WriteMetadata
<1>13. CASE RenameMetadata  BY <1>13 DEF RenameMetadata, NextIteration
<1>14. CASE BeginPut  BY <1>14 DEF BeginPut
<1>15. CASE EndPut  BY <1>15 DEF EndPut, CopySource
<1>16. CASE RemoveOld  BY <1>16 DEF RemoveOld
<1>17. CASE MoveNew  BY <1>17 DEF MoveNew, NextIteration
<1>18. CASE Crash  BY <1>18 DEF Crash, Restart, FilesOfRestart
<1>19. CASE RunAgain  BY <1>19 DEF RunAgain, Restart, FilesOfRestart
<1>20. CASE UNCHANGED vars  BY <1>20 DEF vars
<1> QED
  BY <1>1, <1>2, <1>3, <1>4, <1>5, <1>6, <1>7, <1>8, <1>9, <1>10,
     <1>11, <1>12, <1>13, <1>14, <1>15, <1>16, <1>17, <1>18, <1>19, <1>20
     DEF Next, Initialize, Iterate, Save, Checkpoint

LEMMA LocalCorrect == Spec => [](TypeOK /\ LocalInv)
BY TypeInit, TypeNext, LocalInit, LocalNext, PTL DEF Spec

-----------------------------------------------------------------------------
(* The iteration named by lda.chk is backed by the assignments on disk,     *)
(* wherever the learner dies (save_metadata() after iteration_done()).      *)
THEOREM MetadataIsBacked == Spec => []MetadataBacked
<1>1. LocalInv => MetadataBacked
  BY DEF LocalInv, MetadataBacked, Covers
<1> QED  BY <1>1, LocalCorrect, PTL

(* A run that ends has done all iterations it was asked for, whatever       *)
(* crashes and restarts it took (execute()).                                *)
THEOREM AllIterationsAreDone == Spec => []DoneMeansAllIterations
<1>1. LocalInv => DoneMeansAllIterations
  BY DEF LocalInv, LoopInv, Reaches, DoneMeansAllIterations
<1> QED  BY <1>1, LocalCorrect, PTL

(* Complete assignments never give way to incomplete or older ones          *)
(* (iteration_done(), initialize_topics()).                                 *)
THEOREM ProgressIsKept == Spec => AssignmentsOnlyAdvance
<1>1. TypeOK /\ LocalInv /\ [Next]_vars
        => [mode = "local" /\ input_t.state = "whole"
              => input_t'.state = "whole" /\ input_t'.n >= input_t.n]_vars
  <2> SUFFICES ASSUME TypeOK, LocalInv, Next, mode = "local",
                      input_t.state = "whole"
               PROVE  input_t'.state = "whole" /\ input_t'.n >= input_t.n
    OBVIOUS
  <2> USE DEF TypeOK, File, Exists, assignments
  <2>1. input_t' = input_t => input_t'.state = "whole" /\ input_t'.n >= input_t.n
    OBVIOUS
  <2>2. CASE Initialize
    BY <2>1, <2>2 DEF Initialize, SkipTopics, IgnoreTopics, BeginRandomTopics,
       EndRandomTopics, CreateTrainer, LocalInv, Partial
  <2>3. CASE Iterate
    <3>1. CASE MoveOutput
      BY <3>1 DEF MoveOutput, LocalInv, ReaderInv, Reading, Follows
    <3> QED
      BY <2>1, <2>3, <3>1 DEF Iterate, LoadMetadata, RunPipeline, RestartIO,
         LeaveLoop, CreateOutput
  <2>4. CASE Save
    BY <2>1, <2>4 DEF Save, WriteMetadata, RenameMetadata
  <2>5. CASE Checkpoint
    BY <2>1, <2>5 DEF Checkpoint, BeginPut, EndPut, RemoveOld, MoveNew
  <2>6. CASE Crash \/ RunAgain
    BY <2>1, <2>6 DEF Crash, RunAgain, Restart, FilesOfRestart
  <2> QED  BY <2>2, <2>3, <2>4, <2>5, <2>6 DEF Next
<1> QED  BY <1>1, LocalCorrect, PTL DEF Spec, AssignmentsOnlyAdvance
-----------------------------------------------------------------------------
SomeCopy(c) == Exists(hdfs[c].dest) \/ Exists(hdfs[c].tmp)

(* There is something to put, it is put before the old copy goes, and the   *)
(* metadata's turn comes when the assignments have had theirs.              *)
CopyInv ==
  /\ pc = "ran" => Exists(output_t)
  /\ pc \in {"moved", "save", "rename"} => Exists(input_t)
  /\ pc \in CopyPlaces /\ copying = "top" => Exists(input_t)
  /\ pc \in {"rm", "mv"} => Exists(hdfs[copying].tmp) \/ copying = "chk"
  /\ pc \in CopyPlaces /\ copying = "chk" => SomeCopy("top")
  /\ SomeCopy("chk") => SomeCopy("top")

LEMMA CopyInit == Init => CopyInv
BY DEF Init, CopyInv, SomeCopy, Exists, Absent, Copies, CopyPlaces

LEMMA CopyNext == TypeOK /\ CopyInv /\ [Next]_vars => CopyInv'
<1> SUFFICES ASSUME TypeOK, CopyInv, [Next]_vars PROVE CopyInv'
  OBVIOUS
<1>a. hdfs \in [Copies -> [dest : File, tmp : File]] /\ copying \in {"top", "chk"}
  BY DEF TypeOK, Copies
<1> USE <1>a DEF CopyInv, SomeCopy, Copies, Exists, Absent, Partial, Whole,
        LoopPlaces, CopyPlaces, corpus, trainer, assignments, metadata
<1>1. CASE Initialize
  BY <1>1 DEF Initialize, SkipTopics, IgnoreTopics, BeginRandomTopics,
     EndRandomTopics, CreateTrainer
<1>2. CASE Iterate
  <2>1. CASE RunPipeline  BY <2>1 DEF RunPipeline
  <2>2. CASE MoveOutput  BY <2>2 DEF MoveOutput
  <2>3. CASE RestartIO  BY <2>3 DEF RestartIO, NextIteration
  <2>4. CASE LoadMetadata \/ LeaveLoop \/ CreateOutput
    BY <2>4 DEF LoadMetadata, LeaveLoop, CreateOutput
  <2> QED  BY <1>2, <2>1, <2>2, <2>3, <2>4 DEF Iterate
<1>3. CASE Save
  BY <1>3 DEF Save, WriteMetadata, RenameMetadata, NextIteration
<1>4. CASE BeginPut  BY <1>4 DEF BeginPut
<1>5. CASE EndPut  BY <1>5 DEF EndPut, CopySource
<1>6. CASE RemoveOld  BY <1>6 DEF RemoveOld
<1>7. CASE MoveNew  BY <1>7 DEF MoveNew, NextIteration
<1>8. CASE Crash \/ RunAgain  BY <1>8 DEF Crash, RunAgain, Restart
<1>9. CASE UNCHANGED vars  BY <1>9 DEF vars
<1> QED
  BY <1>1, <1>2, <1>3, <1>4, <1>5, <1>6, <1>7, <1>8, <1>9 DEF Next, Checkpoint

(* Whenever chkptdir has metadata it also has assignments, under one name   *)
(* or the other, also between the commands of checkpoint() and after any    *)
(* crash there.                                                             *)
THEOREM SomeCopyIsKept == Spec => []SomeCopyRemains
<1>1. CopyInv => SomeCopyRemains
  BY DEF CopyInv, SomeCopy, SomeCopyRemains
<1> QED  BY <1>1, TypeInit, TypeNext, CopyInit, CopyNext, PTL DEF Spec
-----------------------------------------------------------------------------
(***************************************************************************)
(* How much a restart repeats.  The bound holds while every state saved is *)
(* one that load_metadata() can read again: an iteration whose low byte is *)
(* a newline is read as none, the learner starts over from the first, and  *)
(* the assignments go through all of them once more.  With the default     *)
(* chkptinterval of 25 the first such iteration is 3850.                   *)
(***************************************************************************)
StatesAreRead ==
  \A f \in IterFlags : \A k \in 1 .. f :
    k % ChkptInterval = 0 => k % 256 # NewLine

(* The iteration on disk, and what the restarts may have added to it. *)
Saved == chkpt_file.n
Repeated == (attempts - 1) * ChkptInterval

(* Every multiple of the interval is saved before the loop goes on. *)
BetweenSaves == Saved <= iter - 1 /\ iter - 1 < Saved + ChkptInterval

SavedInv ==
  /\ Saved % ChkptInterval = 0
  /\ Exists(chkpt_file) => Saved % 256 # NewLine
  /\ ~Exists(chkpt_file) => Saved = 0

(* lda.top is at most an interval ahead of lda.chk, and exactly where the  *)
(* loop says when no restart has repeated anything.                        *)
ReworkInv ==
  mode = "local" =>
    /\ SavedInv
    /\ input_t.n <= Saved + ChkptInterval + Repeated
    /\ pc \in InitPlaces => input_t.n <= Saved + Repeated
    /\ pc \in LoopPlaces => input_t.n <= iter - 1 + Repeated /\ BetweenSaves
    /\ pc = "ran" =>
         iter <= iters /\ output_t.n <= iter + Repeated /\ BetweenSaves
    /\ pc \in {"moved", "save", "rename"} =>
         iter <= iters /\ input_t.n <= iter + Repeated /\ BetweenSaves
    /\ pc \in {"save", "rename"} => iter % ChkptInterval = 0

\* Each start may repeat one interval more.
LEMMA RepeatedSteps ==
  ASSUME TypeOK
  PROVE  /\ Repeated \in Int
         /\ attempts' = attempts => Repeated' = Repeated
         /\ attempts' = attempts + 1 => Repeated' = Repeated + ChkptInterval
<1>1. attempts \in Nat /\ ChkptInterval \in Nat
  BY CheckpointAssumption DEF TypeOK
<1>2. \A a, i \in Nat :
        (a - 1) * i \in Int /\ (a + 1 - 1) * i = (a - 1) * i + i
  OBVIOUS
<1>3. (attempts - 1) * ChkptInterval \in Int
  BY <1>1, <1>2
<1>4. CASE attempts' = attempts + 1
  <2>1. PICK a \in Nat : a = attempts'
    BY <1>1, <1>4
  <2>2. Repeated' = (a - 1) * ChkptInterval /\ a = attempts + 1
    BY <1>4, <2>1 DEF Repeated
  <2>3. Repeated' = Repeated + ChkptInterval
    BY <1>1, <1>2, <2>2 DEF Repeated
  <2> QED  BY <1>1, <1>3, <1>4, <2>3 DEF Repeated
<1>5. attempts' = attempts => Repeated' = Repeated
  BY DEF Repeated
<1> QED  BY <1>3, <1>4, <1>5, Zenon DEF Repeated

\* An iteration that is not saved is short of the next one that is.
LEMMA NextSave ==
  ASSUME NEW s \in Nat, NEW k \in Nat, s % ChkptInterval = 0,
         k % ChkptInterval # 0, k <= s + ChkptInterval
  PROVE  k < s + ChkptInterval
<1>1. \A i \in Nat \ {0} : s % i = 0 => (s + i) % i = 0
  <2> SUFFICES ASSUME NEW i \in Nat \ {0}, s % i = 0 PROVE (s + i) % i = 0
    OBVIOUS
  <2>1. s = i * (s \div i) /\ s \div i \in Nat
    OBVIOUS
  <2>2. PICK q \in Nat : s = i * q
    BY <2>1
  <2>3. \A q1 \in Nat : (i * q1) % i = 0
    OBVIOUS
  <2>4. s + i = i * (q + 1) /\ q + 1 \in Nat
    BY <2>2
  <2> QED  BY <2>3, <2>4, Zenon
<1>2. ChkptInterval \in Nat \ {0}
  BY CheckpointAssumption
<1>3. (s + ChkptInterval) % ChkptInterval = 0
  BY <1>1, <1>2, Zenon
<1>4. k # s + ChkptInterval
  BY <1>3, Zenon
<1> QED  BY <1>2, <1>4

LEMMA ReworkInit == Init => ReworkInv
<1> SUFFICES ASSUME Init PROVE ReworkInv
  OBVIOUS
<1>1. Repeated = 0 /\ Saved = 0 /\ ~Exists(chkpt_file) /\ input_t.n = 0
  BY CheckpointAssumption DEF Init, Repeated, Saved, Exists, Absent
<1>2. 0 % ChkptInterval = 0 /\ ChkptInterval \in Nat
  BY CheckpointAssumption
<1> QED
  BY <1>1, <1>2 DEF Init, ReworkInv, SavedInv, LoopPlaces

LEMMA ReworkNext ==
  ASSUME StatesAreRead
  PROVE  TypeOK /\ LocalInv /\ ReworkInv /\ [Next]_vars => ReworkInv'
<1> SUFFICES ASSUME TypeOK, LocalInv, ReworkInv, [Next]_vars, mode' = "local"
             PROVE  ReworkInv'
  BY DEF ReworkInv
<1>0. mode = "local"
  BY DEF Next, Initialize, Iterate, Save, Checkpoint, SkipTopics, IgnoreTopics,
     BeginRandomTopics, EndRandomTopics, CreateTrainer, LoadMetadata,
     RunPipeline, MoveOutput, RestartIO, LeaveLoop, CreateOutput, WriteMetadata,
     RenameMetadata, BeginPut, EndPut, RemoveOld, MoveNew, Crash, RunAgain,
     Restart, corpus, vars
<1>a. /\ ChkptInterval \in Nat \ {0} /\ iter \in Nat /\ iters \in Nat
      /\ Repeated \in Int /\ Saved \in Nat
      /\ input_t.n \in Nat /\ output_t.n \in Nat /\ tdoc_rdr.n \in Nat
  BY CheckpointAssumption, RepeatedSteps DEF TypeOK, File, Saved
<1>b. attempts' = attempts => Repeated' = Repeated
  BY RepeatedSteps
<1>c. chkpt_file' = chkpt_file => Saved' = Saved /\ SavedInv'
  BY <1>0 DEF ReworkInv, SavedInv, Saved
<1>d. pc \notin CopyPlaces
  BY <1>0 DEF LocalInv
<1>e. pc \in Reading => tdoc_rdr = input_t
  BY <1>0 DEF LocalInv, ReaderInv
<1> USE <1>0, <1>a, <1>b, <1>c
        DEF ReworkInv, BetweenSaves, InitPlaces, LoopPlaces, Reading,
        Absent, Partial, Whole, corpus, trainer, assignments, metadata
<1>1. CASE SkipTopics  BY <1>1 DEF SkipTopics
<1>2. CASE IgnoreTopics  BY <1>2 DEF IgnoreTopics
<1>3. CASE BeginRandomTopics  BY <1>3 DEF BeginRandomTopics
<1>4. CASE EndRandomTopics  BY <1>4 DEF EndRandomTopics
<1>5. CASE CreateTrainer  BY <1>5 DEF CreateTrainer
<1>6. CASE LoadMetadata
  <2>1. iter' = Saved + 1
    BY <1>6 DEF LoadMetadata, load_metadata, LocalInv, SavedInv, Saved, Exists,
       StartIter
  <2> QED  BY <1>6, <2>1 DEF LoadMetadata
<1>7. CASE RunPipeline  BY <1>7, <1>e DEF RunPipeline
<1>8. CASE MoveOutput  BY <1>8 DEF MoveOutput
<1>9. CASE RestartIO
  <2>1. CASE iter % ChkptInterval = 0
    BY <1>9, <2>1 DEF RestartIO
  <2>2. CASE iter % ChkptInterval # 0
    <3>1. iter < Saved + ChkptInterval
      <4>1. Saved % ChkptInterval = 0 /\ iter <= Saved + ChkptInterval
        BY <1>9 DEF RestartIO, SavedInv
      <4> QED  BY <2>2, <4>1, NextSave
    <3> QED  BY <1>9, <2>2, <3>1 DEF RestartIO, NextIteration
  <2> QED  BY <2>1, <2>2
<1>10. CASE LeaveLoop  BY <1>10 DEF LeaveLoop
<1>11. CASE CreateOutput  BY <1>11 DEF CreateOutput
<1>12. CASE WriteMetadata  BY <1>12 DEF WriteMetadata
<1>13. CASE RenameMetadata
  <2>1. chkpt_file' = Whole(iter)
    BY <1>13 DEF RenameMetadata, LocalInv, LoopInv
  <2>2. Saved' = iter /\ Exists(chkpt_file')
    BY <2>1 DEF Saved, Exists
  <2>3. iter % ChkptInterval = 0 /\ iter \in 1 .. iters
    BY <1>13 DEF RenameMetadata, TypeOK
  <2>4. SavedInv'
    <3>1. iters \in IterFlags
      BY DEF TypeOK
    <3>2. iter % 256 # NewLine
      BY <2>3, <3>1, StatesAreRead DEF StatesAreRead
    <3> QED  BY <2>2, <2>3, <3>2 DEF SavedInv
  <2> QED  BY <1>13, <2>2, <2>3, <2>4 DEF RenameMetadata, NextIteration
<1>14. CASE Checkpoint
  BY <1>14, <1>d DEF Checkpoint, BeginPut, EndPut, RemoveOld, MoveNew, CopyPlaces
<1>15. CASE Crash \/ RunAgain
  <2>1. Repeated' = Repeated + ChkptInterval
    BY <1>15, RepeatedSteps DEF Crash, RunAgain, Restart
  <2>2. UNCHANGED <<input_t, chkpt_file>> /\ pc' = "topics"
    BY <1>15 DEF Crash, RunAgain, Restart, FilesOfRestart
  <2> QED  BY <2>1, <2>2
<1>16. CASE UNCHANGED vars  BY <1>16 DEF vars
<1> QED
  BY <1>1, <1>2, <1>3, <1>4, <1>5, <1>6, <1>7, <1>8, <1>9, <1>10,
     <1>11, <1>12, <1>13, <1>14, <1>15, <1>16
     DEF Next, Initialize, Iterate, Save

(* What a restart repeats is at most the iterations since the last          *)
(* checkpoint, for every start (execute(), save_metadata()), as long as     *)
(* load_metadata() reads back every state that is saved.                    *)
THEOREM ReworkBounded ==
  ASSUME StatesAreRead PROVE Spec => []ReworkIsBounded
<1>1. Init => TypeOK /\ LocalInv /\ ReworkInv
  BY TypeInit, LocalInit, ReworkInit
<1>2. TypeOK /\ LocalInv /\ ReworkInv /\ [Next]_vars
        => (TypeOK /\ LocalInv /\ ReworkInv)'
  BY TypeNext, LocalNext, ReworkNext
<1>3. LocalInv /\ ReworkInv => ReworkIsBounded
  BY DEF LocalInv, ReaderInv, Reading, ReworkInv, ReworkIsBounded, Repeated,
     LoopPlaces
<1> QED  BY <1>1, <1>2, <1>3, PTL DEF Spec
=============================================================================
