------------------------------- MODULE Sweep -------------------------------
(***************************************************************************)
(* What an iteration over the documents promises, without pipeline, ring   *)
(* and table: in a sweep that resamples, each document gets new topics     *)
(* once, and the documents' topics are then written in the documents'      *)
(* order, one assignment for each document; the next sweep starts when all *)
(* are written.  Pipeline implements it.                                   *)
(***************************************************************************)
EXTENDS Naturals, Sequences

CONSTANTS N, Topicings(_)   \* number of documents, topics a document can have

VARIABLES
  assignment,  \* the topics of each document
  resampled,   \* documents that have new topics in this sweep
  written,     \* the topics written in this sweep
  resampling   \* whether this sweep resamples

vars == <<assignment, resampled, written, resampling>>

Init ==
  /\ assignment \in [1..N -> UNION {Topicings(k) : k \in 1..N}]
  /\ resampled = {} /\ written = <<>>
  /\ resampling \in BOOLEAN

Resample(k) ==
  /\ resampling /\ k \notin resampled
  /\ \E topics \in Topicings(k) : assignment' = [assignment EXCEPT ![k] = topics]
  /\ resampled' = resampled \cup {k}
  /\ UNCHANGED <<written, resampling>>

Write ==
  LET k == Len(written) + 1 IN
  /\ k <= N /\ (resampling => k \in resampled)
  /\ written' = Append(written, assignment[k])
  /\ UNCHANGED <<assignment, resampled, resampling>>

NextSweep ==
  /\ Len(written) = N
  /\ resampled' = {} /\ written' = <<>> /\ resampling' \in BOOLEAN
  /\ UNCHANGED assignment

Next == Write \/ NextSweep \/ \E k \in 1..N : Resample(k)

Spec == Init /\ [][Next]_vars
=============================================================================
